---------------------------- MODULE MCStreamRun ----------------------------
(***************************************************************************)
(* A streamed debate s of two agents next to a blocking one, b, of a single*)
(* agent.  s, requested by its run id, begins anew; or is resumed after    *)
(* cuts of its second round at either agent, or after a failed synthesis.  *)
(* b is in its last round with a smaller committee than one that was cut.  *)
(***************************************************************************)
EXTENDS StreamRun

CONSTANTS s, b

MCTeam == [d \in Debates |-> IF d = s THEN 2 ELSE 1]

Was(n, g, e) == [rounds |-> n, gauge |-> g, scored |-> e]
MCPast ==
  [d \in Debates |->
     IF d = s
     THEN {Was(0, NoLabels, FALSE), Was(1, <<"active", "active">>, TRUE),
           Was(2, <<"idle", "idle">>, TRUE)}
     ELSE {Was(NumRounds - 1, <<"idle", "active">>, TRUE)}]

=============================================================================
