-------------------------- MODULE MCPersonaRoster --------------------------
(***************************************************************************)
(* Two core roles f and m, two custom personas c1 and c2, an unknown id x. *)
(* The selections: none, built-ins or customs in any mixture, a custom     *)
(* persona alone, nobody, and roles by name.                               *)
(***************************************************************************)
EXTENDS PersonaRoster

CONSTANTS f, m, c1, c2, x

ByIds(ids) == [agent_roles |-> NoSelection, agent_ids |-> ids]
ByRoles(roles) == [agent_roles |-> roles, agent_ids |-> NoSelection]

MCCore == <<f, m>>
MCConfigs ==
  {ByIds(NoSelection), ByIds(<<>>), ByIds(<<c1>>), ByIds(<<m, c1, x>>), ByIds(<<c2, f, c1>>),
   ByRoles(<<>>), ByRoles(<<m>>), ByRoles(<<m, x>>)}

=============================================================================
