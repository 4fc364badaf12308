---------------------------- MODULE PersonaRoster ----------------------------
(***************************************************************************)
(* Who sits in a debate: the personas in Mongo (storage/persona_store.py), *)
(* the endpoints that change and list them (api/app.py), and the selection *)
(* of agents whenever an orchestrator is built, which is at the start of a *)
(* debate and again at each resumption (orchestrator_factory.py,           *)
(* agents/registry.py).                                                    *)
(*                                                                         *)
(* A selection seeds the built-ins, one upsert each, then reads the        *)
(* collection once; other requests, of other processes, come between.  Any *)
(* of its operations may fail.  Personas are never deleted.  A persona is  *)
(* its id and its state; ids of custom personas are drawn by the server,   *)
(* so that a selection names existing ids, or unknown ones that stay so.   *)
(* Bounds: MaxBuilds selections of the one debate.                         *)
(***************************************************************************)
EXTENDS Naturals, SequencesExt

CONSTANTS Core,         \* DEFAULT_AGENT_ROLES, in order
          Customs,      \* ids of custom personas
          Configs,      \* agent_roles and agent_ids of the debate
          NoSelection,  \* None
          MaxBuilds

Builtins == ToSet(Core)
Ids == Builtins \cup Customs
Explicit(selection) == selection # NoSelection

ASSUME RosterAssumption ==
  /\ Builtins \cap Customs = {}
  /\ Core \in Seq(Builtins) /\ Core # <<>>
  /\ IsFiniteSet(Customs)
  /\ MaxBuilds \in Nat
  /\ \A c \in Configs : /\ DOMAIN c = {"agent_roles", "agent_ids"}
                        /\ \A f \in DOMAIN c : c[f] = NoSelection \/ c[f] \in Seq(ToSet(c[f]))

VARIABLES docs,         \* the collection: per id no document, or its is_active
          config,       \* the debate's, saved with its trace
          at, seeded,   \* the selection of the debate and a listing: place, upserts done
          builds,       \* selections begun for the debate
          roster,       \* the agents of its current execution
          first,        \* history: its first roster selected without a failure
          steady, seen, \* history: customs active at each moment of a selection, at some moment
          listed, known \* the last listing, and (history) what existed when it began

requestVars == <<at, seeded>>
historyVars == <<steady, seen, known>>
rosterVars == <<docs, config, at, seeded, builds, roster, first, steady, seen, listed, known>>

Readers == {"debate", "listing"}
NoRoster == [core |-> <<>>, custom |-> <<>>, by |-> "nobody"]
Exists(p) == docs[p] # "absent"
ActiveCustoms == {p \in Customs : docs[p] = "active"}

RosterInit ==
  /\ docs = [p \in Ids |-> "absent"]
  /\ config \in Configs
  /\ at = [r \in Readers |-> "idle"]
  /\ seeded = [r \in Readers |-> 0]
  /\ builds = 0
  /\ roster = NoRoster
  /\ first = NoRoster
  /\ steady = {} /\ seen = {}
  /\ listed = {} /\ known = {}

RosterTypeOK ==
  /\ docs \in [Ids -> {"absent", "active", "inactive"}]
  /\ config \in Configs
  /\ at \in [Readers -> {"idle", "seeding", "reading"}]
  /\ seeded \in [Readers -> 0..Len(Core) - 1]
  /\ builds \in 0..MaxBuilds
  /\ \A r \in {roster, first} : /\ r.core \in Seq(Builtins)
                                /\ r.custom \in Seq(Customs)
                                /\ r.by \in {"nobody", "selection", "fallback"}
  /\ steady \in SUBSET Customs /\ seen \in SUBSET Customs
  /\ listed \in SUBSET Ids /\ known \in SUBSET Ids

-----------------------------------------------------------------------------
\* The endpoints.

\* What a change of the collection means to a selection under way.
Watch(newDocs) ==
  LET now == {p \in Customs : newDocs[p] = "active"}
  IN  /\ docs' = newDocs
      /\ steady' = IF at["debate"] = "idle" THEN steady ELSE steady \cap now
      /\ seen' = IF at["debate"] = "idle" THEN seen ELSE seen \cup now

\* POST /agents
Create(p) ==
  /\ ~Exists(p)
  /\ Watch([docs EXCEPT ![p] = "active"])
  /\ UNCHANGED <<config, requestVars, builds, roster, first, listed, known>>

\* PATCH /agents/{agent_id}; a persona without a document is a 404.
SetActive(p, is_active) ==
  /\ Exists(p)
  /\ Watch([docs EXCEPT ![p] = IF is_active THEN "active" ELSE "inactive"])
  /\ UNCHANGED <<config, requestVars, builds, roster, first, listed, known>>

\* GET /agents
List ==
  /\ at["listing"] = "idle"
  /\ at' = [at EXCEPT !["listing"] = "seeding"]
  /\ known' = {p \in Ids : Exists(p)}
  /\ listed' = {}
  /\ UNCHANGED <<docs, config, seeded, builds, roster, first, steady, seen>>

-----------------------------------------------------------------------------
\* Building the debate's orchestrator.

Selected(core, custom) == [core |-> core, custom |-> custom, by |-> "selection"]

\* mutant of Roles: build_agents() takes what it gets
RolesAsGiven(roles) == roles
\* build_agents(): agent_roles or DEFAULT_AGENT_ROLES
Roles(roles) == IF roles = <<>> THEN Core ELSE roles

\* agent_roles decides without the store; a role not in the registry is a KeyError.
BuildFromRoles ==
  /\ builds < MaxBuilds
  /\ at["debate"] = "idle"
  /\ Explicit(config.agent_roles)
  /\ builds' = builds + 1
  /\ roster' = IF ToSet(config.agent_roles) \subseteq Builtins
               THEN Selected(Roles(config.agent_roles), <<>>)
               ELSE NoRoster
  /\ first' = IF first = NoRoster THEN roster' ELSE first
  /\ UNCHANGED <<docs, config, requestVars, historyVars, listed>>

\* A request can only name personas that were created before: their ids are drawn
\* by the server.
Nameable == Explicit(config.agent_ids) => \A p \in ToSet(config.agent_ids) \cap Customs : Exists(p)

\* _resolve_agent_selection() begins.
Select ==
  /\ builds < MaxBuilds
  /\ at["debate"] = "idle"
  /\ ~Explicit(config.agent_roles)
  /\ Nameable
  /\ builds' = builds + 1
  /\ at' = [at EXCEPT !["debate"] = "seeding"]
  /\ roster' = NoRoster
  /\ steady' = ActiveCustoms
  /\ seen' = ActiveCustoms
  /\ UNCHANGED <<docs, config, seeded, first, listed, known>>

\* mutant of Seeded: the loop ends one document early
SeededAlmost(n) == n + 1 = Len(Core)
Seeded(n) == n = Len(Core)

\* mutant of Upserted: $set instead of $setOnInsert
UpsertedAnew(p) == [docs EXCEPT ![p] = "active"]
Upserted(p) == [docs EXCEPT ![p] = IF Exists(p) THEN @ ELSE "active"]

\* ensure_builtins_seeded(): one upsert.
Seed(r) ==
  LET n == seeded[r] + 1
  IN  /\ at[r] = "seeding"
      /\ Watch(Upserted(Core[n]))
      /\ seeded' = [seeded EXCEPT ![r] = IF Seeded(n) THEN 0 ELSE n]
      /\ at' = [at EXCEPT ![r] = IF Seeded(n) THEN "reading" ELSE @]
      /\ UNCHANGED <<config, builds, roster, first, listed, known>>

\* The ids that are wanted, in the order they have.
Only(ids, wanted) ==
  LET kept[n \in 0..Len(ids)] ==
        IF n = 0 THEN <<>>
        ELSE IF ids[n] \in wanted THEN Append(kept[n - 1], ids[n]) ELSE kept[n - 1]
  IN  kept[Len(ids)]

\* mutant of Seated: an inactive persona is left out of an explicit selection too
SeatedIfActive(ids) == Only(ids, ActiveCustoms)

\* The custom personas of an explicit selection: an unknown id is dropped silently.
Seated(ids) == Only(ids, {p \in ToSet(ids) \cap Customs : Exists(p)})

\* mutant of Invited: the filter on is_active is missing
InvitedAll == {p \in Customs : Exists(p)}
\* list_active_custom()
Invited == ActiveCustoms

Read ==
  /\ at["debate"] = "reading"
  /\ at' = [at EXCEPT !["debate"] = "idle"]
  /\ IF Explicit(config.agent_ids)
     THEN roster' = Selected(Roles(Only(config.agent_ids, Builtins)),
                             Seated(config.agent_ids))
     ELSE \E order \in SetToSeqs(Invited) : roster' = Selected(Core, order)
  /\ first' = IF first = NoRoster THEN roster' ELSE first
  /\ UNCHANGED <<docs, config, seeded, builds, historyVars, listed>>

\* Any operation on the store raises: the core roles alone.
FallBack ==
  /\ at["debate"] # "idle"
  /\ at' = [at EXCEPT !["debate"] = "idle"]
  /\ seeded' = [seeded EXCEPT !["debate"] = 0]
  /\ roster' = [core |-> Core, custom |-> <<>>, by |-> "fallback"]
  /\ UNCHANGED <<docs, config, builds, first, historyVars, listed>>

ReadList ==
  /\ at["listing"] = "reading"
  /\ at' = [at EXCEPT !["listing"] = "idle"]
  /\ listed' = {p \in Ids : Exists(p)}
  /\ UNCHANGED <<docs, config, seeded, builds, roster, first, historyVars>>

ListFails ==
  /\ at["listing"] # "idle"
  /\ at' = [at EXCEPT !["listing"] = "idle"]
  /\ seeded' = [seeded EXCEPT !["listing"] = 0]
  /\ UNCHANGED <<docs, config, builds, roster, first, historyVars, listed>>

-----------------------------------------------------------------------------
RosterNext ==
  \/ \E p \in Customs : Create(p)
  \/ \E p \in Ids, b \in BOOLEAN : SetActive(p, b)
  \/ List \/ ReadList \/ ListFails
  \/ BuildFromRoles \/ Select \/ Read \/ FallBack
  \/ \E r \in Readers : Seed(r)

RosterSpec == RosterInit /\ [][RosterNext]_rosterVars

-----------------------------------------------------------------------------
Built == roster.by # "nobody"

\* Whatever was selected, whatever the collection held and whatever failed, a debate
\* that was built has agents (allocate() divides by their number), and each of its
\* custom agents has a persona to speak from.
RosterUsable ==
  /\ RosterTypeOK
  /\ Built =>
        /\ roster.core \o roster.custom # <<>>
        /\ \A p \in ToSet(roster.custom) : Exists(p)

\* In a default roster the custom personas are the active ones, in spite of PATCHes
\* and POSTs during the selection: none who was active throughout is missing, none who
\* was at no moment active is in it.  The core roles all sit in it, whatever a PATCH
\* made of the status of a built-in (their Mongo records are not asked).
DefaultCustomsAreCurrent ==
  (roster.by = "selection" /\ ~Explicit(config.agent_roles) /\ ~Explicit(config.agent_ids))
  => /\ roster.core = Core
     /\ steady \subseteq ToSet(roster.custom)
     /\ ToSet(roster.custom) \subseteq seen

\* A debate that names its agents has the same ones in every execution, whoever was
\* activated, deactivated or created in between, unless the store failed.
NamedAgentsStay ==
  (roster.by = "selection" /\ (Explicit(config.agent_roles) \/ Explicit(config.agent_ids)))
  => roster = first

\* GET /agents misses no built-in and nobody who existed when it began.
NobodyUnlisted == listed # {} => Builtins \cup known \subseteq listed

\* Reading personas changes none: a selection or listing inserts what is missing and
\* leaves the status of every existing persona as the last PATCH set it.
ReadersOnlyInsert ==
  [][requestVars' # requestVars => \A p \in Ids : Exists(p) => docs'[p] = docs[p]]_rosterVars

=============================================================================
