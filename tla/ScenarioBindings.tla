-------------------------- MODULE ScenarioBindings --------------------------
(***************************************************************************)
(* Which card a scenario runs on (viseca/worker.py profile_sightings,      *)
(* remember_profiles, _save_profiles; api/services.py bindings;            *)
(* api/routes_dev.py D3).  The catalogue names no card: the platform names *)
(* it in its bootstrap, in a run and in an authorization, and may run a    *)
(* scenario on another card tomorrow.  Every sighting is saved by a thread *)
(* of the process that saw it, which keeps the bindings it saved in memory *)
(* and writes a row only for one that differs.                             *)
(*                                                                         *)
(* Any process may see one: the worker that leads, and the one that serves *)
(* D3.  The customer of a row is the holder of its card.                   *)
(***************************************************************************)
EXTENDS Naturals, FiniteSets

CONSTANTS
  Scenarios, Cards,
  Pack,        \* the cards the local data pack gives them
  Workers,     \* the processes
  Threads,     \* sightings one process may be saving at a time
  NewCards,    \* cards the store does not know yet
  MaxSeen,     \* bound on the sightings
  Bare,        \* an authorization may name no profile
  Failures     \* a commit may fail

BindingsAssumption ==
  /\ MaxSeen \in Nat /\ {Bare, Failures} \subseteq BOOLEAN
  /\ NewCards \subseteq Cards /\ Pack \in [Scenarios -> Cards \cup {"none"}]

VARIABLES
  runsOn,      \* the card each scenario runs on at the platform
  told,        \* the bindings the platform has stated
  stored,      \* scenario_profiles
  cards,       \* cards the store knows
  known,       \* _profiles of each process
  saving,      \* what its threads are doing
  seen,        \* the number of sightings
  last         \* observed: the last sighting of each scenario that could be stored

vars == <<runsOn, told, stored, cards, known, saving, seen, last>>

NoRow == [card |-> "none", profile |-> "none"]
Binding == [card: Cards, profile: Cards \cup {"none"}]
Rows == [Scenarios -> Binding \cup {NoRow}]
Job == [at: {"idle", "seen", "written"}, scenario: Scenarios, says: Binding \cup {NoRow},
        no: 0..MaxSeen]
Idle == [at |-> "idle", scenario |-> CHOOSE s \in Scenarios : TRUE, says |-> NoRow, no |-> 0]

TypeOK ==
  /\ runsOn \in [Scenarios -> Cards] /\ told \in [Scenarios -> SUBSET Binding]
  /\ stored \in Rows /\ known \in [Workers -> Rows]
  /\ last \in [Scenarios -> [card: Cards \cup {"none"}, no: 0..MaxSeen]]
  /\ cards \subseteq Cards /\ seen \in 0..MaxSeen
  /\ saving \in [Workers -> [Threads -> Job]]

Nothing == [s \in Scenarios |-> NoRow]

Init ==
  /\ runsOn \in [Scenarios -> Cards]
  /\ told = [s \in Scenarios |-> {}]
  /\ stored = Nothing /\ last = [s \in Scenarios |-> [card |-> "none", no |-> 0]]
  /\ cards = Cards \ NewCards
  /\ known = [w \in Workers |-> Nothing]
  /\ saving = [w \in Workers |-> [t \in Threads |-> Idle]]
  /\ seen = 0

-----------------------------------------------------------------------------
(* The platform runs the scenario on another card from now on. *)
Reassign(s) ==
  /\ \E c \in Cards \ {runsOn[s]} : runsOn' = [runsOn EXCEPT ![s] = c]
  /\ UNCHANGED <<told, stored, cards, known, saving, seen, last>>

(* A reference sync brings a card. *)
SyncCard(c) ==
  /\ c \notin cards /\ cards' = cards \cup {c}
  /\ UNCHANGED <<runsOn, told, stored, known, saving, seen, last>>

(* profile_sightings: a profile belongs to a card, so it goes by its name.  *)
Stated(s) ==
  {[card |-> runsOn[s], profile |-> runsOn[s]]}
    \cup IF Bare THEN {[card |-> runsOn[s], profile |-> "none"]} ELSE {}

(* A sighting, handed to a thread. *)
remember_profiles(w, t, s, says) ==
  /\ saving[w][t].at = "idle" /\ seen < MaxSeen /\ seen' = seen + 1
  /\ told' = [told EXCEPT ![s] = @ \cup {says}]
  /\ saving' = [saving EXCEPT ![w][t] = [at |-> "seen", scenario |-> s, says |-> says,
                                             no |-> seen']]
  /\ UNCHANGED <<runsOn, stored, cards, known, last>>

(* The profile is kept when the sighting names none. *)
Merged(before, says) ==
  [card |-> says.card, profile |-> IF says.profile # "none" THEN says.profile ELSE before.profile]

Same(before, binding) == before = binding

(* A card the store does not know, named without its customer.             *)
Storable(says) == says.card \in cards \/ says.profile # "none"

(* _save_profiles, in its transaction: what cannot be stored is skipped, and *)
(* so is what was saved before.                                             *)
Save(w, t) ==
  /\ saving[w][t].at = "seen"
  /\ LET job == saving[w][t]
         s == job.scenario
         binding == Merged(known[w][s], job.says) IN
     /\ IF ~Storable(job.says) \/ Same(known[w][s], binding)
          THEN saving' = [saving EXCEPT ![w][t] = Idle] /\ UNCHANGED known
          ELSE /\ saving' = [saving EXCEPT ![w][t] = [@ EXCEPT !.at = "written", !.says = binding]]
               /\ known' = [known EXCEPT ![w][s] = binding]
     /\ last' = IF Storable(job.says) /\ job.no > last[s].no
                  THEN [last EXCEPT ![s] = [card |-> job.says.card, no |-> job.no]] ELSE last
  /\ UNCHANGED <<runsOn, told, stored, cards, seen>>

Commit(w, t) ==
  /\ saving[w][t].at = "written"
  /\ \/ stored' = [stored EXCEPT ![saving[w][t].scenario] = saving[w][t].says]
     \/ Failures /\ UNCHANGED stored
  /\ saving' = [saving EXCEPT ![w][t] = Idle]
  /\ UNCHANGED <<runsOn, told, cards, known, seen, last>>

(* The worker sees what the platform says now, or said in an earlier run    *)
(* that the event feed still lists.                                         *)
Sees(w, t, s) == \E says \in Stated(s) \cup told[s] : remember_profiles(w, t, s, says)

(* D3 starts a run on the card asked for, if nothing says the scenario runs *)
(* on another; the reply names the card it runs on.                         *)
CardOf(s) == IF stored[s] # NoRow THEN stored[s].card ELSE Pack[s]

create_run(w, t, s, c) ==
  /\ CardOf(s) \in {"none", c}
  /\ remember_profiles(w, t, s, [card |-> runsOn[s], profile |-> runsOn[s]])

Restart(w) ==
  /\ \A t \in Threads : saving[w][t].at = "idle"
  /\ known' = [known EXCEPT ![w] = Nothing]
  /\ UNCHANGED <<runsOn, told, stored, cards, saving, seen, last>>

Next ==
  \/ \E s \in Scenarios : Reassign(s)
  \/ \E c \in Cards : SyncCard(c)
  \/ \E w \in Workers : Restart(w)
  \/ \E w \in Workers, t \in Threads : Save(w, t) \/ Commit(w, t)
  \/ \E w \in Workers, t \in Threads, s \in Scenarios :
       Sees(w, t, s) \/ \E c \in Cards : create_run(w, t, s, c)

Spec == Init /\ [][Next]_vars

-----------------------------------------------------------------------------
Quiet == \A w \in Workers, t \in Threads : saving[w][t].at = "idle"

(* docs/database.md: the worker upserts each sighting, the newest wins; the *)
(* pack's card counts for a scenario never seen.  Otherwise D3 refuses the  *)
(* card a scenario runs on, and C12 and D8 show another customer's.         *)
NewestWins ==
  Quiet => \A s \in Scenarios : CardOf(s) = IF last[s].no > 0 THEN last[s].card ELSE Pack[s]

(* ServedProfile: a profile the platform names, with its scenario and its   *)
(* card.  No row mixes two of them.                                         *)
NamedTogether ==
  \A s \in Scenarios : stored[s].profile # "none" => stored[s] \in told[s]

=============================================================================
