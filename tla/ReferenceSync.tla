---------------------------- MODULE ReferenceSync ----------------------------
(***************************************************************************)
(* The reference data Viseca serves and what the store and the processes   *)
(* make of it (viseca/worker.py, store/seed.py): the holder of the worker  *)
(* lease syncs the served tables and the history file into the store, then *)
(* reloads the index and the known ids its decisions read.  A sync is a    *)
(* sequence of awaits; a second trigger joins the one in flight.           *)
(*                                                                         *)
(* The tables are the ids they hold (the served ones only grow), the       *)
(* history file the ids its rows refer to, a row of another content than   *)
(* before an id of its own.                                                *)
(***************************************************************************)
EXTENDS Integers, FiniteSets

CONSTANTS
  Process,
  Id,           \* merchants, items, customers and cards the pack does not have
  Tagged,       \* whether the history's metadata say which file is served
  MaxPublish,   \* bound on changes of what is served
  MaxFaults,    \* bound on calls and store work that fail
  MaxHandovers  \* bound on lost leases and process deaths

SyncAssumption ==
  Tagged \in BOOLEAN /\ MaxPublish \in Nat /\ MaxFaults \in Nat /\ MaxHandovers \in Nat

VARIABLES
  served,      \* what Viseca serves: pack version, tables, history file
  store,       \* the reference tables and the history of the store
  role,        \* of each process: down, standby, or the lease holder
  seen,        \* _reference_seen: the shape of the last sync that succeeded
  sha,         \* served_history_sha256
  index,       \* the history index decisions read
  known,       \* _known_ids
  unresolved,  \* _unresolved_ids
  asking,      \* ids whose events wait for the sync in flight
  boot,        \* the bootstrap: the version last read, the one a re-read waits for, the one it returned with
  sync,        \* the sync in flight
  published, faults, handovers

views == <<seen, sha, index, known, unresolved>>
bounds == <<published, faults, handovers>>
vars == <<served, store, role, views, asking, boot, sync, bounds>>

Served == [pack : 0..MaxPublish, ids : SUBSET Id, hist : SUBSET Id]
None == [pack |-> 0 - 1]
NoIndex == [ids |-> {}, hist |-> {}, loaded |-> FALSE]
Pack == {}
NoSync == [at |-> "idle"]
NoBoot == [read |-> 0 - 1, waits |-> 0 - 1, returned |-> 0 - 1]

\* reference_shape: pack version, row counts, the history's metadata.
Shape(ref) == [pack |-> ref.pack, count |-> Cardinality(ref.ids), meta |-> IF Tagged THEN ref.hist ELSE {}]

TypeOK ==
  /\ served \in Served
  /\ store \in [ids : SUBSET Id, hist : SUBSET Id, pack : -1..MaxPublish]
  /\ role \in [Process -> {"down", "standby", "lead"}]
  /\ seen \in [Process -> {None} \cup [pack : 0..MaxPublish, count : 0..Cardinality(Id), meta : SUBSET Id]]
  /\ sha \in [Process -> {None} \cup [hist : SUBSET Id]]
  /\ index \in [Process -> [ids : SUBSET Id, hist : SUBSET Id, loaded : BOOLEAN]]
  /\ known \in [Process -> {None} \cup [ids : SUBSET Id]]
  /\ sync \in [Process -> {NoSync} \cup
                  [at : {"fetch", "tables", "history", "reseed", "load", "known"}, ref : {None} \cup Served,
                   tables : BOOLEAN, changed : BOOLEAN, text : SUBSET Id]]
  /\ unresolved \in [Process -> SUBSET Id] /\ asking \in [Process -> SUBSET Id]
  /\ boot \in [Process -> [read : -1..MaxPublish, waits : -1..MaxPublish, returned : -1..MaxPublish]]
  /\ published \in 0..MaxPublish /\ faults \in 0..MaxFaults /\ handovers \in 0..MaxHandovers

Init ==
  /\ served = [pack |-> 0, ids |-> {}, hist |-> Pack]
  /\ store = [ids |-> {}, hist |-> Pack, pack |-> 0 - 1]
  /\ role = [p \in Process |-> "down"]
  /\ seen = [p \in Process |-> None]
  /\ sha = [p \in Process |-> None]
  /\ index = [p \in Process |-> NoIndex]
  /\ known = [p \in Process |-> None]
  /\ unresolved = [p \in Process |-> {}]
  /\ asking = [p \in Process |-> {}]
  /\ boot = [p \in Process |-> NoBoot]
  /\ sync = [p \in Process |-> NoSync]
  /\ published = 0 /\ faults = 0 /\ handovers = 0

----------------------------------------------------------------------------
(* What Viseca serves.                                                     *)

\* New rows, another history file over the rows there are; when its metadata
\* do not tell the file, the pack version does.
Publish ==
  /\ published < MaxPublish
  /\ published' = published + 1
  /\ \E ids \in SUBSET Id, hist \in SUBSET Id, pack \in {served.pack, published'} :
       /\ served.ids \subseteq ids /\ hist \subseteq ids
       /\ hist # served.hist /\ ~Tagged => pack # served.pack
       /\ served' = [pack |-> pack, ids |-> ids, hist |-> hist]
       /\ served' # served
  /\ UNCHANGED <<store, role, views, asking, boot, sync, faults, handovers>>

----------------------------------------------------------------------------
(* Triggers.                                                               *)

Syncs(p) == sync[p] # NoSync
Begun(ref) ==
  [at |-> IF ref = None THEN "fetch" ELSE "tables", ref |-> ref, tables |-> FALSE, changed |-> FALSE, text |-> {}]

\* _sync_reference: a sync in flight is joined.
SyncReference(p, ref) == sync' = IF Syncs(p) THEN sync ELSE [sync EXCEPT ![p] = Begun(ref)]

LeaseFree == \A p \in Process : role[p] # "lead"

\* start: the holder syncs before it reads the index; a standby reads it.
Start(p) ==
  /\ role[p] = "down"
  /\ boot' = [boot EXCEPT ![p].read = served.pack]
  /\ IF LeaseFree
     THEN /\ role' = [role EXCEPT ![p] = "lead"]
          /\ SyncReference(p, None) /\ UNCHANGED index
     ELSE /\ role' = [role EXCEPT ![p] = "standby"]
          /\ index' = [index EXCEPT ![p] = [ids |-> store.ids, hist |-> store.hist, loaded |-> TRUE]]
          /\ UNCHANGED sync
  /\ UNCHANGED <<served, store, seen, sha, known, unresolved, asking, bounds>>

\* _lead: a standby that takes the lease syncs first.
TakeLease(p) ==
  /\ role[p] = "standby" /\ LeaseFree
  /\ role' = [role EXCEPT ![p] = "lead"]
  /\ SyncReference(p, None)
  /\ UNCHANGED <<served, store, views, asking, boot, bounds>>

\* _check_reference, every few minutes: anything new in the shape served?
Drift(p) == seen[p] # Shape(served)
CheckReference(p) ==
  /\ role[p] = "lead" /\ Drift(p) /\ ~Syncs(p)
  /\ SyncReference(p, served)
  /\ UNCHANGED <<served, store, role, views, asking, boot, bounds>>

\* _refresh_bootstrap, before a run starts or the catalogue is listed: a new
\* pack version waits for a sync.
RefreshBootstrap(p) ==
  /\ role[p] = "lead" /\ boot[p].waits < 0 /\ boot[p].read # served.pack
  /\ boot' = [boot EXCEPT ![p].read = served.pack, ![p].waits = served.pack]
  /\ SyncReference(p, None)
  /\ UNCHANGED <<served, store, role, views, asking, bounds>>

Unknown(p, x) == known[p] # None /\ x \notin known[p].ids
\* _reference_rows: a purchase names an id the store does not know.
NamesUnknown(p, x) ==
  /\ role[p] = "lead"
  /\ Unknown(p, x) /\ x \notin unresolved[p] \cup asking[p]
  /\ asking' = [asking EXCEPT ![p] = @ \cup {x}]
  /\ SyncReference(p, None)
  /\ UNCHANGED <<served, store, role, views, boot, bounds>>

----------------------------------------------------------------------------
(* The sync.                                                               *)

At(p, stage) == Syncs(p) /\ sync[p].at = stage
Goes(p, stage) == sync' = [sync EXCEPT ![p].at = stage]
Fault == faults < MaxFaults /\ faults' = faults + 1
NoFault == UNCHANGED faults

FetchReference(p) ==
  /\ At(p, "fetch")
  /\ \/ NoFault /\ sync' = [sync EXCEPT ![p].at = "tables", ![p].ref = served]
     \/ Fault /\ Goes(p, "load")
  /\ UNCHANGED <<served, store, role, views, asking, boot, published, handovers>>

\* sync_served: did a table change?
Changed(p) == ~(sync[p].ref.ids \subseteq store.ids)

\* The history file is looked at again when its metadata or the pack changed.
SameHistory(p) ==
  /\ seen[p] # None
  /\ LET shape == Shape(sync[p].ref) IN seen[p].pack = shape.pack /\ seen[p].meta = shape.meta

\* A sync counts as one when its tables and its history came through.
Succeeds(p, tables, history) == IF tables /\ history THEN Shape(sync[p].ref) ELSE seen[p]
See(p, tables, history) == seen' = [seen EXCEPT ![p] = Succeeds(p, tables, history)]

\* sync_served, one transaction for all tables.
SyncTables(p) ==
  /\ At(p, "tables")
  /\ \E ok \in BOOLEAN :
       /\ IF ok THEN NoFault ELSE Fault
       /\ store' = IF ok THEN [store EXCEPT !.ids = @ \cup sync[p].ref.ids, !.pack = sync[p].ref.pack] ELSE store
       /\ sync' = [sync EXCEPT ![p].tables = ok, ![p].changed = ok /\ Changed(p),
                               ![p].at = IF SameHistory(p) THEN "load" ELSE "history"]
       /\ IF SameHistory(p) THEN See(p, ok, TRUE) ELSE UNCHANGED seen
  /\ UNCHANGED <<served, role, sha, index, known, unresolved, asking, boot, published, handovers>>

\* The stored file: what this process last saw, or the pack's.
Expected(p) == IF sha[p] = None THEN Pack ELSE sha[p].hist

\* _check_history: by the metadata, or the file itself.
CheckHistory(p) ==
  /\ At(p, "history")
  /\ \/ /\ NoFault
        /\ IF (IF Tagged THEN sync[p].ref.hist ELSE served.hist) = Expected(p)
           THEN /\ sha' = [sha EXCEPT ![p] = [hist |-> Expected(p)]]
                /\ See(p, sync[p].tables, TRUE) /\ Goes(p, "load")
           ELSE /\ UNCHANGED <<sha, seen>>
                /\ sync' = IF Tagged /\ served.hist # sync[p].ref.hist
                           THEN [sync EXCEPT ![p].at = "load"]
                           ELSE [sync EXCEPT ![p].at = "reseed", ![p].text = served.hist]
     \/ Fault /\ Goes(p, "load") /\ UNCHANGED <<sha, seen>>
  /\ UNCHANGED <<served, store, role, index, known, unresolved, asking, boot, published, handovers>>

\* reseed_history: refused when a row refers to what the tables do not have.
ReseedHistory(p) ==
  /\ At(p, "reseed")
  /\ \/ /\ sync[p].text \subseteq store.ids /\ NoFault
        /\ store' = [store EXCEPT !.hist = sync[p].text]
        /\ sha' = [sha EXCEPT ![p] = [hist |-> sync[p].text]]
        /\ See(p, sync[p].tables, TRUE)
        /\ sync' = [sync EXCEPT ![p].at = "load", ![p].changed = TRUE]
     \/ /\ IF sync[p].text \subseteq store.ids THEN Fault ELSE NoFault
        /\ Goes(p, "load") /\ UNCHANGED <<store, sha, seen>>
  /\ UNCHANGED <<served, role, index, known, unresolved, asking, boot, published, handovers>>

\* The index is replaced in place when this sync changed the store.
LoadHistory(p) ==
  /\ At(p, "load")
  /\ \/ /\ NoFault
        /\ index' = IF sync[p].changed \/ ~index[p].loaded
                    THEN [index EXCEPT ![p] = [ids |-> store.ids, hist |-> store.hist, loaded |-> TRUE]]
                    ELSE index
     \/ index[p].loaded /\ sync[p].changed /\ Fault /\ UNCHANGED index
  /\ Goes(p, "known")
  /\ UNCHANGED <<served, store, role, seen, sha, known, unresolved, asking, boot, published, handovers>>

Settled(p, ids) == [unresolved EXCEPT ![p] = @ \cup {x \in asking[p] : x \notin ids}]

\* The end of a sync: the known ids are read, and who waited goes on.
LoadKnownIds(p) ==
  /\ At(p, "known")
  /\ \/ NoFault /\ known' = [known EXCEPT ![p] = [ids |-> store.ids]]
     \/ Fault /\ UNCHANGED known
  /\ unresolved' = IF known'[p] = None THEN unresolved ELSE Settled(p, known'[p].ids)
  /\ asking' = [asking EXCEPT ![p] = {}]
  /\ sync' = [sync EXCEPT ![p] = NoSync]
  /\ boot' = IF boot[p].waits < 0 THEN boot
             ELSE [boot EXCEPT ![p].returned = boot[p].waits, ![p].waits = 0 - 1]
  /\ UNCHANGED <<served, store, role, seen, sha, index, published, handovers>>

----------------------------------------------------------------------------
(* Processes come and go.                                                  *)

Handover == handovers < MaxHandovers /\ handovers' = handovers + 1

\* _step_down: the sync is cancelled with those who wait for it, and the ids
\* they asked for count as not brought.
StepDown(p) ==
  /\ Handover
  /\ role[p] = "lead"
  /\ role' = [role EXCEPT ![p] = "standby"]
  /\ sync' = [sync EXCEPT ![p] = NoSync]
  /\ unresolved' = IF known[p] = None THEN unresolved ELSE Settled(p, known[p].ids)
  /\ asking' = [asking EXCEPT ![p] = {}]
  /\ boot' = [boot EXCEPT ![p].waits = 0 - 1]
  /\ UNCHANGED <<served, store, seen, sha, index, known, published, faults>>

Crash(p) ==
  /\ Handover
  /\ role[p] # "down"
  /\ role' = [role EXCEPT ![p] = "down"]
  /\ seen' = [seen EXCEPT ![p] = None] /\ sha' = [sha EXCEPT ![p] = None]
  /\ index' = [index EXCEPT ![p] = NoIndex] /\ known' = [known EXCEPT ![p] = None]
  /\ unresolved' = [unresolved EXCEPT ![p] = {}] /\ asking' = [asking EXCEPT ![p] = {}]
  /\ boot' = [boot EXCEPT ![p] = NoBoot] /\ sync' = [sync EXCEPT ![p] = NoSync]
  /\ UNCHANGED <<served, store, published, faults>>

RunSync(p) ==
  FetchReference(p) \/ SyncTables(p) \/ CheckHistory(p) \/ ReseedHistory(p) \/ LoadHistory(p) \/ LoadKnownIds(p)

Next ==
  \/ Publish
  \/ \E p \in Process :
       \/ Start(p) \/ TakeLease(p) \/ CheckReference(p) \/ RefreshBootstrap(p) \/ RunSync(p)
       \/ StepDown(p) \/ Crash(p)
       \/ \E x \in Id : NamesUnknown(p, x)

Spec == Init /\ [][Next]_vars

\* A sync that has begun goes on; the holder checks every five minutes; a
\* process that is down is started, and a standby tries the lease.
Fairness ==
  /\ \A p \in Process : WF_vars(RunSync(p)) /\ WF_vars(Start(p)) /\ SF_vars(TakeLease(p)) /\ SF_vars(CheckReference(p))
FairSpec == Spec /\ Fairness

----------------------------------------------------------------------------
\* What a process takes for synced, and will not sync again, is in the store:
\* whatever failed, and whoever syncs beside it.
SeenIsStored ==
  \A p \in Process : seen[p] # None => seen[p].pack <= store.pack /\ seen[p].count <= Cardinality(store.ids)

\* Every sync that fails is made good: the store comes to hold every row that
\* is served, though the lease changes hands in the middle of a sync.
TablesCatchUp == <>[](served.ids \subseteq store.ids)

=============================================================================
