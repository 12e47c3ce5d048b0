------------------------------ MODULE KeyRing ------------------------------
(***************************************************************************)
(* passport/keys.py: OneGuard's signing keys.  A process that starts reads *)
(* the keys, makes one when none is active, keeps the oldest active key    *)
(* and marks the other active ones inactive; every step is a transaction   *)
(* of its own, and several processes may start on an empty store at once.  *)
(* A process signs with the key it chose, and loads the keys again when a  *)
(* document to verify names one it does not know.                          *)
(***************************************************************************)
EXTENDS Integers, FiniteSets

CONSTANTS
  Process,
  Key,        \* key ids, drawn at random: numbers, for the tie-break
  MaxTime     \* bound on the clock that stamps created_at

ASSUME KeyRingAssumption == Key \subseteq Nat \ {0} /\ MaxTime \in Nat \ {0}

VARIABLES
  clock,
  keys,       \* signing_keys: created_at of each key (0: not there), active
  load,       \* where each process is in load()
  made,       \* created_at of the key a process has made and not stored
  rows,       \* the keys a process read
  mine,       \* _active: the key a process signs with
  public,     \* _public: the keys a process knows
  docs        \* the keys of the documents signed so far

vars == <<clock, keys, load, made, rows, mine, public, docs>>

NoKey == 0
Stage == {"read", "make", "insert", "again", "prune", "reread", "pick", "done"}
Table == [Key -> [at : 0..MaxTime, active : BOOLEAN]]
There(t) == {k \in Key : t[k].at # 0}
Active(t) == {k \in There(t) : t[k].active}
Older(t, j, k) == t[j].at < t[k].at \/ (t[j].at = t[k].at /\ j < k)
Oldest(t, S) == CHOOSE k \in S : \A j \in S \ {k} : Older(t, k, j)

TypeOK ==
  /\ clock \in 1..MaxTime
  /\ keys \in Table
  /\ load \in [Process -> Stage]
  /\ made \in [Process -> 0..MaxTime]
  /\ rows \in [Process -> Table]
  /\ mine \in [Process -> Key \cup {NoKey}]
  /\ public \in [Process -> SUBSET Key]
  /\ docs \in SUBSET Key

NoKeys == [k \in Key |-> [at |-> 0, active |-> FALSE]]

Init ==
  /\ clock = 1
  /\ keys = NoKeys
  /\ load = [p \in Process |-> "read"]
  /\ made = [p \in Process |-> 0]
  /\ rows = [p \in Process |-> NoKeys]
  /\ mine = [p \in Process |-> NoKey]
  /\ public = [p \in Process |-> {}]
  /\ docs = {}

----------------------------------------------------------------------------
To(p, stage) == load' = [load EXCEPT ![p] = stage]

Tick ==
  /\ clock < MaxTime
  /\ clock' = clock + 1
  /\ UNCHANGED <<keys, load, made, rows, mine, public, docs>>

\* _rows, before and after a key is made, and after others were deactivated.
AfterRead(p) ==
  CASE load[p] = "read" -> IF Active(keys) = {} THEN "make" ELSE "prune"
    [] load[p] = "again" -> "prune"
    [] load[p] = "reread" -> "pick"
Read(p) ==
  /\ load[p] \in {"read", "again", "reread"}
  /\ rows' = [rows EXCEPT ![p] = keys]
  /\ To(p, AfterRead(p))
  /\ UNCHANGED <<clock, keys, made, mine, public, docs>>

\* _create: the key is stamped, then stored.
Stamp == clock
Make(p) ==
  /\ load[p] = "make"
  /\ made' = [made EXCEPT ![p] = Stamp]
  /\ To(p, "insert")
  /\ UNCHANGED <<clock, keys, rows, mine, public, docs>>

Insert(p) ==
  /\ load[p] = "insert"
  /\ \E k \in Key \ There(keys) : keys' = [keys EXCEPT ![k] = [at |-> made[p], active |-> TRUE]]
  /\ To(p, "again")
  /\ UNCHANGED <<clock, made, rows, mine, public, docs>>

\* Of the active keys read, all but the oldest are marked inactive.
Pruned_M(p) == {k \in Active(rows[p]) : \E j \in Active(rows[p]) : Older(rows[p], k, j)}
Pruned(p) == Active(rows[p]) \ {Oldest(rows[p], Active(rows[p]))}
Prune(p) ==
  /\ load[p] = "prune"
  /\ keys' = [k \in Key |-> IF k \in Pruned(p) THEN [keys[k] EXCEPT !.active = FALSE] ELSE keys[k]]
  /\ To(p, IF Pruned(p) = {} THEN "pick" ELSE "reread")
  /\ UNCHANGED <<clock, made, rows, mine, public, docs>>

Known(p) == There(rows[p])
\* The first active key of those read is the one to sign with.
Pick(p) ==
  /\ load[p] = "pick" /\ Active(rows[p]) # {}
  /\ mine' = [mine EXCEPT ![p] = Oldest(rows[p], Active(rows[p]))]
  /\ public' = [public EXCEPT ![p] = Known(p)]
  /\ To(p, "done")
  /\ UNCHANGED <<clock, keys, made, rows, docs>>

Sign(p) ==
  /\ load[p] = "done"
  /\ docs' = docs \cup {mine[p]}
  /\ UNCHANGED <<clock, keys, load, made, rows, mine, public>>

\* verify: a key this process does not know has it load again.
Verify(p, k) ==
  /\ load[p] = "done" /\ k \in docs \ public[p]
  /\ To(p, "read")
  /\ UNCHANGED <<clock, keys, made, rows, mine, public, docs>>

Next ==
  \/ Tick
  \/ \E p \in Process : Read(p) \/ Make(p) \/ Insert(p) \/ Prune(p) \/ Pick(p) \/ Sign(p)
  \/ \E p \in Process, k \in Key : Verify(p, k)

Spec == Init /\ [][Next]_vars
LoadFair(p) == WF_vars(Read(p) \/ Make(p) \/ Insert(p) \/ Prune(p) \/ Pick(p))
Fairness == \A p \in Process : LoadFair(p) /\ \A k \in Key : WF_vars(Verify(p, k))
FairSpec == Spec /\ Fairness

----------------------------------------------------------------------------
\* Whoever prunes, and from whatever it read, the oldest key stays active: the
\* keys are never all inactive, whatever starts together.
OldestStaysActive ==
  \A k \in There(keys) :
    (\A j \in There(keys) \ {k} : Older(keys, k, j)) => k \in Active(keys)

\* A document signed by any process can be verified by every one in the end.
EveryDocVerifies == \A k \in Key, p \in Process : k \in docs ~> k \in public[p]

=============================================================================
