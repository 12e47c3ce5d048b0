---------------------------- MODULE OfflineReplay ----------------------------
(***************************************************************************)
(* api/offline.py: the replay of a scenario's purchases through the engine *)
(* and the ledger of live runs, on one process.  D2 stops the replay in    *)
(* progress and starts another; both are sequences of awaits, between      *)
(* which C5, C8, the expiry timers and the app's reads run.  All ledger    *)
(* calls run on one thread, which goes on when the task that waits for it  *)
(* is cancelled.                                                           *)
(*                                                                         *)
(* A request D2 makes one run: they share their name.  The runs row is     *)
(* left out (nothing of OneGuard reads a replay's state from it).          *)
(***************************************************************************)
EXTENDS Integers, FiniteSets

CONSTANTS
  Request,    \* D2 requests, and the run each of them starts
  N,          \* purchases of the scenario
  Overlap,    \* how many D2 may be in progress together
  MaxFaults   \* bound on store errors and process restarts

ReplayAssumption == N \in Nat \ {0} /\ Overlap \in Nat /\ MaxFaults \in Nat

VARIABLES
  mandate,    \* the card's latest policy in the store
  bound,      \* C5 has told the runner about the revocation
  req,        \* where each D2 is
  copy,       \* the policy a run decides by (PipelineContext.policy)
  task,       \* the task of each run
  decided,    \* what the run knows of its purchases (ReplayState.decided)
  current,    \* _state: the run started last
  lock,       \* _lock: the run that holds it
  thread,     \* the purchase the ledger thread decides
  ledger,     \* the Decision rows
  timer,      \* _expiry: the step-ups with an expiry task
  faults

asked == <<req, copy>>
runner == <<task, decided, current, lock, thread, timer>>
vars == <<mandate, bound, asked, runner, ledger, faults>>

None == "none"
NoPurchase == <<None, 0>>
Purchase == Request \X (1..N)
Status == {"active", "revoked"}
Outcome == {"approve", "decline", "waiting"}
Closing == {"answered", "expired"}
Going == {"pause", "lock", "engine", "note"}

TypeOK ==
  /\ mandate \in Status /\ bound \in BOOLEAN
  /\ req \in [Request -> {"idle", "policy", "stopped", "done"}]
  /\ copy \in [Request -> Status]
  /\ task \in [Request -> Going \cup {"none", "ended", "stopped"}]
  /\ decided \in [Purchase -> Outcome \cup Closing \cup {None}]
  /\ current \in Request \cup {None}
  /\ lock \in Request \cup {None}
  /\ thread \in Purchase \cup {NoPurchase}
  /\ ledger \in [Purchase -> Outcome \cup Closing \cup {None}]
  /\ timer \in SUBSET Purchase
  /\ faults \in 0..MaxFaults

Init ==
  /\ mandate = "active" /\ bound = FALSE
  /\ req = [r \in Request |-> "idle"]
  /\ copy = [r \in Request |-> "active"]
  /\ task = [r \in Request |-> "none"]
  /\ decided = [x \in Purchase |-> None]
  /\ current = None /\ lock = None /\ thread = NoPurchase
  /\ ledger = [x \in Purchase |-> None]
  /\ timer = {}
  /\ faults = 0

----------------------------------------------------------------------------
(* D2 and C5.                                                              *)

InProgress == {r \in Request : req[r] \in {"policy", "stopped"}}

\* _replay_policy: the card's latest policy as the store has it now.
ReadPolicy(r) ==
  /\ req[r] = "idle"
  /\ Cardinality(InProgress) < Overlap
  /\ req' = [req EXCEPT ![r] = "policy"]
  /\ copy' = [copy EXCEPT ![r] = mandate]
  /\ UNCHANGED <<mandate, bound, runner, ledger, faults>>

\* _stop_replay: the run started last, when its task is not done.
Stopped == {r \in Request : r = current /\ task[r] \in Going}

\* Its task is cancelled wherever it waits, and lets go of the lock; what the
\* ledger thread does goes on.
StopReplay(r) ==
  /\ req[r] = "policy"
  /\ req' = [req EXCEPT ![r] = "stopped"]
  /\ task' = [q \in Request |-> IF q \in Stopped THEN "stopped" ELSE task[q]]
  /\ lock' = IF lock \in Stopped THEN None ELSE lock
  /\ UNCHANGED <<mandate, bound, copy, decided, current, thread, ledger, timer, faults>>

Queued_M == TRUE
\* The new run's session is asked of the ledger thread, after what it does.
Queued == thread = NoPurchase

Install(r) ==
  /\ req[r] = "stopped" /\ Queued
  /\ req' = [req EXCEPT ![r] = "done"]
  /\ current' = r
  /\ task' = [task EXCEPT ![r] = "pause"]
  /\ UNCHANGED <<mandate, bound, copy, decided, lock, thread, ledger, timer, faults>>

Revoke ==
  /\ mandate = "active"
  /\ mandate' = "revoked"
  /\ UNCHANGED <<bound, asked, runner, ledger, faults>>

\* bind_policy: the run started last decides by the revoked policy from its
\* next purchase on.
BindPolicy ==
  /\ mandate = "revoked" /\ ~bound
  /\ bound' = TRUE
  /\ copy' = IF current = None THEN copy ELSE [copy EXCEPT ![current] = "revoked"]
  /\ UNCHANGED <<mandate, req, runner, ledger, faults>>

----------------------------------------------------------------------------
(* The task of a run.                                                      *)

Delivered(r) == Cardinality({i \in 1..N : decided[<<r, i>>] # None})
NextUp(r) == <<r, Delivered(r) + 1>>
To(r, stage) == task' = [task EXCEPT ![r] = stage]

\* The next event is stamped and stored.
Deliver(r) ==
  /\ task[r] = "pause" /\ Delivered(r) < N
  /\ To(r, "lock")
  /\ UNCHANGED <<mandate, bound, asked, decided, current, lock, thread, ledger, timer, faults>>

TakeLock(r) ==
  /\ task[r] = "lock" /\ lock = None /\ thread = NoPurchase
  /\ To(r, "engine")
  /\ lock' = r
  /\ thread' = NextUp(r)
  /\ UNCHANGED <<mandate, bound, asked, decided, current, ledger, timer, faults>>

\* decide_event on the ledger thread: a revoked policy declines everything.
DecideEvent ==
  /\ thread # NoPurchase
  /\ \E o \in IF copy[thread[1]] = "revoked" THEN {"decline"} ELSE Outcome :
       ledger' = [ledger EXCEPT ![thread] = o]
  /\ thread' = NoPurchase
  /\ task' = [r \in Request |-> IF r = thread[1] /\ task[r] = "engine" THEN "note" ELSE task[r]]
  /\ UNCHANGED <<mandate, bound, asked, decided, current, lock, timer, faults>>

Armed(x) == IF ledger[x] = "waiting" THEN timer \cup {x} ELSE timer

\* The task resumes: it counts the purchase and arms the expiry of a step-up.
Note(r) ==
  /\ task[r] = "note"
  /\ lock' = None
  /\ decided' = [decided EXCEPT ![NextUp(r)] = ledger[NextUp(r)]]
  /\ timer' = Armed(NextUp(r))
  /\ To(r, "pause")
  /\ UNCHANGED <<mandate, bound, asked, current, thread, ledger, faults>>

RunEnds(r) ==
  /\ task[r] = "pause" /\ Delivered(r) = N
  /\ To(r, "ended")
  /\ UNCHANGED <<mandate, bound, asked, decided, current, lock, thread, ledger, timer, faults>>

----------------------------------------------------------------------------
(* Closing a step-up: C8, its timer, or a read of the feed after its       *)
(* window.  Under the lock, on the ledger thread, re-read first (_fresh).  *)

\* _mark: the run started last follows what became of its purchases.
Marked(x, how) ==
  IF x[1] = current /\ decided[x] # None THEN [decided EXCEPT ![x] = how] ELSE decided

Close(x, how) ==
  /\ lock = None /\ thread = NoPurchase
  /\ ledger[x] = "waiting"
  /\ ledger' = [ledger EXCEPT ![x] = how]
  /\ timer' = timer \ {x}
  /\ decided' = Marked(x, how)
  /\ UNCHANGED <<mandate, bound, asked, task, current, lock, thread, faults>>

Answer(x) == Close(x, "answered")
Expire(x) == x \in timer /\ Close(x, "expired")
Lapsed_M(x) == x \in timer
Lapsed(x) == TRUE
ReadLapsed(x) == Lapsed(x) /\ Close(x, "expired")

----------------------------------------------------------------------------
(* Store errors and restarts.                                              *)

Fault == faults < MaxFaults /\ faults' = faults + 1

\* An expiry whose close raises ends; nothing arms it again.
ExpiryFails(x) ==
  /\ Fault
  /\ x \in timer
  /\ timer' = timer \ {x}
  /\ UNCHANGED <<mandate, bound, asked, task, decided, current, lock, thread, ledger>>

\* The run's task ends with an error: before its decision, or after it was stored.
RunFails(r) ==
  /\ Fault
  /\ task[r] \in {"pause", "note"}
  /\ To(r, "ended")
  /\ lock' = IF lock = r THEN None ELSE lock
  /\ UNCHANGED <<mandate, bound, asked, decided, current, thread, ledger, timer>>

\* The process restarts: nothing takes a replay up again.
Restart ==
  /\ Fault
  /\ req' = [r \in Request |-> IF req[r] = "idle" THEN "idle" ELSE "done"]
  /\ task' = [r \in Request |-> IF task[r] = "none" THEN "none" ELSE "stopped"]
  /\ decided' = [x \in Purchase |-> None]
  /\ current' = None /\ lock' = None /\ thread' = NoPurchase /\ timer' = {}
  /\ UNCHANGED <<mandate, bound, copy, ledger>>

Next ==
  \/ \E r \in Request :
       \/ ReadPolicy(r) \/ StopReplay(r) \/ Install(r)
       \/ Deliver(r) \/ TakeLock(r) \/ Note(r) \/ RunEnds(r) \/ RunFails(r)
  \/ \E x \in Purchase : Answer(x) \/ Expire(x) \/ ReadLapsed(x) \/ ExpiryFails(x)
  \/ Revoke \/ BindPolicy \/ DecideEvent \/ Restart

Spec == Init /\ [][Next]_vars

\* The ledger thread and the tasks go on; the customer's app reads its feed
\* every few seconds, and a read closes what has lapsed.
Fairness ==
  /\ WF_vars(DecideEvent)
  /\ \A r \in Request : WF_vars(Deliver(r)) /\ WF_vars(Note(r)) /\ WF_vars(RunEnds(r))
  /\ SF_vars(\E r \in Request : TakeLock(r)) /\ SF_vars(\E x \in Purchase : ReadLapsed(x))
FairSpec == Spec /\ Fairness

----------------------------------------------------------------------------
\* restart: the replay in progress is stopped before another starts.
OneReplay == Cardinality({r \in Request : task[r] \in Going}) <= 1

\* A replay that was stopped while the ledger thread decided its purchase
\* records that one at most, before the next replay starts.
RecordsIntoCurrent == thread # NoPurchase => thread[1] = current

\* What the run knows of its purchases is what the ledger says, whoever closed
\* them and in whatever order with the run's own steps.
KnowsItsPurchases ==
  current # None => \A i \in 1..N :
    decided[<<current, i>>] # None => decided[<<current, i>>] = ledger[<<current, i>>]

\* Every step-up a run has counted expires by itself, also after the run was
\* stopped or has ended.
CountedHasATimer ==
  \A x \in Purchase : decided[x] # None /\ ledger[x] = "waiting" => x \in timer

\* A purchase is decided and counted in turn, and at most one of a run that
\* was stopped is in the ledger without the run's knowing.
CountsInTurn ==
  \A r \in Request, i \in 1..N :
    /\ decided[<<r, i>>] # None => \A j \in 1..i : ledger[<<r, j>>] # None /\ decided[<<r, j>>] # None
    /\ ledger[<<r, i>>] # None /\ decided[<<r, i>>] = None =>
         task[r] \in {"note", "stopped"} /\ i = Delivered(r) + 1

\* Whatever was cancelled, failed or restarted: a step-up is closed in the end.
EveryStepUpCloses == \A x \in Purchase : ledger[x] = "waiting" ~> ledger[x] \in Closing

=============================================================================
