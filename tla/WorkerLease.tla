----------------------------- MODULE WorkerLease -----------------------------
(***************************************************************************)
(* Several processes on one store and one Viseca team: one holds the       *)
(* worker lease (store/lease.py: an advisory lock of one connection) and   *)
(* decides, recovers and expires step-ups; the others stand by, and serve  *)
(* C8 and reads of the feed like the holder does.  The lock is gone when   *)
(* its connection breaks; the process sees it at its next look, at most    *)
(* every ten seconds.  The lock and the claims that keep the closes of one *)
(* process apart (StepUpWorker) are each process's own.                    *)
(*                                                                         *)
(* A step-up starts here when its process has decided and posted it.       *)
(***************************************************************************)
EXTENDS Integers, FiniteSets

CONSTANTS
  Process,
  StepUp,     \* live ids that will wait for the customer
  MaxBreaks,  \* bound on broken lease connections
  MaxCrashes, \* bound on process deaths
  MaxFaults   \* bound on calls to Viseca that fail or whose reply is lost

ASSUME LeaseAssumption == MaxBreaks \in Nat /\ MaxCrashes \in Nat /\ MaxFaults \in Nat

VARIABLES
  lease,      \* the session that has the advisory lock
  conn,       \* the lease connection as the server sees it
  role,       \* what the worker of a process does
  timer,      \* the expiries a process has armed
  claimed,    \* _resolve_sent of a process
  job,        \* the close a process is at, under its resolution lock
  row,        \* the Decision rows
  viseca,     \* the platform's step-ups
  lapsed,     \* the windows that have passed
  sent,       \* how many /resolve went out (an observation)
  breaks, crashes, faults

workers == <<lease, conn, role, timer>>
memory == <<claimed, job>>
outside == <<viseca, lapsed, sent>>
bounds == <<breaks, crashes, faults>>
vars == <<workers, memory, row, outside, bounds>>

None == "none"
Idle == [kind |-> "idle"]
Kind == {"answer", "timer", "read"}
Result == {"approved", "declined", "timeout"}
Job == {Idle} \cup
       [kind : Kind, of : StepUp, at : {"row", "platform", "send", "again", "record", "write"},
        says : Result]

TypeOK ==
  /\ lease \in Process \cup {None}
  /\ conn \in [Process -> {"none", "open", "broken"}]
  /\ role \in [Process -> {"standby", "sync", "recover", "loop"}]
  /\ timer \in [Process -> SUBSET StepUp]
  /\ claimed \in [Process -> SUBSET StepUp]
  /\ job \in [Process -> Job]
  /\ row \in [StepUp -> {None, "open"} \cup Result]
  /\ viseca \in [StepUp -> {None, "open", "approved", "declined", "expired"}]
  /\ lapsed \in SUBSET StepUp
  /\ sent \in [StepUp -> Nat]
  /\ breaks \in 0..MaxBreaks /\ crashes \in 0..MaxCrashes /\ faults \in 0..MaxFaults

Init ==
  /\ lease = None
  /\ conn = [p \in Process |-> "none"]
  /\ role = [p \in Process |-> "standby"]
  /\ timer = [p \in Process |-> {}]
  /\ claimed = [p \in Process |-> {}]
  /\ job = [p \in Process |-> Idle]
  /\ row = [d \in StepUp |-> None]
  /\ viseca = [d \in StepUp |-> None]
  /\ lapsed = {}
  /\ sent = [d \in StepUp |-> 0]
  /\ breaks = 0 /\ crashes = 0 /\ faults = 0

----------------------------------------------------------------------------
(* The lease.                                                              *)

\* acquire: pg_try_advisory_lock on a connection of its own.
TryLease(p) ==
  /\ role[p] = "standby"
  /\ lease = None
  /\ lease' = p
  /\ conn' = [conn EXCEPT ![p] = "open"]
  /\ role' = [role EXCEPT ![p] = "sync"]
  /\ UNCHANGED <<timer, memory, row, outside, bounds>>

\* The pending step-ups of live runs, whoever decided them.
Recovered == {d \in StepUp : row[d] = "open"}

\* _take_over, after the reference data: pending step-ups get their expiry
\* again, then the platform's list is read.
RecoverPending(p) ==
  /\ role[p] = "sync"
  /\ timer' = [timer EXCEPT ![p] = @ \cup Recovered]
  /\ role' = [role EXCEPT ![p] = "recover"]
  /\ UNCHANGED <<lease, conn, memory, row, outside, bounds>>

\* _reconcile_platform: what the ledger closed by timeout and the platform
\* still waits on is declined there.
Unheard(p) == {d \in StepUp : viseca[d] = "open" /\ row[d] = "timeout" /\ d \notin claimed[p]}
ReconcilePlatform(p) ==
  /\ role[p] = "recover" /\ job[p] = Idle
  /\ viseca' = [d \in StepUp |-> IF d \in Unheard(p) THEN "declined" ELSE viseca[d]]
  /\ sent' = [d \in StepUp |-> IF d \in Unheard(p) THEN sent[d] + 1 ELSE sent[d]]
  /\ claimed' = [claimed EXCEPT ![p] = @ \cup Unheard(p)]
  /\ role' = [role EXCEPT ![p] = "loop"]
  /\ UNCHANGED <<lease, conn, timer, job, row, lapsed, bounds>>

StillHeld_M(p) == TRUE
\* held: a round trip on the connection.
StillHeld(p) == conn[p] = "open"

\* _lease_lost, then _step_down: expiries are cancelled, with the close one of
\* them may be at; an answer or a read in progress goes on.
LeaseLost(p) ==
  /\ role[p] = "loop" /\ ~StillHeld(p)
  /\ conn' = [conn EXCEPT ![p] = "none"]
  /\ role' = [role EXCEPT ![p] = "standby"]
  /\ timer' = [timer EXCEPT ![p] = {}]
  /\ job' = IF job[p].kind = "timer" THEN [job EXCEPT ![p] = Idle] ELSE job
  /\ UNCHANGED <<lease, claimed, row, outside, bounds>>

Released(p) == IF lease = p THEN None ELSE lease

ConnectionBreaks(p) ==
  /\ breaks < MaxBreaks /\ breaks' = breaks + 1
  /\ conn[p] = "open"
  /\ conn' = [conn EXCEPT ![p] = "broken"]
  /\ lease' = Released(p)
  /\ UNCHANGED <<role, timer, memory, row, outside, crashes, faults>>

\* A process dies and starts again.
Crash(p) ==
  /\ crashes < MaxCrashes /\ crashes' = crashes + 1
  /\ conn' = [conn EXCEPT ![p] = "none"]
  /\ lease' = Released(p)
  /\ role' = [role EXCEPT ![p] = "standby"]
  /\ timer' = [timer EXCEPT ![p] = {}]
  /\ claimed' = [claimed EXCEPT ![p] = {}]
  /\ job' = [job EXCEPT ![p] = Idle]
  /\ UNCHANGED <<row, outside, breaks, faults>>

----------------------------------------------------------------------------
(* Step-ups: the loop decides and posts one, its window passes.            *)

AsksCustomer(p, d) ==
  /\ role[p] = "loop"
  /\ row[d] = None
  /\ row' = [row EXCEPT ![d] = "open"]
  /\ viseca' = [viseca EXCEPT ![d] = "open"]
  /\ timer' = [timer EXCEPT ![p] = @ \cup {d}]
  /\ UNCHANGED <<lease, conn, role, memory, lapsed, sent, bounds>>

WindowPasses(d) ==
  /\ row[d] # None /\ d \notin lapsed
  /\ lapsed' = lapsed \cup {d}
  /\ UNCHANGED <<workers, memory, row, viseca, sent, bounds>>

VisecaExpires(d) ==
  /\ d \in lapsed /\ viseca[d] = "open"
  /\ viseca' = [viseca EXCEPT ![d] = "expired"]
  /\ UNCHANGED <<workers, memory, row, lapsed, sent, bounds>>

----------------------------------------------------------------------------
(* A close, under the resolution lock of its process.                      *)

Begin(p, kind, d, says) ==
  /\ job[p] = Idle
  /\ job' = [job EXCEPT ![p] = [kind |-> kind, of |-> d, at |-> "row", says |-> says]]
  /\ UNCHANGED <<lease, conn, role, claimed, row, outside, bounds>>

\* C8, at any process.
Answer(p, d) ==
  /\ row[d] # None
  /\ \E a \in {"approved", "declined"} : Begin(p, "answer", d, a)
  /\ UNCHANGED timer
ExpireByTimer(p, d) ==
  /\ d \in timer[p] \cap lapsed
  /\ Begin(p, "timer", d, "timeout")
  /\ timer' = [timer EXCEPT ![p] = @ \ {d}]
\* A read of the feed closes what has lapsed, at any process.
ExpireByRead(p, d) ==
  /\ d \in lapsed /\ row[d] = "open"
  /\ Begin(p, "read", d, "timeout")
  /\ UNCHANGED timer

At(p, stage) == job[p] # Idle /\ job[p].at = stage
GoTo(p, stage, says) == job' = [job EXCEPT ![p].at = stage, ![p].says = says]
Ends(p) == job' = [job EXCEPT ![p] = Idle]
Fault == faults < MaxFaults /\ faults' = faults + 1
NoFault == UNCHANGED faults

\* _claim_resolve, of this process.
MayClaim(p, d) == d \notin claimed[p]
Claims(p, d) == claimed' = [claimed EXCEPT ![p] = @ \cup {d}]

ReadRow(p) ==
  /\ At(p, "row")
  /\ LET d == job[p].of
     IN IF row[d] # "open" THEN Ends(p) /\ UNCHANGED claimed
        ELSE IF job[p].kind # "answer" THEN GoTo(p, "platform", "timeout") /\ UNCHANGED claimed
        ELSE IF d \in lapsed \/ ~MayClaim(p, d) THEN Ends(p) /\ UNCHANGED claimed
        ELSE GoTo(p, "send", job[p].says) /\ Claims(p, d)
  /\ UNCHANGED <<workers, row, outside, bounds>>

\* _platform_result: what Viseca says of a step-up that is over.
Said(d) == IF viseca[d] = "expired" THEN "timeout" ELSE viseca[d]

ReadPlatform(p) ==
  /\ At(p, "platform")
  /\ LET d == job[p].of
     IN \/ /\ viseca[d] # "open" /\ NoFault
           /\ GoTo(p, "record", Said(d)) /\ UNCHANGED claimed
        \/ /\ IF viseca[d] = "open" THEN NoFault ELSE Fault
           /\ IF MayClaim(p, d) THEN GoTo(p, "send", "timeout") /\ Claims(p, d)
              ELSE GoTo(p, "record", "timeout") /\ UNCHANGED claimed
  /\ UNCHANGED <<workers, row, outside, breaks, crashes>>

Taken(d, says) == [viseca EXCEPT ![d] = IF says = "approved" THEN says ELSE "declined"]

Refused_M(p) == GoTo(p, IF job[p].kind # "answer" THEN "again" ELSE "record", job[p].says)
\* A 409: an expiry asks the platform again, an answer is given up.
Refused(p) == IF job[p].kind # "answer" THEN GoTo(p, "again", "timeout") ELSE Ends(p)

\* POST /resolve: taken, refused because the step-up is over (409), or failed
\* before or after Viseca took it.
Send(p) ==
  /\ At(p, "send")
  /\ LET d == job[p].of
     IN /\ sent' = [sent EXCEPT ![d] = @ + 1]
        /\ \/ /\ viseca[d] = "open" /\ NoFault
              /\ viseca' = Taken(d, job[p].says) /\ GoTo(p, "record", job[p].says)
           \/ /\ viseca[d] # "open" /\ NoFault
              /\ Refused(p)
              /\ UNCHANGED viseca
           \/ /\ Fault
              /\ viseca' \in {viseca} \cup (IF viseca[d] = "open" THEN {Taken(d, job[p].says)} ELSE {})
              /\ IF job[p].kind # "answer" THEN GoTo(p, "record", "timeout") ELSE Ends(p)
  /\ UNCHANGED <<workers, claimed, row, lapsed, breaks, crashes>>

\* After a 409 the platform is read again.
ReadAgain(p) ==
  /\ At(p, "again")
  /\ \/ NoFault /\ GoTo(p, "record", Said(job[p].of))
     \/ Fault /\ GoTo(p, "record", "timeout")
  /\ UNCHANGED <<workers, claimed, row, outside, breaks, crashes>>

\* ledger.resolve: one transaction reads the row and writes it; nothing locks
\* the row in between (READ COMMITTED).
ReadToRecord(p) ==
  /\ At(p, "record")
  /\ IF row[job[p].of] = "open" THEN GoTo(p, "write", job[p].says) ELSE Ends(p)
  /\ UNCHANGED <<workers, claimed, row, outside, bounds>>

Write(p) ==
  /\ At(p, "write")
  /\ row' = [row EXCEPT ![job[p].of] = job[p].says]
  /\ timer' = [timer EXCEPT ![p] = @ \ {job[p].of}]
  /\ Ends(p)
  /\ UNCHANGED <<lease, conn, role, claimed, outside, bounds>>

Leads(p) == TryLease(p) \/ RecoverPending(p) \/ ReconcilePlatform(p) \/ LeaseLost(p)
Closes(p) == ReadRow(p) \/ ReadPlatform(p) \/ Send(p) \/ ReadAgain(p) \/ ReadToRecord(p) \/ Write(p)

Next ==
  \/ \E p \in Process :
       \/ Leads(p) \/ Closes(p) \/ ConnectionBreaks(p) \/ Crash(p)
       \/ \E d \in StepUp : AsksCustomer(p, d) \/ Answer(p, d) \/ ExpireByTimer(p, d) \/ ExpireByRead(p, d)
  \/ \E d \in StepUp : WindowPasses(d) \/ VisecaExpires(d)

Spec == Init /\ [][Next]_vars

\* A standby tries the lease every few seconds and the holder looks at it; a
\* close that has begun goes on; a timer gets the resolution lock in its turn.
Fairness ==
  /\ SF_vars(\E p \in Process : TryLease(p)) /\ SF_vars(\E p \in Process : ReconcilePlatform(p))
  /\ \A p \in Process : WF_vars(RecoverPending(p)) /\ WF_vars(LeaseLost(p)) /\ WF_vars(Closes(p))
  /\ SF_vars(\E p \in Process, d \in StepUp : ExpireByTimer(p, d))
  /\ \A d \in StepUp : WF_vars(WindowPasses(d))
FairSpec == Spec /\ Fairness

----------------------------------------------------------------------------
\* A step-up is booked as approved only when Viseca approved it, whichever
\* processes answer, expire and take over together, and whatever calls fail.
CountedIsApproved == \A d \in StepUp : row[d] = "approved" => viseca[d] = "approved"

\* What waits for the customer when a new holder takes over is closed, though
\* nobody answers or reads, and the lease breaks again.
RecoveredCloses ==
  \A d \in StepUp :
    (row[d] = "open" /\ \E p \in Process : lease = p /\ role[p] = "sync") ~> row[d] \in Result

\* _step_down: "stop closing step-ups here; the new holder recovers them", so
\* each waiting step-up is closed.
EveryStepUpCloses == \A d \in StepUp : row[d] = "open" ~> row[d] \in Result

\* After the last break one process decides, and holds the lease.
SettlesOnOne ==
  <>[](\E p \in Process : lease = p /\ role[p] = "loop" /\ \A q \in Process \ {p} : role[q] = "standby")

=============================================================================
