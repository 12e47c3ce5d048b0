------------------------------- MODULE CallLog -------------------------------
(***************************************************************************)
(* The client of the platform (viseca/client.py) and what it keeps of its  *)
(* calls (store/worker_events.py): every call ends in a summary, a refused *)
(* one in a refusal as well, each written to the store by a thread so that *)
(* no decision waits for it.  Closing the client waits for the threads.    *)
(* Calls are few; a call's place in `began` stands for its time.           *)
(*                                                                         *)
(* An operator whose name ends in _M is a mutation of the one after it.    *)
(***************************************************************************)
EXTENDS Integers, FiniteSets, Sequences, SequencesExt

CONSTANTS
    Calls,       \* the calls made
    Keep,        \* rows kept of a kind (KEEP)
    BoundsCalls, \* callers give up before the client does (Services.platform)
    StoreFails   \* a write may fail

CallLogAssumption ==
    Keep \in Nat \ {0} /\ BoundsCalls \in BOOLEAN /\ StoreFails \in BOOLEAN

VARIABLES
    call,     \* call[c]: idle, flight, ok, refused, or cut (cancelled by its caller)
    order,    \* the calls that raised VisecaError, as their callers saw them
    jobs,     \* jobs[j]: what the thread of record j = <<c, kind>> is at
    pending,  \* the records `drain` knows of (_pending_logs)
    rows,     \* worker_events of this kind, oldest first
    closing,  \* open, draining, closed
    batch     \* what the current round of drain waits for

vars == <<call, order, jobs, pending, rows, closing, batch>>

Jobs == Calls \X {"summary", "refusal"}
JobStates == {"none", "queued", "written", "failed"}

Init ==
    /\ call = [c \in Calls |-> "idle"]
    /\ order = << >>
    /\ jobs = [j \in Jobs |-> "none"]
    /\ pending = {} /\ batch = {}
    /\ rows = << >>
    /\ closing = "open"

(* _off_loop: a thread is given the record, drain is told. *)
OffLoop(records) ==
    /\ jobs' = [j \in Jobs |-> IF j \in records THEN "queued" ELSE jobs[j]]
    /\ pending' = pending \cup records

Request(c) ==
    /\ call[c] = "idle" /\ closing = "open"
    /\ call' = [call EXCEPT ![c] = "flight"]
    /\ UNCHANGED <<order, jobs, pending, rows, closing, batch>>

(* The summary goes out however the call ended. *)
Answered(c) ==
    /\ call[c] = "flight" /\ closing # "closed"
    /\ call' = [call EXCEPT ![c] = "ok"]
    /\ OffLoop({<<c, "summary">>})
    /\ UNCHANGED <<order, rows, closing, batch>>

(* An error status, no JSON, or no answer: a VisecaError, and a refusal. *)
Refused(c) ==
    /\ call[c] = "flight" /\ closing # "closed"
    /\ call' = [call EXCEPT ![c] = "refused"]
    /\ order' = Append(order, c)
    /\ OffLoop({<<c, "summary">>, <<c, "refusal">>})
    /\ UNCHANGED <<rows, closing, batch>>

(* The caller's own bound passes: the call is cancelled under it, and the  *)
(* caller raises the VisecaError. *)
CutShort(c) ==
    /\ BoundsCalls /\ call[c] = "flight" /\ closing # "closed"
    /\ call' = [call EXCEPT ![c] = "cut"]
    /\ order' = Append(order, c)
    /\ OffLoop({<<c, "summary">>})
    /\ UNCHANGED <<rows, closing, batch>>

(* worker_events.record: insert and prune, in one transaction. *)
Newest(s) == SubSeq(s, IF Len(s) > Keep THEN Len(s) - Keep + 1 ELSE 1, Len(s))
Record(c) == rows' = Newest(Append(rows, c))

Write(j) ==
    /\ jobs[j] = "queued"
    /\ \/ /\ jobs' = [jobs EXCEPT ![j] = "written"]
          /\ IF j[2] = "refusal" THEN Record(j[1]) ELSE UNCHANGED rows
       \/ /\ StoreFails
          /\ jobs' = [jobs EXCEPT ![j] = "failed"]
          /\ UNCHANGED rows
    /\ UNCHANGED <<call, order, pending, closing, batch>>

Finished(j) == jobs[j] \in {"written", "failed"}

(* The future's done callback, which a cancelled caller may leave unrun. *)
Discard(j) ==
    /\ j \in pending /\ Finished(j)
    /\ pending' = pending \ {j}
    /\ UNCHANGED <<call, order, jobs, rows, closing, batch>>

(* aclose: drain, in rounds, until nothing is pending. *)
Close ==
    /\ closing = "open"
    /\ closing' = "draining" /\ batch' = pending
    /\ UNCHANGED <<call, order, jobs, pending, rows>>

RoundEnds ==
    /\ closing = "draining" /\ \A j \in batch : Finished(j)
    /\ pending' = pending \ batch
    /\ batch' = pending'
    /\ closing' = IF pending' = {} THEN "closed" ELSE "draining"
    /\ UNCHANGED <<call, order, jobs, rows>>

Round == RoundEnds

Next ==
    \/ (\E c \in Calls : Request(c) \/ Answered(c) \/ Refused(c) \/ CutShort(c))
    \/ (\E j \in Jobs : Write(j) \/ Discard(j))
    \/ Close
    \/ Round

Spec == Init /\ [][Next]_vars

-----------------------------------------------------------------------------
(* Properties *)

TypeOK ==
    /\ call \in [Calls -> {"idle", "flight", "ok", "refused", "cut"}]
    /\ jobs \in [Jobs -> JobStates]
    /\ pending \subseteq Jobs /\ batch \subseteq Jobs
    /\ Len(rows) <= Keep
    /\ closing \in {"open", "draining", "closed"}

(* "a refusal outlives the log buffer" (client.py): when the client is     *)
(* closed, every refusal made before it found nothing to wait for is in    *)
(* the store, unless its write failed or newer ones have taken its place.  *)
Kept(c) ==
    \/ c \in Range(rows)
    \/ jobs[<<c, "refusal">>] = "failed"
    \/ Len(rows) = Keep
RefusalsOutliveTheClient ==
    [][closing' = "closed" /\ closing # "closed"
        => \A c \in Calls : call[c] = "refused" => Kept(c)]_vars

(* The rows kept are the newest ones written: what a write removes is      *)
(* older than all that stay. *)
OldestGoFirst ==
    [][\A i \in 1..Len(rows) :
          rows[i] \notin Range(rows') => \A k \in 1..(i - 1) : rows[k] \notin Range(rows')]_vars

=============================================================================
