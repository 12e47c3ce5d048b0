------------------------------ MODULE Drafting ------------------------------
(***************************************************************************)
(* Reading a customer's instruction while a language model may be slow     *)
(* (api/routes_customer.py create_draft, new_draft, _compile;              *)
(* api/ratelimit.py; llm/validate.py with_deadline; llm providers).        *)
(*                                                                         *)
(* C1 counts a draft against its customer's limit, then compiles it on a   *)
(* thread of the process's executor and waits so long for it.  The         *)
(* compiler asks the model on a thread of a small pool and waits shorter.  *)
(* Decisions ask the model through the same pool (tier 2), and a decision  *)
(* after a restart reads its policy on the same executor.  A thread that   *)
(* runs cannot be stopped: who gives up leaves it running, and takes back  *)
(* only what has not started.  The compiler waits shorter than C1.         *)
(*                                                                         *)
(* Waits end when their time is up, and what does not wait takes less than *)
(* a tick: see Tick.                                                       *)
(***************************************************************************)
EXTENDS Naturals, Sequences, SequencesExt, FiniteSets

CONSTANTS
  Drafts, Facts, Restores,   \* C1 requests, tier-2 questions, policy reads
  CustomerOf,                \* the customer of each draft
  Limit, Window,             \* SlidingWindowLimiter
  Servers,                   \* what a server may be: [threads, provider]
  PoolSize,                  \* model threads
  ReadTime, DraftTime,       \* how long the compiler waits, and C1
  FactTime, DecideTime       \* how long tier 2 waits, and the platform

DraftingAssumption ==
  /\ {Limit, Window, PoolSize, ReadTime, DraftTime, FactTime, DecideTime} \subseteq Nat \ {0}
  /\ ReadTime < DraftTime
  /\ Servers \subseteq [threads : Nat \ {0}, provider : BOOLEAN]
  /\ Drafts \cap Facts = {} /\ Restores \cap (Drafts \cup Facts) = {}

Callers == Drafts \cup Facts
Jobs == Drafts \cup Restores
Askers == Callers \cup Restores

VARIABLES
  server,      \* the threads of its executor, and whether a model is configured
  accepted,    \* observed: the ages of each customer's accepted drafts, oldest first
  window,      \* the limiter's _calls, as ages, oldest first
  comeBack,    \* observed: ticks until a refused customer was told to come back, or Never
  caller,      \* what each asker of a draft, a fact or a policy has
  age,         \* ticks since it asked
  queue,       \* jobs the executor has not started, in order
  job,         \* what each executor job does
  calls,       \* model calls the pool has not started, in order
  call,        \* what each model call does
  waited,      \* ticks since it was made
  reading      \* what each draft or fact was read with

vars == <<server, accepted, window, comeBack, caller, age, queue, job, calls, call, waited, reading>>
limits == <<accepted, window, comeBack>>

Threads == server.threads
Provider == server.provider
Customers == {CustomerOf[d] : d \in Drafts}
Never == Window + 1

(* How long each waits. *)
Patience(x) == IF x \in Drafts THEN DraftTime ELSE IF x \in Facts THEN FactTime ELSE DecideTime
Wait(x) == IF x \in Drafts THEN ReadTime ELSE FactTime

Busy == {j \in Jobs : job[j] \in {"running", "asks"}}
Calling == {x \in Callers : call[x] = "running"}

TypeOK ==
  /\ server \in Servers
  /\ {window, accepted} \subseteq [Customers -> Seq(0..Window)]
  /\ \A c \in Customers : Len(window[c]) <= Limit
  /\ comeBack \in [Customers -> 0..Never]
  /\ caller \in [Askers -> {"none", "waiting", "limited", "timeout", "answered"}]
  /\ \A x \in Askers : age[x] \in 0..(Patience(x) + 1)
  /\ \A x \in Callers : waited[x] \in 0..Wait(x)
  /\ queue \in Seq(Jobs) /\ calls \in Seq(Callers)
  /\ Range(queue) = {j \in Jobs : job[j] = "queued"} /\ IsInjective(queue)
  /\ job \in [Jobs -> {"none", "queued", "running", "asks", "done"}] /\ Cardinality(Busy) <= Threads
  /\ Range(calls) = {x \in Callers : call[x] = "queued"} /\ IsInjective(calls)
  /\ call \in [Callers -> {"none", "queued", "running", "json", "unusable", "dropped"}]
  /\ Cardinality(Calling) <= PoolSize
  /\ reading \in [Callers -> {"none", "llm", "fallback"}]

Init ==
  /\ server \in Servers
  /\ accepted = [c \in Customers |-> <<>>] /\ window = accepted
  /\ comeBack = [c \in Customers |-> Never]
  /\ caller = [x \in Askers |-> "none"] /\ age = [x \in Askers |-> 0]
  /\ queue = <<>> /\ job = [j \in Jobs |-> "none"]
  /\ calls = <<>> /\ call = [x \in Callers |-> "none"] /\ waited = [x \in Callers |-> 0]
  /\ reading = [x \in Callers |-> "none"]

-----------------------------------------------------------------------------
(* SlidingWindowLimiter.acquire: calls leave the window from its old end. *)

Leaves(s, n) == (\A i \in 1..n : s[i] >= Window) /\ (n < Len(s) => s[n + 1] < Window)
Left(s) == CHOOSE n \in 0..Len(s) : Leaves(s, n)
InWindow(s) == SubSeq(s, Left(s) + 1, Len(s))

(* The oldest call in the window leaves it. *)
RetryAfter(live) == Window - live[1]

(* C1.  Over the limit nothing is counted. *)
create_draft(d) ==
  LET c == CustomerOf[d]
      live == InWindow(window[c]) IN
  /\ caller[d] = "none"
  /\ IF Len(live) < Limit
       THEN /\ window' = [window EXCEPT ![c] = Append(live, 0)]
            /\ accepted' = [accepted EXCEPT ![c] = Append(@, 0)]
            /\ comeBack' = [comeBack EXCEPT ![c] = Never]
            /\ caller' = [caller EXCEPT ![d] = "waiting"]
            /\ job' = [job EXCEPT ![d] = "queued"] /\ queue' = Append(queue, d)
       ELSE /\ window' = [window EXCEPT ![c] = live]
            /\ comeBack' = [comeBack EXCEPT ![c] = RetryAfter(live)]
            /\ caller' = [caller EXCEPT ![d] = "limited"]
            /\ UNCHANGED <<accepted, job, queue>>
  /\ UNCHANGED <<server, age, calls, call, waited, reading>>

-----------------------------------------------------------------------------
(* What waits in a queue is taken back. *)
Withdrawn(x, s, t) == \E i \in DOMAIN s : s[i] = x /\ t = RemoveAt(s, i)

(* The executor *)

_restore_policy(r) ==
  /\ caller[r] = "none"
  /\ caller' = [caller EXCEPT ![r] = "waiting"]
  /\ job' = [job EXCEPT ![r] = "queued"] /\ queue' = Append(queue, r)
  /\ UNCHANGED <<server, limits, age, calls, call, waited, reading>>

JobStarts ==
  /\ queue # <<>> /\ Cardinality(Busy) < Threads
  /\ job' = [job EXCEPT ![Head(queue)] = "running"] /\ queue' = Tail(queue)
  /\ UNCHANGED <<server, limits, caller, age, calls, call, waited, reading>>

(* complete_json: the call goes to the pool. *)
Submitted(x) == calls' = Append(calls, x) /\ call' = [call EXCEPT ![x] = "queued"]

compile_instruction(d) ==
  /\ job[d] = "running" /\ reading[d] = "none"
  /\ IF Provider THEN Submitted(d) /\ job' = [job EXCEPT ![d] = "asks"] /\ UNCHANGED reading
                 ELSE /\ reading' = [reading EXCEPT ![d] = "fallback"]
                      /\ UNCHANGED <<job, calls, call>>
  /\ UNCHANGED <<server, limits, caller, age, queue, waited>>

(* The draft is stored for a caller who still waits; the policy is read. *)
JobEnds(j) ==
  /\ job[j] = "running" /\ (j \in Drafts => reading[j] # "none")
  /\ job' = [job EXCEPT ![j] = "done"]
  /\ caller' = IF caller[j] = "waiting" THEN [caller EXCEPT ![j] = "answered"] ELSE caller
  /\ UNCHANGED <<server, limits, age, queue, calls, call, waited, reading>>

(* _compile gives up: 504. *)
_compile(d) ==
  /\ caller[d] = "waiting" /\ age[d] >= DraftTime
  /\ caller' = [caller EXCEPT ![d] = "timeout"]
  /\ IF job[d] = "queued" THEN job' = [job EXCEPT ![d] = "done"] /\ Withdrawn(d, queue, queue')
                          ELSE UNCHANGED <<job, queue>>
  /\ UNCHANGED <<server, limits, age, calls, call, waited, reading>>

-----------------------------------------------------------------------------
(* The model's pool *)

(* Tier 2 of a decision asks from the engine's thread, one at a time. *)
AsksFact(f) ==
  /\ Provider /\ caller[f] = "none" /\ \A g \in Facts : caller[g] # "waiting"
  /\ caller' = [caller EXCEPT ![f] = "waiting"]
  /\ Submitted(f)
  /\ UNCHANGED <<server, limits, age, queue, job, waited, reading>>

CallStarts ==
  /\ calls # <<>> /\ Cardinality(Calling) < PoolSize
  /\ call' = [call EXCEPT ![Head(calls)] = "running"] /\ calls' = Tail(calls)
  /\ UNCHANGED <<server, limits, caller, age, queue, job, waited, reading>>

(* The model answers: an object the schema allows, or anything else.  When   *)
(* nobody waits any more, the answer is discarded.                          *)
CallEnds(x) ==
  /\ call[x] = "running" /\ call' \in {[call EXCEPT ![x] = "json"], [call EXCEPT ![x] = "unusable"]}
  /\ UNCHANGED <<server, limits, caller, age, queue, job, calls, waited, reading>>

Asking(x) == IF x \in Drafts THEN job[x] = "asks" ELSE caller[x] = "waiting"

(* The asker goes on with what the model said, or without it. *)
GoesOn(x, with) ==
  /\ reading' = [reading EXCEPT ![x] = with]
  /\ IF x \in Drafts THEN job' = [job EXCEPT ![x] = "running"] /\ UNCHANGED caller
                     ELSE caller' = [caller EXCEPT ![x] = "answered"] /\ UNCHANGED job

parse_and_validate(x) ==
  /\ Asking(x) /\ call[x] \in {"json", "unusable"}
  /\ GoesOn(x, IF call[x] = "json" THEN "llm" ELSE "fallback")
  /\ UNCHANGED <<server, limits, age, queue, calls, call, waited>>

Late(x) == Asking(x) /\ call[x] \in {"queued", "running"} /\ waited[x] >= Wait(x)

(* A bug a change could bring: the call of who gave up stays in the queue. *)
with_deadline_M(x) ==
  /\ Late(x)
  /\ GoesOn(x, "fallback")
  /\ UNCHANGED <<server, limits, age, queue, calls, call, waited>>

(* Time is up: a call that has not started is taken back. *)
with_deadline(x) ==
  /\ Late(x)
  /\ GoesOn(x, "fallback")
  /\ IF call[x] = "queued" THEN Withdrawn(x, calls, calls') /\ call' = [call EXCEPT ![x] = "dropped"]
                           ELSE UNCHANGED <<calls, call>>
  /\ UNCHANGED <<server, limits, age, queue, waited>>

-----------------------------------------------------------------------------
(* A thread that is free takes the next job, and one that computes goes on. *)
Ready == \/ queue # <<>> /\ Cardinality(Busy) < Threads
         \/ \E j \in Jobs : job[j] = "running"
         \/ calls # <<>> /\ Cardinality(Calling) < PoolSize
         \/ \E x \in Callers : Asking(x) /\ call[x] \in {"json", "unusable"}
Due == \/ \E d \in Drafts : caller[d] = "waiting" /\ age[d] >= DraftTime
       \/ \E x \in Callers : Late(x)

Capped(n, max) == IF n < max THEN n + 1 ELSE n
Older(s) == [i \in 1..Len(s) |-> Capped(s[i], Window)]

Tick ==
  /\ ~Ready /\ ~Due
  /\ accepted' = [c \in Customers |-> Older(accepted[c])]
  /\ window' = [c \in Customers |-> Older(window[c])]
  /\ comeBack' = [c \in Customers |->
                    IF comeBack[c] \in {0, Never} THEN comeBack[c] ELSE comeBack[c] - 1]
  /\ age' = [x \in Askers |-> IF caller[x] = "waiting" THEN Capped(age[x], Patience(x) + 1) ELSE age[x]]
  /\ waited' = [x \in Callers |-> IF Asking(x) THEN Capped(waited[x], Wait(x)) ELSE waited[x]]
  /\ UNCHANGED <<server, caller, queue, job, calls, call, reading>>

Next ==
  \/ Tick \/ JobStarts \/ CallStarts
  \/ \E d \in Drafts : create_draft(d) \/ compile_instruction(d) \/ _compile(d)
  \/ \E j \in Jobs : JobEnds(j)
  \/ \E r \in Restores : _restore_policy(r)
  \/ \E f \in Facts : AsksFact(f)
  \/ \E x \in Callers : CallEnds(x) \/ parse_and_validate(x) \/ with_deadline(x)

Spec == Init /\ [][Next]_vars

(* Threads run, waits end and time passes; the model need not answer. *)
Fairness ==
  /\ WF_vars(Tick) /\ WF_vars(JobStarts) /\ WF_vars(CallStarts)
  /\ \A d \in Drafts : WF_vars(compile_instruction(d)) /\ WF_vars(_compile(d))
  /\ \A j \in Jobs : WF_vars(JobEnds(j))
  /\ \A x \in Callers : WF_vars(parse_and_validate(x)) /\ WF_vars(with_deadline(x))

FairSpec == Spec /\ Fairness

-----------------------------------------------------------------------------
(* api/ratelimit.py: at most limit accepted drafts of a customer in any     *)
(* window, and one who comes back when told to is not refused again.        *)
LimitKept ==
  \A c \in Customers :
    /\ Cardinality({i \in DOMAIN accepted[c] : accepted[c][i] < Window}) <= Limit
    /\ comeBack[c] = 0 => Len(InWindow(window[c])) < Limit

(* Nothing is in a queue for somebody who has given up, so neither queue    *)
(* grows longer than those who wait, however slow the model is.             *)
QueuesAreWanted ==
  /\ \A x \in Range(calls) : Asking(x)
  /\ \A j \in Range(queue) : caller[j] = "waiting"

(* docs/rules.md P8: without the model every caller takes its deterministic *)
(* path.  A model that hangs, on every thread of the pool, never makes C1   *)
(* fail while the executor has a thread for each of its jobs.               *)
Given == {j \in Jobs : job[j] # "none"}
ModelNeverFailsADraft ==
  Cardinality(Given) <= Threads => \A d \in Drafts : caller[d] # "timeout"

(* Whoever asks for a draft or a fact is answered. *)
EveryoneAnswered == \A x \in Callers : caller[x] = "waiting" ~> caller[x] # "waiting"

=============================================================================
