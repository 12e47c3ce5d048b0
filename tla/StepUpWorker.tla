---------------------------- MODULE StepUpWorker ----------------------------
(***************************************************************************)
(* The Viseca worker of one process (viseca/worker.py): the long-poll loop *)
(* that decides each delivered purchase on one engine thread and posts the *)
(* decision, the customer's answer (C8), the expiry of an unanswered       *)
(* step-up, and what a restart recovers.  The platform is external and is  *)
(* modelled from how the worker calls it (viseca/client.py).               *)
(*                                                                         *)
(* Time is two things: `due' says that the real clock has passed a         *)
(* step-up's local deadline_at; the platform's own clock may expire it     *)
(* before or after that.  Failures (a lost reply, an unreadable platform,  *)
(* a store error, an engine error) are drawn from the budget MaxFaults,    *)
(* crashes of the process from MaxCrashes.                                 *)
(*                                                                         *)
(* An operator whose name ends in _M is a mutation of the one after it:    *)
(* the model never uses it, the properties are tried against it.           *)
(***************************************************************************)
EXTENDS Naturals

CONSTANTS
    Auth,        \* live authorization ids
    NoAuth,      \* the id held by nobody
    MaxFaults,   \* bound: failures in one behaviour
    MaxCrashes   \* bound: crashes in one behaviour

ASSUME WorkerAssumption ==
    NoAuth \notin Auth /\ MaxFaults \in Nat /\ MaxCrashes \in Nat

VARIABLES
    \* the platform
    plat,        \* plat[a]: where the purchase stands at Viseca
    accepted,    \* accepted[a]: the decision Viseca took from this team
    source,      \* source[a]: decision_source of a final state
    resolves,    \* resolves[a]: /resolve requests this team has sent
    \* the store
    ledger,      \* ledger[a]: the decisions row (outcome, final, uncertain_outcome)
    saved,       \* ids with an events_raw row
    due,         \* ids whose deadline_at has passed
    \* the polling loop
    pc, cur, kind, mode, body, reply,
    \* the engine thread, the entry in hand, the overrun claim
    eng, entry, claim,
    \* other memory of the process
    saving,      \* events_raw writes still running
    timers,      \* _expiry: armed expiry tasks
    sent,        \* _resolve_sent
    runPending,  \* RunState.pending
    inside,      \* the tasks inside _resolution_lock
    todo,        \* the start-up list of waiting step-ups
    \* the failures so far
    faults, crashes

platVars  == <<plat, accepted, source, resolves>>
storeVars == <<ledger, saved, due>>
loopVars  == <<pc, cur, kind, mode, body, reply>>
engVars   == <<eng, entry, claim>>
memVars   == <<saving, timers, sent, runPending>>
budget    == <<faults, crashes>>
vars == <<platVars, storeVars, loopVars, engVars, memVars, inside, todo, budget>>

-----------------------------------------------------------------------------
(* Values and small steps *)

Outcomes == {"approve", "decline", "step_up"}
Closings == {"approved", "declined", "expired"}
Entries  == {"none", "approve", "decline", "pending"} \cup Closings

Outcome(e) == IF e \in {"approve", "decline", "none"} THEN e ELSE "step_up"

ThreadFree == eng \in {"idle", "returned", "failed"}
Up == pc # "down"
Fault == faults < MaxFaults /\ faults' = faults + 1 /\ UNCHANGED crashes
NoFault == UNCHANGED budget

(* _resolution_lock: a task enters it alone, and leaves it. *)
Task(who, a, step, answer) ==
    [by |-> who, id |-> a, step |-> step, answer |-> answer]
LockFree_M == TRUE
LockFree == inside = {}
Enters(t) == inside' = inside \cup {t}
GoesOn(t, step, answer) ==
    inside' = (inside \ {t}) \cup {Task(t.by, t.id, step, answer)}
Leaves(t) == inside' = inside \ {t}

(* ledger.record: an existing entry is kept (M7). *)
Recorded_M(a, e) == [ledger EXCEPT ![a] = e]
Recorded(a, e) == [ledger EXCEPT ![a] = IF @ = "none" THEN e ELSE @]

(* _schedule_expiry: one armed timer per id. *)
Armed_M(a) == timers
Armed(a) == timers \cup {a}

(* _claim_resolve: true the first time only. *)
Claims_M(a) == sent' = sent \cup {a}
Claims(a) == a \notin sent /\ sent' = sent \cup {a}

(* _overrun_entry: a decline, or a pending step-up; never an approval. *)
OverrunEntries_M == {"approve", "pending"}
OverrunEntries == {"decline", "pending"}

(* ClaimedLedger.record stores the overrun claim if there is one, else     *)
(* what the engine decided.                                                *)
Admissible_M == {"approve", "decline", "pending"}
Admissible ==
    IF claim # "none" THEN {claim} ELSE {"approve", "decline", "pending"}

(* platform_result: what GET /v1/authorizations says of a step-up. *)
PlatformResult_M(a) ==
    IF source[a] = "customer" THEN "approved"
    ELSE IF plat[a] = "declined" THEN "expired" ELSE "none"
PlatformResult_M2(a) == IF plat[a] = "declined" THEN "expired" ELSE "none"
PlatformResult(a) ==
    IF plat[a] = "approved" THEN "approved"
    ELSE IF plat[a] # "declined" THEN "none"
    ELSE IF source[a] = "customer" THEN "declined" ELSE "expired"

(* One read of it by an expiry: unreadable or not listed yet is "none". *)
Reads(a, result) ==
    \/ result = PlatformResult(a) /\ NoFault
    \/ result = "none" /\ Fault

(* The handler returns to the loop: what it held in hand is gone. *)
Returns ==
    /\ pc' = "poll" /\ cur' = NoAuth
    /\ mode' = "none" /\ body' = "none" /\ reply' = "none" /\ entry' = "none"

-----------------------------------------------------------------------------
(* The platform *)

(* A decision that arrives is taken only while the purchase is undecided;  *)
(* anything else is a 409 and changes nothing.                             *)
DecisionArrives(a, o) ==
    IF plat[a] = "delivered"
    THEN /\ plat' = [plat EXCEPT ![a] =
                        CASE o = "approve" -> "approved"
                          [] o = "decline" -> "declined"
                          [] OTHER -> "pending"]
         /\ accepted' = [accepted EXCEPT ![a] = o]
         /\ source' = [source EXCEPT ![a] = IF o = "step_up" THEN @ ELSE "team"]
    ELSE UNCHANGED <<plat, accepted, source>>

(* A /resolve is taken only while the step-up waits; the platform records  *)
(* every one of them with decision_source "customer".                      *)
ResolveArrives(a, answer) ==
    IF plat[a] = "pending"
    THEN /\ plat' = [plat EXCEPT ![a] =
                        IF answer = "approved" THEN "approved" ELSE "declined"]
         /\ source' = [source EXCEPT ![a] = "customer"]
    ELSE UNCHANGED <<plat, source>>

(* The decision deadline of an undecided request, or the human window of a *)
(* step-up, runs out at the platform: a decline by timeout.                *)
PlatformTimesOut(a) ==
    /\ plat[a] \in {"queued", "delivered", "pending"}
    /\ plat' = [plat EXCEPT ![a] = "declined"]
    /\ source' = [source EXCEPT ![a] = "timeout"]
    /\ UNCHANGED <<accepted, resolves, storeVars, loopVars, engVars, memVars,
                   inside, todo, budget>>

(* The real clock passes a step-up's deadline_at. *)
WindowPasses(a) ==
    /\ Outcome(ledger[a]) = "step_up" /\ a \notin due
    /\ due' = due \cup {a}
    /\ UNCHANGED <<platVars, ledger, saved, loopVars, engVars, memVars, inside,
                   todo, budget>>

-----------------------------------------------------------------------------
(* Start, crash *)

Start ==
    /\ pc = "down" /\ pc' = "recover"
    /\ UNCHANGED <<platVars, storeVars, cur, kind, mode, body, reply, engVars,
                   memVars, inside, todo, budget>>

(* _recover_pending walks the stored events, not the ledger. *)
RecoverPending ==
    /\ pc = "recover" /\ pc' = "list"
    /\ timers' = timers \cup {a \in saved : ledger[a] = "pending"}
    /\ UNCHANGED <<platVars, storeVars, cur, kind, mode, body, reply, engVars,
                   saving, sent, runPending, inside, todo, budget>>

(* _reconcile_platform reads the platform once, or not at all. *)
ListAtStart ==
    /\ pc = "list"
    /\ \/ /\ todo' = {a \in Auth : plat[a] = "pending"}
          /\ pc' = "reconcile" /\ NoFault
       \/ Fault /\ pc' = "poll" /\ UNCHANGED todo
    /\ UNCHANGED <<platVars, storeVars, cur, kind, mode, body, reply, engVars,
                   memVars, inside>>

ReconcileBegin ==
    /\ pc = "reconcile" /\ LockFree
    /\ pc' = "resending"
    /\ Enters(Task("start", NoAuth, "next", "none"))
    /\ UNCHANGED <<platVars, storeVars, cur, kind, mode, body, reply, engVars,
                   memVars, todo, budget>>

(* Only a step-up the ledger closed by the timeout rule is sent again. *)
ReconcileNext(a) ==
    \E t \in inside :
        /\ t.by = "start" /\ t.step = "next" /\ a \in todo
        /\ todo' = todo \ {a}
        /\ \/ /\ ledger[a] = "expired" /\ Claims(a)
              /\ inside' = (inside \ {t}) \cup {Task("start", a, "send", "expired")}
           \/ /\ ledger[a] # "expired" \/ a \in sent
              /\ UNCHANGED <<sent, inside>>
        /\ UNCHANGED <<platVars, storeVars, loopVars, engVars, saving, timers,
                       runPending, budget>>

ReconcileSend ==
    \E t \in inside :
        /\ t.by = "start" /\ t.step = "send"
        /\ resolves' = [resolves EXCEPT ![t.id] = @ + 1]
        /\ \/ ResolveArrives(t.id, "expired") /\ NoFault
           \/ UNCHANGED <<plat, source>> /\ Fault
        /\ inside' = (inside \ {t}) \cup {Task("start", NoAuth, "next", "none")}
        /\ UNCHANGED <<accepted, storeVars, loopVars, engVars, memVars, todo>>

ReconcileDone ==
    \E t \in inside :
        /\ t.by = "start" /\ t.step = "next" /\ todo = {}
        /\ Leaves(t) /\ pc' = "poll"
        /\ UNCHANGED <<platVars, storeVars, cur, kind, mode, body, reply,
                       engVars, memVars, todo, budget>>

(* The process dies: the store and the platform keep what they have. *)
Crash ==
    /\ Up /\ crashes < MaxCrashes /\ crashes' = crashes + 1
    /\ pc' = "down" /\ cur' = NoAuth /\ kind' = "none" /\ mode' = "none"
    /\ body' = "none" /\ reply' = "none"
    /\ eng' = "idle" /\ entry' = "none" /\ claim' = "none"
    /\ saving' = {} /\ timers' = {} /\ sent' = {} /\ runPending' = {}
    /\ inside' = {} /\ todo' = {}
    /\ UNCHANGED <<platVars, storeVars, faults>>

-----------------------------------------------------------------------------
(* The polling loop: a request is delivered, delivered again, or a waiting *)
(* step-up is served (envelope status pending_step_up).                    *)

Poll(a) ==
    /\ pc = "poll" /\ pc' = "lookup" /\ cur' = a
    /\ \/ /\ plat[a] = "queued" /\ kind' = "request"
          /\ plat' = [plat EXCEPT ![a] = "delivered"]
       \/ plat[a] # "queued" /\ kind' = "request" /\ UNCHANGED plat
       \/ plat[a] = "pending" /\ kind' = "waiting" /\ UNCHANGED plat
    /\ UNCHANGED <<accepted, source, resolves, storeVars, mode, body, reply,
                   engVars, memVars, inside, todo, budget>>

(* The stored entry decides the path.  A step-up served as waiting only    *)
(* has its timer armed if it is not. *)
StillWaiting ==
    /\ pc = "lookup" /\ ThreadFree
    /\ kind = "waiting" /\ Outcome(ledger[cur]) = "step_up"
    /\ kind' = "none" /\ Returns
    /\ timers' = IF ledger[cur] = "pending" THEN Armed(cur) ELSE timers
    /\ UNCHANGED <<platVars, storeVars, eng, claim, saving, sent, runPending,
                   inside, todo, budget>>

(* A known purchase is answered with the stored decision; `entry' keeps    *)
(* what was read, which the handler still goes by after its POST.          *)
Redelivered ==
    /\ pc = "lookup" /\ ThreadFree
    /\ ledger[cur] # "none"
    /\ ~(kind = "waiting" /\ Outcome(ledger[cur]) = "step_up")
    /\ pc' = "post" /\ kind' = "none" /\ mode' = "stored"
    /\ body' = Outcome(ledger[cur]) /\ entry' = ledger[cur]
    /\ UNCHANGED <<platVars, storeVars, cur, reply, eng, claim, memVars,
                   inside, todo, budget>>

(* A new one goes to the engine thread, its events_raw write next to it. *)
EngineStarts ==
    /\ pc = "lookup" /\ ThreadFree
    /\ ledger[cur] = "none"
    /\ pc' = "decide" /\ kind' = "none"
    /\ eng' = "running" /\ entry' = "none"
    /\ saving' = saving \cup {cur}
    /\ UNCHANGED <<platVars, storeVars, cur, mode, body, reply, claim, timers,
                   sent, runPending, inside, todo, budget>>

(* _save_event, on a store thread. *)
SaveEvent(a) ==
    /\ a \in saving
    /\ saving' = saving \ {a}
    /\ \/ saved' = saved \cup {a} /\ NoFault
       \/ UNCHANGED saved /\ Fault
    /\ UNCHANGED <<platVars, ledger, due, loopVars, engVars, timers, sent,
                   runPending, inside, todo>>

(* ClaimedLedger.record, first half: what is to be stored is settled. *)
EngineAdmits ==
    /\ eng = "running" /\ eng' = "admitted"
    /\ entry' \in Admissible /\ claim' = "none"
    /\ UNCHANGED <<platVars, storeVars, loopVars, memVars, inside, todo, budget>>

(* Second half: the row is committed; an earlier one stays. *)
EngineRecords ==
    /\ eng = "admitted" /\ eng' = "recorded"
    /\ ledger' = Recorded(cur, entry)
    /\ entry' = ledger'[cur]
    /\ UNCHANGED <<platVars, saved, due, loopVars, claim, memVars, inside,
                   todo, budget>>

(* flag_merchant, mark_requested_item, view: then the result is handed over. *)
EngineReturns ==
    /\ eng = "recorded" /\ eng' = "returned"
    /\ UNCHANGED <<platVars, storeVars, loopVars, entry, claim, memVars, inside,
                   todo, budget>>

EngineFails ==
    /\ eng \in {"running", "admitted", "recorded"} /\ Fault
    /\ eng' = "failed"
    /\ UNCHANGED <<platVars, storeVars, loopVars, entry, claim, memVars, inside,
                   todo>>

(* The loop gets the engine's result, in time or after a refused claim. *)
ResultReady ==
    /\ pc \in {"decide", "late"} /\ eng = "returned"
    /\ eng' = "idle" /\ pc' = "post" /\ mode' = "new" /\ body' = Outcome(entry)
    /\ UNCHANGED <<platVars, storeVars, cur, kind, reply, entry, claim,
                   memVars, inside, todo, budget>>

(* _decline_unevaluable: the engine failed within its time. *)
DeclineUnevaluable ==
    /\ pc = "decide" /\ eng = "failed"
    /\ \/ ledger' = Recorded(cur, "decline") /\ NoFault
       \/ UNCHANGED ledger /\ Fault
    /\ eng' = "idle" /\ entry' = "none"
    /\ pc' = "post" /\ mode' = "fallback" /\ body' = "decline"
    /\ UNCHANGED <<platVars, saved, due, cur, kind, reply, claim, memVars,
                   inside, todo>>

(* The budget is over and the engine is not: the claim wins unless the     *)
(* engine has admitted its own decision.                                   *)
Overrun ==
    /\ pc = "decide" /\ eng \in {"running", "admitted", "recorded"}
    /\ \/ /\ eng = "running"
          /\ claim' \in OverrunEntries
          /\ pc' = "post" /\ mode' = "overrun" /\ body' = Outcome(claim')
       \/ /\ eng # "running"
          /\ pc' = "late" /\ UNCHANGED <<claim, mode, body>>
    /\ UNCHANGED <<platVars, storeVars, cur, kind, reply, eng, entry, memVars,
                   inside, todo, budget>>

(* The engine failed after it was let record: what is stored is posted. *)
LateFailure ==
    /\ pc = "late" /\ eng = "failed"
    /\ eng' = "idle" /\ entry' = ledger[cur]
    /\ \/ /\ ledger[cur] = "none"
          /\ pc' = "save" /\ UNCHANGED <<mode, body>>
       \/ /\ ledger[cur] # "none"
          /\ pc' = "post" /\ mode' = "late" /\ body' = Outcome(ledger[cur])
    /\ UNCHANGED <<platVars, storeVars, cur, kind, reply, claim, memVars,
                   inside, todo, budget>>

(* _post: the platform takes the decision and says so, answers 409, or the *)
(* request or its reply is lost and what is left is a 409 or an error.     *)
Post ==
    /\ pc = "post" /\ pc' = "posted" /\ body' = "none"
    /\ \/ /\ DecisionArrives(cur, body) /\ NoFault
          /\ reply' = IF plat[cur] = "delivered" THEN "accepted" ELSE "conflict"
       \/ /\ DecisionArrives(cur, body) /\ Fault
          /\ reply' \in {"conflict", "error"}
       \/ /\ UNCHANGED <<plat, accepted, source>> /\ Fault
          /\ reply' = "error"
    /\ UNCHANGED <<resolves, storeVars, cur, kind, mode, engVars, memVars,
                   inside, todo>>

(* _post_new and the fallback, after their POST. *)
PostedNew ==
    /\ pc = "posted" /\ mode \in {"new", "fallback"}
    /\ IF mode = "new" /\ entry = "pending"
       THEN pc' = "window" /\ runPending' = runPending \cup {cur}
       ELSE pc' = "save" /\ UNCHANGED runPending
    /\ UNCHANGED <<platVars, storeVars, cur, kind, mode, body, reply, engVars,
                   saving, timers, sent, inside, todo, budget>>

(* _post_stored, after its POST: `entry' is as old as the lookup. *)
PostedStored ==
    /\ pc = "posted" /\ mode \in {"stored", "late"}
    /\ timers' = IF reply # "error" /\ entry = "pending" THEN Armed(cur) ELSE timers
    /\ \/ mode = "stored" /\ Returns
       \/ /\ mode = "late" /\ pc' = "save"
          /\ UNCHANGED <<cur, mode, body, reply, entry>>
    /\ UNCHANGED <<platVars, storeVars, kind, eng, claim, saving, sent,
                   runPending, inside, todo, budget>>

(* _settle_overrun, once the engine thread is free: the claim is recorded  *)
(* if the engine did not take it.  With no entry stored the handler raises *)
(* and the loop goes back to polling.                                      *)
SettleOverrun ==
    /\ pc = "posted" /\ mode = "overrun" /\ ThreadFree
    /\ ledger' = IF claim = "none" THEN ledger ELSE Recorded(cur, claim)
    /\ claim' = "none" /\ eng' = "idle"
    /\ \/ ledger'[cur] = "none" /\ Returns /\ UNCHANGED runPending
       \/ /\ ledger'[cur] # "none"
          /\ entry' = ledger'[cur]
          /\ IF entry' = "pending"
             THEN pc' = "window" /\ runPending' = runPending \cup {cur}
             ELSE pc' = "save" /\ UNCHANGED runPending
          /\ UNCHANGED <<cur, mode, body, reply>>
    /\ UNCHANGED <<platVars, saved, due, kind, saving, timers, sent, inside,
                   todo, budget>>

(* _await_answer: the deadline moves to the platform's, then the expiry is *)
(* armed.  set_deadline raises on a step-up closed meanwhile.              *)
AwaitAnswer ==
    /\ pc = "window" /\ ThreadFree
    /\ \/ /\ reply = "accepted" /\ ledger[cur] # "pending"
          /\ Returns /\ UNCHANGED <<due, timers>>
       \/ /\ reply # "accepted" \/ ledger[cur] = "pending"
          /\ due' = IF reply = "accepted" THEN due \ {cur} ELSE due
          /\ timers' = Armed(cur)
          /\ pc' = "save" /\ UNCHANGED <<cur, mode, body, reply, entry>>
    /\ UNCHANGED <<platVars, ledger, saved, kind, eng, claim, saving, sent,
                   runPending, inside, todo, budget>>

(* The handler waits for its events_raw write, failed or not. *)
WriteDone == cur \notin saving
AwaitSave ==
    /\ pc = "save" /\ WriteDone
    /\ Returns
    /\ UNCHANGED <<platVars, storeVars, kind, eng, claim, memVars, inside, todo,
                   budget>>

-----------------------------------------------------------------------------
(* C8: the customer's answer.  Every await of resolve_by_customer is made  *)
(* with _resolution_lock held.                                             *)

CustomerAnswers(a, answer) ==
    /\ Up /\ LockFree /\ ThreadFree
    /\ ledger[a] = "pending" /\ a \notin due /\ Claims(a)
    /\ Enters(Task("customer", a, "send", answer))
    /\ UNCHANGED <<platVars, storeVars, loopVars, engVars, saving, timers,
                   runPending, todo, budget>>

(* The platform takes the answer, refuses it, or its reply never comes     *)
(* (a transport error, or the 15 s limit of the route cancels the wait):   *)
(* on anything but success the ledger stays and the claim stays consumed.  *)
CustomerSend ==
    \E t \in inside :
        /\ t.by = "customer" /\ t.step = "send"
        /\ resolves' = [resolves EXCEPT ![t.id] = @ + 1]
        /\ \/ /\ plat[t.id] = "pending" /\ ResolveArrives(t.id, t.answer)
              /\ GoesOn(t, "record", t.answer) /\ NoFault
           \/ /\ plat[t.id] # "pending" /\ UNCHANGED <<plat, source>>
              /\ Leaves(t) /\ NoFault
           \/ /\ ResolveArrives(t.id, t.answer) \/ UNCHANGED <<plat, source>>
              /\ Leaves(t) /\ Fault
        /\ UNCHANGED <<accepted, storeVars, loopVars, engVars, memVars, todo>>

-----------------------------------------------------------------------------
(* The expiry of an unanswered step-up: by its timer (_expire_at), or by a *)
(* read of the customer's list (C6) or a late answer (close_lapsed).       *)

ExpireByTimer(a) ==
    /\ Up /\ a \in timers /\ a \in due /\ LockFree /\ ThreadFree
    /\ \/ /\ ledger[a] = "pending"
          /\ Enters(Task("timer", a, "read", "none")) /\ UNCHANGED timers
       \/ /\ ledger[a] # "pending"
          /\ timers' = timers \ {a} /\ UNCHANGED inside
    /\ UNCHANGED <<platVars, storeVars, loopVars, engVars, saving, sent,
                   runPending, todo, budget>>

ExpireByRead(a) ==
    /\ Up /\ LockFree /\ ThreadFree
    /\ ledger[a] = "pending" /\ a \in due
    /\ Enters(Task("read", a, "read", "none"))
    /\ UNCHANGED <<platVars, storeVars, loopVars, engVars, memVars, todo, budget>>

(* The platform is read first: its answer, if it has one, is recorded and  *)
(* nothing is sent; else the one /resolve is claimed; else it is a timeout.*)
ExpireRead ==
    \E t \in inside, result \in Closings \cup {"none"} :
        /\ t.by \in {"timer", "read"} /\ t.step = "read"
        /\ Reads(t.id, result)
        /\ \/ result # "none" /\ GoesOn(t, "record", result) /\ UNCHANGED sent
           \/ result = "none" /\ Claims(t.id) /\ GoesOn(t, "send", "expired")
           \/ /\ result = "none" /\ t.id \in sent
              /\ GoesOn(t, "record", "expired") /\ UNCHANGED sent
        /\ UNCHANGED <<platVars, storeVars, loopVars, engVars, saving, timers,
                       runPending, todo>>

ExpireSend ==
    \E t \in inside :
        /\ t.by \in {"timer", "read"} /\ t.step = "send"
        /\ resolves' = [resolves EXCEPT ![t.id] = @ + 1]
        /\ \/ /\ plat[t.id] = "pending" /\ ResolveArrives(t.id, "expired")
              /\ GoesOn(t, "record", "expired") /\ NoFault
           \/ /\ plat[t.id] # "pending" /\ UNCHANGED <<plat, source>>
              /\ GoesOn(t, "reread", "expired") /\ NoFault
           \/ /\ ResolveArrives(t.id, "expired") \/ UNCHANGED <<plat, source>>
              /\ GoesOn(t, "record", "expired") /\ Fault
        /\ UNCHANGED <<accepted, storeVars, loopVars, engVars, memVars, todo>>

(* The 409: the platform closed it first, so its state is read again. *)
ExpireReread ==
    \E t \in inside, result \in Closings \cup {"none"} :
        /\ t.by \in {"timer", "read"} /\ t.step = "reread"
        /\ Reads(t.id, result)
        /\ GoesOn(t, "record", IF result = "none" THEN "expired" ELSE result)
        /\ UNCHANGED <<platVars, storeVars, loopVars, engVars, memVars, todo>>

-----------------------------------------------------------------------------
(* ledger.resolve on the engine thread and _after_resolution: the row is   *)
(* closed, the run no longer waits for it, its timer is done.  When the    *)
(* store refuses, the row stays open and an expiry task ends all the same. *)
Record ==
    \E t \in inside :
        /\ t.step = "record" /\ ThreadFree
        /\ Leaves(t)
        /\ \/ /\ ledger[t.id] = "pending"
              /\ ledger' = [ledger EXCEPT ![t.id] = t.answer]
              /\ runPending' = runPending \ {t.id}
              /\ timers' = IF t.by = "read" THEN timers ELSE timers \ {t.id}
              /\ NoFault
           \/ /\ UNCHANGED <<ledger, runPending>> /\ Fault
              /\ timers' = IF t.by = "timer" THEN timers \ {t.id} ELSE timers
        /\ UNCHANGED <<platVars, saved, due, loopVars, engVars, saving, sent, todo>>

-----------------------------------------------------------------------------

Init ==
    /\ plat = [a \in Auth |-> "queued"]
    /\ accepted = [a \in Auth |-> "none"]
    /\ source = [a \in Auth |-> "none"]
    /\ resolves = [a \in Auth |-> 0]
    /\ ledger = [a \in Auth |-> "none"]
    /\ saved = {} /\ due = {}
    /\ pc = "down" /\ cur = NoAuth /\ kind = "none" /\ mode = "none"
    /\ body = "none" /\ reply = "none"
    /\ eng = "idle" /\ entry = "none" /\ claim = "none"
    /\ saving = {} /\ timers = {} /\ sent = {} /\ runPending = {}
    /\ inside = {} /\ todo = {} /\ faults = 0 /\ crashes = 0

StartSteps ==
    \/ Start \/ RecoverPending \/ ListAtStart \/ ReconcileBegin
    \/ (\E a \in Auth : ReconcileNext(a)) \/ ReconcileSend \/ ReconcileDone

LoopSteps ==
    \/ (\E a \in Auth : Poll(a)) \/ StillWaiting \/ Redelivered \/ EngineStarts
    \/ ResultReady \/ DeclineUnevaluable \/ LateFailure \/ Post \/ PostedNew
    \/ PostedStored \/ SettleOverrun \/ AwaitAnswer \/ AwaitSave

EngineSteps == EngineAdmits \/ EngineRecords \/ EngineReturns

LockSteps ==
    \/ CustomerSend \/ ExpireRead \/ ExpireSend \/ ExpireReread \/ Record

Next ==
    \/ StartSteps \/ LoopSteps \/ EngineSteps \/ LockSteps
    \/ Overrun \/ EngineFails \/ Crash
    \/ \E a \in Auth :
          \/ PlatformTimesOut(a) \/ WindowPasses(a) \/ SaveEvent(a)
          \/ ExpireByTimer(a) \/ ExpireByRead(a)
          \/ CustomerAnswers(a, "approved") \/ CustomerAnswers(a, "declined")

Spec == Init /\ [][Next]_vars

(* Fairness.  The event loop and the engine thread run what is ready.  The *)
(* asyncio.Lock and the one-thread executor serve their waiters in order,  *)
(* so an expiry that keeps finding them taken gets its turn (SF).  Nothing *)
(* obliges the customer to answer or to read, or the platform to time out. *)
Fairness ==
    /\ WF_vars(StartSteps) /\ WF_vars(LoopSteps)
    /\ WF_vars(EngineSteps) /\ WF_vars(LockSteps)
    /\ \A a \in Auth : /\ WF_vars(SaveEvent(a)) /\ WF_vars(WindowPasses(a))
                       /\ SF_vars(ExpireByTimer(a))

FairSpec == Spec /\ Fairness

-----------------------------------------------------------------------------
(* Properties *)

Tasks ==
    [by : {"customer", "timer", "read", "start"},
     id : Auth \cup {NoAuth},
     step : {"next", "read", "send", "reread", "record"},
     answer : Closings \cup {"none"}]

(* Every variable keeps its type (the states of worker.py's handlers). *)
TypeOK ==
    /\ plat \in [Auth -> {"queued", "delivered", "pending", "approved", "declined"}]
    /\ accepted \in [Auth -> Outcomes \cup {"none"}]
    /\ source \in [Auth -> {"none", "team", "customer", "timeout"}]
    /\ resolves \in [Auth -> Nat]
    /\ ledger \in [Auth -> Entries]
    /\ saved \subseteq Auth /\ due \subseteq Auth
    /\ pc \in {"down", "recover", "list", "reconcile", "resending", "poll",
               "lookup", "decide", "late", "post", "posted", "window", "save"}
    /\ cur \in Auth \cup {NoAuth}
    /\ kind \in {"none", "request", "waiting"}
    /\ mode \in {"none", "new", "fallback", "overrun", "stored", "late"}
    /\ body \in Outcomes \cup {"none"}
    /\ reply \in {"none", "accepted", "conflict", "error"}
    /\ eng \in {"idle", "running", "admitted", "recorded", "returned", "failed"}
    /\ entry \in Entries /\ claim \in {"none", "decline", "pending"}
    /\ saving \subseteq Auth /\ timers \subseteq Auth /\ sent \subseteq Auth
    /\ runPending \subseteq Auth /\ todo \subseteq Auth
    /\ inside \subseteq Tasks
    /\ faults \in 0..MaxFaults /\ crashes \in 0..MaxCrashes

(* Whoever is about to close a step-up (C8, its timer, a list read) still  *)
(* finds it pending: ledger.resolve never meets one closed in between,     *)
(* although the state was read several awaits earlier.                     *)
NoStaleClose ==
    \A t \in inside : t.step = "record" => ledger[t.id] = "pending"

(* Money is only counted for a step-up when Viseca approved it: no lost    *)
(* reply, 409, overrun or restart makes the ledger say "approved" alone.   *)
NothingCountedUnapproved ==
    \A a \in Auth : ledger[a] = "approved" => plat[a] = "approved"

(* Whatever Viseca approved on this team's own "approve" is spend in the   *)
(* ledger, across overruns, late failures, redelivery and crashes.         *)
TeamApprovalRecorded ==
    \A a \in Auth : accepted[a] = "approve" => ledger[a] = "approve"

(* A customer's approval that Viseca took is never booked as a decline or  *)
(* a timeout when one thing goes wrong (a lost reply, an unreadable        *)
(* platform, a failed write, a crash).  Two of them can lose it.           *)
CustomerApprovalKept ==
    faults + crashes <= 1 =>
        \A a \in Auth :
            plat[a] = "approved" => ledger[a] \notin {"declined", "expired"}

(* With nothing failing, Viseca and the ledger hold the same decision, the *)
(* overrun included; only an overrun claim may be posted first and stored  *)
(* when the engine thread is free.                                         *)
AcceptedMatchesLedger ==
    faults + crashes = 0 =>
        \A a \in Auth :
            accepted[a] # "none" /\ ~(cur = a /\ mode = "overrun" /\ pc = "posted")
                => Outcome(ledger[a]) = accepted[a]

(* One process sends at most one /resolve per live id, whoever asks for it *)
(* (C8, timer, list read, start-up), whatever is lost; a restart forgets.  *)
OneResolvePerProcess == \A a \in Auth : resolves[a] <= 1 + crashes

(* With nothing failing, every pending step-up is closed in the end: its   *)
(* timer survives the answers, reads and decisions around it.              *)
EveryStepUpCloses ==
    \A a \in Auth :
        ledger[a] = "pending" ~> (ledger[a] \in Closings \/ faults + crashes > 0)

(* Every request handed to the worker is finished with and the loop polls  *)
(* again, through overruns, engine failures and restarts.                  *)
LoopAlwaysReturns == (pc # "poll") ~> (pc = "poll")

(* Whatever failed before, a customer's app that keeps reading the list    *)
(* (C6) closes every step-up left open: close_lapsed needs no timer.       *)
ReadingCloses ==
    (\A a \in Auth : SF_vars(ExpireByRead(a)))
        => \A a \in Auth : ledger[a] = "pending" ~> ledger[a] \in Closings

(* What begins comes to an end: step-ups by their timers or the reads, the *)
(* request in hand by the loop.                                            *)
EverythingEnds == EveryStepUpCloses /\ LoopAlwaysReturns /\ ReadingCloses

Viseca == [a \in Auth |-> IF plat[a] \in {"queued", "delivered"} THEN "open"
                          ELSE plat[a]]

(* The worker implements Purchase: decided once, closed once, and approved *)
(* only when Viseca approved.                                              *)
Promise == INSTANCE Purchase WITH ledger <- ledger, viseca <- Viseca

PurchaseKept == Promise!PurchaseSpec

=============================================================================
