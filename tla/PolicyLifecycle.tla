--------------------------- MODULE PolicyLifecycle ---------------------------
(***************************************************************************)
(* How a card's policy comes, changes, moves and ends while live runs are  *)
(* decided under it: C2, C4 and C5 (api/routes_customer.py), the two forms *)
(* of D3 (api/routes_dev.py), and the worker's memory of policies          *)
(* (viseca/worker.py).  The same policy stands in four places: the         *)
(* mandates row, the platform's mandate TM, the worker's _policies, and    *)
(* the context of a run in flight.                                         *)
(*                                                                         *)
(* Requests reach the process that holds the worker lease; another process *)
(* only stands by, with the policies it read when it started.  policy_lock *)
(* is `req': one of C2, C4, C5 and the locked parts of D3 at a time.  One  *)
(* D3 is served at a time.  Ids are issued in order, so the id of the      *)
(* first row of a policy (`root') also stands for its confirmed_at.        *)
(* "revoked" and "superseded" are both `ended' here.                       *)
(*                                                                         *)
(* An operator whose name ends in _M is a mutation of the one after it.    *)
(***************************************************************************)
EXTENDS Naturals

CONSTANTS
    Procs,        \* server processes on one store
    Cards,
    Runs,         \* live runs, one scenario each
    MaxMandates,  \* bound: mandates rows
    MaxTMs,       \* bound: mandates confirmed at the platform
    MaxFailures,  \* bound: lost replies, failed or late store calls, crashes
    Forced,       \* D3 is sent with force: true
    Nothing,      \* no row, no request, no context
    NoPolicy      \* the policy of a run whose TM no policy is known for

ASSUME PolicyAssumption ==
    /\ MaxMandates \in Nat /\ MaxTMs \in Nat
    /\ MaxFailures \in Nat /\ Forced \in BOOLEAN

Mandates == 1..MaxMandates
TMs == 1..MaxTMs

(* A mandates row; the worker's Policy is the same record, as it was read. *)
Policies ==
    [id : Mandates, card : Cards, tm : TMs, level : {"confirmed", "tightened"},
     status : {"active", "ended"}, root : Mandates]

OrNothing(S) == S \cup {Nothing}

(* A live run at the platform; `followed': by this process only, or in the *)
(* store too. *)
LiveRuns ==
    [tm : TMs, card : Cards, state : {"live", "done"},
     followed : {"no", "memory", "store"}]

(* A request that holds policy_lock. *)
LockHolders ==
    [op : {"confirm", "scenario", "tighten", "revoke", "reregister", "move", "undo"},
     at : {"store", "end", "mark", "delete", "bind", "flip", "launch"},
     policy : Policies, olds : SUBSET Mandates, ending : TMs,
     told : SUBSET Mandates]

(* A D3 in progress; "locked": under policy_lock. *)
RunRequests ==
    [at : {"check", "register", "launch", "track", "move", "locked"},
     policy : Policies, run : Runs]

(* The purchase the worker has in hand. *)
Purchases ==
    [run : Runs, at : {"restore", "restored", "bind", "decide", "decided"},
     read : OrNothing(Policies), verdict : OrNothing(Policies),
     ended : SUBSET Mandates, tight : SUBSET Mandates]

ASSUME NothingAssumption ==
    /\ Nothing # NoPolicy /\ {Nothing, NoPolicy} \cap (Policies \cup Procs) = {}
    /\ Nothing \notin LiveRuns \cup LockHolders \cup RunRequests

VARIABLES
    row,       \* row[m]: the mandates row m
    issued,    \* mandate ids given out
    plat,      \* plat[t]: the platform's mandate
    run,       \* run[r]: the live run at the platform, and who follows it
    leader,    \* the process that holds the worker lease
    up,        \* processes running
    bound,     \* bound[p][t]: _policies of p's worker
    gone,      \* _revoked        (of the leading process)
    expected,  \* _expected       (of the leading process)
    ctx,       \* ctx[r]: the policy in the run's context (of the same)
    req,       \* who holds policy_lock, and how far it is
    d3,        \* the D3 in progress outside the lock
    hand,      \* the purchase in the worker's hand
    ended,     \* rows the customer was told are revoked or replaced
    tight,     \* roots the customer was told are tightened
    failures

storeVars == <<row, issued>>
memVars   == <<bound, gone, ctx>>
procVars  == <<leader, up>>
toldVars  == <<ended, tight>>
vars == <<storeVars, plat, run, procVars, memVars, expected, req, d3, hand,
          toldVars, failures>>

-----------------------------------------------------------------------------
(* Reading *)

Stored == {m \in Mandates : row[m] # Nothing}
Active(m) == m \in Stored /\ row[m].status = "active"
ActiveOn(c) == {m \in Mandates : Active(m) /\ row[m].card = c}

(* latest_mandate: the active one, else the one confirmed last. *)
NoOlder(m, n) ==
    \/ row[m].status = "active" /\ row[n].status = "ended"
    \/ row[m].status = row[n].status /\ row[m].root >= row[n].root
Latest(c) ==
    LET ofCard == {m \in Stored : row[m].card = c}
    IN {m \in ofCard : \A n \in ofCard : NoOlder(m, n)}

(* The row read last, or first, for a TM: a policy and the copies D3 made  *)
(* of it have one confirmed_at, so either order may come out.              *)
Newest(t, copyFirst) ==
    LET under == {m \in Stored : row[m].tm = t}
        best == {m \in under :
                    \A n \in under : IF copyFirst THEN m >= n ELSE m <= n}
    IN IF best = {} THEN Nothing ELSE row[CHOOSE m \in best : TRUE]

Fault == failures < MaxFailures /\ failures' = failures + 1
NoFault == UNCHANGED failures

(* A store call commits, or it fails, or commits after its time is over. *)
Commits(change) == change /\ NoFault
CommitsLate(change) == (change \/ UNCHANGED row) /\ Fault

End(policy) == [policy EXCEPT !.status = "ended"]
Ended(S) == [m \in Mandates |-> IF m \in S THEN End(row[m]) ELSE row[m]]

-----------------------------------------------------------------------------
(* The worker's memory *)

(* bind_policy: a TM revoked in this process stays revoked. *)
Seen_M(policy) == policy
Seen(policy) == IF policy.tm \in gone THEN End(policy) ELSE policy
Bind(policy) == bound' = [bound EXCEPT ![leader][policy.tm] = Seen(policy)]

HasPolicy(r) == ctx[r] \notin {Nothing, NoPolicy}

(* The first, synchronous half of VisecaWorker.revoke. *)
FlipRuns_M(t) == ctx
FlipRuns(t) ==
    [r \in Runs |-> IF HasPolicy(r) /\ run[r].tm = t THEN End(ctx[r]) ELSE ctx[r]]
LocalRevoke(t) ==
    /\ gone' = gone \cup {t}
    /\ bound' = [bound EXCEPT ![leader][t] = IF @ = Nothing THEN @ ELSE End(@)]
    /\ ctx' = FlipRuns(t)

-----------------------------------------------------------------------------
(* The platform *)

(* Confirming a mandate supersedes the team's active one. *)
Registers(t) ==
    /\ plat[t] = "none" /\ \A u \in TMs : u < t => plat[u] # "none"
    /\ plat' = [u \in TMs |-> IF u = t THEN "active"
                              ELSE IF plat[u] = "active" THEN "superseded" ELSE plat[u]]

(* A run starts under an active mandate, on the card the platform knows    *)
(* for its scenario. *)
Starts(r, t, c) ==
    /\ plat[t] = "active"
    /\ run' = [run EXCEPT ![r] = [tm |-> t, card |-> c, state |-> "live", followed |-> "no"]]

(* Its last purchase is decided: the run is over. *)
FinishRun(r) ==
    /\ run[r] # Nothing /\ run[r].state = "live"
    /\ hand # Nothing /\ hand.run = r => hand.at = "decided"
    /\ run' = [run EXCEPT ![r].state = "done"]
    /\ UNCHANGED <<storeVars, plat, procVars, memVars, expected, req, d3, hand,
                   toldVars, failures>>

-----------------------------------------------------------------------------
(* policy_lock: which request holds it and how far it is.                  *)
(*   policy  the policy it makes, changes or ends                          *)
(*   olds    the card's earlier policies still to be ended                 *)
(*   ending  the TM being revoked                                          *)
(*   told    rows its reply calls revoked or replaced                      *)

Request(op, at, policy, told) ==
    [op |-> op, at |-> at, policy |-> policy, olds |-> {},
     ending |-> policy.tm, told |-> told]

Serving == leader # Nothing /\ req = Nothing
At(at) == req # Nothing /\ req.at = at
Goes(at) == req' = [req EXCEPT !.at = at]
Releases == req' = Nothing
RunAborts ==
    d3' = IF req.op \in {"scenario", "reregister", "undo"} THEN Nothing ELSE d3

NewPolicy(c, t) ==
    [id |-> issued + 1, card |-> c, tm |-> t, level |-> "confirmed",
     status |-> "active", root |-> issued + 1]

(* C2 until the platform has confirmed the new policy; a lost reply is a   *)
(* 503. *)
ConfirmDraft(c) ==
    /\ Serving /\ issued < MaxMandates
    /\ \E t \in TMs :
          /\ Registers(t)
          /\ \/ /\ req' = Request("confirm", "store", NewPolicy(c, t), {})
                /\ issued' = issued + 1 /\ NoFault
             \/ UNCHANGED <<req, issued>> /\ Fault
    /\ UNCHANGED <<row, run, procVars, memVars, expected, d3, hand, toldVars>>

(* store_confirmed: in one transaction the policy becomes the card's       *)
(* active one and ends the earlier one. *)
Replacing_M(policy) == [row EXCEPT ![policy.id] = policy]
Replacing(policy) == [Ended(ActiveOn(policy.card)) EXCEPT ![policy.id] = policy]

StoreConfirmed ==
    /\ At("store") /\ req.op \in {"confirm", "scenario"}
    /\ \/ /\ Commits(row' = Replacing(req.policy))
          /\ LET olds == ActiveOn(req.policy.card)
             IN req' = [req EXCEPT !.at = "end", !.olds = olds,
                            !.told = IF req.op = "confirm" THEN olds ELSE {}]
          /\ UNCHANGED d3
       \/ CommitsLate(row' = Replacing(req.policy)) /\ Releases /\ RunAborts
    /\ UNCHANGED <<issued, plat, run, procVars, memVars, expected, hand, toldVars>>

(* Each earlier policy is bound as it ended and revoked, in the process    *)
(* first and then at the platform.  Two policies of one TM share it: that  *)
(* of a moved policy stays. *)
EndOld ==
    /\ At("end")
    /\ \E m \in req.olds :
          IF req.op = "move" /\ row[m].tm = req.policy.tm
          THEN /\ Bind(row[m])
               /\ req' = [req EXCEPT !.olds = @ \ {m}]
               /\ UNCHANGED <<gone, ctx>>
          ELSE /\ gone' = gone \cup {row[m].tm}
               /\ bound' = [bound EXCEPT ![leader][row[m].tm] = row[m]]
               /\ ctx' = FlipRuns(row[m].tm)
               /\ req' = [req EXCEPT !.at = "mark", !.olds = @ \ {m},
                              !.ending = row[m].tm]
    /\ UNCHANGED <<storeVars, plat, run, procVars, expected, d3, hand, toldVars,
                   failures>>

(* _mark_mandate_revoked: every active row of the TM. *)
MarkRevoked ==
    /\ At("mark")
    /\ LET marks == row' = Ended({m \in Mandates : Active(m) /\ row[m].tm = req.ending})
       IN \/ Commits(marks) /\ Goes("delete") /\ UNCHANGED d3
          \/ CommitsLate(marks) /\ Releases /\ RunAborts
    /\ UNCHANGED <<issued, plat, run, procVars, memVars, expected, hand, toldVars>>

(* DELETE at the platform: revoked there, or not active there any more, or *)
(* the reply is lost.  C5 answers either way that the policy has ended.    *)
DeleteAtPlatform ==
    /\ At("delete")
    /\ LET taken == [plat EXCEPT ![req.ending] = IF @ = "active" THEN "revoked" ELSE @]
       IN \/ plat' = taken /\ NoFault
          \/ plat' \in {plat, taken} /\ Fault
    /\ IF req.op \in {"revoke", "undo"}
       THEN Releases /\ ended' = ended \cup req.told
       ELSE Goes("end") /\ UNCHANGED ended
    /\ d3' = IF req.op = "undo" THEN Nothing ELSE d3
    /\ UNCHANGED <<storeVars, run, procVars, memVars, expected, hand, tight>>

(* With no earlier policy left, the new one is bound; a moved one also in  *)
(* the context of every run under its TM (move_policy). *)
BindNew ==
    /\ At("end") /\ req.olds = {}
    /\ Bind(req.policy)
    /\ ctx' = IF req.op # "move" THEN ctx
              ELSE [r \in Runs |-> IF ctx[r] # Nothing /\ run[r].tm = req.policy.tm
                                   THEN Seen(req.policy) ELSE ctx[r]]
    /\ Releases /\ ended' = ended \cup req.told
    /\ d3' = IF req.op = "scenario" THEN [d3 EXCEPT !.at = "track"] ELSE d3
    /\ UNCHANGED <<storeVars, plat, run, procVars, gone, expected, hand, tight,
                   failures>>

-----------------------------------------------------------------------------
(* C4: PATCH at the platform, which takes it for an active mandate only,   *)
(* then the row, then the worker.  A run in flight keeps its context. *)

TightenPolicy(c) ==
    /\ Serving
    /\ \E m \in Latest(c) :
          /\ row[m].status = "active" /\ row[m].level = "confirmed"
          /\ plat[row[m].tm] = "active"
          /\ req' = Request("tighten", "store", row[m], {})
    /\ UNCHANGED <<storeVars, plat, run, procVars, memVars, expected, d3, hand,
                   toldVars, failures>>

TightenStore ==
    /\ At("store") /\ req.op = "tighten"
    /\ LET change == row' = [row EXCEPT ![req.policy.id].level = "tightened"]
       IN \/ /\ Commits(change)
             /\ req' = [req EXCEPT !.at = "bind", !.policy = row'[req.policy.id]]
          \/ CommitsLate(change) /\ Releases
    /\ UNCHANGED <<issued, plat, run, procVars, memVars, expected, d3, hand, toldVars>>

TightenBind ==
    /\ At("bind") /\ req.op = "tighten"
    /\ Bind(req.policy)
    /\ Releases /\ tight' = tight \cup {req.policy.root}
    /\ UNCHANGED <<storeVars, plat, run, procVars, gone, ctx, expected, d3, hand,
                   ended, failures>>

-----------------------------------------------------------------------------
(* C5: the row, the worker's policy, the run in flight, the platform.  A   *)
(* policy that has ended already is revoked in the worker and at the       *)
(* platform once more. *)

RevokePolicy(c) ==
    /\ Serving
    /\ \E m \in Latest(c) :
          req' = IF row[m].status = "active"
                 THEN Request("revoke", "store", row[m], {m})
                 ELSE Request("revoke", "flip", row[m], {})
    /\ UNCHANGED <<storeVars, plat, run, procVars, memVars, expected, d3, hand,
                   toldVars, failures>>

RevokeStore ==
    /\ At("store") /\ req.op = "revoke"
    /\ LET change == row' = Ended({req.policy.id})
       IN \/ /\ Commits(change)
             /\ req' = [req EXCEPT !.at = "bind", !.policy = End(@)]
          \/ CommitsLate(change) /\ Releases
    /\ UNCHANGED <<issued, plat, run, procVars, memVars, expected, d3, hand, toldVars>>

RevokeBind ==
    /\ At("bind") /\ req.op = "revoke"
    /\ Bind(req.policy) /\ Goes("flip")
    /\ UNCHANGED <<storeVars, plat, run, procVars, gone, ctx, expected, d3, hand,
                   toldVars, failures>>

RevokeFlip ==
    /\ At("flip")
    /\ LocalRevoke(req.ending) /\ Goes("mark")
    /\ UNCHANGED <<storeVars, plat, run, procVars, expected, d3, hand, toldVars,
                   failures>>

-----------------------------------------------------------------------------
(* D3 under the card's policy.  Unforced, it is refused while a run this   *)
(* process follows is not over. *)

Following(r) == run[r] # Nothing /\ run[r].state = "live" /\ run[r].followed # "no"
MayStart(r) ==
    /\ leader # Nothing /\ d3 = Nothing /\ run[r] = Nothing
    /\ Forced \/ \A q \in Runs : ~Following(q)

D3At(at) == d3 # Nothing /\ d3.at = at
D3Goes(at) == d3' = [d3 EXCEPT !.at = at]

CreateRun(c, r) ==
    /\ MayStart(r)
    /\ \E m \in Latest(c) :
          /\ row[m].status = "active"
          /\ d3' = [at |-> "check", policy |-> row[m], run |-> r]
    /\ UNCHANGED <<storeVars, plat, run, procVars, memVars, expected, req, hand,
                   toldVars, failures>>

(* _platform_mandate: an unread mandate starts the run as before. *)
CheckPlatform ==
    /\ D3At("check")
    /\ \/ plat[d3.policy.tm] = "active" /\ D3Goes("launch") /\ NoFault
       \/ plat[d3.policy.tm] # "active" /\ D3Goes("register") /\ NoFault
       \/ plat[d3.policy.tm] # "active" /\ D3Goes("launch") /\ Fault
    /\ UNCHANGED <<storeVars, plat, run, procVars, memVars, expected, req, hand,
                   toldVars>>

(* _reregister: the same policy under a new TM, if it still is the card's. *)
Reregister ==
    /\ D3At("register") /\ Serving
    /\ \E m \in Latest(d3.policy.card) :
          \/ /\ m # d3.policy.id \/ row[m].status = "ended"
             /\ d3' = Nothing /\ UNCHANGED <<plat, req>> /\ NoFault
          \/ /\ m = d3.policy.id /\ row[m].status = "active"
             /\ \E t \in TMs :
                   /\ Registers(t)
                   /\ \/ /\ req' = Request("reregister", "store",
                                           [row[m] EXCEPT !.tm = t], {})
                         /\ D3Goes("locked") /\ NoFault
                      \/ UNCHANGED req /\ d3' = Nothing /\ Fault
    /\ UNCHANGED <<storeVars, run, procVars, memVars, expected, hand, toldVars>>

ReregisterStore ==
    /\ At("store") /\ req.op = "reregister"
    /\ LET change == row' = [row EXCEPT ![req.policy.id].tm = req.policy.tm]
       IN \/ Commits(change) /\ Goes("bind") /\ UNCHANGED d3
          \/ CommitsLate(change) /\ Releases /\ RunAborts
    /\ UNCHANGED <<issued, plat, run, procVars, memVars, expected, hand, toldVars>>

ReregisterBind ==
    /\ At("bind") /\ req.op = "reregister"
    /\ Bind(req.policy) /\ Releases
    /\ d3' = [d3 EXCEPT !.at = "launch", !.policy = req.policy]
    /\ UNCHANGED <<storeVars, plat, run, procVars, gone, ctx, expected, hand,
                   toldVars, failures>>

(* _start_run: announced to the worker, refused by the platform, or        *)
(* started with the reply lost. *)
Launch ==
    /\ D3At("launch")
    /\ \/ /\ \E c \in Cards : Starts(d3.run, d3.policy.tm, c)
          /\ expected' = expected \cup {d3.run}
          /\ D3Goes("track") /\ NoFault
       \/ /\ plat[d3.policy.tm] # "active"
          /\ d3' = Nothing /\ UNCHANGED <<run, expected>> /\ NoFault
       \/ /\ \E c \in Cards : Starts(d3.run, d3.policy.tm, c)
          /\ d3' = Nothing /\ UNCHANGED expected /\ Fault
    /\ UNCHANGED <<storeVars, plat, procVars, memVars, req, hand, toldVars>>

(* The run is followed.  On another card than the policy's, the policy     *)
(* moves there. *)
TrackRun ==
    /\ D3At("track")
    /\ run' = [run EXCEPT ![d3.run].followed =
                              IF @ = "no" THEN "memory" ELSE @]
    /\ IF run[d3.run].card = d3.policy.card THEN d3' = Nothing ELSE D3Goes("move")
    /\ UNCHANGED <<storeVars, plat, procVars, memVars, expected, req, hand,
                   toldVars, failures>>

(* move_mandate: an active copy on the run's card; the original and that   *)
(* card's earlier policy end. *)
Moved(c) ==
    [row[d3.policy.id] EXCEPT !.id = issued + 1, !.card = c, !.status = "active"]
Moving(copy) ==
    [Ended(ActiveOn(copy.card) \cup {d3.policy.id}) EXCEPT ![copy.id] = copy]

MovePolicy ==
    /\ D3At("move") /\ Serving /\ issued < MaxMandates
    /\ row[d3.policy.id] # Nothing
    /\ issued' = issued + 1 /\ d3' = Nothing
    /\ LET copy == Moved(run[d3.run].card)
       IN \/ /\ Commits(row' = Moving(copy))
             /\ req' = [Request("move", "end", copy, {}) EXCEPT !.olds = ActiveOn(copy.card)]
          \/ CommitsLate(row' = Moving(copy)) /\ UNCHANGED req
    /\ UNCHANGED <<plat, run, procVars, memVars, expected, hand, toldVars>>

-----------------------------------------------------------------------------
(* D3 with the scenario's own instruction, all of it under policy_lock:    *)
(* registered, bound, run started, and only then stored. *)

ScenarioRun(c, r) ==
    /\ Serving /\ MayStart(r) /\ issued < MaxMandates
    /\ \E t \in TMs :
          /\ Registers(t)
          /\ \/ /\ Bind(NewPolicy(c, t))
                /\ req' = Request("scenario", "launch", NewPolicy(c, t), {})
                /\ d3' = [at |-> "locked", policy |-> NewPolicy(c, t), run |-> r]
                /\ issued' = issued + 1 /\ NoFault
             \/ UNCHANGED <<bound, req, d3, issued>> /\ Fault
    /\ UNCHANGED <<row, run, procVars, gone, ctx, expected, hand, toldVars>>

(* A run the platform refuses, or whose reply is lost, is undone. *)
ScenarioLaunch ==
    /\ At("launch")
    /\ \/ /\ \E c \in Cards : Starts(d3.run, req.policy.tm, c)
          /\ expected' = expected \cup {d3.run}
          /\ Goes("store") /\ NoFault /\ UNCHANGED <<gone, bound, ctx>>
       \/ /\ UNCHANGED run \/ \E c \in Cards : Starts(d3.run, req.policy.tm, c)
          /\ req' = [req EXCEPT !.op = "undo", !.at = "mark"]
          /\ LocalRevoke(req.policy.tm) /\ Fault /\ UNCHANGED expected
    /\ UNCHANGED <<storeVars, plat, procVars, d3, hand, toldVars>>

-----------------------------------------------------------------------------
(* The worker decides a purchase of a live run. *)

(* It arrives; `hand' notes what customers had been told by then. *)
Receive(r) ==
    /\ leader # Nothing /\ run[r] # Nothing /\ run[r].state = "live"
    /\ hand # Nothing => hand.at = "decided"
    /\ hand' = [run |-> r,
                at |-> IF ctx[r] = Nothing /\ bound[leader][run[r].tm] = Nothing
                       THEN "restore" ELSE "bind",
                read |-> Nothing, verdict |-> Nothing,
                ended |-> ended, tight |-> tight]
    /\ UNCHANGED <<storeVars, plat, run, procVars, memVars, expected, req, d3,
                   toldVars, failures>>

HandAt(at) == hand # Nothing /\ hand.at = at

(* _restore_policy, on another thread: the row is read, then bound. *)
RestoreRead ==
    /\ HandAt("restore")
    /\ \E copyFirst \in BOOLEAN :
          LET read == Newest(run[hand.run].tm, copyFirst)
          IN hand' = [hand EXCEPT !.at = IF read = Nothing THEN "bind" ELSE "restored",
                                  !.read = read]
    /\ UNCHANGED <<storeVars, plat, run, procVars, memVars, expected, req, d3,
                   toldVars, failures>>

RestoreBind ==
    /\ HandAt("restored")
    /\ Bind(hand.read)
    /\ hand' = [hand EXCEPT !.at = "bind", !.read = Nothing]
    /\ UNCHANGED <<storeVars, plat, run, procVars, gone, ctx, expected, req, d3,
                   toldVars, failures>>

(* _bind_run: a run's context is made at its first purchase and kept.  The *)
(* policy of a run D3 announced is taken for the run's card. *)
Context(r) ==
    LET policy == bound[leader][run[r].tm]
    IN IF policy = Nothing THEN NoPolicy
       ELSE IF r \in expected THEN [Seen(policy) EXCEPT !.card = run[r].card]
       ELSE Seen(policy)

BindRun ==
    /\ HandAt("bind")
    /\ LET r == hand.run
       IN /\ ctx' = IF ctx[r] = Nothing THEN [ctx EXCEPT ![r] = Context(r)] ELSE ctx
          /\ expected' = IF ctx[r] = Nothing THEN expected \ {r} ELSE expected
          /\ run' = [run EXCEPT ![r].followed = "store"]
    /\ hand' = [hand EXCEPT !.at = "decide"]
    /\ UNCHANGED <<storeVars, plat, procVars, bound, gone, req, d3, toldVars,
                   failures>>

(* decide_event's step 1: only an active policy of the purchase's own card *)
(* lets it be approved. *)
Approvable(policy, c) ==
    policy # NoPolicy /\ policy.status = "active" /\ policy.card = c

Decide ==
    /\ HandAt("decide")
    /\ LET policy == ctx[hand.run]
       IN hand' = [hand EXCEPT !.at = "decided",
                       !.verdict = IF Approvable(policy, run[hand.run].card)
                                   THEN policy ELSE Nothing]
    /\ UNCHANGED <<storeVars, plat, run, procVars, memVars, expected, req, d3,
                   toldVars, failures>>

-----------------------------------------------------------------------------
(* Processes *)

(* The application binds every mandates row, oldest first; the worker then *)
(* waits for the lease. *)
StartProcess(p) ==
    /\ p \notin up /\ up' = up \cup {p}
    /\ \E copyFirst \in BOOLEAN :
          bound' = [bound EXCEPT ![p] = [t \in TMs |-> Newest(t, copyFirst)]]
    /\ UNCHANGED <<storeVars, plat, run, leader, gone, ctx, expected, req, d3,
                   hand, toldVars, failures>>

(* _take_over: runs the store shows unfinished are followed again; no      *)
(* policy is read. *)
Lead(p) ==
    /\ p \in up /\ leader = Nothing
    /\ leader' = p
    /\ UNCHANGED <<storeVars, plat, run, up, memVars, expected, req, d3, hand,
                   toldVars, failures>>

(* The leading process dies; a run it followed may not have been stored. *)
Crash ==
    /\ leader # Nothing /\ Fault
    /\ leader' = Nothing /\ up' = up \ {leader}
    /\ bound' = [bound EXCEPT ![leader] = [t \in TMs |-> Nothing]]
    /\ gone' = {} /\ expected' = {} /\ ctx' = [r \in Runs |-> Nothing]
    /\ req' = Nothing /\ d3' = Nothing /\ hand' = Nothing
    /\ \E lost \in SUBSET {r \in Runs : run[r] # Nothing /\ run[r].followed = "memory"} :
          run' = [r \in Runs |->
                     IF r \in lost THEN [run[r] EXCEPT !.followed = "no"] ELSE run[r]]
    /\ UNCHANGED <<storeVars, plat, toldVars>>

-----------------------------------------------------------------------------

Init ==
    /\ row = [m \in Mandates |-> Nothing] /\ issued = 0
    /\ plat = [t \in TMs |-> "none"]
    /\ run = [r \in Runs |-> Nothing]
    /\ leader = Nothing /\ up = {}
    /\ bound = [p \in Procs |-> [t \in TMs |-> Nothing]]
    /\ gone = {} /\ expected = {} /\ ctx = [r \in Runs |-> Nothing]
    /\ req = Nothing /\ d3 = Nothing /\ hand = Nothing
    /\ ended = {} /\ tight = {} /\ failures = 0

Requests ==
    \E c \in Cards :
        \/ ConfirmDraft(c) \/ TightenPolicy(c) \/ RevokePolicy(c)
        \/ \E r \in Runs : CreateRun(c, r) \/ ScenarioRun(c, r)

RequestSteps ==
    \/ StoreConfirmed \/ EndOld \/ MarkRevoked \/ DeleteAtPlatform \/ BindNew
    \/ TightenStore \/ TightenBind
    \/ RevokeStore \/ RevokeBind \/ RevokeFlip
    \/ CheckPlatform \/ Reregister \/ ReregisterStore \/ ReregisterBind
    \/ Launch \/ TrackRun \/ MovePolicy \/ ScenarioLaunch

WorkerSteps ==
    \/ RestoreRead \/ RestoreBind \/ BindRun \/ Decide
    \/ \E r \in Runs : Receive(r) \/ FinishRun(r)

Next ==
    \/ Requests \/ RequestSteps \/ WorkerSteps \/ Crash
    \/ \E p \in Procs : StartProcess(p) \/ Lead(p)

Spec == Init /\ [][Next]_vars

-----------------------------------------------------------------------------
(* Properties *)

(* Every variable keeps its type. *)
TypeOK ==
    /\ row \in [Mandates -> OrNothing(Policies)]
    /\ \A m \in Stored : row[m].id = m
    /\ issued \in 0..MaxMandates
    /\ plat \in [TMs -> {"none", "active", "superseded", "revoked"}]
    /\ run \in [Runs -> OrNothing(LiveRuns)]
    /\ leader \in OrNothing(up) /\ up \subseteq Procs
    /\ bound \in [Procs -> [TMs -> OrNothing(Policies)]]
    /\ gone \subseteq TMs /\ expected \subseteq Runs
    /\ ctx \in [Runs -> OrNothing(Policies) \cup {NoPolicy}]
    /\ req \in OrNothing(LockHolders) /\ d3 \in OrNothing(RunRequests)
    /\ hand \in OrNothing(Purchases)
    /\ ended \subseteq Mandates /\ tight \subseteq Mandates
    /\ failures \in 0..MaxFailures

(* The policy the purchase in hand was approved under, if it was. *)
ApprovedUnder == IF hand = Nothing THEN Nothing ELSE hand.verdict

(* A card never has two active policies, whoever of C2, C5 and the two     *)
(* forms of D3 wrote last, and whatever of it failed. *)
OneActivePolicy ==
    \A m, n \in Mandates :
        Active(m) /\ Active(n) /\ row[m].card = row[n].card => m = n

(* A TM revoked in this process stays revoked in it: no bind, restore or   *)
(* move that was on its way makes its policy or a run under it active. *)
RevokedStaysRevoked ==
    \A t \in gone :
        /\ bound[leader][t] # Nothing => bound[leader][t].status = "ended"
        /\ \A r \in Runs :
              HasPolicy(r) /\ run[r].tm = t => ctx[r].status = "ended"

(* T6, "revoke stops everything: later purchases under it are declined"    *)
(* (docs/rules.md:151): after the customer was told that a policy has      *)
(* ended, no purchase that arrives is approved under it. *)
RevokeStopsEverything ==
    ApprovedUnder # Nothing =>
        \A m \in hand.ended : row[m].root # ApprovedUnder.root

(* T6 holds for the policy the customer revoked or replaced, whatever call *)
(* of C2, C4, C5 and D3 fails or comes late and whenever the process       *)
(* restarts, in every run under the TM that the policy has in the store.   *)
(* (D3 registers a policy again under a new TM and leaves the runs of its  *)
(* earlier one behind; it moves a policy as a copy, which is another one.) *)
RevokeStopsHere ==
    ApprovedUnder # Nothing /\ ApprovedUnder.id \in hand.ended
        => row[ApprovedUnder.id].tm # run[hand.run].tm

(* The rows of one policy: the one it was confirmed as, and its copies.    *)
CopiesOf(root) == {m \in Stored : row[m].root = root}
LastOf(root) == {m \in CopiesOf(root) : \A n \in CopiesOf(root) : n <= m}

(* With nothing failing and no request on its way, a live run goes by a    *)
(* policy that is active in the store, on whatever card it is now, unless  *)
(* the policy was registered again since. *)
RunsFollowTheStore ==
    failures = 0 /\ req = Nothing =>
        \A r \in Runs :
            HasPolicy(r) /\ ctx[r].status = "active" /\ run[r].state = "live" =>
                \/ \E m \in CopiesOf(ctx[r].root) : Active(m)
                \/ \A m \in LastOf(ctx[r].root) : row[m].tm # run[r].tm

=============================================================================
