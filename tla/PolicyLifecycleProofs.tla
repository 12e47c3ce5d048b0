----------------------- MODULE PolicyLifecycleProofs -----------------------
(***************************************************************************)
(* What TLAPS proves of PolicyLifecycle, for any processes, cards, runs,   *)
(* policies and number of failures: its types, that a card never has two   *)
(* active policies, that what a process revoked stays revoked in it, that  *)
(* a policy the customer was told has ended approves nothing more, and     *)
(* that while nothing fails a live run goes by an active row.  The last    *)
(* three theorems are about MCPolicy: its parts in force, its readings of  *)
(* a customer's words, and what it shows of a policy.                      *)
(***************************************************************************)
EXTENDS MCPolicy, Sequences, FiniteSetTheorems, WellFoundedInduction, TLAPS

(* Rows are filled in the order of their ids. *)
RowInv == \A m \in Stored : m <= issued

(* Only a leading process serves, and what it revoked goes with it. *)
LeadInv ==
    /\ leader = Nothing => gone = {} /\ req = Nothing /\ d3 = Nothing /\ hand = Nothing
    /\ \A r \in Runs : ctx[r] # Nothing => run[r] # Nothing

(* Where each request can be. *)
OpsAt(at) ==
    CASE at = "store"  -> {"confirm", "scenario", "tighten", "revoke", "reregister"}
      [] at = "end"    -> {"confirm", "scenario", "move"}
      [] at = "bind"   -> {"tighten", "revoke", "reregister"}
      [] at = "flip"   -> {"revoke"}
      [] at = "launch" -> {"scenario"}
      [] OTHER         -> {"confirm", "scenario", "move", "revoke", "undo"}

(* A request that makes a policy has the newest id, which no row has       *)
(* before it is stored; one that changes or ends a policy has its row; the *)
(* earlier policies still to be ended are ended in the store; a D3 under   *)
(* policy_lock has its request. *)
ReqInv ==
    req # Nothing =>
        /\ req.op \in OpsAt(req.at)
        /\ req.at = "launch" \/ (req.at = "store" /\ req.op \in {"confirm", "scenario"})
              => req.policy.id = issued /\ issued \notin Stored
        /\ req.op \in {"tighten", "revoke", "reregister"} => req.policy.id \in Stored
        /\ \A m \in req.olds : m \in Stored /\ row[m].status = "ended"
        /\ req.op \in {"scenario", "reregister", "undo"}
              => d3 # Nothing /\ d3.at = "locked"

(* The run of a D3 exists once the platform has started it, not before. *)
D3Inv ==
    d3 # Nothing =>
        /\ d3.at \in {"check", "register", "launch"} => run[d3.run] = Nothing
        /\ d3.at \in {"track", "move"} => run[d3.run] # Nothing
        /\ d3.at = "locked" =>
              /\ req # Nothing /\ req.op \in {"scenario", "reregister", "undo"}
              /\ req.op = "reregister" \/ req.at = "launch" => run[d3.run] = Nothing
              /\ req.op = "scenario" /\ req.at # "launch" => run[d3.run] # Nothing

(* The purchase in hand is one of a run the platform has started. *)
HandInv ==
    hand # Nothing =>
        /\ run[hand.run] # Nothing
        /\ hand.at = "restored" => hand.read # Nothing

IInv ==
    /\ TypeOK /\ RowInv /\ LeadInv /\ ReqInv /\ D3Inv /\ HandInv
    /\ OneActivePolicy /\ RevokedStaysRevoked

-----------------------------------------------------------------------------
(* Lemmas about records and rows *)

(* Nothing and NoPolicy are not policies. *)
LEMMA NotPolicies ==
    /\ Nothing \notin Policies /\ NoPolicy \notin Policies /\ Nothing # NoPolicy
    /\ Nothing \notin Procs /\ Nothing \notin LiveRuns
    /\ Nothing \notin LockHolders /\ Nothing \notin RunRequests
BY NothingAssumption

(* Ending a policy changes its status only. *)
LEMMA EndType ==
    ASSUME NEW policy \in Policies
    PROVE  /\ End(policy) \in Policies /\ End(policy).status = "ended"
           /\ End(policy).id = policy.id /\ End(policy).card = policy.card
           /\ End(policy).tm = policy.tm
BY DEF End, Policies

(* What is bound is a policy of the same TM, ended if the TM was revoked. *)
LEMMA SeenType ==
    ASSUME NEW policy \in Policies
    PROVE  /\ Seen(policy) \in Policies /\ Seen(policy).tm = policy.tm
           /\ policy.tm \in gone => Seen(policy).status = "ended"
BY EndType DEF Seen

(* The latest policies of a card are rows of it. *)
LEMMA LatestIsStored ==
    ASSUME TypeOK, NEW c, NEW m \in Latest(c)
    PROVE  m \in Stored /\ m \in Mandates /\ row[m] \in Policies /\ row[m].id = m
           /\ row[m].card = c
BY DEF Latest, Stored, TypeOK, OrNothing

(* What a restore or a start reads is a row, if anything. *)
LEMMA NewestType ==
    ASSUME TypeOK, NEW t, NEW copyFirst
    PROVE  Newest(t, copyFirst) \in OrNothing(Policies)
<1> DEFINE under == {m \in Stored : row[m].tm = t}
           best == {m \in under :
                       \A n \in under : IF copyFirst THEN m >= n ELSE m <= n}
<1>1. CASE best = {}
  BY <1>1 DEF Newest, OrNothing
<1>2. CASE best # {}
  <2>1. PICK m \in best : m = CHOOSE x \in best : TRUE
    BY <1>2
  <2>2. m \in Mandates
    BY DEF Stored
  <2>3. Newest(t, copyFirst) = row[m]
    BY <1>2, <2>1 DEF Newest
  <2> QED
    BY <2>2, <2>3 DEF TypeOK
<1> QED
  BY <1>1, <1>2

(* A policy just made is one. *)
LEMMA NewPolicyType ==
    ASSUME TypeOK, issued < MaxMandates, NEW c \in Cards, NEW t \in TMs
    PROVE  /\ NewPolicy(c, t) \in Policies /\ NewPolicy(c, t).id = issued + 1
           /\ NewPolicy(c, t).tm = t
BY PolicyAssumption DEF TypeOK, NewPolicy, Policies, Mandates

(* The contexts after a revocation: the runs under the TM have ended. *)
LEMMA FlipType ==
    ASSUME TypeOK, NEW t
    PROVE  /\ FlipRuns(t) \in [Runs -> OrNothing(Policies) \cup {NoPolicy}]
           /\ \A r \in Runs :
                 /\ FlipRuns(t)[r] \in {Nothing, NoPolicy} <=> ctx[r] \in {Nothing, NoPolicy}
                 /\ ~HasPolicy(r) => FlipRuns(t)[r] = ctx[r]
                 /\ HasPolicy(r) /\ run[r].tm = t => FlipRuns(t)[r].status = "ended"
                 /\ HasPolicy(r) /\ run[r].tm # t => FlipRuns(t)[r] = ctx[r]
<1>1. \A r \in Runs : HasPolicy(r) => ctx[r] \in Policies
  BY DEF TypeOK, HasPolicy, OrNothing
<1>2. \A r \in Runs : HasPolicy(r) => End(ctx[r]) \in Policies /\ End(ctx[r]).status = "ended"
  BY <1>1, EndType
<1> QED
  BY <1>1, <1>2, NotPolicies DEF TypeOK, FlipRuns, OrNothing, HasPolicy

(* Binding a policy keeps _policies well typed; the policy of a TM revoked *)
(* in this process is bound as ended. *)
LEMMA BindType ==
    ASSUME TypeOK, leader \in Procs, NEW policy \in Policies, Bind(policy)
    PROVE  /\ bound' \in [Procs -> [TMs -> OrNothing(Policies)]]
           /\ \A t \in TMs :
                 \/ bound'[leader][t] = bound[leader][t]
                 \/ t \in gone => bound'[leader][t].status = "ended"
<1>1. policy.tm \in TMs
  BY DEF Policies
<1>2. Seen(policy) \in Policies /\ (policy.tm \in gone => Seen(policy).status = "ended")
  BY SeenType
<1>3. bound' = [bound EXCEPT ![leader][policy.tm] = Seen(policy)]
  BY DEF Bind
<1> QED
  BY <1>1, <1>2, <1>3 DEF TypeOK, OrNothing

-----------------------------------------------------------------------------
(* The mandates rows *)

(* What OneActivePolicy and TypeOK say of the rows, of any table. *)
GoodRows(rows) ==
    /\ rows \in [Mandates -> OrNothing(Policies)]
    /\ \A m \in Mandates : rows[m] # Nothing => rows[m].id = m
    /\ \A m, n \in Mandates :
          /\ rows[m] # Nothing /\ rows[m].status = "active"
          /\ rows[n] # Nothing /\ rows[n].status = "active"
          /\ rows[m].card = rows[n].card
          => m = n

(* No row is deleted, and one that ended stays ended. *)
RowsKept(rows) ==
    \A m \in Stored :
        rows[m] # Nothing /\ (row[m].status = "ended" => rows[m].status = "ended")

LEMMA RowsAreGood ==
    ASSUME TypeOK, OneActivePolicy
    PROVE  GoodRows(row)
BY DEF TypeOK, OneActivePolicy, GoodRows, Active, Stored

(* Ending rows leaves them good and in their places. *)
LEMMA EndRows ==
    ASSUME GoodRows(row), NEW S \in SUBSET Stored
    PROVE  /\ GoodRows(Ended(S)) /\ RowsKept(Ended(S))
           /\ \A m \in Mandates :
                 /\ Ended(S)[m] = Nothing <=> row[m] = Nothing
                 /\ m \in S => Ended(S)[m] = End(row[m]) /\ Ended(S)[m].status = "ended"
                 /\ m \notin S => Ended(S)[m] = row[m]
<1>1. \A m \in Mandates : row[m] # Nothing => row[m] \in Policies
  BY DEF GoodRows, OrNothing
<1>2. \A m \in S : /\ m \in Mandates /\ row[m] # Nothing /\ End(row[m]) \in Policies
                   /\ End(row[m]).status = "ended" /\ End(row[m]).id = m
                   /\ End(row[m]).card = row[m].card
  BY <1>1, EndType DEF Stored, GoodRows
<1>3. \A m \in Mandates : Ended(S)[m] = IF m \in S THEN End(row[m]) ELSE row[m]
  BY DEF Ended
<1>4. Ended(S) \in [Mandates -> OrNothing(Policies)]
  BY <1>1, <1>2 DEF Ended, OrNothing, GoodRows
<1>5. \A m \in Mandates : Ended(S)[m] = Nothing <=> row[m] = Nothing
  BY <1>2, <1>3, NotPolicies
<1>6. RowsKept(Ended(S))
  BY <1>2, <1>3, <1>5 DEF RowsKept, Stored
<1>7. GoodRows(Ended(S))
  BY <1>2, <1>3, <1>4, <1>5 DEF GoodRows
<1> QED
  BY <1>2, <1>3, <1>5, <1>6, <1>7

(* A policy takes its place once no other one is active on its card. *)
LEMMA PutRow ==
    ASSUME NEW rows, GoodRows(rows), NEW policy \in Policies,
           \A m \in Mandates :
               m # policy.id /\ rows[m] # Nothing /\ rows[m].status = "active"
                   => rows[m].card # policy.card
    PROVE  GoodRows([rows EXCEPT ![policy.id] = policy])
<1>1. policy.id \in Mandates
  BY DEF Policies
<1> QED
  BY <1>1, NotPolicies DEF GoodRows, OrNothing

(* A row whose level or TM changes is still that row. *)
LEMMA ChangeRow ==
    ASSUME GoodRows(row), NEW m \in Stored, NEW policy \in Policies,
           policy.id = m, policy.card = row[m].card, policy.status = row[m].status
    PROVE  /\ GoodRows([row EXCEPT ![m] = policy])
           /\ RowsKept([row EXCEPT ![m] = policy])
<1>1. m \in Mandates /\ row[m] # Nothing
  BY DEF Stored
<1>2. RowsKept([row EXCEPT ![m] = policy])
  BY <1>1, NotPolicies DEF RowsKept, GoodRows, Stored
<1>3. GoodRows([row EXCEPT ![m] = policy])
  <2> DEFINE new == [row EXCEPT ![m] = policy]
  <2>1. \A n \in Mandates :
           /\ new[n] # Nothing <=> row[n] # Nothing
           /\ new[n] # Nothing => /\ new[n].id = n /\ new[n].card = row[n].card
                                  /\ new[n].status = row[n].status
    BY <1>1, NotPolicies DEF GoodRows
  <2>2. new \in [Mandates -> OrNothing(Policies)]
    BY <1>1 DEF GoodRows, OrNothing
  <2> HIDE DEF new
  <2>3. GoodRows(new)
    BY <2>1, <2>2 DEF GoodRows
  <2> QED
    BY <2>3 DEF new
<1> QED
  BY <1>2, <1>3

(* The policy becomes the active one of its card; `ends' are all that were. *)
LEMMA PutOverEnded ==
    ASSUME GoodRows(row), NEW ends \in SUBSET Stored, NEW policy \in Policies,
           policy.id \notin Stored, ActiveOn(policy.card) \subseteq ends
    PROVE  LET new == [Ended(ends) EXCEPT ![policy.id] = policy]
           IN /\ GoodRows(new) /\ RowsKept(new)
              /\ \A m \in Mandates : new[m] # Nothing => m \in Stored \/ m = policy.id
              /\ \A m \in ends : new[m] # Nothing /\ new[m].status = "ended"
<1>1. policy.id \in Mandates
  BY DEF Policies
<1>2. GoodRows(Ended(ends)) /\ RowsKept(Ended(ends))
  BY EndRows
<1>3. \A m \in Mandates :
         /\ Ended(ends)[m] = Nothing <=> row[m] = Nothing
         /\ m \in ends => Ended(ends)[m].status = "ended"
         /\ m \notin ends => Ended(ends)[m] = row[m]
  BY EndRows
<1>4. \A m \in Mandates :
         m # policy.id /\ Ended(ends)[m] # Nothing /\ Ended(ends)[m].status = "active"
             => Ended(ends)[m].card # policy.card
  BY <1>3 DEF ActiveOn, Active, Stored
<1>5. GoodRows([Ended(ends) EXCEPT ![policy.id] = policy])
  BY <1>2, <1>4, PutRow
<1>6. \A m \in Mandates :
         /\ m # policy.id => [Ended(ends) EXCEPT ![policy.id] = policy][m] = Ended(ends)[m]
         /\ [Ended(ends) EXCEPT ![policy.id] = policy][policy.id] = policy
  BY <1>1, <1>2 DEF GoodRows
<1> QED
  BY <1>2, <1>3, <1>5, <1>6, NotPolicies DEF RowsKept, Stored

(* The row D3 copies to another card. *)
LEMMA MovedType ==
    ASSUME IInv, D3At("move"), issued < MaxMandates, row[d3.policy.id] # Nothing
    PROVE  LET copy == Moved(run[d3.run].card)
           IN /\ copy \in Policies /\ copy.id = issued + 1 /\ copy.id \notin Stored
              /\ d3.policy.id \in Stored
<1>1. d3.policy.id \in Mandates /\ d3.policy \in Policies /\ d3.run \in Runs
  BY NotPolicies DEF IInv, TypeOK, OrNothing, D3At, RunRequests, Policies
<1>2. row[d3.policy.id] \in Policies
  BY <1>1 DEF IInv, TypeOK, OrNothing
<1>3. run[d3.run].card \in Cards
  BY <1>1 DEF IInv, TypeOK, OrNothing, LiveRuns, D3Inv, D3At
<1>4. issued \in Nat /\ issued + 1 \in Mandates /\ issued + 1 \notin Stored
  BY PolicyAssumption DEF IInv, TypeOK, RowInv, Mandates, Stored
<1>5. d3.policy.id \in Stored
  BY <1>1 DEF Stored
<1> QED
  BY <1>2, <1>3, <1>4, <1>5 DEF Moved, Policies

(* Every step leaves the rows good, and each in its place. *)
LEMMA RowStep ==
    ASSUME IInv, Next
    PROVE  GoodRows(row') /\ RowsKept(row') /\ RowInv'
<1> USE NotPolicies, PolicyAssumption
<1> DEFINE Kept == GoodRows(row') /\ RowsKept(row') /\ RowInv'
<1>0. /\ GoodRows(row) /\ TypeOK /\ RowInv /\ ReqInv
      /\ issued \in Nat /\ \A m \in Stored : m <= issued /\ row[m] \in Policies /\ row[m].id = m
  BY RowsAreGood DEF IInv, TypeOK, RowInv, Stored, OrNothing
<1>1. ASSUME row' = row, issued' \in {issued, issued + 1} PROVE Kept
  <2>1. GoodRows(row')
    BY <1>0, <1>1
  <2>2. RowsKept(row')
    BY <1>1 DEF RowsKept, Stored
  <2>3. RowInv'
    BY <1>0, <1>1 DEF RowInv, Stored, Mandates
  <2> QED
    BY <2>1, <2>2, <2>3
<1>2. CASE StoreConfirmed
  <2>1. /\ req.policy \in Policies /\ req.policy.id = issued /\ issued \notin Stored
        /\ req.policy.card \in Cards /\ issued' = issued
        /\ row' = row \/ row' = Replacing(req.policy)
    BY <1>0, <1>2 DEF StoreConfirmed, At, TypeOK, OrNothing, LockHolders, ReqInv,
       Commits, CommitsLate, Policies
  <2>2. CASE row' = Replacing(req.policy)
    <3>1. ActiveOn(req.policy.card) \subseteq Stored
      BY DEF ActiveOn, Active
    <3>2. /\ GoodRows(row') /\ RowsKept(row')
          /\ \A m \in Mandates : row'[m] # Nothing => m \in Stored \/ m = issued
      BY <1>0, <2>1, <2>2, <3>1, PutOverEnded DEF Replacing
    <3> QED
      BY <1>0, <2>1, <3>2 DEF RowInv, Stored
  <2> QED
    BY <1>1, <2>1, <2>2
<1>3. CASE MarkRevoked
  <2> DEFINE S == {m \in Mandates : Active(m) /\ row[m].tm = req.ending}
  <2>1. S \subseteq Stored /\ issued' = issued /\ (row' = row \/ row' = Ended(S))
    BY <1>3 DEF MarkRevoked, Commits, CommitsLate, Active
  <2> QED
    BY <1>0, <1>1, <2>1, EndRows DEF RowInv, Stored
<1>4. CASE TightenStore
  <2> DEFINE id == req.policy.id
             policy == [row[id] EXCEPT !.level = "tightened"]
  <2>1. id \in Stored /\ issued' = issued
    BY <1>0, <1>4 DEF TightenStore, At, ReqInv
  <2>2. row' = row \/ row' = [row EXCEPT ![id] = policy]
    BY <1>4 DEF TightenStore, Commits, CommitsLate
  <2>3. /\ policy \in Policies /\ policy.id = id /\ policy.card = row[id].card
        /\ policy.status = row[id].status
    BY <1>0, <2>1 DEF Policies
  <2> HIDE DEF policy, id
  <2> QED
    BY <1>0, <1>1, <2>1, <2>2, <2>3, ChangeRow DEF RowInv, Stored, GoodRows
<1>5. CASE RevokeStore
  <2>1. req.policy.id \in Stored /\ issued' = issued
        /\ (row' = row \/ row' = Ended({req.policy.id}))
    BY <1>0, <1>5 DEF RevokeStore, At, ReqInv, Commits, CommitsLate
  <2> QED
    BY <1>0, <1>1, <2>1, EndRows DEF RowInv, Stored
<1>6. CASE ReregisterStore
  <2> DEFINE id == req.policy.id
             policy == [row[id] EXCEPT !.tm = req.policy.tm]
  <2>1. id \in Stored /\ issued' = issued /\ req.policy.tm \in TMs
    BY <1>0, <1>6 DEF ReregisterStore, At, ReqInv, TypeOK, OrNothing, LockHolders,
       Policies
  <2>2. row' = row \/ row' = [row EXCEPT ![id] = policy]
    BY <1>6 DEF ReregisterStore, Commits, CommitsLate
  <2>3. /\ policy \in Policies /\ policy.id = id /\ policy.card = row[id].card
        /\ policy.status = row[id].status
    BY <1>0, <2>1 DEF Policies
  <2> HIDE DEF policy, id
  <2> QED
    BY <1>0, <1>1, <2>1, <2>2, <2>3, ChangeRow DEF RowInv, Stored, GoodRows
<1>7. CASE MovePolicy
  <2> DEFINE copy == Moved(run[d3.run].card)
             ends == ActiveOn(copy.card) \cup {d3.policy.id}
  <2>1. /\ copy \in Policies /\ copy.id = issued + 1 /\ copy.id \notin Stored
        /\ d3.policy.id \in Stored
    BY <1>7, MovedType DEF MovePolicy
  <2>2. /\ issued' = issued + 1
        /\ row' = row \/ row' = [Ended(ends) EXCEPT ![copy.id] = copy]
    BY <1>7 DEF MovePolicy, Moving, Commits, CommitsLate
  <2>3. ends \in SUBSET Stored /\ ActiveOn(copy.card) \subseteq ends
    BY <2>1 DEF ActiveOn, Active
  <2> HIDE DEF copy, ends
  <2>4. CASE row' = [Ended(ends) EXCEPT ![copy.id] = copy]
    <3> DEFINE new == [Ended(ends) EXCEPT ![copy.id] = copy]
    <3>1. /\ GoodRows(new) /\ RowsKept(new)
          /\ \A m \in Mandates : new[m] # Nothing => m \in Stored \/ m = copy.id
      BY <1>0, <2>1, <2>3, PutOverEnded
    <3>2. row' = new
      BY <2>4
    <3> HIDE DEF new
    <3>3. /\ GoodRows(row') /\ RowsKept(row')
          /\ \A m \in Mandates : row'[m] # Nothing => m \in Stored \/ m = issued + 1
      BY <2>1, <3>1, <3>2
    <3> QED
      BY <1>0, <2>2, <3>3 DEF RowInv, Stored, Mandates
  <2> QED
    BY <1>1, <2>2, <2>4
<1>8. CASE Requests
  BY <1>1, <1>8 DEF Requests, ConfirmDraft, TightenPolicy, RevokePolicy, CreateRun,
     ScenarioRun, storeVars
<1>9. CASE WorkerSteps \/ Crash \/ \E p \in Procs : StartProcess(p) \/ Lead(p)
  BY <1>1, <1>9 DEF WorkerSteps, RestoreRead, RestoreBind, BindRun, Decide, Receive,
     FinishRun, Crash, StartProcess, Lead, storeVars
<1>10. CASE \/ EndOld \/ DeleteAtPlatform \/ BindNew \/ TightenBind \/ RevokeBind
            \/ RevokeFlip \/ CheckPlatform \/ Reregister \/ ReregisterBind \/ Launch
            \/ TrackRun \/ ScenarioLaunch
  BY <1>1, <1>10 DEF EndOld, DeleteAtPlatform, BindNew, TightenBind, RevokeBind,
     RevokeFlip, CheckPlatform, Reregister, ReregisterBind, Launch, TrackRun,
     ScenarioLaunch, storeVars
<1> QED
  BY <1>2, <1>3, <1>4, <1>5, <1>6, <1>7, <1>8, <1>9, <1>10 DEF Next, RequestSteps

-----------------------------------------------------------------------------
(* The live runs *)

(* No step forgets a run or changes its TM or its card. *)
RunsKept ==
    \A r \in Runs : run[r] # Nothing =>
        run'[r] # Nothing /\ run'[r].tm = run[r].tm /\ run'[r].card = run[r].card

NoNewRun == \A r \in Runs : run[r] = Nothing => run'[r] = Nothing

RunsMove == run' \in [Runs -> OrNothing(LiveRuns)] /\ RunsKept

(* A run the platform starts is a new one. *)
LEMMA StartMoves ==
    ASSUME TypeOK, NEW r \in Runs, run[r] = Nothing, NEW t \in TMs, NEW c \in Cards,
           Starts(r, t, c)
    PROVE  RunsMove /\ run'[r] # Nothing /\ \A q \in Runs : q # r => run'[q] = run[q]
<1> DEFINE new == [tm |-> t, card |-> c, state |-> "live", followed |-> "no"]
<1>1. new \in LiveRuns
  BY DEF LiveRuns
<1>2. run' = [run EXCEPT ![r] = new]
  BY DEF Starts
<1> QED
  BY <1>1, <1>2, NotPolicies DEF TypeOK, RunsMove, RunsKept, OrNothing

(* A run whose state or follower changes keeps its TM and its card. *)
LEMMA ChangeMoves ==
    ASSUME TypeOK, NEW r \in Runs, NEW new \in LiveRuns, run[r] # Nothing,
           new.tm = run[r].tm, new.card = run[r].card,
           run' = [run EXCEPT ![r] = new]
    PROVE  RunsMove /\ NoNewRun
BY NotPolicies DEF TypeOK, RunsMove, RunsKept, NoNewRun, OrNothing

LEMMA RunStep ==
    ASSUME IInv, Next
    PROVE  RunsMove /\ (NoNewRun \/ Launch \/ ScenarioLaunch)
<1>0. /\ TypeOK /\ D3Inv /\ HandInv
      /\ \A r \in Runs : run[r] # Nothing => run[r] \in LiveRuns
      /\ d3 # Nothing => d3.run \in Runs /\ d3.policy.tm \in TMs
      /\ req # Nothing => req.policy.tm \in TMs
      /\ hand # Nothing => hand.run \in Runs
  BY DEF IInv, TypeOK, OrNothing, RunRequests, LockHolders, Purchases, Policies
<1>1. ASSUME run' = run PROVE RunsMove /\ NoNewRun
  BY <1>0, <1>1 DEF RunsMove, RunsKept, NoNewRun, TypeOK
<1>2. ASSUME NEW r \in Runs, FinishRun(r) PROVE RunsMove /\ NoNewRun
  <2>1. [run[r] EXCEPT !.state = "done"] \in LiveRuns
    BY <1>0, <1>2 DEF FinishRun, LiveRuns
  <2> QED
    BY <1>0, <1>2, <2>1, ChangeMoves DEF FinishRun, LiveRuns
<1>3. CASE Launch
  BY <1>0, <1>1, <1>3, StartMoves DEF Launch, D3At, D3Inv
<1>4. CASE ScenarioLaunch
  <2>1. d3 # Nothing /\ run[d3.run] = Nothing /\ req # Nothing
    BY <1>4 DEF ScenarioLaunch, At, IInv, ReqInv, OpsAt, D3Inv
  <2> QED
    BY <1>0, <1>1, <1>4, <2>1, StartMoves DEF ScenarioLaunch
<1>5. CASE TrackRun
  <2> DEFINE new == [run[d3.run] EXCEPT !.followed = IF @ = "no" THEN "memory" ELSE @]
  <2>1. d3 # Nothing /\ run[d3.run] # Nothing /\ run[d3.run] \in LiveRuns
    BY <1>0, <1>5 DEF TrackRun, D3At, D3Inv
  <2>2. new \in LiveRuns /\ new.tm = run[d3.run].tm /\ new.card = run[d3.run].card
    BY <2>1 DEF LiveRuns
  <2>3. run' = [run EXCEPT ![d3.run] = new]
    BY <1>5 DEF TrackRun
  <2> HIDE DEF new
  <2> QED
    BY <1>0, <2>1, <2>2, <2>3, ChangeMoves
<1>6. CASE BindRun
  <2> DEFINE new == [run[hand.run] EXCEPT !.followed = "store"]
  <2>1. hand # Nothing /\ run[hand.run] # Nothing /\ run[hand.run] \in LiveRuns
    BY <1>0, <1>6 DEF BindRun, HandAt, HandInv
  <2>2. new \in LiveRuns /\ new.tm = run[hand.run].tm /\ new.card = run[hand.run].card
    BY <2>1 DEF LiveRuns
  <2>3. run' = [run EXCEPT ![hand.run] = new]
    BY <1>6 DEF BindRun
  <2> HIDE DEF new
  <2> QED
    BY <1>0, <2>1, <2>2, <2>3, ChangeMoves
<1>7. CASE Crash
  <2>1. PICK lost \in SUBSET {r \in Runs : run[r] # Nothing /\ run[r].followed = "memory"} :
          run' = [r \in Runs |->
                     IF r \in lost THEN [run[r] EXCEPT !.followed = "no"] ELSE run[r]]
    BY <1>7 DEF Crash
  <2>2. \A r \in lost : r \in Runs /\ run[r] # Nothing /\ run[r] \in LiveRuns
    BY <1>0, <2>1
  <2>3. \A new \in LiveRuns :
           /\ [new EXCEPT !.followed = "no"] \in LiveRuns
           /\ [new EXCEPT !.followed = "no"].tm = new.tm
           /\ [new EXCEPT !.followed = "no"].card = new.card
    BY DEF LiveRuns
  <2>4. \A r \in Runs : /\ run[r] \in OrNothing(LiveRuns)
                        /\ run'[r] = IF r \in lost THEN [run[r] EXCEPT !.followed = "no"]
                                     ELSE run[r]
    BY <1>0, <2>1 DEF TypeOK
  <2>5. RunsKept
    <3>1. \A r \in lost : run'[r] = [run[r] EXCEPT !.followed = "no"]
      BY <2>4
    <3>2. \A r \in lost : run'[r] \in LiveRuns /\ run'[r].tm = run[r].tm
                          /\ run'[r].card = run[r].card
      <4>1. TAKE r \in lost
      <4> DEFINE was == run[r]
      <4>2. was \in LiveRuns /\ run'[r] = [was EXCEPT !.followed = "no"]
        BY <2>2, <3>1
      <4> HIDE DEF was
      <4>3. run'[r] \in LiveRuns /\ run'[r].tm = was.tm /\ run'[r].card = was.card
        BY <2>3, <4>2
      <4> QED
        BY <4>3 DEF was
    <3>3. \A r \in Runs \ lost : run'[r] = run[r]
      BY <2>4
    <3>4. \A r \in lost : run'[r] # Nothing
      BY <3>2, NotPolicies
    <3> QED
      BY <3>2, <3>3, <3>4 DEF RunsKept
  <2>6. run' \in [Runs -> OrNothing(LiveRuns)]
    BY <2>1, <2>2, <2>3, <2>4 DEF OrNothing
  <2>7. NoNewRun
    BY <2>1, <2>2, <2>4 DEF NoNewRun
  <2> QED
    BY <2>5, <2>6, <2>7 DEF RunsMove
<1>8. CASE Requests
  BY <1>1, <1>8 DEF Requests, ConfirmDraft, TightenPolicy, RevokePolicy, CreateRun,
     ScenarioRun
<1>9. CASE \/ RestoreRead \/ RestoreBind \/ Decide \/ \E r \in Runs : Receive(r)
           \/ \E p \in Procs : StartProcess(p) \/ Lead(p)
  BY <1>1, <1>9 DEF RestoreRead, RestoreBind, Decide, Receive, StartProcess, Lead
<1>10. CASE \/ StoreConfirmed \/ EndOld \/ MarkRevoked \/ DeleteAtPlatform \/ BindNew
            \/ TightenStore \/ TightenBind \/ RevokeStore \/ RevokeBind \/ RevokeFlip
            \/ CheckPlatform \/ Reregister \/ ReregisterStore \/ ReregisterBind
            \/ MovePolicy
  BY <1>1, <1>10 DEF StoreConfirmed, EndOld, MarkRevoked, DeleteAtPlatform, BindNew,
     TightenStore, TightenBind, RevokeStore, RevokeBind, RevokeFlip, CheckPlatform,
     Reregister, ReregisterStore, ReregisterBind, MovePolicy
<1> QED
  BY <1>2, <1>3, <1>4, <1>5, <1>6, <1>7, <1>8, <1>9, <1>10
     DEF Next, RequestSteps, WorkerSteps

-----------------------------------------------------------------------------
(* The worker's memory *)

(* What a step must leave of the policies in memory: those of a TM revoked *)
(* in this process have ended, and so have the runs under it. *)
MemMoves ==
    /\ bound' \in [Procs -> [TMs -> OrNothing(Policies)]]
    /\ ctx' \in [Runs -> OrNothing(Policies) \cup {NoPolicy}]
    /\ gone' \subseteq TMs
    /\ leader' \in OrNothing(up') /\ up' \subseteq Procs
    /\ leader' = Nothing => gone' = {}
    /\ RevokedStaysRevoked'
    /\ \A r \in Runs : ctx'[r] # Nothing => run'[r] # Nothing

LEMMA MemFacts ==
    ASSUME IInv
    PROVE  /\ TypeOK /\ RevokedStaysRevoked
           /\ leader = Nothing => gone = {}
           /\ leader # Nothing => leader \in up /\ leader \in Procs
           /\ req # Nothing => /\ leader # Nothing /\ req.policy \in Policies
                               /\ req.policy.tm \in TMs /\ req.ending \in TMs
           /\ hand # Nothing => leader # Nothing /\ hand.run \in Runs
           /\ \A r \in Runs : ctx[r] # Nothing => run[r] # Nothing
           /\ bound \in [Procs -> [TMs -> OrNothing(Policies)]]
           /\ ctx \in [Runs -> OrNothing(Policies) \cup {NoPolicy}]
BY DEF IInv, TypeOK, LeadInv, OrNothing, LockHolders, Purchases, Policies

(* A step keeps the memory good if what it leaves of each revoked TM has   *)
(* ended: in _policies and in the contexts of the runs under it. *)
LEMMA MemKept ==
    ASSUME IInv, RunsMove, leader' = leader, up' = up,
           gone' \in SUBSET TMs, leader = Nothing => gone' = {},
           bound' \in [Procs -> [TMs -> OrNothing(Policies)]],
           ctx' \in [Runs -> OrNothing(Policies) \cup {NoPolicy}],
           \A t \in gone' : bound'[leader][t] # Nothing => bound'[leader][t].status = "ended",
           \A r \in Runs : ctx'[r] # Nothing => run[r] # Nothing,
           \A r \in Runs :
               ctx'[r] \notin {Nothing, NoPolicy} /\ run[r].tm \in gone'
                   => ctx'[r].status = "ended"
    PROVE  MemMoves
<1>1. \A r \in Runs : run[r] # Nothing => run'[r] # Nothing /\ run'[r].tm = run[r].tm
  BY DEF RunsMove, RunsKept
<1>2. RevokedStaysRevoked'
  BY <1>1 DEF RevokedStaysRevoked, HasPolicy
<1> QED
  BY <1>1, <1>2 DEF MemMoves, IInv, TypeOK

LEMMA MemUnchanged ==
    ASSUME IInv, RunsMove, UNCHANGED <<gone, bound, ctx, leader, up>>
    PROVE  MemMoves
<1>1. gone \in SUBSET TMs
  BY DEF IInv, TypeOK
<1> QED
  BY <1>1, MemFacts, MemKept DEF RevokedStaysRevoked, HasPolicy

(* Binding a policy, of whatever TM. *)
LEMMA BindMoves ==
    ASSUME IInv, RunsMove, leader # Nothing, NEW policy \in Policies, Bind(policy),
           UNCHANGED <<gone, ctx, leader, up>>
    PROVE  MemMoves
<1>1. /\ bound' \in [Procs -> [TMs -> OrNothing(Policies)]]
      /\ \A t \in TMs : \/ bound'[leader][t] = bound[leader][t]
                        \/ t \in gone => bound'[leader][t].status = "ended"
  BY MemFacts, BindType
<1>2. gone \in SUBSET TMs
  BY DEF IInv, TypeOK
<1> QED
  BY <1>1, <1>2, MemFacts, MemKept DEF RevokedStaysRevoked, HasPolicy

(* Revoking a TM in this process. *)
LEMMA FlipMoves ==
    ASSUME IInv, RunsMove, leader # Nothing, NEW t \in TMs, NEW policy,
           policy \in OrNothing(Policies), policy # Nothing => policy.status = "ended",
           gone' = gone \cup {t}, bound' = [bound EXCEPT ![leader][t] = policy],
           ctx' = FlipRuns(t), UNCHANGED <<leader, up>>
    PROVE  MemMoves
<1>1. /\ bound' \in [Procs -> [TMs -> OrNothing(Policies)]]
      /\ \A u \in TMs : bound'[leader][u] = IF u = t THEN policy ELSE bound[leader][u]
  BY MemFacts
<1>2. gone' \in SUBSET TMs
  BY DEF IInv, TypeOK
<1>3. /\ ctx' \in [Runs -> OrNothing(Policies) \cup {NoPolicy}]
      /\ \A r \in Runs :
            /\ ctx'[r] # Nothing <=> ctx[r] # Nothing
            /\ ctx'[r] \in {Nothing, NoPolicy} <=> ctx[r] \in {Nothing, NoPolicy}
            /\ HasPolicy(r) /\ run[r].tm = t => ctx'[r].status = "ended"
            /\ HasPolicy(r) /\ run[r].tm # t => ctx'[r] = ctx[r]
  BY MemFacts, FlipType, NotPolicies DEF HasPolicy
<1>4. \A r \in Runs :
          ctx'[r] \notin {Nothing, NoPolicy} /\ run[r].tm \in gone'
              => ctx'[r].status = "ended"
  BY <1>3, MemFacts DEF RevokedStaysRevoked, HasPolicy
<1>5. \A u \in gone' : bound'[leader][u] # Nothing => bound'[leader][u].status = "ended"
  BY <1>1, MemFacts DEF RevokedStaysRevoked, IInv, TypeOK
<1> QED
  BY <1>1, <1>2, <1>3, <1>4, <1>5, MemFacts, MemKept

LEMMA LocalRevokeMoves ==
    ASSUME IInv, RunsMove, leader # Nothing, NEW t \in TMs, LocalRevoke(t),
           UNCHANGED <<leader, up>>
    PROVE  MemMoves
<1> DEFINE was == bound[leader][t]
           policy == IF was = Nothing THEN was ELSE End(was)
<1>1. was \in OrNothing(Policies)
  BY MemFacts
<1>2. policy \in OrNothing(Policies) /\ (policy # Nothing => policy.status = "ended")
  BY <1>1, EndType DEF OrNothing
<1>3. /\ gone' = gone \cup {t} /\ ctx' = FlipRuns(t)
      /\ bound' = [bound EXCEPT ![leader][t] = policy]
  BY DEF LocalRevoke
<1> HIDE DEF policy
<1> QED
  BY <1>2, <1>3, FlipMoves

LEMMA MemStep ==
    ASSUME IInv, Next
    PROVE  MemMoves
<1> USE MemFacts, NotPolicies
<1>0. RunsMove
  BY RunStep
<1>1. ASSUME UNCHANGED <<gone, bound, ctx, leader, up>> PROVE MemMoves
  BY <1>0, <1>1, MemUnchanged
<1>2. ASSUME UNCHANGED <<gone, ctx, leader, up>>, leader # Nothing,
             NEW policy \in Policies, Bind(policy)
      PROVE  MemMoves
  BY <1>0, <1>2, BindMoves
<1>3. CASE EndOld
  <2>1. PICK m \in req.olds :
          IF req.op = "move" /\ row[m].tm = req.policy.tm
          THEN Bind(row[m]) /\ UNCHANGED <<gone, ctx>>
          ELSE /\ gone' = gone \cup {row[m].tm}
               /\ bound' = [bound EXCEPT ![leader][row[m].tm] = row[m]]
               /\ ctx' = FlipRuns(row[m].tm)
    BY <1>3 DEF EndOld
  <2>2. req # Nothing /\ leader # Nothing /\ UNCHANGED <<leader, up>>
    BY <1>3 DEF EndOld, At, procVars
  <2>3. row[m] \in Policies /\ row[m].tm \in TMs /\ row[m].status = "ended"
    BY <2>2 DEF IInv, ReqInv, TypeOK, Stored, OrNothing, Policies
  <2> QED
    BY <1>0, <1>2, <2>1, <2>2, <2>3, FlipMoves DEF OrNothing
<1>4. CASE BindNew
  <2>1. /\ req # Nothing /\ leader # Nothing /\ UNCHANGED <<gone, leader, up>>
        /\ Bind(req.policy)
        /\ ctx' = IF req.op # "move" THEN ctx
                  ELSE [r \in Runs |-> IF ctx[r] # Nothing /\ run[r].tm = req.policy.tm
                                       THEN Seen(req.policy) ELSE ctx[r]]
    BY <1>4 DEF BindNew, At, procVars
  <2>2. CASE req.op # "move"
    BY <1>2, <2>1, <2>2
  <2>3. CASE req.op = "move"
    <3> DEFINE policy == Seen(req.policy)
    <3>1. policy \in Policies /\ (req.policy.tm \in gone => policy.status = "ended")
      BY <2>1, SeenType
    <3>2. /\ bound' \in [Procs -> [TMs -> OrNothing(Policies)]]
          /\ \A t \in gone : bound'[leader][t] # Nothing => bound'[leader][t].status = "ended"
      BY <2>1, BindType DEF RevokedStaysRevoked, IInv, TypeOK
    <3> HIDE DEF policy
    <3>3. ctx' = [r \in Runs |-> IF ctx[r] # Nothing /\ run[r].tm = req.policy.tm
                                THEN policy ELSE ctx[r]]
      BY <2>1, <2>3 DEF policy
    <3>4. ctx' \in [Runs -> OrNothing(Policies) \cup {NoPolicy}]
      <4> DEFINE new(r) == IF ctx[r] # Nothing /\ run[r].tm = req.policy.tm
                           THEN policy ELSE ctx[r]
                 S == OrNothing(Policies) \cup {NoPolicy}
      <4>1. \A r \in Runs : new(r) \in S
        BY <3>1 DEF OrNothing
      <4>2. ctx' = [r \in Runs |-> new(r)]
        BY <3>3
      <4> HIDE DEF new, S
      <4>3. ctx' \in [Runs -> S]
        BY <4>1, <4>2
      <4> QED
        BY <4>3 DEF S
    <3>5. \A r \in Runs :
             /\ ctx'[r] # Nothing => run[r] # Nothing
             /\ ctx'[r] \notin {Nothing, NoPolicy} /\ run[r].tm \in gone
                   => ctx'[r].status = "ended"
      BY <3>1, <3>3 DEF RevokedStaysRevoked, HasPolicy
    <3>6. gone' = gone /\ gone \in SUBSET TMs
      BY <2>1 DEF IInv, TypeOK
    <3> QED
      BY <1>0, <2>1, <3>2, <3>4, <3>5, <3>6, MemKept
  <2> QED
    BY <2>2, <2>3
<1>5. CASE TightenBind \/ RevokeBind \/ ReregisterBind
  BY <1>2, <1>5 DEF TightenBind, RevokeBind, ReregisterBind, At, procVars
<1>6. CASE RevokeFlip
  BY <1>0, <1>6, LocalRevokeMoves DEF RevokeFlip, At, procVars
<1>7. CASE ScenarioLaunch
  BY <1>0, <1>1, <1>7, LocalRevokeMoves DEF ScenarioLaunch, At, procVars
<1>8. ASSUME NEW c \in Cards, NEW r \in Runs, ScenarioRun(c, r) PROVE MemMoves
  <2>1. PICK t \in TMs : \/ Bind(NewPolicy(c, t)) /\ UNCHANGED <<gone, ctx, leader, up>>
                         \/ UNCHANGED <<gone, bound, ctx, leader, up>>
    BY <1>8 DEF ScenarioRun, procVars
  <2>2. NewPolicy(c, t) \in Policies /\ leader # Nothing
    BY <1>8, NewPolicyType DEF ScenarioRun, Serving
  <2> QED
    BY <1>1, <1>2, <2>1, <2>2
<1>9. CASE RestoreBind
  <2>1. hand # Nothing /\ leader # Nothing /\ hand.read \in Policies
    BY <1>9 DEF RestoreBind, HandAt, IInv, HandInv, TypeOK, OrNothing, Purchases
  <2> QED
    BY <1>2, <1>9, <2>1 DEF RestoreBind, procVars
<1>10. CASE BindRun
  <2> DEFINE r == hand.run
             policy == bound[leader][run[r].tm]
  <2>1. /\ hand # Nothing /\ leader # Nothing /\ leader \in Procs /\ r \in Runs
        /\ run[r] # Nothing /\ UNCHANGED <<gone, bound, leader, up>>
        /\ ctx' = IF ctx[r] = Nothing THEN [ctx EXCEPT ![r] = Context(r)] ELSE ctx
    BY <1>10 DEF BindRun, HandAt, procVars, IInv, HandInv
  <2>2. run[r].tm \in TMs /\ run[r].card \in Cards
    BY <2>1 DEF IInv, TypeOK, OrNothing, LiveRuns
  <2>3. policy \in OrNothing(Policies)
        /\ (run[r].tm \in gone /\ policy # Nothing => policy.status = "ended")
    BY <2>1, <2>2 DEF RevokedStaysRevoked
  <2> HIDE DEF policy
  <2>4. policy # Nothing =>
           /\ Seen(policy) \in Policies
           /\ policy.status = "ended" => Seen(policy).status = "ended"
    BY <2>3, EndType DEF Seen, OrNothing
  <2>5. ASSUME NEW seen \in Policies
        PROVE  /\ [seen EXCEPT !.card = run[r].card] \in Policies
               /\ [seen EXCEPT !.card = run[r].card].status = seen.status
    BY <2>2 DEF Policies
  <2>6. /\ Context(r) \in OrNothing(Policies) \cup {NoPolicy}
        /\ Context(r) \notin {Nothing, NoPolicy} =>
              (run[r].tm \in gone => Context(r).status = "ended")
    BY <2>3, <2>4, <2>5 DEF Context, policy, OrNothing
  <2>7. CASE ctx[r] = Nothing
    <3>1. ctx' = [ctx EXCEPT ![r] = Context(r)]
      BY <2>1, <2>7
    <3>2. ctx' \in [Runs -> OrNothing(Policies) \cup {NoPolicy}]
      BY <2>1, <2>6, <3>1
    <3>3. \A q \in Runs :
             /\ ctx'[q] # Nothing => run[q] # Nothing
             /\ ctx'[q] \notin {Nothing, NoPolicy} /\ run[q].tm \in gone
                   => ctx'[q].status = "ended"
      BY <2>1, <2>6, <3>1 DEF RevokedStaysRevoked, HasPolicy
    <3>4. gone \in SUBSET TMs
          /\ \A t \in gone : bound[leader][t] # Nothing => bound[leader][t].status = "ended"
      BY DEF IInv, TypeOK, RevokedStaysRevoked
    <3> QED
      BY <1>0, <2>1, <3>2, <3>3, <3>4, MemKept
  <2> QED
    BY <1>1, <2>1, <2>7
<1>11. CASE Crash
  <2>1. /\ leader \in Procs /\ gone' = {} /\ leader' = Nothing /\ up' \subseteq Procs
        /\ bound' = [bound EXCEPT ![leader] = [t \in TMs |-> Nothing]]
        /\ ctx' = [r \in Runs |-> Nothing]
    BY <1>11 DEF Crash, IInv, TypeOK
  <2>2. bound' \in [Procs -> [TMs -> OrNothing(Policies)]]
    BY <2>1 DEF OrNothing
  <2> QED
    BY <2>1, <2>2 DEF MemMoves, RevokedStaysRevoked, OrNothing
<1>12. ASSUME NEW p \in Procs, StartProcess(p) PROVE MemMoves
  <2>1. PICK copyFirst \in BOOLEAN :
           bound' = [bound EXCEPT ![p] = [t \in TMs |-> Newest(t, copyFirst)]]
    BY <1>12 DEF StartProcess
  <2>2. /\ p \notin up /\ up' = up \cup {p} /\ UNCHANGED <<gone, ctx, leader>>
    BY <1>12 DEF StartProcess
  <2>3. [t \in TMs |-> Newest(t, copyFirst)] \in [TMs -> OrNothing(Policies)]
    BY NewestType
  <2>4. bound' \in [Procs -> [TMs -> OrNothing(Policies)]]
    BY <2>1, <2>3
  <2>5. leader # Nothing => bound'[leader] = bound[leader]
    BY <2>1, <2>2
  <2>6. leader = Nothing => gone = {}
    BY DEF IInv, LeadInv
  <2>7. RevokedStaysRevoked'
    BY <1>0, <2>2, <2>5, <2>6 DEF RevokedStaysRevoked, HasPolicy, RunsMove, RunsKept
  <2> QED
    BY <1>0, <2>2, <2>4, <2>7 DEF MemMoves, IInv, TypeOK, OrNothing, HasPolicy,
       RunsMove, RunsKept
<1>13. ASSUME NEW p \in Procs, Lead(p) PROVE MemMoves
  <2>1. p \in up /\ leader' = p /\ up' = up /\ gone = {} /\ UNCHANGED <<gone, bound, ctx>>
    BY <1>13 DEF Lead, procVars, memVars, IInv, LeadInv
  <2> QED
    BY <1>0, <2>1 DEF MemMoves, RevokedStaysRevoked, HasPolicy, IInv, TypeOK, OrNothing,
       RunsMove, RunsKept
<1>14. CASE \/ RestoreRead \/ Decide
            \/ \E r \in Runs : Receive(r) \/ FinishRun(r)
            \/ \E c \in Cards :
                  \/ ConfirmDraft(c) \/ TightenPolicy(c) \/ RevokePolicy(c)
                  \/ \E r \in Runs : CreateRun(c, r)
  BY <1>1, <1>14 DEF RestoreRead, Decide, Receive, FinishRun, ConfirmDraft,
     TightenPolicy, RevokePolicy, CreateRun, procVars, memVars
<1>15. CASE \/ StoreConfirmed \/ MarkRevoked \/ DeleteAtPlatform \/ TightenStore
            \/ RevokeStore \/ CheckPlatform \/ Reregister \/ ReregisterStore
            \/ Launch \/ TrackRun \/ MovePolicy
  BY <1>1, <1>15 DEF StoreConfirmed, MarkRevoked, DeleteAtPlatform, TightenStore,
     RevokeStore, CheckPlatform, Reregister, ReregisterStore, Launch, TrackRun,
     MovePolicy, procVars, memVars
<1> QED
  BY <1>3, <1>4, <1>5, <1>6, <1>7, <1>8, <1>9, <1>10, <1>11, <1>12, <1>13, <1>14, <1>15
     DEF Next, Requests, RequestSteps, WorkerSteps

-----------------------------------------------------------------------------
(* Ids, the platform, announced runs and what customers were told *)

RestMoves ==
    /\ issued' \in 0..MaxMandates
    /\ plat' \in [TMs -> {"none", "active", "superseded", "revoked"}]
    /\ expected' \subseteq Runs
    /\ ended' \subseteq Mandates /\ tight' \subseteq Mandates
    /\ failures' \in 0..MaxFailures

(* A failure is counted up to the bound. *)
LEMMA FaultMoves ==
    ASSUME TypeOK, Fault \/ NoFault \/ UNCHANGED failures
    PROVE  failures' \in 0..MaxFailures
BY PolicyAssumption DEF TypeOK, Fault, NoFault

LEMMA RegistersMoves ==
    ASSUME TypeOK, NEW t \in TMs, Registers(t)
    PROVE  plat' \in [TMs -> {"none", "active", "superseded", "revoked"}]
BY DEF TypeOK, Registers

LEMMA NextId ==
    ASSUME TypeOK, issued < MaxMandates
    PROVE  /\ issued + 1 \in 0..MaxMandates /\ issued + 1 \in Mandates
           /\ issued \in Nat /\ issued + 1 # issued
BY PolicyAssumption DEF TypeOK, Mandates

LEMMA RestStep ==
    ASSUME IInv, Next
    PROVE  RestMoves
<1> USE FaultMoves
<1>0. /\ TypeOK
      /\ req # Nothing => /\ req.told \in SUBSET Mandates /\ req.policy.root \in Mandates
                          /\ req.ending \in TMs
      /\ d3 # Nothing => d3.run \in Runs
  BY DEF IInv, TypeOK, OrNothing, LockHolders, RunRequests, Policies
<1>1. ASSUME UNCHANGED <<issued, plat, expected, ended, tight>>,
             Fault \/ NoFault \/ UNCHANGED failures
      PROVE  RestMoves
  BY <1>0, <1>1 DEF RestMoves, TypeOK
<1>2. ASSUME NEW c \in Cards, ConfirmDraft(c) PROVE RestMoves
  BY <1>0, <1>2, RegistersMoves, NextId DEF ConfirmDraft, toldVars, RestMoves, TypeOK
<1>3. ASSUME NEW c \in Cards, NEW r \in Runs, ScenarioRun(c, r) PROVE RestMoves
  BY <1>0, <1>3, RegistersMoves, NextId DEF ScenarioRun, toldVars, RestMoves, TypeOK
<1>4. CASE DeleteAtPlatform
  <2>1. /\ issued' = issued /\ expected' = expected /\ tight' = tight
        /\ ended' = ended \/ ended' = ended \cup req.told
        /\ req # Nothing /\ (Fault \/ NoFault)
    BY <1>4 DEF DeleteAtPlatform, At, storeVars
  <2>2. plat' = plat
        \/ plat' = [plat EXCEPT ![req.ending] = IF @ = "active" THEN "revoked" ELSE @]
    BY <1>4 DEF DeleteAtPlatform
  <2> QED
    BY <1>0, <2>1, <2>2 DEF RestMoves, TypeOK
<1>5. CASE BindNew
  BY <1>0, <1>5 DEF BindNew, At, storeVars, RestMoves, TypeOK
<1>6. CASE TightenBind
  BY <1>0, <1>6 DEF TightenBind, At, storeVars, RestMoves, TypeOK
<1>7. CASE Reregister
  BY <1>0, <1>7, RegistersMoves DEF Reregister, storeVars, toldVars, RestMoves, TypeOK
<1>8. CASE Launch
  BY <1>0, <1>8 DEF Launch, D3At, storeVars, toldVars, RestMoves, TypeOK
<1>9. CASE ScenarioLaunch
  <2>1. d3 # Nothing
    BY <1>9 DEF ScenarioLaunch, At, IInv, ReqInv, OpsAt
  <2> QED
    BY <1>0, <1>9, <2>1 DEF ScenarioLaunch, storeVars, toldVars, RestMoves, TypeOK
<1>10. CASE MovePolicy
  BY <1>0, <1>10, NextId DEF MovePolicy, Commits, CommitsLate, toldVars, RestMoves, TypeOK
<1>11. CASE BindRun
  BY <1>0, <1>11 DEF BindRun, storeVars, toldVars, RestMoves, TypeOK
<1>12. CASE Crash
  BY <1>0, <1>12 DEF Crash, storeVars, toldVars, RestMoves, TypeOK
<1>13. CASE \/ RestoreRead \/ RestoreBind \/ Decide
            \/ \E r \in Runs : Receive(r) \/ FinishRun(r)
            \/ \E p \in Procs : StartProcess(p) \/ Lead(p)
            \/ \E c \in Cards :
                  \/ TightenPolicy(c) \/ RevokePolicy(c)
                  \/ \E r \in Runs : CreateRun(c, r)
  BY <1>1, <1>13 DEF RestoreRead, RestoreBind, Decide, Receive, FinishRun, StartProcess,
     Lead, TightenPolicy, RevokePolicy, CreateRun, storeVars, toldVars
<1>14. CASE \/ StoreConfirmed \/ EndOld \/ MarkRevoked \/ TightenStore \/ RevokeStore
            \/ RevokeBind \/ RevokeFlip \/ CheckPlatform \/ ReregisterStore
            \/ ReregisterBind \/ TrackRun
  BY <1>1, <1>14 DEF StoreConfirmed, EndOld, MarkRevoked, TightenStore, RevokeStore,
     RevokeBind, RevokeFlip, CheckPlatform, ReregisterStore, ReregisterBind, TrackRun,
     Commits, CommitsLate, storeVars, toldVars
<1> QED
  BY <1>2, <1>3, <1>4, <1>5, <1>6, <1>7, <1>8, <1>9, <1>10, <1>11, <1>12, <1>13, <1>14
     DEF Next, Requests, RequestSteps, WorkerSteps

-----------------------------------------------------------------------------
(* The purchase in hand *)

HandMoves ==
    /\ hand' \in OrNothing(Purchases) /\ HandInv'
    /\ hand' # Nothing => leader' # Nothing

LEMMA HandStep ==
    ASSUME IInv, Next
    PROVE  HandMoves
<1>0. /\ TypeOK /\ HandInv /\ RunsMove /\ hand \in OrNothing(Purchases)
      /\ hand # Nothing => /\ leader # Nothing /\ hand \in Purchases /\ hand.run \in Runs
                           /\ run[hand.run] # Nothing
  BY RunStep DEF IInv, TypeOK, LeadInv, HandInv, OrNothing, Purchases
<1>1. ASSUME hand' = hand, leader # Nothing => leader' # Nothing PROVE HandMoves
  BY <1>0, <1>1 DEF HandMoves, HandInv, RunsMove, RunsKept
<1>2. ASSUME hand # Nothing, leader' = leader, hand' \in Purchases, hand'.run = hand.run,
             hand'.at # "restored"
      PROVE  HandMoves
  BY <1>0, <1>2 DEF HandMoves, HandInv, RunsMove, RunsKept, OrNothing
<1>3. ASSUME NEW r \in Runs, Receive(r) PROVE HandMoves
  <2>1. /\ hand' \in Purchases /\ hand'.run = r /\ hand'.at # "restored"
        /\ leader # Nothing /\ leader' = leader /\ run[r] # Nothing
    BY <1>0, <1>3 DEF Receive, procVars, Purchases, OrNothing, TypeOK
  <2> QED
    BY <1>0, <2>1 DEF HandMoves, HandInv, RunsMove, RunsKept, OrNothing
<1>4. CASE RestoreRead
  <2>1. PICK copyFirst \in BOOLEAN :
          LET read == Newest(run[hand.run].tm, copyFirst)
          IN hand' = [hand EXCEPT !.at = IF read = Nothing THEN "bind" ELSE "restored",
                                  !.read = read]
    BY <1>4 DEF RestoreRead
  <2> DEFINE read == Newest(run[hand.run].tm, copyFirst)
  <2>2. hand # Nothing /\ leader' = leader /\ read \in OrNothing(Policies)
    BY <1>0, <1>4, NewestType DEF RestoreRead, HandAt, procVars
  <2> HIDE DEF read
  <2>3. hand' = [hand EXCEPT !.at = IF read = Nothing THEN "bind" ELSE "restored",
                             !.read = read]
    BY <2>1 DEF read
  <2>4. /\ hand' \in Purchases /\ hand'.run = hand.run
        /\ hand'.at = "restored" => hand'.read # Nothing
    BY <1>0, <2>2, <2>3 DEF Purchases
  <2> QED
    BY <1>0, <2>2, <2>4 DEF HandMoves, HandInv, RunsMove, RunsKept, OrNothing
<1>5. CASE RestoreBind
  <2>1. hand # Nothing /\ leader' = leader
        /\ hand' = [hand EXCEPT !.at = "bind", !.read = Nothing]
    BY <1>5 DEF RestoreBind, HandAt, procVars
  <2>2. hand' \in Purchases /\ hand'.run = hand.run /\ hand'.at # "restored"
    BY <1>0, <2>1 DEF Purchases, OrNothing
  <2> QED
    BY <1>2, <2>1, <2>2
<1>6. CASE BindRun
  <2>1. hand # Nothing /\ leader' = leader /\ hand' = [hand EXCEPT !.at = "decide"]
    BY <1>6 DEF BindRun, HandAt, procVars
  <2>2. hand' \in Purchases /\ hand'.run = hand.run /\ hand'.at # "restored"
    BY <1>0, <2>1 DEF Purchases
  <2> QED
    BY <1>2, <2>1, <2>2
<1>7. CASE Decide
  <2> DEFINE policy == ctx[hand.run]
             verdict == IF Approvable(policy, run[hand.run].card) THEN policy ELSE Nothing
  <2>1. hand # Nothing /\ leader' = leader
        /\ hand' = [hand EXCEPT !.at = "decided", !.verdict = verdict]
    BY <1>7 DEF Decide, HandAt, procVars
  <2>2. verdict \in OrNothing(Policies)
    BY <1>0, <2>1 DEF TypeOK, Approvable, OrNothing
  <2> HIDE DEF verdict
  <2>3. hand' \in Purchases /\ hand'.run = hand.run /\ hand'.at # "restored"
    BY <1>0, <2>1, <2>2 DEF Purchases
  <2> QED
    BY <1>2, <2>1, <2>3
<1>8. CASE Crash
  BY <1>8 DEF Crash, HandMoves, HandInv, OrNothing
<1>9. ASSUME NEW p \in Procs, StartProcess(p) \/ Lead(p) PROVE HandMoves
  BY <1>1, <1>9, NotPolicies DEF StartProcess, Lead
<1>10. CASE Requests \/ \E r \in Runs : FinishRun(r)
  BY <1>1, <1>10 DEF Requests, ConfirmDraft, TightenPolicy, RevokePolicy, CreateRun,
     ScenarioRun, FinishRun, procVars
<1>11. CASE RequestSteps
  BY <1>1, <1>11 DEF RequestSteps, StoreConfirmed, EndOld, MarkRevoked, DeleteAtPlatform,
     BindNew, TightenStore, TightenBind, RevokeStore, RevokeBind, RevokeFlip,
     CheckPlatform, Reregister, ReregisterStore, ReregisterBind, Launch, TrackRun,
     MovePolicy, ScenarioLaunch, procVars
<1> QED
  BY <1>3, <1>4, <1>5, <1>6, <1>7, <1>8, <1>9, <1>10, <1>11 DEF Next, WorkerSteps

-----------------------------------------------------------------------------
(* policy_lock and D3 *)

LockMoves ==
    /\ req' \in OrNothing(LockHolders) /\ d3' \in OrNothing(RunRequests)
    /\ ReqInv' /\ D3Inv'
    /\ req' # Nothing \/ d3' # Nothing => leader' # Nothing

(* What the other parts of a step leave to a request and to a D3. *)
LEMMA LockFacts ==
    ASSUME IInv, Next
    PROVE  /\ TypeOK /\ ReqInv /\ D3Inv
           /\ req # Nothing => req \in LockHolders /\ leader # Nothing
           /\ d3 # Nothing => d3 \in RunRequests /\ leader # Nothing /\ d3.run \in Runs
           /\ \A r \in Runs : run[r] # Nothing => run'[r] # Nothing
           /\ NoNewRun \/ Launch \/ ScenarioLaunch
           /\ row' \in [Mandates -> OrNothing(Policies)]
           /\ \A m \in Stored : /\ m \in Mandates /\ m \in Stored' /\ row[m] \in Policies
                                /\ row'[m] \in Policies /\ row[m].id = m /\ row'[m].id = m
                                /\ row[m].status = "ended" => row'[m].status = "ended"
<1>1. RunsMove /\ (NoNewRun \/ Launch \/ ScenarioLaunch)
  BY RunStep
<1>2. GoodRows(row') /\ RowsKept(row')
  BY RowStep
<1>3. \A m \in Stored : m \in Mandates /\ row[m] \in Policies /\ row[m].id = m
  BY DEF IInv, TypeOK, Stored, OrNothing
<1>4. \A m \in Stored : /\ m \in Stored' /\ row'[m] \in Policies /\ row'[m].id = m
                        /\ row[m].status = "ended" => row'[m].status = "ended"
  BY <1>2, <1>3 DEF GoodRows, RowsKept, Stored, OrNothing
<1>5. row' \in [Mandates -> OrNothing(Policies)]
  BY <1>2 DEF GoodRows
<1> QED
  BY <1>1, <1>3, <1>4, <1>5 DEF IInv, TypeOK, LeadInv, OrNothing, RunsMove, RunsKept,
     RunRequests

(* A request that changes neither. *)
LEMMA LockUnchanged ==
    ASSUME IInv, Next, UNCHANGED <<req, d3>>, NoNewRun,
           leader # Nothing => leader' # Nothing,
           req # Nothing => UNCHANGED storeVars
    PROVE  LockMoves
<1>1. ReqInv'
  BY LockFacts DEF ReqInv, storeVars, Stored
<1>2. D3Inv'
  BY LockFacts DEF D3Inv, NoNewRun
<1> QED
  BY <1>1, <1>2, LockFacts DEF LockMoves, OrNothing

(* A D3 that goes on outside the lock. *)
LEMMA D3GoesOn ==
    ASSUME IInv, Next, req' = req, NoNewRun, d3 # Nothing, d3.at # "locked",
           leader' = leader, req # Nothing => UNCHANGED storeVars,
           d3' \in OrNothing(RunRequests),
           d3' # Nothing =>
               /\ d3'.at # "locked" /\ d3'.run = d3.run
               /\ d3'.at \in {"check", "register", "launch"} => run[d3.run] = Nothing
               /\ d3'.at \in {"track", "move"} => run[d3.run] # Nothing
    PROVE  LockMoves
<1>1. ReqInv'
  BY LockFacts DEF ReqInv, storeVars, Stored
<1>2. D3Inv'
  BY LockFacts DEF D3Inv, NoNewRun
<1> QED
  BY <1>1, <1>2, LockFacts DEF LockMoves, OrNothing

(* A request that goes on, at a place of its operation. *)
LEMMA RequestGoesOn ==
    ASSUME IInv, Next, req # Nothing, d3' = d3, NoNewRun, leader' = leader,
           req' \in LockHolders, req'.op = req.op, req'.op \in OpsAt(req'.at),
           req'.at \notin {"store", "launch"}, req.at # "launch",
           req'.op \in {"tighten", "revoke", "reregister"} => req'.policy.id \in Stored,
           \A m \in req'.olds : m \in Stored /\ row'[m].status = "ended"
    PROVE  LockMoves
<1>1. ReqInv'
  BY LockFacts DEF ReqInv
<1>2. D3Inv'
  BY LockFacts, NotPolicies DEF D3Inv, NoNewRun, ReqInv
<1> QED
  BY <1>1, <1>2, LockFacts DEF LockMoves, OrNothing

(* A request that is over, and with it a D3 under its lock. *)
LEMMA RequestEnds ==
    ASSUME IInv, Next, req # Nothing, req' = Nothing, NoNewRun, leader' = leader,
           \/ d3' = Nothing
           \/ d3' = d3 /\ req.op \notin {"scenario", "reregister", "undo"}
           \/ /\ d3' \in RunRequests /\ d3 # Nothing /\ d3'.run = d3.run
              /\ d3'.at = "launch" /\ run[d3.run] = Nothing
           \/ /\ d3' \in RunRequests /\ d3 # Nothing /\ d3'.run = d3.run
              /\ d3'.at = "track" /\ run[d3.run] # Nothing
    PROVE  LockMoves
<1>1. ReqInv'
  BY DEF ReqInv
<1>2. D3Inv'
  BY LockFacts DEF D3Inv, NoNewRun
<1> QED
  BY <1>1, <1>2, LockFacts DEF LockMoves, OrNothing

(* A new request. *)
LEMMA RequestType ==
    ASSUME NEW policy \in Policies, NEW told \in SUBSET Mandates,
           NEW op \in {"confirm", "scenario", "tighten", "revoke", "reregister", "move", "undo"},
           NEW at \in {"store", "end", "mark", "delete", "bind", "flip", "launch"}
    PROVE  /\ Request(op, at, policy, told) \in LockHolders
           /\ Request(op, at, policy, told) # Nothing
           /\ Request(op, at, policy, told).op = op
           /\ Request(op, at, policy, told).at = at
           /\ Request(op, at, policy, told).policy = policy
           /\ Request(op, at, policy, told).olds = {}
BY NotPolicies DEF Request, LockHolders, Policies

LEMMA LockStep ==
    ASSUME IInv, Next
    PROVE  LockMoves
<1> USE LockFacts, NotPolicies
<1>1. ASSUME NEW c \in Cards, ConfirmDraft(c) PROVE LockMoves
  <2>1. PICK t \in TMs : \/ /\ req' = Request("confirm", "store", NewPolicy(c, t), {})
                            /\ issued' = issued + 1
                         \/ UNCHANGED <<req, issued>>
    BY <1>1 DEF ConfirmDraft
  <2>2. /\ req = Nothing /\ leader # Nothing /\ issued < MaxMandates
        /\ UNCHANGED <<row, d3, leader>> /\ NoNewRun
    BY <1>1 DEF ConfirmDraft, Serving, procVars, NoNewRun
  <2>3. CASE UNCHANGED <<req, issued>>
    BY <2>2, <2>3, LockUnchanged DEF storeVars
  <2>4. CASE /\ req' = Request("confirm", "store", NewPolicy(c, t), {})
             /\ issued' = issued + 1
    <3>1. /\ NewPolicy(c, t) \in Policies /\ NewPolicy(c, t).id = issued'
          /\ issued' \notin Stored
      BY <2>2, <2>4, NewPolicyType, PolicyAssumption DEF IInv, TypeOK, RowInv, Stored, Mandates
    <3>2. /\ req' \in LockHolders /\ req' # Nothing /\ req'.op = "confirm"
          /\ req'.at = "store" /\ req'.policy.id = issued' /\ req'.olds = {}
      BY <2>4, <3>1, RequestType
    <3>3. ReqInv'
      BY <2>2, <3>1, <3>2 DEF ReqInv, OpsAt, Stored
    <3>4. D3Inv'
      BY <2>2 DEF D3Inv, NoNewRun
    <3> QED
      BY <2>2, <3>2, <3>3, <3>4 DEF LockMoves, OrNothing
  <2> QED
    BY <2>1, <2>3, <2>4
<1>2. ASSUME NEW c \in Cards, TightenPolicy(c) \/ RevokePolicy(c) PROVE LockMoves
  <2>1. PICK m \in Latest(c) :
          \/ req' = Request("tighten", "store", row[m], {})
          \/ req' = Request("revoke", "store", row[m], {m})
          \/ req' = Request("revoke", "flip", row[m], {})
    BY <1>2 DEF TightenPolicy, RevokePolicy
  <2>2. /\ req = Nothing /\ leader # Nothing /\ UNCHANGED <<row, d3, leader>> /\ NoNewRun
    BY <1>2 DEF TightenPolicy, RevokePolicy, Serving, storeVars, procVars, NoNewRun
  <2>3. m \in Stored /\ row[m] \in Policies /\ row[m].id = m /\ m \in Mandates
    BY <2>1, LatestIsStored
  <2>4. /\ req' \in LockHolders /\ req'.op \in OpsAt(req'.at)
        /\ req'.op \in {"tighten", "revoke"} /\ req'.at \in {"store", "flip"}
        /\ req'.policy.id = m /\ req'.olds = {}
    BY <2>1, <2>3, RequestType DEF OpsAt
  <2>5. ReqInv'
    BY <2>2, <2>3, <2>4 DEF ReqInv, Stored
  <2>6. D3Inv'
    BY <2>2 DEF D3Inv, NoNewRun
  <2> QED
    BY <2>2, <2>4, <2>5, <2>6 DEF LockMoves, OrNothing
<1>3. ASSUME NEW c \in Cards, NEW r \in Runs, CreateRun(c, r) PROVE LockMoves
  <2>1. PICK m \in Latest(c) : d3' = [at |-> "check", policy |-> row[m], run |-> r]
    BY <1>3 DEF CreateRun
  <2>2. /\ d3 = Nothing /\ run[r] = Nothing /\ leader # Nothing
        /\ UNCHANGED <<row, issued, req, leader, run>>
    BY <1>3 DEF CreateRun, MayStart, storeVars, procVars
  <2>3. row[m] \in Policies
    BY LatestIsStored
  <2>4. d3' \in RunRequests /\ d3'.at = "check" /\ d3'.run = r
    BY <2>1, <2>3 DEF RunRequests
  <2>5. ReqInv'
    BY <2>2 DEF ReqInv, Stored
  <2>6. D3Inv'
    BY <2>2, <2>4 DEF D3Inv
  <2> QED
    BY <2>2, <2>4, <2>5, <2>6 DEF LockMoves, OrNothing
<1>4. ASSUME NEW c \in Cards, NEW r \in Runs, ScenarioRun(c, r) PROVE LockMoves
  <2>1. PICK t \in TMs :
          \/ /\ req' = Request("scenario", "launch", NewPolicy(c, t), {})
             /\ d3' = [at |-> "locked", policy |-> NewPolicy(c, t), run |-> r]
             /\ issued' = issued + 1
          \/ UNCHANGED <<req, d3, issued>>
    BY <1>4 DEF ScenarioRun
  <2>2. /\ req = Nothing /\ d3 = Nothing /\ leader # Nothing /\ issued < MaxMandates
        /\ run[r] = Nothing /\ UNCHANGED <<row, leader, run>> /\ NoNewRun
    BY <1>4 DEF ScenarioRun, Serving, MayStart, procVars, NoNewRun
  <2>3. CASE UNCHANGED <<req, d3, issued>>
    BY <2>2, <2>3, LockUnchanged DEF storeVars
  <2>4. CASE /\ req' = Request("scenario", "launch", NewPolicy(c, t), {})
             /\ d3' = [at |-> "locked", policy |-> NewPolicy(c, t), run |-> r]
             /\ issued' = issued + 1
    <3>1. /\ NewPolicy(c, t) \in Policies /\ NewPolicy(c, t).id = issued'
          /\ issued' \notin Stored
      BY <2>2, <2>4, NewPolicyType, PolicyAssumption DEF IInv, TypeOK, RowInv, Stored, Mandates
    <3>2. /\ req' \in LockHolders /\ req' # Nothing /\ req'.op = "scenario"
          /\ req'.at = "launch" /\ req'.policy.id = issued' /\ req'.olds = {}
      BY <2>4, <3>1, RequestType
    <3>3. d3' \in RunRequests /\ d3'.at = "locked" /\ d3'.run = r /\ d3' # Nothing
      BY <2>4, <3>1 DEF RunRequests
    <3>4. ReqInv'
      BY <2>2, <3>1, <3>2, <3>3 DEF ReqInv, OpsAt, Stored
    <3>5. D3Inv'
      BY <2>2, <3>2, <3>3 DEF D3Inv
    <3> QED
      BY <2>2, <3>2, <3>3, <3>4, <3>5 DEF LockMoves, OrNothing
  <2> QED
    BY <2>1, <2>3, <2>4
<1>5. CASE StoreConfirmed
  <2> DEFINE olds == ActiveOn(req.policy.card)
             told == IF req.op = "confirm" THEN olds ELSE {}
  <2>1. /\ req # Nothing /\ req \in LockHolders /\ req.at = "store"
        /\ req.op \in {"confirm", "scenario"} /\ leader' = leader /\ NoNewRun
    BY <1>5 DEF StoreConfirmed, At, procVars, NoNewRun
  <2>2. olds \in SUBSET Mandates /\ olds \subseteq Stored
    BY DEF ActiveOn, Active, Stored
  <2>3. CASE req' = Nothing /\ RunAborts
    BY <2>1, <2>3, RequestEnds DEF RunAborts
  <2>4. CASE /\ row' = Replacing(req.policy) /\ d3' = d3
             /\ req' = [req EXCEPT !.at = "end", !.olds = olds, !.told = told]
    <3>1. GoodRows(row) /\ req.policy \in Policies /\ req.policy.id \notin Stored
      BY <2>1, RowsAreGood DEF IInv, ReqInv, LockHolders
    <3>2. \A m \in olds : row'[m].status = "ended"
      BY <2>2, <2>4, <3>1, PutOverEnded DEF Replacing
    <3>3. told \in SUBSET Mandates
      BY <2>2
    <3> HIDE DEF olds, told
    <3>4. /\ req' \in LockHolders /\ req'.op = req.op /\ req'.at = "end"
          /\ req'.olds = olds
      BY <2>1, <2>2, <2>4, <3>3 DEF LockHolders
    <3> QED
      BY <2>1, <2>2, <2>4, <3>2, <3>4, RequestGoesOn DEF OpsAt
  <2> QED
    BY <1>5, <2>3, <2>4 DEF StoreConfirmed, Commits, Releases
<1>6. CASE EndOld
  <2>1. PICK m \in req.olds :
          \/ req' = [req EXCEPT !.olds = @ \ {m}]
          \/ req' = [req EXCEPT !.at = "mark", !.olds = @ \ {m}, !.ending = row[m].tm]
    BY <1>6 DEF EndOld
  <2>2. /\ req # Nothing /\ req \in LockHolders /\ req.at = "end" /\ leader' = leader
        /\ d3' = d3 /\ NoNewRun /\ m \in Stored /\ row[m] \in Policies
    BY <1>6 DEF EndOld, At, procVars, NoNewRun, ReqInv
  <2>3. row[m].tm \in TMs
    BY <2>2 DEF Policies
  <2>4. /\ req' \in LockHolders /\ req'.op = req.op /\ req'.at \in {"end", "mark"}
        /\ req'.olds \subseteq req.olds
    <3> DEFINE rest == req.olds \ {m}
               tm == row[m].tm
    <3>1. rest \in SUBSET Mandates /\ rest \subseteq req.olds /\ tm \in TMs
      BY <2>2, <2>3 DEF LockHolders
    <3>2. \/ req' = [req EXCEPT !.olds = rest]
          \/ req' = [req EXCEPT !.at = "mark", !.olds = rest, !.ending = tm]
      BY <2>1
    <3> HIDE DEF rest, tm
    <3>3. CASE req' = [req EXCEPT !.olds = rest]
      BY <2>2, <3>1, <3>3 DEF LockHolders
    <3>4. CASE req' = [req EXCEPT !.at = "mark", !.olds = rest, !.ending = tm]
      BY <2>2, <3>1, <3>4 DEF LockHolders
    <3> QED
      BY <3>2, <3>3, <3>4
  <2>5. \A n \in req'.olds : n \in Stored /\ row'[n].status = "ended"
    BY <2>2, <2>4 DEF ReqInv
  <2> QED
    BY <2>2, <2>4, <2>5, RequestGoesOn DEF OpsAt, ReqInv
<1>7. CASE MarkRevoked
  <2>1. /\ req # Nothing /\ req \in LockHolders /\ req.at = "mark" /\ leader' = leader
        /\ NoNewRun
    BY <1>7 DEF MarkRevoked, At, procVars, NoNewRun
  <2>2. CASE req' = Nothing /\ RunAborts
    BY <2>1, <2>2, RequestEnds DEF RunAborts
  <2>3. CASE req' = [req EXCEPT !.at = "delete"] /\ d3' = d3
    <3>1. /\ req' \in LockHolders /\ req'.op = req.op /\ req'.at = "delete"
          /\ req'.olds = req.olds /\ req'.policy = req.policy
      BY <2>1, <2>3 DEF LockHolders
    <3> QED
      BY <2>1, <2>3, <3>1, RequestGoesOn DEF OpsAt, ReqInv
  <2> QED
    BY <1>7, <2>2, <2>3 DEF MarkRevoked, Goes, Releases
<1>8. CASE DeleteAtPlatform
  <2>1. /\ req # Nothing /\ req \in LockHolders /\ req.at = "delete" /\ leader' = leader
        /\ NoNewRun /\ d3' = IF req.op = "undo" THEN Nothing ELSE d3
    BY <1>8 DEF DeleteAtPlatform, At, procVars, NoNewRun
  <2>2. CASE req.op \in {"revoke", "undo"} /\ req' = Nothing
    BY <2>1, <2>2, RequestEnds
  <2>3. CASE req.op \notin {"revoke", "undo"} /\ req' = [req EXCEPT !.at = "end"]
    <3>1. /\ req' \in LockHolders /\ req'.op = req.op /\ req'.at = "end"
          /\ req'.olds = req.olds /\ req'.policy = req.policy
      BY <2>1, <2>3 DEF LockHolders
    <3> QED
      BY <2>1, <2>3, <3>1, RequestGoesOn DEF OpsAt, ReqInv
  <2> QED
    BY <1>8, <2>2, <2>3 DEF DeleteAtPlatform, Goes, Releases
<1>9. CASE BindNew
  <2>1. /\ req # Nothing /\ req.at = "end" /\ leader' = leader /\ NoNewRun
        /\ req' = Nothing
        /\ d3' = IF req.op = "scenario" THEN [d3 EXCEPT !.at = "track"] ELSE d3
    BY <1>9 DEF BindNew, At, procVars, NoNewRun, Releases
  <2>2. CASE req.op = "scenario"
    <3>1. d3 # Nothing /\ d3 \in RunRequests /\ run[d3.run] # Nothing
      BY <2>1, <2>2 DEF ReqInv, D3Inv
    <3>2. d3' \in RunRequests /\ d3'.run = d3.run /\ d3'.at = "track"
      BY <2>1, <2>2, <3>1 DEF RunRequests
    <3> QED
      BY <2>1, <3>1, <3>2, RequestEnds
  <2>3. CASE req.op # "scenario"
    BY <2>1, <2>3, RequestEnds DEF OpsAt, ReqInv
  <2> QED
    BY <2>2, <2>3

<1>10. CASE TightenStore
  <2> DEFINE policy == row'[req.policy.id]
  <2>1. /\ req # Nothing /\ req \in LockHolders /\ req.at = "store" /\ req.op = "tighten"
        /\ leader' = leader /\ d3' = d3 /\ NoNewRun /\ req.policy.id \in Stored
    BY <1>10 DEF TightenStore, At, procVars, NoNewRun, ReqInv
  <2>2. CASE req' = Nothing
    BY <2>1, <2>2, RequestEnds
  <2>3. CASE req' = [req EXCEPT !.at = "bind", !.policy = policy]
    <3>1. policy \in Policies /\ policy.id \in Stored
      BY <2>1
    <3> HIDE DEF policy
    <3>2. /\ req' \in LockHolders /\ req'.op = req.op /\ req'.at = "bind"
          /\ req'.olds = req.olds /\ req'.policy = policy
      BY <2>1, <2>3, <3>1 DEF LockHolders
    <3> QED
      BY <2>1, <3>1, <3>2, RequestGoesOn DEF OpsAt, ReqInv
  <2> QED
    BY <1>10, <2>2, <2>3 DEF TightenStore, Releases
<1>11. CASE RevokeStore
  <2> DEFINE policy == End(req.policy)
  <2>1. /\ req # Nothing /\ req \in LockHolders /\ req.at = "store" /\ req.op = "revoke"
        /\ leader' = leader /\ d3' = d3 /\ NoNewRun /\ req.policy.id \in Stored
    BY <1>11 DEF RevokeStore, At, procVars, NoNewRun, ReqInv
  <2>2. CASE req' = Nothing
    BY <2>1, <2>2, RequestEnds
  <2>3. CASE req' = [req EXCEPT !.at = "bind", !.policy = policy]
    <3>1. policy \in Policies /\ policy.id \in Stored
      BY <2>1, EndType DEF LockHolders
    <3> HIDE DEF policy
    <3>2. /\ req' \in LockHolders /\ req'.op = req.op /\ req'.at = "bind"
          /\ req'.olds = req.olds /\ req'.policy = policy
      BY <2>1, <2>3, <3>1 DEF LockHolders
    <3> QED
      BY <2>1, <3>1, <3>2, RequestGoesOn DEF OpsAt, ReqInv
  <2> QED
    BY <1>11, <2>2, <2>3 DEF RevokeStore, Releases
<1>12. CASE ReregisterStore
  <2>1. /\ req # Nothing /\ req \in LockHolders /\ req.at = "store" /\ req.op = "reregister"
        /\ leader' = leader /\ NoNewRun /\ req.policy.id \in Stored
    BY <1>12 DEF ReregisterStore, At, procVars, NoNewRun, ReqInv
  <2>2. CASE req' = Nothing /\ RunAborts
    BY <2>1, <2>2, RequestEnds DEF RunAborts
  <2>3. CASE req' = [req EXCEPT !.at = "bind"] /\ d3' = d3
    <3>1. /\ req' \in LockHolders /\ req'.op = req.op /\ req'.at = "bind"
          /\ req'.olds = req.olds /\ req'.policy = req.policy
      BY <2>1, <2>3 DEF LockHolders
    <3> QED
      BY <2>1, <2>3, <3>1, RequestGoesOn DEF OpsAt, ReqInv
  <2> QED
    BY <1>12, <2>2, <2>3 DEF ReregisterStore, Goes, Releases
<1>13. CASE RevokeBind \/ RevokeFlip
  <2>1. /\ req # Nothing /\ req \in LockHolders /\ leader' = leader /\ d3' = d3 /\ NoNewRun
        /\ req.op = "revoke" /\ req.at # "launch"
        /\ req' = [req EXCEPT !.at = "flip"] \/ req' = [req EXCEPT !.at = "mark"]
    BY <1>13 DEF RevokeBind, RevokeFlip, At, Goes, procVars, NoNewRun, ReqInv, OpsAt
  <2>2. /\ req' \in LockHolders /\ req'.op = req.op /\ req'.at \in {"flip", "mark"}
        /\ req'.olds = req.olds /\ req'.policy = req.policy
    BY <2>1 DEF LockHolders
  <2> QED
    BY <2>1, <2>2, RequestGoesOn DEF OpsAt, ReqInv
<1>14. CASE TightenBind
  BY <1>14, RequestEnds DEF TightenBind, At, Releases, procVars, NoNewRun
<1>15. CASE ReregisterBind
  <2>1. /\ req # Nothing /\ req \in LockHolders /\ req.at = "bind" /\ req.op = "reregister"
        /\ leader' = leader /\ NoNewRun /\ req' = Nothing
        /\ d3' = [d3 EXCEPT !.at = "launch", !.policy = req.policy]
    BY <1>15 DEF ReregisterBind, At, Releases, procVars, NoNewRun
  <2>2. d3 # Nothing /\ d3 \in RunRequests /\ run[d3.run] = Nothing
    BY <2>1 DEF ReqInv, D3Inv
  <2>3. d3' \in RunRequests /\ d3'.run = d3.run /\ d3'.at = "launch"
    BY <2>1, <2>2 DEF RunRequests, LockHolders
  <2> QED
    BY <2>1, <2>2, <2>3, RequestEnds
<1>16. CASE CheckPlatform
  <2>1. /\ d3 # Nothing /\ d3 \in RunRequests /\ d3.at = "check" /\ leader' = leader
        /\ req' = req /\ UNCHANGED storeVars /\ NoNewRun
        /\ d3' = [d3 EXCEPT !.at = "launch"] \/ d3' = [d3 EXCEPT !.at = "register"]
    BY <1>16 DEF CheckPlatform, D3At, D3Goes, procVars, NoNewRun
  <2>2. d3' \in RunRequests /\ d3'.run = d3.run /\ d3'.at \in {"launch", "register"}
    BY <2>1 DEF RunRequests
  <2> QED
    BY <2>1, <2>2, D3GoesOn DEF D3Inv, OrNothing
<1>17. CASE Reregister
  <2>1. /\ d3 # Nothing /\ d3 \in RunRequests /\ d3.at = "register" /\ req = Nothing
        /\ leader # Nothing /\ leader' = leader /\ UNCHANGED storeVars /\ NoNewRun
    BY <1>17 DEF Reregister, Serving, D3At, procVars, NoNewRun
  <2>2. CASE d3' = Nothing /\ req' = req
    BY <2>1, <2>2, D3GoesOn DEF OrNothing
  <2>3. ASSUME NEW m \in Latest(d3.policy.card), NEW t \in TMs, m = d3.policy.id,
               req' = Request("reregister", "store", [row[m] EXCEPT !.tm = t], {}),
               d3' = [d3 EXCEPT !.at = "locked"]
        PROVE  LockMoves
    <3> DEFINE policy == [row[m] EXCEPT !.tm = t]
    <3>1. m \in Stored /\ row[m] \in Policies /\ row[m].id = m
      BY LatestIsStored
    <3>2. policy \in Policies /\ policy.id = m
      BY <3>1 DEF Policies
    <3> HIDE DEF policy
    <3>3. /\ req' \in LockHolders /\ req' # Nothing /\ req'.op = "reregister"
          /\ req'.at = "store" /\ req'.policy = policy /\ req'.olds = {}
      BY <2>3, <3>2, RequestType DEF policy
    <3>4. d3' \in RunRequests /\ d3'.at = "locked" /\ d3'.run = d3.run /\ d3' # Nothing
      BY <2>1, <2>3 DEF RunRequests
    <3>5. ReqInv'
      BY <3>1, <3>2, <3>3, <3>4 DEF ReqInv, OpsAt
    <3>6. D3Inv'
      BY <2>1, <3>3, <3>4 DEF D3Inv, NoNewRun
    <3> QED
      BY <2>1, <3>3, <3>4, <3>5, <3>6 DEF LockMoves, OrNothing
  <2> QED
    BY <1>17, <2>2, <2>3 DEF Reregister, D3Goes
<1>18. CASE Launch
  <2>1. /\ d3 # Nothing /\ d3 \in RunRequests /\ d3.at = "launch" /\ run[d3.run] = Nothing
        /\ leader # Nothing /\ UNCHANGED <<req, leader>> /\ UNCHANGED storeVars
    BY <1>18 DEF Launch, D3At, procVars, D3Inv
  <2>2. CASE d3' = Nothing
    <3>1. ReqInv'
      BY <2>1, <2>2 DEF ReqInv, storeVars, Stored
    <3>2. D3Inv'
      BY <2>2 DEF D3Inv
    <3> QED
      BY <2>1, <2>2, <3>1, <3>2 DEF LockMoves, OrNothing
  <2>3. CASE d3' = [d3 EXCEPT !.at = "track"] /\ \E c \in Cards : Starts(d3.run, d3.policy.tm, c)
    <3>1. run'[d3.run] # Nothing
      BY <2>1, <2>3, StartMoves DEF RunRequests, Policies
    <3>2. d3' \in RunRequests /\ d3'.run = d3.run /\ d3'.at = "track"
      BY <2>1, <2>3 DEF RunRequests
    <3>3. ReqInv'
      BY <2>1 DEF ReqInv, storeVars, Stored
    <3>4. D3Inv'
      BY <3>1, <3>2 DEF D3Inv
    <3> QED
      BY <2>1, <3>2, <3>3, <3>4 DEF LockMoves, OrNothing
  <2> QED
    BY <1>18, <2>2, <2>3 DEF Launch, D3Goes
<1>19. CASE TrackRun
  <2>1. /\ d3 # Nothing /\ d3 \in RunRequests /\ d3.at = "track" /\ run[d3.run] # Nothing
        /\ UNCHANGED <<req, leader>> /\ UNCHANGED storeVars
        /\ d3' = Nothing \/ d3' = [d3 EXCEPT !.at = "move"]
    BY <1>19 DEF TrackRun, D3At, D3Goes, procVars, D3Inv
  <2>2. NoNewRun
    BY <1>19, <2>1 DEF TrackRun, NoNewRun, IInv, TypeOK
  <2>3. CASE d3' = Nothing
    BY <2>1, <2>2, <2>3, D3GoesOn DEF OrNothing
  <2>4. CASE d3' = [d3 EXCEPT !.at = "move"]
    <3>1. d3' \in RunRequests /\ d3'.run = d3.run /\ d3'.at = "move"
      BY <2>1, <2>4 DEF RunRequests
    <3> QED
      BY <2>1, <2>2, <3>1, D3GoesOn DEF OrNothing
  <2> QED
    BY <2>1, <2>3, <2>4
<1>20. CASE MovePolicy
  <2> DEFINE copy == Moved(run[d3.run].card)
             olds == ActiveOn(copy.card)
             ends == olds \cup {d3.policy.id}
  <2>1. /\ req = Nothing /\ leader # Nothing /\ leader' = leader /\ d3' = Nothing /\ NoNewRun
        /\ \/ req' = [Request("move", "end", copy, {}) EXCEPT !.olds = olds]
              /\ row' = Moving(copy)
           \/ req' = Nothing
    BY <1>20 DEF MovePolicy, Serving, Commits, procVars, NoNewRun
  <2>2. D3Inv'
    BY <2>1 DEF D3Inv
  <2>3. CASE req' = Nothing
    BY <2>1, <2>2, <2>3 DEF LockMoves, ReqInv, OrNothing
  <2>4. CASE /\ req' = [Request("move", "end", copy, {}) EXCEPT !.olds = olds]
             /\ row' = Moving(copy)
    <3>1. /\ copy \in Policies /\ copy.id \notin Stored /\ d3.policy.id \in Stored
          /\ GoodRows(row)
      BY <1>20, MovedType, RowsAreGood DEF MovePolicy, IInv
    <3>2. /\ ends \in SUBSET Stored /\ ActiveOn(copy.card) \subseteq ends
          /\ olds \in SUBSET Mandates /\ olds \subseteq Stored /\ olds \subseteq ends
      BY <3>1 DEF ActiveOn, Active, Stored
    <3>3. row' = [Ended(ends) EXCEPT ![copy.id] = copy]
      BY <2>4 DEF Moving
    <3> DEFINE asked == Request("move", "end", copy, {})
    <3>4. asked \in LockHolders /\ asked.op = "move" /\ asked.at = "end"
      BY <3>1, RequestType
    <3>5. req' = [asked EXCEPT !.olds = olds]
      BY <2>4
    <3> HIDE DEF copy, olds, ends, asked
    <3>6. \A m \in ends : row'[m].status = "ended"
      BY <3>1, <3>2, <3>3, PutOverEnded
    <3>7. req' \in LockHolders /\ req'.op = "move" /\ req'.at = "end" /\ req'.olds = olds
      BY <3>2, <3>4, <3>5 DEF LockHolders
    <3>8. ReqInv'
      BY <3>2, <3>6, <3>7 DEF ReqInv, OpsAt
    <3> QED
      BY <2>1, <2>2, <3>7, <3>8 DEF LockMoves, OrNothing
  <2> QED
    BY <2>1, <2>3, <2>4
<1>21. CASE ScenarioLaunch
  <2>1. /\ req # Nothing /\ req \in LockHolders /\ req.at = "launch" /\ req.op = "scenario"
        /\ req.policy.id = issued /\ issued \notin Stored
        /\ d3 # Nothing /\ d3.at = "locked" /\ run[d3.run] = Nothing
        /\ leader # Nothing /\ UNCHANGED <<d3, leader>> /\ UNCHANGED storeVars
    BY <1>21 DEF ScenarioLaunch, At, procVars, ReqInv, D3Inv, OpsAt
  <2>2. CASE req' = [req EXCEPT !.at = "store"]
             /\ \E c \in Cards : Starts(d3.run, req.policy.tm, c)
    <3>1. run'[d3.run] # Nothing
      BY <2>1, <2>2, StartMoves DEF LockHolders, Policies
    <3>2. /\ req' \in LockHolders /\ req'.op = "scenario" /\ req'.at = "store"
          /\ req'.olds = req.olds /\ req'.policy = req.policy
      BY <2>1, <2>2 DEF LockHolders
    <3>3. ReqInv'
      BY <2>1, <3>2 DEF ReqInv, OpsAt, storeVars, Stored
    <3>4. D3Inv'
      BY <2>1, <3>1, <3>2 DEF D3Inv
    <3> QED
      BY <2>1, <3>2, <3>3, <3>4 DEF LockMoves, OrNothing
  <2>3. CASE req' = [req EXCEPT !.op = "undo", !.at = "mark"]
    <3>1. /\ req' \in LockHolders /\ req'.op = "undo" /\ req'.at = "mark"
          /\ req'.olds = req.olds
      BY <2>1, <2>3 DEF LockHolders
    <3>2. ReqInv'
      BY <2>1, <3>1 DEF ReqInv, OpsAt
    <3>3. D3Inv'
      BY <2>1, <3>1 DEF D3Inv
    <3> QED
      BY <2>1, <3>1, <3>2, <3>3 DEF LockMoves, OrNothing
  <2> QED
    BY <1>21, <2>2, <2>3 DEF ScenarioLaunch, Goes
<1>22. CASE Crash
  BY <1>22 DEF Crash, LockMoves, ReqInv, D3Inv, OrNothing
<1>23. CASE WorkerSteps \/ \E p \in Procs : StartProcess(p) \/ Lead(p)
  <2>1. /\ UNCHANGED <<req, d3>> /\ UNCHANGED storeVars
        /\ leader # Nothing => leader' # Nothing
    BY <1>23 DEF WorkerSteps, RestoreRead, RestoreBind, BindRun, Decide, Receive,
       FinishRun, StartProcess, Lead, procVars
  <2>2. NoNewRun
    <3>1. ASSUME NEW r \in Runs, FinishRun(r) PROVE NoNewRun
      BY <3>1 DEF FinishRun, NoNewRun, IInv, TypeOK
    <3>2. CASE BindRun
      <4>1. /\ hand.run \in Runs /\ run[hand.run] # Nothing
            /\ run' = [run EXCEPT ![hand.run].followed = "store"]
        BY <3>2 DEF BindRun, HandAt, IInv, TypeOK, HandInv, Purchases, OrNothing
      <4> QED
        BY <4>1 DEF NoNewRun, IInv, TypeOK
    <3>3. CASE run' = run
      BY <3>3 DEF NoNewRun
    <3> QED
      BY <1>23, <3>1, <3>2, <3>3 DEF WorkerSteps, RestoreRead, RestoreBind, Decide,
         Receive, StartProcess, Lead
  <2> QED
    BY <2>1, <2>2, LockUnchanged
<1> QED
  BY <1>1, <1>2, <1>3, <1>4, <1>5, <1>6, <1>7, <1>8, <1>9, <1>10, <1>11, <1>12, <1>13,
     <1>14, <1>15, <1>16, <1>17, <1>18, <1>19, <1>20, <1>21, <1>22, <1>23
     DEF Next, Requests, RequestSteps

-----------------------------------------------------------------------------
(* Theorems *)

(* IInv is inductive: it holds at the start and every step keeps it. *)
LEMMA Initially ==
    Init => IInv
<1> SUFFICES ASSUME Init PROVE IInv
  OBVIOUS
<1> USE PolicyAssumption, NotPolicies DEF Init
<1>1. TypeOK
  BY DEF TypeOK, OrNothing, Stored
<1>2. RowInv /\ LeadInv /\ ReqInv /\ D3Inv /\ HandInv
  BY DEF RowInv, LeadInv, ReqInv, D3Inv, HandInv, Stored
<1>3. OneActivePolicy /\ RevokedStaysRevoked
  BY DEF OneActivePolicy, RevokedStaysRevoked, Active, Stored
<1> QED
  BY <1>1, <1>2, <1>3 DEF IInv

LEMMA Stepwise ==
    IInv /\ [Next]_vars => IInv'
<1>1. ASSUME IInv, Next PROVE IInv'
  <2>1. /\ GoodRows(row') /\ RowInv' /\ RunsMove /\ MemMoves /\ RestMoves /\ HandMoves
        /\ LockMoves
    BY <1>1, RowStep, RunStep, MemStep, RestStep, HandStep, LockStep
  <2>2. row' \in [Mandates -> OrNothing(Policies)] /\ \A m \in Stored' : row'[m].id = m
    BY <2>1 DEF GoodRows, Stored
  <2>3. OneActivePolicy'
    BY <2>1 DEF GoodRows, OneActivePolicy, Active, Stored
  <2>4. TypeOK'
    BY <2>1, <2>2 DEF TypeOK, RunsMove, MemMoves, RestMoves, HandMoves, LockMoves
  <2>5. LeadInv'
    BY <2>1 DEF LeadInv, MemMoves, HandMoves, LockMoves
  <2> QED
    BY <2>1, <2>3, <2>4, <2>5 DEF IInv, MemMoves, HandMoves, LockMoves
<1>2. ASSUME IInv, UNCHANGED vars PROVE IInv'
  <2>1. UNCHANGED <<row, issued, plat, run, leader, up, bound, gone, ctx, expected, req,
                    d3, hand, ended, tight, failures>>
    BY <1>2 DEF vars, storeVars, procVars, memVars, toldVars
  <2> QED
    BY <1>2, <2>1 DEF IInv, TypeOK, RowInv, LeadInv, ReqInv, D3Inv, HandInv,
       OneActivePolicy, RevokedStaysRevoked, Active, HasPolicy, Stored
<1> QED
  BY <1>1, <1>2

THEOREM Invariant == Spec => []IInv
BY Initially, Stepwise, PTL DEF Spec

(* Every variable keeps its type, in every instance. *)
THEOREM TypeCorrect == Spec => []TypeOK
<1>1. IInv => TypeOK
  BY DEF IInv
<1> QED
  BY <1>1, Invariant, PTL

(* A card never has two active policies, however many requests, failed or  *)
(* late store calls, moves and restarts (store_confirmed, move_mandate). *)
THEOREM OneActive == Spec => []OneActivePolicy
<1>1. IInv => OneActivePolicy
  BY DEF IInv
<1> QED
  BY <1>1, Invariant, PTL

(* A TM revoked in a process stays revoked in it, in _policies and in the  *)
(* context of every run (VisecaWorker.revoke, bind_policy, move_policy).   *)
THEOREM RevokedStays == Spec => []RevokedStaysRevoked
<1>1. IInv => RevokedStaysRevoked
  BY DEF IInv
<1> QED
  BY <1>1, Invariant, PTL

-----------------------------------------------------------------------------
(* T6 for the policy that was revoked or replaced: what it takes *)

(* A request past its commit: what it made is in the store. *)
Making == req.op \in {"confirm", "scenario", "move"} /\ req.at \in {"end", "mark", "delete"}

(* A policy that has ended in the store. *)
EndedRow(m) == m \in Stored /\ row[m].status = "ended"

(* The TM of a row was registered: a new TM is no row's. *)
PlatInv == \A m \in Stored : plat[row[m].tm] # "none"

(* A policy in the making is the active row of its TM, which is not the TM *)
(* being revoked. *)
MadeActive ==
    Making => /\ Active(req.policy.id) /\ row[req.policy.id].tm = req.policy.tm
              /\ req.at # "end" => req.ending # req.policy.tm

(* The TM of a new policy is no other row's. *)
NewTM ==
    req.op \in {"confirm", "scenario"} =>
        /\ req.policy.status = "active"
        /\ \A m \in Stored : row[m].tm = req.policy.tm => m = req.policy.id

(* What a reply calls replaced has ended, and its TM is revoked in this    *)
(* process or about to be. *)
ToldReplaced ==
    /\ req.op \notin {"confirm", "revoke"} => req.told = {}
    /\ req.op = "confirm" =>
          \A m \in req.told : EndedRow(m) /\ (m \in req.olds \/ row[m].tm \in gone)

(* So has what it calls revoked. *)
ToldRevoked ==
    req.op = "revoke" =>
        /\ req.told \subseteq {req.policy.id} /\ req.ending = req.policy.tm
        /\ row[req.policy.id].tm = req.policy.tm
        /\ req.at # "store" => EndedRow(req.policy.id) /\ req.policy.status = "ended"
        /\ req.at \in {"mark", "delete"} => req.ending \in gone

(* What a request holds while it has policy_lock. *)
LockInv ==
    req # Nothing =>
        /\ plat[req.policy.tm] # "none"
        /\ req.op \in {"tighten", "reregister"} => Active(req.policy.id)
        /\ MadeActive /\ NewTM /\ ToldReplaced /\ ToldRevoked

(* The facts of IInv about rows and requests, for the provers. *)
LEMMA RowFacts ==
    ASSUME IInv
    PROVE  /\ GoodRows(row)
           /\ \A m \in Stored : /\ m \in Mandates /\ row[m] \in Policies /\ row[m].id = m
                                /\ row[m].tm \in TMs /\ row[m].status \in {"active", "ended"}
           /\ req # Nothing => /\ req \in LockHolders /\ req.policy \in Policies
                               /\ req.policy.id \in Mandates /\ req.policy.tm \in TMs
                               /\ req.ending \in TMs
BY RowsAreGood DEF IInv, TypeOK, Stored, OrNothing, Policies, LockHolders

(* Where the TM of a row comes from. *)
TMsKept ==
    \A m \in Stored' :
        \/ m \in Stored /\ row'[m].tm = row[m].tm
        \/ /\ m \notin Stored \/ row[m].status = "active"
           /\ \/ req # Nothing /\ row'[m].tm = req.policy.tm
              \/ \E k \in Stored : row'[m].tm = row[k].tm

(* A step changes the TM of an active row only (_reregister). *)
LEMMA RowTMs ==
    ASSUME IInv, LockInv, Next
    PROVE  TMsKept
<1> USE NotPolicies, RowFacts
<1>1. ASSUME row' = row PROVE TMsKept
  BY <1>1 DEF TMsKept, Stored
<1>2. CASE StoreConfirmed
  <2>1. /\ req # Nothing /\ req.policy.id = issued /\ issued \notin Stored
        /\ row' = row \/ row' = Replacing(req.policy)
    BY <1>2 DEF StoreConfirmed, At, IInv, ReqInv, Commits, CommitsLate
  <2>2. CASE row' = Replacing(req.policy)
    <3> DEFINE ends == ActiveOn(req.policy.card)
               rest == Ended(ends)
    <3>1. ends \in SUBSET Stored
      BY DEF ActiveOn, Active
    <3>2. \A m \in Mandates : /\ rest[m] = Nothing <=> row[m] = Nothing
                              /\ rest[m] = row[m] \/ (m \in Stored /\ rest[m] = End(row[m]))
      BY <3>1, EndRows
    <3>3. \A m \in Stored : End(row[m]).tm = row[m].tm
      BY EndType
    <3>4. row' = [rest EXCEPT ![issued] = req.policy] /\ rest \in [Mandates -> OrNothing(Policies)]
      BY <2>1, <2>2, <3>1, EndRows DEF Replacing, GoodRows
    <3> HIDE DEF rest
    <3>5. \A m \in Mandates : row'[m] = IF m = issued THEN req.policy ELSE rest[m]
      BY <2>1, <3>4
    <3> QED
      BY <2>1, <3>2, <3>3, <3>5 DEF TMsKept, Stored
  <2> QED
    BY <1>1, <2>1, <2>2
<1>3. ASSUME NEW S \in SUBSET Stored, row' = Ended(S) PROVE TMsKept
  <2>1. \A m \in Mandates :
           /\ Ended(S)[m] = Nothing <=> row[m] = Nothing
           /\ Ended(S)[m] = row[m] \/ (m \in Stored /\ Ended(S)[m] = End(row[m]))
    BY EndRows
  <2>2. \A m \in Stored : End(row[m]).tm = row[m].tm
    BY EndType
  <2> QED
    BY <1>3, <2>1, <2>2 DEF TMsKept, Stored
<1>4. CASE MarkRevoked
  <2>1. row' = row \/ row' = Ended({m \in Mandates : Active(m) /\ row[m].tm = req.ending})
    BY <1>4 DEF MarkRevoked, Commits, CommitsLate
  <2>2. {m \in Mandates : Active(m) /\ row[m].tm = req.ending} \in SUBSET Stored
    BY DEF Active
  <2> QED
    BY <1>1, <1>3, <2>1, <2>2
<1>5. CASE RevokeStore
  BY <1>1, <1>3, <1>5 DEF RevokeStore, At, IInv, ReqInv, Commits, CommitsLate
<1>6. CASE TightenStore
  <2> DEFINE id == req.policy.id
             new == [row[id] EXCEPT !.level = "tightened"]
  <2>1. id \in Stored /\ (row' = row \/ row' = [row EXCEPT ![id] = new])
    BY <1>6 DEF TightenStore, At, IInv, ReqInv, Commits, CommitsLate
  <2>2. new.tm = row[id].tm
    BY <2>1 DEF Policies
  <2> HIDE DEF new, id
  <2>3. CASE row' = [row EXCEPT ![id] = new]
    BY <2>1, <2>2, <2>3 DEF TMsKept, Stored, GoodRows
  <2> QED
    BY <1>1, <2>1, <2>3
<1>7. CASE ReregisterStore
  <2> DEFINE id == req.policy.id
             new == [row[id] EXCEPT !.tm = req.policy.tm]
  <2>1. /\ req # Nothing /\ id \in Stored /\ row[id].status = "active"
        /\ row' = row \/ row' = [row EXCEPT ![id] = new]
    BY <1>7 DEF ReregisterStore, At, IInv, ReqInv, LockInv, Active, Commits, CommitsLate
  <2>2. new.tm = req.policy.tm
    BY <2>1 DEF Policies
  <2> HIDE DEF new, id
  <2>3. CASE row' = [row EXCEPT ![id] = new]
    BY <2>1, <2>2, <2>3 DEF TMsKept, Stored, GoodRows
  <2> QED
    BY <1>1, <2>1, <2>3
<1>8. CASE MovePolicy
  <2> DEFINE copy == Moved(run[d3.run].card)
             ends == ActiveOn(copy.card) \cup {d3.policy.id}
             rest == Ended(ends)
  <2>1. /\ copy \in Policies /\ copy.id = issued + 1 /\ copy.id \notin Stored
        /\ d3.policy.id \in Stored
    BY <1>8, MovedType DEF MovePolicy
  <2>2. copy.tm = row[d3.policy.id].tm
    BY <2>1 DEF Moved, Policies
  <2>3. ends \in SUBSET Stored
    BY <2>1 DEF ActiveOn, Active
  <2>4. \A m \in Mandates : /\ rest[m] = Nothing <=> row[m] = Nothing
                            /\ rest[m] = row[m] \/ (m \in Stored /\ rest[m] = End(row[m]))
    BY <2>3, EndRows
  <2>5. \A m \in Stored : End(row[m]).tm = row[m].tm
    BY EndType
  <2>6. /\ row' = row \/ row' = [rest EXCEPT ![copy.id] = copy]
        /\ rest \in [Mandates -> OrNothing(Policies)]
    BY <1>8, <2>3, EndRows DEF MovePolicy, Moving, Commits, CommitsLate, GoodRows
  <2> HIDE DEF copy, ends, rest
  <2>7. CASE row' = [rest EXCEPT ![copy.id] = copy]
    <3>1. copy.id \in Mandates
      BY <2>1 DEF Policies
    <3>2. \A m \in Mandates : row'[m] = IF m = copy.id THEN copy ELSE rest[m]
      BY <2>6, <2>7, <3>1
    <3> QED
      BY <2>1, <2>2, <2>4, <2>5, <3>2 DEF TMsKept, Stored
  <2> QED
    BY <1>1, <2>6, <2>7
<1>9. CASE Requests
  BY <1>1, <1>9 DEF Requests, ConfirmDraft, TightenPolicy, RevokePolicy, CreateRun,
     ScenarioRun, storeVars
<1>10. CASE WorkerSteps \/ Crash \/ \E p \in Procs : StartProcess(p) \/ Lead(p)
  BY <1>1, <1>10 DEF WorkerSteps, RestoreRead, RestoreBind, BindRun, Decide, Receive,
     FinishRun, Crash, StartProcess, Lead, storeVars
<1>11. CASE \/ EndOld \/ DeleteAtPlatform \/ BindNew \/ TightenBind \/ RevokeBind
            \/ RevokeFlip \/ CheckPlatform \/ Reregister \/ ReregisterBind \/ Launch
            \/ TrackRun \/ ScenarioLaunch
  BY <1>1, <1>11 DEF EndOld, DeleteAtPlatform, BindNew, TightenBind, RevokeBind,
     RevokeFlip, CheckPlatform, Reregister, ReregisterBind, Launch, TrackRun,
     ScenarioLaunch, storeVars
<1> QED
  BY <1>2, <1>4, <1>5, <1>6, <1>7, <1>8, <1>9, <1>10, <1>11 DEF Next, RequestSteps

(* A mandate the platform has is never unknown to it again. *)
PlatKept == \A t \in TMs : plat[t] # "none" => plat'[t] # "none"

LEMMA PlatStep ==
    ASSUME IInv, Next
    PROVE  PlatKept
<1>0. TypeOK /\ (req # Nothing => req.ending \in TMs)
  BY RowFacts DEF IInv
<1>1. ASSUME plat' = plat PROVE PlatKept
  BY <1>1 DEF PlatKept
<1>2. ASSUME NEW t \in TMs, Registers(t) PROVE PlatKept
  BY <1>0, <1>2 DEF PlatKept, Registers, TypeOK
<1>3. CASE DeleteAtPlatform
  <2>1. /\ req # Nothing
        /\ \/ plat' = plat
           \/ plat' = [plat EXCEPT ![req.ending] = IF @ = "active" THEN "revoked" ELSE @]
    BY <1>3 DEF DeleteAtPlatform, At
  <2> QED
    BY <1>0, <2>1 DEF PlatKept, TypeOK
<1>4. CASE Requests
  BY <1>1, <1>2, <1>4 DEF Requests, ConfirmDraft, TightenPolicy, RevokePolicy, CreateRun,
     ScenarioRun
<1>5. CASE Reregister
  BY <1>1, <1>2, <1>5 DEF Reregister
<1>6. CASE WorkerSteps \/ Crash \/ \E p \in Procs : StartProcess(p) \/ Lead(p)
  BY <1>1, <1>6 DEF WorkerSteps, RestoreRead, RestoreBind, BindRun, Decide, Receive,
     FinishRun, Crash, StartProcess, Lead
<1>7. CASE \/ StoreConfirmed \/ EndOld \/ MarkRevoked \/ BindNew \/ TightenStore
           \/ TightenBind \/ RevokeStore \/ RevokeBind \/ RevokeFlip \/ CheckPlatform
           \/ ReregisterStore \/ ReregisterBind \/ Launch \/ TrackRun \/ MovePolicy
           \/ ScenarioLaunch
  BY <1>1, <1>7 DEF StoreConfirmed, EndOld, MarkRevoked, BindNew, TightenStore,
     TightenBind, RevokeStore, RevokeBind, RevokeFlip, CheckPlatform, ReregisterStore,
     ReregisterBind, Launch, TrackRun, MovePolicy, ScenarioLaunch
<1> QED
  BY <1>3, <1>4, <1>5, <1>6, <1>7 DEF Next, RequestSteps

(* Every row's TM goes on being registered. *)
LEMMA PlatInvStep ==
    ASSUME IInv, PlatInv, LockInv, Next
    PROVE  PlatInv'
BY RowTMs, PlatStep, RowFacts DEF PlatInv, PlatKept, TMsKept, LockInv

(* A step that leaves the request and the rows alone. *)
LEMMA LockHeld ==
    ASSUME IInv, LockInv, PlatKept, req' = req, row' = row, gone \subseteq gone'
    PROVE  LockInv'
BY RowFacts DEF LockInv, MadeActive, NewTM, ToldReplaced, ToldRevoked, PlatKept, Making, EndedRow, Active, Stored

(* One step per action that takes, passes on or frees policy_lock. *)
LEMMA LockInvStep ==
    ASSUME IInv, PlatInv, LockInv, Next
    PROVE  LockInv'
<1> USE RowFacts, NotPolicies
<1>0. PlatKept /\ RowsKept(row') /\ TMsKept /\ ReqInv
  BY PlatStep, RowStep, RowTMs DEF IInv
<1>1. ASSUME req' = Nothing PROVE LockInv'
  BY <1>1 DEF LockInv, MadeActive, NewTM, ToldReplaced, ToldRevoked
<1>2. ASSUME NEW c \in Cards, ConfirmDraft(c) PROVE LockInv'
  <2>1. CASE req' = req
    BY <1>0, <1>2, <2>1, LockHeld DEF ConfirmDraft, memVars
  <2>2. ASSUME NEW t \in TMs, Registers(t),
               req' = Request("confirm", "store", NewPolicy(c, t), {})
        PROVE  LockInv'
    <3>1. /\ req'.op = "confirm" /\ req'.at = "store" /\ req'.told = {}
          /\ req'.policy.tm = t /\ req'.policy.status = "active"
      BY <2>2, NewPolicyType DEF Request, NewPolicy
    <3>2. plat[t] = "none" /\ plat'[t] # "none" /\ row' = row
      BY <1>2, <2>2 DEF Registers, ConfirmDraft, IInv, TypeOK
    <3>3. \A m \in Stored : row[m].tm # t
      BY <3>2 DEF PlatInv
    <3> QED
      BY <3>1, <3>2, <3>3 DEF LockInv, MadeActive, NewTM, ToldReplaced, ToldRevoked, Making, Stored
  <2> QED
    BY <1>2, <2>1, <2>2 DEF ConfirmDraft
<1>3. ASSUME NEW c \in Cards, NEW r \in Runs, ScenarioRun(c, r) PROVE LockInv'
  <2>1. CASE req' = req
    BY <1>0, <1>3, <2>1, LockHeld DEF ScenarioRun
  <2>2. ASSUME NEW t \in TMs, Registers(t),
               req' = Request("scenario", "launch", NewPolicy(c, t), {})
        PROVE  LockInv'
    <3>1. /\ req'.op = "scenario" /\ req'.at = "launch" /\ req'.told = {}
          /\ req'.policy.tm = t /\ req'.policy.status = "active"
      BY <2>2, <1>3, NewPolicyType DEF Request, NewPolicy
    <3>2. plat[t] = "none" /\ plat'[t] # "none" /\ row' = row
      BY <1>3, <2>2 DEF Registers, ScenarioRun, IInv, TypeOK
    <3>3. \A m \in Stored : row[m].tm # t
      BY <3>2 DEF PlatInv
    <3> QED
      BY <3>1, <3>2, <3>3 DEF LockInv, MadeActive, NewTM, ToldReplaced, ToldRevoked, Making, Stored
  <2> QED
    BY <1>3, <2>1, <2>2 DEF ScenarioRun
<1>4. ASSUME NEW c \in Cards, TightenPolicy(c) PROVE LockInv'
  <2>1. PICK m \in Latest(c) :
           row[m].status = "active" /\ req' = Request("tighten", "store", row[m], {})
    BY <1>4 DEF TightenPolicy
  <2>2. m \in Stored /\ row[m].id = m /\ row' = row
    BY <1>4, LatestIsStored DEF TightenPolicy, storeVars, IInv
  <2>3. /\ req'.op = "tighten" /\ req'.at = "store" /\ req'.told = {}
        /\ req'.policy = row[m]
    BY <2>1 DEF Request
  <2> QED
    BY <1>0, <2>1, <2>2, <2>3 DEF LockInv, MadeActive, NewTM, ToldReplaced, ToldRevoked, Making, Active, PlatInv, PlatKept, Stored
<1>5. ASSUME NEW c \in Cards, RevokePolicy(c) PROVE LockInv'
  <2>1. PICK m \in Latest(c) :
           req' = IF row[m].status = "active"
                 THEN Request("revoke", "store", row[m], {m})
                 ELSE Request("revoke", "flip", row[m], {})
    BY <1>5 DEF RevokePolicy
  <2>2. m \in Stored /\ row[m].id = m /\ row' = row
    BY <1>5, LatestIsStored DEF RevokePolicy, storeVars, IInv
  <2>3. /\ req'.op = "revoke" /\ req'.told \subseteq {m}
        /\ req'.policy = row[m] /\ req'.ending = row[m].tm
        /\ \/ req'.at = "store"
           \/ req'.at = "flip" /\ row[m].status = "ended"
    BY <2>1, <2>2 DEF Request
  <2> QED
    BY <1>0, <2>2, <2>3 DEF LockInv, MadeActive, NewTM, ToldReplaced, ToldRevoked, Making, EndedRow, PlatInv, PlatKept, Stored
<1>6. CASE StoreConfirmed
  <2>1. CASE req' = Nothing
    BY <1>1, <2>1
  <2> DEFINE olds == ActiveOn(req.policy.card)
  <2>2. ASSUME row' = Replacing(req.policy),
               req' = [req EXCEPT !.at = "end", !.olds = olds,
                            !.told = IF req.op = "confirm" THEN olds ELSE {}]
        PROVE  LockInv'
    <3>1. /\ req # Nothing /\ req.op \in {"confirm", "scenario"} /\ req.at = "store"
          /\ req.policy.id = issued /\ issued \notin Stored /\ gone' = gone
      BY <1>6 DEF StoreConfirmed, At, IInv, ReqInv, memVars
    <3>2. /\ req'.at = "end" /\ req'.op = req.op /\ req'.policy = req.policy
          /\ req'.olds = olds /\ req'.told = (IF req.op = "confirm" THEN olds ELSE {})
      BY <2>2, <3>1 DEF LockHolders
    <3>3. olds \in SUBSET Stored
      BY DEF ActiveOn, Active
    <3>4. /\ issued \in Mandates /\ row'[issued] = req.policy
          /\ \A m \in Mandates : m # issued =>
                row'[m] = IF m \in olds THEN End(row[m]) ELSE row[m]
      BY <2>2, <3>1, <3>3, EndRows DEF Replacing, GoodRows
    <3>5. \A m \in Stored : /\ End(row[m]).tm = row[m].tm
                            /\ End(row[m]).status = "ended" /\ End(row[m]) # Nothing
      BY EndType
    <3>6. Active(req.policy.id)' /\ row'[req.policy.id] = req.policy
      BY <3>1, <3>2, <3>4 DEF LockInv, MadeActive, NewTM, ToldReplaced, ToldRevoked, Active, Stored
    <3>7. \A m \in Stored' : row'[m].tm = req.policy.tm => m = issued
      <4>1. \A m \in Stored : row[m].tm = req.policy.tm => m = issued
        BY <3>1 DEF LockInv, MadeActive, NewTM, ToldReplaced, ToldRevoked
      <4>2. \A m \in Stored' : m = issued \/ (m \in Stored /\ row'[m].tm = row[m].tm)
        BY <3>3, <3>4, <3>5 DEF Stored
      <4> QED
        BY <4>1, <4>2
    <3>8. \A m \in olds : EndedRow(m)'
      BY <3>1, <3>3, <3>4, <3>5 DEF EndedRow, Stored
    <3>9. req.policy.status = "active" /\ plat'[req.policy.tm] # "none"
      BY <1>0, <3>1 DEF LockInv, MadeActive, NewTM, ToldReplaced, ToldRevoked, PlatKept
    <3> HIDE DEF olds
    <3> QED
      BY <3>1, <3>2, <3>6, <3>7, <3>8, <3>9 DEF LockInv, MadeActive, NewTM, ToldReplaced, ToldRevoked, Making
  <2> QED
    BY <1>6, <2>1, <2>2 DEF StoreConfirmed, Releases, Commits
<1>7. CASE EndOld
  <2>1. PICK m \in req.olds :
          \/ req.op = "move" /\ req' = [req EXCEPT !.olds = @ \ {m}] /\ gone' = gone
          \/ /\ req.op # "move" \/ row[m].tm # req.policy.tm
             /\ gone' = gone \cup {row[m].tm}
             /\ req' = [req EXCEPT !.at = "mark", !.olds = @ \ {m}, !.ending = row[m].tm]
    BY <1>7 DEF EndOld
  <2>2. /\ req # Nothing /\ req.at = "end" /\ req.op \in {"confirm", "scenario", "move"}
        /\ row' = row /\ plat' = plat
        /\ \A k \in req.olds : k \in Stored /\ row[k].status = "ended"
    BY <1>7 DEF EndOld, At, IInv, ReqInv, OpsAt, storeVars
  <2>3. /\ req'.op = req.op /\ req'.policy = req.policy /\ req'.told = req.told
        /\ req'.at = "end" \/ req'.at = "mark"
        /\ req'.olds = req.olds \ {m}
        /\ req'.at = "mark" =>
              /\ req'.ending = row[m].tm
              /\ req.op # "move" \/ row[m].tm # req.policy.tm
        /\ req.op # "move" => row[m].tm \in gone'
    BY <2>1, <2>2, ZenonT(60) DEF LockHolders
  <2>4. Active(req.policy.id) /\ row[req.policy.id].tm = req.policy.tm
    BY <2>2 DEF LockInv, MadeActive, NewTM, ToldReplaced, ToldRevoked, Making
  <2>5. m # req.policy.id /\ (req.op # "move" => row[m].tm # req.policy.tm)
    BY <2>2, <2>4 DEF LockInv, MadeActive, NewTM, ToldReplaced, ToldRevoked, Active
  <2>6. gone \subseteq gone'
    BY <2>1
  <2> QED
    BY <2>2, <2>3, <2>4, <2>5, <2>6 DEF LockInv, MadeActive, NewTM, ToldReplaced, ToldRevoked, Making, EndedRow, Active, Stored
<1>8. CASE MarkRevoked
  <2> DEFINE S == {m \in Mandates : Active(m) /\ row[m].tm = req.ending}
  <2>1. CASE req' = Nothing
    BY <1>1, <2>1
  <2>2. ASSUME row' = Ended(S), req' = [req EXCEPT !.at = "delete"] PROVE LockInv'
    <3>1. /\ req # Nothing /\ req.at = "mark" /\ plat' = plat /\ gone' = gone
          /\ req.op \in {"confirm", "scenario", "move", "revoke", "undo"}
      BY <1>8 DEF MarkRevoked, At, IInv, ReqInv, OpsAt, memVars
    <3>2. /\ req'.op = req.op /\ req'.policy = req.policy /\ req'.told = req.told
          /\ req'.at = "delete" /\ req'.olds = req.olds /\ req'.ending = req.ending
      BY <2>2, <3>1 DEF LockHolders
    <3>3. S \in SUBSET Stored
      BY DEF Active
    <3>4. \A m \in Mandates : row'[m] = IF m \in S THEN End(row[m]) ELSE row[m]
      BY <2>2, <3>3, EndRows
    <3>5. \A m \in Stored : /\ End(row[m]).tm = row[m].tm
                            /\ End(row[m]).status = "ended" /\ End(row[m]) # Nothing
      BY EndType
    <3>6. \A m \in Mandates :
             /\ m \in Stored' <=> m \in Stored
             /\ m \in Stored => row'[m].tm = row[m].tm
             /\ EndedRow(m) => EndedRow(m)'
             /\ Active(m) /\ row[m].tm # req.ending => Active(m)'
      BY <3>3, <3>4, <3>5 DEF Stored, EndedRow, Active
    <3> HIDE DEF S
    <3>7. \A m \in Stored' : m \in Stored /\ row'[m].tm = row[m].tm
      BY <3>6 DEF Stored
    <3>8. \A m \in Mandates : EndedRow(m) => m \in Stored
      BY DEF EndedRow
    <3>9. Making => /\ Active(req.policy.id)' /\ row'[req.policy.id].tm = req.policy.tm
                    /\ req.ending # req.policy.tm
      <4>1. Making => /\ Active(req.policy.id) /\ row[req.policy.id].tm = req.policy.tm
                      /\ req.ending # req.policy.tm
        BY <3>1 DEF LockInv, MadeActive, NewTM, ToldReplaced, ToldRevoked
      <4>2. Active(req.policy.id) => req.policy.id \in Stored /\ req.policy.id \in Mandates
        BY DEF Active, Stored
      <4> QED
        BY <3>2, <3>6, <4>1, <4>2 DEF Active
    <3>10. req.op = "confirm" =>
              \A m \in req.told :
                 EndedRow(m)' /\ (m \in req.olds \/ row'[m].tm \in gone')
      <4>1. req.told \subseteq Mandates
        BY <3>1 DEF LockHolders
      <4> QED
        BY <3>1, <3>6, <3>8, <4>1 DEF LockInv, MadeActive, NewTM, ToldReplaced, ToldRevoked
    <3>11. req.op = "revoke" =>
              /\ req.told \subseteq {req.policy.id} /\ req.ending = req.policy.tm
              /\ row'[req.policy.id].tm = req.policy.tm
              /\ EndedRow(req.policy.id)' /\ req.policy.status = "ended"
              /\ req.ending \in gone'
      BY <3>1, <3>2, <3>6, <3>8 DEF LockInv, MadeActive, NewTM, ToldReplaced, ToldRevoked
    <3>12. NewTM'
      BY <3>1, <3>2, <3>7 DEF LockInv, NewTM
    <3>13. MadeActive'
      BY <3>1, <3>2, <3>9 DEF MadeActive, Making, Active
    <3>14. ToldReplaced'
      BY <3>1, <3>2, <3>10 DEF LockInv, ToldReplaced, EndedRow
    <3>15. ToldRevoked'
      BY <3>1, <3>2, <3>11 DEF ToldRevoked, EndedRow
    <3> QED
      BY <3>1, <3>2, <3>12, <3>13, <3>14, <3>15 DEF LockInv
  <2> QED
    BY <1>8, <2>1, <2>2 DEF MarkRevoked, Releases, Commits, Goes
<1>9. CASE DeleteAtPlatform
  <2>1. /\ req # Nothing /\ req.at = "delete" /\ row' = row /\ gone' = gone
        /\ \/ req' = Nothing
           \/ req.op \notin {"revoke", "undo"} /\ req' = [req EXCEPT !.at = "end"]
    BY <1>9 DEF DeleteAtPlatform, At, storeVars, memVars, Releases, Goes
  <2>2. ASSUME req.op \notin {"revoke", "undo"}, req' = [req EXCEPT !.at = "end"]
        PROVE  LockInv'
    <3>1. /\ req'.op = req.op /\ req'.policy = req.policy /\ req'.told = req.told
          /\ req'.at = "end" /\ req'.olds = req.olds
      BY <2>1, <2>2 DEF LockHolders
    <3> QED
      BY <1>0, <2>1, <2>2, <3>1
         DEF LockInv, MadeActive, NewTM, ToldReplaced, ToldRevoked, Making, EndedRow, Active, Stored, PlatKept
  <2> QED
    BY <1>1, <2>1, <2>2
<1>10. CASE TightenStore
  <2>1. CASE req' = Nothing
    BY <1>1, <2>1
  <2> DEFINE id == req.policy.id
             new == [row[id] EXCEPT !.level = "tightened"]
  <2>2. ASSUME row' = [row EXCEPT ![id] = new],
               req' = [req EXCEPT !.at = "bind", !.policy = new]
        PROVE  LockInv'
    <3>1. /\ req # Nothing /\ req.op = "tighten" /\ plat' = plat /\ gone' = gone
          /\ id \in Stored /\ row[id].status = "active"
      BY <1>10 DEF TightenStore, At, memVars, LockInv, Active
    <3>2. new \in Policies /\ new.id = id /\ new.tm = row[id].tm /\ new.status = "active"
      BY <3>1 DEF Policies
    <3> HIDE DEF new
    <3>3. req'.op = "tighten" /\ req'.policy = new /\ req'.told = req.told /\ req'.at = "bind"
      BY <2>2, <3>1 DEF LockHolders
    <3>4. id \in Stored' /\ row'[id].status = "active"
      BY <2>2, <3>1, <3>2 DEF Stored, GoodRows
    <3>5. plat'[new.tm] # "none"
      BY <3>1, <3>2 DEF PlatInv
    <3> QED
      BY <3>1, <3>2, <3>3, <3>4, <3>5 DEF LockInv, MadeActive, NewTM, ToldReplaced, ToldRevoked, Making, Active
  <2>3. /\ req # Nothing /\ id \in Stored
    BY <1>10 DEF TightenStore, At, LockInv, Active
  <2>4. [row EXCEPT ![id] = new][id] = new
    BY <2>3 DEF GoodRows
  <2> HIDE DEF new
  <2>5. req' # Nothing => row' = [row EXCEPT ![id] = new]
                          /\ req' = [req EXCEPT !.at = "bind", !.policy = row'[id]]
    BY <1>10 DEF TightenStore, Commits, Releases, new
  <2> QED
    BY <2>1, <2>2, <2>4, <2>5
<1>11. CASE RevokeStore
  <2>1. CASE req' = Nothing
    BY <1>1, <2>1
  <2> DEFINE id == req.policy.id
  <2>2. ASSUME row' = Ended({id}), req' = [req EXCEPT !.at = "bind", !.policy = End(@)]
        PROVE  LockInv'
    <3>1. /\ req # Nothing /\ req.op = "revoke" /\ id \in Stored
          /\ plat' = plat /\ gone' = gone
      BY <1>11 DEF RevokeStore, At, memVars, IInv, ReqInv
    <3>2. /\ End(req.policy).id = id /\ End(req.policy).status = "ended"
          /\ End(req.policy).tm = req.policy.tm
      BY <3>1, EndType
    <3>3. /\ req'.op = "revoke" /\ req'.policy = End(req.policy) /\ req'.told = req.told
          /\ req'.at = "bind" /\ req'.ending = req.ending
      BY <2>2, <3>1 DEF LockHolders
    <3>4. /\ row'[id] # Nothing /\ row'[id].status = "ended" /\ row'[id].tm = row[id].tm
      BY <2>2, <3>1, EndRows, EndType DEF GoodRows, Stored
    <3>5. EndedRow(id)'
      BY <3>1, <3>2, <3>3, <3>4 DEF EndedRow, Stored
    <3> QED
      BY <3>1, <3>2, <3>3, <3>4
         DEF LockInv, MadeActive, NewTM, ToldReplaced, ToldRevoked, Making, EndedRow,
             Stored
  <2> QED
    BY <1>11, <2>1, <2>2 DEF RevokeStore, Releases, Commits
<1>12. CASE RevokeBind
  <2>1. /\ req # Nothing /\ req.op = "revoke" /\ req.at = "bind" /\ row' = row
        /\ plat' = plat /\ gone' = gone /\ req' = [req EXCEPT !.at = "flip"]
    BY <1>12 DEF RevokeBind, At, Goes, storeVars
  <2>2. /\ req'.op = "revoke" /\ req'.policy = req.policy /\ req'.told = req.told
        /\ req'.at = "flip" /\ req'.ending = req.ending
    BY <2>1 DEF LockHolders
  <2> QED
    BY <2>1, <2>2 DEF LockInv, MadeActive, NewTM, ToldReplaced, ToldRevoked, Making,
       EndedRow, Stored
<1>13. CASE RevokeFlip
  <2>1. /\ req # Nothing /\ req.op = "revoke" /\ req.at = "flip" /\ row' = row
        /\ plat' = plat /\ gone' = gone \cup {req.ending}
        /\ req' = [req EXCEPT !.at = "mark"]
    BY <1>13 DEF RevokeFlip, LocalRevoke, At, Goes, storeVars, IInv, ReqInv, OpsAt
  <2>2. /\ req'.op = "revoke" /\ req'.policy = req.policy /\ req'.told = req.told
        /\ req'.at = "mark" /\ req'.ending = req.ending
    BY <2>1 DEF LockHolders
  <2> QED
    BY <2>1, <2>2 DEF LockInv, MadeActive, NewTM, ToldReplaced, ToldRevoked, Making,
       EndedRow, Stored
<1>14. CASE Reregister
  <2>1. CASE req' = req
    BY <1>0, <1>14, <2>1, LockHeld DEF Reregister, memVars, storeVars
  <2>2. ASSUME NEW m \in Latest(d3.policy.card), row[m].status = "active",
               NEW t \in TMs, Registers(t),
               req' = Request("reregister", "store", [row[m] EXCEPT !.tm = t], {})
        PROVE  LockInv'
    <3>1. m \in Stored /\ row[m].id = m /\ row' = row /\ plat'[t] # "none"
      BY <1>14, <2>2, LatestIsStored DEF Reregister, storeVars, Registers, IInv, TypeOK
    <3>2. [row[m] EXCEPT !.tm = t].id = m /\ [row[m] EXCEPT !.tm = t].tm = t
      BY <3>1 DEF Policies
    <3>3. /\ req'.op = "reregister" /\ req'.at = "store" /\ req'.told = {}
          /\ req'.policy.id = m /\ req'.policy.tm = t
      BY <2>2, <3>2 DEF Request
    <3> QED
      BY <2>2, <3>1, <3>3
         DEF LockInv, MadeActive, NewTM, ToldReplaced, ToldRevoked, Making, Active, Stored
  <2> QED
    BY <1>14, <2>1, <2>2 DEF Reregister
<1>15. CASE ReregisterStore
  <2>1. CASE req' = Nothing
    BY <1>1, <2>1
  <2> DEFINE id == req.policy.id
             new == [row[id] EXCEPT !.tm = req.policy.tm]
  <2>2. ASSUME row' = [row EXCEPT ![id] = new], req' = [req EXCEPT !.at = "bind"]
        PROVE  LockInv'
    <3>1. /\ req # Nothing /\ req.op = "reregister" /\ id \in Stored
          /\ row[id].status = "active" /\ plat' = plat
      BY <1>15 DEF ReregisterStore, At, LockInv, Active
    <3>2. new.status = "active" /\ new # Nothing
      BY <3>1 DEF Policies
    <3> HIDE DEF new
    <3>3. row'[id] = new
      BY <2>2, <3>1 DEF GoodRows
    <3>4. /\ req'.op = "reregister" /\ req'.policy = req.policy /\ req'.told = req.told
      BY <2>2, <3>1 DEF LockHolders
    <3> QED
      BY <3>1, <3>2, <3>3, <3>4
         DEF LockInv, MadeActive, NewTM, ToldReplaced, ToldRevoked, Making, Active, Stored
  <2> QED
    BY <1>15, <2>1, <2>2 DEF ReregisterStore, Releases, Commits, Goes
<1>16. CASE MovePolicy
  <2> DEFINE copy == Moved(run[d3.run].card)
             olds == ActiveOn(copy.card)
             ends == olds \cup {d3.policy.id}
             rest == Ended(ends)
  <2>1. CASE req' = req
    BY <1>16, <2>1 DEF MovePolicy, Serving, LockInv
  <2>2. ASSUME row' = Moving(copy),
               req' = [Request("move", "end", copy, {}) EXCEPT !.olds = olds]
        PROVE  LockInv'
    <3>1. /\ copy \in Policies /\ copy.id = issued + 1 /\ copy.id \notin Stored
          /\ d3.policy.id \in Stored
      BY <1>16, MovedType DEF MovePolicy
    <3>2. copy.tm = row[d3.policy.id].tm /\ copy.status = "active" /\ copy.id \in Mandates
      BY <3>1 DEF Moved, Policies
    <3>3. ends \in SUBSET Stored /\ plat' = plat
      BY <1>16, <3>1 DEF ActiveOn, Active, MovePolicy
    <3>4. rest \in [Mandates -> OrNothing(Policies)] /\ row' = [rest EXCEPT ![copy.id] = copy]
      BY <2>2, <3>3, EndRows DEF Moving, GoodRows
    <3>5. /\ req'.op = "move" /\ req'.at = "end" /\ req'.policy = copy /\ req'.told = {}
      BY <2>2 DEF Request
    <3> HIDE DEF copy, olds, ends, rest
    <3>6. row'[copy.id] = copy /\ copy # Nothing
      BY <3>1, <3>2, <3>4
    <3> QED
      BY <3>1, <3>2, <3>3, <3>5, <3>6
         DEF LockInv, MadeActive, NewTM, ToldReplaced, ToldRevoked, Making, Active, Stored,
             PlatInv
  <2> QED
    BY <1>16, <2>1, <2>2 DEF MovePolicy, Commits
<1>17. CASE ScenarioLaunch
  <2>1. /\ req # Nothing /\ req.at = "launch" /\ req.op = "scenario"
        /\ row' = row /\ plat' = plat /\ gone \subseteq gone'
        /\ \/ req' = [req EXCEPT !.at = "store"]
           \/ req' = [req EXCEPT !.op = "undo", !.at = "mark"]
    BY <1>17 DEF ScenarioLaunch, LocalRevoke, At, Goes, storeVars, IInv, ReqInv, OpsAt
  <2>2. /\ req'.policy = req.policy /\ req'.told = req.told
        /\ \/ req'.op = "scenario" /\ req'.at = "store"
           \/ req'.op = "undo"
    BY <2>1 DEF LockHolders
  <2> QED
    BY <2>1, <2>2
       DEF LockInv, MadeActive, NewTM, ToldReplaced, ToldRevoked, Making, Stored
<1>18. CASE BindNew \/ TightenBind \/ ReregisterBind \/ Crash
  BY <1>1, <1>18 DEF BindNew, TightenBind, ReregisterBind, Crash, Releases
<1>19. CASE \/ CheckPlatform \/ Launch \/ TrackRun \/ WorkerSteps
            \/ \E p \in Procs : StartProcess(p) \/ Lead(p)
            \/ \E c \in Cards, r \in Runs : CreateRun(c, r)
  BY <1>0, <1>19, LockHeld DEF CheckPlatform, Launch, TrackRun, WorkerSteps, RestoreRead,
     RestoreBind, BindRun, Decide, Receive, FinishRun, StartProcess, Lead, CreateRun,
     storeVars, memVars
<1> QED
  BY <1>2, <1>3, <1>4, <1>5, <1>6, <1>7, <1>8, <1>9, <1>10, <1>11, <1>12, <1>13, <1>14,
     <1>15, <1>16, <1>17, <1>18, <1>19 DEF Next, Requests, RequestSteps
-----------------------------------------------------------------------------
(* An active copy of the policy whose row is m, wherever it is kept. *)
LiveCopy(policy, m) ==
    policy \notin {Nothing, NoPolicy} /\ policy.id = m /\ policy.status = "active"

(* None in _policies, in the contexts of the runs under the TM, or in the  *)
(* row a restore has read and not bound yet. *)
NoneBound(m, t) == \A p \in Procs : ~LiveCopy(bound[p][t], m)
NoneRuns(m, t) == \A r \in Runs : ctx[r] # Nothing /\ run[r].tm = t => ~LiveCopy(ctx[r], m)
NoneRead(m, t) ==
    hand # Nothing /\ hand.read # Nothing /\ run[hand.run].tm = t => ~LiveCopy(hand.read, m)
NoCopyOf(m, t) == NoneBound(m, t) /\ NoneRuns(m, t) /\ NoneRead(m, t)

(* Its TM is revoked in this process, or nothing there decides by it. *)
Swept(m) == row[m].tm \in gone \/ NoCopyOf(m, row[m].tm)

(* What a customer was told has ended is ended in the store, and swept;    *)
(* the purchase in hand noted what had been told when it arrived. *)
ToldInv ==
    /\ \A m \in ended : EndedRow(m) /\ Swept(m)
    /\ hand # Nothing =>
          /\ hand.ended \subseteq ended
          /\ hand.read # Nothing => hand.read.tm = run[hand.run].tm

(* What is bound is a copy of what is given, and no more active. *)
LEMMA SeenCopy ==
    ASSUME NEW policy \in Policies, NEW m, LiveCopy(Seen(policy), m)
    PROVE  LiveCopy(policy, m)
<1>1. policy # Nothing /\ policy # NoPolicy
  BY NotPolicies
<1> QED
  BY <1>1, EndType DEF Seen, LiveCopy

(* Binding anything but an active copy leaves none. *)
LEMMA BindClean ==
    ASSUME IInv, leader # Nothing, NEW policy \in Policies, Bind(policy), NEW m,
           NEW t \in TMs, NoneBound(m, t), policy.tm = t => ~LiveCopy(policy, m)
    PROVE  NoneBound(m, t)'
<1>1. /\ bound' = [bound EXCEPT ![leader][policy.tm] = Seen(policy)]
      /\ bound \in [Procs -> [TMs -> OrNothing(Policies)]] /\ leader \in Procs
  BY MemFacts DEF Bind
<1>2. \A p \in Procs : bound'[p][t] = bound[p][t]
                       \/ (policy.tm = t /\ bound'[p][t] = Seen(policy))
  BY <1>1
<1>3. ASSUME NEW p \in Procs, LiveCopy(bound'[p][t], m) PROVE FALSE
  BY <1>2, <1>3, SeenCopy DEF NoneBound
<1> QED
  BY <1>3 DEF NoneBound, LiveCopy

(* A policy whose row is active is no copy of one that ended. *)
LEMMA ActiveIsOther ==
    ASSUME NEW policy, Active(policy.id), NEW m, EndedRow(m)
    PROVE  ~LiveCopy(policy, m)
BY DEF Active, EndedRow, LiveCopy

(* An ended policy is no active copy. *)
LEMMA EndedIsNone ==
    ASSUME NEW policy, policy.status = "ended", NEW m
    PROVE  ~LiveCopy(policy, m)
BY DEF LiveCopy

(* What the store has of a policy that ended is no active copy of it. *)
LEMMA NewestIsNone ==
    ASSUME IInv, NEW m, EndedRow(m), NEW t, NEW copyFirst
    PROVE  ~LiveCopy(Newest(t, copyFirst), m)
<1> DEFINE under == {k \in Stored : row[k].tm = t}
           best == {k \in under :
                       \A n \in under : IF copyFirst THEN k >= n ELSE k <= n}
<1>1. CASE best = {}
  BY <1>1 DEF Newest, LiveCopy
<1>2. CASE best # {}
  <2>1. PICK k \in best : k = CHOOSE x \in best : TRUE
    BY <1>2
  <2>2. Newest(t, copyFirst) = row[k]
    BY <1>2, <2>1 DEF Newest
  <2>3. k \in Stored /\ row[k].tm = t
    OBVIOUS
  <2> QED
    BY <2>2, <2>3, RowFacts DEF LiveCopy, EndedRow
<1> QED
  BY <1>1, <1>2

(* What is read for a TM is of that TM. *)
LEMMA NewestTM ==
    ASSUME NEW t, NEW copyFirst, Newest(t, copyFirst) # Nothing
    PROVE  Newest(t, copyFirst).tm = t
<1> DEFINE under == {k \in Stored : row[k].tm = t}
           best == {k \in under :
                       \A n \in under : IF copyFirst THEN k >= n ELSE k <= n}
<1>1. best # {}
  BY DEF Newest
<1>2. PICK k \in best : k = CHOOSE x \in best : TRUE
  BY <1>1
<1>3. Newest(t, copyFirst) = row[k]
  BY <1>1, <1>2 DEF Newest
<1> QED
  BY <1>3

(* No step of a living process puts an active copy back: not in _policies, *)
LEMMA BoundStep ==
    ASSUME IInv, LockInv, ToldInv, Next, ~Crash, NEW m, EndedRow(m), NEW t \in TMs,
           NoCopyOf(m, t)
    PROVE  NoneBound(m, t)'
<1> USE MemFacts
<1>0. NoneBound(m, t) /\ NoneRead(m, t)
  BY DEF NoCopyOf
<1>1. ASSUME bound' = bound PROVE NoneBound(m, t)'
  BY <1>0, <1>1 DEF NoneBound, LiveCopy
<1>2. ASSUME leader # Nothing, NEW policy \in Policies, Bind(policy),
             policy.tm = t => ~LiveCopy(policy, m)
      PROVE  NoneBound(m, t)'
  BY <1>0, <1>2, BindClean
<1>3. ASSUME leader # Nothing, NEW u, NEW policy, ~LiveCopy(policy, m),
             bound' = [bound EXCEPT ![leader][u] = policy]
      PROVE  NoneBound(m, t)'
  <2>1. \A p \in Procs : bound'[p][t] \in {bound[p][t], policy}
    BY <1>3
  <2> QED
    BY <1>0, <1>3, <2>1 DEF NoneBound, LiveCopy
<1>4. CASE EndOld
  <2>1. PICK k \in req.olds :
          Bind(row[k]) \/ bound' = [bound EXCEPT ![leader][row[k].tm] = row[k]]
    BY <1>4 DEF EndOld
  <2>2. req # Nothing /\ k \in Stored /\ row[k].status = "ended" /\ row[k] \in Policies
    BY <1>4, RowFacts DEF EndOld, At, IInv, ReqInv
  <2> QED
    BY <1>2, <1>3, <2>1, <2>2, EndedIsNone
<1>5. CASE BindNew
  <2>1. req # Nothing /\ Bind(req.policy) /\ Active(req.policy.id)
    BY <1>5 DEF BindNew, At, IInv, ReqInv, OpsAt, LockInv, MadeActive, Making
  <2> QED
    BY <1>2, <2>1, ActiveIsOther
<1>6. CASE TightenBind \/ ReregisterBind
  <2>1. req # Nothing /\ Bind(req.policy) /\ Active(req.policy.id)
    BY <1>6 DEF TightenBind, ReregisterBind, At, LockInv
  <2> QED
    BY <1>2, <2>1, ActiveIsOther
<1>7. CASE RevokeBind
  <2>1. req # Nothing /\ Bind(req.policy) /\ req.policy.status = "ended"
    BY <1>7 DEF RevokeBind, At, LockInv, ToldRevoked
  <2> QED
    BY <1>2, <2>1, EndedIsNone
<1>8. ASSUME leader # Nothing, NEW u \in TMs, LocalRevoke(u) PROVE NoneBound(m, t)'
  <2> DEFINE was == bound[leader][u]
             policy == IF was = Nothing THEN was ELSE End(was)
  <2>1. bound' = [bound EXCEPT ![leader][u] = policy]
    BY <1>8 DEF LocalRevoke
  <2>2. was \in OrNothing(Policies)
    BY <1>8
  <2>3. ~LiveCopy(policy, m)
    BY <2>2, EndType DEF LiveCopy, OrNothing
  <2> HIDE DEF policy
  <2> QED
    BY <1>3, <1>8, <2>1, <2>3
<1>9. CASE RevokeFlip
  BY <1>8, <1>9 DEF RevokeFlip, At
<1>10. CASE ScenarioLaunch
  BY <1>1, <1>8, <1>10 DEF ScenarioLaunch, At
<1>11. ASSUME NEW c \in Cards, NEW r \in Runs, ScenarioRun(c, r) PROVE NoneBound(m, t)'
  <2>1. PICK u \in TMs : Bind(NewPolicy(c, u)) \/ bound' = bound
    BY <1>11 DEF ScenarioRun
  <2>2. /\ NewPolicy(c, u) \in Policies /\ NewPolicy(c, u).id = issued + 1
        /\ leader # Nothing
    BY <1>11, NewPolicyType DEF ScenarioRun, Serving
  <2>3. issued + 1 \notin Stored
    BY DEF IInv, RowInv, TypeOK, Stored, Mandates
  <2> QED
    BY <1>1, <1>2, <2>1, <2>2, <2>3 DEF LiveCopy, EndedRow
<1>12. CASE RestoreBind
  <2>1. hand # Nothing /\ leader # Nothing /\ hand.read \in Policies /\ Bind(hand.read)
    BY <1>12 DEF RestoreBind, HandAt, IInv, HandInv, TypeOK, OrNothing, Purchases
  <2>2. hand.read.tm = t => ~LiveCopy(hand.read, m)
    BY <1>0, <2>1, NotPolicies DEF ToldInv, NoneRead
  <2> QED
    BY <1>2, <2>1, <2>2
<1>13. ASSUME NEW p \in Procs, StartProcess(p) PROVE NoneBound(m, t)'
  <2>1. PICK copyFirst \in BOOLEAN :
           bound' = [bound EXCEPT ![p] = [u \in TMs |-> Newest(u, copyFirst)]]
    BY <1>13 DEF StartProcess
  <2>2. \A q \in Procs : bound'[q][t] \in {bound[q][t], Newest(t, copyFirst)}
    BY <2>1
  <2> QED
    BY <1>0, <2>2, NewestIsNone DEF NoneBound, LiveCopy
<1>14. CASE \/ RestoreRead \/ BindRun \/ Decide
            \/ \E r \in Runs : Receive(r) \/ FinishRun(r)
            \/ \E p \in Procs : Lead(p)
            \/ \E c \in Cards :
                  \/ ConfirmDraft(c) \/ TightenPolicy(c) \/ RevokePolicy(c)
                  \/ \E r \in Runs : CreateRun(c, r)
  BY <1>1, <1>14 DEF RestoreRead, BindRun, Decide, Receive, FinishRun, Lead,
     ConfirmDraft, TightenPolicy, RevokePolicy, CreateRun, memVars
<1>15. CASE \/ StoreConfirmed \/ MarkRevoked \/ DeleteAtPlatform \/ TightenStore
            \/ RevokeStore \/ CheckPlatform \/ Reregister \/ ReregisterStore
            \/ Launch \/ TrackRun \/ MovePolicy
  BY <1>1, <1>15 DEF StoreConfirmed, MarkRevoked, DeleteAtPlatform, TightenStore,
     RevokeStore, CheckPlatform, Reregister, ReregisterStore, Launch, TrackRun,
     MovePolicy, memVars
<1> QED
  BY <1>4, <1>5, <1>6, <1>7, <1>9, <1>10, <1>11, <1>12, <1>13, <1>14, <1>15
     DEF Next, Requests, RequestSteps, WorkerSteps

(* not in the context of a run, *)
LEMMA ContextStep ==
    ASSUME IInv, LockInv, ToldInv, Next, ~Crash, NEW m, EndedRow(m), NEW t \in TMs,
           NoCopyOf(m, t)
    PROVE  NoneRuns(m, t)'
<1> USE MemFacts, NotPolicies
<1>0. /\ NoneBound(m, t) /\ NoneRuns(m, t)
      /\ \A r \in Runs : ctx[r] # Nothing => run[r] # Nothing
      /\ \A r \in Runs : run[r] # Nothing => run'[r].tm = run[r].tm
  BY RunStep DEF NoCopyOf, RunsMove, RunsKept
<1>1. ASSUME \A r \in Runs : \/ ctx'[r] = Nothing \/ ctx'[r] = ctx[r]
                             \/ ctx[r] # Nothing /\ ~LiveCopy(ctx'[r], m)
      PROVE  NoneRuns(m, t)'
  <2>1. ASSUME NEW r \in Runs, ctx'[r] # Nothing, run'[r].tm = t PROVE ~LiveCopy(ctx'[r], m)
    BY <1>0, <1>1, <2>1 DEF NoneRuns
  <2> QED
    BY <2>1 DEF NoneRuns, LiveCopy
<1>2. ASSUME ctx' = ctx PROVE NoneRuns(m, t)'
  BY <1>1, <1>2
<1>3. ASSUME NEW u, ctx' = FlipRuns(u) PROVE NoneRuns(m, t)'
  <2>1. \A r \in Runs : ctx'[r] = ctx[r] \/ (ctx[r] # Nothing /\ ctx'[r].status = "ended")
    BY <1>3, FlipType DEF HasPolicy
  <2> QED
    BY <1>1, <2>1, EndedIsNone
<1>4. CASE EndOld
  BY <1>2, <1>3, <1>4 DEF EndOld
<1>5. CASE RevokeFlip \/ ScenarioLaunch
  BY <1>2, <1>3, <1>5 DEF RevokeFlip, ScenarioLaunch, LocalRevoke
<1>6. CASE BindNew
  <2>1. req # Nothing /\ req.policy \in Policies /\ Active(req.policy.id)
    BY <1>6 DEF BindNew, At, IInv, ReqInv, OpsAt, LockInv, MadeActive, Making
  <2>2. ~LiveCopy(Seen(req.policy), m)
    BY <2>1, SeenCopy, ActiveIsOther
  <2>3. \A r \in Runs : ctx'[r] = ctx[r] \/ (ctx[r] # Nothing /\ ctx'[r] = Seen(req.policy))
    BY <1>6 DEF BindNew
  <2> QED
    BY <1>1, <2>2, <2>3
<1>7. CASE BindRun
  <2> DEFINE r == hand.run
             policy == bound[leader][run[r].tm]
  <2>1. /\ hand # Nothing /\ leader \in Procs /\ r \in Runs /\ run[r] # Nothing
        /\ ctx' = IF ctx[r] = Nothing THEN [ctx EXCEPT ![r] = Context(r)] ELSE ctx
    BY <1>7 DEF BindRun, HandAt, IInv, HandInv
  <2>2. run[r].tm \in TMs /\ run[r].card \in Cards
    BY <2>1 DEF IInv, TypeOK, OrNothing, LiveRuns
  <2>3. policy \in OrNothing(Policies) /\ (run[r].tm = t => ~LiveCopy(policy, m))
    BY <1>0, <2>1, <2>2 DEF NoneBound
  <2>4. ASSUME run[r].tm = t PROVE ~LiveCopy(Context(r), m)
    <3>1. CASE policy = Nothing
      BY <3>1 DEF Context, LiveCopy
    <3>2. CASE policy \in Policies
      <4>1. ~LiveCopy(Seen(policy), m) /\ Seen(policy) \in Policies
        BY <2>3, <2>4, <3>2, SeenCopy, SeenType
      <4>2. Context(r) \in {Seen(policy), [Seen(policy) EXCEPT !.card = run[r].card]}
        BY <3>2 DEF Context
      <4> HIDE DEF policy
      <4>3. ASSUME NEW seen \in Policies, ~LiveCopy(seen, m)
            PROVE  ~LiveCopy([seen EXCEPT !.card = run[r].card], m)
        BY <4>3 DEF LiveCopy, Policies
      <4> QED
        BY <4>1, <4>2, <4>3
    <3> QED
      BY <2>3, <3>1, <3>2 DEF OrNothing
  <2> HIDE DEF policy
  <2>5. CASE ctx[r] = Nothing
    <3>1. \A q \in Runs : ctx'[q] = ctx[q] \/ (q = r /\ ctx'[q] = Context(r))
      BY <2>1, <2>5
    <3>2. ASSUME NEW q \in Runs, ctx'[q] # Nothing, run'[q].tm = t
          PROVE  ~LiveCopy(ctx'[q], m)
      BY <1>0, <2>1, <2>4, <3>1, <3>2 DEF NoneRuns
    <3> QED
      BY <3>2 DEF NoneRuns, LiveCopy
  <2> QED
    BY <1>2, <2>1, <2>5
<1>8. CASE \/ RestoreRead \/ RestoreBind \/ Decide
           \/ \E r \in Runs : Receive(r) \/ FinishRun(r)
           \/ \E p \in Procs : StartProcess(p) \/ Lead(p)
           \/ \E c \in Cards :
                 \/ ConfirmDraft(c) \/ TightenPolicy(c) \/ RevokePolicy(c)
                 \/ \E r \in Runs : CreateRun(c, r) \/ ScenarioRun(c, r)
  BY <1>2, <1>8 DEF RestoreRead, RestoreBind, Decide, Receive, FinishRun, StartProcess,
     Lead, ConfirmDraft, TightenPolicy, RevokePolicy, CreateRun, ScenarioRun, memVars
<1>9. CASE \/ StoreConfirmed \/ MarkRevoked \/ DeleteAtPlatform \/ TightenStore
           \/ TightenBind \/ RevokeStore \/ RevokeBind \/ CheckPlatform \/ Reregister
           \/ ReregisterStore \/ ReregisterBind \/ Launch \/ TrackRun \/ MovePolicy
  BY <1>2, <1>9 DEF StoreConfirmed, MarkRevoked, DeleteAtPlatform, TightenStore,
     TightenBind, RevokeStore, RevokeBind, CheckPlatform, Reregister, ReregisterStore,
     ReregisterBind, Launch, TrackRun, MovePolicy, memVars
<1> QED
  BY <1>4, <1>5, <1>6, <1>7, <1>8, <1>9
     DEF Next, Requests, RequestSteps, WorkerSteps

(* The purchase in hand: of the same run, with what it had read and noted, *)
(* or one that just arrived or read its policy. *)
HandKept ==
    /\ hand # Nothing /\ hand' # Nothing /\ hand'.run = hand.run
    /\ hand'.ended = hand.ended /\ hand'.read \in {Nothing, hand.read}
    /\ hand'.verdict = hand.verdict

(* What a step makes of it. *)
HandMade ==
    \/ hand' = Nothing
    \/ HandKept
    \/ \E r \in Runs : Receive(r) /\ hand'.run = r /\ hand'.read = Nothing
                       /\ hand'.verdict = Nothing /\ hand'.ended = ended
    \/ /\ RestoreRead /\ hand # Nothing /\ hand'.run = hand.run
       /\ hand'.ended = hand.ended /\ hand'.verdict = hand.verdict
       /\ \E copyFirst \in BOOLEAN : hand'.read = Newest(run[hand.run].tm, copyFirst)
    \/ /\ Decide /\ hand # Nothing /\ hand'.run = hand.run
       /\ hand'.ended = hand.ended /\ hand'.read = hand.read
       /\ \/ hand'.verdict = Nothing
          \/ /\ hand'.verdict = ctx[hand.run]
             /\ Approvable(ctx[hand.run], run[hand.run].card)

(* Every step is one of these to the purchase in hand. *)
LEMMA HandMoved ==
    ASSUME IInv, Next
    PROVE  HandMade
<1>0. hand # Nothing => hand \in Purchases
  BY DEF IInv, TypeOK, OrNothing
<1>1. ASSUME hand' = hand PROVE HandMade
  BY <1>1 DEF HandMade, HandKept
<1>2. CASE Crash
  BY <1>2 DEF Crash, HandMade
<1>3. ASSUME NEW r \in Runs, Receive(r) PROVE HandMade
  <2>1. hand'.run = r /\ hand'.read = Nothing /\ hand'.verdict = Nothing /\ hand'.ended = ended
    BY <1>3 DEF Receive
  <2> QED
    BY <1>3, <2>1 DEF HandMade
<1>4. CASE RestoreRead
  <2>1. hand \in Purchases /\ hand # Nothing
    BY <1>0, <1>4 DEF RestoreRead, HandAt
  <2>2. PICK copyFirst \in BOOLEAN :
          LET read == Newest(run[hand.run].tm, copyFirst)
          IN hand' = [hand EXCEPT !.at = IF read = Nothing THEN "bind" ELSE "restored",
                                  !.read = read]
    BY <1>4 DEF RestoreRead
  <2> DEFINE read == Newest(run[hand.run].tm, copyFirst)
             at == IF read = Nothing THEN "bind" ELSE "restored"
  <2>3. hand' = [hand EXCEPT !.at = at, !.read = read]
    BY <2>2
  <2> HIDE DEF at, read
  <2>4. /\ hand'.run = hand.run /\ hand'.ended = hand.ended /\ hand'.verdict = hand.verdict
        /\ hand'.read = read
    BY <2>1, <2>3 DEF Purchases
  <2> QED
    BY <1>4, <2>1, <2>4 DEF HandMade, read
<1>5. CASE RestoreBind \/ BindRun
  <2>1. /\ hand \in Purchases /\ hand # Nothing
        /\ \/ hand' = [hand EXCEPT !.at = "bind", !.read = Nothing]
           \/ hand' = [hand EXCEPT !.at = "decide"]
    BY <1>0, <1>5 DEF RestoreBind, BindRun, HandAt
  <2>2. /\ hand'.run = hand.run /\ hand'.ended = hand.ended /\ hand'.verdict = hand.verdict
        /\ hand'.read \in {Nothing, hand.read}
    BY <2>1 DEF Purchases
  <2> QED
    BY <2>1, <2>2 DEF HandMade, HandKept
<1>6. CASE Decide
  <2> DEFINE policy == ctx[hand.run]
             verdict == IF Approvable(policy, run[hand.run].card) THEN policy ELSE Nothing
  <2>1. /\ hand \in Purchases /\ hand # Nothing
        /\ hand' = [hand EXCEPT !.at = "decided", !.verdict = verdict]
    BY <1>0, <1>6 DEF Decide, HandAt
  <2>2. \/ verdict = Nothing
        \/ verdict = policy /\ Approvable(policy, run[hand.run].card)
    OBVIOUS
  <2> HIDE DEF verdict, policy
  <2>3. /\ hand'.run = hand.run /\ hand'.ended = hand.ended /\ hand'.verdict = verdict
        /\ hand'.read = hand.read
    BY <2>1 DEF Purchases
  <2>4. \/ hand'.verdict = Nothing
        \/ hand'.verdict = policy /\ Approvable(policy, run[hand.run].card)
    BY <2>2, <2>3
  <2> QED
    BY <1>6, <2>1, <2>3, <2>4 DEF HandMade, policy
<1>7. CASE Requests \/ \E p \in Procs : StartProcess(p) \/ Lead(p)
  BY <1>1, <1>7 DEF Requests, ConfirmDraft, TightenPolicy, RevokePolicy, CreateRun,
     ScenarioRun, StartProcess, Lead
<1>8. CASE RequestSteps \/ \E r \in Runs : FinishRun(r)
  BY <1>1, <1>8 DEF RequestSteps, StoreConfirmed, EndOld, MarkRevoked, DeleteAtPlatform,
     BindNew, TightenStore, TightenBind, RevokeStore, RevokeBind, RevokeFlip,
     CheckPlatform, Reregister, ReregisterStore, ReregisterBind, Launch, TrackRun,
     MovePolicy, ScenarioLaunch, FinishRun
<1> QED
  BY <1>2, <1>3, <1>4, <1>5, <1>6, <1>7, <1>8 DEF Next, WorkerSteps

(* and not in the row a restore has in hand. *)
LEMMA ReadStep ==
    ASSUME IInv, LockInv, ToldInv, Next, ~Crash, NEW m, EndedRow(m), NEW t \in TMs,
           NoCopyOf(m, t)
    PROVE  NoneRead(m, t)'
<1>0. /\ NoneRead(m, t) /\ HandMade
      /\ hand # Nothing => hand.run \in Runs /\ run[hand.run] # Nothing
      /\ \A r \in Runs : run[r] # Nothing => run'[r].tm = run[r].tm
  BY RunStep, HandMoved, MemFacts DEF NoCopyOf, RunsMove, RunsKept, IInv, HandInv
<1>1. ASSUME hand' # Nothing, hand'.read # Nothing, run'[hand'.run].tm = t
      PROVE  ~LiveCopy(hand'.read, m)
  <2>1. CASE hand # Nothing /\ hand'.run = hand.run /\ hand'.read = hand.read
    BY <1>0, <1>1, <2>1 DEF NoneRead
  <2>2. CASE RestoreRead /\ \E copyFirst \in BOOLEAN :
                 hand'.read = Newest(run[hand.run].tm, copyFirst)
    BY <2>2, NewestIsNone
  <2> QED
    BY <1>0, <1>1, <2>1, <2>2 DEF HandMade, HandKept
<1> QED
  BY <1>1 DEF NoneRead, LiveCopy

(* What was revoked in a process is forgotten with it only. *)
LEMMA GoneGrows ==
    ASSUME Next, ~Crash
    PROVE  gone \subseteq gone'
<1>1. CASE Requests \/ \E p \in Procs : StartProcess(p) \/ Lead(p)
  BY <1>1 DEF Requests, ConfirmDraft, TightenPolicy, RevokePolicy, CreateRun,
     ScenarioRun, StartProcess, Lead, memVars
<1>2. CASE RequestSteps
  BY <1>2 DEF RequestSteps, StoreConfirmed, EndOld, MarkRevoked, DeleteAtPlatform,
     BindNew, TightenStore, TightenBind, RevokeStore, RevokeBind, RevokeFlip,
     CheckPlatform, Reregister, ReregisterStore, ReregisterBind, Launch, TrackRun,
     MovePolicy, ScenarioLaunch, LocalRevoke, memVars
<1>3. CASE WorkerSteps
  BY <1>3 DEF WorkerSteps, RestoreRead, RestoreBind, BindRun, Decide, Receive,
     FinishRun, memVars
<1> QED
  BY <1>1, <1>2, <1>3 DEF Next

(* A server process on its own. *)
OneProcess == \A p, q \in Procs : p = q

(* Once a policy has ended in the store and in memory, it stays so. *)
LEMMA SweptStep ==
    ASSUME OneProcess, IInv, LockInv, ToldInv, Next, NEW m, EndedRow(m), Swept(m)
    PROVE  EndedRow(m)' /\ Swept(m)'
<1>1. PICK t \in TMs : t = row[m].tm
  BY RowFacts DEF EndedRow
<1>2. /\ m \in Stored' /\ row'[m].status = "ended" /\ row'[m].tm = t
  BY RowStep, RowTMs, RowFacts, <1>1 DEF RowsKept, TMsKept, EndedRow, Stored
<1>3. CASE Crash
  <2>1. \A p \in Procs : p = leader
    BY <1>3, MemFacts DEF Crash, OneProcess
  <2>2. /\ \A p \in Procs : bound'[p][t] = Nothing
        /\ \A r \in Runs : ctx'[r] = Nothing
        /\ hand' = Nothing
    BY <1>3, <2>1, MemFacts DEF Crash
  <2>3. NoneBound(m, t)'
    BY <2>2 DEF NoneBound, LiveCopy
  <2>4. NoneRuns(m, t)' /\ NoneRead(m, t)'
    BY <2>2 DEF NoneRuns, NoneRead
  <2> QED
    BY <1>2, <2>3, <2>4 DEF Swept, EndedRow, NoCopyOf
<1>4. CASE ~Crash
  <2>1. gone \subseteq gone'
    BY <1>4, GoneGrows
  <2>2. CASE t \in gone
    BY <1>2, <2>1, <2>2 DEF Swept, EndedRow
  <2>3. CASE NoCopyOf(m, t)
    <3>1. NoCopyOf(m, t)'
      BY <1>4, <2>3, BoundStep, ContextStep, ReadStep DEF NoCopyOf
    <3> QED
      BY <1>2, <3>1 DEF Swept, EndedRow
  <2> QED
    BY <1>1, <2>2, <2>3 DEF Swept
<1> QED
  BY <1>3, <1>4

(* A customer is told of a policy only once it has ended everywhere. *)
LEMMA ToldStep ==
    ASSUME IInv, LockInv, Next, NEW m \in ended', m \notin ended
    PROVE  EndedRow(m) /\ row[m].tm \in gone
<1>1. CASE DeleteAtPlatform
  <2>1. /\ req # Nothing /\ req.at = "delete" /\ req.op \in {"revoke", "undo"}
        /\ m \in req.told
    BY <1>1 DEF DeleteAtPlatform, At
  <2> QED
    BY <2>1 DEF LockInv, ToldReplaced, ToldRevoked
<1>2. CASE BindNew
  <2>1. /\ req # Nothing /\ req.at = "end" /\ req.olds = {} /\ m \in req.told
        /\ req.op \in {"confirm", "scenario", "move"}
    BY <1>2 DEF BindNew, At, IInv, ReqInv, OpsAt
  <2> QED
    BY <2>1 DEF LockInv, ToldReplaced
<1>3. CASE Requests \/ Crash \/ \E p \in Procs : StartProcess(p) \/ Lead(p)
  BY <1>3 DEF Requests, ConfirmDraft, TightenPolicy, RevokePolicy, CreateRun,
     ScenarioRun, Crash, StartProcess, Lead, toldVars
<1>4. CASE WorkerSteps
  BY <1>4 DEF WorkerSteps, RestoreRead, RestoreBind, BindRun, Decide, Receive,
     FinishRun, toldVars
<1>5. CASE \/ StoreConfirmed \/ EndOld \/ MarkRevoked \/ TightenStore \/ TightenBind
           \/ RevokeStore \/ RevokeBind \/ RevokeFlip \/ CheckPlatform \/ Reregister
           \/ ReregisterStore \/ ReregisterBind \/ Launch \/ TrackRun \/ MovePolicy
           \/ ScenarioLaunch
  BY <1>5 DEF StoreConfirmed, EndOld, MarkRevoked, TightenStore, TightenBind,
     RevokeStore, RevokeBind, RevokeFlip, CheckPlatform, Reregister, ReregisterStore,
     ReregisterBind, Launch, TrackRun, MovePolicy, ScenarioLaunch, toldVars
<1> QED
  BY <1>1, <1>2, <1>3, <1>4, <1>5 DEF Next, RequestSteps

(* What was told stays true. *)
LEMMA ToldInvStep ==
    ASSUME OneProcess, IInv, LockInv, ToldInv, Next
    PROVE  ToldInv'
<1>1. ASSUME NEW m \in ended' PROVE EndedRow(m)' /\ Swept(m)'
  <2>1. EndedRow(m) /\ Swept(m)
    BY ToldStep DEF ToldInv, Swept
  <2> QED
    BY <2>1, SweptStep
<1>2. ended \subseteq ended' \/ hand' = Nothing
  <2>1. CASE Requests \/ Crash \/ \E p \in Procs : StartProcess(p) \/ Lead(p)
    BY <2>1 DEF Requests, ConfirmDraft, TightenPolicy, RevokePolicy, CreateRun,
       ScenarioRun, Crash, StartProcess, Lead, toldVars
  <2>2. CASE RequestSteps
    BY <2>2 DEF RequestSteps, StoreConfirmed, EndOld, MarkRevoked, DeleteAtPlatform,
       BindNew, TightenStore, TightenBind, RevokeStore, RevokeBind, RevokeFlip,
       CheckPlatform, Reregister, ReregisterStore, ReregisterBind, Launch, TrackRun,
       MovePolicy, ScenarioLaunch, toldVars
  <2>3. CASE WorkerSteps
    BY <2>3 DEF WorkerSteps, RestoreRead, RestoreBind, BindRun, Decide, Receive,
       FinishRun, toldVars
  <2> QED
    BY <2>1, <2>2, <2>3 DEF Next
<1>3. /\ HandMade
      /\ hand # Nothing => hand.run \in Runs /\ run[hand.run] # Nothing
      /\ \A r \in Runs : run[r] # Nothing => run'[r].tm = run[r].tm
      /\ \A r \in Runs : Receive(r) => run[r] # Nothing
  BY RunStep, HandMoved, MemFacts DEF RunsMove, RunsKept, IInv, HandInv, Receive
<1>4. ASSUME hand' # Nothing PROVE hand'.ended \subseteq ended'
  BY <1>2, <1>3, <1>4 DEF HandMade, HandKept, ToldInv
<1>5. ASSUME hand' # Nothing, hand'.read # Nothing PROVE hand'.read.tm = run'[hand'.run].tm
  <2>1. CASE hand # Nothing /\ hand'.run = hand.run /\ hand'.read = hand.read
    BY <1>3, <1>5, <2>1 DEF ToldInv
  <2>2. CASE RestoreRead /\ hand # Nothing /\ hand'.run = hand.run
             /\ \E copyFirst \in BOOLEAN : hand'.read = Newest(run[hand.run].tm, copyFirst)
    <3>1. PICK copyFirst \in BOOLEAN : hand'.read = Newest(run[hand.run].tm, copyFirst)
      BY <2>2
    <3>2. hand'.read.tm = run[hand.run].tm
      BY <1>5, <3>1, NewestTM
    <3> QED
      BY <1>3, <2>2, <3>2
  <2> QED
    BY <1>3, <1>5, <2>1, <2>2 DEF HandMade, HandKept
<1> QED
  BY <1>1, <1>4, <1>5 DEF ToldInv

(* No purchase that arrived after the reply is approved under the policy. *)
LEMMA StopsStep ==
    ASSUME IInv, LockInv, ToldInv, RevokeStopsHere, Next
    PROVE  RevokeStopsHere'
<1> SUFFICES ASSUME hand' # Nothing, hand'.verdict # Nothing,
                    hand'.verdict.id \in hand'.ended
             PROVE  row'[hand'.verdict.id].tm # run'[hand'.run].tm
  BY DEF RevokeStopsHere, ApprovedUnder
<1>0. /\ HandMade
      /\ hand # Nothing => hand.run \in Runs /\ run[hand.run] # Nothing
      /\ \A r \in Runs : run[r] # Nothing => run'[r].tm = run[r].tm
  BY RunStep, HandMoved, MemFacts DEF RunsMove, RunsKept, IInv, HandInv
<1>1. \A m : EndedRow(m) => row'[m].tm = row[m].tm
  BY RowStep, RowTMs DEF RowsKept, TMsKept, EndedRow, Stored
<1>2. CASE hand # Nothing /\ hand'.run = hand.run /\ hand'.ended = hand.ended
           /\ hand'.verdict = hand.verdict
  <2>1. EndedRow(hand'.verdict.id)
    BY <1>2 DEF ToldInv
  <2> QED
    BY <1>0, <1>1, <1>2, <2>1 DEF RevokeStopsHere, ApprovedUnder
<1>3. CASE /\ hand # Nothing /\ hand'.run = hand.run /\ hand'.ended = hand.ended
           /\ hand'.verdict = ctx[hand.run]
           /\ Approvable(ctx[hand.run], run[hand.run].card)
  <2> DEFINE m == hand'.verdict.id
             t == run[hand.run].tm
  <2>1. EndedRow(m) /\ Swept(m)
    BY <1>3 DEF ToldInv
  <2>2. LiveCopy(ctx[hand.run], m) /\ HasPolicy(hand.run)
    BY <1>3 DEF LiveCopy, Approvable, HasPolicy
  <2>3. t \notin gone
    BY <1>0, <1>3, <2>2, MemFacts DEF RevokedStaysRevoked, Approvable
  <2>4. row[m].tm # t
    BY <1>0, <1>3, <2>1, <2>2, <2>3 DEF Swept, NoCopyOf, NoneRuns, HasPolicy
  <2> HIDE DEF m
  <2>5. row'[m].tm = row[m].tm
    BY <1>1, <2>1
  <2> QED
    BY <1>0, <1>3, <2>4, <2>5 DEF m
<1> QED
  BY <1>0, <1>2, <1>3 DEF HandMade, HandKept

(* The inductive invariant of T6. *)
RevokeInv == IInv /\ PlatInv /\ LockInv /\ ToldInv /\ RevokeStopsHere

(* It holds at the start, *)
LEMMA RevokeInitially ==
    Init => RevokeInv
<1> SUFFICES ASSUME Init PROVE RevokeInv
  OBVIOUS
<1>1. IInv
  BY Initially
<1>2. PlatInv /\ LockInv /\ ToldInv /\ RevokeStopsHere
  BY DEF Init, PlatInv, LockInv, ToldInv, RevokeStopsHere, ApprovedUnder, Stored
<1> QED
  BY <1>1, <1>2 DEF RevokeInv

(* and every step keeps it, with one server process. *)
LEMMA RevokeInductive ==
    OneProcess => (RevokeInv /\ [Next]_vars => RevokeInv')
<1>1. ASSUME OneProcess, RevokeInv, Next PROVE RevokeInv'
  <2>1. IInv'
    BY <1>1, Stepwise DEF RevokeInv
  <2> QED
    BY <1>1, <2>1, PlatInvStep, LockInvStep, ToldInvStep, StopsStep DEF RevokeInv
<1>2. ASSUME RevokeInv, UNCHANGED vars PROVE RevokeInv'
  <2>1. IInv'
    BY <1>2, Stepwise DEF RevokeInv
  <2>2. UNCHANGED <<row, issued, plat, run, leader, up, bound, gone, ctx, expected, req,
                    d3, hand, ended, tight, failures>>
    BY <1>2 DEF vars, storeVars, procVars, memVars, toldVars
  <2>3. PlatInv' /\ LockInv'
    BY <1>2, <2>2 DEF RevokeInv, PlatInv, LockInv, MadeActive, NewTM, ToldReplaced, ToldRevoked,
       Making, EndedRow, Active, Stored
  <2>4. ToldInv'
    BY <1>2, <2>2 DEF RevokeInv, ToldInv, EndedRow, Stored, Swept, NoCopyOf, NoneBound,
       NoneRuns, NoneRead, LiveCopy
  <2>5. RevokeStopsHere'
    BY <1>2, <2>2 DEF RevokeInv, RevokeStopsHere, ApprovedUnder
  <2> QED
    BY <2>1, <2>3, <2>4, <2>5 DEF RevokeInv
<1> QED
  BY <1>1, <1>2

(* T6: once C5 or C2 has told the customer that a policy has ended, no     *)
(* purchase that arrives is approved under it in a run under its TM,       *)
(* however many requests, runs, failed or late calls and restarts          *)
(* (revoke_policy, store_confirmed, VisecaWorker.revoke, _restore_policy,  *)
(* bind_policy).  A second process that stood by keeps the policies of its *)
(* own start, and then it does not hold.                                   *)
THEOREM RevokeStops ==
    ASSUME OneProcess
    PROVE  Spec => []RevokeStopsHere
<1>1. RevokeInv /\ [Next]_vars => RevokeInv'
  BY RevokeInductive
<1>2. RevokeInv => RevokeStopsHere
  BY DEF RevokeInv
<1> QED
  BY <1>1, <1>2, RevokeInitially, PTL DEF Spec

-----------------------------------------------------------------------------
(* Runs that go by the store: what a row that ended leaves behind *)

(* A policy registered under one TM, with its copies, is one policy.       *)
OneRoot == \A m, n \in Stored : row[m].tm = row[n].tm => row[m].root = row[n].root

(* The row was copied to another card since. *)
HasCopy(m) == \E n \in CopiesOf(row[m].root) : n > m

(* The request under way is about to revoke the row's TM in this process.  *)
Ending(m) ==
    /\ req # Nothing
    /\ \/ Making /\ m \in req.olds
       \/ req.op = "revoke" /\ req.at \in {"bind", "flip"} /\ m = req.policy.id

(* A policy that ended in the store is revoked here, or lives on as a copy, *)
(* or is about to be revoked. *)
EndedInv ==
    \A m \in Stored :
        row[m].status = "ended" => row[m].tm \in gone \/ HasCopy(m) \/ Ending(m)

(* A copy is of its policy and newer than all that end for it. *)
MoveInv ==
    req # Nothing /\ req.op = "move" =>
        /\ row[req.policy.id].root = req.policy.root
        /\ \A m \in req.olds : m < req.policy.id

(* What is marked as revoked is revoked in this process already. *)
MarkInv == At("mark") => req.ending \in gone

(* A policy is registered again under a TM of its own. *)
FreshTM ==
    At("store") /\ req.op = "reregister" => \A n \in Stored : row[n].tm # req.policy.tm

FollowInv == failures = 0 => OneRoot /\ EndedInv /\ MoveInv /\ MarkInv /\ FreshTM

(* A failed call is counted, and the count never falls. *)
LEMMA FailuresKept ==
    ASSUME IInv, Next, failures' = 0
    PROVE  failures = 0 /\ ~Fault /\ ~Crash
<1> DEFINE Counted == failures' = failures \/ Fault
<1>1. failures \in Nat /\ ~Fault
  BY DEF IInv, TypeOK, Fault
<1>2. ~Crash
  BY <1>1 DEF Crash
<1>3. ASSUME NEW c \in Cards, ConfirmDraft(c) \/ TightenPolicy(c) \/ RevokePolicy(c)
      PROVE  Counted
  BY <1>3 DEF ConfirmDraft, TightenPolicy, RevokePolicy, NoFault
<1>4. ASSUME NEW c \in Cards, NEW r \in Runs, CreateRun(c, r) \/ ScenarioRun(c, r)
      PROVE  Counted
  BY <1>4 DEF CreateRun, ScenarioRun, NoFault
<1>5. ASSUME \/ StoreConfirmed \/ EndOld \/ MarkRevoked \/ DeleteAtPlatform \/ BindNew
             \/ TightenStore \/ TightenBind
      PROVE  Counted
  BY <1>5 DEF StoreConfirmed, EndOld, MarkRevoked, DeleteAtPlatform, BindNew, TightenStore,
     TightenBind, NoFault, Commits, CommitsLate
<1>6. ASSUME \/ RevokeStore \/ RevokeBind \/ RevokeFlip \/ CheckPlatform \/ Reregister
             \/ ReregisterStore \/ ReregisterBind \/ Launch \/ TrackRun \/ MovePolicy
             \/ ScenarioLaunch
      PROVE  Counted
  BY <1>6 DEF RevokeStore, RevokeBind, RevokeFlip, CheckPlatform, Reregister,
     ReregisterStore, ReregisterBind, Launch, TrackRun, MovePolicy, ScenarioLaunch,
     NoFault, Commits, CommitsLate
<1>7. ASSUME \/ RestoreRead \/ RestoreBind \/ BindRun \/ Decide
             \/ \E r \in Runs : Receive(r) \/ FinishRun(r)
             \/ \E p \in Procs : StartProcess(p) \/ Lead(p)
      PROVE  Counted
  BY <1>7 DEF RestoreRead, RestoreBind, BindRun, Decide, Receive, FinishRun, StartProcess,
     Lead
<1>8. Counted
  BY <1>2, <1>3, <1>4, <1>5, <1>6, <1>7 DEF Next, Requests, RequestSteps, WorkerSteps
<1> QED
  BY <1>1, <1>2, <1>8

(* What a step does to the rows, beside ending some of them. *)
RowsFollow ==
    /\ \A m \in Stored :
          /\ m \in Stored' /\ row'[m].root = row[m].root
          /\ row'[m].tm # row[m].tm
                => ReregisterStore /\ m = req.policy.id /\ row'[m].tm = req.policy.tm
    /\ \A m \in Stored' : m \notin Stored =>
          /\ row'[m].status = "active"
          /\ \/ StoreConfirmed /\ m = req.policy.id /\ row'[m].tm = req.policy.tm
             \/ \E k \in Stored : row'[m].tm = row[k].tm /\ row'[m].root = row[k].root

(* Ending a policy leaves it its root. *)
LEMMA EndRoot ==
    ASSUME NEW policy \in Policies
    PROVE  End(policy).root = policy.root /\ End(policy).tm = policy.tm
           /\ End(policy).id = policy.id /\ End(policy).status = "ended"
BY DEF End, Policies

LEMMA EndedFollow ==
    ASSUME IInv, NEW S \in SUBSET Stored, row' = Ended(S)
    PROVE  RowsFollow
<1>1. \A m \in Mandates :
         /\ Ended(S)[m] = Nothing <=> row[m] = Nothing
         /\ Ended(S)[m] = row[m] \/ (m \in Stored /\ Ended(S)[m] = End(row[m]))
  BY EndRows, RowFacts
<1>2. \A m \in Stored : End(row[m]).root = row[m].root /\ End(row[m]).tm = row[m].tm
  BY EndRoot, RowFacts
<1>3. Stored' = Stored
  BY <1>1 DEF Stored
<1>4. \A m \in Stored : row'[m].root = row[m].root /\ row'[m].tm = row[m].tm
  BY <1>1, <1>2, RowFacts
<1> QED
  BY <1>3, <1>4 DEF RowsFollow

(* A row is put in a place of its own, and others end. *)
LEMMA PutFollow ==
    ASSUME IInv, NEW S \in SUBSET Stored, NEW policy \in Policies,
           policy.id \notin Stored, policy.status = "active",
           row' = [Ended(S) EXCEPT ![policy.id] = policy],
           \/ StoreConfirmed /\ policy = req.policy
           \/ \E k \in Stored : policy.tm = row[k].tm /\ policy.root = row[k].root
    PROVE  RowsFollow
<1>1. \A m \in Mandates :
         /\ Ended(S)[m] = Nothing <=> row[m] = Nothing
         /\ Ended(S)[m] = row[m] \/ (m \in Stored /\ Ended(S)[m] = End(row[m]))
  BY EndRows, RowFacts
<1>2. \A m \in Stored : End(row[m]).root = row[m].root /\ End(row[m]).tm = row[m].tm
  BY EndRoot, RowFacts
<1>3. policy.id \in Mandates /\ policy # Nothing
  BY NotPolicies DEF Policies
<1>4. Ended(S) \in [Mandates -> OrNothing(Policies)]
  BY EndRows, RowFacts DEF GoodRows
<1>5. \A m \in Mandates : row'[m] = IF m = policy.id THEN policy ELSE Ended(S)[m]
  BY <1>3, <1>4
<1>6. \A m \in Mandates : m \in Stored' <=> m \in Stored \/ m = policy.id
  BY <1>1, <1>3, <1>5 DEF Stored
<1>7. \A m \in Stored : row'[m].root = row[m].root /\ row'[m].tm = row[m].tm
  BY <1>1, <1>2, <1>5, RowFacts
<1>8. Stored \subseteq Mandates /\ Stored' \subseteq Mandates
  BY DEF Stored
<1>9. row'[policy.id] = policy
  BY <1>3, <1>5
<1> QED
  BY <1>6, <1>7, <1>8, <1>9 DEF RowsFollow

LEMMA RowsFollowStep ==
    ASSUME IInv, LockInv, Next, failures' = 0
    PROVE  RowsFollow
<1> USE NotPolicies, RowFacts
<1>0. ~Fault /\ ~Crash
  BY FailuresKept
<1>1. ASSUME row' = row PROVE RowsFollow
  BY <1>1 DEF RowsFollow, Stored
<1>2. CASE StoreConfirmed
  <2>1. /\ req # Nothing /\ req.policy.id = issued /\ issued \notin Stored
        /\ req.op \in {"confirm", "scenario"}
        /\ row' = Replacing(req.policy)
    BY <1>0, <1>2 DEF StoreConfirmed, At, IInv, ReqInv, Commits, CommitsLate
  <2>2. req.policy.status = "active" /\ req.policy \in Policies
    BY <2>1 DEF LockInv, NewTM
  <2>3. ActiveOn(req.policy.card) \in SUBSET Stored
    BY DEF ActiveOn, Active
  <2> QED
    BY <1>2, <2>1, <2>2, <2>3, PutFollow DEF Replacing
<1>3. CASE MarkRevoked
  <2>1. row' = Ended({m \in Mandates : Active(m) /\ row[m].tm = req.ending})
    BY <1>0, <1>3 DEF MarkRevoked, Commits, CommitsLate
  <2>2. {m \in Mandates : Active(m) /\ row[m].tm = req.ending} \in SUBSET Stored
    BY DEF Active
  <2> QED
    BY <2>1, <2>2, EndedFollow
<1>4. CASE RevokeStore
  <2>1. row' = Ended({req.policy.id}) /\ req.policy.id \in Stored
    BY <1>0, <1>4 DEF RevokeStore, At, IInv, ReqInv, Commits, CommitsLate
  <2> QED
    BY <2>1, EndedFollow
<1>5. CASE TightenStore
  <2> DEFINE id == req.policy.id
             new == [row[id] EXCEPT !.level = "tightened"]
  <2>1. id \in Stored /\ row' = [row EXCEPT ![id] = new]
    BY <1>0, <1>5 DEF TightenStore, At, IInv, ReqInv, Commits, CommitsLate
  <2>2. new.tm = row[id].tm /\ new.root = row[id].root /\ new \in Policies
    BY <2>1 DEF Policies
  <2> HIDE DEF new, id
  <2>3. \A m \in Mandates : row'[m] = IF m = id THEN new ELSE row[m]
    BY <2>1 DEF GoodRows
  <2>4. Stored' = Stored
    BY <2>1, <2>2, <2>3 DEF Stored
  <2> QED
    BY <2>1, <2>2, <2>3, <2>4 DEF RowsFollow, Stored
<1>6. CASE ReregisterStore
  <2> DEFINE id == req.policy.id
             new == [row[id] EXCEPT !.tm = req.policy.tm]
  <2>1. req # Nothing /\ id \in Stored /\ row' = [row EXCEPT ![id] = new]
    BY <1>0, <1>6 DEF ReregisterStore, At, IInv, ReqInv, Commits, CommitsLate
  <2>2. new.tm = req.policy.tm /\ new.root = row[id].root /\ new \in Policies
    BY <2>1 DEF Policies
  <2> HIDE DEF new
  <2>3. \A m \in Mandates : row'[m] = IF m = id THEN new ELSE row[m]
    BY <2>1 DEF GoodRows
  <2>4. Stored' = Stored
    BY <2>1, <2>2, <2>3 DEF Stored
  <2> QED
    BY <1>6, <2>1, <2>2, <2>3, <2>4 DEF RowsFollow, Stored
<1>7. CASE MovePolicy
  <2> DEFINE copy == Moved(run[d3.run].card)
             ends == ActiveOn(copy.card) \cup {d3.policy.id}
  <2>1. /\ copy \in Policies /\ copy.id = issued + 1 /\ copy.id \notin Stored
        /\ d3.policy.id \in Stored
    BY <1>7, MovedType DEF MovePolicy
  <2>2. /\ copy.tm = row[d3.policy.id].tm /\ copy.root = row[d3.policy.id].root
        /\ copy.status = "active"
    BY <2>1 DEF Moved, Policies
  <2>3. ends \in SUBSET Stored
    BY <2>1 DEF ActiveOn, Active
  <2>4. row' = [Ended(ends) EXCEPT ![copy.id] = copy]
    BY <1>0, <1>7 DEF MovePolicy, Moving, Commits, CommitsLate
  <2> HIDE DEF copy, ends
  <2> QED
    BY <2>1, <2>2, <2>3, <2>4, PutFollow
<1>8. CASE Requests
  BY <1>1, <1>8 DEF Requests, ConfirmDraft, TightenPolicy, RevokePolicy, CreateRun,
     ScenarioRun, storeVars
<1>9. CASE WorkerSteps \/ \E p \in Procs : StartProcess(p) \/ Lead(p)
  BY <1>1, <1>9 DEF WorkerSteps, RestoreRead, RestoreBind, BindRun, Decide, Receive,
     FinishRun, StartProcess, Lead, storeVars
<1>10. CASE \/ EndOld \/ DeleteAtPlatform \/ BindNew \/ TightenBind \/ RevokeBind
            \/ RevokeFlip \/ CheckPlatform \/ Reregister \/ ReregisterBind \/ Launch
            \/ TrackRun \/ ScenarioLaunch
  BY <1>1, <1>10 DEF EndOld, DeleteAtPlatform, BindNew, TightenBind, RevokeBind,
     RevokeFlip, CheckPlatform, Reregister, ReregisterBind, Launch, TrackRun,
     ScenarioLaunch, storeVars
<1> QED
  BY <1>0, <1>2, <1>3, <1>4, <1>5, <1>6, <1>7, <1>8, <1>9, <1>10 DEF Next, RequestSteps

(* Two rows of one TM go on being of one policy. *)
LEMMA OneRootStep ==
    ASSUME IInv, LockInv, RowsFollow, OneRoot, FreshTM
    PROVE  OneRoot'
<1> SUFFICES ASSUME NEW m \in Stored', NEW n \in Stored', row'[m].tm = row'[n].tm
             PROVE  row'[m].root = row'[n].root
  BY DEF OneRoot
<1>1. /\ StoreConfirmed => req # Nothing /\ req.op \in {"confirm", "scenario"}
      /\ ReregisterStore => req # Nothing /\ req.op = "reregister" /\ At("store")
  BY DEF StoreConfirmed, ReregisterStore, At
<1>2. \A k \in Stored : StoreConfirmed /\ row[k].tm = req.policy.tm => k = req.policy.id
  BY <1>1 DEF LockInv, NewTM
<1>3. \A k \in Stored : ReregisterStore => row[k].tm # req.policy.tm
  BY <1>1 DEF FreshTM
<1>4. \A j, k \in Stored : row[j].tm = row[k].tm => row[j].root = row[k].root
  BY DEF OneRoot
<1>5. \A k \in Stored :
         /\ row'[k].root = row[k].root
         /\ \/ row'[k].tm = row[k].tm
            \/ ReregisterStore /\ k = req.policy.id /\ row'[k].tm = req.policy.tm
  BY DEF RowsFollow
<1>6. \A k \in Stored' : k \notin Stored =>
         \/ StoreConfirmed /\ k = req.policy.id /\ row'[k].tm = req.policy.tm
         \/ \E j \in Stored : row'[k].tm = row[j].tm /\ row'[k].root = row[j].root
  BY DEF RowsFollow
<1>7. CASE m \in Stored /\ n \in Stored
  BY <1>3, <1>4, <1>5, <1>7
<1>8. CASE m \notin Stored /\ n \in Stored
  BY <1>1, <1>2, <1>3, <1>4, <1>5, <1>6, <1>8
<1>9. CASE m \in Stored /\ n \notin Stored
  BY <1>1, <1>2, <1>3, <1>4, <1>5, <1>6, <1>9
<1>10. CASE m \notin Stored /\ n \notin Stored
  BY <1>2, <1>4, <1>6, <1>10
<1> QED
  BY <1>7, <1>8, <1>9, <1>10

(* Of policy_lock: a step leaves it to its request, or a request takes it, *)
(* or one that makes no earlier policy end goes on or frees it. *)
LockLeft == req' = req /\ (req = Nothing \/ row' = row)
LockTaken ==
    /\ req = Nothing /\ row' = row
    /\ \/ Reregister
       \/ /\ req'.op \in {"confirm", "tighten", "revoke", "scenario"}
          /\ req'.at \in {"store", "flip", "launch"}
LockPassed ==
    /\ req # Nothing
    /\ \/ req' = Nothing /\ req.op \in {"tighten", "reregister"}
       \/ /\ req'.op = req.op /\ req.op \in {"scenario", "tighten", "reregister"}
          /\ req.at \in {"store", "launch"}
          /\ req'.at = "bind" \/ (req'.at = "store" /\ req.op = "scenario")

LEMMA LockFlow ==
    ASSUME IInv, Next, failures' = 0
    PROVE  \/ LockLeft \/ LockTaken \/ LockPassed
           \/ StoreConfirmed \/ EndOld \/ MarkRevoked \/ DeleteAtPlatform \/ BindNew
           \/ RevokeStore \/ RevokeBind \/ RevokeFlip \/ MovePolicy
<1> USE DEF LockLeft, LockTaken, LockPassed
<1>0. ~Fault /\ ~Crash
  BY FailuresKept
<1>13. req # Nothing => req \in LockHolders
  BY RowFacts
<1>1. ASSUME NEW c \in Cards, ConfirmDraft(c) PROVE LockTaken
  BY <1>0, <1>1 DEF ConfirmDraft, Request, Serving
<1>2. ASSUME NEW c \in Cards, TightenPolicy(c) PROVE LockTaken
  BY <1>2 DEF TightenPolicy, Request, Serving, storeVars
<1>3. ASSUME NEW c \in Cards, RevokePolicy(c) PROVE LockTaken
  BY <1>3 DEF RevokePolicy, Request, Serving, storeVars
<1>4. ASSUME NEW c \in Cards, NEW r \in Runs, ScenarioRun(c, r) PROVE LockTaken
  BY <1>0, <1>4 DEF ScenarioRun, Request, Serving
<1>5. CASE Reregister
  BY <1>0, <1>5 DEF Reregister, Serving, storeVars
<1>6. CASE ScenarioLaunch
  <2>1. req \in LockHolders /\ req # Nothing /\ req.at = "launch" /\ req.op = "scenario"
    BY <1>13, <1>6 DEF ScenarioLaunch, At, IInv, ReqInv, OpsAt
  <2>2. req' = [req EXCEPT !.at = "store"]
    BY <1>0, <1>6 DEF ScenarioLaunch, Goes
  <2>3. req'.op = req.op /\ req'.at = "store"
    BY <2>1, <2>2 DEF LockHolders
  <2> QED
    BY <2>1, <2>3
<1>7. CASE TightenStore
  <2>1. req \in LockHolders /\ req # Nothing /\ req.at = "store" /\ req.op = "tighten"
    BY <1>13, <1>7 DEF TightenStore, At
  <2>2. req' = [req EXCEPT !.at = "bind", !.policy = row'[req.policy.id]]
    BY <1>0, <1>7 DEF TightenStore, CommitsLate
  <2>3. req'.op = req.op /\ req'.at = "bind"
    BY <2>1, <2>2 DEF LockHolders
  <2> QED
    BY <2>1, <2>3
<1>8. CASE ReregisterStore
  <2>1. req \in LockHolders /\ req # Nothing /\ req.at = "store" /\ req.op = "reregister"
    BY <1>13, <1>8 DEF ReregisterStore, At
  <2>2. req' = [req EXCEPT !.at = "bind"]
    BY <1>0, <1>8 DEF ReregisterStore, CommitsLate, Goes
  <2>3. req'.op = req.op /\ req'.at = "bind"
    BY <2>1, <2>2 DEF LockHolders
  <2> QED
    BY <2>1, <2>3
<1>9. CASE TightenBind \/ ReregisterBind
  BY <1>9 DEF TightenBind, ReregisterBind, At, Releases
<1>10. ASSUME NEW c \in Cards, NEW r \in Runs, CreateRun(c, r) PROVE LockLeft
  BY <1>10 DEF CreateRun, storeVars
<1>11. ASSUME CheckPlatform \/ Launch \/ TrackRun PROVE LockLeft
  BY <1>11 DEF CheckPlatform, Launch, TrackRun, storeVars
<1>12. ASSUME \/ RestoreRead \/ RestoreBind \/ BindRun \/ Decide
              \/ \E r \in Runs : Receive(r) \/ FinishRun(r)
              \/ \E p \in Procs : StartProcess(p) \/ Lead(p)
       PROVE  LockLeft
  BY <1>12 DEF RestoreRead, RestoreBind, BindRun, Decide, Receive, FinishRun, StartProcess,
     Lead, storeVars
<1> QED
  BY <1>0, <1>1, <1>2, <1>3, <1>4, <1>5, <1>6, <1>7, <1>8, <1>9, <1>10, <1>11, <1>12
     DEF Next, Requests, RequestSteps, WorkerSteps

(* A TM just registered is no row's. *)
LEMMA FreshTMStep ==
    ASSUME IInv, PlatInv, FreshTM, Next, failures' = 0
    PROVE  FreshTM'
<1> SUFFICES ASSUME req' # Nothing, req'.at = "store", req'.op = "reregister"
             PROVE  \A n \in Stored' : row'[n].tm # req'.policy.tm
  BY DEF FreshTM, At
<1>0. ~Fault
  BY FailuresKept
<1>1. CASE LockLeft
  BY <1>1 DEF LockLeft, FreshTM, At, Stored
<1>2. CASE Reregister
  <2>1. req = Nothing /\ row' = row
    BY <1>2 DEF Reregister, Serving, storeVars
  <2>2. PICK m \in Latest(d3.policy.card), t \in TMs :
           req' = Request("reregister", "store", [row[m] EXCEPT !.tm = t], {}) /\ plat[t] = "none"
    BY <1>2, <2>1 DEF Reregister, Registers
  <2>3. row[m] \in Policies
    BY LatestIsStored DEF IInv
  <2>4. req'.policy.tm = t
    BY <2>1, <2>2, <2>3 DEF Request, Policies
  <2> QED
    BY <2>1, <2>2, <2>4 DEF PlatInv, Stored
<1>3. ASSUME \/ StoreConfirmed \/ EndOld \/ MarkRevoked \/ DeleteAtPlatform \/ BindNew
             \/ RevokeStore \/ RevokeBind \/ RevokeFlip
      PROVE  FALSE
  <2>1. req \in LockHolders /\ req # Nothing /\ req.op # "reregister"
    BY <1>3, RowFacts DEF StoreConfirmed, EndOld, MarkRevoked, DeleteAtPlatform, BindNew,
       RevokeStore, RevokeBind, RevokeFlip, At, IInv, ReqInv, OpsAt
  <2>2. req'.op = req.op
    BY <1>0, <1>3, <2>1 DEF StoreConfirmed, EndOld, MarkRevoked, DeleteAtPlatform, BindNew,
       RevokeStore, RevokeBind, RevokeFlip, LockHolders, Goes, Releases, CommitsLate
  <2> QED
    BY <2>1, <2>2
<1>4. CASE MovePolicy
  <2>1. req' = req \/ req'.op = "move"
    BY <1>4 DEF MovePolicy, Request
  <2> QED
    BY <1>4, <2>1 DEF MovePolicy, Serving
<1>5. CASE LockTaken \/ LockPassed
  BY <1>2, <1>5 DEF LockTaken, LockPassed
<1> QED
  BY <1>1, <1>2, <1>3, <1>4, <1>5, LockFlow

(* The steps that keep the request. *)
LEMMA StillHeld ==
    ASSUME IInv, ~Fault, req # Nothing
    PROVE  StoreConfirmed \/ MarkRevoked \/ RevokeStore \/ RevokeBind \/ RevokeFlip \/ EndOld
              => req' # Nothing
<1> USE NotPolicies
<1>1. req \in LockHolders
  BY RowFacts
<1>2. ASSUME StoreConfirmed PROVE req' # Nothing
  <2> DEFINE olds == ActiveOn(req.policy.card)
             told == IF req.op = "confirm" THEN olds ELSE {}
  <2>1. olds \in SUBSET Mandates /\ told \in SUBSET Mandates
    BY DEF ActiveOn
  <2>2. req' = [req EXCEPT !.at = "end", !.olds = olds, !.told = told]
    BY <1>2 DEF StoreConfirmed, CommitsLate
  <2> HIDE DEF olds, told
  <2>3. req' \in LockHolders
    BY <1>1, <2>1, <2>2 DEF LockHolders
  <2> QED
    BY <2>3
<1>3. ASSUME MarkRevoked \/ RevokeBind \/ RevokeFlip PROVE req' # Nothing
  <2>1. \E a \in {"delete", "flip", "mark"} : req' = [req EXCEPT !.at = a]
    BY <1>3 DEF MarkRevoked, RevokeBind, RevokeFlip, Goes, CommitsLate
  <2> QED
    BY <1>1, <2>1 DEF LockHolders
<1>4. ASSUME RevokeStore PROVE req' # Nothing
  <2> DEFINE policy == End(req.policy)
  <2>1. req' = [req EXCEPT !.at = "bind", !.policy = policy]
    BY <1>4 DEF RevokeStore, CommitsLate
  <2>2. policy \in Policies
    BY <1>1, EndType DEF LockHolders
  <2> HIDE DEF policy
  <2>3. req' \in LockHolders
    BY <1>1, <2>1, <2>2 DEF LockHolders
  <2> QED
    BY <2>3
<1>5. ASSUME EndOld PROVE req' # Nothing
  <2>1. PICK m \in req.olds :
          \/ req' = [req EXCEPT !.olds = @ \ {m}]
          \/ req' = [req EXCEPT !.at = "mark", !.olds = @ \ {m}, !.ending = row[m].tm]
    BY <1>5 DEF EndOld
  <2> DEFINE rest == req.olds \ {m}
             tm == row[m].tm
  <2>2. rest \in SUBSET Mandates /\ tm \in TMs
    BY <1>1, RowFacts DEF LockHolders, IInv, ReqInv, Policies, Stored
  <2>3. \/ req' = [req EXCEPT !.olds = rest]
        \/ req' = [req EXCEPT !.at = "mark", !.olds = rest, !.ending = tm]
    BY <2>1
  <2> HIDE DEF rest, tm
  <2>4. CASE req' = [req EXCEPT !.olds = rest]
    BY <1>1, <2>2, <2>4 DEF LockHolders
  <2>5. CASE req' = [req EXCEPT !.at = "mark", !.olds = rest, !.ending = tm]
    <3>1. req' \in LockHolders
      BY <1>1, <2>2, <2>5 DEF LockHolders
    <3> QED
      BY <3>1
  <2> QED
    BY <2>3, <2>4, <2>5
<1> QED
  BY <1>2, <1>3, <1>4, <1>5

(* What the steps that end earlier policies leave in the request. *)
LEMMA HolderMoves ==
    ASSUME IInv, Next, failures' = 0
    PROVE  /\ StoreConfirmed =>
                /\ req.op \in {"confirm", "scenario"} /\ req.at = "store" /\ gone' = gone
                /\ req' # Nothing
                /\ req'.op = req.op /\ req'.at = "end" /\ req'.policy = req.policy
                /\ req'.olds = ActiveOn(req.policy.card) /\ row' = Replacing(req.policy)
           /\ MarkRevoked =>
                /\ req.at = "mark" /\ gone' = gone /\ req' # Nothing
                /\ req'.op = req.op /\ req'.at = "delete" /\ req'.policy = req.policy
                /\ req'.olds = req.olds
                /\ row' = Ended({m \in Mandates : Active(m) /\ row[m].tm = req.ending})
           /\ DeleteAtPlatform =>
                /\ req.at = "delete" /\ row' = row /\ gone' = gone
                /\ \/ req' = Nothing /\ req.op \in {"revoke", "undo"}
                   \/ /\ req' # Nothing /\ req'.op = req.op /\ req'.at = "end" /\ req'.policy = req.policy
                      /\ req'.olds = req.olds
           /\ BindNew =>
                req' = Nothing /\ req.at = "end" /\ req.olds = {} /\ row' = row
           /\ RevokeStore =>
                /\ req.op = "revoke" /\ req.at = "store" /\ gone' = gone
                /\ req' # Nothing /\ req'.op = "revoke" /\ req'.at = "bind" /\ req'.policy = End(req.policy)
                /\ row' = Ended({req.policy.id})
           /\ RevokeBind =>
                /\ req.op = "revoke" /\ req.at = "bind" /\ row' = row /\ gone' = gone
                /\ req' # Nothing /\ req'.op = "revoke" /\ req'.at = "flip" /\ req'.policy = req.policy
           /\ RevokeFlip =>
                /\ req.op = "revoke" /\ req.at = "flip" /\ row' = row
                /\ gone' = gone \cup {req.ending}
                /\ req' # Nothing /\ req'.op = "revoke" /\ req'.at = "mark" /\ req'.ending = req.ending
<1>0. ~Fault /\ (req # Nothing => req \in LockHolders)
  BY FailuresKept, RowFacts
<1>1. ASSUME StoreConfirmed
      PROVE  /\ req.op \in {"confirm", "scenario"} /\ req.at = "store" /\ gone' = gone
             /\ req'.op = req.op /\ req'.at = "end" /\ req'.policy = req.policy
             /\ req'.olds = ActiveOn(req.policy.card) /\ row' = Replacing(req.policy)
  BY <1>0, <1>1 DEF StoreConfirmed, At, Commits, CommitsLate, memVars, LockHolders
<1>2. ASSUME MarkRevoked
      PROVE  /\ req.at = "mark" /\ gone' = gone
             /\ req'.op = req.op /\ req'.at = "delete" /\ req'.policy = req.policy
             /\ req'.olds = req.olds
             /\ row' = Ended({m \in Mandates : Active(m) /\ row[m].tm = req.ending})
  BY <1>0, <1>2 DEF MarkRevoked, At, Goes, Commits, CommitsLate, memVars, LockHolders
<1>3. ASSUME DeleteAtPlatform
      PROVE  /\ req.at = "delete" /\ row' = row /\ gone' = gone
             /\ \/ req' = Nothing /\ req.op \in {"revoke", "undo"}
                \/ /\ req'.op = req.op /\ req'.at = "end" /\ req'.policy = req.policy
                   /\ req'.olds = req.olds
  BY <1>0, <1>3 DEF DeleteAtPlatform, At, Goes, Releases, memVars, storeVars, LockHolders
<1>4. ASSUME BindNew PROVE req' = Nothing /\ req.at = "end" /\ req.olds = {} /\ row' = row
  BY <1>4 DEF BindNew, At, Releases, storeVars
<1>5. ASSUME RevokeStore
      PROVE  /\ req.op = "revoke" /\ req.at = "store" /\ gone' = gone
             /\ req'.op = "revoke" /\ req'.at = "bind" /\ req'.policy = End(req.policy)
             /\ row' = Ended({req.policy.id})
  BY <1>0, <1>5 DEF RevokeStore, At, Commits, CommitsLate, memVars, LockHolders
<1>6. ASSUME RevokeBind
      PROVE  /\ req.op = "revoke" /\ req.at = "bind" /\ row' = row /\ gone' = gone
             /\ req'.op = "revoke" /\ req'.at = "flip" /\ req'.policy = req.policy
  BY <1>0, <1>6 DEF RevokeBind, At, Goes, storeVars, LockHolders
<1>7. ASSUME RevokeFlip
      PROVE  /\ req.op = "revoke" /\ req.at = "flip" /\ row' = row
             /\ gone' = gone \cup {req.ending}
             /\ req'.op = "revoke" /\ req'.at = "mark" /\ req'.ending = req.ending
  <2>1. req \in LockHolders /\ req # Nothing /\ req.at = "flip" /\ req.op = "revoke"
    BY <1>0, <1>7 DEF RevokeFlip, At, IInv, ReqInv, OpsAt
  <2>2. req' = [req EXCEPT !.at = "mark"] /\ gone' = gone \cup {req.ending} /\ row' = row
    BY <1>7 DEF RevokeFlip, LocalRevoke, Goes, storeVars
  <2> QED
    BY <2>1, <2>2 DEF LockHolders
<1>8. ASSUME DeleteAtPlatform, req' # Nothing \/ req.op \notin {"revoke", "undo"}
      PROVE  req' # Nothing
  <2>1. req \in LockHolders /\ (req' = Nothing \/ req' = [req EXCEPT !.at = "end"])
    BY <1>0, <1>8 DEF DeleteAtPlatform, At, Goes, Releases
  <2>2. req.op \notin {"revoke", "undo"} => req' = [req EXCEPT !.at = "end"]
    BY <1>8 DEF DeleteAtPlatform, Goes
  <2>3. [req EXCEPT !.at = "end"] \in LockHolders
    BY <2>1 DEF LockHolders
  <2> QED
    BY <1>8, <2>2, <2>3, NotPolicies
<1>9. StoreConfirmed \/ MarkRevoked \/ RevokeStore \/ RevokeBind \/ RevokeFlip => req' # Nothing
  <2>1. StoreConfirmed \/ MarkRevoked \/ RevokeStore \/ RevokeBind \/ RevokeFlip => req # Nothing
    BY DEF StoreConfirmed, MarkRevoked, RevokeStore, RevokeBind, RevokeFlip, At
  <2> QED
    BY <1>0, <2>1, StillHeld
<1>10. ASSUME DeleteAtPlatform
       PROVE  \/ req' = Nothing /\ req.op \in {"revoke", "undo"}
              \/ req' # Nothing
  BY <1>8, <1>10
<1> QED
  BY <1>1, <1>2, <1>3, <1>4, <1>5, <1>6, <1>7, <1>9, <1>10

(* An earlier policy is bound as a copy's, or revoked in the process. *)
LEMMA OldMoves ==
    ASSUME IInv, EndOld
    PROVE  \E m \in req.olds :
              /\ Making /\ req.at = "end" /\ row' = row /\ req' # Nothing
              /\ req'.op = req.op /\ req'.policy = req.policy /\ req'.olds = req.olds \ {m}
              /\ \/ /\ req.op = "move" /\ row[m].tm = req.policy.tm
                    /\ gone' = gone /\ req'.at = "end"
                 \/ /\ gone' = gone \cup {row[m].tm} /\ req'.at = "mark"
                    /\ req'.ending = row[m].tm
<1>1. req \in LockHolders /\ req # Nothing /\ req.at = "end" /\ row' = row /\ Making
  BY RowFacts DEF EndOld, At, IInv, ReqInv, OpsAt, storeVars, Making
<1>2. PICK m \in req.olds :
         \/ /\ req.op = "move" /\ row[m].tm = req.policy.tm /\ gone' = gone
            /\ req' = [req EXCEPT !.olds = @ \ {m}]
         \/ /\ gone' = gone \cup {row[m].tm}
            /\ req' = [req EXCEPT !.at = "mark", !.olds = @ \ {m}, !.ending = row[m].tm]
  BY DEF EndOld
<1>3. /\ req'.op = req.op /\ req'.policy = req.policy /\ req'.olds = req.olds \ {m}
      /\ \/ /\ req.op = "move" /\ row[m].tm = req.policy.tm
            /\ gone' = gone /\ req'.at = "end"
         \/ /\ gone' = gone \cup {row[m].tm} /\ req'.at = "mark"
            /\ req'.ending = row[m].tm
  BY <1>1, <1>2 DEF LockHolders
<1>4. req' # Nothing
  <2>1. failures' = failures /\ failures \in Nat
    BY DEF EndOld, IInv, TypeOK
  <2>2. ~Fault
    BY <2>1 DEF Fault
  <2> QED
    BY <1>1, <2>2, StillHeld
<1> QED
  BY <1>1, <1>3, <1>4

(* The copy D3 makes is the newest row. *)
LEMMA CopyMoves ==
    ASSUME IInv, MovePolicy, ~Fault
    PROVE  \E copy \in Policies :
              /\ copy.id = issued + 1 /\ copy.id \notin Stored /\ d3.policy.id \in Stored
              /\ copy.root = row[d3.policy.id].root /\ gone' = gone
              /\ req = Nothing /\ req' # Nothing
              /\ req'.op = "move" /\ req'.at = "end" /\ req'.policy = copy
              /\ req'.olds = ActiveOn(copy.card)
              /\ row' = [Ended(ActiveOn(copy.card) \cup {d3.policy.id}) EXCEPT ![copy.id] = copy]
<1> DEFINE copy == Moved(run[d3.run].card)
<1>1. /\ copy \in Policies /\ copy.id = issued + 1 /\ copy.id \notin Stored
      /\ d3.policy.id \in Stored
  BY MovedType DEF MovePolicy
<1>2. copy.root = row[d3.policy.id].root
  BY <1>1 DEF Moved, Policies
<1>3. /\ req = Nothing /\ gone' = gone
      /\ row' = [Ended(ActiveOn(copy.card) \cup {d3.policy.id}) EXCEPT ![copy.id] = copy]
      /\ req' = [Request("move", "end", copy, {}) EXCEPT !.olds = ActiveOn(copy.card)]
  BY DEF MovePolicy, Moving, Commits, CommitsLate, Serving, memVars
<1> HIDE DEF copy
<1>4. /\ Request("move", "end", copy, {}) \in LockHolders
      /\ Request("move", "end", copy, {}).op = "move"
      /\ Request("move", "end", copy, {}).at = "end"
      /\ Request("move", "end", copy, {}).policy = copy
  BY <1>1, RequestType
<1>5. ActiveOn(copy.card) \in SUBSET Mandates
  BY DEF ActiveOn
<1>6. /\ req'.op = "move" /\ req'.at = "end" /\ req'.policy = copy
      /\ req'.olds = ActiveOn(copy.card) /\ req' \in LockHolders
  BY <1>3, <1>4, <1>5 DEF LockHolders
<1> QED
  BY <1>1, <1>2, <1>3, <1>6, NotPolicies

(* The rows are changed by the steps at the store only. *)
LEMMA RowsAlone ==
    ASSUME Next, row' # row
    PROVE  \/ StoreConfirmed \/ MarkRevoked \/ TightenStore \/ RevokeStore
           \/ ReregisterStore \/ MovePolicy
<1>1. CASE Requests
  BY <1>1 DEF Requests, ConfirmDraft, TightenPolicy, RevokePolicy, CreateRun,
     ScenarioRun, storeVars
<1>2. CASE WorkerSteps \/ Crash \/ \E p \in Procs : StartProcess(p) \/ Lead(p)
  BY <1>2 DEF WorkerSteps, RestoreRead, RestoreBind, BindRun, Decide, Receive,
     FinishRun, Crash, StartProcess, Lead, storeVars
<1>3. CASE \/ EndOld \/ DeleteAtPlatform \/ BindNew \/ TightenBind \/ RevokeBind
           \/ RevokeFlip \/ CheckPlatform \/ Reregister \/ ReregisterBind \/ Launch
           \/ TrackRun \/ ScenarioLaunch
  BY <1>3 DEF EndOld, DeleteAtPlatform, BindNew, TightenBind, RevokeBind,
     RevokeFlip, CheckPlatform, Reregister, ReregisterBind, Launch, TrackRun,
     ScenarioLaunch, storeVars
<1> QED
  BY <1>1, <1>2, <1>3 DEF Next, RequestSteps

(* What is marked was revoked in the process before. *)
LEMMA MarkInvStep ==
    ASSUME IInv, MarkInv, Next, failures' = 0
    PROVE  MarkInv'
<1> USE DEF MarkInv, At
<1>0. gone \subseteq gone' /\ ~Fault
  BY FailuresKept, GoneGrows
<1>1. CASE LockLeft
  BY <1>0, <1>1 DEF LockLeft
<1>2. CASE LockTaken
  <2>1. CASE Reregister
    <3>1. req' = Nothing \/ req'.at = "store"
      BY <1>2, <2>1 DEF Reregister, Request, LockTaken
    <3> QED
      BY <3>1
  <2> QED
    BY <1>2, <2>1 DEF LockTaken
<1>3. CASE LockPassed
  BY <1>3 DEF LockPassed
<1>4. CASE EndOld
  BY <1>4, OldMoves
<1>5. CASE MovePolicy
  BY <1>0, <1>5, CopyMoves
<1>6. CASE StoreConfirmed \/ MarkRevoked \/ DeleteAtPlatform \/ BindNew \/ RevokeStore \/ RevokeBind
  BY <1>6, HolderMoves
<1>7. CASE RevokeFlip
  BY <1>7, HolderMoves
<1> QED
  BY <1>1, <1>2, <1>3, <1>4, <1>5, <1>6, <1>7, LockFlow

(* A copy stays of its policy. *)
LEMMA MoveInvStep ==
    ASSUME IInv, LockInv, MoveInv, RowsFollow, Next, failures' = 0
    PROVE  MoveInv'
<1> SUFFICES ASSUME req' # Nothing, req'.op = "move"
             PROVE  /\ row'[req'.policy.id].root = req'.policy.root
                    /\ \A m \in req'.olds : m < req'.policy.id
  BY DEF MoveInv
<1>0. ~Fault
  BY FailuresKept
<1>1. ASSUME req # Nothing, req.op = "move", req'.policy = req.policy,
             req'.olds \subseteq req.olds
      PROVE  /\ row'[req'.policy.id].root = req'.policy.root
             /\ \A m \in req'.olds : m < req'.policy.id
  <2>1. Making
    BY <1>1, RowFacts DEF Making, IInv, ReqInv, OpsAt, LockHolders
  <2>2. req.policy.id \in Stored
    BY <1>1, <2>1 DEF LockInv, MadeActive, Active
  <2> QED
    BY <1>1, <2>2 DEF MoveInv, RowsFollow
<1>2. CASE LockLeft
  BY <1>1, <1>2 DEF LockLeft
<1>3. CASE LockTaken
  <2>1. CASE Reregister
    <3>1. req' = Nothing \/ req'.op = "reregister"
      BY <1>3, <2>1 DEF Reregister, Request, LockTaken
    <3> QED
      BY <3>1
  <2> QED
    BY <1>3, <2>1 DEF LockTaken
<1>4. CASE LockPassed
  BY <1>4 DEF LockPassed
<1>5. CASE EndOld
  BY <1>1, <1>5, OldMoves DEF EndOld, At
<1>6. CASE MovePolicy
  <2>1. PICK copy \in Policies :
           /\ copy.id = issued + 1 /\ req'.policy = copy /\ req'.olds = ActiveOn(copy.card)
           /\ row' = [Ended(ActiveOn(copy.card) \cup {d3.policy.id}) EXCEPT ![copy.id] = copy]
    BY <1>0, <1>6, CopyMoves
  <2>2. row'[copy.id] = copy
    BY <2>1 DEF Policies, Ended
  <2>3. \A m \in ActiveOn(copy.card) : m <= issued /\ m \in Nat /\ issued \in Nat
    BY PolicyAssumption DEF ActiveOn, Active, IInv, RowInv, TypeOK, Mandates
  <2> QED
    BY <2>1, <2>2, <2>3
<1>7. CASE MarkRevoked \/ DeleteAtPlatform
  BY <1>1, <1>7, HolderMoves DEF MarkRevoked, DeleteAtPlatform, At
<1>8. CASE StoreConfirmed \/ BindNew \/ RevokeStore \/ RevokeBind \/ RevokeFlip
  BY <1>8, HolderMoves
<1> QED
  BY <1>2, <1>3, <1>4, <1>5, <1>6, <1>7, <1>8, LockFlow

(* A row that was about to be revoked here still is, or was. *)
LEMMA EndingStep ==
    ASSUME IInv, LockInv, OneRoot, MoveInv, Next, failures' = 0,
           NEW m \in Stored, Ending(m)
    PROVE  row[m].tm \in gone' \/ HasCopy(m) \/ Ending(m)'
<1>0. ~Fault /\ req # Nothing
  BY FailuresKept DEF Ending
<1>1. CASE LockLeft
  BY <1>1 DEF LockLeft, Ending, Making
<1>2. CASE LockTaken \/ LockPassed
  BY <1>0, <1>2 DEF LockTaken, LockPassed, Ending, Making
<1>3. CASE EndOld
  <2>1. PICK n \in req.olds :
           /\ Making /\ req.at = "end" /\ req' # Nothing
           /\ req'.op = req.op /\ req'.policy = req.policy /\ req'.olds = req.olds \ {n}
           /\ \/ /\ req.op = "move" /\ row[n].tm = req.policy.tm
                 /\ gone' = gone /\ req'.at = "end"
              \/ /\ gone' = gone \cup {row[n].tm} /\ req'.at = "mark"
                 /\ req'.ending = row[n].tm
    BY <1>3, OldMoves
  <2>2. m \in req.olds
    BY <2>1 DEF Ending
  <2>3. CASE m # n
    BY <2>1, <2>2, <2>3 DEF Ending, Making
  <2>4. CASE m = n /\ req.op = "move" /\ row[n].tm = req.policy.tm
    <3>1. req.policy.id \in Stored /\ row[req.policy.id].tm = req.policy.tm
      BY <1>0, <2>1 DEF LockInv, MadeActive, Active
    <3>2. row[req.policy.id].root = row[m].root /\ req.policy.id > m
      BY <1>0, <2>2, <2>4, <3>1 DEF OneRoot, MoveInv
    <3> QED
      BY <3>1, <3>2 DEF HasCopy, CopiesOf
  <2>5. CASE m = n /\ row[n].tm \in gone'
    BY <2>5
  <2> QED
    BY <2>1, <2>3, <2>4, <2>5
<1>4. CASE MovePolicy
  BY <1>0, <1>4 DEF MovePolicy, Serving
<1>5. CASE StoreConfirmed \/ RevokeStore \/ BindNew
  BY <1>5, HolderMoves DEF Ending, Making
<1>6. CASE MarkRevoked \/ DeleteAtPlatform \/ RevokeBind
  BY <1>6, HolderMoves DEF Ending, Making
<1>7. CASE RevokeFlip
  <2>1. m = req.policy.id /\ gone' = gone \cup {req.ending} /\ req.op = "revoke"
    BY <1>7, HolderMoves DEF Ending, Making
  <2>2. row[m].tm = req.ending
    BY <1>0, <2>1 DEF LockInv, ToldRevoked
  <2> QED
    BY <2>1, <2>2
<1> QED
  BY <1>1, <1>2, <1>3, <1>4, <1>5, <1>6, <1>7, LockFlow

(* A row that ends is about to be revoked here, or was, or was copied.     *)
LEMMA NewlyEnded ==
    ASSUME IInv, LockInv, MarkInv, RowsFollow, Next, failures' = 0,
           NEW m \in Stored, row[m].status = "active", row'[m].status = "ended"
    PROVE  row'[m].tm \in gone' \/ HasCopy(m)' \/ Ending(m)'
<1> USE RowFacts
<1>0. ~Fault
  BY FailuresKept
<1>1. ASSUME NEW S \in SUBSET Stored, m \notin S, Ended(S)[m] = row'[m] PROVE FALSE
  BY <1>1, EndRows
<1>2. row' # row
  OBVIOUS
<1>8. \A n \in Stored : n \in Stored' /\ row'[n].root = row[n].root
  BY DEF RowsFollow
<1>3. CASE StoreConfirmed
  <2>1. /\ req.op \in {"confirm", "scenario"}
        /\ req'.op = req.op /\ req'.at = "end" /\ req'.olds = ActiveOn(req.policy.card)
        /\ row' = Replacing(req.policy) /\ req # Nothing /\ req' # Nothing
    BY <1>3, HolderMoves DEF StoreConfirmed, At
  <2>2. req.policy.id # m
    BY <1>3, <2>1, HolderMoves DEF IInv, ReqInv
  <2>3. Ended(ActiveOn(req.policy.card))[m] = row'[m]
    BY <2>1, <2>2 DEF Replacing, Ended
  <2>4. m \in ActiveOn(req.policy.card)
    BY <1>1, <2>3 DEF ActiveOn, Active
  <2> QED
    BY <2>1, <2>4 DEF Ending, Making
<1>4. CASE MarkRevoked
  <2> DEFINE S == {n \in Mandates : Active(n) /\ row[n].tm = req.ending}
  <2>1. row' = Ended(S) /\ gone' = gone /\ req.ending \in gone
    BY <1>4, HolderMoves DEF MarkInv, MarkRevoked, At
  <2>2. m \in S
    BY <1>1, <2>1 DEF Active
  <2>3. row'[m].tm = row[m].tm
    BY <1>4, HolderMoves DEF RowsFollow, MarkRevoked, ReregisterStore, At
  <2> QED
    BY <2>1, <2>2, <2>3
<1>5. CASE RevokeStore
  <2>1. /\ row' = Ended({req.policy.id}) /\ req'.op = "revoke" /\ req'.at = "bind"
        /\ req'.policy = End(req.policy) /\ req # Nothing /\ req' # Nothing
    BY <1>5, HolderMoves DEF RevokeStore, At
  <2>2. req.policy.id \in Stored
    BY <1>5, <2>1, HolderMoves DEF IInv, ReqInv
  <2>3. m = req.policy.id
    BY <1>1, <2>1, <2>2
  <2>4. req'.policy.id = m
    BY <2>1, <2>3, EndRoot
  <2> QED
    BY <2>1, <2>4 DEF Ending
<1>6. CASE MovePolicy
  <2>1. PICK copy \in Policies :
           /\ copy.id = issued + 1 /\ copy.id \notin Stored /\ d3.policy.id \in Stored
           /\ copy.root = row[d3.policy.id].root
           /\ req' # Nothing
           /\ req'.op = "move" /\ req'.at = "end" /\ req'.policy = copy
           /\ req'.olds = ActiveOn(copy.card)
           /\ row' = [Ended(ActiveOn(copy.card) \cup {d3.policy.id}) EXCEPT ![copy.id] = copy]
    BY <1>0, <1>6, CopyMoves
  <2>2. Ended(ActiveOn(copy.card) \cup {d3.policy.id})[m] = row'[m]
    BY <2>1 DEF Ended
  <2>3. m \in ActiveOn(copy.card) \/ m = d3.policy.id
    BY <1>1, <2>1, <2>2 DEF ActiveOn, Active
  <2>4. CASE m \in ActiveOn(copy.card)
    BY <2>1, <2>4 DEF Ending, Making
  <2>5. CASE m = d3.policy.id
    <3>1. copy.id \in Mandates /\ row'[copy.id] = copy /\ copy # Nothing
      BY <2>1, NotPolicies DEF Policies, Ended
    <3>2. copy.id > m
      BY <2>1, PolicyAssumption DEF IInv, RowInv, TypeOK, Mandates, Stored
    <3>3. row'[m].root = copy.root
      BY <1>8, <2>1, <2>5
    <3> QED
      BY <3>1, <3>2, <3>3 DEF HasCopy, CopiesOf, Stored
  <2> QED
    BY <2>3, <2>4, <2>5
<1>7. CASE TightenStore \/ ReregisterStore
  <2>1. req # Nothing /\ req.policy.id \in Stored
    BY <1>7 DEF TightenStore, ReregisterStore, At, IInv, ReqInv
  <2>2. row' = [row EXCEPT ![req.policy.id].level = "tightened"]
        \/ row' = [row EXCEPT ![req.policy.id].tm = req.policy.tm]
    BY <1>0, <1>7 DEF TightenStore, ReregisterStore, Commits, CommitsLate
  <2>3. row'[m].status = row[m].status
    BY <2>1, <2>2 DEF Policies, GoodRows
  <2> QED
    BY <2>3
<1> QED
  BY <1>0, <1>2, <1>3, <1>4, <1>5, <1>6, <1>7, RowsAlone

(* So an ended row is in each state one of the three. *)
LEMMA EndedInvStep ==
    ASSUME IInv, LockInv, OneRoot, EndedInv, MoveInv, MarkInv, RowsFollow, Next, failures' = 0
    PROVE  EndedInv'
<1> SUFFICES ASSUME NEW m \in Stored', row'[m].status = "ended"
             PROVE  row'[m].tm \in gone' \/ HasCopy(m)' \/ Ending(m)'
  BY DEF EndedInv
<1>0. gone \subseteq gone'
  BY FailuresKept, GoneGrows
<1>1. m \in Stored
  BY DEF RowsFollow
<1>2. CASE row[m].status = "active"
  BY <1>1, <1>2, NewlyEnded
<1>3. CASE row[m].status = "ended"
  <2>1. row'[m].tm = row[m].tm /\ row'[m].root = row[m].root
    BY <1>1, <1>3, RowTMs DEF TMsKept, RowsFollow
  <2>2. HasCopy(m) => HasCopy(m)'
    <3>1. \A n \in Stored : n \in Stored' /\ row'[n].root = row[n].root
      BY DEF RowsFollow
    <3> QED
      BY <2>1, <3>1 DEF HasCopy, CopiesOf
  <2>3. row[m].tm \in gone \/ HasCopy(m) \/ Ending(m)
    BY <1>1, <1>3 DEF EndedInv
  <2>4. CASE Ending(m)
    BY <1>1, <2>1, <2>2, <2>4, EndingStep
  <2> QED
    BY <1>0, <2>1, <2>2, <2>3, <2>4
<1> QED
  BY <1>1, <1>2, <1>3, RowFacts

(* A step keeps all five. *)
LEMMA FollowInvStep ==
    ASSUME IInv, PlatInv, LockInv, FollowInv, Next
    PROVE  FollowInv'
<1> SUFFICES ASSUME failures' = 0
             PROVE  OneRoot' /\ EndedInv' /\ MoveInv' /\ MarkInv' /\ FreshTM'
  BY DEF FollowInv
<1>1. OneRoot /\ EndedInv /\ MoveInv /\ MarkInv /\ FreshTM
  BY FailuresKept DEF FollowInv
<1>2. RowsFollow
  BY RowsFollowStep
<1> QED
  BY <1>1, <1>2, OneRootStep, EndedInvStep, MoveInvStep, MarkInvStep, FreshTMStep

(* What FollowInv says of a state at rest. *)
LEMMA FollowsTheStore ==
    ASSUME IInv, FollowInv
    PROVE  RunsFollowTheStore
<1> SUFFICES ASSUME failures = 0, req = Nothing,
                    NEW r \in Runs, HasPolicy(r), ctx[r].status = "active",
                    \A m \in CopiesOf(ctx[r].root) : ~Active(m),
                    NEW m \in LastOf(ctx[r].root), row[m].tm = run[r].tm
             PROVE  FALSE
  BY DEF RunsFollowTheStore
<1>1. m \in Stored /\ row[m].root = ctx[r].root /\ ~HasCopy(m)
  <2>1. m \in CopiesOf(ctx[r].root) /\ \A n \in CopiesOf(ctx[r].root) : n <= m
    BY DEF LastOf
  <2>2. \A n \in CopiesOf(ctx[r].root) : n \in Nat
    BY DEF CopiesOf, Stored, Mandates
  <2>3. m \in Nat
    BY <2>1, <2>2
  <2> QED
    BY <2>1, <2>2, <2>3 DEF CopiesOf, HasCopy
<1>2. row[m].status = "ended"
  BY <1>1, RowFacts DEF Active, CopiesOf
<1>3. row[m].tm \in gone
  BY <1>1, <1>2 DEF FollowInv, EndedInv, Ending
<1>4. RevokedStaysRevoked
  BY MemFacts
<1> QED
  BY <1>3, <1>4 DEF RevokedStaysRevoked

(* The inductive invariant of RunsFollowTheStore. *)
StoreInv == IInv /\ PlatInv /\ LockInv /\ FollowInv

LEMMA StoreInitially ==
    Init => StoreInv
<1> SUFFICES ASSUME Init PROVE StoreInv
  OBVIOUS
<1>1. IInv
  BY Initially
<1>2. Stored = {} /\ req = Nothing
  BY DEF Init, Stored
<1>3. PlatInv /\ LockInv
  BY <1>2 DEF PlatInv, LockInv
<1>4. FollowInv
  BY <1>2 DEF FollowInv, OneRoot, EndedInv, MoveInv, MarkInv, FreshTM, At
<1> QED
  BY <1>1, <1>3, <1>4 DEF StoreInv

LEMMA StoreInductive ==
    StoreInv /\ [Next]_vars => StoreInv'
<1>1. ASSUME StoreInv, Next PROVE StoreInv'
  <2>1. IInv'
    BY <1>1, Stepwise DEF StoreInv
  <2> QED
    BY <1>1, <2>1, PlatInvStep, LockInvStep, FollowInvStep DEF StoreInv
<1>2. ASSUME StoreInv, UNCHANGED vars PROVE StoreInv'
  <2>1. IInv'
    BY <1>2, Stepwise DEF StoreInv
  <2>2. UNCHANGED <<row, issued, plat, run, leader, up, bound, gone, ctx, expected, req,
                    d3, hand, ended, tight, failures>>
    BY <1>2 DEF vars, storeVars, procVars, memVars, toldVars
  <2>3. PlatInv' /\ LockInv'
    BY <1>2, <2>2 DEF StoreInv, PlatInv, LockInv, MadeActive, NewTM, ToldReplaced, ToldRevoked,
       Making, EndedRow, Active, Stored
  <2>4. FollowInv'
    BY <1>2, <2>2 DEF StoreInv, FollowInv, OneRoot, EndedInv, HasCopy, CopiesOf, Ending,
       Making, MoveInv, MarkInv, FreshTM, At, Stored
  <2> QED
    BY <2>1, <2>3, <2>4 DEF StoreInv
<1> QED
  BY <1>1, <1>2

(* While no call fails and no request is under way, a live run goes by a   *)
(* policy that is active in the store, or was registered under another TM  *)
(* since (store_confirmed, move_policy, revoke_policy, _reregister,        *)
(* VisecaWorker.revoke), with any number of processes. *)
THEOREM RunsAreFollowed == Spec => []RunsFollowTheStore
<1>1. StoreInv => RunsFollowTheStore
  BY FollowsTheStore DEF StoreInv
<1> QED
  BY <1>1, StoreInitially, StoreInductive, PTL DEF Spec

-----------------------------------------------------------------------------
(* What the parts of MCPolicy add to this is bounds: of the cards, of the  *)
(* runs, of the failures. *)
LEMMA PartsAreBounded == WholeSpec => Spec
<1>1. WholeInit => Init
  BY DEF WholeInit
<1>2. [WholeNext]_whole => [Next]_vars
  BY DEF WholeNext, whole
<1> QED
  BY <1>1, <1>2, PTL DEF WholeSpec, Spec

(* C5: of the runs of one process, none goes on under a policy that ended  *)
(* in the store (T6, worker.py revoke and move_policy). *)
THEOREM RunsFollowRows ==
    ASSUME OneProcess
    PROVE  WholeSpec => []RunsFollowTheRows
<1>1. RevokeStopsHere /\ RunsFollowTheStore => RunsFollowTheRows
  BY DEF RunsFollowTheRows
<1> QED
  BY <1>1, PartsAreBounded, RevokeStops, RunsAreFollowed, PTL

-----------------------------------------------------------------------------
(* The reading of a customer's words (Compiler, in MCPolicy as Reading),   *)
(* for any instructions, history and answers of a model: first what is     *)
(* needed of sequences.                                                    *)

(* Among subsets of a finite set there are minimal ones. *)
LEMMA Minimal ==
    ASSUME NEW S, IsFiniteSet(S), NEW T \in SUBSET SUBSET S, T # {}
    PROVE  \E s \in T : \A r \in SUBSET s : r # s => r \notin T
<1>1. IsWellFoundedOn(StrictSubsetOrdering(S), FiniteSubsetsOf(S))
  BY FS_StrictSubsetOrderingWellFounded
<1>2. T \subseteq FiniteSubsetsOf(S)
  BY FS_Subset DEF FiniteSubsetsOf
<1>3. \E x \in T : \A y \in T : ~ (<<y, x>> \in StrictSubsetOrdering(S))
  BY <1>1, <1>2, WFMin
<1> QED BY <1>3 DEF StrictSubsetOrdering

(* Every set of numbers has a least one. *)
LEMMA Least ==
    ASSUME NEW T \in SUBSET Nat, T # {}
    PROVE  \E n \in T : \A m \in T : n <= m
<1>1. PICK top \in T : TRUE
  OBVIOUS
<1> DEFINE All == 0..top
           Upto == {s \in SUBSET All : \E n \in T : s = 0..n}
<1>2. IsFiniteSet(All) /\ All \in Upto
  BY <1>1, FS_Interval
<1>3. PICK s \in Upto : \A r \in SUBSET s : r # s => r \notin Upto
  <2>1. Upto \in SUBSET SUBSET All /\ Upto # {}
    BY <1>2
  <2> HIDE DEF Upto, All
  <2> QED BY <1>2, <2>1, Minimal
<1>4. PICK n \in T : s = 0..n
  BY <1>3
<1>5. ASSUME NEW m \in T, m < n
      PROVE  FALSE
  <2>1. 0..m \in SUBSET s /\ n \in s /\ n \notin 0..m
    BY <1>4, <1>5
  <2>2. 0..m \in Upto
    BY <1>3, <2>1
  <2> QED BY <1>3, <2>1, <2>2
<1> QED BY <1>4, <1>5

-----------------------------------------------------------------------------
LEMMA CountedAlike == \A S : Reading!Cardinality(S) = Cardinality(S)
BY DEF Cardinality, Reading!Cardinality

(* The n-th of a set of numbers: each once, and all of them. *)
LEMMA InOrderIs ==
    ASSUME NEW n \in Nat, NEW S \in SUBSET (1..n)
    PROVE  /\ Cardinality(S) \in Nat
           /\ Reading!InOrder(S) \in [1..Cardinality(S) -> S]
           /\ \A k, l \in 1..Cardinality(S) :
                Reading!InOrder(S)[k] = Reading!InOrder(S)[l] => k = l
           /\ \A i \in S : \E k \in 1..Cardinality(S) : Reading!InOrder(S)[k] = i
<1> DEFINE UpTo(i) == {j \in S : j <= i}
           place == [i \in S |-> Cardinality(UpTo(i))]
           size == Cardinality(S)
<1>1. IsFiniteSet(S) /\ size \in Nat
  <2>1. IsFiniteSet(1..n)
    BY FS_Interval
  <2>2. IsFiniteSet(S)
    BY <2>1, FS_Subset
  <2> QED
    BY <2>2, FS_CardinalityType
<1>2. ASSUME NEW i \in S
      PROVE  /\ IsFiniteSet(UpTo(i)) /\ Cardinality(UpTo(i)) \in 1..size
  <2>1. UpTo(i) \in SUBSET S /\ i \in UpTo(i)
    OBVIOUS
  <2>2. IsFiniteSet(UpTo(i)) /\ Cardinality(UpTo(i)) \in Nat /\ Cardinality(UpTo(i)) <= size
    BY <1>1, <2>1, FS_Subset, FS_CardinalityType
  <2>3. Cardinality(UpTo(i)) # 0
    BY <2>1, <2>2, FS_EmptySet
  <2> QED
    BY <1>1, <2>2, <2>3
<1>3. ASSUME NEW i \in S, NEW j \in S, i < j PROVE place[i] # place[j]
  <2>1. UpTo(i) \in SUBSET UpTo(j) /\ j \in UpTo(j) /\ j \notin UpTo(i)
    <3>1. \A k \in S : k \in Int
      OBVIOUS
    <3>2. ~(j <= i) /\ j <= j /\ \A k \in S : k <= i => k <= j
      BY <3>1, <1>3
    <3>3. \A k \in UpTo(i) : k \in UpTo(j)
      BY <3>2
    <3> QED
      BY <3>2, <3>3
  <2>2. Cardinality(UpTo(i)) # Cardinality(UpTo(j))
    BY <1>2, <2>1, FS_Subset
  <2> QED
    BY <2>2
<1>4. place \in [S -> 1..size]
  BY <1>2
<1>5. \A i, j \in S : place[i] = place[j] => i = j
  <2>1. TAKE i, j \in S
  <2>2. i = j \/ i < j \/ j < i
    OBVIOUS
  <2> QED
    BY <1>3, <2>2
<1>6. \A k \in 1..size : \E i \in S : place[i] = k
  <2>1. place \in Injection(S, 1..size)
    BY <1>4, <1>5 DEF Injection, IsInjective
  <2>2. IsFiniteSet(1..size) /\ Cardinality(1..size) = size
    BY <1>1, FS_Interval
  <2>3. place \in Surjection(S, 1..size)
    BY <2>1, <2>2, FS_Injection
  <2> QED
    BY <2>3 DEF Surjection
<1> DEFINE seq == Reading!InOrder(S)
<1>7. seq = [k \in 1..size |-> CHOOSE i \in S : Reading!Cardinality(UpTo(i)) = k]
  <2>1. Reading!Cardinality(S) = size
    BY CountedAlike
  <2> QED
    BY <2>1 DEF Reading!InOrder
<1>8. ASSUME NEW k \in 1..size PROVE seq[k] \in S /\ place[seq[k]] = k
  <2>1. seq[k] = CHOOSE i \in S : Reading!Cardinality(UpTo(i)) = k
    BY <1>7
  <2>2. \A i \in S : Reading!Cardinality(UpTo(i)) = place[i]
    BY CountedAlike
  <2>3. PICK i \in S : place[i] = k
    BY <1>6
  <2>4. \E j \in S : Reading!Cardinality(UpTo(j)) = k
    BY <2>2, <2>3
  <2>5. seq[k] \in S /\ Reading!Cardinality(UpTo(seq[k])) = k
    BY <2>1, <2>4
  <2> QED
    BY <2>2, <2>5
<1> HIDE DEF place, seq
<1>9. seq \in [1..size -> S]
  BY <1>7, <1>8
<1>10. \A k, l \in 1..size : seq[k] = seq[l] => k = l
  BY <1>8
<1>11. \A i \in S : \E k \in 1..size : seq[k] = i
  <2>1. TAKE i \in S
  <2>2. place[i] \in 1..size
    BY <1>4
  <2>3. seq[place[i]] = i
    BY <2>2, <1>5, <1>8
  <2> QED
    BY <2>2, <2>3
<1> QED
  BY <1>1, <1>9, <1>10, <1>11 DEF seq

(* The elements at those places. *)
LEMMA ChosenIs ==
    ASSUME NEW T, NEW s \in Seq(T), NEW S \in SUBSET DOMAIN s
    PROVE  /\ Reading!Chosen(s, S) \in Seq(T)
           /\ \A k \in DOMAIN Reading!Chosen(s, S) :
                Reading!InOrder(S)[k] \in S /\ Reading!Chosen(s, S)[k] = s[Reading!InOrder(S)[k]]
           /\ \A i \in S : \E k \in DOMAIN Reading!Chosen(s, S) : Reading!Chosen(s, S)[k] = s[i]
           /\ \A k, l \in DOMAIN Reading!Chosen(s, S) :
                Reading!InOrder(S)[k] = Reading!InOrder(S)[l] => k = l
<1> DEFINE order == Reading!InOrder(S)
           t == Reading!Chosen(s, S)
           size == Cardinality(S)
<1>1. Len(s) \in Nat /\ DOMAIN s = 1..Len(s) /\ \A i \in DOMAIN s : s[i] \in T
  OBVIOUS
<1>2. /\ size \in Nat /\ order \in [1..size -> S]
      /\ \A k, l \in 1..size : order[k] = order[l] => k = l
      /\ \A i \in S : \E k \in 1..size : order[k] = i
  BY <1>1, InOrderIs
<1>3. t = [k \in 1..size |-> s[order[k]]]
  BY CountedAlike DEF Reading!Chosen
<1> HIDE DEF order, t, size
<1>4. t \in Seq(T) /\ DOMAIN t = 1..size /\ \A k \in 1..size : t[k] = s[order[k]]
  BY <1>1, <1>2, <1>3
<1> QED
  BY <1>2, <1>4 DEF order, t

RuleType ==
    [unit : {"order", "item", "count"}, op : Reading!Ops, value : Nat, days : Nat,
     source : {"exact", "inferred"},
     from : {"stated", "history", "reference", "nights", "period", "form"},
     clause : Int, asks : BOOLEAN]

(* Where a rule of a reading comes from: the words, the history, ... *)
ByHistory(r) ==
    /\ r.from = "history" => Len(paid) = 1 /\ r.value = paid[1]
    /\ r.from \in {"history", "reference"} => r.unit = "order" /\ r.days = 0

Worded(r) == r.from \in {"stated", "history", "reference"} /\ ByHistory(r)

(* ... or what other rules of the reading make of them. *)
Traced(s, rules, r) ==
    /\ r.from \in {"stated", "history", "reference", "nights", "period"}
    /\ ByHistory(r)
    /\ r.from \in {"nights", "period"} => r.unit = "order" /\ r.days = 0
    /\ r.from = "nights" =>
          \E j \in DOMAIN rules : /\ rules[j].unit = "item" /\ rules[j].from = "stated"
                                  /\ r.value = rules[j].value * s.nights
    /\ r.from = "period" =>
          \E j \in DOMAIN rules : /\ rules[j].unit = "order" /\ rules[j].days > 0
                                  /\ rules[j].from = "stated" /\ r.value = rules[j].value

TracedAll(s, rules) == rules \in Seq(RuleType) /\ \A i \in DOMAIN rules : Traced(s, rules, rules[i])

LEMMA InstructionType ==
    ASSUME NEW s \in Instructions
    PROVE  /\ s.clauses \in Seq(Reading!Clauses) /\ s.nights \in Nat
           /\ s.same \in BOOLEAN /\ s.ask \in {"no", "same", "clause", "price"}
           /\ s.kinds \subseteq Kinds /\ s.foreign \subseteq s.kinds
BY Parameters DEF Reading!CompilerAssumption

LEMMA HistoryType ==
    ASSUME NEW op \in Reading!Ops, NEW c \in Int, paid \in Histories
    PROVE  /\ Reading!FromHistory(op, c) \in Seq(RuleType)
           /\ Len(Reading!FromHistory(op, c)) = IF Len(paid) > 0 THEN 1 ELSE 0
           /\ \A i \in DOMAIN Reading!FromHistory(op, c) :
                LET r == Reading!FromHistory(op, c)[i]
                IN /\ Worded(r) /\ r.from # "stated" /\ r.clause = c /\ ~r.asks
<1>1. paid \in Seq(Nat)
  BY Parameters DEF Reading!CompilerAssumption
<1>2. Reading!Reference(op, c) \in RuleType
  BY DEF Reading!Reference, Reading!Rule, RuleType, Reading!Ops
<1>3. CASE Len(paid) > 1
  <2>1. Reading!FromHistory(op, c) = << Reading!Reference(op, c) >>
    <3>1. ~(Len(paid) = 1)
      BY <1>1, <1>3
    <3> QED
      BY <1>3, <3>1, Zenon DEF Reading!FromHistory
  <2> QED
    BY <1>1, <1>2, <1>3, <2>1 DEF Worded, ByHistory, Reading!Reference, Reading!Rule
<1>4. CASE Len(paid) = 1
  <2> DEFINE r == Reading!Rule("order", op, paid[1], 0, "inferred", "history", c)
  <2>1. Reading!FromHistory(op, c) = << r >>
    BY <1>1, <1>4 DEF Reading!FromHistory
  <2>2. r \in RuleType /\ Worded(r) /\ r.from # "stated" /\ r.clause = c /\ ~r.asks
    BY <1>1, <1>4 DEF Reading!Rule, RuleType, Worded, ByHistory
  <2> QED
    BY <1>1, <1>4, <2>1, <2>2
<1>5. CASE Len(paid) = 0
  BY <1>1, <1>5 DEF Reading!FromHistory
<1>6. Len(paid) \in Nat /\ (Len(paid) > 1 \/ Len(paid) = 1 \/ Len(paid) = 0)
  BY <1>1
<1> QED
  BY <1>6, <1>3, <1>4, <1>5

(* Of limits the lowest is one of them. *)
LEMMA LowestIsOne ==
    ASSUME NEW R \in SUBSET RuleType, R # {}
    PROVE  Reading!LowestOf(R) \in R
<1> DEFINE Lowest(r) == \A q \in R : r.value < q.value
                            \/ (r.value = q.value /\ (r.op = "<" \/ q.op # "<"))
<1>1. \A r \in R : r.value \in Nat
  BY DEF RuleType
<1>2. PICK low \in {r.value : r \in R} : \A v \in {r.value : r \in R} : low <= v
  BY <1>1, Least
<1>3. \A r \in R : low <= r.value
  BY <1>2
<1>4. PICK r \in R : r.value = low
  BY <1>2
<1>5. \E q \in R : Lowest(q)
  <2>1. CASE \E q \in R : q.value = low /\ q.op = "<"
    BY <1>1, <1>3, <2>1
  <2>2. CASE \A q \in R : q.value = low => q.op # "<"
    BY <1>1, <1>3, <1>4, <2>2
  <2> QED
    BY <2>1, <2>2
<1> QED
  BY <1>5 DEF Reading!LowestOf

(* The rules read stay, and at most a payment's cap joins them. *)
LEMMA CapsAreTraced ==
    ASSUME NEW s \in Instructions, NEW rules \in Seq(RuleType),
           \A i \in DOMAIN rules : Worded(rules[i])
    PROVE  LET all == Reading!WithCaps(s, rules)
           IN /\ TracedAll(s, all) /\ Len(all) >= Len(rules)
              /\ \A i \in DOMAIN rules : i \in DOMAIN all /\ all[i] = rules[i]
              /\ \A i \in DOMAIN all : i > Len(rules) =>
                    /\ ~all[i].asks /\ all[i].from \in {"nights", "period"}
                    /\ all[i].clause = 0 \/ \E j \in DOMAIN rules : all[i].clause = rules[j].clause
<1> DEFINE stay == Reading!StayCap(s, rules)
           period == Reading!PeriodCap(rules \o stay)
           all == Reading!WithCaps(s, rules)
           Items == {r \in Reading!Range(rules) : r.unit = "item" /\ r.op # "=" /\ Reading!IsAmount(r)}
           Limits1 == {r \in Reading!Range(rules \o stay) : r.unit = "order" /\ r.days > 0 /\ r.op # "="}
<1>1. s.nights \in Nat
  BY InstructionType
<1>2. ASSUME stay # << >>
      PROVE  /\ stay \in Seq(RuleType) /\ Len(stay) = 1 /\ ~stay[1].asks
             /\ stay[1].from = "nights" /\ stay[1].unit = "order" /\ stay[1].days = 0
             /\ \E j \in DOMAIN rules : /\ rules[j].unit = "item" /\ rules[j].from = "stated"
                                       /\ stay[1].value = rules[j].value * s.nights
             /\ stay[1].clause = 0
  <2> DEFINE unit == Reading!LowestOf(Items)
  <2>1. /\ Items # {}
        /\ stay = << Reading!Rule("order", unit.op, unit.value * s.nights, 0, "inferred", "nights", 0) >>
    BY <1>2 DEF Reading!StayCap
  <2>2. Items \in SUBSET RuleType
    BY DEF Reading!Range
  <2>3. unit \in Items
    BY <2>1, <2>2, LowestIsOne
  <2>4. PICK j \in DOMAIN rules : rules[j] = unit
    BY <2>3 DEF Reading!Range
  <2>5. unit \in RuleType /\ unit.unit = "item" /\ unit.from = "stated"
    BY <2>2, <2>3, <2>4 DEF Worded, ByHistory
  <2>6. unit.op \in Reading!Ops /\ unit.value \in Nat /\ unit.value * s.nights \in Nat
    BY <1>1, <2>5 DEF RuleType
  <2> DEFINE rule == Reading!Rule("order", unit.op, unit.value * s.nights, 0, "inferred", "nights", 0)
  <2> HIDE DEF unit, Items
  <2>9. /\ rule \in RuleType /\ ~rule.asks /\ rule.from = "nights" /\ rule.unit = "order"
        /\ rule.days = 0 /\ rule.value = unit.value * s.nights /\ rule.clause = 0
    BY <2>4, <2>5, <2>6 DEF Reading!Rule, RuleType
  <2>10. stay = << rule >>
    BY <2>1
  <2> HIDE DEF rule
  <2>11. stay \in Seq(RuleType) /\ Len(stay) = 1 /\ stay[1] = rule
    BY <2>9, <2>10
  <2> QED
    BY <2>4, <2>5, <2>6, <2>9, <2>11
<1>3. stay \in Seq(RuleType) /\ Len(stay) \in {0, 1}
  <2>1. CASE stay = << >>
    BY <2>1
  <2> QED
    BY <1>2, <2>1
<1> HIDE DEF stay
<1>4. /\ rules \o stay \in Seq(RuleType) /\ Len(rules \o stay) = Len(rules) + Len(stay)
      /\ \A i \in DOMAIN rules : (rules \o stay)[i] = rules[i]
      /\ \A i \in DOMAIN (rules \o stay) : i > Len(rules) => stay # << >> /\ (rules \o stay)[i] = stay[1]
  BY <1>3
<1>5. ASSUME period # << >>
      PROVE  /\ period \in Seq(RuleType) /\ Len(period) = 1 /\ ~period[1].asks
             /\ period[1].from = "period" /\ period[1].unit = "order" /\ period[1].days = 0
             /\ \E j \in DOMAIN rules : /\ rules[j].unit = "order" /\ rules[j].days > 0
                                       /\ rules[j].from = "stated" /\ period[1].value = rules[j].value
                                       /\ period[1].clause = rules[j].clause
  <2> DEFINE limit == Reading!LowestOf(Limits1)
  <2>1. /\ Limits1 # {}
        /\ period = << Reading!Rule("order", limit.op, limit.value, 0, "inferred", "period", limit.clause) >>
    BY <1>5 DEF Reading!PeriodCap
  <2>2. Limits1 \in SUBSET RuleType
    BY <1>4 DEF Reading!Range
  <2>3. limit \in Limits1
    BY <2>1, <2>2, LowestIsOne
  <2>4. PICK j \in DOMAIN (rules \o stay) : (rules \o stay)[j] = limit
    BY <2>3 DEF Reading!Range
  <2>5. limit \in RuleType /\ limit.unit = "order" /\ limit.days > 0
    BY <2>2, <2>3
  <2>6. j \in DOMAIN rules /\ rules[j] = limit
    BY <1>2, <1>4, <2>4, <2>5
  <2>7. limit.from = "stated"
    BY <2>5, <2>6 DEF Worded, ByHistory
  <2>8. limit.op \in Reading!Ops /\ limit.value \in Nat /\ limit.clause \in Int
    BY <2>5 DEF RuleType
  <2> DEFINE rule == Reading!Rule("order", limit.op, limit.value, 0, "inferred", "period", limit.clause)
  <2> HIDE DEF limit, Limits1
  <2>9. /\ rule \in RuleType /\ ~rule.asks /\ rule.from = "period" /\ rule.unit = "order"
        /\ rule.days = 0 /\ rule.value = limit.value /\ rule.clause = limit.clause
    BY <2>5, <2>6, <2>7, <2>8 DEF Reading!Rule, RuleType
  <2>10. period = << rule >>
    BY <2>1
  <2> HIDE DEF rule
  <2>11. period \in Seq(RuleType) /\ Len(period) = 1 /\ period[1] = rule
    BY <2>9, <2>10
  <2> QED
    BY <2>5, <2>6, <2>7, <2>8, <2>9, <2>11
<1>6. period \in Seq(RuleType) /\ Len(period) \in {0, 1}
  <2>1. CASE period = << >>
    BY <2>1
  <2> QED
    BY <1>5, <2>1
<1>7. all = (rules \o stay) \o period
  BY DEF Reading!WithCaps, stay
<1> HIDE DEF period
<1>8. /\ all \in Seq(RuleType) /\ Len(all) >= Len(rules)
      /\ \A i \in DOMAIN rules : i \in DOMAIN all /\ all[i] = rules[i]
      /\ \A i \in DOMAIN all : i > Len(rules) =>
            \/ stay # << >> /\ all[i] = stay[1]
            \/ period # << >> /\ all[i] = period[1]
  BY <1>3, <1>4, <1>6, <1>7
<1> HIDE DEF all
<1>9. ASSUME NEW i \in DOMAIN all PROVE Traced(s, all, all[i])
  <2>1. CASE i \in DOMAIN rules
    <3>1. Worded(all[i])
      BY <1>8, <2>1
    <3> QED
      BY <3>1 DEF Worded, Traced
  <2>2. CASE stay # << >> /\ all[i] = stay[1]
    BY <1>2, <1>8, <2>2 DEF Traced, ByHistory
  <2>3. CASE period # << >> /\ all[i] = period[1]
    BY <1>5, <1>8, <2>3 DEF Traced, ByHistory
  <2> QED
    BY <1>8, <2>1, <2>2, <2>3
<1>10. \A i \in DOMAIN all : i > Len(rules) =>
            /\ ~all[i].asks /\ all[i].from \in {"nights", "period"}
            /\ all[i].clause = 0 \/ \E j \in DOMAIN rules : all[i].clause = rules[j].clause
  BY <1>2, <1>5, <1>8
<1> QED
  BY <1>8, <1>9, <1>10 DEF TracedAll, all

(* Of the rules that check the same one is kept, and no others. *)
LEMMA DistinctIs ==
    ASSUME NEW rules \in Seq(RuleType)
    PROVE  LET kept == Reading!Distinct(rules)
               order == Reading!InOrder(Reading!Firsts(rules))
           IN /\ kept \in Seq(RuleType)
              /\ \A k \in DOMAIN kept : order[k] \in DOMAIN rules /\ kept[k] = rules[order[k]]
              /\ \A k, l \in DOMAIN kept : order[k] = order[l] => k = l
              /\ \A i \in DOMAIN rules : \E k \in DOMAIN kept :
                    Reading!Key(kept[k]) = Reading!Key(rules[i])
<1> DEFINE kept == Reading!Distinct(rules)
           firsts == Reading!Firsts(rules)
           order == Reading!InOrder(firsts)
<1>1. firsts \in SUBSET DOMAIN rules
  BY DEF Reading!Firsts
<1>2. kept = Reading!Chosen(rules, firsts)
  BY DEF Reading!Distinct
<1>3. /\ kept \in Seq(RuleType)
      /\ \A k \in DOMAIN kept : order[k] \in firsts /\ kept[k] = rules[order[k]]
      /\ \A i \in firsts : \E k \in DOMAIN kept : kept[k] = rules[i]
      /\ \A k, l \in DOMAIN kept : order[k] = order[l] => k = l
  BY <1>1, <1>2, ChosenIs
<1>4. ASSUME NEW i \in DOMAIN rules
      PROVE  \E k \in DOMAIN kept : Reading!Key(kept[k]) = Reading!Key(rules[i])
  <2> DEFINE Same == {j \in DOMAIN rules : Reading!Key(rules[j]) = Reading!Key(rules[i])}
  <2>1. i \in Same /\ Same \in SUBSET Nat
    OBVIOUS
  <2>2. PICK first \in Same : \A j \in Same : first <= j
    BY <2>1, Least
  <2>3. \A j \in 1..(first - 1) : j \in DOMAIN rules /\ ~(first <= j)
    OBVIOUS
  <2>4. \A j \in 1..(first - 1) : Reading!Key(rules[j]) # Reading!Key(rules[first])
    BY <2>2, <2>3
  <2>5. first \in firsts
    BY <2>4 DEF Reading!Firsts
  <2>6. PICK k \in DOMAIN kept : kept[k] = rules[first]
    BY <1>3, <2>5
  <2> QED
    BY <2>2, <2>6
<1> QED
  BY <1>1, <1>3, <1>4

(* ... among them those a cap is worked out from. *)
LEMMA DistinctIsTraced ==
    ASSUME NEW s, NEW rules, TracedAll(s, rules)
    PROVE  TracedAll(s, Reading!Distinct(rules))
<1> DEFINE kept == Reading!Distinct(rules)
           order == Reading!InOrder(Reading!Firsts(rules))
<1>1. rules \in Seq(RuleType) /\ \A i \in DOMAIN rules : Traced(s, rules, rules[i])
  BY DEF TracedAll
<1>2. /\ kept \in Seq(RuleType)
      /\ \A k \in DOMAIN kept : order[k] \in DOMAIN rules /\ kept[k] = rules[order[k]]
      /\ \A i \in DOMAIN rules : \E k \in DOMAIN kept :
            Reading!Key(kept[k]) = Reading!Key(rules[i])
  BY <1>1, DistinctIs
<1> HIDE DEF kept, order
<1>3. ASSUME NEW i \in DOMAIN rules, rules[i].from = "stated",
             rules[i].unit = "item" \/ rules[i].days > 0
      PROVE  \E k \in DOMAIN kept : /\ kept[k].unit = rules[i].unit /\ kept[k].days = rules[i].days
                                    /\ kept[k].value = rules[i].value /\ kept[k].from = "stated"
  <2>1. PICK k \in DOMAIN kept : Reading!Key(kept[k]) = Reading!Key(rules[i])
    BY <1>2
  <2>2. /\ kept[k].unit = rules[i].unit /\ kept[k].days = rules[i].days
        /\ kept[k].value = rules[i].value
    BY <2>1 DEF Reading!Key
  <2>3. Traced(s, rules, kept[k])
    BY <1>1, <1>2
  <2>5. rules[i] \in RuleType
    BY <1>1
  <2>4. kept[k].from = "stated"
    <3>1. rules[i].unit # "order" \/ rules[i].days # 0
      BY <1>3, <2>5 DEF RuleType
    <3> QED
      BY <2>2, <2>3, <3>1 DEF Traced, ByHistory
  <2> QED
    BY <2>2, <2>4
<1>4. ASSUME NEW k \in DOMAIN kept PROVE Traced(s, kept, kept[k])
  <2>1. Traced(s, rules, kept[k])
    BY <1>1, <1>2
  <2>2. ASSUME kept[k].from = "nights"
        PROVE  \E j \in DOMAIN kept : /\ kept[j].unit = "item" /\ kept[j].from = "stated"
                                      /\ kept[k].value = kept[j].value * s.nights
    <3>1. PICK j \in DOMAIN rules : /\ rules[j].unit = "item" /\ rules[j].from = "stated"
                                    /\ kept[k].value = rules[j].value * s.nights
      BY <2>1, <2>2 DEF Traced
    <3> QED
      BY <1>3, <3>1
  <2>3. ASSUME kept[k].from = "period"
        PROVE  \E j \in DOMAIN kept : /\ kept[j].unit = "order" /\ kept[j].days > 0
                                      /\ kept[j].from = "stated" /\ kept[k].value = kept[j].value
    <3>1. PICK j \in DOMAIN rules : /\ rules[j].unit = "order" /\ rules[j].days > 0
                                    /\ rules[j].from = "stated" /\ kept[k].value = rules[j].value
      BY <2>1, <2>3 DEF Traced
    <3> QED
      BY <1>3, <3>1
  <2> QED
    BY <2>1, <2>2, <2>3 DEF Traced
<1> QED
  BY <1>2, <1>4 DEF TracedAll, kept

(* An id: the kind, whether it asks, and the number among those before. *)
LEMMA IdIs ==
    ASSUME NEW rules \in Seq(RuleType), NEW k \in DOMAIN rules
    PROVE  LET upto == {n \in 1..k : Reading!Base(rules[n]) = Reading!Base(rules[k])}
               id == Reading!IdOf(rules, k)
           IN /\ IsFiniteSet(upto) /\ Cardinality(upto) \in Nat
              /\ id[1] = Reading!Kind(rules[k]) /\ id[2] = rules[k].asks
              /\ id[3] = Cardinality(upto)
<1> DEFINE Upto(m) == {n \in 1..m : Reading!Base(rules[n]) = Reading!Base(rules[m])}
<1>1. IsFiniteSet(1..k)
  BY FS_Interval
<1>2. IsFiniteSet(Upto(k)) /\ Cardinality(Upto(k)) \in Nat
  <2>1. Upto(k) \in SUBSET (1..k)
    OBVIOUS
  <2>2. IsFiniteSet(Upto(k))
    BY <1>1, <2>1, FS_Subset
  <2> QED
    BY <2>2, FS_CardinalityType
<1>3. Reading!IdOf(rules, k) = Append(Reading!Base(rules[k]), Cardinality(Upto(k)))
  BY CountedAlike DEF Reading!IdOf
<1>4. Reading!Base(rules[k]) = <<Reading!Kind(rules[k]), rules[k].asks>>
  BY DEF Reading!Base
<1> HIDE DEF Upto
<1>5. ASSUME NEW a, NEW b, NEW c
      PROVE  Append(<<a, b>>, c)[1] = a /\ Append(<<a, b>>, c)[2] = b /\ Append(<<a, b>>, c)[3] = c
  <2>1. <<a, b>> \in Seq({a, b}) /\ Len(<<a, b>>) = 2
    OBVIOUS
  <2> QED
    BY <2>1
<1>6. Reading!IdOf(rules, k)
        = Append(<<Reading!Kind(rules[k]), rules[k].asks>>, Cardinality(Upto(k)))
  BY <1>3, <1>4, Zenon
<1>7. /\ Append(<<Reading!Kind(rules[k]), rules[k].asks>>, Cardinality(Upto(k)))[1] = Reading!Kind(rules[k])
      /\ Append(<<Reading!Kind(rules[k]), rules[k].asks>>, Cardinality(Upto(k)))[2] = rules[k].asks
      /\ Append(<<Reading!Kind(rules[k]), rules[k].asks>>, Cardinality(Upto(k)))[3] = Cardinality(Upto(k))
  BY <1>5
<1> QED
  BY <1>2, <1>6, <1>7, Zenon DEF Upto

(* No two rules of a draft have the same id, nor the same stem if both ask. *)
LEMMA NumbersDiffer ==
    ASSUME NEW rules \in Seq(RuleType), NEW i \in DOMAIN rules, NEW j \in DOMAIN rules,
           Reading!IdOf(rules, i)[1] = Reading!IdOf(rules, j)[1],
           Reading!IdOf(rules, i)[3] = Reading!IdOf(rules, j)[3],
           rules[i].asks = rules[j].asks
    PROVE  i = j
<1> DEFINE Upto(k) == {n \in 1..k : Reading!Base(rules[n]) = Reading!Base(rules[k])}
<1>1. ASSUME NEW k \in DOMAIN rules
      PROVE  /\ IsFiniteSet(Upto(k)) /\ Cardinality(Upto(k)) \in Nat
             /\ Reading!IdOf(rules, k)[1] = Reading!Kind(rules[k])
             /\ Reading!IdOf(rules, k)[3] = Cardinality(Upto(k))
  BY IdIs
<1>2. ASSUME NEW k \in DOMAIN rules, NEW l \in DOMAIN rules, k < l,
             Reading!IdOf(rules, k)[1] = Reading!IdOf(rules, l)[1],
             Reading!IdOf(rules, k)[3] = Reading!IdOf(rules, l)[3],
             rules[k].asks = rules[l].asks
      PROVE  FALSE
  <2>1. Reading!Base(rules[k]) = Reading!Base(rules[l])
    <3>1. Reading!Kind(rules[k]) = Reading!Kind(rules[l]) /\ rules[k].asks = rules[l].asks
      BY <1>1, <1>2, Zenon
    <3> QED
      BY <3>1 DEF Reading!Base
  <2>2. Cardinality(Upto(k)) = Cardinality(Upto(l))
    BY <1>1, <1>2, Zenon
  <2>3. Upto(k) \in SUBSET Upto(l) /\ l \in Upto(l) /\ l \notin Upto(k)
    BY <1>2, <2>1
  <2>4. IsFiniteSet(Upto(l))
    BY <1>1
  <2> HIDE DEF Upto
  <2> QED
    BY <2>2, <2>3, <2>4, FS_Subset
<1>3. i = j \/ i < j \/ j < i
  OBVIOUS
<1> QED
  BY <1>2, <1>3

LEMMA IdsDiffer ==
    ASSUME NEW rules \in Seq(RuleType), NEW i \in DOMAIN rules, NEW j \in DOMAIN rules,
           Reading!IdOf(rules, i) = Reading!IdOf(rules, j)
    PROVE  i = j
<1>1. rules[i].asks = rules[j].asks
  BY IdIs, Zenon
<1> QED
  BY <1>1, NumbersDiffer

LEMMA StemsDiffer ==
    ASSUME NEW rules \in Seq(RuleType), NEW i \in DOMAIN rules, NEW j \in DOMAIN rules,
           rules[i].asks, rules[j].asks,
           Reading!Stem(Reading!IdOf(rules, i)) = Reading!Stem(Reading!IdOf(rules, j))
    PROVE  i = j
<1>1. /\ Reading!IdOf(rules, i)[1] = Reading!IdOf(rules, j)[1]
      /\ Reading!IdOf(rules, i)[3] = Reading!IdOf(rules, j)[3]
  BY DEF Reading!Stem
<1>2. /\ rules[i] \in RuleType /\ rules[j] \in RuleType
  OBVIOUS
<1>3. rules[i].asks = rules[j].asks
  BY <1>2 DEF RuleType
<1> QED
  BY <1>1, <1>3, NumbersDiffer

(* A reading says where its rules come from, takes amounts from the words, *)
(* and has the kind of every amount and count in words the parser knows.   *)
Reads(s, rules) ==
    /\ TracedAll(s, rules)
    /\ \A i \in DOMAIN rules :
          rules[i].from = "stated" /\ rules[i].unit # "count" => rules[i].value \in Reading!Stated(s)
    /\ \A i \in DOMAIN s.clauses : s.clauses[i].plain =>
          \E k \in DOMAIN rules : Reading!Kind(rules[k]) = Reading!Kind(s.clauses[i])

LEMMA ClauseIsRead ==
    ASSUME NEW s \in Instructions, NEW i \in DOMAIN s.clauses
    PROVE  LET r == Reading!ReadClause(s, i)
           IN /\ r \in RuleType /\ r.from = "stated" /\ ~r.asks /\ r.clause = i
              /\ r.unit # "count" => r.value \in Reading!Stated(s)
              /\ s.clauses[i].plain => Reading!Kind(r) = Reading!Kind(s.clauses[i])
<1> DEFINE c == s.clauses[i]
           op == IF c.word = "none" THEN "<=" ELSE c.word
           source == IF c.word = "none" THEN "inferred" ELSE "exact"
           r == Reading!ReadClause(s, i)
<1>1. c \in Reading!Clauses /\ i \in Int /\ i \in DOMAIN s.clauses
  BY InstructionType
<1>2. /\ c.unit \in {"order", "item", "count"} /\ c.value \in Nat /\ c.days \in Nat
      /\ op \in Reading!Ops /\ source \in {"exact", "inferred"}
  BY <1>1 DEF Reading!Clauses, Reading!Ops
<1>3. c.unit # "count" => c.value \in Reading!Stated(s)
  <2>1. c \in Reading!Range(s.clauses)
    BY <1>1 DEF Reading!Range
  <2> QED
    BY <2>1 DEF Reading!Stated, Reading!Amounts
<1>4. CASE c.plain \/ c.unit = "count"
  <2>1. r = Reading!Rule(c.unit, op, c.value, c.days, source, "stated", i)
    BY <1>4 DEF Reading!ReadClause
  <2> HIDE DEF c, op, source, r
  <2>2. /\ r \in RuleType /\ r.from = "stated" /\ ~r.asks /\ r.clause = i
        /\ r.unit = c.unit /\ r.value = c.value /\ r.days = c.days
    BY <1>1, <1>2, <2>1 DEF Reading!Rule, RuleType
  <2>3. Reading!Kind(r) = Reading!Kind(c)
    BY <2>2 DEF Reading!Kind
  <2> QED
    BY <1>3, <2>2, <2>3 DEF c, r
<1>5. CASE ~(c.plain \/ c.unit = "count")
  <2>1. r = Reading!Rule("order", op, c.value, 0, source, "stated", i)
    BY <1>5 DEF Reading!ReadClause
  <2> HIDE DEF op, source, r
  <2>2. /\ r \in RuleType /\ r.from = "stated" /\ ~r.asks /\ r.clause = i
        /\ r.value = c.value
    BY <1>1, <1>2, <2>1 DEF Reading!Rule, RuleType
  <2> QED
    BY <1>3, <1>5, <2>2 DEF r
<1> QED
  BY <1>4, <1>5

(* What is added does not undo that, ... *)
LEMMA ReadsMore ==
    ASSUME NEW s \in Instructions, NEW rules, Reads(s, rules), NEW more \in Seq(RuleType),
           \A i \in DOMAIN more : Worded(more[i]) /\ more[i].from # "stated"
    PROVE  Reads(s, rules \o more)
<1> DEFINE all == rules \o more
<1>1. rules \in Seq(RuleType) /\ \A i \in DOMAIN rules : Traced(s, rules, rules[i])
  BY DEF Reads, TracedAll
<1>2. /\ all \in Seq(RuleType)
      /\ \A i \in DOMAIN rules : i \in DOMAIN all /\ all[i] = rules[i]
      /\ \A i \in DOMAIN all : i \notin DOMAIN rules =>
            i - Len(rules) \in DOMAIN more /\ all[i] = more[i - Len(rules)]
  BY <1>1
<1> HIDE DEF all
<1>3. ASSUME NEW i \in DOMAIN all PROVE Traced(s, all, all[i])
  <2>1. CASE i \in DOMAIN rules
    <3>1. Traced(s, rules, all[i])
      BY <1>1, <1>2, <2>1
    <3>2. \A j \in DOMAIN rules : j \in DOMAIN all /\ all[j] = rules[j]
      BY <1>2
    <3> QED
      BY <3>1, <3>2 DEF Traced
  <2>2. CASE i \notin DOMAIN rules
    <3>1. Worded(all[i])
      BY <1>2, <2>2
    <3> QED
      BY <3>1 DEF Worded, Traced
  <2> QED
    BY <2>1, <2>2
<1>4. ASSUME NEW i \in DOMAIN all, all[i].from = "stated", all[i].unit # "count"
      PROVE  all[i].value \in Reading!Stated(s)
  BY <1>2, <1>4 DEF Reads
<1>5. ASSUME NEW i \in DOMAIN s.clauses, s.clauses[i].plain
      PROVE  \E k \in DOMAIN all : Reading!Kind(all[k]) = Reading!Kind(s.clauses[i])
  <2>1. PICK k \in DOMAIN rules : Reading!Kind(rules[k]) = Reading!Kind(s.clauses[i])
    BY <1>5 DEF Reads
  <2> QED
    BY <1>2, <2>1
<1> QED
  BY <1>2, <1>3, <1>4, <1>5 DEF Reads, TracedAll, all

(* ... nor does asking, ... *)
LEMMA ReadsAsking ==
    ASSUME NEW s \in Instructions, NEW rules, Reads(s, rules), NEW asking,
           asking \in [DOMAIN rules -> BOOLEAN]
    PROVE  Reads(s, [i \in DOMAIN rules |-> [rules[i] EXCEPT !.asks = asking[i]]])
<1> DEFINE all == [i \in DOMAIN rules |-> [rules[i] EXCEPT !.asks = asking[i]]]
<1>1. rules \in Seq(RuleType) /\ \A i \in DOMAIN rules : Traced(s, rules, rules[i])
  BY DEF Reads, TracedAll
<1>2. ASSUME NEW i \in DOMAIN rules
      PROVE  /\ all[i] \in RuleType /\ all[i].unit = rules[i].unit /\ all[i].days = rules[i].days
             /\ all[i].value = rules[i].value /\ all[i].from = rules[i].from
  <2>1. rules[i] \in RuleType
    BY <1>1
  <2>2. asking[i] \in BOOLEAN /\ all[i] = [rules[i] EXCEPT !.asks = asking[i]]
    OBVIOUS
  <2> HIDE DEF all
  <2>3. \A r \in RuleType, b \in BOOLEAN : [r EXCEPT !.asks = b] \in RuleType
    BY DEF RuleType
  <2> QED
    BY <2>1, <2>2, <2>3 DEF RuleType
<1>3. all \in Seq(RuleType) /\ DOMAIN all = DOMAIN rules
  BY <1>1, <1>2
<1> HIDE DEF all
<1>4. ASSUME NEW i \in DOMAIN all PROVE Traced(s, all, all[i])
  <2>1. Traced(s, rules, rules[i])
    BY <1>1, <1>3
  <2>2. ByHistory(all[i])
    BY <1>2, <1>3, <2>1 DEF Traced, ByHistory
  <2> QED
    BY <1>2, <1>3, <2>1, <2>2 DEF Traced
<1>5. ASSUME NEW i \in DOMAIN all, all[i].from = "stated", all[i].unit # "count"
      PROVE  all[i].value \in Reading!Stated(s)
  BY <1>2, <1>3, <1>5 DEF Reads
<1>6. ASSUME NEW i \in DOMAIN s.clauses, s.clauses[i].plain
      PROVE  \E k \in DOMAIN all : Reading!Kind(all[k]) = Reading!Kind(s.clauses[i])
  <2>1. PICK k \in DOMAIN rules : Reading!Kind(rules[k]) = Reading!Kind(s.clauses[i])
    BY <1>6 DEF Reads
  <2>2. Reading!Kind(all[k]) = Reading!Kind(rules[k])
    BY <1>2 DEF Reading!Kind
  <2> QED
    BY <1>3, <2>1, <2>2
<1> QED
  BY <1>3, <1>4, <1>5, <1>6 DEF Reads, TracedAll, all

(* ... nor does leaving out what is there twice. *)
LEMMA ReadsDistinct ==
    ASSUME NEW s \in Instructions, NEW rules, Reads(s, rules)
    PROVE  Reads(s, Reading!Distinct(rules))
<1> DEFINE kept == Reading!Distinct(rules)
           order == Reading!InOrder(Reading!Firsts(rules))
<1>1. rules \in Seq(RuleType) /\ TracedAll(s, rules)
  BY DEF Reads, TracedAll
<1>2. TracedAll(s, kept)
  BY <1>1, DistinctIsTraced
<1>3. /\ \A k \in DOMAIN kept : order[k] \in DOMAIN rules /\ kept[k] = rules[order[k]]
      /\ \A i \in DOMAIN rules : \E k \in DOMAIN kept :
            Reading!Key(kept[k]) = Reading!Key(rules[i])
  BY <1>1, DistinctIs
<1> HIDE DEF kept, order
<1>4. ASSUME NEW i \in DOMAIN kept, kept[i].from = "stated", kept[i].unit # "count"
      PROVE  kept[i].value \in Reading!Stated(s)
  BY <1>3, <1>4 DEF Reads
<1>5. ASSUME NEW i \in DOMAIN s.clauses, s.clauses[i].plain
      PROVE  \E k \in DOMAIN kept : Reading!Kind(kept[k]) = Reading!Kind(s.clauses[i])
  <2>1. PICK j \in DOMAIN rules : Reading!Kind(rules[j]) = Reading!Kind(s.clauses[i])
    BY <1>5 DEF Reads
  <2>2. PICK k \in DOMAIN kept : Reading!Key(kept[k]) = Reading!Key(rules[j])
    BY <1>3
  <2>3. kept[k].unit = rules[j].unit /\ kept[k].days = rules[j].days
    BY <2>2 DEF Reading!Key
  <2>4. Reading!Kind(kept[k]) = Reading!Kind(rules[j])
    BY <2>3 DEF Reading!Kind
  <2> QED
    BY <2>1, <2>4
<1> QED
  BY <1>2, <1>4, <1>5 DEF Reads, kept

(* At most one rule asks, and none unless the customer wants it. *)
OneAsks(s, rules) ==
    /\ \A i, j \in DOMAIN rules : rules[i].asks /\ rules[j].asks => i = j
    /\ s.ask = "no" => \A i \in DOMAIN rules : ~rules[i].asks

(* No rule stands for "if a price changes" but that of a customer who      *)
(* says so, and only one. *)
Labelled(s, rules) ==
    /\ \A i \in DOMAIN rules :
          rules[i].clause >= -1 \/ (rules[i].clause = -3 /\ s.ask = "price")
    /\ \A i, j \in DOMAIN rules : rules[i].clause = -3 /\ rules[j].clause = -3 => i = j

(* The amounts and counts read, with the caps worked out. *)
LEMMA ReadAndCapped ==
    ASSUME NEW s \in Instructions
    PROVE  LET read == Reading!Chosen([i \in DOMAIN s.clauses |-> Reading!ReadClause(s, i)],
                                      Reading!Readable(s))
               capped == Reading!WithCaps(s, read)
           IN /\ Reads(s, capped)
              /\ \A i \in DOMAIN capped : ~capped[i].asks /\ capped[i].clause >= 0
<1> DEFINE all == [i \in DOMAIN s.clauses |-> Reading!ReadClause(s, i)]
           readable == Reading!Readable(s)
           read == Reading!Chosen(all, readable)
           capped == Reading!WithCaps(s, read)
<1>1. /\ s.clauses \in Seq(Reading!Clauses) /\ readable \in SUBSET DOMAIN s.clauses
      /\ \A i \in DOMAIN s.clauses : s.clauses[i].plain => i \in readable
  BY InstructionType DEF Reading!Readable
<1>2. all \in Seq(RuleType) /\ DOMAIN all = DOMAIN s.clauses
  <2>1. \A i \in DOMAIN s.clauses : Reading!ReadClause(s, i) \in RuleType
    BY ClauseIsRead
  <2> QED
    BY <1>1, <2>1
<1>3. /\ read \in Seq(RuleType)
      /\ \A k \in DOMAIN read : \E i \in readable : read[k] = all[i]
      /\ \A i \in readable : \E k \in DOMAIN read : read[k] = all[i]
  <2>1. all \in Seq(RuleType) /\ readable \in SUBSET DOMAIN all
    BY <1>1, <1>2
  <2> HIDE DEF all, readable
  <2>2. /\ read \in Seq(RuleType)
        /\ \A k \in DOMAIN read :
             Reading!InOrder(readable)[k] \in readable /\ read[k] = all[Reading!InOrder(readable)[k]]
        /\ \A i \in readable : \E k \in DOMAIN read : read[k] = all[i]
    BY <2>1, ChosenIs
  <2> QED
    BY <2>2
<1> HIDE DEF read, readable
<1>4. ASSUME NEW k \in DOMAIN read
      PROVE  /\ read[k].from = "stated" /\ ~read[k].asks /\ read[k].clause >= 1
             /\ read[k].unit # "count" => read[k].value \in Reading!Stated(s)
  <2>1. PICK i \in DOMAIN s.clauses : read[k] = Reading!ReadClause(s, i)
    BY <1>1, <1>3
  <2>2. i >= 1
    BY <1>1
  <2> QED
    BY <2>1, <2>2, ClauseIsRead
<1>5. \A k \in DOMAIN read : Worded(read[k])
  BY <1>4 DEF Worded, ByHistory
<1>6. /\ TracedAll(s, capped) /\ Len(capped) >= Len(read)
      /\ \A i \in DOMAIN read : i \in DOMAIN capped /\ capped[i] = read[i]
      /\ \A i \in DOMAIN capped : i > Len(read) =>
            /\ ~capped[i].asks /\ capped[i].from \in {"nights", "period"}
            /\ capped[i].clause = 0 \/ \E j \in DOMAIN read : capped[i].clause = read[j].clause
  BY <1>3, <1>5, CapsAreTraced
<1>7. capped \in Seq(RuleType) /\ \A i \in DOMAIN capped : i \in DOMAIN read \/ i > Len(read)
  BY <1>3, <1>6 DEF TracedAll
<1> HIDE DEF capped
<1>8. ASSUME NEW i \in DOMAIN capped
      PROVE  /\ ~capped[i].asks /\ capped[i].clause >= 0
             /\ capped[i].from = "stated" /\ capped[i].unit # "count"
                  => capped[i].value \in Reading!Stated(s)
  <2>3. \A j \in DOMAIN read : read[j].clause \in Int /\ read[j].clause >= 0
    <3>1. TAKE j \in DOMAIN read
    <3>2. read[j] \in RuleType
      BY <1>3
    <3>3. read[j].clause \in Int
      BY <3>2 DEF RuleType
    <3> QED
      BY <1>4, <3>3
  <2>1. CASE i \in DOMAIN read
    BY <1>4, <1>6, <2>1, <2>3
  <2>2. CASE i > Len(read)
    BY <1>6, <2>2, <2>3
  <2> QED
    BY <1>7, <2>1, <2>2
<1>9. ASSUME NEW i \in DOMAIN s.clauses, s.clauses[i].plain
      PROVE  \E k \in DOMAIN capped : Reading!Kind(capped[k]) = Reading!Kind(s.clauses[i])
  <2>1. PICK k \in DOMAIN read : read[k] = Reading!ReadClause(s, i)
    BY <1>1, <1>3, <1>9
  <2>2. Reading!Kind(read[k]) = Reading!Kind(s.clauses[i])
    BY <1>9, <2>1, ClauseIsRead
  <2> QED
    BY <1>6, <2>2
<1> QED
  BY <1>6, <1>8, <1>9 DEF Reads, capped, read, readable

LEMMA SamePriceIs ==
    ASSUME NEW s \in Instructions, paid \in Histories
    PROVE  /\ Reading!SamePrice(s) \in Seq(RuleType)
           /\ \A i \in DOMAIN Reading!SamePrice(s) :
                /\ Worded(Reading!SamePrice(s)[i]) /\ Reading!SamePrice(s)[i].from # "stated"
                /\ ~Reading!SamePrice(s)[i].asks /\ Reading!SamePrice(s)[i].clause = -1
<1>1. CASE s.same
  <2>1. "=" \in Reading!Ops /\ -1 \in Int
    BY DEF Reading!Ops
  <2>2. Reading!SamePrice(s) = Reading!FromHistory("=", -1)
    BY <1>1 DEF Reading!SamePrice
  <2> QED
    BY <2>1, <2>2, HistoryType
<1>2. CASE ~s.same
  BY <1>2 DEF Reading!SamePrice
<1> QED
  BY <1>1, <1>2

LEMMA PriceChangeIs ==
    ASSUME NEW s \in Instructions
    PROVE  /\ Reading!PriceChange(s) \in Seq(RuleType) /\ Len(Reading!PriceChange(s)) \in {0, 1}
           /\ s.ask # "price" => Reading!PriceChange(s) = << >>
           /\ \A i \in DOMAIN Reading!PriceChange(s) :
                /\ Worded(Reading!PriceChange(s)[i]) /\ Reading!PriceChange(s)[i].from # "stated"
                /\ Reading!PriceChange(s)[i].clause = -3
<1> DEFINE r == [Reading!Reference("=", -3) EXCEPT !.asks = TRUE]
           change == Reading!PriceChange(s)
<1>1. r \in RuleType /\ Worded(r) /\ r.from # "stated" /\ r.clause = -3
  <2> DEFINE q == Reading!Reference("=", -3)
  <2>1. /\ q \in RuleType /\ q.from = "reference" /\ q.unit = "order" /\ q.days = 0
        /\ q.clause = -3
    BY DEF Reading!Reference, Reading!Rule, RuleType, Reading!Ops
  <2>2. r = [q EXCEPT !.asks = TRUE]
    OBVIOUS
  <2> HIDE DEF q, r
  <2>3. /\ r \in RuleType /\ r.from = "reference" /\ r.unit = "order" /\ r.days = 0
        /\ r.clause = -3
    BY <2>1, <2>2 DEF RuleType
  <2> QED
    BY <2>3 DEF Worded, ByHistory
<1>2. change = << >> \/ (change = << r >> /\ s.ask = "price")
  BY DEF Reading!PriceChange
<1> HIDE DEF r, change
<1>3. CASE change = << >>
  BY <1>3 DEF change
<1>4. CASE change = << r >> /\ s.ask = "price"
  <2>1. change \in Seq(RuleType) /\ Len(change) = 1 /\ DOMAIN change = {1} /\ change[1] = r
    BY <1>1, <1>4
  <2> QED
    BY <1>1, <1>4, <2>1 DEF change
<1> QED
  BY <1>2, <1>3, <1>4

(* "Ask me if it changed" is about one rule or none. *)
LEMMA AskedForIs ==
    ASSUME NEW s \in Instructions, NEW rules \in Seq(RuleType), Labelled(s, rules)
    PROVE  /\ Reading!AskedFor(s, rules) \in SUBSET DOMAIN rules
           /\ s.ask \in {"no", "price"} => Reading!AskedFor(s, rules) = {}
           /\ Cardinality(Reading!AskedFor(s, rules)) = 1
                => \E i \in DOMAIN rules : Reading!AskedFor(s, rules) = {i}
<1> DEFINE asked == Reading!AskedFor(s, rules)
<1>1. asked \in SUBSET DOMAIN rules
  BY DEF Reading!AskedFor
<1>2. s.ask \in {"no", "price"} => asked = {}
  BY DEF Reading!AskedFor, Labelled
<1>3. IsFiniteSet(DOMAIN rules)
  BY FS_Interval
<1>4. IsFiniteSet(asked)
  BY <1>1, <1>3, FS_Subset
<1>5. ASSUME Cardinality(asked) = 1 PROVE \E i \in DOMAIN rules : asked = {i}
  <2>1. PICK i : asked = {i}
    BY <1>4, <1>5, FS_Singleton
  <2> QED
    BY <1>1, <2>1
<1> QED
  BY <1>1, <1>2, <1>5

(* The parser lets one rule ask at most, that of the clause before it. *)
LEMMA AskingIsOne ==
    ASSUME NEW s \in Instructions, NEW rules, Reads(s, rules),
           \A i \in DOMAIN rules : ~rules[i].asks /\ rules[i].clause >= -1
    PROVE  LET asked == Reading!AskIfChanged(s, rules)
           IN /\ Reads(s, asked) /\ DOMAIN asked = DOMAIN rules /\ OneAsks(s, asked)
              /\ s.ask = "price" => \A i \in DOMAIN asked : ~asked[i].asks
              /\ \A i \in DOMAIN asked : asked[i].clause >= -1
<1> DEFINE asked == Reading!AskIfChanged(s, rules)
           about == Reading!AskedFor(s, rules)
           asking == [i \in DOMAIN rules |->
                        i \in about /\ rules[i].from \in {"history", "reference"}]
<1>1. rules \in Seq(RuleType)
  BY DEF Reads, TracedAll
<1>2. Labelled(s, rules)
  <2>1. \A i \in DOMAIN rules : rules[i].clause # -3
    <3>1. TAKE i \in DOMAIN rules
    <3>2. rules[i] \in RuleType
      BY <1>1
    <3>3. rules[i].clause \in Int
      BY <3>2 DEF RuleType
    <3> QED
      BY <3>3
  <2> QED
    BY <2>1 DEF Labelled
<1>3. /\ about \in SUBSET DOMAIN rules
      /\ s.ask \in {"no", "price"} => about = {}
      /\ Cardinality(about) = 1 => \E i \in DOMAIN rules : about = {i}
  BY <1>1, <1>2, AskedForIs
<1>4. CASE Cardinality(about) # 1
  <2>1. asked = rules
    BY <1>4, CountedAlike DEF Reading!AskIfChanged
  <2> QED
    BY <2>1 DEF OneAsks
<1>5. CASE Cardinality(about) = 1
  <2>1. asked = [i \in DOMAIN rules |-> [rules[i] EXCEPT !.asks = asking[i]]]
    BY <1>5, CountedAlike DEF Reading!AskIfChanged
  <2>2. asking \in [DOMAIN rules -> BOOLEAN]
    OBVIOUS
  <2>3. \A i \in DOMAIN rules : asking[i] => i \in about
    OBVIOUS
  <2> HIDE DEF asking
  <2>4. Reads(s, asked)
    BY <2>1, <2>2, ReadsAsking
  <2>5. ASSUME NEW i \in DOMAIN rules
        PROVE  (asked[i].asks <=> asking[i]) /\ asked[i].clause = rules[i].clause
    <3>1. rules[i] \in RuleType /\ asked[i] = [rules[i] EXCEPT !.asks = asking[i]]
      BY <1>1, <2>1
    <3>2. asked[i].asks = asking[i] /\ asked[i].clause = rules[i].clause
      BY <3>1 DEF RuleType
    <3> QED
      BY <3>2, Zenon
  <2>6. DOMAIN asked = DOMAIN rules
    BY <2>1
  <2>7. PICK one \in DOMAIN rules : about = {one}
    BY <1>3, <1>5
  <2>8. s.ask \notin {"no", "price"}
    BY <1>3, <2>7
  <2> HIDE DEF asked, about
  <2>9. OneAsks(s, asked)
    BY <2>3, <2>5, <2>6, <2>7, <2>8 DEF OneAsks
  <2> QED
    BY <2>4, <2>5, <2>6, <2>8, <2>9 DEF asked
<1> QED
  BY <1>4, <1>5

(* So does what is left when rules that are there twice go. *)
LEMMA DistinctAsksOnce ==
    ASSUME NEW s, NEW rules \in Seq(RuleType), OneAsks(s, rules), Labelled(s, rules)
    PROVE  OneAsks(s, Reading!Distinct(rules)) /\ Labelled(s, Reading!Distinct(rules))
<1> DEFINE kept == Reading!Distinct(rules)
           order == Reading!InOrder(Reading!Firsts(rules))
<1>1. /\ \A k \in DOMAIN kept : order[k] \in DOMAIN rules /\ kept[k] = rules[order[k]]
      /\ \A k, l \in DOMAIN kept : order[k] = order[l] => k = l
  BY DistinctIs
<1> HIDE DEF kept, order
<1> QED
  BY <1>1 DEF OneAsks, Labelled, kept

(* The record of asking covers one rule at most. *)
LEMMA CoveredIsOne ==
    ASSUME NEW s \in Instructions, NEW rules \in Seq(RuleType), Labelled(s, rules)
    PROVE  /\ \A x, y \in Reading!AskedAbout(s, rules) : x = y
           /\ s.ask = "no" => Reading!AskedAbout(s, rules) = {}
<1> DEFINE asked == Reading!AskedFor(s, rules)
           one == IF Cardinality(asked) = 1 THEN asked ELSE {}
           about == one \cup {j \in DOMAIN rules : rules[j].clause = -3}
<1>1. Reading!AskedAbout(s, rules) = {Reading!Stem(Reading!IdOf(rules, i)) : i \in about}
  BY CountedAlike DEF Reading!AskedAbout
<1>2. /\ s.ask \in {"no", "price"} => asked = {}
      /\ Cardinality(asked) = 1 => \E i \in DOMAIN rules : asked = {i}
  BY AskedForIs
<1>3. \A i, j \in one : i = j
  BY <1>2
<1>4. \A j \in DOMAIN rules : rules[j].clause = -3 => s.ask = "price"
  BY DEF Labelled
<1>5. \A i, j \in about : i = j
  BY <1>2, <1>3, <1>4 DEF Labelled
<1>6. s.ask = "no" => about = {}
  BY <1>2, <1>4
<1> HIDE DEF about
<1> QED
  BY <1>1, <1>5, <1>6

(* parse(): what the parser's draft says, and what it covers. *)
LEMMA ParsedWell ==
    ASSUME NEW s \in Instructions, paid \in Histories
    PROVE  LET d == Reading!Parse(s)
           IN /\ Reads(s, d.rules) /\ OneAsks(s, d.rules)
              /\ d.kinds = s.kinds \ s.foreign
              /\ \A x, y \in d.covered : x = y
              /\ s.ask = "no" => d.covered = {}
<1> DEFINE read == Reading!Chosen([i \in DOMAIN s.clauses |-> Reading!ReadClause(s, i)],
                                  Reading!Readable(s))
           capped == Reading!WithCaps(s, read)
           same == Reading!SamePrice(s)
           all == capped \o same
           asked == Reading!AskIfChanged(s, all)
           change == Reading!PriceChange(s)
           words == asked \o change
           rules == Reading!Distinct(words)
<1>1. Reads(s, capped) /\ \A i \in DOMAIN capped : ~capped[i].asks /\ capped[i].clause >= 0
  BY ReadAndCapped
<1>2. capped \in Seq(RuleType)
  BY <1>1 DEF Reads, TracedAll
<1>3. /\ same \in Seq(RuleType)
      /\ \A i \in DOMAIN same : /\ Worded(same[i]) /\ same[i].from # "stated"
                                /\ ~same[i].asks /\ same[i].clause = -1
  BY SamePriceIs
<1> HIDE DEF capped, same
<1>4. Reads(s, all)
  BY <1>1, <1>3, ReadsMore
<1>5. \A i \in DOMAIN all : ~all[i].asks /\ all[i].clause >= -1
  <2>1. TAKE i \in DOMAIN all
  <2>2. CASE i \in DOMAIN capped
    <3>1. all[i] = capped[i] /\ capped[i] \in RuleType
      BY <1>2, <1>3, <2>2
    <3>2. capped[i].clause \in Int /\ capped[i].clause >= 0
      BY <1>1, <2>2, <3>1 DEF RuleType
    <3> QED
      BY <1>1, <2>2, <3>1, <3>2
  <2>3. CASE i \notin DOMAIN capped
    <3>1. PICK j \in DOMAIN same : all[i] = same[j]
      BY <1>2, <1>3, <2>3
    <3> QED
      BY <1>3, <3>1
  <2> QED
    BY <2>2, <2>3
<1> HIDE DEF all
<1>6. /\ Reads(s, asked) /\ OneAsks(s, asked)
      /\ s.ask = "price" => \A i \in DOMAIN asked : ~asked[i].asks
      /\ \A i \in DOMAIN asked : asked[i].clause >= -1
  BY <1>4, <1>5, AskingIsOne
<1>7. asked \in Seq(RuleType)
  BY <1>6 DEF Reads, TracedAll
<1>8. /\ change \in Seq(RuleType) /\ Len(change) \in {0, 1}
      /\ s.ask # "price" => change = << >>
      /\ \A i \in DOMAIN change : Worded(change[i]) /\ change[i].from # "stated"
                                  /\ change[i].clause = -3
  BY PriceChangeIs
<1> HIDE DEF asked, change
<1>9. Reads(s, words)
  BY <1>6, <1>8, ReadsMore
<1>10. /\ words \in Seq(RuleType)
       /\ \A i \in DOMAIN words :
            \/ i \in DOMAIN asked /\ words[i] = asked[i]
            \/ i = Len(asked) + 1 /\ change # << >> /\ words[i] = change[1]
  BY <1>7, <1>8
<1>11. \A i \in DOMAIN asked : asked[i].clause # -3
  <2>1. TAKE i \in DOMAIN asked
  <2>2. asked[i] \in RuleType
    BY <1>7
  <2>3. asked[i].clause \in Int /\ asked[i].clause >= -1
    BY <1>6, <2>2 DEF RuleType
  <2> QED
    BY <2>3
<1>12. change # << >> => s.ask = "price" /\ change[1].clause = -3
  BY <1>8
<1> HIDE DEF words
<1>13. OneAsks(s, words)
  <2>1. CASE change = << >>
    BY <1>6, <1>10, <2>1 DEF OneAsks
  <2>2. CASE change # << >>
    BY <1>6, <1>10, <1>12, <2>2 DEF OneAsks
  <2> QED
    BY <2>1, <2>2
<1>14. Labelled(s, words)
  <2>1. ASSUME NEW i \in DOMAIN words
        PROVE  words[i].clause >= -1 \/ (words[i].clause = -3 /\ s.ask = "price")
    BY <1>6, <1>10, <1>12
  <2>2. ASSUME NEW i \in DOMAIN words, NEW j \in DOMAIN words,
               words[i].clause = -3, words[j].clause = -3
        PROVE  i = j
    BY <1>10, <1>11, <2>2
  <2> QED
    BY <2>1, <2>2 DEF Labelled
<1>15. Reads(s, rules) /\ rules \in Seq(RuleType)
  <2>1. Reads(s, rules)
    BY <1>9, ReadsDistinct
  <2> QED
    BY <2>1 DEF Reads, TracedAll
<1>16. OneAsks(s, rules) /\ Labelled(s, rules)
  BY <1>10, <1>13, <1>14, DistinctAsksOnce
<1> DEFINE d == Reading!Parse(s)
<1> HIDE DEF rules, read
<1>17. /\ d.rules = Reading!Distinct(rules) /\ d.kinds = s.kinds \ s.foreign
       /\ d.covered = Reading!AskedAbout(s, rules)
  BY DEF Reading!Parse, Reading!Finalized, rules, words, asked, change, all, capped, same, read
<1>18. Reads(s, d.rules) /\ OneAsks(s, d.rules)
  BY <1>15, <1>16, <1>17, ReadsDistinct, DistinctAsksOnce
<1> QED
  BY <1>15, <1>16, <1>17, <1>18, CoveredIsOne

(* What a model answers becomes a rule, if there is a check for it. *)
LEMMA ConvertIs ==
    ASSUME NEW s \in Instructions, paid \in Histories, NEW r \in Reading!RawRules,
           Reading!IsCheck(r)
    PROVE  Reading!Convert(s, r) \in RuleType /\ Worded(Reading!Convert(s, r))
<1>1. /\ r.unit \in {"order", "item", "count"} /\ r.op \in Reading!Ops
      /\ r.value \in Nat /\ r.days \in Nat /\ r.asks \in BOOLEAN
  BY Parameters DEF Reading!RawRules, Reading!CompilerAssumption
<1> DEFINE words == Reading!BoundaryWords(s, r.value)
           source == IF r.quoted THEN "exact" ELSE "inferred"
           unit == IF r.unit = "item" /\ ~Reading!PerItem(s, r.value) THEN "order" ELSE r.unit
           op == IF r.unit = "count" /\ r.op = "=" THEN "<=" ELSE Reading!OnlyWord(s, r)
           last == Reading!FromHistory(r.op, 0)[1]
           rule == Reading!Rule(unit, op, r.value, r.days, source, "stated", 0)
<1>2. words \subseteq Reading!Ops
  <2>1. \A c \in Reading!Amounts(s) : c.word \in Reading!Ops \cup {"none"}
    <3>1. \A i \in DOMAIN s.clauses : s.clauses[i] \in Reading!Clauses
      BY InstructionType
    <3> QED
      BY <3>1 DEF Reading!Amounts, Reading!Range, Reading!Clauses
  <2> QED
    BY <2>1 DEF Reading!BoundaryWords
<1>3. Reading!OnlyWord(s, r) \in Reading!Ops
  <2>1. CASE words = {}
    <3>1. Reading!Cardinality(words) # 1
      BY <2>1, CountedAlike, FS_EmptySet
    <3>2. Reading!OnlyWord(s, r) = r.op
      BY <3>1 DEF Reading!OnlyWord
    <3> QED
      BY <1>1, <3>2
  <2>2. CASE words # {}
    <3>1. (CHOOSE w \in words : TRUE) \in words
      BY <2>2
    <3>2. Reading!OnlyWord(s, r) \in {r.op, CHOOSE w \in words : TRUE}
      BY DEF Reading!OnlyWord
    <3> QED
      BY <1>1, <1>2, <3>1, <3>2
  <2> QED
    BY <2>1, <2>2
<1>4. op \in Reading!Ops /\ unit \in {"order", "item", "count"} /\ source \in {"exact", "inferred"}
  BY <1>1, <1>3 DEF Reading!Ops
<1>5. CASE r.last
  <2>1. paid \in Seq(Nat) /\ paid # << >>
    BY <1>5, Parameters DEF Reading!IsCheck, Reading!CompilerAssumption
  <2>2. Len(paid) > 0
    BY <2>1
  <2>3. 0 \in Int
    OBVIOUS
  <2>4. last \in RuleType /\ Worded(last)
    <3>1. /\ Reading!FromHistory(r.op, 0) \in Seq(RuleType)
          /\ Len(Reading!FromHistory(r.op, 0)) = 1
          /\ \A i \in DOMAIN Reading!FromHistory(r.op, 0) : Worded(Reading!FromHistory(r.op, 0)[i])
      BY <1>1, <2>2, <2>3, HistoryType
    <3> QED
      BY <3>1
  <2>5. Reading!Convert(s, r) = [last EXCEPT !.asks = r.asks]
    BY <1>5 DEF Reading!Convert
  <2> HIDE DEF last
  <2> QED
    BY <1>1, <2>4, <2>5 DEF RuleType, Worded, ByHistory
<1>6. CASE ~r.last
  <2>1. Reading!Convert(s, r) = [rule EXCEPT !.asks = r.asks]
    BY <1>6 DEF Reading!Convert
  <2> HIDE DEF unit, op, source
  <2>2. rule \in RuleType /\ Worded(rule)
    BY <1>1, <1>4 DEF Reading!Rule, RuleType, Worded, ByHistory
  <2> HIDE DEF rule
  <2> QED
    BY <1>1, <2>1, <2>2 DEF RuleType, Worded, ByHistory
<1> QED
  BY <1>5, <1>6

LEMMA ReadIs ==
    ASSUME NEW s \in Instructions, paid \in Histories, NEW answer \in Reading!Answers
    PROVE  /\ TracedAll(s, Reading!Read(s, answer).rules)
           /\ Reading!Read(s, answer).kinds \subseteq Kinds
<1> DEFINE raw == answer.rules
           checks == {i \in DOMAIN raw : Reading!IsCheck(raw[i])}
           all == [i \in DOMAIN raw |-> Reading!Convert(s, raw[i])]
           specs == Reading!Chosen(all, checks)
           rules == Reading!WithCaps(s, specs)
           T == {all[i] : i \in DOMAIN raw}
<1>1. PICK n \in Nat : raw \in [1..n -> Reading!RawRules]
  <2>1. raw \in Reading!SeqOf(Reading!RawRules, MaxRules)
    BY DEF Reading!Answers
  <2> QED
    BY <2>1, Parameters DEF Reading!SeqOf, Reading!CompilerAssumption
<1>2. all \in Seq(T) /\ DOMAIN all = DOMAIN raw /\ checks \in SUBSET DOMAIN all
  BY <1>1
<1>3. \A i \in checks : all[i] \in RuleType /\ Worded(all[i])
  BY <1>1, ConvertIs
<1> HIDE DEF all, checks, T
<1>4. /\ specs \in Seq(T)
      /\ \A k \in DOMAIN specs :
           Reading!InOrder(checks)[k] \in checks /\ specs[k] = all[Reading!InOrder(checks)[k]]
  BY <1>2, ChosenIs
<1> HIDE DEF specs
<1>5. \A k \in DOMAIN specs : specs[k] \in RuleType /\ Worded(specs[k])
  BY <1>3, <1>4
<1>6. specs \in Seq(RuleType)
  BY <1>4, <1>5
<1>7. TracedAll(s, rules)
  BY <1>5, <1>6, CapsAreTraced
<1> HIDE DEF rules
<1>8. TracedAll(s, Reading!Distinct(rules))
  BY <1>7, DistinctIsTraced
<1>9. /\ Reading!Read(s, answer).rules = Reading!Distinct(rules)
      /\ Reading!Read(s, answer).kinds = answer.kinds
  BY DEF Reading!Read, Reading!Finalized, rules, specs, checks, all
<1>10. answer.kinds \subseteq Kinds
  BY DEF Reading!Answers
<1> QED
  BY <1>8, <1>9, <1>10

(* What a draft shown to the customer keeps of the words, whoever read them. *)
UsesAll(s, d) ==
    \A v \in Reading!Stated(s) : \E i \in DOMAIN d.rules : d.rules[i].value = v

ReadWell(s, d) ==
    /\ Reads(s, d.rules) /\ OneAsks(s, d.rules)
    /\ d.questions = {} => UsesAll(s, d)
    /\ s.kinds \ s.foreign \subseteq d.kinds

LEMMA NoIssues ==
    ASSUME NEW s, NEW d, NEW covered, Reading!Issues(s, d, covered) = {}
    PROVE  /\ Reading!AmountsUsed(s, d) /\ Reading!AskedOnly(d, covered)
           /\ \A r \in Reading!Range(d.rules) : Reading!NumberStated(s, r)
<1> DEFINE all == \A r \in Reading!Range(d.rules) : Reading!NumberStated(s, r)
<1>1. CASE ~Reading!AmountsUsed(s, d)
  <2>1. "amounts" \in Reading!Issues(s, d, covered)
    BY <1>1 DEF Reading!Issues
  <2> QED
    BY <2>1
<1>2. CASE ~all
  <2>1. "check" \in Reading!Issues(s, d, covered)
    BY <1>2 DEF Reading!Issues
  <2> QED
    BY <2>1
<1>3. CASE ~Reading!AskedOnly(d, covered)
  <2>1. "check" \in Reading!Issues(s, d, covered)
    BY <1>3 DEF Reading!Issues
  <2> QED
    BY <2>1
<1> QED
  BY <1>1, <1>2, <1>3

LEMMA AmountsAreUsed ==
    ASSUME NEW s, NEW d, Reading!AmountsUsed(s, d), "amounts" \notin d.questions
    PROVE  UsesAll(s, d)
BY DEF Reading!AmountsUsed, UsesAll, Reading!Range

(* lint_draft and lint_against_floor: a model's reading that is shown      *)
(* takes its amounts from the words, asks where they say so, and keeps     *)
(* what the parser read. *)
LEMMA ModelReadsWell ==
    ASSUME NEW s \in Instructions, paid \in Histories, NEW answer \in Reading!Answers,
           Reading!KeepsFloor(Reading!Read(s, answer), Reading!Parse(s)),
           Reading!Issues(s, Reading!Read(s, answer), Reading!Parse(s).covered) = {}
    PROVE  LET d == Reading!Read(s, answer)
           IN /\ Reads(s, d.rules) /\ OneAsks(s, d.rules)
              /\ "amounts" \notin d.questions => UsesAll(s, d)
              /\ s.kinds \ s.foreign \subseteq d.kinds
<1> DEFINE d == Reading!Read(s, answer)
           floor == Reading!Parse(s)
<1>1. TracedAll(s, d.rules) /\ d.kinds \subseteq Kinds
  BY ReadIs
<1>2. /\ Reads(s, floor.rules) /\ floor.kinds = s.kinds \ s.foreign
      /\ \A x, y \in floor.covered : x = y
      /\ s.ask = "no" => floor.covered = {}
  BY ParsedWell
<1>3. /\ Reading!AmountsUsed(s, d) /\ Reading!AskedOnly(d, floor.covered)
      /\ \A r \in Reading!Range(d.rules) : Reading!NumberStated(s, r)
  BY NoIssues
<1>4. Reading!Coverage(floor) \subseteq Reading!Coverage(d)
  BY DEF Reading!KeepsFloor
<1> HIDE DEF d, floor
<1>5. d.rules \in Seq(RuleType)
  BY <1>1 DEF TracedAll
<1>6. ASSUME NEW i \in DOMAIN d.rules, d.rules[i].from = "stated", d.rules[i].unit # "count"
      PROVE  d.rules[i].value \in Reading!Stated(s)
  <2>1. d.rules[i] \in Reading!Range(d.rules)
    BY DEF Reading!Range
  <2>2. Reading!NumberStated(s, d.rules[i])
    BY <1>3, <2>1
  <2> QED
    BY <1>6, <2>2 DEF Reading!NumberStated
<1>7. \A i \in DOMAIN d.rules : Reading!Kind(d.rules[i]) \in {"order", "item", "count", "period"}
  <2>1. TAKE i \in DOMAIN d.rules
  <2>2. d.rules[i] \in RuleType
    BY <1>5
  <2> QED
    BY <2>2 DEF Reading!Kind, RuleType
<1>8. Kinds \cap {"order", "item", "count", "period"} = {}
  BY Parameters DEF Reading!CompilerAssumption
<1>9. ASSUME NEW i \in DOMAIN s.clauses, s.clauses[i].plain
      PROVE  \E k \in DOMAIN d.rules : Reading!Kind(d.rules[k]) = Reading!Kind(s.clauses[i])
  <2>1. PICK j \in DOMAIN floor.rules : Reading!Kind(floor.rules[j]) = Reading!Kind(s.clauses[i])
    BY <1>2, <1>9 DEF Reads
  <2>2. Reading!Base(floor.rules[j]) \in Reading!Coverage(d)
    BY <1>4 DEF Reading!Coverage, Reading!Range
  <2>3. CASE Reading!Base(floor.rules[j]) \in {Reading!Base(r) : r \in Reading!Range(d.rules)}
    <3>1. PICK k \in DOMAIN d.rules : Reading!Base(floor.rules[j]) = Reading!Base(d.rules[k])
      BY <2>3 DEF Reading!Range
    <3>2. Reading!Kind(floor.rules[j]) = Reading!Kind(d.rules[k])
      BY <3>1 DEF Reading!Base
    <3> QED
      BY <2>1, <3>2
  <2>4. CASE Reading!Base(floor.rules[j]) \in d.kinds \X {FALSE}
    <3>1. Reading!Kind(floor.rules[j]) \in Kinds
      BY <1>1, <2>4 DEF Reading!Base
    <3>2. floor.rules[j] \in RuleType
      BY <1>2 DEF Reads, TracedAll
    <3>3. Reading!Kind(floor.rules[j]) \in {"order", "item", "count", "period"}
      BY <3>2 DEF Reading!Kind, RuleType
    <3> QED
      BY <1>8, <3>1, <3>3
  <2> QED
    BY <2>2, <2>3, <2>4 DEF Reading!Coverage
<1>10. s.kinds \ s.foreign \subseteq d.kinds
  <2>1. SUFFICES ASSUME NEW k \in s.kinds \ s.foreign PROVE k \in d.kinds
    OBVIOUS
  <2>2. k \in floor.kinds /\ k \in Kinds
    BY <1>2, InstructionType
  <2>3. <<k, FALSE>> \in Reading!Coverage(floor)
    BY <2>2 DEF Reading!Coverage
  <2>4. <<k, FALSE>> \in Reading!Coverage(d)
    BY <1>4, <2>3
  <2>5. CASE <<k, FALSE>> \in {Reading!Base(r) : r \in Reading!Range(d.rules)}
    <3>1. PICK i \in DOMAIN d.rules : <<k, FALSE>> = Reading!Base(d.rules[i])
      BY <2>5 DEF Reading!Range
    <3>2. k = Reading!Kind(d.rules[i])
      BY <3>1 DEF Reading!Base
    <3> QED
      BY <1>7, <1>8, <2>2, <3>2
  <2> QED
    BY <2>4, <2>5 DEF Reading!Coverage
<1>11. OneAsks(s, d.rules)
  <2>1. ASSUME NEW i \in DOMAIN d.rules, d.rules[i].asks
        PROVE  Reading!Stem(Reading!IdOf(d.rules, i)) \in floor.covered
    BY <1>3, <2>1 DEF Reading!AskedOnly
  <2>2. ASSUME NEW i \in DOMAIN d.rules, NEW j \in DOMAIN d.rules,
               d.rules[i].asks, d.rules[j].asks
        PROVE  i = j
    <3>1. Reading!Stem(Reading!IdOf(d.rules, i)) = Reading!Stem(Reading!IdOf(d.rules, j))
      BY <1>2, <2>1, <2>2
    <3> QED
      BY <1>5, <2>2, <3>1, StemsDiffer
  <2> QED
    BY <1>2, <2>1, <2>2 DEF OneAsks
<1>12. "amounts" \notin d.questions => UsesAll(s, d)
  BY <1>3, AmountsAreUsed
<1> QED
  BY <1>1, <1>6, <1>9, <1>10, <1>11, <1>12 DEF Reads, d

(* A draft is a reading of the words or what the customer filled in. *)
DraftWell(s, d) ==
    /\ d.by \in {"llm", "fallback", "form"} /\ d.rules \in Seq(RuleType)
    /\ d.by # "form" => ReadWell(s, d)
    /\ d.by = "form" => \A i \in DOMAIN d.rules : Reading!IsCap(d.rules[i]) =>
                            \E f \in Forms : d.rules[i].value = f.order

(* A policy comes of a draft and keeps a cap of it. *)
ReadingInv ==
    /\ said \in Instructions /\ paid \in Histories
    /\ draft = << >> \/ DraftWell(said, draft[1])
    /\ agreed # << >> =>
          draft # << >> /\ \E i \in DOMAIN draft[1].rules :
                               Reading!IsCap(draft[1].rules[i]) /\ draft[1].rules[i] \in agreed[1]

LEMMA ShownIs ==
    ASSUME NEW d, NEW issues, NEW by
    PROVE  /\ Len(Reading!Shown(d, issues, by)) = 1
           /\ Reading!Shown(d, issues, by)[1].rules = d.rules
           /\ Reading!Shown(d, issues, by)[1].kinds = d.kinds
           /\ Reading!Shown(d, issues, by)[1].by = by
           /\ d.questions \cup issues \subseteq Reading!Shown(d, issues, by)[1].questions
BY DEF Reading!Shown

(* compile_instruction, with no model: the parser's. *)
LEMMA FallbackReads ==
    ASSUME NEW s \in Instructions, paid \in Histories
    PROVE  DraftWell(s, Reading!Fallback(s)[1])
<1> DEFINE d == Reading!Parse(s)
           issues == Reading!Issues(s, d, d.covered)
           shown == Reading!Fallback(s)[1]
<1>1. Reads(s, d.rules) /\ OneAsks(s, d.rules) /\ d.kinds = s.kinds \ s.foreign
  BY ParsedWell
<1>2. /\ shown.rules = d.rules /\ shown.kinds = d.kinds /\ shown.by = "fallback"
      /\ d.questions \cup issues \subseteq shown.questions
  BY ShownIs DEF Reading!Fallback
<1>3. d.rules \in Seq(RuleType)
  BY <1>1 DEF Reads, TracedAll
<1> HIDE DEF shown, d, issues
<1>4. ASSUME shown.questions = {} PROVE UsesAll(s, shown)
  <2>1. issues = {} /\ "amounts" \notin d.questions
    BY <1>2, <1>4
  <2>2. Reading!AmountsUsed(s, d)
    BY <2>1, NoIssues DEF issues
  <2>3. UsesAll(s, d)
    BY <2>1, <2>2, AmountsAreUsed
  <2> QED
    BY <1>2, <2>3 DEF UsesAll
<1>5. ReadWell(s, shown)
  BY <1>1, <1>2, <1>4 DEF ReadWell
<1> QED
  BY <1>2, <1>3, <1>5 DEF DraftWell, shown

(* ... with one: the model's, when nothing is wrong with it. *)
LEMMA ModelReads ==
    ASSUME NEW s \in Instructions, paid \in Histories, NEW answer \in Reading!Answers,
           Reading!KeepsFloor(Reading!Read(s, answer), Reading!Parse(s)),
           Reading!Issues(s, Reading!Read(s, answer), Reading!Parse(s).covered) = {}
    PROVE  DraftWell(s, Reading!Shown(Reading!Read(s, answer), {}, "llm")[1])
<1> DEFINE d == Reading!Read(s, answer)
           shown == Reading!Shown(d, {}, "llm")[1]
<1>1. /\ Reads(s, d.rules) /\ OneAsks(s, d.rules)
      /\ "amounts" \notin d.questions => UsesAll(s, d)
      /\ s.kinds \ s.foreign \subseteq d.kinds
  BY ModelReadsWell
<1>2. /\ shown.rules = d.rules /\ shown.kinds = d.kinds /\ shown.by = "llm"
      /\ d.questions \subseteq shown.questions
  BY ShownIs
<1>3. d.rules \in Seq(RuleType)
  BY <1>1 DEF Reads, TracedAll
<1> HIDE DEF shown, d
<1>4. shown.questions = {} => UsesAll(s, shown)
  BY <1>1, <1>2 DEF UsesAll
<1>5. ReadWell(s, shown)
  BY <1>1, <1>2, <1>4 DEF ReadWell
<1> QED
  BY <1>2, <1>3, <1>5 DEF DraftWell, shown, d

(* form_rules: what the customer filled in. *)
LEMMA FormIs ==
    ASSUME NEW s, NEW f \in Forms, NEW rules,
           rules = (IF f.order = 0 THEN << >>
                    ELSE << Reading!Rule("order", "<=", f.order, 0, "exact", "form", 0) >>)
                   \o (IF f.period = 0 \/ f.days = 0 THEN << >>
                       ELSE << Reading!Rule("order", "<=", f.period, f.days, "exact", "form", 0) >>)
    PROVE  DraftWell(s, Reading!Shown([rules |-> rules, kinds |-> {}, questions |-> {}], {}, "form")[1])
<1> DEFINE order == Reading!Rule("order", "<=", f.order, 0, "exact", "form", 0)
           period == Reading!Rule("order", "<=", f.period, f.days, "exact", "form", 0)
           one == IF f.order = 0 THEN << >> ELSE << order >>
           two == IF f.period = 0 \/ f.days = 0 THEN << >> ELSE << period >>
           d == [rules |-> rules, kinds |-> {}, questions |-> {}]
           shown == Reading!Shown(d, {}, "form")[1]
<1>1. f.order \in Nat /\ f.period \in Nat /\ f.days \in Nat
  BY Parameters DEF Reading!CompilerAssumption
<1>2. /\ order \in RuleType /\ period \in RuleType /\ order.value = f.order
      /\ period.days = f.days
  BY <1>1 DEF Reading!Rule, RuleType, Reading!Ops
<1> HIDE DEF order, period
<1>3. one \in Seq(RuleType) /\ (one = << >> \/ one = << order >>)
  BY <1>2
<1>4. two \in Seq(RuleType) /\ (two = << >> \/ (two = << period >> /\ f.days # 0))
  BY <1>2
<1>5. rules = one \o two
  BY DEF order, period
<1> HIDE DEF one, two
<1>6. /\ rules \in Seq(RuleType)
      /\ \A i \in DOMAIN rules : rules[i] = order \/ (rules[i] = period /\ f.days # 0)
  BY <1>3, <1>4, <1>5
<1>7. \A i \in DOMAIN rules : Reading!IsCap(rules[i]) => rules[i].value = f.order
  BY <1>2, <1>6 DEF Reading!IsCap
<1>8. shown.rules = rules /\ shown.by = "form"
  <2> HIDE DEF d
  <2>1. shown.rules = d.rules /\ shown.by = "form"
    BY ShownIs
  <2> QED
    BY <2>1 DEF d
<1> HIDE DEF shown
<1> QED
  BY <1>6, <1>7, <1>8 DEF DraftWell, shown

LEMMA ReadingInitially == Reading!Init => ReadingInv
BY DEF Reading!Init, ReadingInv

LEMMA StaysWell ==
    ASSUME NEW CONSTANT s, NEW CONSTANT d, UNCHANGED paid, DraftWell(s, d)
    PROVE  DraftWell(s, d)'
BY DEF DraftWell, ReadWell, Reads, TracedAll, Traced, ByHistory, OneAsks, UsesAll

LEMMA ReadingKept ==
    ASSUME ReadingInv, UNCHANGED <<said, paid, agreed>>, agreed = << >>,
           DraftWell(said, draft'[1])
    PROVE  ReadingInv'
<1>1. ASSUME NEW CONSTANT s, NEW CONSTANT d, s = said, d = draft'[1]
      PROVE  ReadingInv'
  <2>1. DraftWell(s, d)'
    BY <1>1, StaysWell
  <2> QED
    BY <1>1, <2>1 DEF ReadingInv
<1> QED
  BY <1>1

LEMMA ReadingInductive ==
    ASSUME ReadingInv, [Reading!Next]_draftVars
    PROVE  ReadingInv'
<1>1. said \in Instructions /\ paid \in Histories
  BY DEF ReadingInv
<1>2. ASSUME draft = << >> PROVE agreed = << >>
  BY <1>2 DEF ReadingInv
<1>3. CASE Reading!CompileWithParser
  <2>1. /\ draft = << >> /\ draft' = Reading!Fallback(said)
        /\ UNCHANGED <<said, paid, agreed>>
    BY <1>3 DEF Reading!CompileWithParser
  <2>2. DraftWell(said, draft'[1])
    BY <1>1, <2>1, FallbackReads
  <2> QED
    BY <1>2, <2>1, <2>2, ReadingKept
<1>4. CASE Reading!CompileWithModel
  <2>1. PICK answer \in Reading!Answers :
          /\ draft = << >> /\ UNCHANGED <<said, paid, agreed>>
          /\ draft' = IF /\ Reading!KeepsFloor(Reading!Read(said, answer), Reading!Parse(said))
                         /\ Reading!Issues(said, Reading!Read(said, answer),
                                           Reading!Parse(said).covered) = {}
                      THEN Reading!Shown(Reading!Read(said, answer), {}, "llm")
                      ELSE Reading!Fallback(said)
    BY <1>4 DEF Reading!CompileWithModel
  <2>2. DraftWell(said, draft'[1])
    BY <1>1, <2>1, FallbackReads, ModelReads
  <2> QED
    BY <1>2, <2>1, <2>2, ReadingKept
<1>5. CASE Reading!BuildForm
  <2>1. draft = << >> /\ UNCHANGED <<said, paid, agreed>>
    BY <1>5 DEF Reading!BuildForm
  <2>2. DraftWell(said, draft'[1])
    BY <1>5, FormIs DEF Reading!BuildForm
  <2> QED
    BY <1>2, <2>1, <2>2, ReadingKept
<1>6. CASE Reading!ConfirmDraft
  <2>1. PICK kept \in SUBSET DOMAIN draft[1].rules :
          /\ draft # << >> /\ UNCHANGED <<said, paid, draft>>
          /\ Reading!LintAccepted(draft[1].rules, kept)
          /\ agreed' = << {draft[1].rules[i] : i \in kept} >>
    BY <1>6 DEF Reading!ConfirmDraft
  <2>2. PICK i \in kept : Reading!IsCap(draft[1].rules[i])
    BY <2>1 DEF Reading!LintAccepted
  <2>3. draft[1].rules[i] \in agreed'[1]
    BY <2>1
  <2>4. DraftWell(said, draft[1])
    BY <2>1 DEF ReadingInv
  <2>5. DraftWell(said', draft'[1])
    BY <2>1, <2>4
  <2>6. DraftWell(said, draft[1])'
    <3>1. ASSUME NEW CONSTANT s, NEW CONSTANT d, s = said, d = draft[1]
          PROVE  DraftWell(said, draft[1])'
      <4>1. DraftWell(s, d)'
        BY <2>1, <2>4, <3>1, StaysWell
      <4> QED
        BY <2>1, <3>1, <4>1
    <3> QED
      BY <3>1
  <2> QED
    BY <1>1, <2>1, <2>2, <2>3, <2>6 DEF ReadingInv, Reading!IsCap, Reading!IsAmount
<1>7. CASE UNCHANGED draftVars
  <2>1. UNCHANGED <<said, paid, draft, agreed>>
    BY <1>7 DEF draftVars
  <2>2. ASSUME NEW CONSTANT s, NEW CONSTANT d, s = said, d = draft[1], DraftWell(s, d)
        PROVE  DraftWell(said, draft[1])'
    <3>1. DraftWell(s, d)'
      BY <2>1, <2>2, StaysWell
    <3> QED
      BY <2>1, <2>2, <3>1
  <2>3. CASE draft = << >>
    BY <1>1, <2>1, <2>3 DEF ReadingInv
  <2>4. CASE draft # << >>
    <3>1. DraftWell(said, draft[1])
      BY <2>4 DEF ReadingInv
    <3>2. DraftWell(said, draft[1])'
      BY <2>2, <3>1
    <3> QED
      BY <1>1, <2>1, <3>2 DEF ReadingInv, Reading!IsCap, Reading!IsAmount
  <2> QED
    BY <2>3, <2>4
<1> QED
  BY <1>3, <1>4, <1>5, <1>6, <1>7 DEF Reading!Next

(* What a cap of a reading allows is in the words, or made of them. *)
LEMMA CapIsStated ==
    ASSUME NEW s \in Instructions, paid \in Histories, NEW rules, Reads(s, rules),
           NEW i \in DOMAIN rules, Reading!IsCap(rules[i])
    PROVE  rules[i].value \in Reading!Stated(s) \cup Reading!Resolved(s)
<1> DEFINE r == rules[i]
<1>1. /\ Traced(s, rules, r) /\ r \in RuleType
      /\ r.unit = "order" /\ r.days = 0 /\ r.from # "reference"
  BY DEF Reads, TracedAll, Reading!IsCap, Reading!IsAmount
<1>2. CASE r.from = "stated"
  BY <1>1, <1>2 DEF Reads
<1>3. CASE r.from = "history"
  BY <1>1, <1>3 DEF Traced, ByHistory, Reading!Resolved
<1>4. CASE r.from = "nights"
  <2>1. PICK j \in DOMAIN rules : /\ rules[j].unit = "item" /\ rules[j].from = "stated"
                                  /\ r.value = rules[j].value * s.nights
    BY <1>1, <1>4 DEF Traced
  <2>2. rules[j].value \in Reading!Stated(s)
    BY <2>1 DEF Reads
  <2>3. rules[j] \in RuleType
    BY DEF Reads, TracedAll
  <2>4. r.value = s.nights * rules[j].value
    BY <2>1, <2>3, InstructionType DEF RuleType
  <2> QED
    BY <2>2, <2>4 DEF Reading!Resolved
<1>5. CASE r.from = "period"
  <2>1. PICK j \in DOMAIN rules : /\ rules[j].unit = "order" /\ rules[j].from = "stated"
                                  /\ r.value = rules[j].value
    BY <1>1, <1>5 DEF Traced
  <2> QED
    BY <2>1 DEF Reads
<1> QED
  BY <1>1, <1>2, <1>3, <1>4, <1>5 DEF Traced

LEMMA SpendHolds == ReadingInv => Reading!SpendIsStated
<1> SUFFICES ASSUME ReadingInv, agreed # << >>, NEW price \in Prices,
                    \A r \in agreed[1] : Reading!Fits(r, price)
             PROVE  \E m \in IF Reading!Read1 THEN Reading!Stated(said) \cup Reading!Resolved(said)
                             ELSE {f.order : f \in Forms} : price <= m
  BY DEF Reading!SpendIsStated
<1>1. /\ said \in Instructions /\ paid \in Histories
      /\ draft # << >> /\ DraftWell(said, draft[1])
  BY DEF ReadingInv
<1>2. PICK i \in DOMAIN draft[1].rules :
            Reading!IsCap(draft[1].rules[i]) /\ draft[1].rules[i] \in agreed[1]
  BY DEF ReadingInv
<1> DEFINE r == draft[1].rules[i]
<1>3. /\ r \in RuleType /\ Reading!Fits(r, price)
      /\ r.unit = "order" /\ r.from # "reference"
  BY <1>1, <1>2 DEF DraftWell, Reading!IsCap, Reading!IsAmount
<1>4. price \in Nat
  BY Parameters DEF Reading!CompilerAssumption
<1>5. price <= r.value
  BY <1>3, <1>4 DEF Reading!Fits, RuleType, Reading!Ops
<1>6. CASE Reading!Read1
  <2>1. Reads(said, draft[1].rules)
    BY <1>1, <1>6 DEF DraftWell, ReadWell, Reading!Read1
  <2>2. r.value \in Reading!Stated(said) \cup Reading!Resolved(said)
    BY <1>1, <1>2, <2>1, CapIsStated
  <2> QED
    BY <1>5, <1>6, <2>2
<1>7. CASE ~Reading!Read1
  <2>1. PICK f \in Forms : r.value = f.order
    BY <1>1, <1>2, <1>7 DEF DraftWell, Reading!Read1
  <2> QED
    BY <1>5, <1>7, <2>1
<1> QED
  BY <1>6, <1>7

LEMMA NothingIsLost == ReadingInv => Reading!NothingLost
<1> SUFFICES ASSUME ReadingInv, Reading!Read1, draft[1].questions = {}
             PROVE  /\ Reading!Stated(said) \subseteq {r.value : r \in Reading!Range(draft[1].rules)}
                    /\ \A c \in Reading!Range(said.clauses) : c.plain =>
                          \E r \in Reading!Range(draft[1].rules) : Reading!Kind(r) = Reading!Kind(c)
                    /\ said.kinds \ said.foreign \subseteq draft[1].kinds
  BY DEF Reading!NothingLost
<1>1. ReadWell(said, draft[1])
  BY DEF ReadingInv, DraftWell, Reading!Read1
<1>2. Reads(said, draft[1].rules) /\ UsesAll(said, draft[1])
  BY <1>1 DEF ReadWell
<1>3. \A i \in DOMAIN draft[1].rules : draft[1].rules[i] \in Reading!Range(draft[1].rules)
  BY DEF Reading!Range
<1>4. Reading!Stated(said) \subseteq {r.value : r \in Reading!Range(draft[1].rules)}
  BY <1>2, <1>3 DEF UsesAll
<1>5. ASSUME NEW c \in Reading!Range(said.clauses), c.plain
      PROVE  \E r \in Reading!Range(draft[1].rules) : Reading!Kind(r) = Reading!Kind(c)
  <2>1. PICK i \in DOMAIN said.clauses : c = said.clauses[i]
    BY DEF Reading!Range
  <2> QED
    BY <1>2, <1>3, <1>5, <2>1 DEF Reads
<1> QED
  BY <1>1, <1>4, <1>5 DEF ReadWell

LEMMA AskedOnce == ReadingInv => Reading!AsksOnce
<1> SUFFICES ASSUME ReadingInv, Reading!Read1
             PROVE  Reading!Cardinality({i \in DOMAIN draft[1].rules : draft[1].rules[i].asks})
                      <= (IF said.ask = "no" THEN 0 ELSE 1)
  BY DEF Reading!AsksOnce
<1> DEFINE asking == {i \in DOMAIN draft[1].rules : draft[1].rules[i].asks}
<1>1. OneAsks(said, draft[1].rules)
  BY DEF ReadingInv, DraftWell, ReadWell, Reading!Read1
<1>2. asking = {} \/ \E i : asking = {i}
  <2>1. SUFFICES ASSUME NEW i \in asking PROVE asking = {i}
    OBVIOUS
  <2>2. \A j \in asking : j = i
    BY <1>1 DEF OneAsks
  <2> QED
    BY <2>2
<1>3. said.ask = "no" => asking = {}
  BY <1>1 DEF OneAsks
<1> HIDE DEF asking
<1>4. Cardinality(asking) \in {0, 1} /\ (asking = {} => Cardinality(asking) = 0)
  BY <1>2, FS_EmptySet, FS_Singleton
<1>5. Cardinality(asking) <= (IF said.ask = "no" THEN 0 ELSE 1)
  BY <1>3, <1>4
<1> QED
  BY <1>5, CountedAlike DEF asking

LEMMA ReadingTypeHolds == ReadingInv => Reading!TypeOK
<1> SUFFICES ASSUME ReadingInv PROVE Reading!TypeOK
  OBVIOUS
<1>1. CASE draft = << >>
  BY <1>1 DEF ReadingInv, Reading!TypeOK
<1>2. CASE draft # << >>
  <2>1. DraftWell(said, draft[1])
    BY <1>2 DEF ReadingInv
  <2>2. draft[1].rules \in Seq(RuleType)
    BY <2>1 DEF DraftWell
  <2>3. \A i, j \in DOMAIN draft[1].rules :
          Reading!IdOf(draft[1].rules, i) = Reading!IdOf(draft[1].rules, j) => i = j
    BY <2>2, IdsDiffer
  <2> QED
    BY <2>1, <2>3 DEF ReadingInv, DraftWell, Reading!TypeOK
<1> QED
  BY <1>1, <1>2

(* C1, C2: whoever reads a customer's words, a draft has no amount they    *)
(* did not state, loses none they did, and asks once and only where they   *)
(* say so; and a policy keeps a cap of it.  (parse, read_with_llm, lint,   *)
(* lint_against_floor, lint_accepted) *)
THEOREM ReadingsKeep == WholeSpec => []ReadingsKeepTheInstruction
<1>1. WholeInit => ReadingInv
  BY ReadingInitially DEF WholeInit
<1>2. ReadingInv /\ [WholeNext]_whole => ReadingInv'
  <2> SUFFICES ASSUME ReadingInv, [WholeNext]_whole PROVE ReadingInv'
    OBVIOUS
  <2>1. Reading!Next \/ UNCHANGED draftVars
    BY DEF WholeNext, whole
  <2> QED
    BY <2>1, ReadingInductive
<1>3. ReadingInv => ReadingsKeepTheInstruction
  BY SpendHolds, NothingIsLost, AskedOnce, ReadingTypeHolds DEF ReadingsKeepTheInstruction
<1> QED
  BY <1>1, <1>2, <1>3, PTL DEF WholeSpec

-----------------------------------------------------------------------------
(* Sums of natural numbers over finite sets: they do not depend on the     *)
(* order, add up, and stay the same under other names.                     *)

(* The element a sum takes first, and what it makes of a set given its     *)
(* results for smaller ones. *)
First(s) == CHOOSE x \in s : TRUE
Adds(w, it, s) == IF s = {} THEN 0 ELSE w[First(s)] + it[s \ {First(s)}]
IsSum(w, S, it) == it = [s \in SUBSET S |-> Adds(w, it, s)]

SumOf(w, S) == (CHOOSE it : IsSum(w, S, it))[S]

LEMMA FirstIn ==
    ASSUME NEW s, s # {}
    PROVE  First(s) \in s
BY DEF First

(* The recursion has a solution, of numbers. *)
LEMMA SumExists ==
    ASSUME NEW S, IsFiniteSet(S), NEW w \in [S -> Nat]
    PROVE  \E it \in [SUBSET S -> Nat] : IsSum(w, S, it)
<1> DEFINE Upto(n) == \E it \in [SUBSET S -> Nat] : \A s \in SUBSET S :
                          Cardinality(s) <= n => it[s] = Adds(w, it, s)
           T == {n \in Nat : ~Upto(n)}
<1>0. \A s \in SUBSET S : IsFiniteSet(s) /\ Cardinality(s) \in Nat
                          /\ Cardinality(s) <= Cardinality(S)
  BY FS_Subset, FS_CardinalityType
<1>1. Upto(0)
  <2> DEFINE it == [s \in SUBSET S |-> 0]
  <2>1. \A s \in SUBSET S : Cardinality(s) <= 0 => s = {}
    BY <1>0, FS_EmptySet
  <2>2. it \in [SUBSET S -> Nat]
    OBVIOUS
  <2>3. ASSUME NEW s \in SUBSET S, Cardinality(s) <= 0
        PROVE  it[s] = Adds(w, it, s)
    BY <2>1, <2>3 DEF Adds
  <2> HIDE DEF it
  <2> QED BY <2>2, <2>3
<1>2. ASSUME NEW n \in Nat, Upto(n)
      PROVE  Upto(n + 1)
  <2>1. PICK it \in [SUBSET S -> Nat] : \A s \in SUBSET S :
            Cardinality(s) <= n => it[s] = Adds(w, it, s)
    BY <1>2
  <2> DEFINE next == [s \in SUBSET S |-> IF Cardinality(s) <= n THEN it[s] ELSE Adds(w, it, s)]
  <2>2. ASSUME NEW s \in SUBSET S, s # {}
        PROVE  /\ First(s) \in S /\ s \ {First(s)} \in SUBSET S
               /\ Cardinality(s \ {First(s)}) = Cardinality(s) - 1
    BY <1>0, <2>2, FirstIn, FS_RemoveElement
  <2>3. next \in [SUBSET S -> Nat]
    <3>1. ASSUME NEW s \in SUBSET S
          PROVE  Adds(w, it, s) \in Nat
      BY <2>2 DEF Adds
    <3> QED BY <3>1
  <2>4. ASSUME NEW s \in SUBSET S, Cardinality(s) <= n + 1
        PROVE  next[s] = Adds(w, next, s)
    <3>1. next[s] = Adds(w, it, s)
      BY <2>1
    <3>2. s # {} => next[s \ {First(s)}] = it[s \ {First(s)}]
      BY <1>0, <2>2, <2>4
    <3> HIDE DEF next
    <3> QED BY <3>1, <3>2 DEF Adds
  <2> HIDE DEF next
  <2> QED BY <2>3, <2>4
<1>3. T = {}
  <2>1. SUFFICES ASSUME T # {} PROVE FALSE
    OBVIOUS
  <2> HIDE DEF Upto
  <2>2. PICK n \in T : \A m \in T : n <= m
    BY <2>1, Least
  <2>3. n # 0
    BY <1>1, <2>2
  <2>4. n - 1 \in Nat /\ n - 1 \notin T /\ n = (n - 1) + 1
    BY <2>2, <2>3
  <2> QED BY <1>2, <2>2, <2>4
<1>4. PICK it \in [SUBSET S -> Nat] : \A s \in SUBSET S :
          Cardinality(s) <= Cardinality(S) => it[s] = Adds(w, it, s)
  BY <1>3, FS_CardinalityType
<1>5. IsSum(w, S, it)
  <2>1. \A s \in SUBSET S : it[s] = Adds(w, it, s)
    BY <1>0, <1>4
  <2> QED BY <1>4, <2>1 DEF IsSum
<1> QED BY <1>5

(* Any two solutions agree. *)
LEMMA SumUnique ==
    ASSUME NEW S, IsFiniteSet(S), NEW w \in [S -> Nat],
           NEW a, NEW b, IsSum(w, S, a), NEW R, S \subseteq R, IsFiniteSet(R), NEW v \in [R -> Nat],
           \A x \in S : v[x] = w[x], IsSum(v, R, b)
    PROVE  \A s \in SUBSET S : a[s] = b[s]
<1> DEFINE T == {s \in SUBSET S : a[s] # b[s]}
<1>1. SUFFICES ASSUME T # {} PROVE FALSE
  OBVIOUS
<1>2. PICK s \in T : \A r \in SUBSET s : r # s => r \notin T
  <2>1. T \in SUBSET SUBSET S
    OBVIOUS
  <2> HIDE DEF T
  <2> QED BY <1>1, <2>1, Minimal
<1>3. a[s] = Adds(w, a, s) /\ b[s] = Adds(v, b, s)
  BY <1>2 DEF IsSum
<1>4. s # {} => First(s) \in s /\ s \ {First(s)} \in SUBSET S /\ a[s \ {First(s)}] = b[s \ {First(s)}]
  BY <1>2, FirstIn
<1> QED BY <1>2, <1>3, <1>4 DEF Adds

(* A sum over a part of what weights are given for. *)
LEMMA SumOfPart ==
    ASSUME NEW S, IsFiniteSet(S), NEW w \in [S -> Nat], NEW s \in SUBSET S
    PROVE  /\ SumOf(w, s) \in Nat
           /\ SumOf(w, s) =
                IF s = {} THEN 0
                ELSE w[First(s)] + SumOf(w, s \ {First(s)})
<1>0. \A t \in SUBSET S : IsFiniteSet(t)
  BY FS_Subset
<1>1. PICK it \in [SUBSET S -> Nat] : IsSum(w, S, it)
  BY SumExists
<1>2. ASSUME NEW t \in SUBSET S
      PROVE  SumOf(w, t) = it[t]
  <2> DEFINE u == [x \in t |-> w[x]]
  <2>1. PICK a : IsSum(u, t, a)
    BY <1>0, SumExists
  <2>2. IsSum(w, t, a)
    <3>1. \A s1 \in SUBSET t : Adds(u, a, s1) = Adds(w, a, s1)
      BY FirstIn DEF Adds
    <3> QED BY <2>1, <3>1 DEF IsSum
  <2>3. IsSum(w, t, CHOOSE b : IsSum(w, t, b))
    BY <2>2
  <2> DEFINE c == CHOOSE b : IsSum(w, t, b)
  <2>5. IsSum(u, t, c)
    <3>1. \A s1 \in SUBSET t : Adds(u, c, s1) = Adds(w, c, s1)
      BY FirstIn DEF Adds
    <3> HIDE DEF u
    <3> QED BY <2>3, <3>1 DEF IsSum
  <2>4. c[t] = it[t]
    <3>1. u \in [t -> Nat] /\ \A x \in t : w[x] = u[x]
      OBVIOUS
    <3> HIDE DEF c, u
    <3> QED BY <1>0, <1>1, <2>5, <3>1, SumUnique
  <2> QED BY <2>4 DEF SumOf
<1>3. it[s] = Adds(w, it, s)
  BY <1>1 DEF IsSum
<1>4. s # {} => s \ {First(s)} \in SUBSET S
  OBVIOUS
<1> QED BY <1>2, <1>3, <1>4 DEF Adds

(* A sum may be taken in any order. *)
LEMMA SumWithout ==
    ASSUME NEW S, IsFiniteSet(S), NEW w \in [S -> Nat], NEW t \in SUBSET S, NEW y \in t
    PROVE  SumOf(w, t) = w[y] + SumOf(w, t \ {y})
<1> DEFINE T == {s \in SUBSET S : \E x \in s :
                    SumOf(w, s) # w[x] + SumOf(w, s \ {x})}
<1>1. SUFFICES ASSUME T # {} PROVE FALSE
  OBVIOUS
<1>2. PICK s \in T : \A r \in SUBSET s : r # s => r \notin T
  <2>1. T \in SUBSET SUBSET S
    OBVIOUS
  <2> HIDE DEF T
  <2> QED BY <1>1, <2>1, Minimal
<1>3. PICK x \in s : SumOf(w, s) # w[x] + SumOf(w, s \ {x})
  BY <1>2
<1> DEFINE f == First(s)  rest == (s \ {f}) \ {x}
<1>4. f \in s /\ SumOf(w, s) = w[f] + SumOf(w, s \ {f})
  BY <1>2, FirstIn, SumOfPart
<1>5. x # f
  BY <1>3, <1>4
<1>6. SumOf(w, s \ {f}) = w[x] + SumOf(w, rest)
  <2>1. s \ {f} \in SUBSET s /\ s \ {f} # s /\ x \in s \ {f} /\ s \ {f} \in SUBSET S
    BY <1>2, <1>4, <1>5
  <2>2. s \ {f} \notin T
    BY <1>2, <2>1
  <2> QED BY <2>1, <2>2
<1>7. SumOf(w, s \ {x}) = w[f] + SumOf(w, rest)
  <2>1. s \ {x} \in SUBSET s /\ s \ {x} # s /\ f \in s \ {x} /\ s \ {x} \in SUBSET S
    BY <1>2, <1>4, <1>5
  <2>2. s \ {x} \notin T
    BY <1>2, <2>1
  <2>3. (s \ {x}) \ {f} = rest
    OBVIOUS
  <2> QED BY <2>1, <2>2, <2>3
<1>8. w[x] \in Nat /\ w[f] \in Nat /\ SumOf(w, rest) \in Nat
  <2>1. rest \in SUBSET S /\ x \in S /\ f \in S
    BY <1>2, <1>4
  <2> HIDE DEF rest, f
  <2> QED BY <2>1, SumOfPart
<1> HIDE DEF rest, f, T
<1> QED BY <1>3, <1>4, <1>6, <1>7, <1>8

(* Sums of two sets apart add up. *)
LEMMA SumJoined ==
    ASSUME NEW S, IsFiniteSet(S), NEW w \in [S -> Nat],
           NEW a \in SUBSET S, NEW b \in SUBSET S, a \cap b = {}
    PROVE  SumOf(w, a \cup b) = SumOf(w, a) + SumOf(w, b)
<1> DEFINE T == {s \in SUBSET b : SumOf(w, a \cup s) # SumOf(w, a) + SumOf(w, s)}
<1>1. SUFFICES ASSUME T # {} PROVE FALSE
  OBVIOUS
<1>2. IsFiniteSet(b)
  BY FS_Subset
<1>3. PICK s \in T : \A r \in SUBSET s : r # s => r \notin T
  <2>1. T \in SUBSET SUBSET b
    OBVIOUS
  <2> HIDE DEF T
  <2> QED BY <1>1, <1>2, <2>1, Minimal
<1>4. \A r \in SUBSET S : SumOf(w, r) \in Nat
  BY SumOfPart
<1>5. CASE s = {}
  <2>1. SumOf(w, {}) = 0
    BY SumOfPart
  <2>2. a \cup s = a
    BY <1>5
  <2> QED BY <1>3, <1>4, <1>5, <2>1, <2>2
<1>6. CASE s # {}
  <2>1. PICK f \in s : TRUE
    BY <1>6
  <2> DEFINE rest == s \ {f}
  <2>2. /\ a \cup s \in SUBSET S /\ s \in SUBSET S /\ rest \in SUBSET S /\ a \cup rest \in SUBSET S
        /\ rest \in SUBSET s /\ rest # s /\ f \in a \cup s /\ f \in S
        /\ (a \cup s) \ {f} = a \cup rest
    BY <1>3, <2>1
  <2>3. SumOf(w, a \cup s) = w[f] + SumOf(w, a \cup rest)
    <3> HIDE DEF rest
    <3> QED BY <2>2, SumWithout
  <2>4. SumOf(w, s) = w[f] + SumOf(w, rest)
    BY <2>1, <2>2, SumWithout
  <2>5. SumOf(w, a \cup rest) = SumOf(w, a) + SumOf(w, rest)
    <3>1. rest \notin T
      BY <1>3, <2>2
    <3> QED BY <1>3, <2>2, <3>1
  <2>6. /\ w[f] \in Nat /\ SumOf(w, a) \in Nat /\ SumOf(w, rest) \in Nat
        /\ SumOf(w, a \cup s) # SumOf(w, a) + SumOf(w, s)
    BY <1>3, <1>4, <2>2
  <2> HIDE DEF rest
  <2> QED BY <2>3, <2>4, <2>5, <2>6
<1> QED BY <1>5, <1>6

(* f names what is weighed by w anew, in all, where v weighs it the same. *)
Renames(f, S, w, all, v) ==
    /\ f \in [S -> all] /\ \A x \in S : v[f[x]] = w[x]
    /\ \A x, y \in S : f[x] = f[y] => x = y
    /\ \A y \in all : \E x \in S : f[x] = y

(* What weighs the same under other names sums to the same. *)
LEMMA SumMoved ==
    ASSUME NEW S, IsFiniteSet(S), NEW w \in [S -> Nat], NEW R, IsFiniteSet(R),
           NEW v \in [R -> Nat], NEW all \in SUBSET R, NEW f, Renames(f, S, w, all, v)
    PROVE  SumOf(v, all) = SumOf(w, S)
<1>0. /\ all = {f[x] : x \in S} /\ f \in [S -> R] /\ \A x \in S : v[f[x]] = w[x]
      /\ \A x, y \in S : f[x] = f[y] => x = y
  BY DEF Renames
<1> DEFINE T == {s \in SUBSET S : SumOf(v, {f[x] : x \in s}) # SumOf(w, s)}
<1>1. SUFFICES ASSUME T # {} PROVE FALSE
  BY <1>0
<1>2. PICK s \in T : \A r \in SUBSET s : r # s => r \notin T
  <2>1. T \in SUBSET SUBSET S
    OBVIOUS
  <2> HIDE DEF T
  <2> QED BY <1>1, <2>1, Minimal
<1>3. CASE s = {}
  <2>1. SumOf(w, {}) = 0 /\ SumOf(v, {}) = 0
    <3>1. {} \in SUBSET S /\ {} \in SUBSET R
      OBVIOUS
    <3> QED BY <3>1, SumOfPart
  <2>2. {f[x] : x \in s} = {}
    BY <1>3
  <2> QED BY <1>2, <1>3, <2>1, <2>2
<1>4. CASE s # {}
  <2>1. PICK y \in s : TRUE
    BY <1>4
  <2> DEFINE rest == s \ {y}
             image(r) == {f[x] : x \in r}
  <2>2. /\ s \in SUBSET S /\ rest \in SUBSET S /\ rest \in SUBSET s /\ rest # s /\ y \in S
        /\ image(s) \in SUBSET R /\ f[y] \in image(s)
    BY <1>0, <1>2, <2>1
  <2>3. image(s) \ {f[y]} = image(rest)
    BY <1>0, <2>2
  <2>4. SumOf(w, s) = w[y] + SumOf(w, rest)
    BY <2>1, <2>2, SumWithout
  <2>5. SumOf(v, image(s)) = v[f[y]] + SumOf(v, image(rest))
    <3> HIDE DEF image, rest
    <3> QED BY <2>2, <2>3, SumWithout
  <2>6. SumOf(v, image(rest)) = SumOf(w, rest)
    <3>1. rest \notin T
      BY <1>2, <2>2
    <3> QED BY <2>2, <3>1
  <2>7. SumOf(v, image(s)) # SumOf(w, s)
    BY <1>2
  <2> HIDE DEF image, rest
  <2> QED BY <1>0, <2>2, <2>4, <2>5, <2>6, <2>7
<1> QED BY <1>3, <1>4

(* The sums of what was paid: over purchases, and over the orders that the *)
(* engine is given for them. *)
PaidAdds(it, s) == IF s = {} THEN 0 ELSE past[First(s)].amount + it[s \ {First(s)}]
OrderAdds(it, s) == IF s = {} THEN 0 ELSE First(s).amount + it[s \ {First(s)}]
IsPaidSum(S, it) == it = [s \in SUBSET S |-> PaidAdds(it, s)]
IsOrderSum(S, it) == it = [s \in SUBSET S |-> OrderAdds(it, s)]
Paid(S) == (CHOOSE it : IsPaidSum(S, it))[S]
Ordered(S) == (CHOOSE it : IsOrderSum(S, it))[S]

LEMMA PaidIsIt ==
    ASSUME NEW S
    PROVE  /\ Previewed!MapThenSumSet(LAMBDA j : past[j].amount, S) = Paid(S)
           /\ Meter!MapThenSumSet(LAMBDA j : past[j].amount, S) = Paid(S)
BY DEF Previewed!MapThenSumSet, Previewed!MapThenFoldSet, Meter!MapThenSumSet, Meter!MapThenFoldSet,
       Paid, IsPaidSum, PaidAdds, First

LEMMA OrderedIsIt ==
    ASSUME NEW S
    PROVE  Previewed!Sum(S) = Ordered(S) /\ Meter!Sum(S) = Ordered(S)
BY DEF Previewed!Sum, Previewed!MapThenSumSet, Previewed!MapThenFoldSet,
       Meter!Sum, Meter!MapThenSumSet, Meter!MapThenFoldSet, Ordered, IsOrderSum, OrderAdds, First

LEMMA PaidIsASum ==
    ASSUME NEW S, IsFiniteSet(S), NEW w \in [S -> Nat], \A j \in S : past[j].amount = w[j]
    PROVE  Paid(S) = SumOf(w, S)
<1>1. PICK a : IsSum(w, S, a)
  BY SumExists
<1>2. ASSUME NEW b
      PROVE  IsSum(w, S, b) <=> IsPaidSum(S, b)
  <2>1. \A s \in SUBSET S : Adds(w, b, s) = PaidAdds(b, s)
    BY FirstIn DEF Adds, PaidAdds
  <2> QED BY <2>1 DEF IsSum, IsPaidSum
<1> DEFINE c == CHOOSE it : IsPaidSum(S, it)
           d == CHOOSE it : IsSum(w, S, it)
<1>3. IsSum(w, S, c) /\ IsSum(w, S, d)
  BY <1>1, <1>2
<1> HIDE DEF c, d
<1>4. c[S] = d[S]
  BY <1>3, SumUnique
<1> QED BY <1>4 DEF c, d, Paid, SumOf

LEMMA OrderedIsASum ==
    ASSUME NEW S, IsFiniteSet(S), NEW w \in [S -> Nat], \A o \in S : o.amount = w[o]
    PROVE  Ordered(S) = SumOf(w, S)
<1>1. PICK a : IsSum(w, S, a)
  BY SumExists
<1>2. ASSUME NEW b
      PROVE  IsSum(w, S, b) <=> IsOrderSum(S, b)
  <2>1. \A s \in SUBSET S : Adds(w, b, s) = OrderAdds(b, s)
    BY FirstIn DEF Adds, OrderAdds
  <2> QED BY <2>1 DEF IsSum, IsOrderSum
<1> DEFINE c == CHOOSE it : IsOrderSum(S, it)
           d == CHOOSE it : IsSum(w, S, it)
<1>3. IsSum(w, S, c) /\ IsSum(w, S, d)
  BY <1>1, <1>2
<1> HIDE DEF c, d
<1>4. c[S] = d[S]
  BY <1>3, SumUnique
<1> QED BY <1>4 DEF c, d, Ordered, SumOf

-----------------------------------------------------------------------------
(* What is shown of a draft (Preview, in MCPolicy as Previewed and Meter), *)
(* for any policies, purchases and days.                                   *)

LEMMA PreviewedTypes ==
    /\ Previewed!Init => Previewed!TypeOK
    /\ Previewed!TypeOK /\ (Previewed!Next \/ UNCHANGED shownVars) => Previewed!TypeOK'
<1>1. ASSUME Previewed!Init PROVE Previewed!TypeOK
  BY <1>1 DEF Previewed!Init, Previewed!TypeOK
<1>2. ASSUME Previewed!TypeOK, Previewed!Next PROVE Previewed!TypeOK'
  <2>1. PICK c \in {"card"}, s \in Shops, a \in Charges, k \in {"approved", "declined"}, g \in 0..MaxGap :
          Previewed!Buys(c, s, a, k, g)
    BY <1>2 DEF Previewed!Next
  <2> DEFINE new == [card |-> c, shop |-> s, amount |-> a, day |-> Previewed!Today + g, status |-> k]
  <2>2. past' = Append(past, new) /\ pol' = pol
    BY <2>1 DEF Previewed!Buys
  <2>3. /\ past \in Seq(Previewed!Row) /\ pol \in Drafts
        /\ \A i, j \in DOMAIN past : i < j => past[i].day <= past[j].day
    BY <1>2 DEF Previewed!TypeOK
  <2>0. \A i \in DOMAIN past : past[i].day \in Nat
    <3>1. \A i \in DOMAIN past : past[i] \in Previewed!Row
      BY <2>3
    <3> QED
      BY <3>1 DEF Previewed!Row
  <2>4. /\ Previewed!Today \in Nat /\ \A i \in DOMAIN past : past[i].day <= Previewed!Today
    <3>1. CASE past = << >>
      BY <3>1 DEF Previewed!Today
    <3>2. CASE past # << >>
      <4>0. Len(past) \in Nat /\ Len(past) # 0 /\ DOMAIN past = 1..Len(past)
        BY <2>3, <3>2
      <4>1. Previewed!Today = past[Len(past)].day /\ Len(past) \in DOMAIN past
        BY <3>2, <4>0 DEF Previewed!Today, Previewed!Last
      <4>2. \A i \in DOMAIN past : past[i].day \in Nat /\ (i < Len(past) \/ i = Len(past))
        BY <2>0, <4>0
      <4> QED
        BY <2>3, <4>1, <4>2
    <3> QED
      BY <3>1, <3>2
  <2>5. new \in Previewed!Row /\ \A i \in DOMAIN past : past[i].day <= new.day
    <3>0. MaxGap \in Nat
      BY Parameters DEF Previewed!PreviewAssumption
    <3>1. g \in Nat
      BY <3>0
    <3> QED
      BY <2>0, <2>4, <3>1 DEF Previewed!Row
  <2> HIDE DEF new
  <2>6. /\ past' \in Seq(Previewed!Row) /\ DOMAIN past' = 1..(Len(past) + 1)
        /\ \A i \in DOMAIN past : past'[i] = past[i]
        /\ past'[Len(past) + 1] = new
    BY <2>2, <2>3, <2>5
  <2>7. ASSUME NEW i \in DOMAIN past', NEW j \in DOMAIN past', i < j
        PROVE  past'[i].day <= past'[j].day
    <3>1. i \in DOMAIN past /\ (j \in DOMAIN past \/ j = Len(past) + 1)
      BY <2>3, <2>6, <2>7
    <3> QED
      BY <2>3, <2>5, <2>6, <2>7, <3>1
  <2> QED
    BY <2>2, <2>3, <2>6, <2>7 DEF Previewed!TypeOK, Previewed!Row
<1>3. ASSUME Previewed!TypeOK, UNCHANGED shownVars PROVE Previewed!TypeOK'
  BY <1>3 DEF Previewed!TypeOK, Previewed!Row, shownVars
<1> QED
  BY <1>1, <1>2, <1>3

(* What the engine is given for a purchase of the card. *)
Bought(i) == Previewed!Purchase(past[i].shop, past[i].amount)
Given(i) == Previewed!ViewOf("card", past[i].day, 1..(i - 1), {"approved"})
OrderOf(i, j) == [order |-> j, age |-> past[i].day - past[j].day, amount |-> past[j].amount,
                  waiting |-> FALSE]

LEMMA PastIs ==
    ASSUME Previewed!TypeOK
    PROVE  /\ DOMAIN past = 1..Len(past) /\ Len(past) \in Nat
           /\ \A j \in DOMAIN past :
                /\ past[j].card = "card" /\ past[j].shop \in Shops
                /\ past[j].amount \in Nat /\ past[j].day \in Nat
                /\ past[j].status \in {"approved", "declined"}
           /\ Previewed!IsDraft(pol) /\ pol \in Drafts
<1>1. Charges \subseteq Nat /\ \A p \in Drafts : Previewed!IsDraft(p)
  BY Parameters DEF Previewed!PreviewAssumption
<1>2. past \in Seq(Previewed!Row) /\ pol \in Drafts
  BY DEF Previewed!TypeOK
<1>3. DOMAIN past = 1..Len(past) /\ Len(past) \in Nat /\ \A j \in DOMAIN past : past[j] \in Previewed!Row
  BY <1>2
<1> QED
  BY <1>1, <1>2, <1>3 DEF Previewed!Row

LEMMA EarlierAre ==
    ASSUME Previewed!TypeOK, NEW i \in DOMAIN past
    PROVE  /\ {j \in 1..(i - 1) : Previewed!IsApproved(j)} = Previewed!Prior("card", i)
           /\ Previewed!Prior("card", i) \in SUBSET DOMAIN past
           /\ IsFiniteSet(Previewed!Prior("card", i))
<1>1. {j \in 1..(i - 1) : Previewed!IsApproved(j)} = Previewed!Prior("card", i)
  BY PastIs DEF Previewed!Prior, Previewed!Approvals
<1>2. Previewed!Prior("card", i) \in SUBSET (1..Len(past))
  BY PastIs DEF Previewed!Prior, Previewed!Approvals
<1>3. IsFiniteSet(1..Len(past))
  BY PastIs, FS_Interval
<1> QED
  BY <1>1, <1>2, <1>3, PastIs, FS_Subset

LEMMA GivenIs ==
    ASSUME Previewed!TypeOK, NEW i \in DOMAIN past
    PROVE  /\ Given(i).past = {OrderOf(i, j) : j \in Previewed!Prior("card", i)}
           /\ Given(i).known = Previewed!Seen("card", i)
           /\ LET before == {j \in Previewed!Prior("card", i) : past[j].shop = past[i].shop} IN
              Given(i).lastPrice[past[i].shop] =
                IF before = {} THEN {} ELSE {past[Previewed!Max(before)].amount}
           /\ Given(i).confirmed = {}
<1> DEFINE earlier == 1..(i - 1)
           prior == Previewed!Prior("card", i)
<1>1. /\ {j \in earlier : Previewed!IsApproved(j)} = prior
      /\ \A j \in prior : past[j].status = "approved"
      /\ {x \in earlier : past[x].card = "card" /\ past[x].status \in {"approved"}} = prior
  BY EarlierAre, PastIs DEF Previewed!IsApproved, Previewed!Prior, Previewed!Approvals
<1>2. Given(i).past = {OrderOf(i, j) : j \in prior}
  BY <1>1 DEF Given, Previewed!ViewOf, OrderOf
<1>3. Given(i).known = Previewed!Seen("card", i)
  BY <1>1 DEF Given, Previewed!ViewOf, Previewed!Seen
<1>4. past[i].shop \in Shops
  BY PastIs
<1>5. LET before == {j \in prior : past[j].shop = past[i].shop} IN
      Given(i).lastPrice[past[i].shop] =
        IF before = {} THEN {} ELSE {past[Previewed!Max(before)].amount}
  BY <1>1, <1>4 DEF Given, Previewed!ViewOf
<1>6. Given(i).confirmed = {}
  BY DEF Given, Previewed!ViewOf
<1> QED
  BY <1>2, <1>3, <1>5, <1>6

(* The preview and the engine count the same orders of a period. *)
LEMMA TotalsAgree ==
    ASSUME Previewed!TypeOK, NEW i \in DOMAIN past, NEW r, r.days \in Nat, NEW orders,
           orders = {o \in Given(i).past : o.age <= r.days}
    PROVE  Previewed!Total(r, Bought(i), orders) = Previewed!PeriodTotal(r, "card", i)
<1> DEFINE these == Previewed!InPeriod(r, "card", i)
           amount == [j \in these |-> past[j].amount]
           order == [j \in these |-> OrderOf(i, j)]
           cost == [o \in orders |-> o.amount]
<1>1. these \in SUBSET DOMAIN past /\ these \in SUBSET Previewed!Prior("card", i) /\ IsFiniteSet(these)
  BY EarlierAre, FS_Subset DEF Previewed!InPeriod
<1>2. orders = {OrderOf(i, j) : j \in these}
  <2>1. \A j \in Previewed!Prior("card", i) :
          OrderOf(i, j).age <= r.days <=> past[j].day >= past[i].day - r.days
    BY PastIs, EarlierAre DEF OrderOf
  <2>2. /\ orders = {o \in {OrderOf(i, j) : j \in Previewed!Prior("card", i)} : o.age <= r.days}
        /\ these = {j \in Previewed!Prior("card", i) : past[j].day >= past[i].day - r.days}
    BY GivenIs DEF Previewed!InPeriod
  <2> HIDE DEF these
  <2> QED
    BY <2>1, <2>2
<1>3. orders = {order[j] : j \in these} /\ order \in [these -> orders]
  BY <1>2
<1>4. \A j, k \in these : order[j] = order[k] => j = k
  BY DEF OrderOf
<1>5. /\ amount \in [these -> Nat] /\ \A j \in these : past[j].amount = amount[j]
      /\ cost \in [orders -> Nat] /\ \A o \in orders : o.amount = cost[o]
      /\ \A j \in these : cost[order[j]] = amount[j]
  BY <1>1, <1>2, PastIs DEF OrderOf
<1>6. IsFiniteSet(orders) /\ Cardinality(orders) = Cardinality(these)
  <2>1. order \in Bijection(these, orders)
    BY <1>3, <1>4 DEF Bijection, Injection, Surjection, IsInjective
  <2> QED
    BY <1>1, <2>1, FS_Bijection DEF ExistsBijection
<1>7. Previewed!Cardinality(orders) = Previewed!Cardinality(these)
  BY <1>6 DEF Cardinality, Previewed!Cardinality
<1> HIDE DEF these, amount, order, cost
<1>8. Ordered(orders) = Paid(these)
  <2>1. \A o \in orders : \E j \in these : order[j] = o
    BY <1>3
  <2>2. Renames(order, these, amount, orders, cost)
    BY <1>3, <1>4, <1>5, <2>1 DEF Renames
  <2>3. SumOf(cost, orders) = SumOf(amount, these)
    BY <1>1, <1>5, <1>6, <2>2, SumMoved
  <2> QED
    BY <1>1, <1>5, <1>6, <2>3, PaidIsASum, OrderedIsASum
<1>9. Previewed!Sum(orders) = Previewed!MapThenSumSet(LAMBDA j : past[j].amount, these)
  BY <1>8, PaidIsIt, OrderedIsIt
<1>10. Bought(i).amount = past[i].amount
  BY DEF Bought, Previewed!Purchase
<1> QED
  BY <1>7, <1>9, <1>10 DEF Previewed!Total, Previewed!PeriodTotal, these

LEMMA RuleIs ==
    ASSUME Previewed!TypeOK, NEW id \in DOMAIN pol.rules
    PROVE  /\ Previewed!Stated(pol.rules[id])
           /\ pol.rules[id].days > 0 => Previewed!Window(pol) = pol.rules[id].days
<1> DEFINE r == pol.rules[id]
<1>1. Previewed!IsDraft(pol) /\ pol \in Drafts
  BY PastIs
<1>2. \A x \in DOMAIN pol.rules : Previewed!Stated(pol.rules[x])
  BY <1>1 DEF Previewed!IsDraft
<1>3. ASSUME r.days > 0 PROVE Previewed!Window(pol) = r.days
  <2> DEFINE S == {pol.rules[x].days : x \in Previewed!PeriodRules(pol)}
  <2>1. id \in Previewed!PeriodRules(pol)
    BY <1>3 DEF Previewed!PeriodRules
  <2>2. ASSUME NEW x \in Previewed!PeriodRules(pol) PROVE pol.rules[x].days = r.days
    <3>1. Previewed!OneWindow(pol)
      BY <1>1, Parameters
    <3> QED
      BY <1>3, <3>1 DEF Previewed!OneWindow, Previewed!PeriodRules
  <2>3. S = {r.days} /\ r.days \in Nat
    <3>1. r.days \in Nat
      BY <1>2 DEF Previewed!Stated
    <3> QED
      BY <2>1, <2>2, <3>1
  <2> HIDE DEF S
  <2>4. Previewed!Min(S) = r.days
    BY <2>3 DEF Previewed!Min
  <2> QED
    BY <2>4 DEF Previewed!Window, S
<1> QED
  BY <1>2, <1>3

(* One rule: what is shown as fitting passes, and what is shown as breaking *)
(* it fails.                                                                *)
LEMMA RuleAgrees ==
    ASSUME Previewed!TypeOK, NEW i \in DOMAIN past, NEW id \in DOMAIN pol.rules
    PROVE  LET verdict == Previewed!_check(pol.rules[id], "card", i)
               result == Previewed!RuleResult(id, Bought(i), pol, Given(i))
           IN /\ verdict \in {"fit", "ask", "violate"}
              /\ verdict = "fit" => result = "pass"
              /\ verdict = "violate" => result = "fail"
<1> DEFINE r == pol.rules[id]
           verdict == Previewed!_check(r, "card", i)
           result == Previewed!RuleResult(id, Bought(i), pol, Given(i))
<1>1. /\ r.days \in Nat /\ r.op \in {"<", "<=", "=", ">="} /\ r.asks \in BOOLEAN
      /\ \/ r.field = "total"
         \/ r.field = "count" /\ r.days > 0
         \/ r.field = "known_shop" /\ r.op = "=" /\ r.value = {"true"} /\ r.days = 0
         \/ r.field \in {"last_price", "unverifiable"} /\ r.days = 0
  BY RuleIs DEF Previewed!Stated
<1>2. Bought(i).amount = past[i].amount /\ Bought(i).shop = past[i].shop
  BY DEF Bought, Previewed!Purchase
<1>3. CASE r.days > 0
  <2> DEFINE orders == Previewed!InWindow(pol, Given(i))
             total == Previewed!PeriodTotal(r, "card", i)
  <2>1. orders = {o \in Given(i).past : o.age <= r.days}
    BY <1>3, RuleIs DEF Previewed!InWindow
  <2>2. Previewed!Total(r, Bought(i), orders) = total
    BY <1>1, <2>1, TotalsAgree
  <2>3. Previewed!Approved(orders) = orders
    <3>1. ASSUME NEW o \in Given(i).past PROVE o.waiting = FALSE
      <4>0. Given(i).past = {OrderOf(i, j) : j \in Previewed!Prior("card", i)}
        BY GivenIs
      <4>1. PICK j \in Previewed!Prior("card", i) : o = OrderOf(i, j)
        BY <3>1, <4>0
      <4> QED
        BY <4>1 DEF OrderOf
    <3> QED
      BY <2>1, <3>1 DEF Previewed!Approved
  <2>4. result = Previewed!PeriodRule(r, Bought(i), pol, Given(i))
    BY <1>3 DEF Previewed!RuleResult
  <2>5. result = IF Previewed!Within(total, r.op, r.value) THEN "pass" ELSE "fail"
    <3>1. r.days = Previewed!Window(pol)
      BY <1>3, RuleIs
    <3> HIDE DEF orders, total, r, result
    <3> QED
      BY <2>2, <2>3, <2>4, <3>1 DEF Previewed!PeriodRule, orders
  <2>6. verdict = IF Previewed!Within(total, r.op, r.value) THEN "fit" ELSE "violate"
    <3>1. ~Previewed!OnLastPrice(r)
      BY <1>1, <1>3 DEF Previewed!OnLastPrice
    <3>2. r.field \in {"total", "count"}
      BY <1>1, <1>3
    <3> HIDE DEF r
    <3> QED
      BY <1>3, <3>1, <3>2 DEF Previewed!_check, Previewed!Unchecked
  <2> QED
    BY <2>5, <2>6
<1>4. CASE r.days = 0 /\ r.field = "total"
  <2> DEFINE led == Given(i)
             ok == Previewed!Within(past[i].amount, r.op, r.value)
  <2>1. Previewed!FactsFor("total", Bought(i), pol, led) = {{past[i].amount}}
    BY <1>2 DEF Previewed!FactsFor
  <2>2. Previewed!TypedRule(r, Bought(i), pol, led) = IF ok THEN "pass" ELSE Previewed!Broken(r)
    <3>1. UNION {{past[i].amount}} = {past[i].amount} /\ {{past[i].amount}} # {} /\ {} \notin {{past[i].amount}}
      OBVIOUS
    <3> HIDE DEF led, r
    <3> QED
      BY <1>4, <2>1, <3>1 DEF Previewed!TypedRule
  <2>3. result = Previewed!TypedRule(r, Bought(i), pol, led)
    BY <1>4 DEF Previewed!RuleResult, Previewed!OnLastPrice, Previewed!Unchecked
  <2>4. verdict = IF ok THEN "fit" ELSE Previewed!BreaksAs(r)
    <3> HIDE DEF r
    <3> QED
      BY <1>4 DEF Previewed!_check, Previewed!OnLastPrice, Previewed!Unchecked
  <2> QED
    BY <1>1, <2>2, <2>3, <2>4 DEF Previewed!Broken, Previewed!BreaksAs
<1>5. CASE r.field = "known_shop"
  <2>1. r.days = 0 /\ r.op = "=" /\ r.value = {"true"}
    BY <1>1, <1>5
  <2>2. verdict = Previewed!_known_shop("card", i)
    <3> HIDE DEF r
    <3> QED
      BY <1>5, <2>1 DEF Previewed!_check, Previewed!OnLastPrice, Previewed!Unchecked
  <2>3. ASSUME past[i].shop \in Previewed!Seen("card", i) PROVE result = "pass"
    <3>1. Previewed!IsKnown(Bought(i), Given(i)) = "true"
      BY <1>2, <2>3, GivenIs DEF Previewed!IsKnown
    <3>2. Previewed!FactsFor("known_shop", Bought(i), pol, Given(i)) = {{"true"}}
      BY <3>1 DEF Previewed!FactsFor
    <3>3. Previewed!Within("true", "=", {"true"})
      BY DEF Previewed!Within
    <3>4. Previewed!TypedRule(r, Bought(i), pol, Given(i)) = "pass"
      <4>1. UNION {{"true"}} = {"true"} /\ {{"true"}} # {} /\ {} \notin {{"true"}}
        OBVIOUS
      <4> HIDE DEF r
      <4> QED
        BY <1>5, <2>1, <3>2, <3>3, <4>1 DEF Previewed!TypedRule
    <3> QED
      BY <1>5, <2>1, <3>4 DEF Previewed!RuleResult, Previewed!KnownShop
  <2> QED
    BY <2>2, <2>3 DEF Previewed!_known_shop
<1>6. CASE r.field = "last_price"
  <2> DEFINE before == {j \in Previewed!Prior("card", i) : past[j].shop = past[i].shop}
             last == past[Previewed!Max(before)].amount
  <2>1. result = Previewed!LastPriceRule(r, Bought(i), Given(i))
    BY <1>1, <1>6 DEF Previewed!RuleResult, Previewed!OnLastPrice
  <2>2. verdict = Previewed!_last_price(r, "card", i)
    <3>1. r.days = 0
      BY <1>1, <1>6
    <3> HIDE DEF r
    <3> QED
      BY <1>6, <3>1 DEF Previewed!_check, Previewed!OnLastPrice, Previewed!Unchecked
  <2>3. Given(i).lastPrice[Bought(i).shop] = IF before = {} THEN {} ELSE {last}
    BY <1>2, GivenIs
  <2>4. verdict = IF before = {} THEN "ask"
                  ELSE IF Previewed!Within(past[i].amount, r.op, {last}) THEN "fit"
                  ELSE Previewed!BreaksAs(r)
    BY <2>2 DEF Previewed!_last_price
  <2> HIDE DEF last, before
  <2>5. before # {} => result = IF Previewed!Within(past[i].amount, r.op, {last}) THEN "pass"
                                ELSE Previewed!Broken(r)
    BY <1>2, <2>1, <2>3 DEF Previewed!LastPriceRule
  <2> QED
    BY <1>1, <2>4, <2>5 DEF Previewed!Broken, Previewed!BreaksAs
<1>7. CASE r.field = "unverifiable"
  <2>1. verdict = "ask"
    BY <1>1, <1>7 DEF Previewed!_check, Previewed!OnLastPrice, Previewed!Unchecked
  <2> QED
    BY <2>1
<1> QED
  BY <1>1, <1>3, <1>4, <1>5, <1>6, <1>7

(* The flag of a familiar shop, where no rule says the same. *)
LEMMA FlagAgrees ==
    ASSUME Previewed!TypeOK, NEW i \in DOMAIN past, NEW f \in Previewed!Checked(pol)
    PROVE  /\ f = "C9" /\ pol.knownShop /\ Previewed!FamiliarRules = {}
           /\ Previewed!_known_shop("card", i) = "fit"
                => Previewed!FlagResult(f, Bought(i), pol, Given(i)) = "pass"
<1>1. Previewed!IsDraft(pol)
  BY PastIs
<1>2. /\ pol.requested = {} /\ pol.allowed = {} /\ pol.blocked = {} /\ pol.shopType = {}
      /\ pol.nothingExtra = FALSE
  BY <1>1 DEF Previewed!IsDraft
<1>3. f = "C9" /\ pol.knownShop /\ ~Previewed!Covered(pol, "known_shop", {"="})
  BY <1>2 DEF Previewed!Checked
<1>4. Previewed!FamiliarRules = {}
  <2>1. \A id \in DOMAIN pol.rules : pol.rules[id].field = "known_shop" => pol.rules[id].op = "="
    BY RuleIs DEF Previewed!Stated
  <2> QED
    BY <1>3, <2>1 DEF Previewed!Covered, Previewed!FamiliarRules, Previewed!RuleIds
<1>5. ASSUME Previewed!_known_shop("card", i) = "fit"
      PROVE  Previewed!FlagResult(f, Bought(i), pol, Given(i)) = "pass"
  <2>1. past[i].shop \in Given(i).known /\ Bought(i).shop = past[i].shop
    BY <1>5, GivenIs DEF Previewed!_known_shop, Bought, Previewed!Purchase
  <2>2. Previewed!Flag("C9", Bought(i), pol, Given(i)) = "pass"
    BY <2>1 DEF Previewed!Flag, Previewed!CheckKnownShop, Previewed!IsKnown, Previewed!Met
  <2> QED
    BY <1>3, <2>2 DEF Previewed!FlagResult, Previewed!KnownShop
<1> QED
  BY <1>3, <1>4, <1>5

LEMMA DecidedAs ==
    ASSUME Previewed!TypeOK, NEW i \in DOMAIN past
    PROVE  LET results == {Previewed!Result(id, Bought(i), pol, Given(i)) : id \in Previewed!Ids(pol)}
           IN /\ results \subseteq {"pass"} => Previewed!Decided("card", i) = "approve"
              /\ "fail" \in results => Previewed!Decided("card", i) = "decline"
<1> DEFINE results == {Previewed!Result(id, Bought(i), pol, Given(i)) : id \in Previewed!Ids(pol)}
           found == Previewed!Findings(Bought(i), pol, Given(i))
<1>1. Previewed!Decided("card", i) = Previewed!D!Decision(found, pol.setting).outcome
  BY DEF Previewed!Decided, Previewed!Outcome, Bought, Given
<1>2. /\ found.authority = "active" /\ found.protections = {} /\ found.strong = {} /\ found.weak = 0
      /\ found.soft = FALSE /\ found.watch = FALSE /\ found.rules = results \ {"pass"}
  BY DEF Previewed!Findings
<1> HIDE DEF results, found
<1>3. ASSUME results \subseteq {"pass"} PROVE Previewed!D!Decision(found, pol.setting).outcome = "approve"
  <2>1. found.rules = {}
    BY <1>2, <1>3
  <2> QED
    BY <1>2, <2>1 DEF Previewed!D!Decision, Previewed!D!Verdict, Previewed!D!Unsure,
                      Previewed!D!AsksAt4, Previewed!D!Suspicious
<1>4. ASSUME "fail" \in results PROVE Previewed!D!Decision(found, pol.setting).outcome = "decline"
  <2>1. "fail" \in found.rules
    BY <1>2, <1>4
  <2> QED
    BY <1>2, <2>1 DEF Previewed!D!Decision, Previewed!D!Verdict
<1> QED
  BY <1>1, <1>3, <1>4 DEF results

LEMMA TruthfulHolds == Previewed!TypeOK => Previewed!PreviewTruthful
<1> SUFFICES ASSUME Previewed!TypeOK, NEW i \in DOMAIN Previewed!Shown("card")
             PROVE  /\ Previewed!Shown("card")[i] = "fit" => Previewed!Decided("card", i) = "approve"
                    /\ Previewed!Shown("card")[i] = "violate" => Previewed!Decided("card", i) = "decline"
  BY DEF Previewed!PreviewTruthful
<1> DEFINE check(id) == Previewed!_check(pol.rules[id], "card", i)
           flagged == IF pol.knownShop /\ Previewed!FamiliarRules = {}
                      THEN {Previewed!_known_shop("card", i)} ELSE {}
           verdicts == {check(id) : id \in DOMAIN pol.rules} \cup flagged
           result(id) == Previewed!Result(id, Bought(i), pol, Given(i))
<1>1. i \in DOMAIN past /\ Previewed!Shown("card")[i] = Previewed!dry_run("card", i)
  BY DEF Previewed!Shown, Previewed!Approvals
<1>2. Previewed!dry_run("card", i) =
        IF "violate" \in verdicts THEN "violate" ELSE IF "ask" \in verdicts THEN "ask" ELSE "fit"
  BY DEF Previewed!dry_run, Previewed!RuleIds
<1>3. flagged \subseteq {"fit", "ask"}
  BY DEF Previewed!_known_shop
<1>4. \A id \in DOMAIN pol.rules :
        /\ check(id) \in {"fit", "ask", "violate"}
        /\ check(id) = "fit" => result(id) = "pass"
        /\ check(id) = "violate" => result(id) = "fail"
  BY <1>1, RuleAgrees DEF Previewed!Result
<1>5. \A id \in Previewed!Ids(pol) : id \in DOMAIN pol.rules \/ id \in Previewed!Checked(pol)
  BY DEF Previewed!Ids
<1>6. \A id \in Previewed!Checked(pol) \ DOMAIN pol.rules : flagged = {"fit"} => result(id) = "pass"
  BY <1>1, FlagAgrees DEF Previewed!Result
<1>7. \A id \in Previewed!Checked(pol) : flagged # {}
  BY <1>1, FlagAgrees
<1>8. DOMAIN pol.rules \subseteq Previewed!Ids(pol)
  BY DEF Previewed!Ids
<1> HIDE DEF flagged, check, result
<1>9. ASSUME "violate" \in verdicts PROVE Previewed!Decided("card", i) = "decline"
  <2>1. PICK id \in DOMAIN pol.rules : check(id) = "violate"
    BY <1>3, <1>9
  <2>2. "fail" \in {result(x) : x \in Previewed!Ids(pol)}
    BY <1>4, <1>8, <2>1
  <2> QED
    BY <1>1, <2>2, DecidedAs DEF result
<1>10. ASSUME "violate" \notin verdicts, "ask" \notin verdicts
       PROVE  Previewed!Decided("card", i) = "approve"
  <2>1. \A id \in DOMAIN pol.rules : result(id) = "pass"
    BY <1>4, <1>10
  <2>2. \A id \in Previewed!Ids(pol) : result(id) = "pass"
    <3>1. flagged \subseteq {"fit"}
      BY <1>3, <1>10
    <3> QED
      BY <1>5, <1>6, <1>7, <2>1, <3>1
  <2>3. {result(x) : x \in Previewed!Ids(pol)} \subseteq {"pass"}
    BY <2>2
  <2> QED
    BY <1>1, <2>3, DecidedAs DEF result
<1> HIDE DEF verdicts
<1> QED
  BY <1>1, <1>2, <1>9, <1>10

(* The least of some numbers. *)
LEMMA MinIs ==
    ASSUME NEW S \in SUBSET Nat, S # {}
    PROVE  /\ Previewed!Min(S) \in S /\ \A n \in S : Previewed!Min(S) <= n
           /\ Meter!Min(S) \in S /\ \A n \in S : Meter!Min(S) <= n
<1>1. \E n \in S : \A m \in S : n <= m
  BY Least
<1> QED
  BY <1>1 DEF Previewed!Min, Meter!Min

LEMMA MaxOfOne ==
    ASSUME NEW n \in Nat
    PROVE  Previewed!Max({n}) = n /\ Meter!Max({n}) = n
BY DEF Previewed!Max, Meter!Max

(* A form's cap is the lowest of its limits: an amount above it is one that *)
(* breaks one of them.                                                      *)
LEMMA CapIsBroken ==
    ASSUME Previewed!TypeOK, Previewed!OnForm(pol), Previewed!LimitRules = {}, NEW a \in Nat
    PROVE  Previewed!OverCap(a) <=> \E id \in DOMAIN pol.rules :
              pol.rules[id].field = "total" /\ ~Previewed!Within(a, "<=", pol.rules[id].value)
<1> DEFINE caps == {id \in DOMAIN pol.rules : pol.rules[id].field = "total"}
           limit(id) == Previewed!Max(pol.rules[id].value)
           limits == {limit(id) : id \in caps}
<1>1. ASSUME NEW id \in caps
      PROVE  /\ pol.rules[id].op = "<=" /\ pol.rules[id].days = 0
             /\ limit(id) \in Nat /\ pol.rules[id].value = {limit(id)}
  <2>1. Previewed!Stated(pol.rules[id])
    BY RuleIs
  <2>2. PICK n \in Nat : pol.rules[id].value = {n}
    BY <2>1 DEF Previewed!Stated
  <2>3. limit(id) = n
    BY <2>2, MaxOfOne
  <2>4. pol.rules[id].op = "<="
    BY DEF Previewed!OnForm
  <2>5. pol.rules[id].days \in Nat /\ ~(pol.rules[id].days > 0)
    BY <2>1 DEF Previewed!Stated, Previewed!LimitRules, Previewed!RuleIds
  <2> QED
    BY <2>2, <2>3, <2>4, <2>5
<1>2. Previewed!CapRules = caps
  BY <1>1 DEF Previewed!CapRules, Previewed!RuleIds
<1>3. \A id \in caps : Previewed!Within(a, "<=", pol.rules[id].value) <=> a <= limit(id)
  <2> SUFFICES ASSUME NEW id \in caps
               PROVE  Previewed!Within(a, "<=", pol.rules[id].value) <=> a <= limit(id)
    OBVIOUS
  <2>1. \A value : Previewed!Within(a, "<=", value) <=> \A m \in value : a <= m
    BY DEF Previewed!Within
  <2> QED
    BY <1>1, <2>1
<1>4. Previewed!OverCap(a) <=> \E id \in caps : (\A other \in caps : limit(id) <= limit(other)) /\ ~(a <= limit(id))
  <2>1. \A id \in caps : (IF pol.rules[id].op = "<" THEN "<" ELSE "<=") = "<="
    BY <1>1
  <2>2. Previewed!OverCap(a) <=>
          \E id \in caps : (\A other \in caps : limit(id) <= limit(other))
                           /\ ~Previewed!Within(a, "<=", pol.rules[id].value)
    BY <1>2, <2>1 DEF Previewed!OverCap
  <2> HIDE DEF limit, caps
  <2> QED
    BY <1>3, <2>2
<1>5. ASSUME NEW id \in caps, ~(a <= limit(id))
      PROVE  \E low \in caps : (\A other \in caps : limit(low) <= limit(other)) /\ ~(a <= limit(low))
  <2>1. limits \in SUBSET Nat /\ limits # {}
    BY <1>1, <1>5
  <2>2. PICK n \in limits : \A m \in limits : n <= m
    <3> HIDE DEF limits
    <3> QED
      BY <2>1, Least
  <2>3. PICK low \in caps : n = limit(low)
    BY <2>2
  <2> HIDE DEF limit
  <2>4. \A other \in caps : limit(low) <= limit(other)
    BY <2>2, <2>3
  <2>5. ~(a <= limit(low))
    BY <1>1, <1>5, <2>4
  <2> QED
    BY <2>4, <2>5
<1> HIDE DEF limit
<1> QED
  BY <1>3, <1>4, <1>5

LEMMA FormAgreesHolds ==
    ASSUME Previewed!TypeOK, Previewed!OnForm(pol)
    PROVE  Previewed!FormAgrees
<1> SUFFICES ASSUME Previewed!LimitRules = {}
             PROVE  Previewed!form_dry_run("card") = Previewed!Shown("card")
  BY DEF Previewed!FormAgrees
<1> DEFINE those == {j \in Previewed!Approvals("card") : Previewed!Recent(j)}
           unseen(i) == past[i].shop \notin Previewed!Seen("card", i)
           onForm(i) == IF Previewed!OverCap(past[i].amount) THEN "violate"
                        ELSE IF pol.knownShop /\ unseen(i) THEN "ask" ELSE "fit"
<1>1. ASSUME NEW i \in those PROVE onForm(i) = Previewed!dry_run("card", i)
  <2> DEFINE check(id) == Previewed!_check(pol.rules[id], "card", i)
             flagged == IF pol.knownShop /\ Previewed!FamiliarRules = {}
                        THEN {Previewed!_known_shop("card", i)} ELSE {}
             verdicts == {check(id) : id \in DOMAIN pol.rules} \cup flagged
             caps == {id \in DOMAIN pol.rules : pol.rules[id].field = "total"}
             over(id) == ~Previewed!Within(past[i].amount, "<=", pol.rules[id].value)
  <2>1. i \in DOMAIN past /\ past[i].amount \in Nat
    BY PastIs DEF Previewed!Approvals
  <2>2. Previewed!dry_run("card", i) =
          IF "violate" \in verdicts THEN "violate" ELSE IF "ask" \in verdicts THEN "ask" ELSE "fit"
    BY DEF Previewed!dry_run, Previewed!RuleIds
  <2>3. Previewed!_known_shop("card", i) = IF unseen(i) THEN "ask" ELSE "fit"
    BY DEF Previewed!_known_shop
  <2>4. ASSUME NEW id \in caps PROVE check(id) = IF over(id) THEN "violate" ELSE "fit"
    <3> DEFINE r == pol.rules[id]
    <3>1. r.days \in Nat /\ ~(r.days > 0)
      BY RuleIs DEF Previewed!Stated, Previewed!LimitRules, Previewed!RuleIds
    <3>2. r.field = "total" /\ r.op = "<=" /\ ~r.asks
      BY DEF Previewed!OnForm
    <3>3. r.days = 0
      BY <3>1
    <3> HIDE DEF r
    <3>4. Previewed!_check(r, "card", i) =
            IF Previewed!Within(past[i].amount, "<=", r.value) THEN "fit" ELSE "violate"
      BY <3>2, <3>3 DEF Previewed!_check, Previewed!OnLastPrice, Previewed!Unchecked, Previewed!BreaksAs
    <3> QED
      BY <3>4 DEF r
  <2>5. ASSUME NEW id \in DOMAIN pol.rules, id \notin caps
        PROVE  /\ pol.rules[id].field = "known_shop" /\ pol.knownShop
               /\ check(id) = Previewed!_known_shop("card", i)
    <3> DEFINE r == pol.rules[id]
    <3>1. r.field = "known_shop" /\ pol.knownShop
      BY <2>5 DEF Previewed!OnForm
    <3>2. r.days = 0
      BY <3>1, RuleIs DEF Previewed!Stated
    <3> HIDE DEF r
    <3>3. Previewed!_check(r, "card", i) = Previewed!_known_shop("card", i)
      BY <3>1, <3>2 DEF Previewed!_check, Previewed!OnLastPrice, Previewed!Unchecked
    <3> QED
      BY <3>1, <3>3 DEF r
  <2>6. Previewed!OverCap(past[i].amount) <=> \E id \in caps : over(id)
    BY <2>1, CapIsBroken
  <2>7. (Previewed!FamiliarRules # {}) <=> \E id \in DOMAIN pol.rules : id \notin caps
    BY <2>5 DEF Previewed!FamiliarRules, Previewed!RuleIds
  <2> HIDE DEF check, over, unseen
  <2>8. "violate" \in verdicts <=> \E id \in caps : over(id)
    BY <2>3, <2>4, <2>5
  <2>9. ASSUME ~\E id \in caps : over(id)
        PROVE  "ask" \in verdicts <=> pol.knownShop /\ unseen(i)
    <3>1. ASSUME pol.knownShop, unseen(i) PROVE "ask" \in verdicts
      <4>1. CASE Previewed!FamiliarRules = {}
        BY <2>3, <3>1, <4>1
      <4>2. CASE Previewed!FamiliarRules # {}
        <5>1. PICK id \in DOMAIN pol.rules : id \notin caps
          BY <2>7, <4>2
        <5> QED
          BY <2>3, <2>5, <3>1, <5>1
      <4> QED
        BY <4>1, <4>2
    <3>2. ASSUME "ask" \in verdicts PROVE pol.knownShop /\ unseen(i)
      <4>1. CASE "ask" \in flagged
        BY <2>3, <4>1
      <4>2. CASE \E id \in DOMAIN pol.rules : check(id) = "ask"
        <5>1. PICK id \in DOMAIN pol.rules : check(id) = "ask"
          BY <4>2
        <5>2. id \notin caps
          BY <2>4, <2>9, <5>1
        <5> QED
          BY <2>3, <2>5, <5>1, <5>2
      <4> QED
        BY <3>2, <4>1, <4>2
    <3> QED
      BY <3>1, <3>2
  <2> HIDE DEF verdicts
  <2> QED
    BY <2>2, <2>6, <2>8, <2>9
<1>2. Previewed!form_dry_run("card") = [i \in those |-> onForm(i)]
  BY DEF Previewed!form_dry_run
<1>3. Previewed!Shown("card") = [i \in those |-> Previewed!dry_run("card", i)]
  BY DEF Previewed!Shown
<1> HIDE DEF those, onForm
<1> QED
  BY <1>1, <1>2, <1>3

LEMMA MeterTypes ==
    /\ Meter!Init => Meter!TypeOK
    /\ Meter!TypeOK /\ (Meter!Next \/ UNCHANGED shownVars) => Meter!TypeOK'
<1>1. ASSUME Meter!Init PROVE Meter!TypeOK
  BY <1>1 DEF Meter!Init, Meter!TypeOK
<1>2. ASSUME Meter!TypeOK, Meter!Next PROVE Meter!TypeOK'
  <2>1. PICK c \in Cards, s \in Shops, a \in Charges, k \in {"approved", "waiting", "declined"},
             g \in 0..MaxGap : Meter!Buys(c, s, a, k, g)
    BY <1>2 DEF Meter!Next
  <2> DEFINE new == [card |-> c, shop |-> s, amount |-> a, day |-> Meter!Today + g, status |-> k]
  <2>2. past' = Append(past, new) /\ pol' = pol
    BY <2>1 DEF Meter!Buys
  <2>3. /\ past \in Seq(Meter!Row) /\ pol \in MeteredDrafts
        /\ \A i, j \in DOMAIN past : i < j => past[i].day <= past[j].day
    BY <1>2 DEF Meter!TypeOK
  <2>0. \A i \in DOMAIN past : past[i].day \in Nat
    <3>1. \A i \in DOMAIN past : past[i] \in Meter!Row
      BY <2>3
    <3> QED
      BY <3>1 DEF Meter!Row
  <2>4. /\ Meter!Today \in Nat /\ \A i \in DOMAIN past : past[i].day <= Meter!Today
    <3>1. CASE past = << >>
      BY <3>1 DEF Meter!Today
    <3>2. CASE past # << >>
      <4>0. Len(past) \in Nat /\ Len(past) # 0 /\ DOMAIN past = 1..Len(past)
        BY <2>3, <3>2
      <4>1. Meter!Today = past[Len(past)].day /\ Len(past) \in DOMAIN past
        BY <3>2, <4>0 DEF Meter!Today, Meter!Last
      <4>2. \A i \in DOMAIN past : past[i].day \in Nat /\ (i < Len(past) \/ i = Len(past))
        BY <2>0, <4>0
      <4> QED
        BY <2>3, <4>1, <4>2
    <3> QED
      BY <3>1, <3>2
  <2>5. new \in Meter!Row /\ \A i \in DOMAIN past : past[i].day <= new.day
    <3>0. MaxGap \in Nat
      BY Parameters DEF Meter!PreviewAssumption
    <3>1. g \in Nat
      BY <3>0
    <3> QED
      BY <2>0, <2>4, <3>1 DEF Meter!Row
  <2> HIDE DEF new
  <2>6. /\ past' \in Seq(Meter!Row) /\ DOMAIN past' = 1..(Len(past) + 1)
        /\ \A i \in DOMAIN past : past'[i] = past[i]
        /\ past'[Len(past) + 1] = new
    BY <2>2, <2>3, <2>5
  <2>7. ASSUME NEW i \in DOMAIN past', NEW j \in DOMAIN past', i < j
        PROVE  past'[i].day <= past'[j].day
    <3>1. i \in DOMAIN past /\ (j \in DOMAIN past \/ j = Len(past) + 1)
      BY <2>3, <2>6, <2>7
    <3> QED
      BY <2>3, <2>5, <2>6, <2>7, <3>1
  <2> QED
    BY <2>2, <2>3, <2>6, <2>7 DEF Meter!TypeOK, Meter!Row
<1>3. ASSUME Meter!TypeOK, UNCHANGED shownVars PROVE Meter!TypeOK'
  BY <1>3 DEF Meter!TypeOK, Meter!Row, shownVars
<1> QED
  BY <1>1, <1>2, <1>3

LEMMA MeteredIs ==
    ASSUME Meter!TypeOK
    PROVE  /\ DOMAIN past = 1..Len(past) /\ Len(past) \in Nat /\ IsFiniteSet(DOMAIN past)
           /\ \A j \in DOMAIN past : past[j].amount \in Nat /\ past[j].day \in Nat
           /\ past # << >> => Meter!Today \in Nat
           /\ Meter!IsDraft(pol) /\ Meter!OfLimits(pol)
<1>1. /\ Charges \subseteq Nat /\ \A p \in MeteredDrafts : Meter!IsDraft(p)
      /\ \A p \in MeteredDrafts : Meter!OfLimits(p)
  BY Parameters DEF Meter!PreviewAssumption
<1>2. past \in Seq(Meter!Row) /\ pol \in MeteredDrafts
  BY DEF Meter!TypeOK
<1>3. DOMAIN past = 1..Len(past) /\ Len(past) \in Nat /\ \A j \in DOMAIN past : past[j] \in Meter!Row
  BY <1>2
<1>4. \A j \in DOMAIN past : past[j].amount \in Nat /\ past[j].day \in Nat
  BY <1>1, <1>3 DEF Meter!Row
<1>5. past # << >> => Meter!Today \in Nat
  <2> SUFFICES ASSUME past # << >> PROVE Meter!Today \in Nat
    OBVIOUS
  <2>1. Len(past) # 0
    BY <1>2
  <2> QED
    BY <1>3, <1>4, <2>1 DEF Meter!Today, Meter!Last
<1>6. IsFiniteSet(DOMAIN past)
  BY <1>3, FS_Interval
<1> QED
  BY <1>1, <1>2, <1>3, <1>4, <1>5, <1>6

(* The limits over days: the period read is the shortest, and what is shown *)
(* is the lowest limit on it.                                               *)
LEMMA LimitIs ==
    ASSUME Meter!TypeOK, Meter!LimitRules # {}
    PROVE  /\ Meter!Window(pol) \in Nat /\ Meter!period_limit.days = Meter!Window(pol)
           /\ Meter!period_limit.limit \in Nat
           /\ \A id \in Meter!LimitRules :
                /\ pol.rules[id].op = "<=" /\ pol.rules[id].field = "total"
                /\ pol.rules[id].days = Meter!Window(pol) =>
                     \E n \in Nat : pol.rules[id].value = {n} /\ Meter!period_limit.limit <= n
           /\ \E id \in Meter!LimitRules :
                pol.rules[id].days = Meter!Window(pol) /\ pol.rules[id].value = {Meter!period_limit.limit}
<1> DEFINE those == Meter!LimitRules
           days == {pol.rules[id].days : id \in those}
           window == Meter!Window(pol)
           inIt == {id \in those : pol.rules[id].days = window}
           limit(id) == Meter!Max(pol.rules[id].value)
           limits == {limit(id) : id \in inIt}
<1>1. ASSUME NEW id \in those
      PROVE  /\ pol.rules[id].op = "<=" /\ pol.rules[id].field = "total" /\ pol.rules[id].days \in Nat
             /\ limit(id) \in Nat /\ pol.rules[id].value = {limit(id)}
  <2>1. id \in DOMAIN pol.rules /\ pol.rules[id].days > 0 /\ pol.rules[id].field = "total"
    BY DEF Meter!LimitRules, Meter!RuleIds
  <2>2. Meter!Stated(pol.rules[id])
    BY <2>1, MeteredIs DEF Meter!IsDraft
  <2>3. PICK n \in Nat : pol.rules[id].value = {n}
    BY <2>1, <2>2 DEF Meter!Stated
  <2>4. limit(id) = n
    BY <2>3, MaxOfOne
  <2>5. pol.rules[id].op = "<="
    BY <2>1, MeteredIs DEF Meter!OfLimits
  <2>6. pol.rules[id].days \in Nat
    BY <2>2 DEF Meter!Stated
  <2> QED
    BY <2>1, <2>3, <2>4, <2>5, <2>6
<1>2. Meter!PeriodRules(pol) = those
  <2>1. \A id \in DOMAIN pol.rules : pol.rules[id].field = "total"
    BY MeteredIs DEF Meter!OfLimits
  <2> QED
    BY <2>1 DEF Meter!PeriodRules, Meter!LimitRules, Meter!RuleIds
<1>3. window = Meter!Min(days)
  BY <1>2 DEF Meter!Window
<1>4. days \in SUBSET Nat /\ days # {}
  BY <1>1
<1>5. window \in days
  <2> HIDE DEF days, window
  <2> QED
    BY <1>3, <1>4, MinIs
<1>6. window \in Nat /\ inIt # {}
  BY <1>4, <1>5
<1>7. Meter!period_limit = [days |-> window, limit |-> Meter!Min(limits)]
  BY <1>3 DEF Meter!period_limit
<1>8. limits \in SUBSET Nat /\ limits # {}
  BY <1>1, <1>6
<1>9. Meter!Min(limits) \in limits /\ \A n \in limits : Meter!Min(limits) <= n
  <2> HIDE DEF limits
  <2> QED
    BY <1>8, MinIs
<1>10. PICK low \in inIt : Meter!Min(limits) = limit(low)
  BY <1>9
<1>11. \A id \in inIt : limit(id) \in limits
  OBVIOUS
<1> HIDE DEF limits, limit, window
<1>12. /\ Meter!period_limit.days = window /\ Meter!period_limit.limit = Meter!Min(limits)
  BY <1>7
<1>13. ASSUME NEW id \in those, pol.rules[id].days = window
       PROVE  \E n \in Nat : pol.rules[id].value = {n} /\ Meter!period_limit.limit <= n
  BY <1>1, <1>9, <1>11, <1>12, <1>13
<1>14. pol.rules[low].days = window /\ pol.rules[low].value = {Meter!period_limit.limit}
  BY <1>1, <1>10, <1>12
<1> QED
  BY <1>1, <1>6, <1>8, <1>9, <1>10, <1>12, <1>13, <1>14 DEF window

(* The orders the engine is given at the last purchase of a card. *)
NowGiven(card) == Meter!ViewOf(card, Meter!Today, DOMAIN past, {"approved", "waiting"})
NowOrder(j) == [order |-> j, age |-> Meter!Today - past[j].day, amount |-> past[j].amount,
                waiting |-> past[j].status = "waiting"]

(* What is spent and pending of the meter is what the engine adds up. *)
LEMMA SpentIs ==
    ASSUME Meter!TypeOK, NEW card, past # << >>, Meter!LimitRules # {}
    PROVE  /\ Meter!usage(card).spent \in Nat /\ Meter!usage(card).pending \in Nat
           /\ Meter!Sum(Meter!InWindow(pol, NowGiven(card)))
                = Meter!usage(card).spent + Meter!usage(card).pending
<1> DEFINE window == Meter!Window(pol)
           metered == Meter!Metered(card)
           spent == {i \in metered : past[i].status = "approved"}
           pending == {i \in metered : past[i].status = "waiting"}
           both == spent \cup pending
           orders == Meter!InWindow(pol, NowGiven(card))
           amount == [j \in DOMAIN past |-> past[j].amount]
           order == [j \in both |-> NowOrder(j)]
           cost == [o \in orders |-> o.amount]
<1>1. metered = {i \in DOMAIN past : past[i].card = card /\ past[i].day >= Meter!Today - window}
  BY LimitIs DEF Meter!Metered
<1>2. /\ spent \in SUBSET DOMAIN past /\ pending \in SUBSET DOMAIN past /\ spent \cap pending = {}
      /\ both \in SUBSET DOMAIN past
  BY <1>1
<1>3. /\ Meter!usage(card).spent = Paid(spent) /\ Meter!usage(card).pending = Paid(pending)
  BY PaidIsIt DEF Meter!usage
<1>4. orders = {NowOrder(j) : j \in both}
  <2> DEFINE given == {x \in DOMAIN past : past[x].card = card /\ past[x].status \in {"approved", "waiting"}}
  <2>1. NowGiven(card).past = {NowOrder(j) : j \in given}
    BY DEF NowGiven, Meter!ViewOf, NowOrder
  <2>2. orders = {o \in {NowOrder(j) : j \in given} : o.age <= window}
    BY <2>1 DEF Meter!InWindow
  <2>3. \A j \in DOMAIN past : NowOrder(j).age <= window <=> past[j].day >= Meter!Today - window
    BY MeteredIs, LimitIs DEF NowOrder
  <2>4. \A j : j \in both <=> j \in given /\ past[j].day >= Meter!Today - window
    BY <1>1
  <2>5. \A j \in given : j \in DOMAIN past
    OBVIOUS
  <2> HIDE DEF both, given, window, orders
  <2> QED
    BY <2>2, <2>3, <2>4, <2>5
<1>5. orders = {order[j] : j \in both} /\ order \in [both -> orders]
  <2> HIDE DEF orders, both
  <2> QED
    BY <1>4
<1>6. \A j, k \in both : order[j] = order[k] => j = k
  <2> HIDE DEF both
  <2> QED
    BY DEF NowOrder
<1>7. /\ amount \in [DOMAIN past -> Nat] /\ \A j \in DOMAIN past : past[j].amount = amount[j]
  BY MeteredIs
<1>8. /\ cost \in [orders -> Nat] /\ \A o \in orders : o.amount = cost[o]
      /\ \A j \in both : cost[order[j]] = amount[j]
  <2> HIDE DEF orders, both
  <2> QED
    BY <1>2, <1>4, MeteredIs DEF NowOrder
<1>9. IsFiniteSet(both) /\ IsFiniteSet(spent) /\ IsFiniteSet(pending) /\ IsFiniteSet(DOMAIN past)
  <2> HIDE DEF both, spent, pending
  <2> QED
    BY <1>2, MeteredIs, FS_Subset
<1> HIDE DEF both, spent, pending, metered, orders, amount, order, cost
<1>10. IsFiniteSet(orders)
  <2>1. order \in Surjection(both, orders)
    BY <1>5 DEF Surjection
  <2> QED
    BY <1>9, <2>1, FS_Surjection
<1>11. ASSUME NEW s \in SUBSET DOMAIN past, IsFiniteSet(s)
       PROVE  Paid(s) = SumOf(amount, s) /\ SumOf(amount, s) \in Nat
  <2> DEFINE w == [j \in s |-> amount[j]]
  <2>1. w \in [s -> Nat] /\ \A j \in s : past[j].amount = w[j]
    BY <1>7
  <2>2. Paid(s) = SumOf(w, s)
    <3> HIDE DEF w
    <3> QED
      BY <1>11, <2>1, PaidIsASum
  <2>3. SumOf(amount, s) \in Nat
    BY <1>7, <1>9, SumOfPart
  <2> DEFINE same == [j \in s |-> j]
  <2>5. \A j \in s : \E x \in s : same[x] = j
    OBVIOUS
  <2>4. SumOf(amount, s) = SumOf(w, s)
    <3>1. same \in [s -> DOMAIN past] /\ \A j \in s : amount[same[j]] = w[j]
      OBVIOUS
    <3>2. \A j, k \in s : same[j] = same[k] => j = k
      OBVIOUS
    <3>3. same \in [s -> s]
      OBVIOUS
    <3> HIDE DEF w, same
    <3>4. Renames(same, s, w, s, amount)
      BY <2>5, <3>1, <3>2, <3>3 DEF Renames
    <3> QED
      BY <1>7, <1>9, <1>11, <2>1, <3>4, SumMoved
  <2> HIDE DEF w, same
  <2> QED
    BY <2>2, <2>3, <2>4
<1>12. SumOf(amount, both) = SumOf(amount, spent) + SumOf(amount, pending)
  BY <1>2, <1>7, <1>9, SumJoined DEF both
<1>13. Ordered(orders) = SumOf(amount, both)
  <2> DEFINE w == [j \in both |-> amount[j]]
  <2>1. w \in [both -> Nat] /\ \A j \in both : past[j].amount = w[j] /\ cost[order[j]] = w[j]
    BY <1>2, <1>7, <1>8
  <2> HIDE DEF w
  <2>2. SumOf(cost, orders) = SumOf(w, both)
    <3>1. \A o \in orders : \E j \in both : order[j] = o
      BY <1>5
    <3>2. Renames(order, both, w, orders, cost)
      BY <1>5, <1>6, <2>1, <3>1 DEF Renames
    <3> QED
      BY <1>8, <1>9, <1>10, <2>1, <3>2, SumMoved
  <2>3. SumOf(w, both) = SumOf(amount, both)
    BY <1>2, <1>9, <1>11, <2>1, PaidIsASum
  <2>4. Ordered(orders) = SumOf(cost, orders)
    BY <1>8, <1>10, OrderedIsASum
  <2> QED
    BY <2>2, <2>3, <2>4
<1>14. Meter!Sum(orders) = Ordered(orders)
  BY OrderedIsIt
<1>15. /\ Paid(spent) = SumOf(amount, spent) /\ Paid(spent) \in Nat
       /\ Paid(pending) = SumOf(amount, pending) /\ Paid(pending) \in Nat
  BY <1>2, <1>9, <1>11
<1> QED
  BY <1>3, <1>12, <1>13, <1>14, <1>15 DEF orders

LEMMA MeterHolds == Meter!TypeOK => Meter!MeterTellsTheRoom
<1> SUFFICES ASSUME Meter!TypeOK, NEW card \in Cards, NEW a \in Charges,
                    past # << >>, Meter!LimitRules # {}
             PROVE  (a <= Meter!period_limit.limit - Meter!usage(card).spent - Meter!usage(card).pending)
                    = (\A id \in Meter!LimitRules :
                         Meter!PeriodRule(pol.rules[id], Meter!Purchase(Meter!Last.shop, a), pol,
                                          NowGiven(card)) \in {"pass", "unknown"})
  BY DEF Meter!MeterTellsTheRoom, NowGiven
<1> DEFINE p == Meter!Purchase(Meter!Last.shop, a)
           window == Meter!Window(pol)
           orders == Meter!InWindow(pol, NowGiven(card))
           limit == Meter!period_limit.limit
           sum == Meter!Sum(orders)
           fits(id) == Meter!PeriodRule(pol.rules[id], p, pol, NowGiven(card)) \in {"pass", "unknown"}
<1>1. p.amount = a /\ a \in Nat
  <2>1. Charges \subseteq Nat
    BY Parameters DEF Meter!PreviewAssumption
  <2> QED
    BY <2>1 DEF Meter!Purchase
<1>2. /\ Meter!usage(card).spent \in Nat /\ Meter!usage(card).pending \in Nat
      /\ sum = Meter!usage(card).spent + Meter!usage(card).pending
  BY SpentIs
<1>3. ASSUME NEW id \in Meter!LimitRules
      PROVE  fits(id) <=> (pol.rules[id].days # window \/ \A n \in pol.rules[id].value : sum + a <= n)
  <2> DEFINE r == pol.rules[id]
  <2>1. r.op = "<=" /\ r.field = "total"
    BY LimitIs
  <2>2. Meter!Total(r, p, orders) = sum + a
    BY <1>1, <2>1 DEF Meter!Total
  <2>3. Meter!Within(sum + a, "<=", r.value) <=> \A n \in r.value : sum + a <= n
    BY DEF Meter!Within
  <2> HIDE DEF r, p, sum, orders
  <2>4. Meter!PeriodRule(r, p, pol, NowGiven(card)) \in {"pass", "unknown"}
          <=> r.days # window \/ Meter!Within(sum + a, "<=", r.value)
    BY <2>1, <2>2 DEF Meter!PeriodRule, orders
  <2> QED
    BY <2>3, <2>4 DEF r
<1> HIDE DEF fits, sum, limit, window
<1>4. ASSUME a <= limit - Meter!usage(card).spent - Meter!usage(card).pending,
             NEW id \in Meter!LimitRules
      PROVE  fits(id)
  <2>1. CASE pol.rules[id].days = window
    <3>1. PICK n \in Nat : pol.rules[id].value = {n} /\ limit <= n
      BY <2>1, LimitIs DEF limit, window
    <3>2. sum + a <= limit
      BY <1>1, <1>2, <1>4, LimitIs DEF limit
    <3>3. limit \in Nat /\ sum \in Nat
      BY <1>2, LimitIs DEF limit
    <3>4. sum + a <= n
      BY <1>1, <3>1, <3>2, <3>3
    <3> QED
      BY <1>3, <3>1, <3>4
  <2> QED
    BY <1>3, <2>1
<1>5. ASSUME \A id \in Meter!LimitRules : fits(id)
      PROVE  a <= limit - Meter!usage(card).spent - Meter!usage(card).pending
  <2>1. PICK id \in Meter!LimitRules : pol.rules[id].days = window /\ pol.rules[id].value = {limit}
    BY LimitIs DEF limit, window
  <2>2. sum + a <= limit
    BY <1>3, <1>5, <2>1
  <2>3. limit \in Nat
    BY LimitIs DEF limit
  <2> QED
    BY <1>1, <1>2, <2>2, <2>3
<1> DEFINE room == a <= limit - Meter!usage(card).spent - Meter!usage(card).pending
           allowed == \A id \in Meter!LimitRules : fits(id)
<1>6. room = allowed
  <2>1. room \in BOOLEAN /\ allowed \in BOOLEAN
    OBVIOUS
  <2>2. (room = TRUE) <=> (allowed = TRUE)
    BY <1>4, <1>5
  <2> HIDE DEF room, allowed
  <2> QED
    BY <2>1, <2>2
<1> QED
  BY <1>6 DEF fits, limit

(* Api 3.3, 3.4: what a customer is shown of a policy beforehand is what    *)
(* the engine makes of it: a purchase shown as fitting would have been      *)
(* approved and one shown as breaking a rule declined, a form and the same  *)
(* words are shown alike, and the room the meter tells is the room the next *)
(* purchase has.  (dry_run, form_dry_run, usage; Rules, Decide) *)
THEOREM PreviewsKeep == WholeSpec => []PreviewsKeepTheirWord
<1> DEFINE Inv == /\ part = "preview" => Previewed!TypeOK
                  /\ part = "meter" => Meter!TypeOK
<1>1. WholeInit => Inv
  BY PreviewedTypes, MeterTypes DEF WholeInit
<1>2. Inv /\ [WholeNext]_whole => Inv'
  <2> SUFFICES ASSUME Inv, [WholeNext]_whole PROVE Inv'
    OBVIOUS
  <2>1. /\ part' = part
        /\ part = "preview" => Previewed!Next \/ UNCHANGED shownVars
        /\ part = "meter" => Meter!Next \/ UNCHANGED shownVars
    BY DEF WholeNext, whole
  <2> QED
    BY <2>1, PreviewedTypes, MeterTypes
<1>3. Inv => PreviewsKeepTheirWord
  <2>1. Previewed!TypeOK /\ pol \in FormDrafts => Previewed!OnForm(pol)
    BY Parameters
  <2> QED
    BY <2>1, TruthfulHolds, FormAgreesHolds, MeterHolds DEF PreviewsKeepTheirWord
<1> QED
  BY <1>1, <1>2, <1>3, PTL DEF WholeSpec
=============================================================================
