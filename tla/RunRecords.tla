----------------------------- MODULE RunRecords -----------------------------
(***************************************************************************)
(* What the live worker keeps about its runs, and how it learns what the   *)
(* platform made of them (viseca/worker.py, api/routes_dev.py): a run      *)
(* followed in memory, its row of the runs table, the progress read of     *)
(* every idle poll, the event feed with its stored cursor, and the start   *)
(* of runs (D3) that reads all of it.                                      *)
(*                                                                         *)
(* Deciding and answering are here only as far as runs see them (StepUp-   *)
(* Worker has the rest): a purchase gets an outcome, a step-up waits, the  *)
(* customer or the window closes it.                                       *)
(***************************************************************************)
EXTENDS Integers, FiniteSets, Sequences

CONSTANTS
  Process,
  Run,
  Size,          \* purchases of a run
  Request,       \* D3 requests that may be served at the same time
  AnswersAnywhere, \* whether C8 is served by a standby process too
  MaxFaults,     \* bound on calls that fail
  MaxStops,      \* bound on graceful stops
  MaxCrashes     \* bound on processes that die

RunAssumption ==
  Size \in Nat \ {0} /\ AnswersAnywhere \in BOOLEAN /\ MaxFaults \in Nat
  /\ MaxStops \in Nat /\ MaxCrashes \in Nat

Live == Run \X (1..Size)
RunOf(l) == l[1]
Of(r) == {l \in Live : RunOf(l) = r}
Closed == {"approved", "declined"}

\* Items of the event feed: a purchase final, a run completed.
Final(l, status) == [run |-> l[1], id |-> l[2], status |-> status]
Completed(r) == [run |-> r, id |-> 0, status |-> "completed"]
Finals == [run : Run, id : 1..Size, status : Closed]
About(item) == <<item.run, item.id>>

VARIABLES
  site,      \* the platform: each run, each purchase, the event feed
  ledger,    \* our entry of each purchase: its status, whether it was a step-up
  store,     \* rows of runs, events_raw, the stored feed cursor
  role,      \* of each process: down, standby, lead
  runs,      \* of each process: the runs it follows (RunState)
  feed,      \* of each process: cursor, mismatches seen, mismatches to report
  steps,     \* of each process: armed expiries, purchases seen (_run_of), the answer under the lock
  at,        \* of each process: where its loop is
  writes,    \* run rows a resolution has still to write
  d3,        \* of each request: what it has found
  reported,  \* mismatches that reached a decision's evidence
  faults, stops, crashes

bounds == <<faults, stops, crashes>>
vars == <<site, ledger, store, role, runs, feed, steps, at, writes, d3, reported, bounds>>

NoRow == [state |-> "none"]
NoRun == [state |-> "none"]
\* RunState, the part that decides when a run is over.
NewRun == [state |-> "starting", pending |-> {}, over |-> FALSE, bound |-> FALSE]
NoFeed == [cursor |-> 0, seen |-> {}, mismatches |-> {}]
NoSteps == [armed |-> {}, of |-> {}, answer |-> <<>>]
Poll == [pc |-> "poll"]
Finished(state) == state \in {"done", "error"}

TypeOK ==
  /\ site.run \in [Run -> {"none", "running", "completed", "gone"}]
  /\ site.status \in [Live -> {"none", "queued", "pending"} \cup Closed]
  /\ \A i \in 1..Len(site.feed) : site.feed[i] \in Finals \cup {Completed(r) : r \in Run}
  /\ ledger \in [Live -> [status : {"none", "pending"} \cup Closed, asked : BOOLEAN]]
  /\ store.row \in [Run -> {NoRow} \cup
       [state : {"starting", "running", "done", "error"}, decided : 0..Size, pending : 0..Size]]
  /\ store.events \subseteq Live /\ store.cursor \in Nat
  /\ role \in [Process -> {"down", "standby", "lead"}]
  /\ runs \in [Process -> [Run -> {NoRun} \cup [state : {"starting", "running", "done", "error"},
                                               pending : SUBSET Live, over : BOOLEAN, bound : BOOLEAN]]]
  /\ \A p \in Process : feed[p].cursor \in Nat /\ steps[p].armed \cup steps[p].of \subseteq Live
  /\ writes \subseteq Process \X Run
  /\ d3 \in [Request -> {"idle", "clear"}]
  /\ reported \subseteq Finals
  /\ faults \in 0..MaxFaults /\ stops \in 0..MaxStops /\ crashes \in 0..MaxCrashes

Init ==
  /\ site = [run |-> [r \in Run |-> "none"], status |-> [l \in Live |-> "none"], feed |-> <<>>]
  /\ ledger = [l \in Live |-> [status |-> "none", asked |-> FALSE]]
  /\ store = [row |-> [r \in Run |-> NoRow], events |-> {}, cursor |-> 0]
  /\ role = [p \in Process |-> "down"]
  /\ runs = [p \in Process |-> [r \in Run |-> NoRun]]
  /\ feed = [p \in Process |-> NoFeed]
  /\ steps = [p \in Process |-> NoSteps]
  /\ at = [p \in Process |-> Poll]
  /\ writes = {}
  /\ d3 = [q \in Request |-> "idle"]
  /\ reported = {}
  /\ faults = 0 /\ stops = 0 /\ crashes = 0

----------------------------------------------------------------------------
(* The platform.                                                           *)

\* A purchase becomes final: the feed says so, and a run whose purchases are
\* all final is completed.
Finalise(s, l, status) ==
  LET t == [s.status EXCEPT ![l] = status]
      over == \A k \in Of(RunOf(l)) : t[k] \in Closed
      items == <<Final(l, status)>> \o IF over THEN <<Completed(RunOf(l))>> ELSE <<>>
  IN [run |-> IF over THEN [s.run EXCEPT ![RunOf(l)] = "completed"] ELSE s.run,
      status |-> t, feed |-> s.feed \o items]

\* A request nobody decided in time, a step-up nobody answered in time.
SiteExpires(l) ==
  /\ site.run[RunOf(l)] = "running" /\ site.status[l] \in {"queued", "pending"}
  /\ site' = Finalise(site, l, "declined")
  /\ UNCHANGED <<ledger, store, role, runs, feed, steps, at, writes, d3, reported, bounds>>

\* A team reset: the platform no longer knows the run.
SiteForgets(r) ==
  /\ site.run[r] # "none" /\ site.run[r] # "gone" /\ faults < MaxFaults
  /\ site' = [site EXCEPT !.run[r] = "gone"]
  /\ faults' = faults + 1
  /\ UNCHANGED <<ledger, store, role, runs, feed, steps, at, writes, d3, reported, stops, crashes>>

Open(l) == site.run[RunOf(l)] = "running" /\ site.status[l] \in {"queued", "pending"}

----------------------------------------------------------------------------
(* The rows.                                                               *)

Count(r, statuses) == Cardinality({l \in Of(r) : ledger[l].status \in statuses})
\* _write_run_row: the state of the moment, the counters from the store.
Row(p, r) ==
  [state |-> runs[p][r].state, decided |-> Count(r, {"pending"} \cup Closed), pending |-> Count(r, {"pending"})]

\* _maybe_done.
MaybeDone(run) ==
  IF ~Finished(run.state) /\ run.over /\ run.pending = {} THEN [run EXCEPT !.state = "done"] ELSE run

SaveRun(p, r) == store' = [store EXCEPT !.row[r] = Row(p, r)]

----------------------------------------------------------------------------
(* Starting, taking over, stopping.                                        *)

\* _track_row: a stored run is followed, as running.
Track(run) == IF run.state \in {"none", "starting"} THEN [NewRun EXCEPT !.state = "running"] ELSE run

\* _recover_pending: the expiry of every pending step-up of a stored live run.
Recovered ==
  {l \in store.events : store.row[RunOf(l)] # NoRow /\ ledger[l].asked /\ ledger[l].status = "pending"}
\* _reconcile_platform: the timeout declines the platform never got.
Unsent == {l \in Live : Open(l) /\ site.status[l] = "pending" /\ ledger[l].asked /\ ledger[l].status = "declined"}

Unfinished(p) == {r \in Run : store.row[r] # NoRow /\ ~Finished(store.row[r].state)}

\* start and _take_over: the cursor is read from the store, the unfinished
\* rows are followed and their progress read before the first poll.
TakeOver(p) ==
  /\ role[p] \in {"down", "standby"}
  /\ \A o \in Process : role[o] # "lead"
  /\ role' = [role EXCEPT ![p] = "lead"]
  /\ steps' = [steps EXCEPT ![p].armed = Recovered]
  /\ \E l \in Unsent \cup {<<>>} :
       /\ l = <<>> => Unsent = {}
       /\ site' = IF l = <<>> THEN site ELSE Finalise(site, l, "declined")
  /\ feed' = [feed EXCEPT ![p].cursor = store.cursor]
  /\ runs' = [runs EXCEPT ![p] = [r \in Run |-> IF r \in Unfinished(p) THEN Track(runs[p][r]) ELSE runs[p][r]]]
  /\ at' = [at EXCEPT ![p] = [pc |-> "follow", todo |-> Unfinished(p)]]
  /\ UNCHANGED <<ledger, store, writes, d3, reported, bounds>>

StandBy(p) ==
  /\ role[p] = "down" /\ \E o \in Process : role[o] = "lead"
  /\ role' = [role EXCEPT ![p] = "standby"]
  /\ UNCHANGED <<site, ledger, store, runs, feed, steps, at, writes, d3, reported, bounds>>

\* What a process keeps in memory goes with it, its requests too.
Down(p) ==
  /\ role' = [role EXCEPT ![p] = "down"]
  /\ runs' = [runs EXCEPT ![p] = [r \in Run |-> NoRun]]
  /\ feed' = [feed EXCEPT ![p] = NoFeed]
  /\ steps' = [steps EXCEPT ![p] = NoSteps]
  /\ at' = [at EXCEPT ![p] = Poll]
  /\ writes' = {w \in writes : w[1] # p}
  /\ d3' = [q \in Request |-> "idle"]

Crash(p) ==
  /\ role[p] # "down" /\ crashes < MaxCrashes
  /\ crashes' = crashes + 1
  /\ Down(p)
  /\ UNCHANGED <<site, ledger, store, reported, faults, stops>>

\* _save_runs_while_held: every row once more.
Saved(p) == [r \in Run |-> IF runs[p][r] = NoRun THEN store.row[r] ELSE Row(p, r)]
Stop(p) ==
  /\ role[p] = "lead" /\ stops < MaxStops
  /\ stops' = stops + 1
  /\ store' = [store EXCEPT !.row = Saved(p)]
  /\ Down(p)
  /\ UNCHANGED <<site, ledger, reported, faults, crashes>>

----------------------------------------------------------------------------
(* Progress.                                                               *)

Applied_M(run, state) ==
  CASE state = "completed" -> [run EXCEPT !.over = TRUE]
    [] state = "gone" -> [run EXCEPT !.state = "error"]
    [] OTHER -> MaybeDone(run)
\* _refresh_progress, for one run: a read that fails leaves it for later.
Applied(run, state) ==
  CASE state = "completed" -> MaybeDone([run EXCEPT !.over = TRUE])
    [] state = "gone" -> [run EXCEPT !.state = "error"]
    [] OTHER -> MaybeDone(run)

Refresh(p) ==
  /\ at[p].pc \in {"follow", "idle", "close"}
  /\ \E r \in at[p].todo :
       /\ at' = [at EXCEPT ![p].todo = @ \ {r}]
       /\ \/ /\ runs' = [runs EXCEPT ![p][r] = Applied(@, site.run[r])]
             /\ store' = [store EXCEPT !.row[r] = [Row(p, r) EXCEPT !.state = runs'[p][r].state]]
             /\ UNCHANGED faults
          \/ /\ faults < MaxFaults /\ faults' = faults + 1
             /\ UNCHANGED <<runs, store>>
  /\ UNCHANGED <<site, ledger, role, feed, steps, writes, d3, reported, stops, crashes>>

Followed(p) == {r \in Run : runs[p][r].state \in {"starting", "running"}}

\* A 204: _idle reads the progress of every run followed.
Idle(p) ==
  /\ role[p] = "lead" /\ at[p] = Poll /\ \A l \in Live : ~Open(l)
  /\ at' = [at EXCEPT ![p] = [pc |-> "idle", todo |-> Followed(p)]]
  /\ UNCHANGED <<site, ledger, store, role, runs, feed, steps, writes, d3, reported, bounds>>

FollowEnds(p) ==
  /\ at[p].pc = "follow" /\ at[p].todo = {}
  /\ at' = [at EXCEPT ![p] = Poll]
  /\ UNCHANGED <<site, ledger, store, role, runs, feed, steps, writes, d3, reported, bounds>>

----------------------------------------------------------------------------
(* The event feed.                                                         *)

Unlocked(p) == steps[p].answer = <<>>
Page(p) == {site.feed[i] : i \in (feed[p].cursor + 1)..Len(site.feed)}

\* _check_feed_item: a final status our ledger does not have.
Mismatch(p, item) == ledger[About(item)].status \notin {"none", item.status}

\* The page is read, then looked at under the resolution lock: no answer is
\* between the platform and the ledger meanwhile.
FeedUnlocked(p) == Unlocked(p)

ToClose(p) ==
  {r \in Run : /\ Completed(r) \in Page(p)
               /\ ~Finished(runs[p][r].state) /\ (runs[p][r] # NoRun \/ store.row[r] # NoRow)}

\* _sync_events, to the point where the completed runs are read.
SyncEvents(p) ==
  /\ role[p] = "lead"
  /\ \/ at[p].pc = "idle" /\ at[p].todo = {}
     \/ at[p] = Poll \* at least every few seconds
     \/ at[p].pc = "handled"
  /\ \/ /\ FeedUnlocked(p)
        /\ feed[p].cursor < Len(site.feed)
        /\ LET new == {item \in Page(p) : item \in Finals /\ Mismatch(p, item)} \ feed[p].seen
           IN feed' = [feed EXCEPT ![p].seen = @ \cup new, ![p].mismatches = @ \cup new]
        /\ runs' = [runs EXCEPT ![p] = [r \in Run |-> IF r \in ToClose(p) THEN Track(runs[p][r]) ELSE runs[p][r]]]
        /\ at' = [at EXCEPT ![p] = [pc |-> "close", todo |-> ToClose(p), upto |-> Len(site.feed),
                                    then |-> IF at[p].pc = "handled" THEN <<at[p].l>> ELSE <<>>]]
        /\ UNCHANGED <<store, faults>>
     \/ /\ at[p] # Poll
        /\ \/ feed[p].cursor = Len(site.feed) /\ UNCHANGED faults
           \/ faults < MaxFaults /\ faults' = faults + 1
        /\ at' = [at EXCEPT ![p] = Poll]
        /\ store' = IF at[p].pc = "handled" THEN [store EXCEPT !.row[RunOf(at[p].l)] = Row(p, RunOf(at[p].l))] ELSE store
        /\ UNCHANGED <<feed, runs>>
  /\ UNCHANGED <<site, ledger, role, steps, writes, d3, reported, stops, crashes>>

\* The cursor is stored once the page is processed, then the loop goes on; a
\* delivered purchase's run is written last.
SaveCursor(p) ==
  /\ at[p].pc = "close" /\ at[p].todo = {}
  /\ store' = [store EXCEPT !.cursor = at[p].upto,
               !.row = IF at[p].then = <<>> THEN @ ELSE LET r == RunOf(at[p].then[1]) IN [@ EXCEPT ![r] = Row(p, r)]]
  /\ feed' = [feed EXCEPT ![p].cursor = at[p].upto]
  /\ at' = [at EXCEPT ![p] = Poll]
  /\ UNCHANGED <<site, ledger, role, runs, steps, writes, d3, reported, bounds>>

----------------------------------------------------------------------------
(* A purchase delivered.                                                   *)

\* _bind_run: the first purchase makes the run a running one.
Bound(run) ==
  IF run = NoRun THEN [NewRun EXCEPT !.state = "running", !.bound = TRUE]
  ELSE IF run.bound THEN run ELSE [run EXCEPT !.state = "running", !.bound = TRUE]

\* _handle, to the decision: the run is bound (its row written before the
\* first decision), the event stored.
Deliver(p, l) ==
  LET run == runs[p][RunOf(l)] IN
  /\ role[p] = "lead" /\ at[p] = Poll /\ Open(l)
  /\ runs' = [runs EXCEPT ![p][RunOf(l)] = Bound(@)]
  /\ steps' = [steps EXCEPT ![p].of = @ \cup {l},
               ![p].armed = @ \cup (IF ledger[l].status = "pending" THEN {l} ELSE {})]
  /\ store' = [store EXCEPT !.events = @ \cup (IF ledger[l].status = "none" THEN {l} ELSE {}),
               !.row[RunOf(l)] = IF run # NoRun /\ run.bound THEN @ ELSE [Row(p, RunOf(l)) EXCEPT !.state = "running"]]
  /\ at' = [at EXCEPT ![p] = CASE ledger[l].status = "none" -> [pc |-> "decide", l |-> l]
                               [] ledger[l].status # "none" /\ site.status[l] = "queued" -> [pc |-> "repost", l |-> l]
                               [] OTHER -> Poll]
  /\ UNCHANGED <<site, ledger, role, feed, writes, d3, reported, bounds>>

\* The decision takes the mismatches found so far as evidence rows; the one
\* posted when the engine overruns has none of them.
Decide(p, status, late) ==
  /\ at[p].pc = "decide"
  /\ late => faults < MaxFaults
  /\ ledger' = [ledger EXCEPT ![at[p].l] = [status |-> status, asked |-> status = "pending"]]
  /\ reported' = IF late THEN reported ELSE reported \cup feed[p].mismatches
  /\ feed' = [feed EXCEPT ![p].mismatches = {}]
  /\ at' = [at EXCEPT ![p].pc = "post"]
  /\ faults' = IF late THEN faults + 1 ELSE faults
  /\ UNCHANGED <<site, store, role, runs, steps, writes, d3, stops, crashes>>

\* The platform takes a decision while it waits for one.
Accepts(l, asks) ==
  \/ /\ site.status[l] = "queued" /\ site.run[RunOf(l)] = "running"
     /\ site' = IF asks THEN [site EXCEPT !.status[l] = "pending"] ELSE Finalise(site, l, ledger[l].status)
     /\ UNCHANGED faults
  \/ /\ site.status[l] # "queued" \/ site.run[RunOf(l)] # "running"
     /\ UNCHANGED <<site, faults>>
  \/ /\ faults < MaxFaults /\ faults' = faults + 1
     /\ UNCHANGED site

\* _post_new: a step-up is pending here whether the post was accepted or not.
PostNew(p) ==
  LET l == at[p].l
      asks == ledger[l].asked
  IN /\ at[p].pc = "post"
     /\ Accepts(l, asks)
     /\ runs' = IF asks THEN [runs EXCEPT ![p][RunOf(l)].pending = @ \cup {l}] ELSE runs
     /\ steps' = IF asks THEN [steps EXCEPT ![p].armed = @ \cup {l}] ELSE steps
     /\ at' = [at EXCEPT ![p] = [pc |-> "handled", l |-> l]]
     /\ UNCHANGED <<ledger, store, role, feed, writes, d3, reported, stops, crashes>>

\* _post_stored: the decision already made; the run's row is not written.
PostStored(p) ==
  LET l == at[p].l IN
  /\ at[p].pc = "repost"
  /\ Accepts(l, ledger[l].asked)
  /\ steps' = IF ledger[l].status = "pending" THEN [steps EXCEPT ![p].armed = @ \cup {l}] ELSE steps
  /\ at' = [at EXCEPT ![p] = Poll]
  /\ UNCHANGED <<ledger, store, role, runs, feed, writes, d3, reported, stops, crashes>>

----------------------------------------------------------------------------
(* Step-ups closed.                                                        *)

\* resolve (C8) to the platform's reply, which may be lost: the answer is
\* the platform's then, and the ledger hears of it at the window.
Answer(p, l, status) ==
  /\ role[p] = "lead" \/ (AnswersAnywhere /\ role[p] = "standby")
  /\ Unlocked(p) /\ ledger[l].status = "pending" /\ site.status[l] = "pending" /\ Open(l)
  /\ site' = Finalise(site, l, status)
  /\ \/ steps' = [steps EXCEPT ![p].answer = <<l, status>>] /\ UNCHANGED faults
     \/ faults < MaxFaults /\ faults' = faults + 1 /\ UNCHANGED steps
  /\ UNCHANGED <<ledger, store, role, runs, feed, at, writes, d3, reported, stops, crashes>>

\* _platform_result, or the timeout decline.
AtWindow(l) ==
  IF site.status[l] \in Closed /\ site.run[RunOf(l)] # "gone" THEN site.status[l] ELSE "declined"

\* expire: a step-up closed already is left alone; else the platform's word
\* is recorded, or the timeout decline sent.
Expire(p, l) ==
  /\ role[p] = "lead" /\ Unlocked(p) /\ l \in steps[p].armed
  /\ IF ledger[l].status # "pending"
     THEN /\ steps' = [steps EXCEPT ![p].armed = @ \ {l}]
          /\ UNCHANGED site
     ELSE /\ site' = IF Open(l) /\ site.status[l] = "pending" THEN Finalise(site, l, "declined") ELSE site
          /\ steps' = [steps EXCEPT ![p].answer = <<l, AtWindow(l)>>]
  /\ UNCHANGED <<ledger, store, role, runs, feed, at, writes, d3, reported, bounds>>

\* _run_of: only a purchase this process was delivered has a run here.
Seen(p, l) == l \in steps[p].of

\* The ledger, then _after_resolution.
Resolved(p) ==
  /\ ~Unlocked(p)
  /\ LET l == steps[p].answer[1]
         r == RunOf(l)
     IN /\ ledger' = [ledger EXCEPT ![l].status = IF @ = "pending" THEN steps[p].answer[2] ELSE @]
        /\ steps' = [steps EXCEPT ![p].armed = @ \ {l}, ![p].answer = <<>>]
        /\ IF Seen(p, l)
           THEN /\ runs' = [runs EXCEPT ![p][r] = MaybeDone([runs[p][r] EXCEPT !.pending = @ \ {l}])]
                /\ writes' = writes \cup {<<p, r>>}
           ELSE UNCHANGED <<runs, writes>>
  /\ UNCHANGED <<site, store, role, feed, at, d3, reported, bounds>>

WriteRow(w) ==
  /\ w \in writes
  /\ writes' = writes \ {w}
  /\ SaveRun(w[1], w[2])
  /\ UNCHANGED <<site, ledger, role, runs, feed, steps, at, d3, reported, bounds>>

----------------------------------------------------------------------------
(* D3, D4, D7.                                                             *)

\* active_runs: followed here, unfinished in the store and not over at the
\* platform, or with a purchase still open there.
ActiveRuns(p) ==
  Followed(p)
    \cup {r \in Run : store.row[r] # NoRow /\ ~Finished(store.row[r].state) /\ site.run[r] = "running"}
    \cup {r \in Run : \E l \in Of(r) : Open(l)}

\* _refuse_while_running.
CheckRun(p, q) ==
  /\ role[p] = "lead" /\ d3[q] = "idle"
  /\ ActiveRuns(p) = {}
  /\ d3' = [d3 EXCEPT ![q] = "clear"]
  /\ UNCHANGED <<site, ledger, store, role, runs, feed, steps, at, writes, reported, bounds>>

\* The run starts at the platform and the worker follows it.
StartRun(p, q, r) ==
  /\ role[p] = "lead" /\ d3[q] = "clear" /\ site.run[r] = "none"
  /\ site' = [site EXCEPT !.run[r] = "running",
              !.status = [l \in Live |-> IF RunOf(l) = r THEN "queued" ELSE @[l]]]
  /\ runs' = [runs EXCEPT ![p][r] = IF @ = NoRun THEN NewRun ELSE @]
  /\ d3' = [d3 EXCEPT ![q] = "idle"]
  /\ UNCHANGED <<ledger, store, role, feed, steps, at, writes, reported, bounds>>

----------------------------------------------------------------------------
LoopStep(p) ==
  \/ Refresh(p) \/ Idle(p) \/ FollowEnds(p) \/ SyncEvents(p) \/ SaveCursor(p) \/ PostNew(p) \/ PostStored(p)
  \/ \E l \in Live : Deliver(p, l)
  \/ \E status \in {"pending"} \cup Closed, late \in BOOLEAN : Decide(p, status, late)

Next ==
  \/ \E l \in Live : SiteExpires(l)
  \/ \E r \in Run : SiteForgets(r)
  \/ \E p \in Process : TakeOver(p) \/ StandBy(p) \/ Crash(p) \/ Stop(p) \/ LoopStep(p) \/ Resolved(p)
  \/ \E p \in Process, l \in Live : Expire(p, l) \/ \E status \in Closed : Answer(p, l, status)
  \/ \E w \in writes : WriteRow(w)
  \/ \E p \in Process, q \in Request : CheckRun(p, q) \/ \E r \in Run : StartRun(p, q, r)

Spec == Init /\ [][Next]_vars

(* Processes are started again, the loop and the store threads run on,     *)
(* expiries are due in the end, the platform closes what nobody answers.   *)
(* A poll comes to be an idle one again and again once nothing is open.    *)
(* No fairness for the customer, D3, stops and failures.                   *)
Fairness ==
  /\ \A l \in Live : WF_vars(SiteExpires(l))
  /\ \A p \in Process :
       /\ WF_vars(TakeOver(p)) /\ WF_vars(Resolved(p))
       /\ WF_vars(Refresh(p)) /\ WF_vars(FollowEnds(p)) /\ WF_vars(SaveCursor(p))
       /\ WF_vars(PostNew(p)) /\ WF_vars(PostStored(p))
       /\ WF_vars(SyncEvents(p)) /\ SF_vars(Idle(p))
       /\ WF_vars(\E status \in {"pending"} \cup Closed, late \in BOOLEAN : Decide(p, status, late))
       /\ \A l \in Live : WF_vars(Expire(p, l))
       /\ \A r \in Run : WF_vars(WriteRow(<<p, r>>))

FairSpec == Spec /\ Fairness

----------------------------------------------------------------------------
(* Properties.                                                             *)

\* A run whose row says done has no step-up waiting, and its row says so: a
\* run completed at the platform is not closed here before its last step-up
\* is (_maybe_done, _after_resolution).
DoneIsSettled ==
  \A r \in Run : store.row[r] # NoRow /\ store.row[r].state = "done" =>
    store.row[r].pending = 0 /\ Count(r, {"pending"}) = 0

\* A stop that writes its rows leaves what D7 reads after a restart: a run
\* nobody follows has the decisions of the ledger in its row.
StoppedRowsAreCurrent ==
  (\A p \in Process : role[p] = "down") =>
    \A r \in Run : store.row[r] # NoRow => store.row[r].decided = Count(r, {"pending"} \cup Closed)

\* D3 without force starts no run while another one has a purchase open
\* (_refuse_while_running).
OneRunAtATime ==
  \A r, s \in Run : (\E l \in Of(r) : Open(l)) /\ (\E l \in Of(s) : Open(l)) => r = s

\* A final status of the feed that our ledger does not have reaches the
\* evidence of a decision, or is kept for the next one (_check_feed_item).
MismatchKept ==
  \A i \in 1..store.cursor :
    LET item == site.feed[i] IN
    item \in Finals /\ ledger[About(item)].status \in Closed \ {item.status} =>
      item \in reported \/ \E p \in Process : item \in feed[p].mismatches

\* An answer on its way from the platform to the ledger is no mismatch: the
\* feed is compared under the lock the answer holds (_sync_events).
AnswerIsNoMismatch ==
  [][\A p \in Process, l \in Live : \A status \in Closed :
       Final(l, status) \in feed'[p].seen \ feed[p].seen => \A o \in Process : steps[o].answer # <<l, status>>]_vars

\* A run the platform completed is closed in the store, for good
\* (_close_completed, _track_unfinished_runs).
RunsClose ==
  \A r \in Run : [](site.run[r] = "completed" /\ store.row[r] # NoRow => <>[]Finished(store.row[r].state))

=============================================================================
