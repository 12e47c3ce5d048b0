--------------------------- MODULE RunRecordsProofs --------------------------
(***************************************************************************)
(* What TLAPS proves of the rows of the runs and the event feed            *)
(* (RunRecords): for any number of processes, runs and purchases, they say *)
(* what is so, as far as nothing is lost with a process.                   *)
(***************************************************************************)
EXTENDS RunRecords, FiniteSetTheorems, TLAPS

RunStates == {"starting", "running", "done", "error"}
Followings == {NoRun} \cup [state : RunStates, pending : SUBSET Live, over : BOOLEAN, bound : BOOLEAN]
Feed == [cursor : Nat, seen : SUBSET Finals, mismatches : SUBSET Finals]
Held == {<< >>} \cup (Live \X Closed)
Work == [armed : SUBSET Live, of : SUBSET Live, answer : Held]
Place == {Poll}
         \cup [pc : {"follow", "idle"}, todo : SUBSET Run]
         \cup [pc : {"close"}, todo : SUBSET Run, upto : Nat, then : {<< >>} \cup {<<l>> : l \in Live}]
         \cup [pc : {"decide", "post", "repost", "handled"}, l : Live]
Item == Finals \cup {Completed(r) : r \in Run}

SiteType ==
    site \in [run : [Run -> {"none", "running", "completed", "gone"}],
              status : [Live -> {"none", "queued", "pending"} \cup Closed],
              feed : Seq(Item)]
EntryType == ledger \in [Live -> [status : {"none", "pending"} \cup Closed, asked : BOOLEAN]]
RowsType ==
    /\ store = [row |-> store.row, events |-> store.events, cursor |-> store.cursor]
    /\ store.row = [r \in Run |-> store.row[r]]
    /\ store.events \subseteq Live /\ store.cursor \in Nat
ProcessTypes ==
    /\ role \in [Process -> {"down", "standby", "lead"}]
    /\ runs \in [Process -> [Run -> Followings]]
    /\ feed \in [Process -> Feed] /\ steps \in [Process -> Work] /\ at \in [Process -> Place]
    /\ writes \subseteq Process \X Run
    /\ d3 \in [Request -> {"idle", "clear"}] /\ reported \subseteq Finals
    /\ faults \in 0..MaxFaults /\ stops \in 0..MaxStops /\ crashes \in 0..MaxCrashes

RunTypes == SiteType /\ EntryType /\ RowsType /\ ProcessTypes

-----------------------------------------------------------------------------
LEMMA Joined ==
    ASSUME NEW S, NEW a \in Seq(S), NEW b \in Seq(S)
    PROVE  /\ a \o b \in Seq(S) /\ Len(a) \in Nat /\ Len(a \o b) = Len(a) + Len(b)
           /\ \A i \in 1..Len(a) : (a \o b)[i] = a[i]
           /\ \A i \in 1..Len(b) : (a \o b)[Len(a) + i] = b[i]
OBVIOUS

(* A purchase becomes final. *)
LEMMA FinaliseType ==
    ASSUME SiteType, NEW l \in Live, NEW status \in Closed
    PROVE  /\ Finalise(site, l, status)
                \in [run : [Run -> {"none", "running", "completed", "gone"}],
                     status : [Live -> {"none", "queued", "pending"} \cup Closed],
                     feed : Seq(Item)]
           /\ Finalise(site, l, status).status = [site.status EXCEPT ![l] = status]
           /\ \A r \in Run : Finalise(site, l, status).run[r] \in {site.run[r], "completed"}
           /\ \E k \in {1, 2} : Len(Finalise(site, l, status).feed) = Len(site.feed) + k
           /\ \A i \in 1..Len(site.feed) : Finalise(site, l, status).feed[i] = site.feed[i]
           /\ Finalise(site, l, status).feed[Len(site.feed) + 1] = Final(l, status)
           /\ \A i \in Len(site.feed) + 2..Len(Finalise(site, l, status).feed) :
                Finalise(site, l, status).feed[i] = Completed(RunOf(l))
<1> DEFINE t == [site.status EXCEPT ![l] = status]
           over == \A k \in Of(RunOf(l)) : t[k] \in Closed
           items == <<Final(l, status)>> \o (IF over THEN <<Completed(RunOf(l))>> ELSE << >>)
           run == IF over THEN [site.run EXCEPT ![RunOf(l)] = "completed"] ELSE site.run
<1>1. Finalise(site, l, status) = [run |-> run, status |-> t, feed |-> site.feed \o items]
    BY DEF Finalise
<1>2. /\ site.run \in [Run -> {"none", "running", "completed", "gone"}]
      /\ site.status \in [Live -> {"none", "queued", "pending"} \cup Closed]
      /\ site.feed \in Seq(Item) /\ RunOf(l) \in Run
    BY DEF SiteType, Live, RunOf
<1>3. Final(l, status) \in Item /\ Completed(RunOf(l)) \in Item
    BY <1>2 DEF Item, Final, Finals, Live
<1>4. run \in [Run -> {"none", "running", "completed", "gone"}] /\ \A r \in Run : run[r] \in {site.run[r], "completed"}
    BY <1>2
<1>5. t \in [Live -> {"none", "queued", "pending"} \cup Closed]
    BY <1>2
<1>6. /\ items \in Seq(Item) /\ Len(items) \in {1, 2} /\ items[1] = Final(l, status)
      /\ Len(items) = 2 => items[2] = Completed(RunOf(l))
  <2> HIDE DEF over
  <2>1. CASE over
    <3>1. items = <<Final(l, status)>> \o <<Completed(RunOf(l))>>
      BY <2>1
    <3>2. <<Final(l, status)>> \in Seq(Item) /\ <<Completed(RunOf(l))>> \in Seq(Item)
      BY <1>3
    <3> QED
      BY <3>1, <3>2, Joined
  <2>2. CASE ~over
    <3>1. items = <<Final(l, status)>>
      BY <2>2
    <3> QED
      BY <1>3, <3>1
  <2> QED
    BY <2>1, <2>2
<1> HIDE DEF items, run, t
<1>7. /\ site.feed \o items \in Seq(Item) /\ Len(site.feed \o items) = Len(site.feed) + Len(items)
      /\ \A i \in 1..Len(site.feed) : (site.feed \o items)[i] = site.feed[i]
      /\ (site.feed \o items)[Len(site.feed) + 1] = items[1]
      /\ \A i \in Len(site.feed) + 2..Len(site.feed \o items) : i = Len(site.feed) + 2 /\ (site.feed \o items)[i] = items[2]
  <2>2. /\ site.feed \o items \in Seq(Item) /\ Len(site.feed) \in Nat /\ Len(site.feed \o items) = Len(site.feed) + Len(items)
        /\ \A i \in 1..Len(site.feed) : (site.feed \o items)[i] = site.feed[i]
        /\ \A i \in 1..Len(items) : (site.feed \o items)[Len(site.feed) + i] = items[i]
    BY <1>2, <1>6, Joined
  <2> QED
    BY <1>6, <2>2
<1>8. \E k \in {1, 2} : Len(site.feed \o items) = Len(site.feed) + k
    BY <1>6, <1>7
<1>9. \A i \in Len(site.feed) + 2..Len(site.feed \o items) : (site.feed \o items)[i] = Completed(RunOf(l))
    <2>1. Len(site.feed) \in Nat
      BY <1>2
    <2> QED
      BY <1>6, <1>7, <2>1
<1> QED
    BY <1>1, <1>4, <1>5, <1>6, <1>7, <1>8, <1>9 DEF t
LEMMA RunAtoms ==
    /\ NoFeed \in Feed /\ NoSteps \in Work /\ Poll \in Place
    /\ NoRun \in Followings /\ NewRun \in Followings
    /\ NoSteps.answer = << >> /\ NoFeed.seen = {} /\ NoFeed.mismatches = {}
    /\ NoFeed.cursor = 0 /\ Poll.pc = "poll"
<1>1. NoFeed \in Feed
    BY DEF NoFeed, Feed
<1>2. NoSteps \in Work
    BY DEF NoSteps, Work, Held
<1>3. NewRun \in Followings /\ NoRun \in Followings
    BY DEF NewRun, NoRun, Followings, RunStates
<1>4. Poll \in Place
    BY DEF Place
<1> QED
    BY <1>1, <1>2, <1>3, <1>4 DEF NoSteps, NoFeed, Poll

LEMMA RunsInitially ==
    ASSUME RunAssumption, Init
    PROVE  RunTypes
<1>1. SiteType
  <2>1. << >> \in Seq(Item)
    OBVIOUS
  <2> QED
    BY <2>1 DEF Init, SiteType
<1>2. EntryType
    BY DEF Init, EntryType
<1>3. RowsType
    BY DEF Init, RowsType
<1>4. ProcessTypes
    BY RunAtoms, SMT DEF Init, ProcessTypes, RunAssumption
<1> QED
    BY <1>1, <1>2, <1>3, <1>4 DEF RunTypes

(* What becomes of a run that is followed. *)
LEMMA FollowedTypes ==
    ASSUME NEW run \in Followings
    PROVE  /\ Track(run) \in Followings \ {NoRun}
           /\ Bound(run) \in Followings \ {NoRun}
           /\ run # NoRun =>
                /\ MaybeDone(run) \in Followings \ {NoRun}
                /\ \A state : Applied(run, state) \in Followings \ {NoRun}
                /\ \A l \in Live :
                     /\ [run EXCEPT !.pending = @ \cup {l}] \in Followings \ {NoRun}
                     /\ [run EXCEPT !.pending = @ \ {l}] \in Followings \ {NoRun}
<1> DEFINE Following == [state : RunStates, pending : SUBSET Live, over : BOOLEAN, bound : BOOLEAN]
<1>1. Followings = {NoRun} \cup Following /\ NoRun \notin Following /\ NewRun \in Following
    BY DEF Followings, NoRun, NewRun, RunStates
<1>2. \A f \in Following :
        /\ \A s \in RunStates : [f EXCEPT !.state = s] \in Following
        /\ [f EXCEPT !.over = TRUE] \in Following
        /\ \A l \in Live : [f EXCEPT !.pending = @ \cup {l}] \in Following
                         /\ [f EXCEPT !.pending = @ \ {l}] \in Following
        /\ \A s \in RunStates : [f EXCEPT !.state = s, !.bound = TRUE] \in Following
        /\ f.state \in RunStates
    OBVIOUS
<1>3. /\ {"starting", "running", "done", "error"} \subseteq RunStates /\ "none" \notin RunStates
      /\ NoRun.state = "none"
    BY DEF RunStates, NoRun
<1> HIDE DEF Following
<1>4. \A f \in Following : MaybeDone(f) \in Following
    BY <1>2, <1>3 DEF MaybeDone
<1>5. ASSUME NEW f \in Following, NEW state
      PROVE  Applied(f, state) \in Following
    BY <1>2, <1>3, <1>4 DEF Applied
<1>6. Track(run) \in Following
  <2>1. [NewRun EXCEPT !.state = "running"] \in Following
    BY <1>1, <1>2, <1>3
  <2>2. run.state \notin {"none", "starting"} => run \in Following
    BY <1>1, <1>3
  <2> QED
    BY <2>1, <2>2 DEF Track
<1>7. Bound(run) \in Following
  <2>1. [NewRun EXCEPT !.state = "running", !.bound = TRUE] \in Following
    BY <1>1, <1>2, <1>3
  <2>2. run # NoRun => run \in Following /\ [run EXCEPT !.state = "running", !.bound = TRUE] \in Following
    BY <1>1, <1>2, <1>3
  <2> QED
    BY <2>1, <2>2 DEF Bound
<1>8. Followings \ {NoRun} = Following /\ (run # NoRun => run \in Following)
    BY <1>1
<1>9. run # NoRun => \A l \in Live :
        /\ [run EXCEPT !.pending = @ \cup {l}] \in Following
        /\ [run EXCEPT !.pending = @ \ {l}] \in Following
    BY <1>2, <1>8
<1> QED
    BY <1>4, <1>5, <1>6, <1>7, <1>8, <1>9
(* A run in hand is a run followed. *)
FollowsThem ==
    \A p \in Process :
      /\ at[p].pc \in {"follow", "idle", "close"} => \A r \in at[p].todo : runs[p][r] # NoRun
      /\ at[p].pc \in {"decide", "post", "repost", "handled"} => runs[p][RunOf(at[p].l)] # NoRun
      /\ \A l \in steps[p].of : runs[p][RunOf(l)] # NoRun
      /\ at[p].pc # "poll" => role[p] = "lead"

(* One step of the site: of the platform alone. *)
LEMMA SiteTypes ==
    ASSUME RunAssumption, RunTypes, FollowsThem,
           \/ \E l \in Live : SiteExpires(l)
           \/ \E r \in Run : SiteForgets(r)
    PROVE  RunTypes' /\ FollowsThem'
<1>1. ASSUME NEW l \in Live, SiteExpires(l)
      PROVE  RunTypes' /\ FollowsThem'
  <2>1. site' = Finalise(site, l, "declined") /\ "declined" \in Closed
    BY <1>1 DEF SiteExpires, Closed
  <2>2. SiteType'
    BY <2>1, FinaliseType DEF RunTypes, SiteType
  <2> QED
    BY <1>1, <2>2 DEF SiteExpires, bounds, RunTypes, EntryType, RowsType, ProcessTypes, FollowsThem
<1>2. ASSUME NEW r \in Run, SiteForgets(r)
      PROVE  RunTypes' /\ FollowsThem'
  <2>1. SiteType'
    BY <1>2 DEF SiteForgets, RunTypes, SiteType
  <2>2. faults' \in 0..MaxFaults
    BY <1>2, SMT DEF SiteForgets, RunTypes, ProcessTypes, RunAssumption
  <2> QED
    BY <1>2, <2>1, <2>2 DEF SiteForgets, RunTypes, EntryType, RowsType, ProcessTypes, FollowsThem
<1> QED
    BY <1>1, <1>2

LEMMA TakeOverTypes ==
    ASSUME RunAssumption, RunTypes, FollowsThem, NEW p \in Process, TakeOver(p)
    PROVE  RunTypes' /\ FollowsThem'
<1>1. SiteType'
  <2>1. PICK l \in Unsent \cup {<< >>} :
          /\ l = << >> => Unsent = {}
          /\ site' = IF l = << >> THEN site ELSE Finalise(site, l, "declined")
    BY DEF TakeOver
  <2>2. l # << >> => l \in Live
    BY <2>1 DEF Unsent
  <2>3. "declined" \in Closed
    BY DEF Closed
  <2> QED
    BY <2>1, <2>2, <2>3, FinaliseType DEF RunTypes, SiteType
<1> DEFINE Follows == [r \in Run |-> IF r \in Unfinished(p) THEN Track(runs[p][r]) ELSE runs[p][r]]
<1>2. Follows \in [Run -> Followings] /\ \A r \in Run : (r \in Unfinished(p) \/ runs[p][r] # NoRun => Follows[r] # NoRun)
    BY FollowedTypes DEF RunTypes, ProcessTypes
<1> HIDE DEF Follows
<1>3. /\ ledger' = ledger /\ store' = store /\ writes' = writes /\ d3' = d3 /\ reported' = reported
      /\ faults' = faults /\ stops' = stops /\ crashes' = crashes
      /\ role' = [role EXCEPT ![p] = "lead"]
      /\ runs' = [runs EXCEPT ![p] = Follows] /\ feed' = [feed EXCEPT ![p].cursor = store.cursor]
      /\ steps' = [steps EXCEPT ![p].armed = Recovered]
      /\ at' = [at EXCEPT ![p] = [pc |-> "follow", todo |-> Unfinished(p)]]
    BY DEF TakeOver, Follows, bounds
<1>4. /\ Recovered \subseteq Live /\ store.cursor \in Nat
      /\ [pc |-> "follow", todo |-> Unfinished(p)] \in Place
  <2>1. Unfinished(p) \subseteq Run
    BY DEF Unfinished
  <2> QED
    BY <2>1 DEF RunTypes, RowsType, Recovered, Place
<1>5. /\ feed' \in [Process -> Feed] /\ steps' \in [Process -> Work] /\ at' \in [Process -> Place]
      /\ runs' \in [Process -> [Run -> Followings]] /\ role' \in [Process -> {"down", "standby", "lead"}]
  <2>1. feed \in [Process -> Feed] /\ steps \in [Process -> Work] /\ at \in [Process -> Place]
        /\ runs \in [Process -> [Run -> Followings]] /\ role \in [Process -> {"down", "standby", "lead"}]
    BY DEF RunTypes, ProcessTypes
  <2>2. [feed[p] EXCEPT !.cursor = store.cursor] \in Feed
    BY <1>4, <2>1 DEF Feed
  <2>3. [steps[p] EXCEPT !.armed = Recovered] \in Work
    BY <1>4, <2>1 DEF Work
  <2> QED
    BY <1>2, <1>3, <1>4, <2>1, <2>2, <2>3
<1>6. RunTypes'
    BY <1>1, <1>3, <1>5 DEF RunTypes, EntryType, RowsType, ProcessTypes
<1>7. FollowsThem'
  <2>1. \A q \in Process : q # p => at'[q] = at[q] /\ runs'[q] = runs[q] /\ steps'[q] = steps[q] /\ role'[q] = role[q]
    BY <1>3 DEF RunTypes, ProcessTypes
  <2>2. /\ at'[p] = [pc |-> "follow", todo |-> Unfinished(p)] /\ runs'[p] = Follows
        /\ steps'[p].of = steps[p].of /\ role'[p] = "lead"
    BY <1>3 DEF RunTypes, ProcessTypes, Work
  <2>3. \A r \in Unfinished(p) : r \in Run
    BY DEF Unfinished
  <2>4. \A l \in steps[p].of : RunOf(l) \in Run /\ runs[p][RunOf(l)] # NoRun
    BY DEF FollowsThem, RunTypes, ProcessTypes, Work, Live, RunOf
  <2> QED
    BY <1>2, <2>1, <2>2, <2>3, <2>4 DEF FollowsThem
<1> QED
    BY <1>6, <1>7
(* A process that goes down forgets. *)
LEMMA DownTypes ==
    ASSUME RunTypes, FollowsThem, NEW p \in Process, Down(p), site' = site, ledger' = ledger, reported' = reported,
           RowsType', faults' \in 0..MaxFaults, stops' \in 0..MaxStops, crashes' \in 0..MaxCrashes
    PROVE  /\ RunTypes' /\ FollowsThem'
           /\ role'[p] = "down" /\ runs'[p] = [r \in Run |-> NoRun] /\ feed'[p] = NoFeed
           /\ steps'[p] = NoSteps /\ at'[p] = Poll
           /\ \A q \in Process : q # p =>
                /\ role'[q] = role[q] /\ runs'[q] = runs[q] /\ feed'[q] = feed[q]
                /\ steps'[q] = steps[q] /\ at'[q] = at[q]
<1>1. /\ role' = [role EXCEPT ![p] = "down"] /\ runs' = [runs EXCEPT ![p] = [r \in Run |-> NoRun]]
      /\ feed' = [feed EXCEPT ![p] = NoFeed] /\ steps' = [steps EXCEPT ![p] = NoSteps]
      /\ at' = [at EXCEPT ![p] = Poll] /\ writes' \subseteq writes /\ d3' = [q \in Request |-> "idle"]
    BY DEF Down
<1>2. ProcessTypes'
    BY <1>1, RunAtoms DEF RunTypes, ProcessTypes
<1>3. /\ role'[p] = "down" /\ runs'[p] = [r \in Run |-> NoRun] /\ feed'[p] = NoFeed
      /\ steps'[p] = NoSteps /\ at'[p] = Poll
      /\ \A q \in Process : q # p =>
           /\ role'[q] = role[q] /\ runs'[q] = runs[q] /\ feed'[q] = feed[q]
           /\ steps'[q] = steps[q] /\ at'[q] = at[q]
    BY <1>1 DEF RunTypes, ProcessTypes
<1>4. FollowsThem'
    BY <1>3 DEF FollowsThem, NoSteps, Poll
<1>5. RunTypes'
    BY <1>2 DEF RunTypes, SiteType, EntryType
<1> QED
    BY <1>3, <1>4, <1>5

LEMMA EndsTypes ==
    ASSUME RunAssumption, RunTypes, FollowsThem, NEW p \in Process,
           StandBy(p) \/ Crash(p) \/ Stop(p)
    PROVE  RunTypes' /\ FollowsThem'
<1>1. CASE StandBy(p)
  <2>1. at[p].pc = "poll"
    BY <1>1 DEF StandBy, FollowsThem
  <2> QED
    BY <1>1, <2>1 DEF StandBy, bounds, RunTypes, SiteType, EntryType, RowsType, ProcessTypes, FollowsThem
<1>2. CASE Crash(p)
  <2>1. crashes' \in 0..MaxCrashes
    BY <1>2, SMT DEF Crash, RunTypes, ProcessTypes, RunAssumption
  <2> QED
    BY <1>2, <2>1, DownTypes DEF Crash, RunTypes, RowsType, ProcessTypes
<1>3. CASE Stop(p)
  <2>1. stops' \in 0..MaxStops
    BY <1>3, SMT DEF Stop, RunTypes, ProcessTypes, RunAssumption
  <2>2. store' = [store EXCEPT !.row = Saved(p)] /\ Saved(p) = [r \in Run |-> Saved(p)[r]]
    BY <1>3 DEF Stop, Saved
  <2>3. RowsType'
    BY <2>2 DEF RunTypes, RowsType
  <2> QED
    BY <1>3, <2>1, <2>3, DownTypes DEF Stop, RunTypes, ProcessTypes
<1> QED
    BY <1>1, <1>2, <1>3

(* One process goes on with its runs. *)
Others(p) ==
    /\ at' = [at EXCEPT ![p] = at'[p]] /\ runs' = [runs EXCEPT ![p] = runs'[p]]
    /\ feed' = [feed EXCEPT ![p] = feed'[p]] /\ steps' = [steps EXCEPT ![p] = steps'[p]]
    /\ role' = role /\ stops' = stops /\ crashes' = crashes

KeepsPlace(p) ==
    /\ at'[p] \in Place /\ runs'[p] \in [Run -> Followings] /\ feed'[p] \in Feed /\ steps'[p] \in Work
    /\ \A r \in Run : runs[p][r] # NoRun => runs'[p][r] # NoRun
    /\ at'[p].pc # "poll" => role[p] = "lead"
    /\ at'[p].pc \in {"follow", "idle", "close"} => \A r \in at'[p].todo : runs'[p][r] # NoRun
    /\ at'[p].pc \in {"decide", "post", "repost", "handled"} => runs'[p][RunOf(at'[p].l)] # NoRun
    /\ \A l \in steps'[p].of : l \in steps[p].of \/ runs'[p][RunOf(l)] # NoRun

Shared ==
    /\ SiteType' /\ EntryType' /\ RowsType' /\ faults' \in 0..MaxFaults
    /\ d3' \in [Request -> {"idle", "clear"}] /\ writes' \subseteq Process \X Run /\ reported' \subseteq Finals

LEMMA OnePlace ==
    ASSUME RunTypes, FollowsThem, NEW p \in Process, Others(p), KeepsPlace(p), Shared
    PROVE  /\ RunTypes' /\ FollowsThem'
           /\ \A q \in Process : q # p =>
                at'[q] = at[q] /\ runs'[q] = runs[q] /\ feed'[q] = feed[q] /\ steps'[q] = steps[q]
<1>1. \A q \in Process : q # p =>
           at'[q] = at[q] /\ runs'[q] = runs[q] /\ feed'[q] = feed[q] /\ steps'[q] = steps[q]
    BY DEF RunTypes, ProcessTypes, Others
<1>2. ProcessTypes'
    BY DEF RunTypes, ProcessTypes, Others, KeepsPlace, Shared
<1>3. \A l \in steps[p].of : RunOf(l) \in Run /\ runs[p][RunOf(l)] # NoRun
    BY DEF FollowsThem, RunTypes, ProcessTypes, Work, Live, RunOf
<1>4. FollowsThem'
    BY <1>1, <1>3 DEF FollowsThem, Others, KeepsPlace
<1> QED
    BY <1>1, <1>2, <1>4 DEF RunTypes, Shared

LEMMA HandTypes ==
    ASSUME RunTypes, FollowsThem, NEW p \in Process
    PROVE  /\ runs[p] \in [Run -> Followings] /\ feed[p] \in Feed /\ steps[p] \in Work /\ at[p] \in Place
           /\ runs = [runs EXCEPT ![p] = runs[p]] /\ feed = [feed EXCEPT ![p] = feed[p]]
           /\ steps = [steps EXCEPT ![p] = steps[p]] /\ at = [at EXCEPT ![p] = at[p]]
           /\ at[p].pc \in {"follow", "idle", "close"} => at[p].todo \subseteq Run
           /\ at[p].pc = "close" => at[p].upto \in Nat /\ at[p].then \in {<< >>} \cup {<<l>> : l \in Live}
           /\ at[p].pc \in {"decide", "post", "repost", "handled"} => at[p].l \in Live
           /\ writes \subseteq Process \X Run /\ d3 \in [Request -> {"idle", "clear"}]
           /\ reported \subseteq Finals /\ faults \in 0..MaxFaults
           /\ SiteType /\ EntryType /\ RowsType
           /\ \A l \in Live : RunOf(l) \in Run
<1>1. /\ runs[p] \in [Run -> Followings] /\ feed[p] \in Feed /\ steps[p] \in Work /\ at[p] \in Place
      /\ runs = [runs EXCEPT ![p] = runs[p]] /\ feed = [feed EXCEPT ![p] = feed[p]]
      /\ steps = [steps EXCEPT ![p] = steps[p]] /\ at = [at EXCEPT ![p] = at[p]]
    BY DEF RunTypes, ProcessTypes
<1>2. /\ at[p].pc \in {"follow", "idle", "close"} => at[p].todo \subseteq Run
      /\ at[p].pc = "close" => at[p].upto \in Nat /\ at[p].then \in {<< >>} \cup {<<l>> : l \in Live}
      /\ at[p].pc \in {"decide", "post", "repost", "handled"} => at[p].l \in Live
    BY <1>1, RunAtoms DEF Place
<1>3. \A l \in Live : RunOf(l) \in Run
    BY DEF Live, RunOf
<1> QED
    BY <1>1, <1>2, <1>3 DEF RunTypes, ProcessTypes

(* The row of a run is a row. *)
LEMMA RowWritten ==
    ASSUME RowsType, NEW r \in Run, NEW new, store' = [store EXCEPT !.row[r] = new]
    PROVE  /\ RowsType' /\ store'.row[r] = new /\ store'.cursor = store.cursor /\ store'.events = store.events
           /\ \A s \in Run : s # r => store'.row[s] = store.row[s]
<1>1. store' = [row |-> [store.row EXCEPT ![r] = new], events |-> store.events, cursor |-> store.cursor]
    BY DEF RowsType
<1>2. [store.row EXCEPT ![r] = new] = [s \in Run |-> IF s = r THEN new ELSE store.row[s]]
    BY DEF RowsType
<1> QED
    BY <1>1, <1>2 DEF RowsType

LEMMA RefreshTypes ==
    ASSUME RunAssumption, RunTypes, FollowsThem, NEW p \in Process, Refresh(p)
    PROVE  /\ RunTypes' /\ FollowsThem' /\ at'[p].pc = at[p].pc /\ at'[p].todo \subseteq at[p].todo
           /\ at[p].pc = "close" => at'[p].upto = at[p].upto /\ at'[p].then = at[p].then
           /\ \A q \in Process : q # p => at'[q] = at[q] /\ runs'[q] = runs[q]
           /\ feed' = feed /\ steps' = steps /\ store'.cursor = store.cursor
           /\ \A r \in Run : runs[p][r] # NoRun => runs'[p][r] # NoRun
           /\ \A r \in Run : runs'[p][r] = runs[p][r]
                              \/ (runs[p][r] # NoRun /\ runs'[p][r] = Applied(runs[p][r], site.run[r]))
           /\ \A r \in Run :
                \/ store'.row[r] = store.row[r]
                \/ store'.row[r] = [Row(p, r) EXCEPT !.state = runs'[p][r].state]
<1>1. PICK r \in at[p].todo :
        /\ at' = [at EXCEPT ![p].todo = @ \ {r}]
        /\ \/ /\ runs' = [runs EXCEPT ![p][r] = Applied(@, site.run[r])]
              /\ store' = [store EXCEPT !.row[r] = [Row(p, r) EXCEPT !.state = runs'[p][r].state]]
              /\ faults' = faults
           \/ faults < MaxFaults /\ faults' = faults + 1 /\ runs' = runs /\ store' = store
    BY DEF Refresh
<1>2. /\ site' = site /\ ledger' = ledger /\ role' = role /\ feed' = feed /\ steps' = steps /\ writes' = writes
      /\ d3' = d3 /\ reported' = reported /\ stops' = stops /\ crashes' = crashes
      /\ at[p].pc \in {"follow", "idle", "close"}
    BY DEF Refresh
<1>3. /\ runs[p] \in [Run -> Followings] /\ feed[p] \in Feed /\ steps[p] \in Work /\ at[p] \in Place
      /\ runs = [runs EXCEPT ![p] = runs[p]] /\ feed = [feed EXCEPT ![p] = feed[p]]
      /\ steps = [steps EXCEPT ![p] = steps[p]] /\ r \in Run
      /\ writes \subseteq Process \X Run /\ d3 \in [Request -> {"idle", "clear"}]
      /\ reported \subseteq Finals /\ faults \in 0..MaxFaults
      /\ SiteType /\ EntryType /\ RowsType
    BY <1>1, <1>2, HandTypes
<1> DEFINE place == [at[p] EXCEPT !.todo = @ \ {r}]
<1>4. /\ place \in Place /\ place.pc = at[p].pc /\ place.todo = at[p].todo \ {r}
      /\ at[p].pc = "close" => place.upto = at[p].upto /\ place.then = at[p].then
    BY <1>2, <1>3, RunAtoms DEF Place
<1>5. at' = [at EXCEPT ![p] = place]
    BY <1>1 DEF RunTypes, ProcessTypes
<1> HIDE DEF place
<1>6. runs[p][r] # NoRun /\ role[p] = "lead" /\ \A s \in at[p].todo : runs[p][s] # NoRun
    BY <1>1, <1>2 DEF FollowsThem
<1>7. /\ runs' = [runs EXCEPT ![p] = runs'[p]] /\ runs'[p] \in [Run -> Followings]
      /\ \A s \in Run : runs[p][s] # NoRun => runs'[p][s] # NoRun
      /\ \A s \in Run : runs'[p][s] = runs[p][s]
                        \/ (runs[p][s] # NoRun /\ runs'[p][s] = Applied(runs[p][s], site.run[s]))
  <2>1. CASE runs' = runs
    BY <1>3, <2>1
  <2>2. CASE runs' = [runs EXCEPT ![p][r] = Applied(@, site.run[r])]
    <3>1. Applied(runs[p][r], site.run[r]) \in Followings \ {NoRun}
      BY <1>3, <1>6, FollowedTypes
    <3>2. runs'[p] = [runs[p] EXCEPT ![r] = Applied(runs[p][r], site.run[r])] /\ runs' = [runs EXCEPT ![p] = runs'[p]]
      BY <2>2 DEF RunTypes, ProcessTypes
    <3> QED
      BY <1>3, <1>6, <3>1, <3>2
  <2> QED
    BY <1>1, <2>1, <2>2
<1>8. /\ RowsType' /\ store'.cursor = store.cursor
      /\ \A s \in Run :
           \/ store'.row[s] = store.row[s]
           \/ store'.row[s] = [Row(p, s) EXCEPT !.state = runs'[p][s].state]
  <2>1. CASE store' = store
    BY <1>3, <2>1 DEF RowsType
  <2>2. CASE store' = [store EXCEPT !.row[r] = [Row(p, r) EXCEPT !.state = runs'[p][r].state]]
    <3> DEFINE new == [Row(p, r) EXCEPT !.state = runs'[p][r].state]
    <3> HIDE DEF new
    <3>2. store' = [store EXCEPT !.row[r] = new]
      BY <2>2 DEF new
    <3>3. /\ RowsType' /\ store'.cursor = store.cursor
          /\ \A s \in Run : store'.row[s] = store.row[s] \/ (s = r /\ store'.row[s] = new)
      BY <1>3, <3>2, RowWritten
    <3> QED
      BY <3>3 DEF new
  <2> QED
    BY <1>1, <2>1, <2>2
<1>9. faults' \in 0..MaxFaults /\ SiteType' /\ EntryType'
  <2>1. faults' \in 0..MaxFaults
    BY <1>1, <1>3 DEF RunAssumption
  <2> QED
    BY <1>2, <1>3, <2>1 DEF SiteType, EntryType
<1>10. at'[p] = place
    BY <1>5 DEF RunTypes, ProcessTypes
<1>11. Others(p) /\ Shared
    BY <1>2, <1>3, <1>5, <1>7, <1>8, <1>9, <1>10 DEF Others, Shared
<1>12. KeepsPlace(p)
  <2>1. \A s \in place.todo : s \in at[p].todo /\ s \in Run
    BY <1>2, <1>4, HandTypes
  <2>2. \A s \in place.todo : runs'[p][s] # NoRun
    BY <1>6, <1>7, <2>1
  <2>3. place.pc \notin {"decide", "post", "repost", "handled"}
    BY <1>2, <1>4
  <2> QED
    BY <1>2, <1>3, <1>4, <1>6, <1>7, <1>10, <2>2, <2>3 DEF KeepsPlace
<1> QED
    BY <1>2, <1>4, <1>7, <1>8, <1>10, <1>11, <1>12, OnePlace

LEMMA PollTypes ==
    ASSUME RunAssumption, RunTypes, FollowsThem, NEW p \in Process, Idle(p) \/ FollowEnds(p)
    PROVE  RunTypes' /\ FollowsThem'
<1>1. /\ site' = site /\ ledger' = ledger /\ store' = store /\ role' = role /\ runs' = runs /\ feed' = feed
      /\ steps' = steps /\ writes' = writes /\ d3' = d3 /\ reported' = reported
      /\ faults' = faults /\ stops' = stops /\ crashes' = crashes
    BY DEF Idle, FollowEnds, bounds
<1>2. PICK place : /\ \/ place = Poll
                      \/ place = [pc |-> "idle", todo |-> Followed(p)] /\ role[p] = "lead"
                   /\ at' = [at EXCEPT ![p] = place]
    BY DEF Idle, FollowEnds
<1>3. /\ Followed(p) \subseteq Run /\ \A r \in Followed(p) : runs[p][r] # NoRun
    BY DEF Followed, NoRun
<1>4. place \in Place
    BY <1>2, <1>3, RunAtoms DEF Place
<1>5. at'[p] = place
    BY <1>2 DEF RunTypes, ProcessTypes
<1>6. Others(p) /\ Shared
    BY <1>1, <1>2, <1>5, HandTypes DEF Others, Shared, SiteType, EntryType, RowsType
<1>7. KeepsPlace(p)
  <2>1. CASE place = Poll
    BY <1>1, <1>4, <1>5, <2>1, HandTypes, RunAtoms DEF KeepsPlace
  <2>2. CASE place = [pc |-> "idle", todo |-> Followed(p)] /\ role[p] = "lead"
    BY <1>1, <1>3, <1>4, <1>5, <2>2, HandTypes DEF KeepsPlace
  <2> QED
    BY <1>2, <2>1, <2>2
<1> QED
    BY <1>6, <1>7, OnePlace

(* A row written again, or not. *)
LEMMA RowsWritten ==
    ASSUME RunTypes, NEW p \in Process, NEW r \in Run, store' = store \/ store' = [store EXCEPT !.row[r] = Row(p, r)]
    PROVE  /\ RowsType' /\ store'.cursor = store.cursor /\ store'.events = store.events
           /\ \A s \in Run : \/ store'.row[s] = store.row[s]
                             \/ s = r /\ store'.row[s] = Row(p, r)
<1>1. CASE store' = store
    BY <1>1 DEF RowsType, RunTypes
<1>2. CASE store' = [store EXCEPT !.row[r] = Row(p, r)]
    BY <1>2, RowWritten DEF RunTypes
<1> QED
    BY <1>1, <1>2

LEMMA PageNoted ==
    ASSUME RunTypes, NEW p \in Process, NEW new \in SUBSET Finals,
           feed' = [feed EXCEPT ![p].seen = @ \cup new, ![p].mismatches = @ \cup new]
    PROVE  /\ feed'[p] \in Feed /\ feed' = [feed EXCEPT ![p] = feed'[p]]
           /\ feed'[p].cursor = feed[p].cursor /\ feed'[p].seen = feed[p].seen \cup new
           /\ feed'[p].mismatches = feed[p].mismatches \cup new
<1> DEFINE page == [feed[p] EXCEPT !.seen = @ \cup new, !.mismatches = @ \cup new]
<1>1. feed \in [Process -> Feed] /\ feed[p] \in Feed
    BY DEF RunTypes, ProcessTypes
<1>2. feed' = [feed EXCEPT ![p] = page]
    BY <1>1, Zenon
<1>3. /\ page \in Feed /\ page.cursor = feed[p].cursor /\ page.seen = feed[p].seen \cup new
      /\ page.mismatches = feed[p].mismatches \cup new
    BY <1>1 DEF Feed
<1> HIDE DEF page
<1> QED
    BY <1>1, <1>2, <1>3

(* The page of the event feed is read. *)
LEMMA SyncTypes ==
    ASSUME RunAssumption, RunTypes, FollowsThem, NEW p \in Process, SyncEvents(p)
    PROVE  RunTypes' /\ FollowsThem'
<1>1. /\ site' = site /\ ledger' = ledger /\ role' = role /\ steps' = steps /\ writes' = writes /\ d3' = d3
      /\ reported' = reported /\ stops' = stops /\ crashes' = crashes /\ role[p] = "lead"
    BY DEF SyncEvents
<1>2. /\ runs[p] \in [Run -> Followings] /\ feed[p] \in Feed /\ steps[p] \in Work /\ at[p] \in Place
      /\ runs = [runs EXCEPT ![p] = runs[p]] /\ feed = [feed EXCEPT ![p] = feed[p]]
      /\ steps = [steps EXCEPT ![p] = steps[p]] /\ SiteType /\ EntryType /\ RowsType
      /\ at[p].pc = "handled" => at[p].l \in Live
      /\ writes \subseteq Process \X Run /\ d3 \in [Request -> {"idle", "clear"}]
      /\ reported \subseteq Finals /\ faults \in 0..MaxFaults
      /\ \A l \in Live : RunOf(l) \in Run
    BY HandTypes
<1> DEFINE new == {item \in Page(p) : item \in Finals /\ Mismatch(p, item)} \ feed[p].seen
           follows == [r \in Run |-> IF r \in ToClose(p) THEN Track(runs[p][r]) ELSE runs[p][r]]
           then == IF at[p].pc = "handled" THEN <<at[p].l>> ELSE << >>
           place == [pc |-> "close", todo |-> ToClose(p), upto |-> Len(site.feed), then |-> then]
<1>3. CASE /\ feed' = [feed EXCEPT ![p].seen = @ \cup new, ![p].mismatches = @ \cup new]
           /\ runs' = [runs EXCEPT ![p] = follows] /\ at' = [at EXCEPT ![p] = place]
           /\ store' = store /\ faults' = faults
  <2>1. new \subseteq Finals
    OBVIOUS
  <2>2. follows \in [Run -> Followings] /\ \A r \in Run : runs[p][r] # NoRun \/ r \in ToClose(p) => follows[r] # NoRun
    BY <1>2, FollowedTypes
  <2>3. ToClose(p) \subseteq Run /\ Len(site.feed) \in Nat
    BY <1>2 DEF ToClose, SiteType
  <2>4. then \in {<< >>} \cup {<<l>> : l \in Live}
    BY <1>2
  <2>5. place \in Place /\ place.pc = "close" /\ place.todo = ToClose(p)
    BY <2>3, <2>4 DEF Place
  <2> HIDE DEF new, follows, then, place
  <2>6. /\ at'[p] = place /\ runs'[p] = follows
        /\ feed' = [feed EXCEPT ![p] = feed'[p]] /\ feed'[p] \in Feed
    <3>1. at'[p] = place /\ runs'[p] = follows
      BY <1>3 DEF RunTypes, ProcessTypes
    <3> QED
      BY <1>3, <2>1, <3>1, PageNoted
  <2>7. feed'[p] \in Feed
    BY <2>6
  <2>8. Others(p) /\ Shared
    BY <1>1, <1>2, <1>3, <2>6 DEF Others, Shared, SiteType, EntryType, RowsType
  <2>9. KeepsPlace(p)
    <3>1. \A r \in place.todo : r \in Run /\ follows[r] # NoRun
      BY <2>2, <2>3, <2>5
    <3> QED
      BY <1>1, <1>2, <2>2, <2>5, <2>6, <2>7, <3>1 DEF KeepsPlace
  <2> QED
    BY <2>8, <2>9, OnePlace
<1>4. CASE /\ at' = [at EXCEPT ![p] = Poll] /\ feed' = feed /\ runs' = runs
           /\ \/ store' = store
              \/ at[p].pc = "handled" /\ store' = [store EXCEPT !.row[RunOf(at[p].l)] = Row(p, RunOf(at[p].l))]
           /\ \/ faults' = faults
              \/ faults < MaxFaults /\ faults' = faults + 1
  <2>1. RowsType'
    BY <1>2, <1>4, RowsWritten DEF RowsType
  <2>2. faults' \in 0..MaxFaults
    BY <1>2, <1>4 DEF RunAssumption
  <2>3. at'[p] = Poll
    BY <1>4 DEF RunTypes, ProcessTypes
  <2>4. Others(p) /\ Shared
    BY <1>1, <1>2, <1>4, <2>1, <2>2, <2>3 DEF Others, Shared, SiteType, EntryType
  <2>5. KeepsPlace(p)
    BY <1>1, <1>2, <1>4, <2>3, RunAtoms DEF KeepsPlace
  <2> QED
    BY <2>4, <2>5, OnePlace
<1>5. \/ /\ feed' = [feed EXCEPT ![p].seen = @ \cup new, ![p].mismatches = @ \cup new]
         /\ runs' = [runs EXCEPT ![p] = follows] /\ at' = [at EXCEPT ![p] = place]
         /\ store' = store /\ faults' = faults
      \/ /\ at' = [at EXCEPT ![p] = Poll] /\ feed' = feed /\ runs' = runs
         /\ \/ store' = store
            \/ at[p].pc = "handled" /\ store' = [store EXCEPT !.row[RunOf(at[p].l)] = Row(p, RunOf(at[p].l))]
         /\ \/ faults' = faults
            \/ faults < MaxFaults /\ faults' = faults + 1
    BY DEF SyncEvents
<1> QED
    BY <1>3, <1>4, <1>5

LEMMA CursorTypes ==
    ASSUME RunAssumption, RunTypes, FollowsThem, NEW p \in Process, SaveCursor(p)
    PROVE  /\ RunTypes' /\ FollowsThem' /\ store'.cursor = at[p].upto
           /\ \A s \in Run : \/ store'.row[s] = store.row[s]
                             \/ store'.row[s] = Row(p, s) /\ \E l \in Live : at[p].then = <<l>> /\ s = RunOf(l)
<1>1. /\ site' = site /\ ledger' = ledger /\ role' = role /\ runs' = runs /\ steps' = steps /\ writes' = writes
      /\ d3' = d3 /\ reported' = reported /\ faults' = faults /\ stops' = stops /\ crashes' = crashes
      /\ at' = [at EXCEPT ![p] = Poll] /\ feed' = [feed EXCEPT ![p].cursor = at[p].upto]
      /\ at[p].pc = "close"
    BY DEF SaveCursor, bounds
<1>2. /\ runs[p] \in [Run -> Followings] /\ feed[p] \in Feed /\ steps[p] \in Work /\ at[p] \in Place
      /\ runs = [runs EXCEPT ![p] = runs[p]] /\ steps = [steps EXCEPT ![p] = steps[p]] /\ SiteType /\ EntryType /\ RowsType
      /\ at[p].upto \in Nat /\ at[p].then \in {<< >>} \cup {<<l>> : l \in Live}
      /\ writes \subseteq Process \X Run /\ d3 \in [Request -> {"idle", "clear"}]
      /\ reported \subseteq Finals /\ faults \in 0..MaxFaults
      /\ \A l \in Live : RunOf(l) \in Run
    BY <1>1, HandTypes
<1>3. /\ RowsType' /\ store'.cursor = at[p].upto
      /\ \A s \in Run : \/ store'.row[s] = store.row[s]
                        \/ store'.row[s] = Row(p, s) /\ \E l \in Live : at[p].then = <<l>> /\ s = RunOf(l)
  <2>1. PICK table : store' = [store EXCEPT !.cursor = at[p].upto, !.row = table]
                     /\ table = (IF at[p].then = << >> THEN store.row
                                 ELSE [store.row EXCEPT ![RunOf(at[p].then[1])] = Row(p, RunOf(at[p].then[1]))])
    BY DEF SaveCursor
  <2>2. store' = [row |-> table, events |-> store.events, cursor |-> at[p].upto]
    BY <1>2, <2>1 DEF RowsType
  <2>3. CASE at[p].then = << >>
    BY <1>2, <2>1, <2>2, <2>3 DEF RowsType
  <2>4. CASE at[p].then # << >>
    <3>1. PICK l \in Live : at[p].then = <<l>>
      BY <1>2, <2>4
    <3>2. table = [store.row EXCEPT ![RunOf(l)] = Row(p, RunOf(l))] /\ RunOf(l) \in Run
      BY <1>2, <2>1, <2>4, <3>1
    <3>3. table = [s \in Run |-> IF s = RunOf(l) THEN Row(p, s) ELSE store.row[s]]
      BY <1>2, <3>2 DEF RowsType
    <3> HIDE DEF RowsType
    <3>4. /\ \A s \in Run : store'.row[s] = store.row[s] \/ (store'.row[s] = Row(p, s) /\ s = RunOf(l))
          /\ store'.row = [s \in Run |-> store'.row[s]] /\ store'.cursor = at[p].upto /\ store'.events = store.events
      BY <2>2, <3>3
    <3>5. store' = [row |-> store'.row, events |-> store'.events, cursor |-> store'.cursor]
      BY <2>2
    <3>6. RowsType'
      BY <1>2, <3>4, <3>5 DEF RowsType
    <3> QED
      BY <3>1, <3>4, <3>6
  <2> QED
    BY <2>3, <2>4
<1>4. /\ at'[p] = Poll /\ feed'[p] = [feed[p] EXCEPT !.cursor = at[p].upto] /\ feed' = [feed EXCEPT ![p] = feed'[p]]
    BY <1>1 DEF RunTypes, ProcessTypes
<1>5. feed'[p] \in Feed
    BY <1>2, <1>4 DEF Feed
<1>6. Others(p) /\ Shared
    BY <1>1, <1>2, <1>3, <1>4 DEF Others, Shared, SiteType, EntryType
<1>7. KeepsPlace(p)
    BY <1>1, <1>2, <1>4, <1>5, RunAtoms DEF KeepsPlace
<1> QED
    BY <1>3, <1>6, <1>7, OnePlace

(* A purchase is delivered. *)
LEMMA DeliverTypes ==
    ASSUME RunAssumption, RunTypes, FollowsThem, NEW p \in Process, NEW l \in Live, Deliver(p, l)
    PROVE  /\ RunTypes' /\ FollowsThem' /\ Others(p)
           /\ \/ at'[p] = [pc |-> "decide", l |-> l] /\ ledger[l].status = "none"
              \/ at'[p] = [pc |-> "repost", l |-> l] /\ ledger[l].status # "none"
              \/ at'[p] = Poll
           /\ runs'[p] = [runs[p] EXCEPT ![RunOf(l)] = Bound(@)]
           /\ steps'[p].answer = steps[p].answer /\ steps'[p].of = steps[p].of \cup {l}
           /\ store'.cursor = store.cursor
           /\ \A s \in Run : \/ store'.row[s] = store.row[s]
                             \/ store'.row[s] = [Row(p, s) EXCEPT !.state = "running"]
<1> DEFINE r == RunOf(l)
           armed == IF ledger[l].status = "pending" THEN {l} ELSE {}
           stored == IF ledger[l].status = "none" THEN {l} ELSE {}
           new == IF runs[p][r] # NoRun /\ runs[p][r].bound THEN store.row[r] ELSE [Row(p, r) EXCEPT !.state = "running"]
           place == CASE ledger[l].status = "none" -> [pc |-> "decide", l |-> l]
                      [] ledger[l].status # "none" /\ site.status[l] = "queued" -> [pc |-> "repost", l |-> l]
                      [] OTHER -> Poll
           follows == [runs[p] EXCEPT ![r] = Bound(@)]
           work == [steps[p] EXCEPT !.of = @ \cup {l}, !.armed = @ \cup armed]
<1>1. /\ runs' = [runs EXCEPT ![p][r] = Bound(@)]
      /\ steps' = [steps EXCEPT ![p].of = @ \cup {l}, ![p].armed = @ \cup armed]
      /\ store' = [store EXCEPT !.events = @ \cup stored, !.row[r] = new]
      /\ at' = [at EXCEPT ![p] = place]
      /\ role[p] = "lead"
      /\ site' = site /\ ledger' = ledger /\ role' = role /\ feed' = feed /\ writes' = writes
      /\ d3' = d3 /\ reported' = reported /\ faults' = faults /\ stops' = stops /\ crashes' = crashes
    BY DEF Deliver, bounds
<1>2. /\ runs[p] \in [Run -> Followings] /\ feed[p] \in Feed /\ steps[p] \in Work /\ at[p] \in Place
      /\ feed = [feed EXCEPT ![p] = feed[p]] /\ SiteType /\ EntryType /\ RowsType
      /\ writes \subseteq Process \X Run /\ d3 \in [Request -> {"idle", "clear"}]
      /\ reported \subseteq Finals /\ faults \in 0..MaxFaults /\ r \in Run
    BY HandTypes
<1>3. /\ follows \in [Run -> Followings] /\ \A s \in Run : (runs[p][s] # NoRun \/ s = r => follows[s] # NoRun)
      /\ follows[r] # NoRun
  <2>1. Bound(runs[p][r]) \in Followings \ {NoRun}
    BY <1>2, FollowedTypes
  <2> QED
    BY <1>2, <2>1
<1>4. /\ work \in Work /\ work.answer = steps[p].answer /\ work.of = steps[p].of \cup {l}
  <2>1. armed \subseteq Live
    OBVIOUS
  <2> HIDE DEF armed
  <2> QED
    BY <1>2, <2>1 DEF Work
<1>5. /\ runs' = [runs EXCEPT ![p] = follows] /\ steps' = [steps EXCEPT ![p] = work]
  <2>1. runs' = [runs EXCEPT ![p] = follows]
    BY <1>1
  <2>2. steps' = [steps EXCEPT ![p] = work]
    <3> HIDE DEF armed
    <3> QED
      BY <1>1, Zenon DEF RunTypes, ProcessTypes
  <2> QED
    BY <2>1, <2>2
<1>6. /\ place \in Place
      /\ \/ place = [pc |-> "decide", l |-> l] /\ ledger[l].status = "none"
         \/ place = [pc |-> "repost", l |-> l] /\ ledger[l].status # "none"
         \/ place = Poll
  <2>1. [pc |-> "decide", l |-> l] \in Place /\ [pc |-> "repost", l |-> l] \in Place /\ Poll \in Place
    BY DEF Place
  <2> QED
    BY <2>1
<1>7. \/ new = store.row[r]
      \/ new = [Row(p, r) EXCEPT !.state = "running"]
    OBVIOUS
<1>8. stored \subseteq Live
    OBVIOUS
<1> HIDE DEF place, follows, work, new, stored, armed
<1>9. /\ RowsType' /\ store'.cursor = store.cursor
      /\ \A s \in Run : \/ store'.row[s] = store.row[s]
                        \/ store'.row[s] = [Row(p, s) EXCEPT !.state = "running"]
  <2>1. store' = [row |-> [store.row EXCEPT ![r] = new], events |-> store.events \cup stored, cursor |-> store.cursor]
    BY <1>1, <1>2 DEF RowsType
  <2>2. [store.row EXCEPT ![r] = new] = [s \in Run |-> IF s = r THEN new ELSE store.row[s]]
    BY <1>2 DEF RowsType
  <2>3. /\ store'.row = [s \in Run |-> IF s = r THEN new ELSE store.row[s]] /\ store'.events = store.events \cup stored
        /\ store'.cursor = store.cursor /\ store' = [row |-> store'.row, events |-> store'.events, cursor |-> store'.cursor]
    BY <2>1, <2>2
  <2>4. store'.row = [s \in Run |-> store'.row[s]] /\ \A s \in Run : store'.row[s] = store.row[s] \/ (s = r /\ store'.row[s] = new)
    BY <2>3
  <2>5. RowsType'
    BY <1>2, <1>8, <2>3, <2>4 DEF RowsType
  <2> QED
    BY <1>7, <2>3, <2>4, <2>5
<1>10. at'[p] = place /\ runs'[p] = follows /\ steps'[p] = work
    BY <1>1, <1>5 DEF RunTypes, ProcessTypes
<1>11. Others(p) /\ Shared
    BY <1>1, <1>2, <1>5, <1>9, <1>10 DEF Others, Shared, SiteType, EntryType
<1>12. KeepsPlace(p)
  <2>1. (place.pc \in {"decide", "repost"} /\ place.l = l) \/ place.pc = "poll"
    BY <1>6, RunAtoms
  <2>2. \A k \in work.of : k \in steps[p].of \/ follows[RunOf(k)] # NoRun
    BY <1>3, <1>4
  <2> QED
    BY <1>1, <1>2, <1>3, <1>4, <1>6, <1>10, <2>1, <2>2 DEF KeepsPlace
<1> QED
    BY <1>4, <1>6, <1>9, <1>10, <1>11, <1>12, OnePlace DEF follows

(* What is posted was decided; a step-up waits only if it was asked for. *)
AskedFirst ==
    /\ \A l \in Live : ledger[l].status = "pending" => ledger[l].asked
    /\ \A p \in Process : at[p].pc \in {"post", "repost"} => ledger[at[p].l].status # "none"

LEMMA DecideTypes ==
    ASSUME RunAssumption, RunTypes, FollowsThem, AskedFirst, NEW p \in Process,
           NEW status \in {"pending"} \cup Closed, NEW late \in BOOLEAN, Decide(p, status, late)
    PROVE  /\ RunTypes' /\ FollowsThem' /\ AskedFirst' /\ Others(p)
           /\ at[p].pc = "decide" /\ at'[p] = [pc |-> "post", l |-> at[p].l] /\ at[p].l \in Live
           /\ ledger'[at[p].l].status = status /\ \A k \in Live : k # at[p].l => ledger'[k] = ledger[k]
           /\ feed'[p].seen = feed[p].seen /\ feed'[p].cursor = feed[p].cursor /\ feed'[p].mismatches = {}
<1>1. /\ site' = site /\ store' = store /\ role' = role /\ runs' = runs /\ steps' = steps /\ writes' = writes /\ d3' = d3
      /\ stops' = stops /\ crashes' = crashes /\ at[p].pc = "decide"
      /\ ledger' = [ledger EXCEPT ![at[p].l] = [status |-> status, asked |-> status = "pending"]]
      /\ reported' = reported \/ reported' = reported \cup feed[p].mismatches
      /\ feed' = [feed EXCEPT ![p].mismatches = {}] /\ at' = [at EXCEPT ![p].pc = "post"]
      /\ faults' = faults \/ (faults < MaxFaults /\ faults' = faults + 1)
    BY DEF Decide
<1>2. /\ runs[p] \in [Run -> Followings] /\ feed[p] \in Feed /\ steps[p] \in Work /\ at[p] \in Place
      /\ runs = [runs EXCEPT ![p] = runs[p]] /\ steps = [steps EXCEPT ![p] = steps[p]]
      /\ SiteType /\ EntryType /\ RowsType
      /\ writes \subseteq Process \X Run /\ d3 \in [Request -> {"idle", "clear"}]
      /\ reported \subseteq Finals /\ faults \in 0..MaxFaults /\ at[p].l \in Live
    BY <1>1, HandTypes
<1> DEFINE place == [at[p] EXCEPT !.pc = "post"]
           page == [feed[p] EXCEPT !.mismatches = {}]
<1>3. at[p] = [pc |-> "decide", l |-> at[p].l]
    BY <1>1, <1>2, RunAtoms DEF Place
<1>4. place = [pc |-> "post", l |-> at[p].l] /\ place \in Place
  <2>1. place = [pc |-> "post", l |-> at[p].l]
    BY <1>3
  <2> QED
    BY <1>2, <2>1 DEF Place
<1>5. page \in Feed /\ page.seen = feed[p].seen /\ page.cursor = feed[p].cursor /\ page.mismatches = {}
    BY <1>2 DEF Feed
<1> HIDE DEF place, page
<1>6. at'[p] = place /\ at' = [at EXCEPT ![p] = place] /\ feed'[p] = page /\ feed' = [feed EXCEPT ![p] = page]
    BY <1>1 DEF RunTypes, ProcessTypes, place, page
<1>7. /\ EntryType' /\ ledger'[at[p].l] = [status |-> status, asked |-> status = "pending"]
      /\ \A k \in Live : k # at[p].l => ledger'[k] = ledger[k]
  <2>1. ledger'[at[p].l] = [status |-> status, asked |-> status = "pending"]
        /\ \A k \in Live : k # at[p].l => ledger'[k] = ledger[k]
    BY <1>1, <1>2 DEF EntryType
  <2>2. [status |-> status, asked |-> status = "pending"] \in [status : {"none", "pending"} \cup Closed, asked : BOOLEAN]
    OBVIOUS
  <2>3. EntryType'
    BY <1>1, <1>2, <2>2 DEF EntryType
  <2> QED
    BY <2>1, <2>3
<1>8. faults' \in 0..MaxFaults
    BY <1>1, <1>2 DEF RunAssumption
<1>9. reported' \subseteq Finals
    BY <1>1, <1>2 DEF Feed
<1>10. Others(p) /\ Shared
    BY <1>1, <1>2, <1>6, <1>7, <1>8, <1>9 DEF Others, Shared, SiteType, RowsType
<1>11. KeepsPlace(p)
  <2>1. role[p] = "lead" /\ runs[p][RunOf(at[p].l)] # NoRun
    BY <1>1 DEF FollowsThem
  <2>2. place.pc = "post" /\ place.l = at[p].l
    BY <1>4
  <2>3. place.pc \notin {"follow", "idle", "close"} /\ place.pc # "poll" /\ runs'[p] = runs[p] /\ steps'[p] = steps[p]
    BY <1>1, <2>2
  <2> QED
    BY <1>2, <1>4, <1>5, <1>6, <2>1, <2>2, <2>3 DEF KeepsPlace
<1>12. /\ RunTypes' /\ FollowsThem'
       /\ \A q \in Process : q # p => at'[q] = at[q]
    BY <1>10, <1>11, OnePlace
<1>13. AskedFirst'
  <2>0. status # "none"
    BY DEF Closed
  <2>1. \A k \in Live : ledger[k].status # "none" => ledger'[k].status # "none"
    BY <1>7, <2>0
  <2>2. \A q \in Process : at[q].pc \in {"post", "repost"} => at[q].l \in Live
    BY HandTypes
  <2>3. ASSUME NEW q \in Process, at'[q].pc \in {"post", "repost"}
        PROVE  ledger'[at'[q].l].status # "none"
    <3>1. CASE q = p
      BY <1>4, <1>6, <1>7, <2>0, <3>1
    <3>2. CASE q # p
      BY <1>12, <2>1, <2>2, <2>3, <3>2 DEF AskedFirst
    <3> QED
      BY <3>1, <3>2
  <2>4. ASSUME NEW k \in Live, ledger'[k].status = "pending"
        PROVE  ledger'[k].asked
    <3>1. CASE k = at[p].l
      <4>1. ledger'[k].status = status /\ ledger'[k].asked = (status = "pending")
        BY <1>7, <3>1
      <4> QED
        BY <2>4, <4>1
    <3>2. CASE k # at[p].l
      BY <1>7, <2>4, <3>2 DEF AskedFirst
    <3> QED
      BY <3>1, <3>2
  <2> QED
    BY <2>3, <2>4 DEF AskedFirst
<1> QED
    BY <1>1, <1>2, <1>4, <1>5, <1>6, <1>7, <1>10, <1>12, <1>13

(* The platform takes a decision, or does not. *)
LEMMA AcceptTypes ==
    ASSUME RunTypes, AskedFirst, RunAssumption, NEW l \in Live, ledger[l].status # "none",
           Accepts(l, ledger[l].asked)
    PROVE  SiteType' /\ faults' \in 0..MaxFaults
<1>1. /\ faults' = faults \/ (faults < MaxFaults /\ faults' = faults + 1)
      /\ \/ site' = site
         \/ ledger[l].asked /\ site' = [site EXCEPT !.status[l] = "pending"]
         \/ ~ledger[l].asked /\ site' = Finalise(site, l, ledger[l].status)
    BY DEF Accepts
<1>2. faults' \in 0..MaxFaults
    BY <1>1 DEF RunAssumption, RunTypes, ProcessTypes
<1>3. SiteType /\ (~ledger[l].asked => ledger[l].status \in Closed)
  <2>1. ledger[l].status \in {"none", "pending"} \cup Closed /\ (ledger[l].status = "pending" => ledger[l].asked)
    BY DEF RunTypes, EntryType, AskedFirst
  <2> QED
    BY <2>1 DEF RunTypes
<1>4. CASE site' = site
    BY <1>2, <1>3, <1>4 DEF SiteType
<1>5. CASE site' = [site EXCEPT !.status[l] = "pending"]
    BY <1>2, <1>3, <1>5 DEF SiteType
<1>6. CASE ~ledger[l].asked /\ site' = Finalise(site, l, ledger[l].status)
    BY <1>2, <1>3, <1>6, FinaliseType DEF SiteType
<1> QED
    BY <1>1, <1>2, <1>4, <1>5, <1>6

Waiting(run, l) == [run EXCEPT !.pending = @ \cup {l}]
WaitsNoMore(run, l) == [run EXCEPT !.pending = @ \ {l}]

LEMMA PendingTypes ==
    ASSUME NEW run \in Followings, run # NoRun, NEW l \in Live
    PROVE  /\ Waiting(run, l) \in Followings \ {NoRun}
           /\ WaitsNoMore(run, l) \in Followings \ {NoRun}
           /\ Waiting(run, l).pending = run.pending \cup {l} /\ Waiting(run, l).over = run.over
           /\ Waiting(run, l).state = run.state /\ WaitsNoMore(run, l).state = run.state
           /\ WaitsNoMore(run, l).pending = run.pending \ {l} /\ WaitsNoMore(run, l).over = run.over
<1>1. run \in [state : RunStates, pending : SUBSET Live, over : BOOLEAN, bound : BOOLEAN]
    BY DEF Followings
<1> QED
    BY <1>1, FollowedTypes DEF Waiting, WaitsNoMore

LEMMA OneFollowed ==
    ASSUME NEW follows \in [Run -> Followings], NEW r \in Run, NEW new \in Followings \ {NoRun}
    PROVE  /\ [follows EXCEPT ![r] = new] \in [Run -> Followings]
           /\ \A s \in Run : follows[s] # NoRun => [follows EXCEPT ![r] = new][s] # NoRun
OBVIOUS

LEMMA PostTypes ==
    ASSUME RunAssumption, RunTypes, FollowsThem, AskedFirst, NEW p \in Process, PostNew(p)
    PROVE  /\ RunTypes' /\ FollowsThem' /\ Others(p)
           /\ at[p].pc = "post" /\ at'[p] = [pc |-> "handled", l |-> at[p].l] /\ at[p].l \in Live
           /\ steps'[p].answer = steps[p].answer /\ steps'[p].of = steps[p].of
           /\ \/ ledger[at[p].l].asked
                 /\ runs'[p] = [runs[p] EXCEPT ![RunOf(at[p].l)] = Waiting(runs[p][RunOf(at[p].l)], at[p].l)]
              \/ ~ledger[at[p].l].asked /\ runs'[p] = runs[p]
<1> DEFINE l == at[p].l
           r == RunOf(l)
<1>1. /\ at[p].pc = "post" /\ Accepts(l, ledger[l].asked)
      /\ runs' = IF ledger[l].asked THEN [runs EXCEPT ![p][r].pending = @ \cup {l}] ELSE runs
      /\ steps' = IF ledger[l].asked THEN [steps EXCEPT ![p].armed = @ \cup {l}] ELSE steps
      /\ at' = [at EXCEPT ![p] = [pc |-> "handled", l |-> l]]
      /\ ledger' = ledger /\ store' = store /\ role' = role /\ feed' = feed /\ writes' = writes /\ d3' = d3
      /\ reported' = reported /\ stops' = stops /\ crashes' = crashes
    BY DEF PostNew
<1>2. /\ runs[p] \in [Run -> Followings] /\ feed[p] \in Feed /\ steps[p] \in Work /\ at[p] \in Place
      /\ runs = [runs EXCEPT ![p] = runs[p]] /\ feed = [feed EXCEPT ![p] = feed[p]]
      /\ steps = [steps EXCEPT ![p] = steps[p]]
      /\ SiteType /\ EntryType /\ RowsType
      /\ writes \subseteq Process \X Run /\ d3 \in [Request -> {"idle", "clear"}]
      /\ reported \subseteq Finals /\ faults \in 0..MaxFaults /\ l \in Live /\ r \in Run
    BY <1>1, HandTypes
<1>3. role[p] = "lead" /\ runs[p][r] # NoRun /\ ledger[l].status # "none"
    BY <1>1 DEF FollowsThem, AskedFirst
<1>4. SiteType' /\ faults' \in 0..MaxFaults
    BY <1>1, <1>2, <1>3, AcceptTypes
<1>5. [pc |-> "handled", l |-> l] \in Place
    BY <1>2 DEF Place
<1> HIDE DEF l, r
<1>6. /\ runs' = [runs EXCEPT ![p] = runs'[p]] /\ runs'[p] \in [Run -> Followings]
      /\ \A s \in Run : runs[p][s] # NoRun => runs'[p][s] # NoRun
      /\ \/ ledger[l].asked /\ runs'[p] = [runs[p] EXCEPT ![r] = Waiting(runs[p][r], l)]
         \/ ~ledger[l].asked /\ runs'[p] = runs[p]
  <2>1. CASE ledger[l].asked
    <3>0. runs[p][r] \in Followings
      BY <1>2
    <3> DEFINE new == Waiting(runs[p][r], l)
    <3>1. new \in Followings \ {NoRun}
      BY <1>2, <1>3, <3>0, PendingTypes
    <3>2. runs' = [runs EXCEPT ![p] = [runs[p] EXCEPT ![r] = new]]
      BY <1>1, <2>1 DEF Waiting
    <3> HIDE DEF new
    <3>4. runs'[p] = [runs[p] EXCEPT ![r] = new] /\ runs' = [runs EXCEPT ![p] = runs'[p]]
      BY <3>2 DEF RunTypes, ProcessTypes
    <3>5. /\ runs'[p] \in [Run -> Followings]
          /\ \A s \in Run : runs[p][s] # NoRun => runs'[p][s] # NoRun
      BY <1>2, <3>1, <3>4, OneFollowed
    <3> QED
      BY <2>1, <3>4, <3>5 DEF new
  <2>2. CASE ~ledger[l].asked
    BY <1>1, <1>2, <2>2
  <2> QED
    BY <2>1, <2>2
<1>7. /\ steps' = [steps EXCEPT ![p] = steps'[p]] /\ steps'[p] \in Work /\ steps'[p].answer = steps[p].answer
      /\ steps'[p].of = steps[p].of
  <2>1. CASE steps' = steps
    BY <1>2, <2>1
  <2>2. CASE steps' = [steps EXCEPT ![p].armed = @ \cup {l}]
    <3>1. steps'[p] = [steps[p] EXCEPT !.armed = @ \cup {l}] /\ steps' = [steps EXCEPT ![p] = steps'[p]]
      BY <2>2 DEF RunTypes, ProcessTypes
    <3>2. steps'[p] \in Work /\ steps'[p].answer = steps[p].answer /\ steps'[p].of = steps[p].of
      BY <1>2, <3>1 DEF Work
    <3> QED
      BY <3>1, <3>2
  <2> QED
    BY <1>1, <2>1, <2>2
<1>8. at'[p] = [pc |-> "handled", l |-> l]
    BY <1>1 DEF RunTypes, ProcessTypes
<1>9. Others(p) /\ Shared
    BY <1>1, <1>2, <1>4, <1>6, <1>7, <1>8 DEF Others, Shared, EntryType, RowsType
<1>10. KeepsPlace(p)
  <2>1. runs'[p][r] # NoRun
    BY <1>2, <1>3, <1>6
  <2>2. /\ at'[p].pc = "handled" /\ at'[p].l = l /\ RunOf(at'[p].l) = r
    BY <1>8 DEF r
  <2> QED
    BY <1>1, <1>2, <1>3, <1>5, <1>6, <1>7, <1>8, <2>1, <2>2 DEF KeepsPlace
<1> QED
    BY <1>1, <1>2, <1>6, <1>7, <1>8, <1>9, <1>10, OnePlace DEF l, r

LEMMA RepostTypes ==
    ASSUME RunAssumption, RunTypes, FollowsThem, AskedFirst, NEW p \in Process, PostStored(p)
    PROVE  /\ RunTypes' /\ FollowsThem' /\ Others(p) /\ at[p].pc = "repost" /\ at'[p] = Poll
           /\ steps'[p].answer = steps[p].answer /\ steps'[p].of = steps[p].of
<1> DEFINE l == at[p].l
<1>1. /\ at[p].pc = "repost" /\ Accepts(l, ledger[l].asked)
      /\ \/ steps' = [steps EXCEPT ![p].armed = @ \cup {l}]
         \/ steps' = steps
      /\ at' = [at EXCEPT ![p] = Poll] /\ runs' = runs
      /\ ledger' = ledger /\ store' = store /\ role' = role /\ feed' = feed /\ writes' = writes /\ d3' = d3
      /\ reported' = reported /\ stops' = stops /\ crashes' = crashes
    BY DEF PostStored
<1>2. /\ runs[p] \in [Run -> Followings] /\ feed[p] \in Feed /\ steps[p] \in Work /\ at[p] \in Place
      /\ runs = [runs EXCEPT ![p] = runs[p]] /\ feed = [feed EXCEPT ![p] = feed[p]]
      /\ steps = [steps EXCEPT ![p] = steps[p]]
      /\ SiteType /\ EntryType /\ RowsType
      /\ writes \subseteq Process \X Run /\ d3 \in [Request -> {"idle", "clear"}]
      /\ reported \subseteq Finals /\ faults \in 0..MaxFaults /\ l \in Live
    BY <1>1, HandTypes
<1>3. ledger[l].status # "none"
    BY <1>1 DEF AskedFirst
<1>4. SiteType' /\ faults' \in 0..MaxFaults
    BY <1>1, <1>2, <1>3, AcceptTypes
<1> HIDE DEF l
<1>7. /\ steps' = [steps EXCEPT ![p] = steps'[p]] /\ steps'[p] \in Work /\ steps'[p].answer = steps[p].answer
      /\ steps'[p].of = steps[p].of
  <2>1. CASE steps' = steps
    BY <1>2, <2>1
  <2>2. CASE steps' = [steps EXCEPT ![p].armed = @ \cup {l}]
    <3>1. steps'[p] = [steps[p] EXCEPT !.armed = @ \cup {l}] /\ steps' = [steps EXCEPT ![p] = steps'[p]]
      BY <2>2 DEF RunTypes, ProcessTypes
    <3>2. steps'[p] \in Work /\ steps'[p].answer = steps[p].answer /\ steps'[p].of = steps[p].of
      BY <1>2, <3>1 DEF Work
    <3> QED
      BY <3>1, <3>2
  <2> QED
    BY <1>1, <2>1, <2>2
<1>8. at'[p] = Poll
    BY <1>1 DEF RunTypes, ProcessTypes
<1>9. Others(p) /\ Shared
    BY <1>1, <1>2, <1>4, <1>7, <1>8 DEF Others, Shared, EntryType, RowsType
<1>10. KeepsPlace(p)
    BY <1>1, <1>2, <1>7, <1>8, RunAtoms DEF KeepsPlace
<1> QED
    BY <1>1, <1>7, <1>8, <1>9, <1>10, OnePlace

(* Nothing but the work of one process, and the site, changes. *)
LEMMA WorkTypes ==
    ASSUME RunAssumption, RunTypes, FollowsThem, NEW p \in Process,
           SiteType', faults' \in 0..MaxFaults, role' = role, runs' = runs, feed' = feed, at' = at,
           ledger' = ledger, store' = store, writes' = writes, d3' = d3, reported' = reported,
           stops' = stops, crashes' = crashes,
           steps' = [steps EXCEPT ![p] = steps'[p]], steps'[p] \in Work, steps'[p].of = steps[p].of
    PROVE  RunTypes' /\ FollowsThem' /\ Others(p)
<1>1. /\ runs[p] \in [Run -> Followings] /\ feed[p] \in Feed /\ steps[p] \in Work /\ at[p] \in Place
      /\ runs = [runs EXCEPT ![p] = runs[p]] /\ feed = [feed EXCEPT ![p] = feed[p]]
      /\ at = [at EXCEPT ![p] = at[p]] /\ EntryType /\ RowsType
      /\ writes \subseteq Process \X Run /\ d3 \in [Request -> {"idle", "clear"}] /\ reported \subseteq Finals
    BY HandTypes
<1>2. Others(p) /\ Shared
    BY <1>1 DEF Others, Shared, EntryType, RowsType
<1>3. KeepsPlace(p)
    BY <1>1, HandTypes DEF KeepsPlace, FollowsThem
<1> QED
    BY <1>2, <1>3, OnePlace

LEMMA AnswerTypes ==
    ASSUME RunAssumption, RunTypes, FollowsThem, NEW p \in Process, NEW l \in Live,
           \/ Expire(p, l)
           \/ \E status \in Closed : Answer(p, l, status)
    PROVE  /\ RunTypes' /\ FollowsThem' /\ Others(p) /\ steps'[p].of = steps[p].of
           /\ \A q \in Process : q # p => steps'[q] = steps[q]
<1>1. /\ role' = role /\ runs' = runs /\ feed' = feed /\ at' = at /\ ledger' = ledger /\ store' = store
      /\ writes' = writes /\ d3' = d3 /\ reported' = reported /\ stops' = stops /\ crashes' = crashes
    BY DEF Expire, Answer, bounds
<1>2. PICK status \in Closed :
        /\ site' = site \/ site' = Finalise(site, l, "declined") \/ site' = Finalise(site, l, status)
        /\ \/ steps' = steps
           \/ steps' = [steps EXCEPT ![p].armed = @ \ {l}]
           \/ steps' = [steps EXCEPT ![p].answer = <<l, status>>]
        /\ faults' = faults \/ (faults < MaxFaults /\ faults' = faults + 1)
  <2>1. CASE Expire(p, l)
    <3>1. AtWindow(l) \in Closed
      BY DEF AtWindow, Closed
    <3> QED
      BY <2>1, <3>1 DEF Expire, bounds
  <2>2. CASE \E status \in Closed : Answer(p, l, status)
    BY <2>2 DEF Answer
  <2> QED
    BY <2>1, <2>2
<1>3. SiteType' /\ faults' \in 0..MaxFaults
  <2>1. "declined" \in Closed /\ SiteType /\ faults \in 0..MaxFaults
    BY HandTypes DEF Closed
  <2>2. faults' \in 0..MaxFaults
    BY <1>2, <2>1 DEF RunAssumption
  <2>3. CASE site' = site
    BY <2>1, <2>2, <2>3 DEF SiteType
  <2>4. CASE site' = Finalise(site, l, "declined")
    BY <2>1, <2>2, <2>4, FinaliseType DEF SiteType
  <2>5. CASE site' = Finalise(site, l, status)
    BY <2>1, <2>2, <2>5, FinaliseType DEF SiteType
  <2> QED
    BY <1>2, <2>3, <2>4, <2>5
<1>4. steps \in [Process -> Work] /\ steps[p] \in Work /\ <<l, status>> \in Held
    BY DEF RunTypes, ProcessTypes, Held
<1>5. /\ steps' = [steps EXCEPT ![p] = steps'[p]] /\ steps'[p] \in Work /\ steps'[p].of = steps[p].of
      /\ \A q \in Process : q # p => steps'[q] = steps[q]
  <2>1. CASE steps' = steps
    BY <1>4, <2>1
  <2>2. CASE steps' = [steps EXCEPT ![p].armed = @ \ {l}]
    BY <1>4, <2>2 DEF Work
  <2>3. CASE steps' = [steps EXCEPT ![p].answer = <<l, status>>]
    BY <1>4, <2>3 DEF Work
  <2> QED
    BY <1>2, <2>1, <2>2, <2>3
<1> QED
    BY <1>1, <1>3, <1>5, WorkTypes

LEMMA ResolvedTypes ==
    ASSUME RunAssumption, RunTypes, FollowsThem, AskedFirst, NEW p \in Process, Resolved(p)
    PROVE  /\ RunTypes' /\ FollowsThem' /\ AskedFirst' /\ Others(p)
           /\ steps[p].answer # << >> /\ steps'[p].answer = << >> /\ steps'[p].of = steps[p].of
           /\ \E l \in Live, status \in Closed :
                /\ steps[p].answer = <<l, status>>
                /\ ledger'[l].status = IF ledger[l].status = "pending" THEN status ELSE ledger[l].status
                /\ \A k \in Live : k # l => ledger'[k] = ledger[k]
                /\ \/ /\ l \in steps[p].of
                      /\ runs'[p] = [runs[p] EXCEPT ![RunOf(l)] = MaybeDone(WaitsNoMore(runs[p][RunOf(l)], l))]
                   \/ l \notin steps[p].of /\ runs'[p] = runs[p]
<1>1. /\ steps[p] \in Work /\ runs[p] \in [Run -> Followings] /\ feed[p] \in Feed /\ at[p] \in Place
      /\ runs = [runs EXCEPT ![p] = runs[p]] /\ feed = [feed EXCEPT ![p] = feed[p]]
      /\ at = [at EXCEPT ![p] = at[p]] /\ EntryType /\ RowsType /\ SiteType
      /\ writes \subseteq Process \X Run /\ d3 \in [Request -> {"idle", "clear"}] /\ reported \subseteq Finals
      /\ faults \in 0..MaxFaults
    BY HandTypes
<1>2. steps[p].answer # << >>
    BY DEF Resolved, Unlocked
<1>3. PICK l \in Live, status \in Closed : steps[p].answer = <<l, status>>
  <2>1. steps[p].answer \in Held
    BY <1>1 DEF Work
  <2> QED
    BY <1>2, <2>1 DEF Held
<1> DEFINE r == RunOf(l)
           new == MaybeDone(WaitsNoMore(runs[p][r], l))
           work == [steps[p] EXCEPT !.armed = @ \ {l}, !.answer = << >>]
<1>4. /\ ledger' = [ledger EXCEPT ![l].status = IF @ = "pending" THEN status ELSE @]
      /\ steps' = [steps EXCEPT ![p].armed = @ \ {l}, ![p].answer = << >>]
      /\ \/ l \in steps[p].of /\ runs' = [runs EXCEPT ![p][r] = new] /\ writes' = writes \cup {<<p, r>>}
         \/ l \notin steps[p].of /\ runs' = runs /\ writes' = writes
      /\ site' = site /\ store' = store /\ role' = role /\ feed' = feed /\ at' = at /\ d3' = d3
      /\ reported' = reported /\ faults' = faults /\ stops' = stops /\ crashes' = crashes
  <2>1. steps[p].answer[1] = l /\ steps[p].answer[2] = status
    BY <1>3
  <2> QED
    BY <2>1 DEF Resolved, Seen, bounds, WaitsNoMore
<1>5. r \in Run
    BY HandTypes
<1>6. /\ work \in Work /\ work.of = steps[p].of /\ work.answer = << >>
  <2>1. << >> \in Held
    BY DEF Held
  <2> QED
    BY <1>1, <2>1 DEF Work
<1>7. steps' = [steps EXCEPT ![p] = work]
    BY <1>4, Zenon DEF RunTypes, ProcessTypes
<1> HIDE DEF work, r
<1>8. steps'[p] = work
    BY <1>7 DEF RunTypes, ProcessTypes
<1>9. /\ EntryType' /\ ledger'[l].status = (IF ledger[l].status = "pending" THEN status ELSE ledger[l].status)
      /\ ledger'[l].asked = ledger[l].asked
      /\ \A k \in Live : k # l => ledger'[k] = ledger[k]
  <2> DEFINE now == IF ledger[l].status = "pending" THEN status ELSE ledger[l].status
  <2>1. ledger[l] \in [status : {"none", "pending"} \cup Closed, asked : BOOLEAN]
    BY <1>1 DEF EntryType
  <2>2. now \in {"none", "pending"} \cup Closed
    BY <2>1
  <2>3. ledger' = [ledger EXCEPT ![l] = [ledger[l] EXCEPT !.status = now]]
    BY <1>4
  <2> HIDE DEF now
  <2>4. /\ [ledger[l] EXCEPT !.status = now] \in [status : {"none", "pending"} \cup Closed, asked : BOOLEAN]
        /\ [ledger[l] EXCEPT !.status = now].status = now /\ [ledger[l] EXCEPT !.status = now].asked = ledger[l].asked
    BY <2>1, <2>2
  <2>5. /\ EntryType' /\ ledger'[l].status = now /\ ledger'[l].asked = ledger[l].asked
        /\ \A k \in Live : k # l => ledger'[k] = ledger[k]
    BY <1>1, <2>3, <2>4 DEF EntryType
  <2> QED
    BY <2>5 DEF now
<1>10. /\ runs' = [runs EXCEPT ![p] = runs'[p]] /\ runs'[p] \in [Run -> Followings]
       /\ \A s \in Run : runs[p][s] # NoRun => runs'[p][s] # NoRun
       /\ \/ l \in steps[p].of /\ runs'[p] = [runs[p] EXCEPT ![r] = new]
          \/ l \notin steps[p].of /\ runs'[p] = runs[p]
       /\ writes' \subseteq Process \X Run
  <2>1. CASE l \in steps[p].of /\ runs' = [runs EXCEPT ![p][r] = new] /\ writes' = writes \cup {<<p, r>>}
    <3>1. runs[p][r] # NoRun /\ runs[p][r] \in Followings
      BY <1>1, <1>5, <2>1 DEF FollowsThem, r
    <3>2. WaitsNoMore(runs[p][r], l) \in Followings \ {NoRun}
      BY <3>1, PendingTypes
    <3>3. new \in Followings \ {NoRun}
      BY <3>2, FollowedTypes
    <3> HIDE DEF new
    <3>4. runs'[p] = [runs[p] EXCEPT ![r] = new] /\ runs' = [runs EXCEPT ![p] = runs'[p]]
      BY <2>1 DEF RunTypes, ProcessTypes
    <3> QED
      BY <1>1, <1>5, <2>1, <3>3, <3>4, OneFollowed
  <2>2. CASE l \notin steps[p].of /\ runs' = runs /\ writes' = writes
    BY <1>1, <2>2
  <2> QED
    BY <1>4, <2>1, <2>2
<1> HIDE DEF new
<1>11. Others(p) /\ Shared
    BY <1>1, <1>4, <1>7, <1>8, <1>9, <1>10 DEF Others, Shared, SiteType, RowsType
<1>12. KeepsPlace(p)
  <2>1. \A s \in at[p].todo : at[p].pc \in {"follow", "idle", "close"} => s \in Run
    BY HandTypes
  <2>2. at[p].pc \in {"decide", "post", "repost", "handled"} => RunOf(at[p].l) \in Run
    BY HandTypes
  <2>3. at'[p] = at[p] /\ feed'[p] = feed[p]
    BY <1>4
  <2> QED
    BY <1>1, <1>4, <1>6, <1>8, <1>10, <2>1, <2>2, <2>3 DEF KeepsPlace, FollowsThem
<1>13. AskedFirst'
  <2>0. status # "none" /\ status # "pending"
    BY DEF Closed
  <2>1. \A k \in Live : ledger[k].status # "none" => ledger'[k].status # "none"
    BY <1>9, <2>0
  <2>2. \A q \in Process : at[q].pc \in {"post", "repost"} => at[q].l \in Live
    BY HandTypes
  <2>3. \A q \in Process : at'[q].pc \in {"post", "repost"} => ledger'[at'[q].l].status # "none"
    BY <1>4, <2>1, <2>2 DEF AskedFirst
  <2>4. ASSUME NEW k \in Live, ledger'[k].status = "pending"
        PROVE  ledger'[k].asked
    <3>1. ledger'[k].asked = ledger[k].asked /\ ledger[k].status = "pending"
      BY <1>9, <2>0, <2>4
    <3> QED
      BY <3>1 DEF AskedFirst
  <2> QED
    BY <2>3, <2>4 DEF AskedFirst
<1>14. RunTypes' /\ FollowsThem'
    BY <1>11, <1>12, OnePlace
<1> QED
    BY <1>2, <1>3, <1>6, <1>8, <1>9, <1>10, <1>11, <1>13, <1>14 DEF new, r

LEMMA WriteTypes ==
    ASSUME RunAssumption, RunTypes, FollowsThem, NEW w \in writes, WriteRow(w)
    PROVE  /\ RunTypes' /\ FollowsThem' /\ store'.cursor = store.cursor
           /\ \A s \in Run : \/ store'.row[s] = store.row[s]
                             \/ \E p \in Process : store'.row[s] = Row(p, s)
<1>1. w \in Process \X Run /\ w[1] \in Process /\ w[2] \in Run /\ writes \subseteq Process \X Run
    BY DEF RunTypes, ProcessTypes
<1>2. /\ store' = [store EXCEPT !.row[w[2]] = Row(w[1], w[2])] /\ writes' = writes \ {w}
      /\ site' = site /\ ledger' = ledger /\ role' = role /\ runs' = runs /\ feed' = feed /\ steps' = steps
      /\ at' = at /\ d3' = d3 /\ reported' = reported /\ faults' = faults /\ stops' = stops
      /\ crashes' = crashes
    BY DEF WriteRow, SaveRun, bounds
<1>3. /\ RowsType' /\ store'.cursor = store.cursor
      /\ \A s \in Run : store'.row[s] = store.row[s] \/ (s = w[2] /\ store'.row[s] = Row(w[1], s))
    BY <1>1, <1>2, RowsWritten
<1>4. RunTypes'
    BY <1>1, <1>2, <1>3 DEF RunTypes, SiteType, EntryType, ProcessTypes
<1>5. FollowsThem'
    BY <1>2 DEF FollowsThem
<1> QED
    BY <1>1, <1>3, <1>4, <1>5

(* A run is started. *)
LEMMA StartTypes ==
    ASSUME RunAssumption, RunTypes, FollowsThem, NEW p \in Process, NEW q \in Request,
           CheckRun(p, q) \/ \E r \in Run : StartRun(p, q, r)
    PROVE  /\ RunTypes' /\ FollowsThem' /\ role' = role /\ store' = store /\ ledger' = ledger /\ at' = at
           /\ feed' = feed /\ steps' = steps /\ reported' = reported
           /\ \A o \in Process, s \in Run : runs'[o][s] = runs[o][s] \/ (o = p /\ runs'[o][s] = NewRun)
           /\ site'.feed = site.feed
<1>1. /\ role' = role /\ store' = store /\ ledger' = ledger /\ at' = at /\ feed' = feed /\ steps' = steps
      /\ writes' = writes /\ reported' = reported /\ faults' = faults /\ stops' = stops /\ crashes' = crashes
    BY DEF CheckRun, StartRun, bounds
<1>2. d3' \in [Request -> {"idle", "clear"}]
    BY DEF CheckRun, StartRun, RunTypes, ProcessTypes
<1>3. SiteType' /\ site'.feed = site.feed
  <2>1. CASE CheckRun(p, q)
    BY <2>1 DEF CheckRun, RunTypes, SiteType
  <2>2. CASE \E r \in Run : StartRun(p, q, r)
    <3>1. PICK r \in Run : site' = [site EXCEPT !.run[r] = "running",
              !.status = [l \in Live |-> IF RunOf(l) = r THEN "queued" ELSE @[l]]]
      BY <2>2 DEF StartRun
    <3>2. site' = [run |-> [site.run EXCEPT ![r] = "running"],
                   status |-> [l \in Live |-> IF RunOf(l) = r THEN "queued" ELSE site.status[l]],
                   feed |-> site.feed]
      BY <3>1 DEF RunTypes, SiteType
    <3>3. /\ [site.run EXCEPT ![r] = "running"] \in [Run -> {"none", "running", "completed", "gone"}]
          /\ [l \in Live |-> IF RunOf(l) = r THEN "queued" ELSE site.status[l]]
               \in [Live -> {"none", "queued", "pending"} \cup Closed]
          /\ site.feed \in Seq(Item)
      BY DEF RunTypes, SiteType
    <3> QED
      BY <3>2, <3>3 DEF SiteType
  <2> QED
    BY <2>1, <2>2
<1>4. /\ runs' \in [Process -> [Run -> Followings]]
      /\ \A o \in Process, s \in Run : runs'[o][s] = runs[o][s] \/ (o = p /\ runs'[o][s] = NewRun)
  <2>0. runs \in [Process -> [Run -> Followings]] /\ NewRun \in Followings
    BY RunAtoms DEF RunTypes, ProcessTypes
  <2>1. CASE CheckRun(p, q)
    BY <2>0, <2>1 DEF CheckRun
  <2>2. CASE \E r \in Run : StartRun(p, q, r)
    <3>1. PICK r \in Run : runs' = [runs EXCEPT ![p][r] = IF @ = NoRun THEN NewRun ELSE @]
      BY <2>2 DEF StartRun
    <3> DEFINE new == IF runs[p][r] = NoRun THEN NewRun ELSE runs[p][r]
    <3>2. runs' = [runs EXCEPT ![p] = [runs[p] EXCEPT ![r] = new]]
      BY <3>1
    <3>3. new \in Followings /\ new \in {runs[p][r], NewRun}
      BY <2>0
    <3> HIDE DEF new
    <3> QED
      BY <2>0, <3>2, <3>3
  <2> QED
    BY <2>1, <2>2
<1>5. RunTypes'
    BY <1>1, <1>2, <1>3, <1>4 DEF RunTypes, EntryType, RowsType, ProcessTypes
<1>6. FollowsThem'
  <2>1. NewRun # NoRun
    BY DEF NewRun, NoRun
  <2>2. \A o \in Process, s \in Run : runs[o][s] # NoRun => runs'[o][s] # NoRun
    BY <1>4, <2>1
  <2>3. /\ \A o \in Process : at[o].pc \in {"follow", "idle", "close"} => at[o].todo \subseteq Run
        /\ \A o \in Process : at[o].pc \in {"decide", "post", "repost", "handled"} => RunOf(at[o].l) \in Run
        /\ \A o \in Process : \A l \in steps[o].of : RunOf(l) \in Run
    <3>1. \A o \in Process : \A l \in steps[o].of : l \in Live
      BY HandTypes DEF Work
    <3> QED
      BY <3>1, HandTypes
  <2> QED
    BY <1>1, <2>2, <2>3 DEF FollowsThem
<1> QED
    BY <1>1, <1>3, <1>4, <1>5, <1>6

(* Every step keeps the types. *)
RunBasics == RunTypes /\ FollowsThem /\ AskedFirst

LEMMA AskedKept ==
    ASSUME RunTypes, AskedFirst, ledger' = ledger,
           \A q \in Process : at'[q].pc \in {"post", "repost"} => at'[q] = at[q] \/ ledger[at'[q].l].status # "none"
    PROVE  AskedFirst'
BY DEF AskedFirst

LEMMA BasicsPreserved ==
    ASSUME RunAssumption, RunBasics, [Next]_(vars)
    PROVE  RunBasics'
<1> USE DEF RunBasics
<1>1. ASSUME (\E l \in Live : SiteExpires(l)) \/ (\E r \in Run : SiteForgets(r))
      PROVE  RunBasics'
  <2>1. ledger' = ledger /\ at' = at
    BY <1>1 DEF SiteExpires, SiteForgets
  <2> QED
    BY <1>1, <2>1, SiteTypes, AskedKept
<1>2. ASSUME NEW p \in Process, TakeOver(p)
      PROVE  RunBasics'
  <2>1. ledger' = ledger /\ at' = [at EXCEPT ![p] = [pc |-> "follow", todo |-> Unfinished(p)]]
    BY <1>2 DEF TakeOver
  <2>2. \A q \in Process : at'[q] = at[q] \/ at'[q].pc = "follow"
    BY <2>1 DEF RunTypes, ProcessTypes
  <2> QED
    BY <1>2, <2>1, <2>2, TakeOverTypes, AskedKept
<1>3. ASSUME NEW p \in Process, StandBy(p) \/ Crash(p) \/ Stop(p)
      PROVE  RunBasics'
  <2>1. ledger' = ledger /\ (at' = at \/ at' = [at EXCEPT ![p] = Poll])
    BY <1>3 DEF StandBy, Crash, Stop, Down
  <2>2. \A q \in Process : at'[q] = at[q] \/ at'[q].pc = "poll"
    BY <2>1, RunAtoms DEF RunTypes, ProcessTypes
  <2> QED
    BY <1>3, <2>1, <2>2, EndsTypes, AskedKept
<1>4. ASSUME NEW p \in Process, Refresh(p)
      PROVE  RunBasics'
  <2>1. ledger' = ledger /\ at[p].pc \in {"follow", "idle", "close"}
    BY <1>4 DEF Refresh
  <2>2. \A q \in Process : at'[q] = at[q] \/ at'[q].pc \in {"follow", "idle", "close"}
    BY <1>4, <2>1, RefreshTypes
  <2> QED
    BY <1>4, <2>1, <2>2, RefreshTypes, AskedKept
<1>5. ASSUME NEW p \in Process, Idle(p) \/ FollowEnds(p) \/ SyncEvents(p) \/ SaveCursor(p)
      PROVE  RunBasics'
  <2>1. ledger' = ledger /\ \E place : at' = [at EXCEPT ![p] = place] /\ place.pc \in {"poll", "idle", "close"}
    BY <1>5, RunAtoms DEF Idle, FollowEnds, SyncEvents, SaveCursor
  <2>2. \A q \in Process : at'[q] = at[q] \/ at'[q].pc \in {"poll", "idle", "close"}
    BY <2>1 DEF RunTypes, ProcessTypes
  <2> QED
    BY <1>5, <2>1, <2>2, PollTypes, SyncTypes, CursorTypes, AskedKept
<1>6. ASSUME NEW p \in Process, NEW l \in Live, Deliver(p, l)
      PROVE  RunBasics'
  <2>1. ledger' = ledger
    BY <1>6 DEF Deliver
  <2>0. /\ RunTypes' /\ FollowsThem' /\ Others(p)
        /\ \/ at'[p] = [pc |-> "decide", l |-> l] /\ ledger[l].status = "none"
           \/ at'[p] = [pc |-> "repost", l |-> l] /\ ledger[l].status # "none"
           \/ at'[p] = Poll
    BY <1>6, DeliverTypes
  <2>2. \A q \in Process : q # p => at'[q] = at[q]
    BY <2>0 DEF Others, RunTypes, ProcessTypes
  <2>3. at'[p].pc \in {"post", "repost"} => ledger[at'[p].l].status # "none"
    BY <2>0, RunAtoms
  <2> QED
    BY <2>0, <2>1, <2>2, <2>3, AskedKept
<1>7. ASSUME NEW p \in Process, PostNew(p) \/ PostStored(p)
      PROVE  RunBasics'
  <2>1. ledger' = ledger /\ \E place : at' = [at EXCEPT ![p] = place] /\ place.pc \in {"poll", "handled"}
    BY <1>7, RunAtoms DEF PostNew, PostStored
  <2>2. \A q \in Process : at'[q] = at[q] \/ at'[q].pc \in {"poll", "handled"}
    BY <2>1 DEF RunTypes, ProcessTypes
  <2> QED
    BY <1>7, <2>1, <2>2, PostTypes, RepostTypes, AskedKept
<1>8. ASSUME NEW p \in Process, NEW l \in Live,
             Expire(p, l) \/ \E status \in Closed : Answer(p, l, status)
      PROVE  RunBasics'
  <2>1. ledger' = ledger /\ at' = at
    BY <1>8 DEF Expire, Answer
  <2> QED
    BY <1>8, <2>1, AnswerTypes, AskedKept
<1>9. ASSUME NEW w \in writes, WriteRow(w)
      PROVE  RunBasics'
  <2>1. ledger' = ledger /\ at' = at
    BY <1>9 DEF WriteRow
  <2> QED
    BY <1>9, <2>1, WriteTypes, AskedKept
<1>10. ASSUME NEW p \in Process, NEW q \in Request, CheckRun(p, q) \/ \E r \in Run : StartRun(p, q, r)
       PROVE  RunBasics'
  <2>1. ledger' = ledger /\ at' = at
    BY <1>10 DEF CheckRun, StartRun
  <2> QED
    BY <1>10, <2>1, StartTypes, AskedKept
<1>11. CASE UNCHANGED vars
  BY <1>11 DEF vars, bounds, RunTypes, SiteType, EntryType, RowsType, ProcessTypes, FollowsThem, AskedFirst
<1>12. ASSUME NEW p \in Process, NEW status \in {"pending"} \cup Closed, NEW late \in BOOLEAN,
              Decide(p, status, late)
       PROVE  RunBasics'
  BY <1>12, DecideTypes
<1>13. ASSUME NEW p \in Process, Resolved(p)
       PROVE  RunBasics'
  BY <1>13, ResolvedTypes
<1>14. CASE Next
  BY <1>1, <1>2, <1>3, <1>4, <1>5, <1>6, <1>7, <1>8, <1>9, <1>10, <1>12, <1>13, <1>14 DEF Next, LoopStep
<1> QED
  BY <1>11, <1>14

LEMMA RunShape ==
    ASSUME RunAssumption
    PROVE  Spec => []RunBasics
<1>1. Init => RunBasics
  <2> SUFFICES ASSUME Init
               PROVE  RunBasics
    OBVIOUS
  <2>1. RunTypes
    BY RunsInitially
  <2>2. FollowsThem /\ AskedFirst
    BY RunAtoms DEF Init, FollowsThem, AskedFirst, NoSteps
  <2> QED
    BY <2>1, <2>2 DEF RunBasics
<1> QED
    BY <1>1, BasicsPreserved, PTL DEF Spec

-----------------------------------------------------------------------------
(* Nothing opens but what is started. *)
LEMMA FinaliseOpens ==
    ASSUME SiteType, NEW l \in Live, NEW status \in Closed, site' = Finalise(site, l, status)
    PROVE  \A k \in Live : Open(k)' => Open(k)
<1>1. /\ site'.status = [site.status EXCEPT ![l] = status]
      /\ \A r \in Run : site'.run[r] \in {site.run[r], "completed"}
    BY FinaliseType
<1>2. \A k \in Live : site'.status[k] = (IF k = l THEN status ELSE site.status[k]) /\ RunOf(k) \in Run
    BY <1>1, HandTypes DEF SiteType, Live, RunOf
<1>3. status \notin {"queued", "pending"}
    BY DEF Closed
<1> QED
    BY <1>1, <1>2, <1>3 DEF Open

(* What a step makes of the site. *)
SiteMove ==
    \/ site' = site
    \/ \E l \in Live, status \in Closed : Open(l) /\ site' = Finalise(site, l, status)
    \/ \E l \in Live : site.status[l] = "queued" /\ site.run[RunOf(l)] = "running"
                              /\ site' = [site EXCEPT !.status[l] = "pending"]
    \/ \E r \in Run : site.run[r] # "none" /\ site' = [site EXCEPT !.run[r] = "gone"]
    \/ \E p \in Process, q \in Request, r \in Run : StartRun(p, q, r)

LEMMA AcceptMoves ==
    ASSUME RunBasics, NEW l \in Live, ledger[l].status # "none", Accepts(l, ledger[l].asked)
    PROVE  SiteMove
<1>1. ~ledger[l].asked => ledger[l].status \in Closed
  <2>1. ledger[l].status \in {"none", "pending"} \cup Closed /\ (ledger[l].status = "pending" => ledger[l].asked)
    BY DEF RunBasics, RunTypes, EntryType, AskedFirst
  <2> QED
    BY <2>1
<1>2. \/ site' = site
      \/ site.status[l] = "queued" /\ site.run[RunOf(l)] = "running" /\ site' = [site EXCEPT !.status[l] = "pending"]
      \/ ~ledger[l].asked /\ Open(l) /\ site' = Finalise(site, l, ledger[l].status)
    BY DEF Accepts, Open
<1> QED
    BY <1>1, <1>2 DEF SiteMove

LEMMA SiteMoves ==
    ASSUME RunBasics, [Next]_(vars)
    PROVE  SiteMove
<1>0. "declined" \in Closed
    BY DEF Closed
<1>1. ASSUME site' = site
      PROVE  SiteMove
    BY <1>1 DEF SiteMove
<1>2. ASSUME NEW l \in Live, NEW status \in Closed, Open(l), site' = Finalise(site, l, status)
      PROVE  SiteMove
    BY <1>2 DEF SiteMove
<1>3. ASSUME NEW l \in Live, SiteExpires(l)
      PROVE  SiteMove
    BY <1>0, <1>2, <1>3 DEF SiteExpires, Open
<1>4. ASSUME NEW r \in Run, SiteForgets(r)
      PROVE  SiteMove
    BY <1>4 DEF SiteMove, SiteForgets
<1>5. ASSUME NEW p \in Process, TakeOver(p)
      PROVE  SiteMove
  <2>1. PICK l \in Unsent \cup {<< >>} : site' = (IF l = << >> THEN site ELSE Finalise(site, l, "declined"))
    BY <1>5 DEF TakeOver
  <2>2. l # << >> => l \in Live /\ Open(l)
    BY <2>1 DEF Unsent
  <2> QED
    BY <1>0, <1>1, <1>2, <2>1, <2>2
<1>6. ASSUME NEW p \in Process,
             \/ StandBy(p) \/ Crash(p) \/ Stop(p) \/ Refresh(p) \/ Idle(p)
             \/ FollowEnds(p) \/ SyncEvents(p) \/ SaveCursor(p) \/ Resolved(p)
             \/ \E l \in Live : Deliver(p, l)
             \/ \E status \in {"pending"} \cup Closed, late \in BOOLEAN : Decide(p, status, late)
             \/ \E w \in writes : WriteRow(w)
             \/ \E q \in Request : CheckRun(p, q)
      PROVE  SiteMove
  <2>1. site' = site
    BY <1>6 DEF StandBy, Crash, Stop, Refresh, Idle, FollowEnds,
                SyncEvents, SaveCursor, Resolved, Deliver, Decide,
                WriteRow, CheckRun
  <2> QED
    BY <1>1, <2>1
<1>7. ASSUME NEW p \in Process, PostNew(p) \/ PostStored(p)
      PROVE  SiteMove
  <2>1. at[p].pc \in {"post", "repost"} /\ Accepts(at[p].l, ledger[at[p].l].asked)
    BY <1>7 DEF PostNew, PostStored
  <2>2. at[p].l \in Live /\ ledger[at[p].l].status # "none"
    BY <2>1, HandTypes DEF RunBasics, AskedFirst
  <2> QED
    BY <2>1, <2>2, AcceptMoves
<1>8. ASSUME NEW p \in Process, NEW l \in Live,
             Expire(p, l) \/ \E status \in Closed : Answer(p, l, status)
      PROVE  SiteMove
  <2>1. site' = site \/ \E status \in Closed : Open(l) /\ site' = Finalise(site, l, status)
    BY <1>0, <1>8 DEF Expire, Answer
  <2> QED
    BY <1>1, <1>2, <2>1
<1>9. CASE UNCHANGED vars
    BY <1>1, <1>9 DEF vars
<1>10. ASSUME NEW p \in Process, NEW q \in Request, NEW r \in Run, StartRun(p, q, r)
       PROVE  SiteMove
    BY <1>10 DEF SiteMove
<1>11. CASE Next
  <2>1. ASSUME NEW w \in writes, WriteRow(w)
        PROVE  SiteMove
    BY <1>1, <2>1 DEF WriteRow
  <2> QED
    BY <1>3, <1>4, <1>5, <1>6, <1>7, <1>8, <1>10, <1>11, <2>1 DEF Next, LoopStep
<1> QED
    BY <1>9, <1>11

LEMMA OpensKept ==
    ASSUME RunBasics, [Next]_(vars),
           ~\E p \in Process, q \in Request, r \in Run : StartRun(p, q, r)
    PROVE  \A k \in Live : Open(k)' => Open(k)
<1>0. SiteType
    BY DEF RunBasics, RunTypes
<1>1. CASE site' = site
    BY <1>1 DEF Open
<1>2. CASE \E l \in Live, status \in Closed : site' = Finalise(site, l, status)
    BY <1>0, <1>2, FinaliseOpens
<1>3. CASE \E l \in Live : site.status[l] = "queued" /\ site.run[RunOf(l)] = "running"
                                  /\ site' = [site EXCEPT !.status[l] = "pending"]
    BY <1>0, <1>3 DEF Open, SiteType
<1>4. CASE \E r \in Run : site.run[r] # "none" /\ site' = [site EXCEPT !.run[r] = "gone"]
    BY <1>0, <1>4 DEF Open, SiteType
<1> QED
    BY <1>1, <1>2, <1>3, <1>4, SiteMoves DEF SiteMove

(* One D3 at a time: one that has found no run finds none until it starts its own. *)
ClearInv == (\E q \in Request : d3[q] = "clear") => \A l \in Live : ~Open(l)

LEMMA RunsOneByOne ==
    ASSUME RunAssumption, \A q, s \in Request : q = s
    PROVE  Spec => [](ClearInv /\ OneRunAtATime)
<1>1. Init => ClearInv /\ OneRunAtATime
  <2> SUFFICES ASSUME Init
               PROVE  \A l \in Live : ~Open(l)
    BY DEF ClearInv, OneRunAtATime, Of
  <2> QED
    BY DEF Init, Open
<1>2. ASSUME RunBasics, ClearInv, OneRunAtATime, [Next]_(vars)
      PROVE  ClearInv' /\ OneRunAtATime'
  <2>1. CASE \E p \in Process, q \in Request, r \in Run : StartRun(p, q, r)
    <3>1. PICK p \in Process, q \in Request, r \in Run : StartRun(p, q, r)
      BY <2>1
    <3>2. /\ d3[q] = "clear" /\ d3' = [d3 EXCEPT ![q] = "idle"] /\ site.run[r] = "none"
          /\ site' = [site EXCEPT !.run[r] = "running",
                 !.status = [l \in Live |-> IF RunOf(l) = r THEN "queued" ELSE @[l]]]
      BY <3>1 DEF StartRun
    <3>3. \A l \in Live : ~Open(l)
      BY <1>2, <3>2 DEF ClearInv
    <3>4. ~\E s \in Request : d3'[s] = "clear"
      BY <1>2, <3>2 DEF RunBasics, RunTypes, ProcessTypes
    <3>5. \A l \in Live : RunOf(l) # r => site'.run[RunOf(l)] = site.run[RunOf(l)]
                                                          /\ site'.status[l] = site.status[l]
      <4>1. site' = [run |-> [site.run EXCEPT ![r] = "running"],
                     status |-> [l \in Live |-> IF RunOf(l) = r THEN "queued" ELSE site.status[l]],
                     feed |-> site.feed]
        BY <1>2, <3>2 DEF RunBasics, RunTypes, SiteType
      <4>2. site.run \in [Run -> {"none", "running", "completed", "gone"}]
        BY <1>2 DEF RunBasics, RunTypes, SiteType
      <4> QED
        BY <4>1, <4>2
    <3>6. \A l \in Live : Open(l)' => RunOf(l) = r
      BY <3>3, <3>5 DEF Open
    <3> QED
      BY <3>4, <3>6 DEF ClearInv, OneRunAtATime, Of
  <2>2. CASE ~\E p \in Process, q \in Request, r \in Run : StartRun(p, q, r)
    <3>1. \A k \in Live : Open(k)' => Open(k)
      BY <1>2, <2>2, OpensKept
    <3>2. OneRunAtATime'
      BY <1>2, <3>1 DEF OneRunAtATime, Of
    <3>3. ASSUME NEW q \in Request, d3'[q] = "clear", d3[q] # "clear"
          PROVE  \A l \in Live : ~Open(l)
      <4>1. PICK p \in Process, s \in Request : CheckRun(p, s)
        <5> DEFINE Goal == \E p \in Process, s \in Request : CheckRun(p, s)
        <5>0. d3' # d3 /\ d3' # [s \in Request |-> "idle"]
          BY <3>3
        <5> SUFFICES Goal
          OBVIOUS
        <5>1. ASSUME NEW p \in Process, NEW s \in Request, CheckRun(p, s)
              PROVE  Goal
          BY <5>1
        <5> HIDE DEF Goal
        <5>2. ASSUME NEW p \in Process, LoopStep(p) \/ Resolved(p)
              PROVE  Goal
          <6>1. d3' = d3
            BY <5>2 DEF LoopStep, Refresh, Idle, FollowEnds, SyncEvents,
                 SaveCursor, Resolved, Deliver, Decide, PostNew, PostStored
          <6> QED
            BY <5>0, <6>1
        <5>3. ASSUME NEW p \in Process, TakeOver(p) \/ StandBy(p) \/ Crash(p) \/ Stop(p)
              PROVE  Goal
          <6>1. d3' = d3 \/ d3' = [s \in Request |-> "idle"]
            BY <5>3 DEF TakeOver, StandBy, Crash, Stop, Down
          <6> QED
            BY <5>0, <6>1
        <5>4. ASSUME (\E l \in Live : SiteExpires(l)) \/ (\E r \in Run : SiteForgets(r))
              PROVE  Goal
          BY <5>0, <5>4 DEF SiteExpires, SiteForgets
        <5>5. ASSUME NEW p \in Process, NEW l \in Live,
                     Expire(p, l) \/ \E status \in Closed : Answer(p, l, status)
              PROVE  Goal
          BY <5>0, <5>5 DEF Expire, Answer
        <5>6. ASSUME NEW w \in writes, WriteRow(w)
              PROVE  Goal
          BY <5>0, <5>6 DEF WriteRow
        <5>7. CASE UNCHANGED vars
          BY <5>0, <5>7 DEF vars
        <5>8. CASE Next
          BY <2>2, <5>1, <5>2, <5>3, <5>4, <5>5, <5>6, <5>8 DEF Next
        <5> QED
          BY <1>2, <5>7, <5>8
      <4>2. \A l \in Live : Open(l) => RunOf(l) \in ActiveRuns(p)
        BY DEF ActiveRuns, Of, Live, RunOf
      <4> QED
        BY <4>1, <4>2 DEF CheckRun
    <3>4. ClearInv'
      BY <1>2, <3>1, <3>3 DEF ClearInv
    <3> QED
      BY <3>2, <3>4
  <2> QED
    BY <2>1, <2>2
<1> QED
    BY <1>1, <1>2, RunShape, PTL DEF Spec

(* Where D3 requests do not overlap, a run is started only when no other    *)
(* has a purchase open (_refuse_while_running).                             *)
THEOREM RunsAreStartedInTurn ==
    ASSUME RunAssumption, \A q, s \in Request : q = s
    PROVE  Spec => []OneRunAtATime
BY RunsOneByOne, PTL

-----------------------------------------------------------------------------
(* One process leads; it alone has an answer under the lock. *)
OneLead == \A p, q \in Process : role[p] = "lead" /\ role[q] = "lead" => p = q
LeadAnswers == \A p \in Process : steps[p].answer # << >> => role[p] = "lead"

(* The loop and the writers of rows take no role and no answer. *)
LEMMA LoopKeeps ==
    ASSUME RunAssumption, RunBasics, NEW p \in Process, LoopStep(p)
    PROVE  role' = role /\ \A q \in Process : steps'[q].answer = steps[q].answer
<1>1. CASE Refresh(p) \/ Idle(p) \/ FollowEnds(p) \/ SyncEvents(p) \/ SaveCursor(p)
           \/ \E status \in {"pending"} \cup Closed, late \in BOOLEAN : Decide(p, status, late)
    BY <1>1 DEF Refresh, Idle, FollowEnds, SyncEvents, SaveCursor, Decide
<1>2. ASSUME Others(p), steps'[p].answer = steps[p].answer
      PROVE  role' = role /\ \A q \in Process : steps'[q].answer = steps[q].answer
    BY <1>2 DEF Others, RunBasics, RunTypes, ProcessTypes
<1>3. CASE PostNew(p)
    BY <1>2, <1>3, PostTypes DEF RunBasics
<1>4. CASE PostStored(p)
    BY <1>2, <1>4, RepostTypes DEF RunBasics
<1>5. CASE \E l \in Live : Deliver(p, l)
  <2>1. PICK l \in Live : Deliver(p, l)
    BY <1>5
  <2>2. Others(p) /\ steps'[p].answer = steps[p].answer
    BY <2>1, DeliverTypes DEF RunBasics
  <2> QED
    BY <1>2, <2>2
<1> QED
    BY <1>1, <1>3, <1>4, <1>5 DEF LoopStep

(* Roles change as processes come and go. *)
LEMMA RolesKept ==
    ASSUME RunAssumption, RunBasics, [Next]_(vars),
           ~\E p \in Process : TakeOver(p) \/ StandBy(p) \/ Crash(p) \/ Stop(p)
    PROVE  role' = role
<1>1. ASSUME NEW p \in Process, Resolved(p)
      PROVE  role' = role
    BY <1>1 DEF Resolved
<1>2. ASSUME NEW p \in Process, NEW l \in Live,
             Expire(p, l) \/ \E status \in Closed : Answer(p, l, status)
      PROVE  role' = role
    BY <1>2 DEF Expire, Answer
<1>3. ASSUME NEW p \in Process, NEW q \in Request, CheckRun(p, q) \/ \E r \in Run : StartRun(p, q, r)
      PROVE  role' = role
    BY <1>3 DEF CheckRun, StartRun
<1>4. ASSUME NEW w \in writes, WriteRow(w)
      PROVE  role' = role
    BY <1>4 DEF WriteRow
<1>5. ASSUME (\E l \in Live : SiteExpires(l)) \/ (\E r \in Run : SiteForgets(r))
      PROVE  role' = role
    BY <1>5 DEF SiteExpires, SiteForgets
<1>6. CASE UNCHANGED vars
    BY <1>6 DEF vars
<1>7. CASE Next
    BY <1>1, <1>2, <1>3, <1>4, <1>5, <1>7, LoopKeeps DEF Next
<1> QED
    BY <1>6, <1>7

(* Who leads leads on, unless it goes down. *)
LEMMA LeadStays ==
    ASSUME RunAssumption, RunBasics, [Next]_(vars),
           ~\E p \in Process : Crash(p) \/ Stop(p), NEW q \in Process, role[q] = "lead"
    PROVE  role'[q] = "lead"
<1>0. role \in [Process -> {"down", "standby", "lead"}]
    BY DEF RunBasics, RunTypes, ProcessTypes
<1>1. CASE \E p \in Process : TakeOver(p) \/ StandBy(p)
    BY <1>0, <1>1 DEF TakeOver, StandBy
<1>2. CASE role' = role
    BY <1>2
<1> QED
    BY <1>1, <1>2, RolesKept

LEMMA NewLead ==
    ASSUME RunAssumption, RunBasics, [Next]_(vars), ~\E p \in Process : Crash(p) \/ Stop(p),
           NEW p \in Process, role[p] # "lead", role'[p] = "lead"
    PROVE  TakeOver(p)
<1>1. role \in [Process -> {"down", "standby", "lead"}]
    BY DEF RunBasics, RunTypes, ProcessTypes
<1>2. \E q \in Process : TakeOver(q) \/ StandBy(q)
    BY RolesKept
<1> QED
    BY <1>1, <1>2 DEF TakeOver, StandBy

LEMMA OneLeadKept ==
    ASSUME RunAssumption, RunBasics, OneLead, [Next]_(vars)
    PROVE  OneLead'
<1>0. role \in [Process -> {"down", "standby", "lead"}]
    BY DEF RunBasics, RunTypes, ProcessTypes
<1>1. ASSUME NEW p \in Process, TakeOver(p)
      PROVE  OneLead'
    BY <1>0, <1>1 DEF OneLead, TakeOver
<1>2. ASSUME NEW p \in Process, StandBy(p) \/ Crash(p) \/ Stop(p)
      PROVE  OneLead'
    BY <1>0, <1>2 DEF OneLead, StandBy, Crash, Stop, Down
<1>3. CASE role' = role
    BY <1>3 DEF OneLead
<1> QED
    BY <1>1, <1>2, <1>3, RolesKept

LEMMA LeadAnswersKept ==
    ASSUME RunAssumption, ~AnswersAnywhere, RunBasics, LeadAnswers, [Next]_(vars)
    PROVE  LeadAnswers'
<1>0. /\ role \in [Process -> {"down", "standby", "lead"}] /\ steps \in [Process -> Work]
      /\ NoSteps.answer = << >>
    BY RunAtoms DEF RunBasics, RunTypes, ProcessTypes
<1>1. ASSUME role' = role, \A q \in Process : steps'[q].answer \in {steps[q].answer, << >>} \/ role[q] = "lead"
      PROVE  LeadAnswers'
    BY <1>1 DEF LeadAnswers
<1>2. ASSUME NEW p \in Process, TakeOver(p)
      PROVE  LeadAnswers'
  <2>1. role' = [role EXCEPT ![p] = "lead"] /\ steps' = [steps EXCEPT ![p].armed = Recovered]
    BY <1>2 DEF TakeOver
  <2>2. \A q \in Process : steps'[q].answer = steps[q].answer
    BY <1>0, <2>1 DEF Work
  <2> QED
    BY <1>0, <2>1, <2>2 DEF LeadAnswers
<1>3. ASSUME NEW p \in Process, StandBy(p)
      PROVE  LeadAnswers'
    BY <1>0, <1>3 DEF LeadAnswers, StandBy
<1>4. ASSUME NEW p \in Process, Crash(p) \/ Stop(p)
      PROVE  LeadAnswers'
  <2>1. role' = [role EXCEPT ![p] = "down"] /\ steps' = [steps EXCEPT ![p] = NoSteps]
    BY <1>4 DEF Crash, Stop, Down
  <2> QED
    BY <1>0, <2>1 DEF LeadAnswers
<1>5. ASSUME NEW p \in Process, LoopStep(p)
      PROVE  LeadAnswers'
    BY <1>1, <1>5, LoopKeeps
<1>6. ASSUME NEW p \in Process, Resolved(p)
      PROVE  LeadAnswers'
  <2>1. steps'[p].answer = << >> /\ Others(p)
    BY <1>6, ResolvedTypes DEF RunBasics
  <2> QED
    BY <1>0, <1>1, <2>1 DEF Others
<1>7. ASSUME NEW p \in Process, NEW l \in Live,
             Expire(p, l) \/ \E status \in Closed : Answer(p, l, status)
      PROVE  LeadAnswers'
  <2>1. role[p] = "lead" /\ role' = role
    BY <1>7 DEF Expire, Answer
  <2>2. \A q \in Process : q # p => steps'[q] = steps[q]
    BY <1>7, AnswerTypes DEF RunBasics
  <2> QED
    BY <1>1, <2>1, <2>2
<1>8. ASSUME steps' = steps, role' = role
      PROVE  LeadAnswers'
    BY <1>8 DEF LeadAnswers
<1>9. ASSUME NEW p \in Process, NEW q \in Request, CheckRun(p, q) \/ \E r \in Run : StartRun(p, q, r)
      PROVE  LeadAnswers'
    BY <1>8, <1>9 DEF CheckRun, StartRun
<1>10. ASSUME NEW w \in writes, WriteRow(w)
       PROVE  LeadAnswers'
    BY <1>8, <1>10 DEF WriteRow
<1>11. ASSUME (\E l \in Live : SiteExpires(l)) \/ (\E r \in Run : SiteForgets(r))
       PROVE  LeadAnswers'
    BY <1>8, <1>11 DEF SiteExpires, SiteForgets
<1>12. CASE UNCHANGED vars
    BY <1>8, <1>12 DEF vars
<1>13. CASE Next
    BY <1>2, <1>3, <1>4, <1>5, <1>6, <1>7, <1>9, <1>10, <1>11, <1>13 DEF Next
<1> QED
    BY <1>12, <1>13

(* Mismatches are noted where a page is looked at, under the lock. *)
LEMMA SeenGrows ==
    ASSUME RunBasics, [Next]_(vars), NEW p \in Process, ~(role[p] = "lead" /\ Unlocked(p))
    PROVE  feed'[p].seen \subseteq feed[p].seen
<1>0. feed \in [Process -> Feed] /\ NoFeed.seen = {}
    BY RunAtoms DEF RunBasics, RunTypes, ProcessTypes
<1> DEFINE Goal == feed'[p].seen \subseteq feed[p].seen
<1> SUFFICES Goal
    OBVIOUS
<1>1. ASSUME feed' = feed
      PROVE  Goal
    BY <1>1
<1>2. ASSUME NEW q \in Process, NEW n, feed' = [feed EXCEPT ![q].cursor = n]
      PROVE  Goal
    BY <1>0, <1>2 DEF Feed
<1>3. ASSUME NEW q \in Process, feed' = [feed EXCEPT ![q].mismatches = {}]
      PROVE  Goal
    BY <1>0, <1>3 DEF Feed
<1>4. ASSUME NEW q \in Process, feed' = [feed EXCEPT ![q] = NoFeed]
      PROVE  Goal
    BY <1>0, <1>4
<1> HIDE DEF Goal
<1>5. ASSUME NEW q \in Process, SyncEvents(q)
      PROVE  Goal
  <2>1. CASE feed' = feed
    BY <1>1, <2>1
  <2>2. CASE feed' # feed
    <3>1. role[q] = "lead" /\ Unlocked(q) /\ q # p
      BY <1>5, <2>2 DEF SyncEvents, FeedUnlocked
    <3>2. feed'[p] = feed[p]
      BY <1>0, <1>5, <3>1 DEF SyncEvents
    <3> QED
      BY <3>2 DEF Goal
  <2> QED
    BY <2>1, <2>2
<1>6. ASSUME NEW q \in Process, LoopStep(q)
      PROVE  Goal
  <2>1. CASE SaveCursor(q)
    BY <1>2, <2>1 DEF SaveCursor
  <2>2. CASE \E status \in {"pending"} \cup Closed, late \in BOOLEAN : Decide(q, status, late)
    BY <1>3, <2>2 DEF Decide
  <2>3. CASE Refresh(q) \/ Idle(q) \/ FollowEnds(q) \/ PostNew(q) \/ PostStored(q)
             \/ \E l \in Live : Deliver(q, l)
    BY <1>1, <2>3 DEF Refresh, Idle, FollowEnds, PostNew, PostStored, Deliver
  <2> QED
    BY <1>5, <1>6, <2>1, <2>2, <2>3 DEF LoopStep
<1>7. ASSUME NEW q \in Process, TakeOver(q) \/ StandBy(q) \/ Crash(q) \/ Stop(q) \/ Resolved(q)
      PROVE  Goal
  <2>1. feed' = feed \/ feed' = [feed EXCEPT ![q].cursor = store.cursor] \/ feed' = [feed EXCEPT ![q] = NoFeed]
    BY <1>7 DEF TakeOver, StandBy, Crash, Stop, Down, Resolved
  <2> QED
    BY <1>1, <1>2, <1>4, <2>1
<1>8. ASSUME NEW q \in Process, NEW l \in Live,
             Expire(q, l) \/ \E status \in Closed : Answer(q, l, status)
      PROVE  Goal
    BY <1>1, <1>8 DEF Expire, Answer
<1>9. ASSUME NEW o \in Process, NEW q \in Request, CheckRun(o, q) \/ \E r \in Run : StartRun(o, q, r)
      PROVE  Goal
    BY <1>1, <1>9 DEF CheckRun, StartRun
<1>10. ASSUME NEW w \in writes, WriteRow(w)
       PROVE  Goal
    BY <1>1, <1>10 DEF WriteRow
<1>11. ASSUME (\E l \in Live : SiteExpires(l)) \/ (\E r \in Run : SiteForgets(r))
       PROVE  Goal
    BY <1>1, <1>11 DEF SiteExpires, SiteForgets
<1>12. CASE UNCHANGED vars
    BY <1>1, <1>12 DEF vars
<1>13. CASE Next
    BY <1>6, <1>7, <1>8, <1>9, <1>10, <1>11, <1>13 DEF Next
<1> QED
    BY <1>12, <1>13

(* Where C8 is served by the leader alone, an answer that is on its way     *)
(* from Viseca to the ledger is not noted as a mismatch (_sync_events looks *)
(* at a page under the lock).                                               *)
THEOREM AnswersAreNoMismatch ==
    ASSUME RunAssumption, ~AnswersAnywhere
    PROVE  Spec => AnswerIsNoMismatch
<1>1. Init => OneLead /\ LeadAnswers
    BY RunAtoms DEF Init, OneLead, LeadAnswers
<1>2. RunBasics /\ OneLead /\ LeadAnswers /\ [Next]_(vars) => OneLead' /\ LeadAnswers'
    BY OneLeadKept, LeadAnswersKept
<1>3. ASSUME RunBasics, OneLead, LeadAnswers, [Next]_(vars), NEW p \in Process, NEW l \in Live,
             NEW status \in Closed, Final(l, status) \in feed'[p].seen \ feed[p].seen, NEW o \in Process
      PROVE  steps[o].answer # <<l, status>>
  <2>1. role[p] = "lead" /\ Unlocked(p)
    BY <1>3, SeenGrows
  <2>2. steps[o].answer = << >>
    BY <1>3, <2>1 DEF OneLead, LeadAnswers, Unlocked
  <2> QED
    BY <2>2
<1>4. RunBasics /\ OneLead /\ LeadAnswers /\ [Next]_(vars) =>
        [\A p \in Process, l \in Live : \A status \in Closed :
           Final(l, status) \in feed'[p].seen \ feed[p].seen => \A o \in Process : steps[o].answer # <<l, status>>]_(vars)
    BY <1>3
<1> QED
    BY <1>1, <1>2, <1>4, RunShape, PTL DEF Spec, AnswerIsNoMismatch

-----------------------------------------------------------------------------
(* A run that is followed is followed until its process goes down. *)
LEMMA RunsKept ==
    ASSUME RunAssumption, RunBasics, [Next]_(vars), NEW q \in Process, NEW s \in Run,
           runs[q][s] # NoRun, ~(Crash(q) \/ Stop(q))
    PROVE  runs'[q][s] # NoRun
<1> DEFINE Goal == runs'[q][s] # NoRun
<1> SUFFICES Goal
    OBVIOUS
<1>0. runs \in [Process -> [Run -> Followings]]
    BY DEF RunBasics, RunTypes, ProcessTypes
<1>1. ASSUME runs' = runs
      PROVE  Goal
    BY <1>1
<1>2. ASSUME NEW p \in Process, Others(p), \A r \in Run : runs[p][r] # NoRun => runs'[p][r] # NoRun
      PROVE  Goal
    BY <1>0, <1>2 DEF Others
<1>3. ASSUME NEW p \in Process, NEW S, runs' = [runs EXCEPT ![p] = [r \in Run |-> IF r \in S THEN Track(runs[p][r]) ELSE runs[p][r]]]
      PROVE  Goal
  <2>1. runs[q][s] \in Followings
    BY <1>0
  <2>2. Track(runs[q][s]) # NoRun
    BY <2>1, FollowedTypes
  <2> QED
    BY <1>0, <1>3, <2>2
<1> HIDE DEF Goal
<1>4. ASSUME NEW p \in Process, TakeOver(p)
      PROVE  Goal
    BY <1>3, <1>4 DEF TakeOver
<1>5. ASSUME NEW p \in Process, StandBy(p)
      PROVE  Goal
    BY <1>1, <1>5 DEF StandBy
<1>6. ASSUME NEW p \in Process, Crash(p) \/ Stop(p)
      PROVE  Goal
  <2>1. p # q
    BY <1>6
  <2>2. runs' = [runs EXCEPT ![p] = [r \in Run |-> NoRun]]
    BY <1>6 DEF Crash, Stop, Down
  <2>3. runs'[q] = runs[q]
    BY <1>0, <2>1, <2>2
  <2> QED
    BY <2>3 DEF Goal
<1>7. ASSUME NEW p \in Process, Refresh(p)
      PROVE  Goal
  <2>1. /\ \A o \in Process : o # p => runs'[o] = runs[o]
        /\ \A r \in Run : runs[p][r] # NoRun => runs'[p][r] # NoRun
    BY <1>7, RefreshTypes DEF RunBasics
  <2> QED
    BY <2>1 DEF Goal
<1>8. ASSUME NEW p \in Process, NEW l \in Live, Deliver(p, l)
      PROVE  Goal
  <2>1. Others(p) /\ runs'[p] = [runs[p] EXCEPT ![RunOf(l)] = Bound(@)]
    BY <1>8, DeliverTypes DEF RunBasics
  <2>2. RunOf(l) \in Run /\ runs[p][RunOf(l)] \in Followings
    BY <1>0, HandTypes DEF RunBasics
  <2>3. Bound(runs[p][RunOf(l)]) \in Followings \ {NoRun}
    BY <2>2, FollowedTypes
  <2>4. \A r \in Run : runs[p][r] # NoRun => runs'[p][r] # NoRun
    BY <1>0, <2>1, <2>2, <2>3
  <2> QED
    BY <1>2, <2>1, <2>4
<1>9. ASSUME NEW p \in Process, PostNew(p)
      PROVE  Goal
  <2>1. /\ Others(p) /\ at[p].l \in Live
        /\ \/ runs'[p] = [runs[p] EXCEPT ![RunOf(at[p].l)] = Waiting(runs[p][RunOf(at[p].l)], at[p].l)]
           \/ runs'[p] = runs[p]
    BY <1>9, PostTypes DEF RunBasics
  <2>2. runs[p][RunOf(at[p].l)] # NoRun /\ RunOf(at[p].l) \in Run
    BY <1>9, <2>1, HandTypes DEF RunBasics, FollowsThem, PostNew
  <2>3. Waiting(runs[p][RunOf(at[p].l)], at[p].l) \in Followings \ {NoRun}
    BY <1>0, <2>1, <2>2, PendingTypes
  <2>4. \A r \in Run : runs[p][r] # NoRun => runs'[p][r] # NoRun
    BY <1>0, <2>1, <2>2, <2>3
  <2> QED
    BY <1>2, <2>1, <2>4
<1>10. ASSUME NEW p \in Process, Resolved(p)
       PROVE  Goal
  <2>1. PICK l \in Live :
           /\ Others(p)
           /\ \/ l \in steps[p].of
                 /\ runs'[p] = [runs[p] EXCEPT ![RunOf(l)] = MaybeDone(WaitsNoMore(runs[p][RunOf(l)], l))]
              \/ runs'[p] = runs[p]
    BY <1>10, ResolvedTypes DEF RunBasics
  <2>2. l \in steps[p].of => runs[p][RunOf(l)] # NoRun
    BY DEF RunBasics, FollowsThem
  <2>3. RunOf(l) \in Run
    BY HandTypes DEF RunBasics
  <2>4. l \in steps[p].of => MaybeDone(WaitsNoMore(runs[p][RunOf(l)], l)) \in Followings \ {NoRun}
    <3> SUFFICES ASSUME l \in steps[p].of
                 PROVE  MaybeDone(WaitsNoMore(runs[p][RunOf(l)], l)) \in Followings \ {NoRun}
      OBVIOUS
    <3>1. WaitsNoMore(runs[p][RunOf(l)], l) \in Followings \ {NoRun}
      BY <1>0, <2>2, <2>3, PendingTypes
    <3> QED
      BY <3>1, FollowedTypes
  <2>5. \A r \in Run : runs[p][r] # NoRun => runs'[p][r] # NoRun
    BY <1>0, <2>1, <2>3, <2>4
  <2> QED
    BY <1>2, <2>1, <2>5
<1>11. ASSUME NEW p \in Process, SyncEvents(p)
       PROVE  Goal
    BY <1>1, <1>3, <1>11 DEF SyncEvents
<1>12. ASSUME NEW p \in Process, NEW o \in Request, CheckRun(p, o) \/ \E r \in Run : StartRun(p, o, r)
       PROVE  Goal
  <2>1. runs'[q][s] = runs[q][s] \/ runs'[q][s] = NewRun
    BY <1>12, StartTypes DEF RunBasics
  <2> QED
    BY <2>1 DEF Goal, NewRun, NoRun
<1>13. ASSUME NEW p \in Process, LoopStep(p)
       PROVE  Goal
  <2>1. CASE Idle(p) \/ FollowEnds(p) \/ SaveCursor(p) \/ PostStored(p)
             \/ \E status \in {"pending"} \cup Closed, late \in BOOLEAN : Decide(p, status, late)
    BY <1>1, <2>1 DEF Idle, FollowEnds, SaveCursor, PostStored, Decide
  <2> QED
    BY <1>7, <1>8, <1>9, <1>11, <1>13, <2>1 DEF LoopStep
<1>14. ASSUME NEW p \in Process, NEW l \in Live,
              Expire(p, l) \/ \E status \in Closed : Answer(p, l, status)
       PROVE  Goal
    BY <1>1, <1>14 DEF Expire, Answer
<1>15. ASSUME NEW w \in writes, WriteRow(w)
       PROVE  Goal
    BY <1>1, <1>15 DEF WriteRow
<1>16. ASSUME (\E l \in Live : SiteExpires(l)) \/ (\E r \in Run : SiteForgets(r))
       PROVE  Goal
    BY <1>1, <1>16 DEF SiteExpires, SiteForgets
<1>17. CASE UNCHANGED vars
    BY <1>1, <1>17 DEF vars
<1>18. CASE Next
    BY <1>4, <1>5, <1>6, <1>10, <1>12, <1>13, <1>14, <1>15, <1>16, <1>18 DEF Next
<1> QED
    BY <1>17, <1>18

(* A row that is written counts the decisions of the ledger. *)
Decided == {"pending"} \cup Closed

LEMMA RowsCount ==
    ASSUME RunAssumption, RunBasics, [Next]_(vars), ~\E p \in Process : Stop(p)
    PROVE  \A s \in Run : \/ store'.row[s] = store.row[s]
                          \/ store'.row[s].decided = Count(s, Decided)
<1> DEFINE Goal == \A s \in Run : \/ store'.row[s] = store.row[s]
                                  \/ store'.row[s].decided = Count(s, Decided)
<1> SUFFICES Goal
    OBVIOUS
<1>1. ASSUME store' = store
      PROVE  Goal
    BY <1>1
<1>2. \A p \in Process, s \in Run :
         /\ Row(p, s).decided = Count(s, Decided)
         /\ [Row(p, s) EXCEPT !.state = "running"].decided = Count(s, Decided)
    BY DEF Row, Decided
<1>3. ASSUME NEW p \in Process, Refresh(p)
      PROVE  Goal
  <2>1. \A s \in Run : \/ store'.row[s] = store.row[s]
                       \/ store'.row[s] = [Row(p, s) EXCEPT !.state = runs'[p][s].state]
    BY <1>3, RefreshTypes DEF RunBasics
  <2>2. \A s \in Run : [Row(p, s) EXCEPT !.state = runs'[p][s].state].decided = Count(s, Decided)
    BY DEF Row, Decided
  <2> QED
    BY <2>1, <2>2
<1>4. ASSUME NEW p \in Process, SaveCursor(p)
      PROVE  Goal
    BY <1>2, <1>4, CursorTypes DEF RunBasics
<1>5. ASSUME NEW p \in Process, NEW l \in Live, Deliver(p, l)
      PROVE  Goal
  <2>1. \A s \in Run : \/ store'.row[s] = store.row[s]
                       \/ store'.row[s] = [Row(p, s) EXCEPT !.state = "running"]
    BY <1>5, DeliverTypes DEF RunBasics
  <2> QED
    BY <1>2, <2>1
<1>6. ASSUME NEW w \in writes, WriteRow(w)
      PROVE  Goal
    BY <1>2, <1>6, WriteTypes DEF RunBasics
<1>7. ASSUME NEW p \in Process, SyncEvents(p)
      PROVE  Goal
  <2>1. \/ store' = store
        \/ at[p].pc = "handled" /\ store' = [store EXCEPT !.row[RunOf(at[p].l)] = Row(p, RunOf(at[p].l))]
    BY <1>7 DEF SyncEvents
  <2>2. at[p].pc = "handled" => RunOf(at[p].l) \in Run
    BY HandTypes DEF RunBasics
  <2>3. CASE at[p].pc = "handled" /\ store' = [store EXCEPT !.row[RunOf(at[p].l)] = Row(p, RunOf(at[p].l))]
    <3>1. \A s \in Run : \/ store'.row[s] = store.row[s]
                         \/ s = RunOf(at[p].l) /\ store'.row[s] = Row(p, RunOf(at[p].l))
      BY <2>2, <2>3, RowsWritten DEF RunBasics
    <3> QED
      BY <1>2, <2>2, <2>3, <3>1
  <2> QED
    BY <1>1, <2>1, <2>3
<1> HIDE DEF Goal
<1>8. ASSUME NEW p \in Process, LoopStep(p)
      PROVE  Goal
  <2>1. CASE Idle(p) \/ FollowEnds(p) \/ PostNew(p) \/ PostStored(p)
             \/ \E status \in {"pending"} \cup Closed, late \in BOOLEAN : Decide(p, status, late)
    BY <1>1, <2>1 DEF Idle, FollowEnds, PostNew, PostStored, Decide
  <2> QED
    BY <1>3, <1>4, <1>5, <1>7, <1>8, <2>1 DEF LoopStep
<1>9. ASSUME NEW p \in Process, TakeOver(p) \/ StandBy(p) \/ Crash(p) \/ Resolved(p)
      PROVE  Goal
    BY <1>1, <1>9 DEF TakeOver, StandBy, Crash, Resolved
<1>10. ASSUME NEW p \in Process, NEW l \in Live,
              Expire(p, l) \/ \E status \in Closed : Answer(p, l, status)
       PROVE  Goal
    BY <1>1, <1>10 DEF Expire, Answer
<1>11. ASSUME NEW p \in Process, NEW o \in Request, CheckRun(p, o) \/ \E r \in Run : StartRun(p, o, r)
       PROVE  Goal
    BY <1>1, <1>11 DEF CheckRun, StartRun
<1>12. ASSUME (\E l \in Live : SiteExpires(l)) \/ (\E r \in Run : SiteForgets(r))
       PROVE  Goal
    BY <1>1, <1>12 DEF SiteExpires, SiteForgets
<1>13. CASE UNCHANGED vars
    BY <1>1, <1>13 DEF vars
<1>14. CASE Next
    BY <1>6, <1>8, <1>9, <1>10, <1>11, <1>12, <1>14 DEF Next
<1> QED
    BY <1>13, <1>14

(* An entry is decided by the loop, or a step-up is closed. *)
LEMMA EntriesMove ==
    ASSUME RunAssumption, RunBasics, [Next]_(vars), NEW l \in Live, ledger'[l] # ledger[l]
    PROVE  \/ \E p \in Process, status \in Decided, late \in BOOLEAN :
                Decide(p, status, late) /\ at[p].l = l /\ ledger'[l].status = status
           \/ ledger[l].status = "pending" /\ ledger'[l].status \in Closed
           \/ ledger'[l].status = ledger[l].status
<1> DEFINE Goal == \/ \E p \in Process, status \in Decided, late \in BOOLEAN :
                        Decide(p, status, late) /\ at[p].l = l /\ ledger'[l].status = status
                   \/ ledger[l].status = "pending" /\ ledger'[l].status \in Closed
                   \/ ledger'[l].status = ledger[l].status
<1> SUFFICES Goal
    OBVIOUS
<1>1. ASSUME NEW p \in Process, NEW status \in Decided, NEW late \in BOOLEAN, Decide(p, status, late)
      PROVE  Goal
  <2>1. ledger'[at[p].l].status = status /\ \A k \in Live : k # at[p].l => ledger'[k] = ledger[k]
    BY <1>1, DecideTypes, ZenonT(60) DEF RunBasics, Decided
  <2> QED
    BY <1>1, <2>1
<1>2. ASSUME NEW p \in Process, Resolved(p)
      PROVE  Goal
  <2>1. PICK k \in Live, status \in Closed :
           /\ ledger'[k].status = IF ledger[k].status = "pending" THEN status ELSE ledger[k].status
           /\ \A j \in Live : j # k => ledger'[j] = ledger[j]
    BY <1>2, ResolvedTypes DEF RunBasics
  <2> QED
    BY <2>1
<1> HIDE DEF Goal
<1>3. ASSUME ledger' = ledger
      PROVE  Goal
    BY <1>3
<1>4. ASSUME NEW p \in Process, LoopStep(p)
      PROVE  Goal
  <2>1. CASE Refresh(p) \/ Idle(p) \/ FollowEnds(p) \/ SyncEvents(p) \/ SaveCursor(p)
             \/ PostNew(p) \/ PostStored(p) \/ \E k \in Live : Deliver(p, k)
    BY <1>3, <2>1 DEF Refresh, Idle, FollowEnds, SyncEvents, SaveCursor,
         PostNew, PostStored, Deliver
  <2> QED
    BY <1>1, <1>4, <2>1 DEF LoopStep, Decided
<1>5. ASSUME NEW p \in Process, TakeOver(p) \/ StandBy(p) \/ Crash(p) \/ Stop(p)
      PROVE  Goal
    BY <1>3, <1>5 DEF TakeOver, StandBy, Crash, Stop
<1>6. ASSUME NEW p \in Process, NEW k \in Live,
             Expire(p, k) \/ \E status \in Closed : Answer(p, k, status)
      PROVE  Goal
    BY <1>3, <1>6 DEF Expire, Answer
<1>7. ASSUME NEW p \in Process, NEW o \in Request, CheckRun(p, o) \/ \E r \in Run : StartRun(p, o, r)
      PROVE  Goal
    BY <1>3, <1>7 DEF CheckRun, StartRun
<1>8. ASSUME NEW w \in writes, WriteRow(w)
      PROVE  Goal
    BY <1>3, <1>8 DEF WriteRow
<1>9. ASSUME (\E k \in Live : SiteExpires(k)) \/ (\E r \in Run : SiteForgets(r))
      PROVE  Goal
    BY <1>3, <1>9 DEF SiteExpires, SiteForgets
<1>10. CASE UNCHANGED vars
    BY <1>3, <1>10 DEF vars
<1>11. CASE Next
    BY <1>2, <1>4, <1>5, <1>6, <1>7, <1>8, <1>9, <1>11 DEF Next
<1> QED
    BY <1>10, <1>11

(* A row counts the ledger, or is its process's to write again. *)
RowsFollow ==
    \A r \in Run : store.row[r] # NoRow =>
      \/ store.row[r].decided = Count(r, Decided)
      \/ \E p \in Process : role[p] = "lead" /\ runs[p][r] # NoRun

LEMMA CountKept ==
    ASSUME NEW r \in Run, NEW S, \A l \in Live : RunOf(l) = r => (ledger[l].status \in S <=> ledger'[l].status \in S)
    PROVE  Count(r, S)' = Count(r, S)
<1>1. {l \in Of(r) : ledger'[l].status \in S} = {l \in Of(r) : ledger[l].status \in S}
    BY DEF Of
<1> QED
    BY <1>1 DEF Count, Of

LEMMA NobodyCounted ==
    ASSUME NEW r \in Run, NEW S, \A l \in Of(r) : ledger[l].status \notin S
    PROVE  Count(r, S) = 0
<1>1. {l \in Of(r) : ledger[l].status \in S} = {}
    OBVIOUS
<1>2. Count(r, S) = Cardinality({})
    BY <1>1 DEF Count
<1>3. \A T : Cardinality(T) = Cardinality(T)
    BY DEF Cardinality, Cardinality
<1> QED
    BY <1>2, <1>3, FS_EmptySet

LEMMA RowsFollowed ==
    ASSUME RunAssumption, MaxCrashes = 0, RunBasics, OneLead, RowsFollow, [Next]_(vars)
    PROVE  RowsFollow'
<1>0. /\ role \in [Process -> {"down", "standby", "lead"}] /\ runs \in [Process -> [Run -> Followings]]
      /\ crashes = 0
    BY DEF RunBasics, RunTypes, ProcessTypes
<1>1. ASSUME NEW p \in Process, Crash(p)
      PROVE  FALSE
    BY <1>0, <1>1 DEF Crash
<1>2. ASSUME NEW p \in Process, Stop(p)
      PROVE  RowsFollow'
  <2>1. /\ role[p] = "lead" /\ store' = [store EXCEPT !.row = Saved(p)] /\ ledger' = ledger
    BY <1>2 DEF Stop
  <2>2. \A r \in Run : store'.row[r] = (IF runs[p][r] = NoRun THEN store.row[r] ELSE Row(p, r))
    BY <2>1 DEF RunBasics, RunTypes, RowsType, Saved
  <2>3. \A r \in Run : Row(p, r).decided = Count(r, Decided)
    BY DEF Row, Decided
  <2>4. \A r \in Run : Count(r, Decided)' = Count(r, Decided)
    BY <2>1, CountKept
  <2>5. ASSUME NEW r \in Run, store'.row[r] # NoRow
        PROVE  store'.row[r].decided = Count(r, Decided)
    <3>1. CASE runs[p][r] # NoRun
      BY <2>2, <2>3, <3>1
    <3>2. CASE runs[p][r] = NoRun
      <4>1. ~\E q \in Process : role[q] = "lead" /\ runs[q][r] # NoRun
        BY <2>1, <3>2 DEF OneLead
      <4>2. store'.row[r] = store.row[r]
        BY <2>2, <3>2
      <4> QED
        BY <2>5, <4>1, <4>2 DEF RowsFollow
    <3> QED
      BY <3>1, <3>2
  <2>6. \A r \in Run : store'.row[r] # NoRow => store'.row[r].decided = Count(r, Decided)'
    BY <2>4, <2>5
  <2> QED
    BY <2>6 DEF RowsFollow
<1>3. ASSUME ~\E p \in Process : Stop(p)
      PROVE  RowsFollow'
  <2>1. \A q \in Process : role[q] = "lead" => role'[q] = "lead"
    BY <1>1, <1>3, LeadStays
  <2>2. \A q \in Process, s \in Run : runs[q][s] # NoRun => runs'[q][s] # NoRun
    BY <1>1, <1>3, RunsKept
  <2>3. \A s \in Run : \/ store'.row[s] = store.row[s]
                       \/ store'.row[s].decided = Count(s, Decided)
    BY <1>3, RowsCount
  <2>4. ASSUME NEW r \in Run, store'.row[r] # NoRow
        PROVE  \/ store'.row[r].decided = Count(r, Decided)'
               \/ \E p \in Process : role'[p] = "lead" /\ runs'[p][r] # NoRun
    <3>1. CASE \E p \in Process : role[p] = "lead" /\ runs[p][r] # NoRun
      BY <2>1, <2>2, <3>1
    <3>2. CASE ~\E p \in Process : role[p] = "lead" /\ runs[p][r] # NoRun
      <4>1. store'.row[r].decided = Count(r, Decided)
        BY <2>3, <2>4, <3>2 DEF RowsFollow
      <4>2. ASSUME NEW l \in Live, RunOf(l) = r
            PROVE  ledger[l].status \in Decided <=> ledger'[l].status \in Decided
        <5>1. ~\E p \in Process, status \in Decided, late \in BOOLEAN : Decide(p, status, late) /\ at[p].l = l
          BY <3>2, <4>2 DEF Decide, RunBasics, FollowsThem
        <5>2. \/ ledger'[l] = ledger[l]
              \/ ledger[l].status = "pending" /\ ledger'[l].status \in Closed
              \/ ledger'[l].status = ledger[l].status
          BY <5>1, EntriesMove
        <5> QED
          BY <5>2 DEF Decided
      <4> HIDE DEF Decided
      <4>3. Count(r, Decided)' = Count(r, Decided)
        BY <4>2, CountKept DEF Decided
      <4> QED
        BY <4>1, <4>3
    <3> QED
      BY <3>1, <3>2
  <2> QED
    BY <2>4 DEF RowsFollow
<1> QED
    BY <1>2, <1>3

(* A stop leaves rows that say what was decided: a run that nobody follows  *)
(* any more has the ledger's decisions in its row, until a process dies     *)
(* (_save_runs_while_held, D7).                                             *)
THEOREM StopsLeaveRows ==
    ASSUME RunAssumption, MaxCrashes = 0
    PROVE  Spec => []StoppedRowsAreCurrent
<1>1. Init => OneLead /\ RowsFollow
    BY DEF Init, OneLead, RowsFollow
<1>2. RunBasics /\ OneLead /\ RowsFollow /\ [Next]_(vars) => OneLead' /\ RowsFollow'
    BY OneLeadKept, RowsFollowed
<1>3. RowsFollow => StoppedRowsAreCurrent
    BY DEF RowsFollow, StoppedRowsAreCurrent, Decided
<1> QED
    BY <1>1, <1>2, <1>3, RunShape, PTL DEF Spec

-----------------------------------------------------------------------------
(* A run followed is done only when it is over and nobody waits; one that  *)
(* has not begun has nobody waiting.                                        *)
Sound(run) ==
    run # NoRun =>
      /\ run.state = "done" => run.over /\ run.pending = {}
      /\ run.state = "starting" => ~run.over /\ ~run.bound /\ run.pending = {}

(* What a step may make of a run followed: nothing is lost of it. *)
Preserves(run, new) ==
    run # NoRun => new # NoRun /\ (run.over => new.over) /\ (run.bound => new.bound)

LEMMA DoneSound ==
    ASSUME NEW run \in Followings \ {NoRun}, run.state \in {"done", "starting"} => Sound(run)
    PROVE  /\ Sound(MaybeDone(run)) \/ run.state = "starting"
           /\ Preserves(run, MaybeDone(run)) /\ MaybeDone(run).over = run.over
           /\ MaybeDone(run).pending = run.pending /\ MaybeDone(run).bound = run.bound
           /\ MaybeDone(run).state = run.state \/ (MaybeDone(run).state = "done" /\ run.over /\ run.pending = {})
           /\ run.over /\ run.pending = {} => MaybeDone(run).state # "starting"
<1>1. run \in [state : RunStates, pending : SUBSET Live, over : BOOLEAN, bound : BOOLEAN]
    BY DEF Followings
<1>2. CASE ~Finished(run.state) /\ run.over /\ run.pending = {}
  <2>1. MaybeDone(run) = [run EXCEPT !.state = "done"]
    BY <1>2 DEF MaybeDone
  <2>2. /\ [run EXCEPT !.state = "done"].over = run.over /\ [run EXCEPT !.state = "done"].pending = run.pending
        /\ [run EXCEPT !.state = "done"].bound = run.bound /\ [run EXCEPT !.state = "done"].state = "done"
    BY <1>1
  <2>3. [run EXCEPT !.state = "done"] # NoRun
    BY <2>2 DEF NoRun
  <2> HIDE DEF MaybeDone
  <2> QED
    BY <1>2, <2>1, <2>2, <2>3 DEF Sound, Preserves
<1>3. CASE ~(~Finished(run.state) /\ run.over /\ run.pending = {})
  <2>1. MaybeDone(run) = run
    BY <1>3 DEF MaybeDone
  <2>2. run.state \in RunStates
    BY <1>1
  <2>3. (run.state # "starting" => Sound(run)) /\ (run.over /\ run.pending = {} => run.state # "starting")
    BY <1>3, <2>2 DEF Sound, Finished, RunStates
  <2> QED
    BY <2>1, <2>3 DEF Preserves
<1> QED
    BY <1>2, <1>3

LEMMA TrackSound ==
    ASSUME NEW run \in Followings, Sound(run)
    PROVE  /\ Sound(Track(run)) /\ Preserves(run, Track(run))
           /\ run # NoRun => Track(run).pending = run.pending
           /\ Track(run).over => run # NoRun /\ run.over
<1>1. run # NoRun => run \in [state : RunStates, pending : SUBSET Live, over : BOOLEAN, bound : BOOLEAN]
    BY DEF Followings
<1> DEFINE new == [NewRun EXCEPT !.state = "running"]
<1>2. new.state = "running" /\ new.pending = {} /\ new.over = FALSE /\ new.bound = FALSE /\ new # NoRun
    BY DEF NewRun, NoRun
<1> HIDE DEF new
<1>3. CASE run.state \in {"none", "starting"}
  <2>1. Track(run) = new
    BY <1>3 DEF Track, new
  <2>2. run # NoRun => run.state = "starting"
    BY <1>1, <1>3 DEF RunStates
  <2> QED
    BY <1>2, <2>1, <2>2 DEF Sound, Preserves
<1>4. CASE run.state \notin {"none", "starting"}
  <2>1. Track(run) = run /\ run # NoRun
    BY <1>4 DEF Track, NoRun
  <2> QED
    BY <2>1 DEF Preserves
<1> QED
    BY <1>3, <1>4

LEMMA AppliedSound ==
    ASSUME NEW run \in Followings \ {NoRun}, Sound(run), NEW state
    PROVE  /\ Sound(Applied(run, state)) /\ Preserves(run, Applied(run, state))
           /\ Applied(run, state).pending = run.pending
           /\ Applied(run, state).over => run.over \/ state = "completed"
<1>1. run \in [state : RunStates, pending : SUBSET Live, over : BOOLEAN, bound : BOOLEAN]
    BY DEF Followings
<1>2. CASE state = "completed"
  <2> DEFINE new == [run EXCEPT !.over = TRUE]
  <2>1. /\ new \in [state : RunStates, pending : SUBSET Live, over : BOOLEAN, bound : BOOLEAN]
        /\ new.over = TRUE /\ new.pending = run.pending /\ new.state = run.state /\ new.bound = run.bound
    BY <1>1
  <2>2. Applied(run, state) = MaybeDone(new)
    BY <1>2 DEF Applied
  <2> HIDE DEF new
  <2>3. new \in Followings \ {NoRun}
    BY <2>1 DEF Followings, NoRun, RunStates
  <2>4. CASE run.state = "starting"
    <3>1. new.pending = {} /\ Finished(new.state) = FALSE
      BY <2>1, <2>4 DEF Sound, Finished
    <3>2. MaybeDone(new) = [new EXCEPT !.state = "done"]
      BY <2>1, <3>1 DEF MaybeDone
    <3>3. /\ [new EXCEPT !.state = "done"].state = "done" /\ [new EXCEPT !.state = "done"].over = TRUE
          /\ [new EXCEPT !.state = "done"].pending = {} /\ [new EXCEPT !.state = "done"].bound = run.bound
      BY <2>1, <3>1
    <3> QED
      BY <1>2, <2>1, <2>2, <3>1, <3>2, <3>3 DEF Sound, Preserves, NoRun
  <2>5. CASE run.state # "starting"
    <3>1. new.state \in {"done", "starting"} => Sound(new)
      BY <2>1, <2>5 DEF Sound
    <3>2. /\ Sound(MaybeDone(new)) /\ Preserves(new, MaybeDone(new)) /\ MaybeDone(new).over = TRUE
          /\ MaybeDone(new).pending = run.pending
      BY <2>1, <2>3, <2>5, <3>1, DoneSound
    <3> QED
      BY <1>2, <2>1, <2>2, <2>3, <3>2 DEF Preserves
  <2> QED
    BY <2>4, <2>5
<1>3. CASE state = "gone"
  <2>1. Applied(run, state) = [run EXCEPT !.state = "error"]
    BY <1>3 DEF Applied
  <2>2. /\ [run EXCEPT !.state = "error"].state = "error" /\ [run EXCEPT !.state = "error"].over = run.over
        /\ [run EXCEPT !.state = "error"].pending = run.pending /\ [run EXCEPT !.state = "error"].bound = run.bound
    BY <1>1
  <2> QED
    BY <2>1, <2>2 DEF Sound, Preserves, NoRun
<1>4. CASE state \notin {"completed", "gone"}
  <2>1. Applied(run, state) = MaybeDone(run)
    BY <1>4 DEF Applied
  <2>2. /\ Sound(MaybeDone(run)) \/ run.state = "starting"
        /\ Preserves(run, MaybeDone(run)) /\ MaybeDone(run).over = run.over
        /\ MaybeDone(run).pending = run.pending
    BY DoneSound
  <2>3. run.state = "starting" => MaybeDone(run) = run
    BY DEF MaybeDone, Sound
  <2> QED
    BY <2>1, <2>2, <2>3
<1> QED
    BY <1>2, <1>3, <1>4

LEMMA BoundSound ==
    ASSUME NEW run \in Followings, Sound(run), run # NoRun => ~run.over
    PROVE  /\ Sound(Bound(run)) /\ Preserves(run, Bound(run))
           /\ run # NoRun => Bound(run).pending = run.pending
           /\ ~Bound(run).over /\ Bound(run).bound
<1>1. run # NoRun => run \in [state : RunStates, pending : SUBSET Live, over : BOOLEAN, bound : BOOLEAN]
    BY DEF Followings
<1>2. CASE run = NoRun
  <2> DEFINE new == [NewRun EXCEPT !.state = "running", !.bound = TRUE]
  <2>1. new.state = "running" /\ new.pending = {} /\ new.over = FALSE /\ new.bound = TRUE
    BY DEF NewRun
  <2>2. Bound(run) = new
    BY <1>2 DEF Bound
  <2> HIDE DEF new
  <2> QED
    BY <1>2, <2>1, <2>2 DEF Sound, Preserves
<1>3. CASE run # NoRun /\ run.bound
  <2>1. Bound(run) = run
    BY <1>3 DEF Bound
  <2> QED
    BY <1>3, <2>1 DEF Preserves
<1>4. CASE run # NoRun /\ ~run.bound
  <2> DEFINE new == [run EXCEPT !.state = "running", !.bound = TRUE]
  <2>1. new.state = "running" /\ new.pending = run.pending /\ new.over = run.over /\ new.bound = TRUE
    BY <1>1, <1>4
  <2>2. Bound(run) = new
    BY <1>4 DEF Bound
  <2> HIDE DEF new
  <2>3. new # NoRun
    BY <2>1 DEF NoRun
  <2> QED
    BY <1>4, <2>1, <2>2, <2>3 DEF Sound, Preserves
<1> QED
    BY <1>2, <1>3, <1>4

LEMMA WaitSound ==
    ASSUME NEW run \in Followings \ {NoRun}, Sound(run), NEW l \in Live
    PROVE  /\ ~run.over /\ run.bound => Sound(Waiting(run, l))
           /\ Preserves(run, Waiting(run, l)) /\ (Waiting(run, l).over => run.over)
           /\ Sound(MaybeDone(WaitsNoMore(run, l))) /\ Preserves(run, MaybeDone(WaitsNoMore(run, l)))
           /\ (MaybeDone(WaitsNoMore(run, l)).over => run.over)
           /\ MaybeDone(WaitsNoMore(run, l)).pending = run.pending \ {l}
<1>1. run \in [state : RunStates, pending : SUBSET Live, over : BOOLEAN, bound : BOOLEAN]
    BY DEF Followings
<1>2. /\ Waiting(run, l).state = run.state /\ Waiting(run, l).over = run.over /\ Waiting(run, l).bound = run.bound
      /\ WaitsNoMore(run, l).state = run.state /\ WaitsNoMore(run, l).over = run.over /\ WaitsNoMore(run, l).bound = run.bound
      /\ WaitsNoMore(run, l).pending = run.pending \ {l}
      /\ Waiting(run, l) \in Followings \ {NoRun} /\ WaitsNoMore(run, l) \in Followings \ {NoRun}
    BY <1>1, PendingTypes DEF Waiting, WaitsNoMore
<1>3. (~run.over /\ run.bound => Sound(Waiting(run, l))) /\ Preserves(run, Waiting(run, l))
    BY <1>2 DEF Sound, Preserves
<1>4. Sound(WaitsNoMore(run, l))
    BY <1>2 DEF Sound
<1>5. /\ Sound(MaybeDone(WaitsNoMore(run, l))) \/ run.state = "starting"
      /\ Preserves(WaitsNoMore(run, l), MaybeDone(WaitsNoMore(run, l)))
      /\ MaybeDone(WaitsNoMore(run, l)).over = run.over
      /\ MaybeDone(WaitsNoMore(run, l)).pending = run.pending \ {l}
    BY <1>2, <1>4, DoneSound
<1>6. run.state = "starting" => MaybeDone(WaitsNoMore(run, l)) = WaitsNoMore(run, l)
    BY <1>2 DEF MaybeDone, Sound
<1> QED
    BY <1>2, <1>3, <1>4, <1>5, <1>6 DEF Preserves

(* What a step makes of a run, while no process goes down. *)
Moved(p, r) ==
    \/ runs'[p][r] = runs[p][r]
    \/ runs'[p][r] = Track(runs[p][r]) /\ role'[p] = "lead"
    \/ /\ runs[p][r] # NoRun /\ at[p].pc \in {"follow", "idle", "close"} /\ at'[p].pc = at[p].pc
       /\ site' = site /\ runs'[p][r] = Applied(runs[p][r], site.run[r])
    \/ /\ \E l \in Live : Open(l) /\ RunOf(l) = r
       /\ runs'[p][r] = Bound(runs[p][r]) /\ role'[p] = "lead"
    \/ /\ at[p].pc = "post" /\ RunOf(at[p].l) = r /\ at[p].l \in Live /\ runs[p][r] # NoRun
       /\ runs'[p][r] = Waiting(runs[p][r], at[p].l)
    \/ \E l \in Live :
         /\ ledger'[l].status # "pending" /\ runs[p][r] # NoRun
         /\ runs'[p][r] = MaybeDone(WaitsNoMore(runs[p][r], l))
    \/ runs[p][r] = NoRun /\ runs'[p][r] = NewRun /\ role'[p] = "lead"

LEMMA RunMoves ==
    ASSUME RunAssumption, RunBasics, [Next]_(vars), NEW p \in Process, NEW r \in Run,
           ~\E q \in Process : Crash(q) \/ Stop(q)
    PROVE  Moved(p, r)
<1> DEFINE Goal == Moved(p, r)
<1> SUFFICES Goal
    OBVIOUS
<1>0. runs \in [Process -> [Run -> Followings]]
    BY DEF RunBasics, RunTypes, ProcessTypes
<1>1. ASSUME runs'[p][r] = runs[p][r]
      PROVE  Goal
    BY <1>1 DEF Moved
<1>2. ASSUME NEW q \in Process, Others(q), p # q
      PROVE  Goal
  <2>1. runs'[p] = runs[p]
    BY <1>0, <1>2 DEF Others
  <2> QED
    BY <1>1, <2>1
<1>3. ASSUME NEW q \in Process, NEW S, role'[q] = "lead",
             runs' = [runs EXCEPT ![q] = [s \in Run |-> IF s \in S THEN Track(runs[q][s]) ELSE runs[q][s]]]
      PROVE  Goal
  <2>1. p = q => runs'[p][r] = Track(runs[p][r]) \/ runs'[p][r] = runs[p][r]
    BY <1>0, <1>3
  <2>2. p # q => runs'[p][r] = runs[p][r]
    BY <1>0, <1>3
  <2> QED
    BY <1>3, <2>1, <2>2 DEF Moved
<1> HIDE DEF Goal
<1>4. ASSUME NEW q \in Process, TakeOver(q)
      PROVE  Goal
  <2>1. role'[q] = "lead"
    BY <1>4 DEF TakeOver, RunBasics, RunTypes, ProcessTypes
  <2> QED
    BY <1>3, <1>4, <2>1 DEF TakeOver
<1>5. ASSUME NEW q \in Process, StandBy(q)
      PROVE  Goal
    BY <1>1, <1>5 DEF StandBy
<1>6. ASSUME NEW q \in Process, Refresh(q)
      PROVE  Goal
  <2>1. /\ at[q].pc \in {"follow", "idle", "close"} /\ at'[q].pc = at[q].pc /\ site' = site
        /\ \A o \in Process : o # q => runs'[o] = runs[o]
        /\ \/ runs'[q][r] = runs[q][r]
           \/ runs[q][r] # NoRun /\ runs'[q][r] = Applied(runs[q][r], site.run[r])
    BY <1>6, RefreshTypes, ZenonT(60) DEF RunBasics, Refresh
  <2>2. CASE p # q
    BY <1>1, <2>1, <2>2
  <2>3. CASE p = q
    BY <2>1, <2>3 DEF Goal, Moved
  <2> QED
    BY <2>2, <2>3
<1>7. ASSUME NEW q \in Process, NEW l \in Live, Deliver(q, l)
      PROVE  Goal
  <2>1. Others(q) /\ runs'[q] = [runs[q] EXCEPT ![RunOf(l)] = Bound(@)]
    BY <1>7, DeliverTypes DEF RunBasics
  <2>2. Open(l) /\ role'[q] = "lead"
    BY <1>7 DEF Deliver
  <2>3. CASE p # q
    BY <1>2, <2>1, <2>3
  <2>4. CASE p = q
    <3>1. CASE RunOf(l) = r
      <4>1. runs'[q][r] = Bound(runs[q][r])
        BY <1>0, <2>1, <3>1
      <4> QED
        BY <2>2, <2>4, <3>1, <4>1 DEF Goal, Moved
    <3>2. CASE RunOf(l) # r
      BY <1>0, <1>1, <2>1, <2>4, <3>2
    <3> QED
      BY <3>1, <3>2
  <2> QED
    BY <2>3, <2>4
<1>8. ASSUME NEW q \in Process, PostNew(q)
      PROVE  Goal
  <2>1. /\ Others(q) /\ at[q].l \in Live /\ at[q].pc = "post"
        /\ \/ runs'[q] = [runs[q] EXCEPT ![RunOf(at[q].l)] = Waiting(runs[q][RunOf(at[q].l)], at[q].l)]
           \/ runs'[q] = runs[q]
    BY <1>8, PostTypes DEF RunBasics
  <2>2. runs[q][RunOf(at[q].l)] # NoRun
    BY <2>1 DEF RunBasics, FollowsThem
  <2>3. CASE p # q
    BY <1>2, <2>1, <2>3
  <2>4. CASE p = q
    <3>1. CASE RunOf(at[q].l) = r /\ runs'[q][r] = Waiting(runs[q][r], at[q].l)
      BY <2>1, <2>2, <2>4, <3>1 DEF Goal, Moved
    <3>2. CASE runs'[q][r] = runs[q][r]
      BY <1>1, <2>4, <3>2
    <3> QED
      BY <1>0, <2>1, <3>1, <3>2
  <2> QED
    BY <2>3, <2>4
<1>9. ASSUME NEW q \in Process, Resolved(q)
      PROVE  Goal
  <2>1. PICK l \in Live, status \in Closed :
           /\ Others(q)
           /\ ledger'[l].status = IF ledger[l].status = "pending" THEN status ELSE ledger[l].status
           /\ \/ l \in steps[q].of
                 /\ runs'[q] = [runs[q] EXCEPT ![RunOf(l)] = MaybeDone(WaitsNoMore(runs[q][RunOf(l)], l))]
              \/ runs'[q] = runs[q]
    BY <1>9, ResolvedTypes DEF RunBasics
  <2>2. ledger'[l].status # "pending"
    BY <2>1 DEF Closed
  <2>3. CASE p # q
    BY <1>2, <2>1, <2>3
  <2>4. CASE p = q
    <3>1. CASE /\ l \in steps[q].of /\ RunOf(l) = r
               /\ runs'[q][r] = MaybeDone(WaitsNoMore(runs[q][r], l))
      <4>1. runs[q][r] # NoRun
        BY <3>1 DEF RunBasics, FollowsThem
      <4> QED
        BY <2>2, <2>4, <3>1, <4>1 DEF Goal, Moved
    <3>2. CASE runs'[q][r] = runs[q][r]
      BY <1>1, <2>4, <3>2
    <3> QED
      BY <1>0, <2>1, <3>1, <3>2
  <2> QED
    BY <2>3, <2>4
<1>10. ASSUME NEW q \in Process, SyncEvents(q)
       PROVE  Goal
    BY <1>1, <1>3, <1>10 DEF SyncEvents
<1>11. ASSUME NEW q \in Process, NEW o \in Request, NEW s \in Run, StartRun(q, o, s)
       PROVE  Goal
  <2>1. runs' = [runs EXCEPT ![q][s] = IF @ = NoRun THEN NewRun ELSE @] /\ role'[q] = "lead"
    BY <1>11 DEF StartRun
  <2>2. CASE runs[q][s] # NoRun
    BY <1>0, <1>1, <2>1, <2>2
  <2>3. CASE runs[q][s] = NoRun
    <3>1. runs' = [runs EXCEPT ![q] = [runs[q] EXCEPT ![s] = NewRun]]
      BY <2>1, <2>3
    <3>2. runs'[p][r] = runs[p][r] \/ (p = q /\ r = s /\ runs'[p][r] = NewRun)
      BY <1>0, <3>1
    <3> QED
      BY <2>1, <2>3, <3>2 DEF Goal, Moved
  <2> QED
    BY <2>2, <2>3
<1>12. ASSUME NEW q \in Process, LoopStep(q)
       PROVE  Goal
  <2>1. CASE Idle(q) \/ FollowEnds(q) \/ SaveCursor(q) \/ PostStored(q)
             \/ \E status \in {"pending"} \cup Closed, late \in BOOLEAN : Decide(q, status, late)
    BY <1>1, <2>1 DEF Idle, FollowEnds, SaveCursor, PostStored, Decide
  <2> QED
    BY <1>6, <1>7, <1>8, <1>10, <1>12, <2>1 DEF LoopStep
<1>13. ASSUME NEW q \in Process, NEW l \in Live,
              Expire(q, l) \/ \E status \in Closed : Answer(q, l, status)
       PROVE  Goal
    BY <1>1, <1>13 DEF Expire, Answer
<1>14. ASSUME NEW w \in writes, WriteRow(w)
       PROVE  Goal
    BY <1>1, <1>14 DEF WriteRow
<1>15. ASSUME (\E l \in Live : SiteExpires(l)) \/ (\E s \in Run : SiteForgets(s))
       PROVE  Goal
    BY <1>1, <1>15 DEF SiteExpires, SiteForgets
<1>16. ASSUME NEW q \in Process, NEW o \in Request, CheckRun(q, o)
       PROVE  Goal
    BY <1>1, <1>16 DEF CheckRun
<1>17. CASE UNCHANGED vars
    BY <1>1, <1>17 DEF vars
<1>18. CASE Next
    BY <1>4, <1>5, <1>9, <1>11, <1>12, <1>13, <1>14, <1>15, <1>16, <1>18 DEF Next
<1> QED
    BY <1>17, <1>18

(* What a step makes of the purchase in hand. *)
LEMMA PlaceMoves ==
    ASSUME RunAssumption, RunBasics, [Next]_(vars), NEW p \in Process,
           ~\E q \in Process : Crash(q) \/ Stop(q)
    PROVE  \/ at'[p] = at[p]
           \/ at[p].pc \notin {"decide", "post"} /\ at'[p].pc \notin {"decide", "post"}
           \/ \E l \in Live : Deliver(p, l) /\ at'[p] = [pc |-> "decide", l |-> l] /\ at[p].pc = "poll"
                            /\ ledger[l].status = "none"
           \/ at[p].pc = "decide" /\ at'[p] = [pc |-> "post", l |-> at[p].l]
           \/ PostNew(p) /\ at'[p].pc = "handled"
<1> DEFINE Goal ==
           \/ at'[p] = at[p]
           \/ at[p].pc \notin {"decide", "post"} /\ at'[p].pc \notin {"decide", "post"}
           \/ \E l \in Live : Deliver(p, l) /\ at'[p] = [pc |-> "decide", l |-> l] /\ at[p].pc = "poll"
                            /\ ledger[l].status = "none"
           \/ at[p].pc = "decide" /\ at'[p] = [pc |-> "post", l |-> at[p].l]
           \/ PostNew(p) /\ at'[p].pc = "handled"
<1> SUFFICES Goal
    OBVIOUS
<1>0. at \in [Process -> Place] /\ Poll.pc = "poll"
    BY RunAtoms DEF RunBasics, RunTypes, ProcessTypes
<1>1. ASSUME at'[p] = at[p]
      PROVE  Goal
    BY <1>1
<1>2. ASSUME NEW q \in Process, NEW place, at' = [at EXCEPT ![q] = place], place.pc \notin {"decide", "post"},
             at[q].pc \notin {"decide", "post"}
      PROVE  Goal
  <2>1. p = q => at'[p] = place
    BY <1>0, <1>2
  <2>2. p # q => at'[p] = at[p]
    BY <1>0, <1>2
  <2> QED
    BY <1>2, <2>1, <2>2
<1>3. ASSUME NEW q \in Process, PostNew(q)
      PROVE  Goal
  <2>1. Others(q) /\ at'[q] = [pc |-> "handled", l |-> at[q].l]
    BY <1>3, PostTypes DEF RunBasics
  <2>2. p # q => at'[p] = at[p]
    BY <1>0, <2>1 DEF Others
  <2>3. p = q => at'[p].pc = "handled"
    BY <2>1
  <2> QED
    BY <1>3, <2>2, <2>3
<1>4. ASSUME NEW q \in Process, NEW status \in {"pending"} \cup Closed, NEW late \in BOOLEAN,
             Decide(q, status, late)
      PROVE  Goal
  <2>1. Others(q) /\ at[q].pc = "decide" /\ at'[q] = [pc |-> "post", l |-> at[q].l]
    BY <1>4, DecideTypes DEF RunBasics
  <2>2. p # q => at'[p] = at[p]
    BY <1>0, <2>1 DEF Others
  <2> QED
    BY <2>1, <2>2
<1>5. ASSUME NEW q \in Process, NEW l \in Live, Deliver(q, l)
      PROVE  Goal
  <2>1. /\ Others(q)
        /\ \/ at'[q] = [pc |-> "decide", l |-> l] /\ ledger[l].status = "none"
           \/ at'[q] = [pc |-> "repost", l |-> l]
           \/ at'[q] = Poll
    BY <1>5, DeliverTypes DEF RunBasics
  <2>2. at[q].pc = "poll"
    BY <1>0, <1>5 DEF Deliver
  <2>3. p # q => at'[p] = at[p]
    BY <1>0, <2>1 DEF Others
  <2>4. ASSUME p = q, at'[q] = [pc |-> "decide", l |-> l], ledger[l].status = "none"
        PROVE  Goal
    BY <1>5, <2>2, <2>4
  <2>5. ASSUME p = q, at'[q].pc \notin {"decide", "post"}
        PROVE  Goal
    BY <2>2, <2>5
  <2>6. at'[q] = [pc |-> "repost", l |-> l] \/ at'[q] = Poll => at'[q].pc \notin {"decide", "post"}
    BY <1>0
  <2>7. ASSUME p # q
        PROVE  Goal
    BY <1>1, <2>3, <2>7
  <2> HIDE DEF Goal
  <2> QED
    BY <2>1, <2>4, <2>5, <2>6, <2>7
<1>6. ASSUME NEW q \in Process, Refresh(q)
      PROVE  Goal
  <2>1. /\ at[q].pc \in {"follow", "idle", "close"} /\ at'[q].pc = at[q].pc
        /\ \A o \in Process : o # q => at'[o] = at[o]
    BY <1>6, RefreshTypes DEF RunBasics, Refresh
  <2>2. CASE p # q
    BY <1>1, <2>1, <2>2
  <2>3. CASE p = q
    BY <2>1, <2>3
  <2> QED
    BY <2>2, <2>3
<1> HIDE DEF Goal
<1>7. ASSUME NEW q \in Process, Idle(q) \/ FollowEnds(q) \/ SaveCursor(q) \/ PostStored(q)
      PROVE  Goal
  <2>1. /\ at[q].pc \notin {"decide", "post"}
        /\ \/ at' = [at EXCEPT ![q] = Poll]
           \/ at' = [at EXCEPT ![q] = [pc |-> "idle", todo |-> Followed(q)]]
    BY <1>0, <1>7 DEF Idle, FollowEnds, SaveCursor, PostStored
  <2> QED
    BY <1>0, <1>2, <2>1
<1>8. ASSUME NEW q \in Process, SyncEvents(q)
      PROVE  Goal
  <2>1. /\ at[q].pc \notin {"decide", "post"}
        /\ \E place : at' = [at EXCEPT ![q] = place] /\ place.pc \in {"close", "poll"}
    BY <1>0, <1>8 DEF SyncEvents
  <2> QED
    BY <1>2, <2>1
<1>9. ASSUME NEW q \in Process, TakeOver(q)
      PROVE  Goal
  <2>1. at[q].pc = "poll" /\ at' = [at EXCEPT ![q] = [pc |-> "follow", todo |-> Unfinished(q)]]
    BY <1>9 DEF TakeOver, RunBasics, FollowsThem
  <2> QED
    BY <1>2, <2>1
<1>10. ASSUME NEW q \in Process, StandBy(q) \/ Resolved(q)
       PROVE  Goal
    BY <1>1, <1>10 DEF StandBy, Resolved
<1>11. ASSUME NEW q \in Process, LoopStep(q)
       PROVE  Goal
    BY <1>3, <1>4, <1>5, <1>6, <1>7, <1>8, <1>11 DEF LoopStep
<1>12. ASSUME NEW q \in Process, NEW l \in Live,
              Expire(q, l) \/ \E status \in Closed : Answer(q, l, status)
       PROVE  Goal
    BY <1>1, <1>12 DEF Expire, Answer
<1>13. ASSUME NEW w \in writes, WriteRow(w)
       PROVE  Goal
    BY <1>1, <1>13 DEF WriteRow
<1>14. ASSUME (\E l \in Live : SiteExpires(l)) \/ (\E s \in Run : SiteForgets(s))
       PROVE  Goal
    BY <1>1, <1>14 DEF SiteExpires, SiteForgets
<1>15. ASSUME NEW q \in Process, NEW o \in Request, CheckRun(q, o) \/ \E r \in Run : StartRun(q, o, r)
       PROVE  Goal
    BY <1>1, <1>15 DEF CheckRun, StartRun
<1>16. CASE UNCHANGED vars
    BY <1>1, <1>16 DEF vars
<1>17. CASE Next
    BY <1>9, <1>10, <1>11, <1>12, <1>13, <1>14, <1>15, <1>17 DEF Next
<1> QED
    BY <1>16, <1>17

(* What a step makes of a row, while no process stops: it is left alone, or *)
(* says what its run says and counts the ledger.                            *)
RowMove(s) ==
    \/ store'.row[s] = store.row[s]
    \/ /\ ledger' = ledger /\ store'.row[s].pending = Count(s, {"pending"})
       /\ store'.row[s].state = "running" \/ \E p \in Process : store'.row[s].state = runs'[p][s].state

LEMMA RowMoves ==
    ASSUME RunAssumption, RunBasics, [Next]_(vars), ~\E p \in Process : Stop(p)
    PROVE  \A s \in Run : RowMove(s)
<1> DEFINE Goal == \A s \in Run : RowMove(s)
<1> SUFFICES Goal
    OBVIOUS
<1>1. ASSUME store' = store
      PROVE  Goal
    BY <1>1 DEF RowMove
<1>2. \A p \in Process, s \in Run :
         /\ Row(p, s).pending = Count(s, {"pending"}) /\ Row(p, s).state = runs[p][s].state
    BY DEF Row
<1>3. ASSUME NEW p \in Process, Refresh(p)
      PROVE  Goal
  <2>1. \A s \in Run : \/ store'.row[s] = store.row[s]
                       \/ store'.row[s] = [Row(p, s) EXCEPT !.state = runs'[p][s].state]
    BY <1>3, RefreshTypes DEF RunBasics
  <2>2. ledger' = ledger
    BY <1>3 DEF Refresh
  <2>3. \A s \in Run : /\ [Row(p, s) EXCEPT !.state = runs'[p][s].state].pending = Count(s, {"pending"})
                       /\ [Row(p, s) EXCEPT !.state = runs'[p][s].state].state = runs'[p][s].state
    BY DEF Row
  <2> QED
    BY <2>1, <2>2, <2>3 DEF RowMove
<1>4. ASSUME NEW p \in Process, SaveCursor(p)
      PROVE  Goal
  <2>1. \A s \in Run : store'.row[s] = store.row[s] \/ store'.row[s] = Row(p, s)
    BY <1>4, CursorTypes DEF RunBasics
  <2>2. ledger' = ledger /\ runs' = runs
    BY <1>4 DEF SaveCursor
  <2> QED
    BY <1>2, <2>1, <2>2 DEF RowMove
<1>5. ASSUME NEW p \in Process, NEW l \in Live, Deliver(p, l)
      PROVE  Goal
  <2>1. \A s \in Run : \/ store'.row[s] = store.row[s]
                       \/ store'.row[s] = [Row(p, s) EXCEPT !.state = "running"]
    BY <1>5, DeliverTypes DEF RunBasics
  <2>2. ledger' = ledger
    BY <1>5 DEF Deliver
  <2>3. \A s \in Run : /\ [Row(p, s) EXCEPT !.state = "running"].pending = Count(s, {"pending"})
                       /\ [Row(p, s) EXCEPT !.state = "running"].state = "running"
    BY DEF Row
  <2> QED
    BY <2>1, <2>2, <2>3 DEF RowMove
<1>6. ASSUME NEW w \in writes, WriteRow(w)
      PROVE  Goal
  <2>1. \A s \in Run : store'.row[s] = store.row[s] \/ \E p \in Process : store'.row[s] = Row(p, s)
    BY <1>6, WriteTypes DEF RunBasics
  <2>2. ledger' = ledger /\ runs' = runs
    BY <1>6 DEF WriteRow
  <2> QED
    BY <1>2, <2>1, <2>2 DEF RowMove
<1>7. ASSUME NEW p \in Process, SyncEvents(p)
      PROVE  Goal
  <2>1. \/ store' = store
        \/ /\ at[p].pc = "handled" /\ runs' = runs
           /\ store' = [store EXCEPT !.row[RunOf(at[p].l)] = Row(p, RunOf(at[p].l))]
    BY <1>7 DEF SyncEvents
  <2>2. at[p].pc = "handled" => RunOf(at[p].l) \in Run
    BY HandTypes DEF RunBasics
  <2>3. ledger' = ledger
    BY <1>7 DEF SyncEvents
  <2>4. CASE /\ at[p].pc = "handled" /\ runs' = runs
             /\ store' = [store EXCEPT !.row[RunOf(at[p].l)] = Row(p, RunOf(at[p].l))]
    <3>1. \A s \in Run : store'.row[s] = store.row[s] \/ store'.row[s] = Row(p, s)
      BY <2>2, <2>4, RowsWritten DEF RunBasics
    <3> QED
      BY <1>2, <2>3, <2>4, <3>1 DEF RowMove
  <2> QED
    BY <1>1, <2>1, <2>4
<1> HIDE DEF Goal
<1>8. ASSUME NEW p \in Process, LoopStep(p)
      PROVE  Goal
  <2>1. CASE Idle(p) \/ FollowEnds(p) \/ PostNew(p) \/ PostStored(p)
             \/ \E status \in {"pending"} \cup Closed, late \in BOOLEAN : Decide(p, status, late)
    BY <1>1, <2>1 DEF Idle, FollowEnds, PostNew, PostStored, Decide
  <2> QED
    BY <1>3, <1>4, <1>5, <1>7, <1>8, <2>1 DEF LoopStep
<1>9. ASSUME NEW p \in Process, TakeOver(p) \/ StandBy(p) \/ Crash(p) \/ Resolved(p)
      PROVE  Goal
    BY <1>1, <1>9 DEF TakeOver, StandBy, Crash, Resolved
<1>10. ASSUME NEW p \in Process, NEW l \in Live,
              Expire(p, l) \/ \E status \in Closed : Answer(p, l, status)
       PROVE  Goal
    BY <1>1, <1>10 DEF Expire, Answer
<1>11. ASSUME NEW p \in Process, NEW o \in Request, CheckRun(p, o) \/ \E r \in Run : StartRun(p, o, r)
       PROVE  Goal
    BY <1>1, <1>11 DEF CheckRun, StartRun
<1>12. ASSUME (\E l \in Live : SiteExpires(l)) \/ (\E s \in Run : SiteForgets(s))
       PROVE  Goal
    BY <1>1, <1>12 DEF SiteExpires, SiteForgets
<1>13. CASE UNCHANGED vars
    BY <1>1, <1>13 DEF vars
<1>14. CASE Next
    BY <1>6, <1>8, <1>9, <1>10, <1>11, <1>12, <1>14 DEF Next
<1> QED
    BY <1>13, <1>14

(* A run that is over at the platform stays so. *)
OverThere(r) == site.run[r] # "none" /\ \A l \in Of(r) : site.status[l] \in Closed
Completes == \A r \in Run : site.run[r] = "completed" => OverThere(r)

LEMMA FinaliseEnds ==
    ASSUME SiteType, Completes, NEW l \in Live, NEW status \in Closed, site' = Finalise(site, l, status)
    PROVE  Completes' /\ \A r \in Run : OverThere(r) => OverThere(r)'
<1>1. /\ site'.status = [site.status EXCEPT ![l] = status]
      /\ \A r \in Run : site'.run[r] \in {site.run[r], "completed"}
    BY FinaliseType
<1>2. \A k \in Live : site'.status[k] = (IF k = l THEN status ELSE site.status[k])
    BY <1>1 DEF SiteType
<1>3. \A r \in Run : OverThere(r) => OverThere(r)'
    BY <1>1, <1>2 DEF OverThere, Of
<1>4. ASSUME NEW r \in Run, site'.run[r] = "completed"
      PROVE  OverThere(r)'
  <2> DEFINE over == \A k \in Of(RunOf(l)) : [site.status EXCEPT ![l] = status][k] \in Closed
  <2>1. site'.run = IF over THEN [site.run EXCEPT ![RunOf(l)] = "completed"] ELSE site.run
    BY DEF Finalise
  <2>2. CASE site.run[r] = "completed"
    BY <1>3, <2>2 DEF Completes
  <2>3. CASE site.run[r] # "completed"
    <3>1. over /\ r = RunOf(l)
      BY <1>4, <2>1, <2>3 DEF SiteType
    <3>2. \A k \in Of(r) : site'.status[k] \in Closed
      BY <1>1, <3>1
    <3> QED
      BY <1>4, <3>2 DEF OverThere, Of
  <2> QED
    BY <2>2, <2>3
<1> QED
    BY <1>3, <1>4 DEF Completes

LEMMA EndsKept ==
    ASSUME RunBasics, Completes, [Next]_(vars)
    PROVE  Completes' /\ \A r \in Run : OverThere(r) => OverThere(r)'
<1>0. SiteType /\ \A l \in Live : RunOf(l) \in Run
    BY DEF RunBasics, RunTypes, Live, RunOf
<1>1. CASE site' = site
    BY <1>1 DEF OverThere, Completes
<1>2. CASE \E l \in Live, status \in Closed : site' = Finalise(site, l, status)
    BY <1>0, <1>2, FinaliseEnds
<1>3. CASE \E l \in Live : site.status[l] = "queued" /\ site.run[RunOf(l)] = "running"
                                  /\ site' = [site EXCEPT !.status[l] = "pending"]
  <2>1. PICK l \in Live : site.status[l] = "queued" /\ site.run[RunOf(l)] = "running"
                        /\ site' = [site EXCEPT !.status[l] = "pending"]
    BY <1>3
  <2>2. site'.run = site.run /\ \A k \in Live : k # l => site'.status[k] = site.status[k]
    BY <1>0, <2>1 DEF SiteType
  <2>3. \A r \in Run : OverThere(r) => OverThere(r)'
    BY <2>1, <2>2 DEF OverThere, Of, Closed
  <2> QED
    BY <2>2, <2>3 DEF Completes
<1>4. CASE \E r \in Run : site.run[r] # "none" /\ site' = [site EXCEPT !.run[r] = "gone"]
  <2>1. PICK r \in Run : site.run[r] # "none" /\ site' = [site EXCEPT !.run[r] = "gone"]
    BY <1>4
  <2>2. site'.status = site.status /\ \A s \in Run : site'.run[s] = IF s = r THEN "gone" ELSE site.run[s]
    BY <1>0, <2>1 DEF SiteType
  <2> QED
    BY <2>1, <2>2 DEF OverThere, Completes, Of
<1>5. CASE \E p \in Process, q \in Request, r \in Run : StartRun(p, q, r)
  <2>1. PICK r \in Run : /\ site.run[r] = "none"
                         /\ site' = [site EXCEPT !.run[r] = "running",
                                     !.status = [l \in Live |-> IF RunOf(l) = r THEN "queued" ELSE @[l]]]
    BY <1>5 DEF StartRun
  <2>2. /\ \A s \in Run : site'.run[s] = IF s = r THEN "running" ELSE site.run[s]
        /\ \A k \in Live : RunOf(k) # r => site'.status[k] = site.status[k]
    BY <1>0, <2>1 DEF SiteType
  <2> QED
    BY <2>1, <2>2 DEF OverThere, Completes, Of
<1> QED
    BY <1>1, <1>2, <1>3, <1>4, <1>5, SiteMoves DEF SiteMove

(* What makes done mean settled, while no process goes down: the runs of    *)
(* the one that leads are sound, over here only what is over there, and     *)
(* every step-up that waits is waited for, or about to be.                  *)
Quiet == \A p \in Process : role[p] # "lead" => \A r \in Run : runs[p][r] = NoRun
NoneYet == (~\E p \in Process : role[p] = "lead") => \A l \in Live : ledger[l].status = "none"
AllSound == \A p \in Process, r \in Run : Sound(runs[p][r])
OverHere == \A p \in Process, r \in Run : runs[p][r] # NoRun /\ runs[p][r].over => OverThere(r)
InHand ==
    \A p \in Process : at[p].pc \in {"decide", "post"} =>
      ~runs[p][RunOf(at[p].l)].over /\ runs[p][RunOf(at[p].l)].bound
Waits ==
    \A p \in Process, l \in Live : role[p] = "lead" /\ ledger[l].status = "pending" =>
      /\ runs[p][RunOf(l)] # NoRun
      /\ l \in runs[p][RunOf(l)].pending \/ (at[p].pc = "post" /\ at[p].l = l)
Settled ==
    \A r \in Run : store.row[r].state = "done" =>
      /\ store.row[r].pending = 0 /\ \A l \in Of(r) : ledger[l].status # "pending"
      /\ \E p \in Process : role[p] = "lead" /\ runs[p][r] # NoRun /\ runs[p][r].over
RunsSound == Completes /\ AllSound /\ OverHere /\ InHand

(* What a step leaves of a run. *)
Kept(p, r) ==
    /\ Sound(runs'[p][r]) /\ Preserves(runs[p][r], runs'[p][r])
    /\ runs'[p][r] # NoRun => role'[p] = "lead" \/ runs[p][r] # NoRun
    /\ runs'[p][r] # NoRun /\ runs'[p][r].over =>
         /\ OverThere(r)'
         /\ at[p].pc \in {"decide", "post"} => runs[p][r] # NoRun /\ runs[p][r].over
    /\ \A l \in Live :
         runs[p][r] # NoRun /\ l \in runs[p][r].pending /\ ledger'[l].status = "pending" => l \in runs'[p][r].pending

LEMMA RunKept ==
    ASSUME RunAssumption, RunBasics, RunsSound, [Next]_(vars), NEW p \in Process, NEW r \in Run,
           ~\E q \in Process : Crash(q) \/ Stop(q)
    PROVE  Kept(p, r)
<1>0. /\ runs[p][r] \in Followings /\ Sound(runs[p][r])
      /\ OverThere(r) => OverThere(r)'
      /\ runs[p][r] # NoRun /\ runs[p][r].over => OverThere(r)'
    BY EndsKept DEF RunBasics, RunTypes, ProcessTypes, RunsSound, AllSound, OverHere
<1>1. CASE runs'[p][r] = runs[p][r]
    BY <1>0, <1>1 DEF Kept, Preserves
<1>2. CASE runs'[p][r] = Track(runs[p][r]) /\ role'[p] = "lead"
  <2> DEFINE new == Track(runs[p][r])
  <2>1. /\ Sound(new) /\ Preserves(runs[p][r], new)
        /\ runs[p][r] # NoRun => new.pending = runs[p][r].pending
        /\ new.over => runs[p][r] # NoRun /\ runs[p][r].over
    BY <1>0, TrackSound
  <2>2. runs'[p][r] = new
    BY <1>2
  <2> HIDE DEF new
  <2> QED
    BY <1>0, <1>2, <2>1, <2>2 DEF Kept
<1>3. CASE /\ runs[p][r] # NoRun /\ at[p].pc \in {"follow", "idle", "close"} /\ at'[p].pc = at[p].pc
           /\ site' = site /\ runs'[p][r] = Applied(runs[p][r], site.run[r])
  <2> DEFINE new == Applied(runs[p][r], site.run[r])
  <2>1. /\ Sound(new) /\ Preserves(runs[p][r], new) /\ new.pending = runs[p][r].pending
        /\ new.over => runs[p][r].over \/ site.run[r] = "completed"
    BY <1>0, <1>3, AppliedSound
  <2>2. site.run[r] = "completed" => OverThere(r)'
    BY <1>0 DEF RunsSound, Completes
  <2>3. runs'[p][r] = new
    BY <1>3
  <2> HIDE DEF new
  <2> QED
    BY <1>0, <1>3, <2>1, <2>2, <2>3 DEF Kept
<1>4. CASE /\ \E l \in Live : Open(l) /\ RunOf(l) = r
           /\ runs'[p][r] = Bound(runs[p][r]) /\ role'[p] = "lead"
  <2> DEFINE new == Bound(runs[p][r])
  <2>1. runs[p][r] # NoRun => ~runs[p][r].over
    <3>1. ~OverThere(r)
      BY <1>4 DEF OverThere, Open, Of, Closed
    <3> QED
      BY <3>1 DEF RunsSound, OverHere
  <2>2. /\ Sound(new) /\ Preserves(runs[p][r], new) /\ ~new.over
        /\ runs[p][r] # NoRun => new.pending = runs[p][r].pending
    BY <1>0, <2>1, BoundSound
  <2>3. runs'[p][r] = new
    BY <1>4
  <2> HIDE DEF new
  <2> QED
    BY <1>0, <1>4, <2>2, <2>3 DEF Kept
<1>5. CASE /\ at[p].pc = "post" /\ RunOf(at[p].l) = r /\ at[p].l \in Live /\ runs[p][r] # NoRun
           /\ runs'[p][r] = Waiting(runs[p][r], at[p].l)
  <2> DEFINE new == Waiting(runs[p][r], at[p].l)
  <2>1. ~runs[p][r].over /\ runs[p][r].bound
    BY <1>5 DEF RunsSound, InHand
  <2>2. /\ Sound(new) /\ Preserves(runs[p][r], new) /\ (new.over => runs[p][r].over)
    BY <1>0, <1>5, <2>1, WaitSound
  <2>3. new.pending = runs[p][r].pending \cup {at[p].l}
    BY <1>0, <1>5 DEF Waiting, Followings
  <2>4. runs'[p][r] = new
    BY <1>5
  <2> HIDE DEF new
  <2> QED
    BY <1>0, <1>5, <2>2, <2>3, <2>4 DEF Kept
<1>6. CASE \E l \in Live :
             /\ ledger'[l].status # "pending" /\ runs[p][r] # NoRun
             /\ runs'[p][r] = MaybeDone(WaitsNoMore(runs[p][r], l))
  <2>0. PICK l \in Live :
             /\ ledger'[l].status # "pending" /\ runs[p][r] # NoRun
             /\ runs'[p][r] = MaybeDone(WaitsNoMore(runs[p][r], l))
    BY <1>6
  <2> DEFINE new == MaybeDone(WaitsNoMore(runs[p][r], l))
  <2>1. /\ Sound(new) /\ Preserves(runs[p][r], new) /\ (new.over => runs[p][r].over)
        /\ new.pending = runs[p][r].pending \ {l}
    BY <1>0, <2>0, WaitSound
  <2>2. runs'[p][r] = new
    BY <2>0
  <2> HIDE DEF new
  <2> QED
    BY <1>0, <2>0, <2>1, <2>2 DEF Kept
<1>7. CASE runs[p][r] = NoRun /\ runs'[p][r] = NewRun /\ role'[p] = "lead"
  <2>1. NewRun.over = FALSE /\ NewRun.bound = FALSE /\ NewRun.pending = {}
        /\ NewRun.state = "starting" /\ Sound(NewRun)
    BY DEF NewRun, Sound
  <2>2. Preserves(runs[p][r], NewRun)
    BY <1>7 DEF Preserves
  <2> QED
    BY <1>7, <2>1, <2>2 DEF Kept
<1> QED
    BY <1>1, <1>2, <1>3, <1>4, <1>5, <1>6, <1>7, RunMoves DEF Moved

LEMMA QuietKept ==
    ASSUME RunAssumption, RunBasics, RunsSound, Quiet, [Next]_(vars),
           ~\E q \in Process : Crash(q) \/ Stop(q)
    PROVE  Quiet'
<1>1. \A p \in Process, r \in Run : runs'[p][r] # NoRun => role'[p] = "lead" \/ runs[p][r] # NoRun
    BY RunKept DEF Kept
<1>2. \A p \in Process : role[p] = "lead" => role'[p] = "lead"
    BY LeadStays
<1> QED
    BY <1>1, <1>2 DEF Quiet

LEMMA NoneYetKept ==
    ASSUME RunAssumption, RunBasics, NoneYet, [Next]_(vars),
           ~\E q \in Process : Crash(q) \/ Stop(q)
    PROVE  NoneYet'
<1> SUFFICES ASSUME ~\E p \in Process : role'[p] = "lead", NEW l \in Live
             PROVE  ledger'[l].status = "none"
    BY DEF NoneYet
<1>1. ~\E p \in Process : role[p] = "lead"
    BY LeadStays
<1>2. ledger[l].status = "none"
    BY <1>1 DEF NoneYet
<1>3. ~\E p \in Process, status \in Decided, late \in BOOLEAN :
          Decide(p, status, late) /\ at[p].l = l /\ ledger'[l].status = status
    BY <1>1 DEF Decide, RunBasics, FollowsThem
<1> QED
    BY <1>2, <1>3, EntriesMove

LEMMA InHandKept ==
    ASSUME RunAssumption, RunBasics, RunsSound, [Next]_(vars),
           ~\E q \in Process : Crash(q) \/ Stop(q)
    PROVE  InHand'
<1> SUFFICES ASSUME NEW p \in Process, at'[p].pc \in {"decide", "post"}
             PROVE  ~runs'[p][RunOf(at'[p].l)].over /\ runs'[p][RunOf(at'[p].l)].bound
    BY DEF InHand
<1>0. \A r \in Run : Kept(p, r)
    BY RunKept
<1>1. CASE at[p].pc \in {"decide", "post"} /\ at'[p].l = at[p].l
  <2> DEFINE r == RunOf(at[p].l)
  <2>1. r \in Run /\ runs[p][r] # NoRun
    BY <1>1, HandTypes DEF RunBasics, FollowsThem
  <2>2. ~runs[p][r].over /\ runs[p][r].bound
    BY <1>1 DEF RunsSound, InHand
  <2>3. /\ runs'[p][r] # NoRun /\ runs'[p][r].bound
        /\ runs'[p][r].over => runs[p][r].over
    BY <1>0, <1>1, <2>1, <2>2 DEF Kept, Preserves
  <2>4. runs'[p][r].over \in BOOLEAN
    <3>1. runs'[p][r] \in Followings
      BY <2>1, BasicsPreserved DEF RunBasics, RunTypes, ProcessTypes
    <3> QED
      BY <2>3, <3>1 DEF Followings
  <2> QED
    BY <1>1, <2>2, <2>3
<1>2. CASE \E l \in Live : Deliver(p, l) /\ at'[p] = [pc |-> "decide", l |-> l] /\ at[p].pc = "poll"
                                  /\ ledger[l].status = "none"
  <2>1. PICK l \in Live : Deliver(p, l) /\ at'[p] = [pc |-> "decide", l |-> l]
    BY <1>2
  <2> DEFINE r == RunOf(l)
             new == Bound(runs[p][r])
  <2>2. r \in Run /\ runs[p] \in [Run -> Followings]
    BY HandTypes DEF RunBasics
  <2>3. runs'[p] = [runs[p] EXCEPT ![r] = Bound(@)]
    BY <2>1, DeliverTypes DEF RunBasics
  <2>4. runs'[p][r] = new
    BY <2>2, <2>3
  <2>5. runs[p][r] # NoRun => ~runs[p][r].over
    <3>1. ~OverThere(r)
      BY <2>1 DEF Deliver, OverThere, Open, Of, Closed
    <3> QED
      BY <2>2, <3>1 DEF RunsSound, OverHere
  <2>6. ~new.over /\ new.bound
    BY <2>2, <2>5, BoundSound DEF RunsSound, AllSound
  <2>7. at'[p].l = l
    BY <2>1
  <2> QED
    BY <2>4, <2>6, <2>7
<1>3. CASE at[p].pc = "decide" /\ at'[p] = [pc |-> "post", l |-> at[p].l]
    BY <1>1, <1>3
<1>4. CASE at'[p] = at[p]
    BY <1>1, <1>4
<1> QED
    BY <1>2, <1>3, <1>4, PlaceMoves

LEMMA RunsSoundKept ==
    ASSUME RunAssumption, RunBasics, RunsSound, [Next]_(vars),
           ~\E q \in Process : Crash(q) \/ Stop(q)
    PROVE  RunsSound'
<1>1. \A p \in Process, r \in Run : Kept(p, r)
    BY RunKept
<1>2. AllSound'
    BY <1>1 DEF AllSound, Kept, Sound
<1>3. OverHere'
    BY <1>1 DEF OverHere, Kept
<1>4. Completes'
    BY EndsKept DEF RunsSound
<1> QED
    BY <1>2, <1>3, <1>4, InHandKept DEF RunsSound

LEMMA WaitsKept ==
    ASSUME RunAssumption, RunBasics, RunsSound, OneLead, NoneYet, Waits, [Next]_(vars),
           ~\E q \in Process : Crash(q) \/ Stop(q)
    PROVE  Waits'
<1> DEFINE Waited(p, l) == /\ runs'[p][RunOf(l)] # NoRun
                           /\ l \in runs'[p][RunOf(l)].pending \/ (at'[p].pc = "post" /\ at'[p].l = l)
<1> SUFFICES ASSUME NEW p \in Process, NEW l \in Live, role'[p] = "lead", ledger'[l].status = "pending"
             PROVE  Waited(p, l)
    BY DEF Waits
<1>0. /\ role \in [Process -> {"down", "standby", "lead"}] /\ RunOf(l) \in Run
      /\ runs[p][RunOf(l)] # NoRun => runs'[p][RunOf(l)] # NoRun
    BY RunsKept, HandTypes DEF RunBasics, RunTypes, ProcessTypes
<1>1. CASE role[p] # "lead"
  <2>1. TakeOver(p)
    BY <1>1, NewLead
  <2>2. ledger' = ledger /\ ledger[l].status = "none"
    BY <2>1 DEF TakeOver, NoneYet
  <2> QED
    BY <2>2
<1>2. CASE role[p] = "lead" /\ ledger[l].status # "pending"
  <2>1. PICK q \in Process, late \in BOOLEAN : Decide(q, "pending", late) /\ at[q].l = l
    BY <1>2, EntriesMove DEF Closed
  <2>2. /\ at[q].pc = "decide" /\ at'[q] = [pc |-> "post", l |-> l]
    BY <2>1, DecideTypes DEF RunBasics
  <2>3. q = p
    BY <1>2, <2>2 DEF OneLead, RunBasics, FollowsThem
  <2>4. runs[p][RunOf(l)] # NoRun
    BY <2>1, <2>2, <2>3 DEF RunBasics, FollowsThem
  <2> QED
    BY <1>0, <2>2, <2>3, <2>4
<1>3. CASE role[p] = "lead" /\ ledger[l].status = "pending"
  <2> DEFINE r == RunOf(l)
  <2>1. /\ runs[p][r] # NoRun
        /\ l \in runs[p][r].pending \/ (at[p].pc = "post" /\ at[p].l = l)
    BY <1>3 DEF Waits
  <2>2. CASE l \in runs[p][r].pending
    <3>1. Kept(p, r)
      BY <1>0, RunKept
    <3> QED
      BY <1>0, <2>1, <2>2, <3>1 DEF Kept
  <2>3. CASE at[p].pc = "post" /\ at[p].l = l
    <3>1. CASE at'[p] = at[p]
      BY <1>0, <2>1, <2>3, <3>1
    <3>2. CASE PostNew(p)
      <4>1. ledger[l].asked
        BY <1>3 DEF RunBasics, AskedFirst
      <4>2. runs'[p] = [runs[p] EXCEPT ![r] = Waiting(runs[p][r], l)]
        BY <2>3, <3>2, <4>1, PostTypes DEF RunBasics
      <4>3. runs[p] \in [Run -> Followings]
        BY HandTypes DEF RunBasics
      <4>4. runs'[p][r] = Waiting(runs[p][r], l)
        BY <1>0, <4>2, <4>3
      <4>5. l \in Waiting(runs[p][r], l).pending
        BY <1>0, <2>1, <4>3 DEF Waiting, Followings
      <4> QED
        BY <1>0, <2>1, <4>4, <4>5
    <3> QED
      BY <2>3, <3>1, <3>2, PlaceMoves
  <2> QED
    BY <2>1, <2>2, <2>3
<1> QED
    BY <1>1, <1>2, <1>3

LEMMA SettledKept ==
    ASSUME RunAssumption, RunBasics, RunsSound, OneLead, Quiet, NoneYet, Waits, Settled, [Next]_(vars),
           ~\E q \in Process : Crash(q) \/ Stop(q)
    PROVE  Settled'
<1> DEFINE Led(r) == \E p \in Process : role'[p] = "lead" /\ runs'[p][r] # NoRun /\ runs'[p][r].over
           Nobody(r) == \A l \in Of(r) : ledger'[l].status # "pending"
<1> SUFFICES ASSUME NEW r \in Run, store'.row[r].state = "done"
             PROVE  store'.row[r].pending = 0 /\ Nobody(r) /\ Led(r)
    BY DEF Settled, Of
<1>1. ASSUME store.row[r].state = "done"
      PROVE  Nobody(r) /\ Led(r)
  <2>1. PICK p \in Process : role[p] = "lead" /\ runs[p][r] # NoRun /\ runs[p][r].over
    BY <1>1 DEF Settled
  <2>2. role'[p] = "lead" /\ runs'[p][r] # NoRun /\ runs'[p][r].over
    BY <2>1, LeadStays, RunKept DEF Kept, Preserves
  <2>3. ASSUME NEW l \in Of(r), ledger'[l].status = "pending"
        PROVE  FALSE
    <3>1. l \in Live /\ RunOf(l) = r /\ ledger[l].status # "pending"
      BY <1>1 DEF Settled, Of
    <3>2. PICK q \in Process, late \in BOOLEAN : Decide(q, "pending", late) /\ at[q].l = l
      BY <2>3, <3>1, EntriesMove DEF Closed
    <3>3. at[q].pc = "decide"
      BY <3>2 DEF Decide
    <3>4. q = p
      BY <2>1, <3>3 DEF OneLead, RunBasics, FollowsThem
    <3> QED
      BY <2>1, <3>1, <3>2, <3>3, <3>4 DEF RunsSound, InHand
  <2> QED
    BY <2>2, <2>3
<1>2. CASE store'.row[r] = store.row[r]
  <2>1. store.row[r].state = "done" /\ store'.row[r].pending = store.row[r].pending
    BY <1>2
  <2> QED
    BY <1>1, <2>1 DEF Settled
<1>3. CASE /\ ledger' = ledger /\ store'.row[r].pending = Count(r, {"pending"})
           /\ \E p \in Process : store'.row[r].state = runs'[p][r].state
  <2>1. PICK p \in Process : runs'[p][r].state = "done"
    BY <1>3
  <2>2. runs'[p][r] # NoRun
    BY <2>1 DEF NoRun
  <2>3. role'[p] = "lead"
    BY <2>2, QuietKept DEF Quiet
  <2>4. runs'[p][r].over /\ runs'[p][r].pending = {}
    BY <2>1, <2>2, RunKept DEF Kept, Sound
  <2>5. ASSUME NEW l \in Of(r), ledger'[l].status = "pending"
        PROVE  FALSE
    <3>1. l \in Live /\ RunOf(l) = r
      BY DEF Of
    <3>2. at'[p].pc = "post" /\ at'[p].l = l
      BY <2>3, <2>4, <2>5, <3>1, WaitsKept DEF Waits
    <3> QED
      BY <2>4, <3>1, <3>2, InHandKept DEF InHand
  <2>6. Count(r, {"pending"}) = 0
    BY <1>3, <2>5, NobodyCounted
  <2> QED
    BY <1>3, <2>2, <2>3, <2>4, <2>5, <2>6
<1> QED
    BY <1>2, <1>3, RowMoves DEF RowMove

(* While no process stops or dies, a run whose row says done has no step-up *)
(* waiting, and its row says so: a run completed at Viseca is not closed    *)
(* here before its last step-up is (_maybe_done, _after_resolution).        *)
THEOREM DoneRunsAreSettled ==
    ASSUME RunAssumption, MaxStops = 0, MaxCrashes = 0
    PROVE  Spec => []DoneIsSettled
<1> DEFINE Inv == RunsSound /\ OneLead /\ Quiet /\ NoneYet /\ Waits /\ Settled
<1>1. Init => Inv
  <2> SUFFICES ASSUME Init
               PROVE  Inv
    OBVIOUS
  <2>1. \A p \in Process, r \in Run : runs[p][r] = NoRun
    BY DEF Init
  <2>2. AllSound /\ OverHere /\ Quiet
    BY <2>1 DEF AllSound, OverHere, Quiet, Sound
  <2>3. InHand /\ OneLead
    BY DEF Init, Poll, InHand, OneLead
  <2>4. NoneYet /\ Waits
    BY DEF Init, NoneYet, Waits
  <2>5. Settled /\ Completes
    BY DEF Init, NoRow, Settled, Completes
  <2> QED
    BY <2>2, <2>3, <2>4, <2>5 DEF RunsSound
<1>2. RunBasics /\ Inv /\ [Next]_(vars) => Inv'
  <2> SUFFICES ASSUME RunBasics, Inv, [Next]_(vars)
               PROVE  Inv'
    OBVIOUS
  <2>1. ~\E q \in Process : Crash(q) \/ Stop(q)
    BY DEF Crash, Stop, RunBasics, RunTypes, ProcessTypes
  <2>2. RunsSound' /\ OneLead'
    BY <2>1, RunsSoundKept, OneLeadKept
  <2>3. Quiet' /\ NoneYet'
    BY <2>1, QuietKept, NoneYetKept
  <2>4. Waits' /\ Settled'
    BY <2>1, WaitsKept, SettledKept
  <2> QED
    BY <2>2, <2>3, <2>4
<1>3. Inv => DoneIsSettled
  <2> SUFFICES ASSUME Settled, NEW r \in Run, store.row[r].state = "done"
               PROVE  store.row[r].pending = 0 /\ Count(r, {"pending"}) = 0
    BY DEF DoneIsSettled
  <2>1. \A l \in Of(r) : ledger[l].status \notin {"pending"}
    BY DEF Settled
  <2> QED
    BY <2>1, NobodyCounted DEF Settled
<1> QED
    BY <1>1, <1>2, <1>3, RunShape, PTL DEF Spec

-----------------------------------------------------------------------------
(* What the event feed says is so, for good. *)
Fed ==
    \A i \in 1..Len(site.feed) : site.feed[i] \in Finals =>
      /\ site.run[site.feed[i].run] # "none"
      /\ site.status[About(site.feed[i])] \in Closed

LEMMA FinalItems ==
    ASSUME NEW item \in Finals
    PROVE  /\ About(item) \in Live /\ RunOf(About(item)) = item.run
           /\ item.run \in Run /\ item.status \in Closed
BY DEF Finals, About, Live, RunOf

(* The feed only grows, by what is so. *)
LEMMA FedKept ==
    ASSUME RunAssumption, RunBasics, Fed, [Next]_(vars)
    PROVE  /\ Fed' /\ Len(site.feed) \in Nat /\ Len(site'.feed) \in Nat /\ Len(site'.feed) >= Len(site.feed)
           /\ \A i \in 1..Len(site.feed) : site'.feed[i] = site.feed[i]
<1> DEFINE Goal == /\ Fed' /\ Len(site'.feed) >= Len(site.feed)
                   /\ \A i \in 1..Len(site.feed) : site'.feed[i] = site.feed[i]
<1>0. SiteType /\ Len(site.feed) \in Nat /\ Len(site'.feed) \in Nat
  <2>1. SiteType /\ SiteType'
    BY BasicsPreserved DEF RunBasics, RunTypes
  <2>2. site.feed \in Seq(Item) /\ site'.feed \in Seq(Item)
    BY <2>1 DEF SiteType
  <2> QED
    BY <2>1, <2>2
<1>1. ASSUME site'.feed = site.feed,
             \A r \in Run : site.run[r] # "none" => site'.run[r] # "none",
             \A k \in Live : site.status[k] \in Closed /\ site.run[RunOf(k)] # "none"
                           => site'.status[k] \in Closed
      PROVE  Goal
  <2>1. ASSUME NEW i \in 1..Len(site'.feed), site'.feed[i] \in Finals
        PROVE  /\ site'.run[site'.feed[i].run] # "none"
               /\ site'.status[About(site'.feed[i])] \in Closed
    BY <1>1, <2>1, FinalItems DEF Fed
  <2> QED
    BY <1>0, <1>1, <2>1 DEF Fed
<1>2. CASE site' = site
    BY <1>1, <1>2
<1>3. CASE \E l \in Live, status \in Closed : Open(l) /\ site' = Finalise(site, l, status)
  <2>1. PICK l \in Live, status \in Closed : Open(l) /\ site' = Finalise(site, l, status)
    BY <1>3
  <2>2. /\ site'.status = [site.status EXCEPT ![l] = status]
        /\ \A r \in Run : site'.run[r] \in {site.run[r], "completed"}
        /\ \E k \in {1, 2} : Len(site'.feed) = Len(site.feed) + k
        /\ \A i \in 1..Len(site.feed) : site'.feed[i] = site.feed[i]
        /\ site'.feed[Len(site.feed) + 1] = Final(l, status)
        /\ \A i \in Len(site.feed) + 2..Len(site'.feed) : site'.feed[i] = Completed(RunOf(l))
    BY <1>0, <2>1, FinaliseType
  <2>3. /\ \A k \in Live : site'.status[k] = (IF k = l THEN status ELSE site.status[k])
        /\ \A r \in Run : site.run[r] # "none" => site'.run[r] # "none"
        /\ RunOf(l) \in Run /\ site.run[RunOf(l)] # "none"
    BY <1>0, <2>1, <2>2 DEF SiteType, Open, Live, RunOf
  <2>4. ASSUME NEW i \in 1..Len(site'.feed), site'.feed[i] \in Finals
        PROVE  /\ site'.run[site'.feed[i].run] # "none"
               /\ site'.status[About(site'.feed[i])] \in Closed
    <3>1. CASE i \in 1..Len(site.feed)
      BY <2>2, <2>3, <2>4, <3>1, FinalItems, SMTT(30) DEF Fed
    <3>2. CASE i = Len(site.feed) + 1
      <4>1. site'.feed[i] = Final(l, status)
        BY <2>2, <3>2
      <4>2. Final(l, status).run = RunOf(l) /\ About(Final(l, status)) = l
        BY DEF Final, About, RunOf, Live
      <4> QED
        BY <2>3, <4>1, <4>2
    <3>3. CASE i \in Len(site.feed) + 2..Len(site'.feed)
      <4>1. site'.feed[i] = Completed(RunOf(l))
        BY <2>2, <3>3
      <4>2. Completed(RunOf(l)).status \notin Closed
        BY DEF Completed, Closed
      <4> QED
        BY <2>4, <4>1, <4>2, FinalItems
    <3> QED
      BY <1>0, <3>1, <3>2, <3>3
  <2> QED
    BY <1>0, <2>2, <2>4 DEF Fed
<1>4. CASE \E l \in Live : site.status[l] = "queued" /\ site.run[RunOf(l)] = "running"
                                  /\ site' = [site EXCEPT !.status[l] = "pending"]
  <2>1. PICK l \in Live : site.status[l] = "queued" /\ site' = [site EXCEPT !.status[l] = "pending"]
    BY <1>4
  <2>2. /\ site'.feed = site.feed /\ site'.run = site.run
        /\ \A k \in Live : k # l => site'.status[k] = site.status[k]
    BY <1>0, <2>1 DEF SiteType
  <2>3. site.status[l] \notin Closed
    BY <2>1 DEF Closed
  <2> QED
    BY <1>1, <2>2, <2>3
<1>5. CASE \E r \in Run : site.run[r] # "none" /\ site' = [site EXCEPT !.run[r] = "gone"]
  <2>1. PICK r \in Run : site.run[r] # "none" /\ site' = [site EXCEPT !.run[r] = "gone"]
    BY <1>5
  <2>2. /\ site'.feed = site.feed /\ site'.status = site.status
        /\ \A s \in Run : site'.run[s] = IF s = r THEN "gone" ELSE site.run[s]
    BY <1>0, <2>1 DEF SiteType
  <2> QED
    BY <1>1, <2>2
<1>6. CASE \E p \in Process, q \in Request, r \in Run : StartRun(p, q, r)
  <2>1. PICK r \in Run : /\ site.run[r] = "none"
                         /\ site' = [site EXCEPT !.run[r] = "running",
                                     !.status = [l \in Live |-> IF RunOf(l) = r THEN "queued" ELSE @[l]]]
    BY <1>6 DEF StartRun
  <2>2. /\ site'.feed = site.feed /\ \A s \in Run : site'.run[s] = IF s = r THEN "running" ELSE site.run[s]
        /\ \A k \in Live : RunOf(k) # r => site'.status[k] = site.status[k]
    BY <1>0, <2>1 DEF SiteType
  <2> QED
    BY <1>1, <2>1, <2>2
<1>7. Goal
    BY <1>2, <1>3, <1>4, <1>5, <1>6, SiteMoves DEF SiteMove
<1> QED
    BY <1>0, <1>7

(* What a step makes of the cursor and of the mismatches of one process. *)
SameFeed(p) ==
    /\ feed'[p] = feed[p] /\ store'.cursor = store.cursor /\ reported' = reported
    /\ at'[p].pc = "close" <=> at[p].pc = "close"
    /\ at[p].pc = "close" => at'[p].upto = at[p].upto

FeedMove(p) ==
    \/ SameFeed(p)
    \/ SyncEvents(p) /\ at'[p].pc = "close"
    \/ SaveCursor(p)
    \/ \E status \in Decided, late \in BOOLEAN : Decide(p, status, late)
    \/ TakeOver(p)

LEMMA FeedMoves ==
    ASSUME RunAssumption, RunBasics, [Next]_(vars), NEW p \in Process, OneLead,
           role[p] = "lead" \/ ~\E q \in Process : role[q] = "lead",
           ~\E q \in Process : Crash(q) \/ Stop(q)
    PROVE  FeedMove(p)
<1>0. /\ feed \in [Process -> Feed] /\ at \in [Process -> Place] /\ Poll.pc = "poll"
      /\ \A q \in Process : at[q].pc # "poll" \/ role[q] = "lead" => q = p
    BY RunAtoms DEF RunBasics, RunTypes, FollowsThem, ProcessTypes, OneLead
<1>1. ASSUME feed'[p] = feed[p], store'.cursor = store.cursor, reported' = reported, at'[p] = at[p]
      PROVE  FeedMove(p)
    BY <1>1 DEF FeedMove, SameFeed
<1>2. ASSUME feed'[p] = feed[p], store'.cursor = store.cursor, reported' = reported, at[p].pc # "close", at'[p].pc # "close"
      PROVE  FeedMove(p)
    BY <1>2 DEF FeedMove, SameFeed
<1>3. ASSUME NEW q \in Process, Refresh(q)
      PROVE  FeedMove(p)
  <2>1. /\ feed' = feed /\ store'.cursor = store.cursor /\ at'[q].pc = at[q].pc
        /\ at[q].pc = "close" => at'[q].upto = at[q].upto
    BY <1>3, RefreshTypes DEF RunBasics
  <2>2. q = p /\ reported' = reported
    BY <1>0, <1>3 DEF Refresh
  <2> QED
    BY <2>1, <2>2 DEF FeedMove, SameFeed
<1>4. ASSUME NEW q \in Process, SyncEvents(q)
      PROVE  FeedMove(p)
  <2>1. q = p
    BY <1>0, <1>4 DEF SyncEvents
  <2>2. CASE at'[p].pc = "close"
    BY <1>4, <2>1, <2>2 DEF FeedMove
  <2>3. CASE at'[p].pc # "close"
    <3>1. /\ at[p].pc # "close" /\ feed' = feed /\ reported' = reported
          /\ \/ store' = store
             \/ at[p].pc = "handled" /\ store' = [store EXCEPT !.row[RunOf(at[p].l)] = Row(p, RunOf(at[p].l))]
      BY <1>0, <1>4, <2>1, <2>3 DEF SyncEvents
    <3>2. at[p].pc = "handled" => RunOf(at[p].l) \in Run
      BY HandTypes DEF RunBasics
    <3>3. store'.cursor = store.cursor
      BY <3>1, <3>2, RowsWritten DEF RunBasics
    <3> QED
      BY <1>2, <2>3, <3>1, <3>3
  <2> QED
    BY <2>2, <2>3
<1>5. ASSUME NEW q \in Process, SaveCursor(q)
      PROVE  FeedMove(p)
  <2>1. q = p
    BY <1>0, <1>5 DEF SaveCursor
  <2> QED
    BY <1>5, <2>1 DEF FeedMove
<1>6. ASSUME NEW q \in Process, NEW status \in {"pending"} \cup Closed, NEW late \in BOOLEAN,
             Decide(q, status, late)
      PROVE  FeedMove(p)
  <2>1. q = p
    BY <1>0, <1>6 DEF Decide
  <2> QED
    BY <1>6, <2>1 DEF FeedMove, Decided
<1>7. ASSUME NEW q \in Process, NEW l \in Live, Deliver(q, l)
      PROVE  FeedMove(p)
  <2>1. q = p /\ feed' = feed /\ reported' = reported /\ at[p].pc = "poll"
    BY <1>0, <1>7 DEF Deliver
  <2>2. /\ store'.cursor = store.cursor
        /\ at'[p] \in {[pc |-> "decide", l |-> l], [pc |-> "repost", l |-> l], Poll}
    BY <1>7, <2>1, DeliverTypes DEF RunBasics
  <2>3. at'[p].pc # "close"
    BY <1>0, <2>2
  <2> QED
    BY <1>2, <2>1, <2>2, <2>3
<1>8. ASSUME NEW q \in Process, PostNew(q)
      PROVE  FeedMove(p)
  <2>1. q = p /\ feed' = feed /\ reported' = reported /\ store' = store /\ at[p].pc = "post"
    BY <1>0, <1>8 DEF PostNew
  <2>2. at'[p] = [pc |-> "handled", l |-> at[p].l]
    BY <1>8, <2>1, PostTypes DEF RunBasics
  <2> QED
    BY <1>2, <2>1, <2>2
<1>9. ASSUME NEW q \in Process, Idle(q) \/ FollowEnds(q) \/ PostStored(q)
      PROVE  FeedMove(p)
  <2>1. /\ feed' = feed /\ reported' = reported /\ store' = store /\ at[q].pc # "close"
        /\ \/ at' = [at EXCEPT ![q] = Poll]
           \/ at' = [at EXCEPT ![q] = [pc |-> "idle", todo |-> Followed(q)]]
    BY <1>0, <1>9 DEF Idle, FollowEnds, PostStored
  <2>2. q = p
    BY <1>0, <1>9 DEF Idle, FollowEnds, PostStored
  <2>3. at'[p].pc # "close"
    BY <1>0, <2>1, <2>2
  <2> QED
    BY <1>2, <2>1, <2>2, <2>3
<1>10. ASSUME NEW q \in Process, LoopStep(q)
       PROVE  FeedMove(p)
    BY <1>3, <1>4, <1>5, <1>6, <1>7, <1>8, <1>9, <1>10 DEF LoopStep
<1>11. ASSUME NEW q \in Process, TakeOver(q)
       PROVE  FeedMove(p)
  <2>1. CASE q = p
    BY <1>11, <2>1 DEF FeedMove
  <2>2. CASE q # p
    <3>1. feed'[p] = feed[p] /\ store' = store /\ reported' = reported /\ at'[p] = at[p]
      BY <1>0, <1>11, <2>2 DEF TakeOver
    <3> QED
      BY <1>1, <3>1
  <2> QED
    BY <2>1, <2>2
<1>12. ASSUME NEW q \in Process, StandBy(q) \/ Resolved(q)
       PROVE  FeedMove(p)
    BY <1>1, <1>12 DEF StandBy, Resolved
<1>13. ASSUME NEW q \in Process, NEW l \in Live,
              Expire(q, l) \/ \E status \in Closed : Answer(q, l, status)
       PROVE  FeedMove(p)
    BY <1>1, <1>13 DEF Expire, Answer
<1>14. ASSUME NEW w \in writes, WriteRow(w)
       PROVE  FeedMove(p)
  <2>1. store'.cursor = store.cursor
    BY <1>14, WriteTypes DEF RunBasics
  <2> QED
    BY <1>1, <1>14, <2>1 DEF WriteRow
<1>15. ASSUME NEW q \in Process, NEW o \in Request, CheckRun(q, o) \/ \E r \in Run : StartRun(q, o, r)
       PROVE  FeedMove(p)
    BY <1>1, <1>15 DEF CheckRun, StartRun
<1>16. ASSUME (\E l \in Live : SiteExpires(l)) \/ (\E r \in Run : SiteForgets(r))
       PROVE  FeedMove(p)
    BY <1>1, <1>16 DEF SiteExpires, SiteForgets
<1>17. CASE UNCHANGED vars
    BY <1>1, <1>17 DEF vars
<1>18. CASE Next
    BY <1>10, <1>11, <1>12, <1>13, <1>14, <1>15, <1>16, <1>18 DEF Next
<1> QED
    BY <1>17, <1>18

(* How far the one that leads has read the feed, and what it knows of what  *)
(* it read: an item our ledger contradicts is noted, or the purchase it is  *)
(* about is not one we shall decide.                                        *)
UpTo(p) == IF at[p].pc = "close" THEN at[p].upto ELSE store.cursor
Noted(p, item) ==
    item \in Finals =>
      \/ item \in feed[p].seen
      \/ ledger[About(item)].status = item.status
      \/ ledger[About(item)].status = "none" /\ ~(at[p].pc = "decide" /\ at[p].l = About(item))
FeedRead ==
    \A p \in Process : role[p] = "lead" =>
      /\ feed[p].cursor = store.cursor /\ UpTo(p) \in Nat /\ store.cursor <= UpTo(p) /\ UpTo(p) <= Len(site.feed)
      /\ \A i \in 1..UpTo(p) : Noted(p, site.feed[i])
Unread == (~\E p \in Process : role[p] = "lead") => store.cursor = 0
SeenTold ==
    \A p \in Process :
      /\ role[p] # "lead" => feed[p].seen = {}
      /\ feed[p].seen \subseteq reported \cup feed[p].mismatches
Undecided == \A p \in Process : at[p].pc = "decide" => ledger[at[p].l].status = "none"

LEMMA UndecidedKept ==
    ASSUME RunAssumption, RunBasics, OneLead, Undecided, [Next]_(vars),
           ~\E q \in Process : Crash(q) \/ Stop(q)
    PROVE  Undecided'
<1> SUFFICES ASSUME NEW p \in Process, at'[p].pc = "decide"
             PROVE  ledger'[at'[p].l].status = "none"
    BY DEF Undecided
<1>1. CASE at'[p] = at[p]
  <2>1. at[p].l \in Live /\ ledger[at[p].l].status = "none"
    BY <1>1, HandTypes DEF RunBasics, Undecided
  <2>2. ASSUME NEW q \in Process, NEW status \in Decided, NEW late \in BOOLEAN, Decide(q, status, late), at[q].l = at[p].l
        PROVE  FALSE
    <3>1. at[q].pc = "decide" /\ at'[q] = [pc |-> "post", l |-> at[q].l]
      BY <2>2, DecideTypes DEF RunBasics, Decided
    <3>2. q = p
      BY <1>1, <3>1 DEF OneLead, RunBasics, FollowsThem
    <3> QED
      BY <3>1, <3>2
  <2>3. ledger'[at[p].l].status = "none"
    BY <2>1, <2>2, EntriesMove
  <2> QED
    BY <1>1, <2>3
<1>2. CASE \E l \in Live : Deliver(p, l) /\ at'[p] = [pc |-> "decide", l |-> l] /\ at[p].pc = "poll"
                                  /\ ledger[l].status = "none"
    BY <1>2 DEF Deliver
<1>3. CASE at'[p] = [pc |-> "post", l |-> at[p].l] \/ at'[p].pc \in {"post", "handled"}
    BY <1>3
<1>4. CASE at'[p].pc \notin {"decide", "post"}
    BY <1>4
<1> QED
    BY <1>1, <1>2, <1>3, <1>4, PlaceMoves

LEMMA NotedKept ==
    ASSUME RunAssumption, RunBasics, OneLead, Undecided, Fed, [Next]_(vars),
           ~\E q \in Process : Crash(q) \/ Stop(q),
           NEW p \in Process, role[p] = "lead", feed[p].seen \subseteq feed'[p].seen,
           NEW i \in 1..Len(site.feed), NEW item, item = site.feed[i], Noted(p, item)
    PROVE  item \in Finals =>
             \/ item \in feed'[p].seen
             \/ ledger'[About(item)].status = item.status
             \/ ledger'[About(item)].status = "none" /\ ~(at'[p].pc = "decide" /\ at'[p].l = About(item))
<1> SUFFICES ASSUME item \in Finals, item \notin feed'[p].seen
             PROVE  \/ ledger'[About(item)].status = item.status
                    \/ /\ ledger'[About(item)].status = "none"
                       /\ ~(at'[p].pc = "decide" /\ at'[p].l = About(item))
    OBVIOUS
<1> DEFINE l == About(item)
<1>1. l \in Live /\ item.status \in Closed /\ "pending" \notin Closed /\ "none" \notin Closed
    BY FinalItems DEF Closed
<1>2. \/ ledger[l].status = item.status
      \/ ledger[l].status = "none" /\ ~(at[p].pc = "decide" /\ at[p].l = l)
    BY DEF Noted
<1>3. ~Open(l)
    BY <1>1 DEF Fed, Open, Closed
<1>4. ~(at[p].pc = "decide" /\ at[p].l = l)
    BY <1>1, <1>2 DEF Undecided
<1>5. ~(at'[p].pc = "decide" /\ at'[p].l = l)
  <2>1. CASE at'[p] = at[p]
    BY <1>4, <2>1
  <2>2. CASE \E k \in Live : Deliver(p, k) /\ at'[p] = [pc |-> "decide", l |-> k] /\ at[p].pc = "poll"
                                    /\ ledger[k].status = "none"
    <3>1. PICK k \in Live : Open(k) /\ at'[p] = [pc |-> "decide", l |-> k]
      BY <2>2 DEF Deliver
    <3> QED
      BY <1>3, <3>1
  <2>3. CASE at'[p] = [pc |-> "post", l |-> at[p].l] \/ at'[p].pc = "handled" \/ at'[p].pc \notin {"decide", "post"}
    BY <2>3
  <2> QED
    BY <2>1, <2>2, <2>3, PlaceMoves
<1>6. ASSUME NEW q \in Process, NEW status \in Decided, NEW late \in BOOLEAN, Decide(q, status, late), at[q].l = l
      PROVE  FALSE
  <2>1. at[q].pc = "decide"
    BY <1>6 DEF Decide
  <2>2. q = p
    BY <2>1 DEF OneLead, RunBasics, FollowsThem
  <2> QED
    BY <1>4, <1>6, <2>1, <2>2
<1>7. ledger'[l].status = ledger[l].status
    BY <1>1, <1>2, <1>6, EntriesMove
<1> QED
    BY <1>2, <1>5, <1>7

LEMMA UnreadKept ==
    ASSUME RunAssumption, RunBasics, OneLead, Unread, [Next]_(vars),
           ~\E q \in Process : Crash(q) \/ Stop(q)
    PROVE  Unread'
<1> SUFFICES ASSUME ~\E p \in Process : role'[p] = "lead"
             PROVE  store'.cursor = 0
    BY DEF Unread
<1>1. (~\E p \in Process : role[p] = "lead") /\ store.cursor = 0
    BY LeadStays DEF Unread
<1>2. CASE Process = {}
  <2>1. store' = store
    <3>1. writes = {}
      BY <1>2 DEF RunBasics, RunTypes, ProcessTypes
    <3> QED
      BY <1>2, <3>1 DEF Next, vars, SiteExpires, SiteForgets
  <2> QED
    BY <1>1, <2>1
<1>3. ASSUME NEW p \in Process
      PROVE  store'.cursor = 0
  <2>1. FeedMove(p)
    BY <1>1, FeedMoves
  <2>2. ~SyncEvents(p) /\ ~SaveCursor(p)
        /\ ~\E status \in Decided, late \in BOOLEAN : Decide(p, status, late)
    BY <1>1 DEF SyncEvents, SaveCursor, Decide, RunBasics, FollowsThem
  <2>3. store'.cursor = store.cursor
    BY <2>1, <2>2 DEF FeedMove, SameFeed, TakeOver
  <2> QED
    BY <1>1, <2>3
<1> QED
    BY <1>2, <1>3

LEMMA PageRead ==
    ASSUME RunAssumption, RunBasics, NEW p \in Process, SyncEvents(p), at'[p].pc = "close"
    PROVE  \E new \in SUBSET Finals :
             /\ new = {item \in Page(p) : item \in Finals /\ Mismatch(p, item)} \ feed[p].seen
             /\ feed'[p].cursor = feed[p].cursor /\ feed'[p].seen = feed[p].seen \cup new
             /\ feed'[p].mismatches = feed[p].mismatches \cup new
             /\ at'[p].upto = Len(site.feed) /\ store' = store /\ ledger' = ledger /\ site' = site /\ reported' = reported
<1> DEFINE new == {item \in Page(p) : item \in Finals /\ Mismatch(p, item)} \ feed[p].seen
<1>0. at \in [Process -> Place] /\ Poll.pc = "poll"
    BY RunAtoms DEF RunBasics, RunTypes, ProcessTypes
<1>1. /\ feed' = [feed EXCEPT ![p].seen = @ \cup new, ![p].mismatches = @ \cup new]
      /\ at' = [at EXCEPT ![p] = [pc |-> "close", todo |-> ToClose(p), upto |-> Len(site.feed),
                                  then |-> IF at[p].pc = "handled" THEN <<at[p].l>> ELSE <<>>]]
      /\ store' = store /\ ledger' = ledger /\ site' = site /\ reported' = reported
    BY <1>0 DEF SyncEvents
<1>2. new \in SUBSET Finals
    OBVIOUS
<1>3. at'[p].upto = Len(site.feed)
    BY <1>0, <1>1
<1> HIDE DEF new
<1>4. /\ feed'[p].cursor = feed[p].cursor /\ feed'[p].seen = feed[p].seen \cup new
      /\ feed'[p].mismatches = feed[p].mismatches \cup new
    BY <1>1, <1>2, PageNoted DEF RunBasics
<1> QED
    BY <1>1, <1>2, <1>3, <1>4 DEF new

(* What the feed of the one that leads becomes, with no decision late. *)
LEMMA SeenGrow ==
    ASSUME RunAssumption, MaxFaults = 0, RunBasics, OneLead, [Next]_(vars), NEW p \in Process,
           role[p] = "lead", ~\E q \in Process : Crash(q) \/ Stop(q)
    PROVE  /\ feed[p].seen \subseteq feed'[p].seen
           /\ feed'[p].seen \subseteq feed[p].seen \cup feed'[p].mismatches
           /\ feed[p].mismatches \subseteq reported' \cup feed'[p].mismatches
           /\ reported \subseteq reported'
<1>0. feed \in [Process -> Feed] /\ ~TakeOver(p) /\ faults = 0
    BY DEF RunBasics, RunTypes, ProcessTypes, TakeOver
<1>1. CASE SameFeed(p)
    BY <1>1 DEF SameFeed
<1>2. CASE SyncEvents(p) /\ at'[p].pc = "close"
    BY <1>2, PageRead
<1>3. CASE SaveCursor(p)
  <2>1. feed' = [feed EXCEPT ![p].cursor = at[p].upto] /\ reported' = reported
    BY <1>3 DEF SaveCursor
  <2>2. feed'[p].seen = feed[p].seen /\ feed'[p].mismatches = feed[p].mismatches
    BY <1>0, <2>1 DEF Feed
  <2> QED
    BY <2>1, <2>2
<1>4. ASSUME NEW status \in Decided, NEW late \in BOOLEAN, Decide(p, status, late)
      PROVE  /\ feed'[p].seen = feed[p].seen /\ reported' = reported \cup feed[p].mismatches
  <2>1. feed'[p].seen = feed[p].seen
    BY <1>4, DecideTypes, ZenonT(60) DEF RunBasics, Decided
  <2>2. ~late
    BY <1>0, <1>4 DEF Decide
  <2> QED
    BY <1>4, <2>1, <2>2 DEF Decide
<1> QED
    BY <1>0, <1>1, <1>2, <1>3, <1>4, FeedMoves DEF FeedMove

LEMMA SeenToldKept ==
    ASSUME RunAssumption, MaxFaults = 0, RunBasics, OneLead, SeenTold, [Next]_(vars),
           ~\E q \in Process : Crash(q) \/ Stop(q)
    PROVE  SeenTold'
<1> SUFFICES ASSUME NEW p \in Process
             PROVE  /\ role'[p] # "lead" => feed'[p].seen = {}
                    /\ feed'[p].seen \subseteq reported' \cup feed'[p].mismatches
    BY DEF SeenTold
<1>1. CASE role[p] = "lead"
  <2>1. role'[p] = "lead"
    BY <1>1, LeadStays
  <2>2. feed'[p].seen \subseteq reported' \cup feed'[p].mismatches
    BY <1>1, SeenGrow DEF SeenTold
  <2> QED
    BY <2>1, <2>2
<1>2. CASE role[p] # "lead"
  <2>1. feed'[p].seen \subseteq feed[p].seen
    BY <1>2, SeenGrows
  <2>2. feed'[p].seen = {}
    BY <1>2, <2>1 DEF SeenTold
  <2> QED
    BY <2>2
<1> QED
    BY <1>1, <1>2

LEMMA FeedReadKept ==
    ASSUME RunAssumption, MaxFaults = 0, RunBasics, OneLead, Undecided, Fed, Unread, FeedRead,
           [Next]_(vars), ~\E q \in Process : Crash(q) \/ Stop(q)
    PROVE  FeedRead'
<1> SUFFICES ASSUME NEW p \in Process, role'[p] = "lead"
             PROVE  /\ feed'[p].cursor = store'.cursor /\ UpTo(p)' \in Nat /\ store'.cursor <= UpTo(p)'
                    /\ UpTo(p)' <= Len(site'.feed)
                    /\ \A i \in 1..UpTo(p)' : Noted(p, site.feed[i])'
    BY DEF FeedRead
<1>0. /\ feed \in [Process -> Feed] /\ at \in [Process -> Place] /\ Poll.pc = "poll" /\ store.cursor \in Nat
      /\ Len(site.feed) \in Nat /\ Len(site'.feed) \in Nat /\ Len(site'.feed) >= Len(site.feed)
      /\ \A i \in 1..Len(site.feed) : site'.feed[i] = site.feed[i]
    BY RunAtoms, FedKept DEF RunBasics, RunTypes, ProcessTypes, RowsType
<1>1. CASE role[p] # "lead"
  <2>1. TakeOver(p)
    BY <1>1, NewLead
  <2>2. /\ feed' = [feed EXCEPT ![p].cursor = store.cursor] /\ store' = store
        /\ at' = [at EXCEPT ![p] = [pc |-> "follow", todo |-> Unfinished(p)]]
    BY <2>1 DEF TakeOver
  <2>3. store.cursor = 0
    BY <2>1 DEF TakeOver, Unread
  <2>4. feed'[p].cursor = 0 /\ store'.cursor = 0 /\ at'[p].pc = "follow"
    BY <1>0, <2>2, <2>3 DEF Feed
  <2> QED
    BY <1>0, <2>4 DEF UpTo
<1>2. CASE role[p] = "lead"
  <2>0. /\ feed[p].cursor = store.cursor /\ UpTo(p) \in Nat /\ store.cursor <= UpTo(p) /\ UpTo(p) <= Len(site.feed)
        /\ \A i \in 1..UpTo(p) : Noted(p, site.feed[i])
        /\ feed[p].seen \subseteq feed'[p].seen /\ ~TakeOver(p)
    BY <1>2, SeenGrow DEF FeedRead, TakeOver
  <2>1. \A i \in 1..UpTo(p) : Noted(p, site.feed[i])'
    <3> SUFFICES ASSUME NEW i \in 1..UpTo(p)
                 PROVE  Noted(p, site.feed[i])'
      OBVIOUS
    <3> DEFINE item == site.feed[i]
    <3>1. i \in 1..Len(site.feed) /\ site'.feed[i] = item /\ Noted(p, item)
      BY <1>0, <2>0
    <3> HIDE DEF item
    <3>2. item \in Finals =>
             \/ item \in feed'[p].seen
             \/ ledger'[About(item)].status = item.status
             \/ ledger'[About(item)].status = "none" /\ ~(at'[p].pc = "decide" /\ at'[p].l = About(item))
      BY <1>2, <2>0, <3>1, NotedKept DEF item
    <3> QED
      BY <3>1, <3>2 DEF Noted
  <2>2. ASSUME UpTo(p)' = UpTo(p), feed'[p].cursor = store'.cursor, store'.cursor = store.cursor \/ store'.cursor = UpTo(p)
        PROVE  /\ feed'[p].cursor = store'.cursor /\ UpTo(p)' \in Nat /\ store'.cursor <= UpTo(p)'
               /\ UpTo(p)' <= Len(site'.feed)
               /\ \A i \in 1..UpTo(p)' : Noted(p, site.feed[i])'
    BY <1>0, <2>0, <2>1, <2>2
  <2>3. CASE SameFeed(p)
    <3>1. UpTo(p)' = UpTo(p)
      BY <2>3 DEF UpTo, SameFeed
    <3> QED
      BY <2>0, <2>2, <2>3, <3>1 DEF SameFeed
  <2>4. CASE SyncEvents(p) /\ at'[p].pc = "close"
    <3>1. PICK new \in SUBSET Finals :
             /\ new = {item \in Page(p) : item \in Finals /\ Mismatch(p, item)} \ feed[p].seen
             /\ feed'[p].cursor = feed[p].cursor /\ feed'[p].seen = feed[p].seen \cup new
             /\ at'[p].upto = Len(site.feed) /\ store' = store /\ ledger' = ledger /\ site' = site
      BY <2>4, PageRead
    <3>2. UpTo(p)' = Len(site.feed)
      BY <2>4, <3>1 DEF UpTo
    <3>3. ASSUME NEW i \in 1..Len(site.feed)
          PROVE  Noted(p, site.feed[i])'
      <4>1. CASE i \in 1..UpTo(p)
        BY <2>1, <4>1
      <4>2. CASE i \notin 1..UpTo(p)
        <5>1. site.feed[i] \in Page(p)
          <6>1. i \in (feed[p].cursor + 1)..Len(site.feed)
            BY <1>0, <2>0, <4>2
          <6> QED
            BY <6>1 DEF Page
        <5>2. site.feed[i] \in Finals =>
                site.feed[i] \in feed'[p].seen
                \/ ledger[About(site.feed[i])].status \in {"none", site.feed[i].status}
          BY <3>1, <5>1 DEF Mismatch
        <5>3. at'[p].pc # "decide"
          BY <2>4
        <5> QED
          BY <3>1, <5>2, <5>3 DEF Noted
      <4> QED
        BY <4>1, <4>2
    <3> QED
      BY <1>0, <2>0, <3>1, <3>2, <3>3
  <2>5. CASE SaveCursor(p)
    <3>1. /\ store'.cursor = at[p].upto /\ at[p].pc = "close"
          /\ feed' = [feed EXCEPT ![p].cursor = at[p].upto] /\ at' = [at EXCEPT ![p] = Poll]
      BY <2>5, CursorTypes DEF RunBasics, SaveCursor
    <3>2. UpTo(p) = at[p].upto /\ feed'[p].cursor = at[p].upto /\ at'[p].pc = "poll"
      BY <1>0, <3>1 DEF UpTo, Feed
    <3>3. UpTo(p)' = UpTo(p)
      BY <3>1, <3>2 DEF UpTo
    <3> QED
      BY <2>2, <3>1, <3>2, <3>3
  <2>6. ASSUME NEW status \in Decided, NEW late \in BOOLEAN, Decide(p, status, late)
        PROVE  UpTo(p)' = UpTo(p) /\ feed'[p].cursor = store'.cursor /\ store'.cursor = store.cursor
    <3>1. /\ feed'[p].cursor = feed[p].cursor /\ at[p].pc = "decide" /\ at'[p] = [pc |-> "post", l |-> at[p].l]
      BY <2>6, DecideTypes DEF RunBasics, Decided
    <3>2. store' = store /\ at'[p].pc = "post"
      BY <2>6, <3>1 DEF Decide
    <3> QED
      BY <2>0, <3>1, <3>2 DEF UpTo
  <2> QED
    BY <1>2, <2>0, <2>2, <2>3, <2>4, <2>5, <2>6, FeedMoves DEF FeedMove
<1> QED
    BY <1>1, <1>2

(* Without a failure, a final status of Viseca's feed that our ledger       *)
(* contradicts is in the evidence of a decision, or kept for the next one,  *)
(* once the cursor has passed it (_check_feed_item).                        *)
THEOREM MismatchesAreKept ==
    ASSUME RunAssumption, MaxFaults = 0, MaxStops = 0, MaxCrashes = 0
    PROVE  Spec => []MismatchKept
<1> DEFINE Inv == OneLead /\ Undecided /\ Fed /\ Unread /\ SeenTold /\ FeedRead
<1>1. Init => Inv
  <2> SUFFICES ASSUME Init
               PROVE  Inv
    OBVIOUS
  <2>1. OneLead /\ Unread /\ FeedRead
    BY DEF Init, OneLead, Unread, FeedRead
  <2>2. Undecided /\ SeenTold
    BY DEF Init, Poll, NoFeed, Undecided, SeenTold
  <2>3. site.feed = << >> /\ Len(site.feed) = 0
    BY DEF Init
  <2>4. Fed
    BY <2>3 DEF Fed
  <2> QED
    BY <2>1, <2>2, <2>4
<1>2. RunBasics /\ Inv /\ [Next]_(vars) => Inv'
  <2> SUFFICES ASSUME RunBasics, Inv, [Next]_(vars)
               PROVE  Inv'
    OBVIOUS
  <2>1. ~\E q \in Process : Crash(q) \/ Stop(q)
    BY DEF Crash, Stop, RunBasics, RunTypes, ProcessTypes
  <2>2. OneLead' /\ Undecided' /\ Fed'
    BY <2>1, OneLeadKept, UndecidedKept, FedKept
  <2>3. Unread' /\ SeenTold' /\ FeedRead'
    BY <2>1, UnreadKept, SeenToldKept, FeedReadKept
  <2> QED
    BY <2>2, <2>3
<1>3. RunBasics /\ Inv => MismatchKept
  <2> SUFFICES ASSUME RunBasics, Inv, NEW i \in 1..store.cursor, site.feed[i] \in Finals,
                      ledger[About(site.feed[i])].status \in Closed \ {site.feed[i].status}
               PROVE  site.feed[i] \in reported \/ \E p \in Process : site.feed[i] \in feed[p].mismatches
    BY DEF MismatchKept
  <2>1. store.cursor \in Nat
    BY DEF RunBasics, RunTypes, RowsType
  <2>2. PICK p \in Process : role[p] = "lead"
    BY <2>1 DEF Unread
  <2>3. Noted(p, site.feed[i])
    BY <2>1, <2>2 DEF FeedRead
  <2>4. site.feed[i] \in feed[p].seen
    BY <2>3 DEF Noted, Closed
  <2> QED
    BY <2>4 DEF SeenTold
<1> QED
    BY <1>1, <1>2, <1>3, RunShape, PTL DEF Spec

=============================================================================
