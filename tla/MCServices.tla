----------------------------- MODULE MCServices -----------------------------
(***************************************************************************)
(* What runs beside the decisions, for TLC: nonces (SignedRequests, the    *)
(* component this module extends), the worker lease of two processes, the  *)
(* reference sync, an offline replay, the model behind the soft signals,   *)
(* the drafts and the platform's settings.                                 *)
(* These components share nothing: `part' says which of them a behaviour   *)
(* is about, and with which bounds; the others rest in their initial       *)
(* states.                                                                 *)
(***************************************************************************)
EXTENDS SignedRequests

CONSTANTS
  Workers,                        \* processes on one store
  StepUps,                        \* what the lease holder asks the customer
  Ids, Tagged,                    \* what the reference data name, and whether their history is
  MaxBreaks, MaxCrashes, MaxFaults, MaxPublish, MaxHandovers,
  Replays, Length, Overlap,       \* D2 requests, the purchases of one, how many come together
  MaxReplayFaults,
  Purchases, Replayed,            \* purchases of a live run, and of a replay
  Settings, MaxSwitches,          \* of the soft signals
  Drafts, CustomerOf, Facts,      \* C1 requests and whose they are, tier-2 questions
  Restores,                       \* policies a decision reads
  Servers, PoolSize,              \* executors, and the threads for model calls
  Limit, DraftWindow,             \* of a customer's drafts
  ReadTime, DraftTime, FactTime, DecideTime,  \* how long each waits
  Runs, Windows, MoreWindows,     \* runs, and how long the platform may let her answer
  DefaultWindow, Fresh

VARIABLE part  \* the component that runs; the others rest

VARIABLES
  lease, conn, leaseRole, leaseTimer, claimed, leaseJob, row, viseca, lapsed,
  sent, breaks, crashes, leaseFaults
VARIABLES
  syncServed, store, syncRole, syncSeen, sha, index, syncKnown, unresolved,
  asking, boot, sync, published, syncFaults, handovers
VARIABLES
  mandate, bound, req, copy, task, decided, current, replayLock, replayThread,
  ledger, replayTimer, replayFaults
VARIABLES
  setting, facts, process, models, loading, loaded, startup, tried, predict,
  layaLock, loads, pool, layaThread, replayOn, at, score, signal, switches
VARIABLES
  server, draftAccepted, draftWindow, comeBack, caller, draftAge, queue,
  draftJob, calls, call, waited, reading
VARIABLES
  settingsServed, since, state, holder, settingsWindow, settingsAge, read,
  created, settingsKnown, rows, ctx, d3, allowed

leaseVars == <<lease, conn, leaseRole, leaseTimer, claimed, leaseJob, row,
               viseca, lapsed, sent, breaks, crashes, leaseFaults>>
syncVars == <<syncServed, store, syncRole, syncSeen, sha, index, syncKnown,
              unresolved, asking, boot, sync, published, syncFaults, handovers>>
replayVars == <<mandate, bound, req, copy, task, decided, current, replayLock,
                replayThread, ledger, replayTimer, replayFaults>>
layaVars == <<setting, facts, process, models, loading, loaded, startup,
              tried, predict, layaLock, loads, pool, layaThread, replayOn, at,
              score, signal, switches>>
draftVars == <<server, draftAccepted, draftWindow, comeBack, caller, draftAge,
               queue, draftJob, calls, call, waited, reading>>
settingsVars == <<settingsServed, since, state, holder, settingsWindow,
                  settingsAge, read, created, settingsKnown, rows, ctx, d3,
                  allowed>>

Lease == INSTANCE WorkerLease WITH
  Process <- Workers, StepUp <- StepUps, role <- leaseRole,
  timer <- leaseTimer, job <- leaseJob, faults <- leaseFaults
Reference == INSTANCE ReferenceSync WITH
  Process <- Workers, Id <- Ids, served <- syncServed, role <- syncRole,
  seen <- syncSeen, known <- syncKnown, faults <- syncFaults
Replay == INSTANCE OfflineReplay WITH
  Request <- Replays, N <- Length, MaxFaults <- MaxReplayFaults,
  lock <- replayLock, thread <- replayThread, timer <- replayTimer,
  faults <- replayFaults
Laya == INSTANCE Signals WITH
  Live <- Purchases, lock <- layaLock, thread <- layaThread
Draft == INSTANCE Drafting WITH
  Window <- DraftWindow, accepted <- draftAccepted, window <- draftWindow,
  age <- draftAge, job <- draftJob
Window == INSTANCE WorkerSettings WITH
  Default <- DefaultWindow, Failures <- {"later"}, Others <- TRUE,
  served <- settingsServed, window <- settingsWindow, age <- settingsAge,
  known <- settingsKnown
Startup == INSTANCE WorkerSettings WITH
  Windows <- MoreWindows, Default <- DefaultWindow, Failures <- {},
  Others <- FALSE, served <- settingsServed, window <- settingsWindow,
  age <- settingsAge, known <- settingsKnown

\* Two drafts of a customer and one of another; an executor of one thread or
\* two, and one without a model.
TwoOfOne == [d \in Drafts |-> IF d = "d3" THEN "his" ELSE "hers"]
Executors ==
  [threads : {1, 2}, provider : {TRUE}] \cup [threads : {1}, provider : {FALSE}]

\* What the components say of their parameters.
ASSUME Parameters ==
  /\ Lease!LeaseAssumption
  /\ Reference!SyncAssumption
  /\ Replay!ReplayAssumption
  /\ Laya!SignalsAssumption
  /\ Draft!DraftingAssumption
  /\ Window!SettingsAssumption
  /\ Startup!SettingsAssumption

Parts == {"signed", "lease", "reference", "replay", "signals", "drafting", "window", "startup"}

WholeInit ==
  /\ part \in Parts
  /\ Init /\ (part # "signed" => enrolled = {})
  /\ Lease!Init
  /\ Reference!Init
  /\ Replay!Init
  /\ Laya!Init /\ (part # "signals" => setting = "off" /\ \A p \in Laya!Purchase : ~facts[p].flagged /\ facts[p].left)
  /\ Draft!Init /\ (part # "drafting" => server = CHOOSE s \in Servers : TRUE)
  /\ IF part = "startup" THEN Startup!Init ELSE Window!Init /\ (part # "window" => settingsServed = CHOOSE w \in Windows : TRUE)

whole == <<part, leaseVars, syncVars, replayVars, layaVars, draftVars,
           settingsVars, vars>>

WholeNext ==
  \/ /\ part = "signed" /\ Next
     /\ UNCHANGED <<part, leaseVars, syncVars, replayVars, layaVars, draftVars,
                    settingsVars>>
  \/ /\ part = "lease" /\ Lease!Next
     /\ UNCHANGED <<part, syncVars, replayVars, layaVars, draftVars,
                    settingsVars, vars>>
  \/ /\ part = "reference" /\ Reference!Next
     /\ UNCHANGED <<part, leaseVars, replayVars, layaVars, draftVars,
                    settingsVars, vars>>
  \/ /\ part = "replay" /\ Replay!Next
     /\ UNCHANGED <<part, leaseVars, syncVars, layaVars, draftVars,
                    settingsVars, vars>>
  \/ /\ part = "signals" /\ Laya!Next
     /\ UNCHANGED <<part, leaseVars, syncVars, replayVars, draftVars,
                    settingsVars, vars>>
  \/ /\ part = "drafting" /\ Draft!Next
     /\ UNCHANGED <<part, leaseVars, syncVars, replayVars, layaVars,
                    settingsVars, vars>>
  \/ /\ part = "window" /\ Window!Next
     /\ UNCHANGED <<part, leaseVars, syncVars, replayVars, layaVars, draftVars,
                    vars>>
  \/ /\ part = "startup" /\ Startup!Next
     /\ UNCHANGED <<part, leaseVars, syncVars, replayVars, layaVars, draftVars,
                    vars>>

WholeSpec == WholeInit /\ [][WholeNext]_whole

----------------------------------------------------------------------------

\* offline.py: one replay at a time, which records into its own run and knows
\* its purchases; and, while the store takes what is written, arms an expiry for
\* what it counts, and counts in turn.
ReplayKeepsToItself == part = "replay" =>
  /\ Replay!TypeOK /\ Replay!OneReplay /\ Replay!RecordsIntoCurrent
  /\ Replay!KnowsItsPurchases
  /\ replayFaults = 0 => Replay!CountedHasATimer /\ Replay!CountsInTurn

\* C1 and tier 2: no window has more drafts than the limit, nothing waits in a
\* queue for one who gave up, and a model that hangs fails no draft.
WaitsAreBounded ==
  part = "drafting" => /\ Draft!TypeOK /\ Draft!LimitKept
                       /\ Draft!QueuesAreWanted /\ Draft!ModelNeverFailsADraft

\* What is kept in two places agrees: the ledger of two processes with what
\* Viseca approved, the digests a process remembers with the tables, the model
\* /healthz names with the one that answers, the window of the worker with its
\* runs'.
CopiesAgree ==
  /\ part = "lease" => Lease!TypeOK /\ Lease!CountedIsApproved
  /\ part = "reference" => Reference!TypeOK /\ Reference!SeenIsStored
  /\ part = "signals" => /\ Laya!TypeOK /\ Laya!LoadedOnce
                         /\ Laya!HealthTruthful /\ Laya!KeywordsStand
  /\ part = "window" => Window!TypeOK /\ Window!OneWindow
  /\ part = "startup" => Startup!TypeOK /\ Startup!WindowOfItsStart
=============================================================================
