----------------------------- MODULE MCAnswers -----------------------------
(***************************************************************************)
(* What comes to an answer in the end, for TLC: the public keys            *)
(* (KeyRing), the step-ups of a stopped replay (OfflineReplay), the        *)
(* messages a model rewrites (Rewrites), the app's step-ups (AppDecisions) *)
(* and whoever asks for a draft (Drafting).  `part' says which of them a   *)
(* behaviour is about; the others rest.  Each is as fair as its module     *)
(* says.                                                                   *)
(***************************************************************************)
EXTENDS Integers

VARIABLE part  \* the component that runs; the others rest

VARIABLES
  clock, keys, load, made, keysRows, mine, public, docs
VARIABLES
  mandate, bound, req, copy, replayTask, decided, current, lock, thread,
  ledger, timer, faults
VARIABLES
  row, messageTask, snap, text, out, shown, models
VARIABLES
  server, now, signedInAs, appRows, status, started, reads, appCalls,
  resolving, failed, taps, answered
VARIABLES
  service, accepted, window, comeBack, caller, age, queue, job, draftCalls,
  call, waited, reading

keysVars == <<clock, keys, load, made, keysRows, mine, public, docs>>
replayVars == <<mandate, bound, req, copy, replayTask, decided, current, lock,
                thread, ledger, timer, faults>>
messageVars == <<row, messageTask, snap, text, out, shown, models>>
appVars == <<server, now, signedInAs, appRows, status, started, reads,
             appCalls, resolving, failed, taps, answered>>
draftVars == <<service, accepted, window, comeBack, caller, age, queue, job,
               draftCalls, call, waited, reading>>

Keys == INSTANCE KeyRing WITH
  Process <- {"p1", "p2"}, Key <- {1, 2}, MaxTime <- 2, rows <- keysRows
Replay == INSTANCE OfflineReplay WITH
  Request <- {"r1", "r2"}, N <- 1, Overlap <- 1, MaxFaults <- 1,
  task <- replayTask
Messages == INSTANCE Rewrites WITH
  Decisions <- {1, 2}, StepUps <- {1}, Threads <- 1, Standby <- FALSE,
  Early <- FALSE, task <- messageTask
App == INSTANCE AppDecisions WITH
  Hers <- {"d1"}, His <- {}, Reads <- {"r1", "r2"}, Calls <- {"k1"},
  MaxTime <- 1, MaxTaps <- 1, Looks <- FALSE, Losses <- TRUE, rows <- appRows,
  calls <- appCalls
Draft == INSTANCE Drafting WITH
  Drafts <- {"d1", "d2"}, Facts <- {"f1"}, Restores <- {},
  CustomerOf <- [d \in {"d1", "d2"} |-> d], Limit <- 1, Window <- 2,
  Servers <- {[threads |-> 1, provider |-> TRUE]}, PoolSize <- 1,
  ReadTime <- 2, DraftTime <- 3, FactTime <- 1, DecideTime <- 2,
  server <- service, calls <- draftCalls

\* What the components say of their parameters.
ASSUME Parameters ==
  /\ Replay!ReplayAssumption
  /\ Messages!RewritesAssumption
  /\ App!AppAssumption
  /\ Draft!DraftingAssumption
  /\ Draft!DraftingAssumption

Parts == {"keys", "replay", "rewrites", "app", "drafting"}

WholeInit ==
  /\ part \in Parts
  /\ Keys!Init
  /\ Replay!Init
  /\ Messages!Init
  /\ App!Init
  /\ Draft!Init

whole == <<part, keysVars, replayVars, messageVars, appVars, draftVars>>

WholeNext ==
  \/ /\ part = "keys" /\ Keys!Next
     /\ UNCHANGED <<part, replayVars, messageVars, appVars, draftVars>>
  \/ /\ part = "replay" /\ Replay!Next
     /\ UNCHANGED <<part, keysVars, messageVars, appVars, draftVars>>
  \/ /\ part = "rewrites" /\ Messages!Next
     /\ UNCHANGED <<part, keysVars, replayVars, appVars, draftVars>>
  \/ /\ part = "app" /\ App!Next
     /\ UNCHANGED <<part, keysVars, replayVars, messageVars, draftVars>>
  \/ /\ part = "drafting" /\ Draft!Next
     /\ UNCHANGED <<part, keysVars, replayVars, messageVars, appVars>>

WholeSpec == WholeInit /\ [][WholeNext]_whole

FairSpec ==
  /\ WholeSpec
  /\ \/ []<>(part = "keys") /\ Keys!Fairness
     \/ []<>(part = "replay") /\ Replay!Fairness
     \/ []<>(part = "rewrites") /\ Messages!Fairness
     \/ []<>(part = "app") /\ App!Fairness
     \/ []<>(part = "drafting") /\ Draft!Fairness

----------------------------------------------------------------------------

\* Whoever waits is answered: a process for a key it can verify by (keys.py), a
\* step-up whose replay was stopped (offline.py), a message for its rewrite
\* (tier 3), a customer for her draft (C1) and for what the server has settled
\* (DecisionsProvider).
EveryoneIsAnswered ==
  /\ part = "keys" => Keys!EveryDocVerifies
  /\ part = "replay" => Replay!EveryStepUpCloses
  /\ part = "rewrites" => Messages!RewritesEnd /\ Messages!ShownCatchesUp
  /\ part = "app" => App!ShowsTheAnswer
  /\ part = "drafting" => Draft!EveryoneAnswered
=============================================================================
