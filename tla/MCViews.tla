------------------------------ MODULE MCViews ------------------------------
(***************************************************************************)
(* What is shown, for TLC: the app's list of policies (AppPolicies), also  *)
(* with reads served in turn; its step-ups (AppDecisions), of two          *)
(* customers who sign in one after the other, of one as time passes, of    *)
(* one who answers two; the rows of runs and the event feed (RunRecords);  *)
(* the messages a model rewrites (Rewrites); the cards learned from live   *)
(* purchases (ScenarioBindings); the refused calls (CallLog).  `part' says *)
(* which of them a behaviour is about, and with which bounds; the others   *)
(* rest in their initial states.                                           *)
(***************************************************************************)
EXTENDS Integers

CONSTANTS
  Changes  \* the changes she makes to her policies

VARIABLE part  \* the component that runs; the others rest

VARIABLES
  policiesVersion, policiesPolicies, policiesStatus, policiesCounter,
  policiesLastApplied, policiesLastLocalChange, policiesReads, policiesChange
VARIABLES
  turnVersion, turnPolicies, turnStatus, turnCounter, turnLastApplied,
  turnLastLocalChange, turnReads, turnChange
VARIABLES
  appServer, appNow, appSignedInAs, appRows, appStatus, appStarted, appReads,
  appCalls, appResolving, appFailed, appTaps, appAnswered
VARIABLES
  oneServer, oneNow, oneSignedInAs, oneRows, oneStatus, oneStarted, oneReads,
  oneCalls, oneResolving, oneFailed, oneTaps, oneAnswered
VARIABLES
  feedSite, feedLedger, feedStore, feedRole, feedRuns, feedFeed, feedSteps,
  feedAt, feedWrites, feedD3, feedReported, feedFaults, feedStops, feedCrashes
VARIABLES
  recordsSite, recordsLedger, recordsStore, recordsRole, recordsRuns,
  recordsFeed, recordsSteps, recordsAt, recordsWrites, recordsD3,
  recordsReported, recordsFaults, recordsStops, recordsCrashes
VARIABLES
  row, task, snap, text, out, shown, models
VARIABLES
  runsOn, told, stored, cards, known, saving, seen, last
VARIABLES
  call, order, jobs, pending, logRows, closing, batch

policiesVars == <<policiesVersion, policiesPolicies, policiesStatus,
                  policiesCounter, policiesLastApplied,
                  policiesLastLocalChange, policiesReads, policiesChange>>
turnVars == <<turnVersion, turnPolicies, turnStatus, turnCounter,
              turnLastApplied, turnLastLocalChange, turnReads, turnChange>>
appVars == <<appServer, appNow, appSignedInAs, appRows, appStatus, appStarted,
             appReads, appCalls, appResolving, appFailed, appTaps, appAnswered>>
oneVars == <<oneServer, oneNow, oneSignedInAs, oneRows, oneStatus, oneStarted,
             oneReads, oneCalls, oneResolving, oneFailed, oneTaps, oneAnswered>>
feedVars == <<feedSite, feedLedger, feedStore, feedRole, feedRuns, feedFeed,
              feedSteps, feedAt, feedWrites, feedD3, feedReported, feedFaults,
              feedStops, feedCrashes>>
recordsVars == <<recordsSite, recordsLedger, recordsStore, recordsRole,
                 recordsRuns, recordsFeed, recordsSteps, recordsAt,
                 recordsWrites, recordsD3, recordsReported, recordsFaults,
                 recordsStops, recordsCrashes>>
messageVars == <<row, task, snap, text, out, shown, models>>
cardVars == <<runsOn, told, stored, cards, known, saving, seen, last>>
logVars == <<call, order, jobs, pending, logRows, closing, batch>>

AnyOrder == INSTANCE AppPolicies WITH
  Changes <- Changes, MaxNumber <- 4, MaxVersion <- 3, InTurn <- FALSE,
  Losses <- TRUE, version <- policiesVersion, policies <- policiesPolicies,
  status <- policiesStatus, counter <- policiesCounter,
  lastApplied <- policiesLastApplied,
  lastLocalChange <- policiesLastLocalChange, reads <- policiesReads,
  change <- policiesChange
InOrder == INSTANCE AppPolicies WITH
  Changes <- Changes, MaxNumber <- 5, MaxVersion <- 3, InTurn <- TRUE,
  Losses <- FALSE, version <- turnVersion, policies <- turnPolicies,
  status <- turnStatus, counter <- turnCounter,
  lastApplied <- turnLastApplied, lastLocalChange <- turnLastLocalChange,
  reads <- turnReads, change <- turnChange
Customers == INSTANCE AppDecisions WITH
  Hers <- {"d1"}, His <- {"d2"}, Reads <- {"r1"}, Calls <- {"k1"},
  MaxTime <- 1, MaxTaps <- 1, Looks <- FALSE, Losses <- TRUE,
  server <- appServer, now <- appNow, signedInAs <- appSignedInAs,
  rows <- appRows, status <- appStatus, started <- appStarted,
  reads <- appReads, calls <- appCalls, resolving <- appResolving,
  failed <- appFailed, taps <- appTaps, answered <- appAnswered
One == INSTANCE AppDecisions WITH
  Hers <- {"d1"}, His <- {}, Reads <- {"r1", "r2"}, Calls <- {"k1"},
  MaxTime <- 2, MaxTaps <- 1, Looks <- FALSE, Losses <- TRUE,
  server <- oneServer, now <- oneNow, signedInAs <- oneSignedInAs,
  rows <- oneRows, status <- oneStatus, started <- oneStarted,
  reads <- oneReads, calls <- oneCalls, resolving <- oneResolving,
  failed <- oneFailed, taps <- oneTaps, answered <- oneAnswered
Two == INSTANCE AppDecisions WITH
  Hers <- {"d1", "d2"}, His <- {}, Reads <- {"r1"}, Calls <- {"k1"},
  MaxTime <- 1, MaxTaps <- 2, Looks <- TRUE, Losses <- TRUE,
  server <- appServer, now <- appNow, signedInAs <- appSignedInAs,
  rows <- appRows, status <- appStatus, started <- appStarted,
  reads <- appReads, calls <- appCalls, resolving <- appResolving,
  failed <- appFailed, taps <- appTaps, answered <- appAnswered
Feed == INSTANCE RunRecords WITH
  Process <- {"p1", "p2"}, Run <- {"r1"}, Size <- 2, Request <- {"q1"},
  AnswersAnywhere <- FALSE, MaxFaults <- 0, MaxStops <- 0, MaxCrashes <- 0,
  site <- feedSite, ledger <- feedLedger, store <- feedStore,
  role <- feedRole, runs <- feedRuns, feed <- feedFeed, steps <- feedSteps,
  at <- feedAt, writes <- feedWrites, d3 <- feedD3, reported <- feedReported,
  faults <- feedFaults, stops <- feedStops, crashes <- feedCrashes
Stopped == INSTANCE RunRecords WITH
  Process <- {"p1"}, Run <- {"r1"}, Size <- 2, Request <- {"q1"},
  AnswersAnywhere <- FALSE, MaxFaults <- 1, MaxStops <- 1, MaxCrashes <- 0,
  site <- recordsSite, ledger <- recordsLedger, store <- recordsStore,
  role <- recordsRole, runs <- recordsRuns, feed <- recordsFeed,
  steps <- recordsSteps, at <- recordsAt, writes <- recordsWrites,
  d3 <- recordsD3, reported <- recordsReported, faults <- recordsFaults,
  stops <- recordsStops, crashes <- recordsCrashes
Started == INSTANCE RunRecords WITH
  Process <- {"p1"}, Run <- {"r1", "r2"}, Size <- 1, Request <- {"q1"},
  AnswersAnywhere <- FALSE, MaxFaults <- 0, MaxStops <- 1, MaxCrashes <- 1,
  site <- recordsSite, ledger <- recordsLedger, store <- recordsStore,
  role <- recordsRole, runs <- recordsRuns, feed <- recordsFeed,
  steps <- recordsSteps, at <- recordsAt, writes <- recordsWrites,
  d3 <- recordsD3, reported <- recordsReported, faults <- recordsFaults,
  stops <- recordsStops, crashes <- recordsCrashes
Messages == INSTANCE Rewrites WITH
  Decisions <- {1, 2}, StepUps <- {1}, Threads <- 1, Standby <- FALSE,
  Early <- FALSE
TwoHands == INSTANCE Rewrites WITH
  Decisions <- {1, 2}, StepUps <- {1}, Threads <- 1, Standby <- TRUE,
  Early <- FALSE
Bindings == INSTANCE ScenarioBindings WITH
  Scenarios <- {"s1", "s2"}, Cards <- {"c1", "c2", "c3"},
  Pack <- [s \in {"s1", "s2"} |-> IF s = "s1" THEN "c1" ELSE "none"],
  Threads <- {"t1"}, Workers <- {"w1"}, NewCards <- {"c3"}, MaxSeen <- 3,
  Bare <- TRUE, Failures <- FALSE
Named == INSTANCE ScenarioBindings WITH
  Scenarios <- {"s1"}, Cards <- {"c1", "c2"}, Pack <- [s \in {"s1"} |-> "c1"],
  Threads <- {"t1"}, Workers <- {"w1", "w2"}, NewCards <- {"c2"},
  MaxSeen <- 5, Bare <- FALSE, Failures <- TRUE
Log == INSTANCE CallLog WITH
  Calls <- {"a", "b", "c"}, Keep <- 2, BoundsCalls <- TRUE,
  StoreFails <- FALSE, rows <- logRows

\* What the components say of their parameters.
ASSUME Parameters ==
  /\ AnyOrder!PoliciesAssumption
  /\ InOrder!PoliciesAssumption
  /\ Customers!AppAssumption
  /\ One!AppAssumption
  /\ Two!AppAssumption
  /\ Feed!RunAssumption
  /\ Stopped!RunAssumption
  /\ Started!RunAssumption
  /\ Messages!RewritesAssumption
  /\ TwoHands!RewritesAssumption
  /\ Bindings!BindingsAssumption
  /\ Named!BindingsAssumption
  /\ Log!CallLogAssumption

Parts == {"policies", "turn", "customers", "one", "two", "feed", "stop", "start", "rewrites", "standby", "bindings", "named", "calls"}

WholeInit ==
  /\ part \in Parts
  /\ AnyOrder!Init
  /\ InOrder!Init
  /\ IF part = "two" THEN Two!Init ELSE Customers!Init /\ (part # "customers" => appSignedInAs = "her")
  /\ One!Init /\ (part # "one" => oneSignedInAs = "her")
  /\ Feed!Init
  /\ IF part = "start" THEN Started!Init ELSE Stopped!Init
  /\ Messages!Init
  /\ IF part = "named" THEN Named!Init ELSE Bindings!Init /\ (part # "bindings" => \A s \in {"s1", "s2"} : runsOn[s] = "c1")
  /\ Log!Init

whole == <<part, policiesVars, turnVars, appVars, oneVars, feedVars,
           recordsVars, messageVars, cardVars, logVars>>

WholeNext ==
  \/ /\ part = "policies" /\ AnyOrder!Next
     /\ UNCHANGED <<part, turnVars, appVars, oneVars, feedVars, recordsVars,
                    messageVars, cardVars, logVars>>
  \/ /\ part = "turn" /\ InOrder!Next
     /\ UNCHANGED <<part, policiesVars, appVars, oneVars, feedVars, recordsVars,
                    messageVars, cardVars, logVars>>
  \/ /\ part = "customers" /\ Customers!Next
     /\ UNCHANGED <<part, policiesVars, turnVars, oneVars, feedVars,
                    recordsVars, messageVars, cardVars, logVars>>
  \/ /\ part = "one" /\ One!Next
     /\ UNCHANGED <<part, policiesVars, turnVars, appVars, feedVars,
                    recordsVars, messageVars, cardVars, logVars>>
  \/ /\ part = "two" /\ Two!Next
     /\ UNCHANGED <<part, policiesVars, turnVars, oneVars, feedVars,
                    recordsVars, messageVars, cardVars, logVars>>
  \/ /\ part = "feed" /\ Feed!Next
     /\ UNCHANGED <<part, policiesVars, turnVars, appVars, oneVars, recordsVars,
                    messageVars, cardVars, logVars>>
  \/ /\ part = "stop" /\ Stopped!Next
     /\ UNCHANGED <<part, policiesVars, turnVars, appVars, oneVars, feedVars,
                    messageVars, cardVars, logVars>>
  \/ /\ part = "start" /\ Started!Next
     /\ UNCHANGED <<part, policiesVars, turnVars, appVars, oneVars, feedVars,
                    messageVars, cardVars, logVars>>
  \/ /\ part = "rewrites" /\ Messages!Next
     /\ UNCHANGED <<part, policiesVars, turnVars, appVars, oneVars, feedVars,
                    recordsVars, cardVars, logVars>>
  \/ /\ part = "standby" /\ TwoHands!Next
     /\ UNCHANGED <<part, policiesVars, turnVars, appVars, oneVars, feedVars,
                    recordsVars, cardVars, logVars>>
  \/ /\ part = "bindings" /\ Bindings!Next
     /\ UNCHANGED <<part, policiesVars, turnVars, appVars, oneVars, feedVars,
                    recordsVars, messageVars, logVars>>
  \/ /\ part = "named" /\ Named!Next
     /\ UNCHANGED <<part, policiesVars, turnVars, appVars, oneVars, feedVars,
                    recordsVars, messageVars, logVars>>
  \/ /\ part = "calls" /\ Log!Next
     /\ UNCHANGED <<part, policiesVars, turnVars, appVars, oneVars, feedVars,
                    recordsVars, messageVars, cardVars>>

WholeSpec == WholeInit /\ [][WholeNext]_whole

----------------------------------------------------------------------------

\* What she sees: PoliciesProvider shows the last read sent, none older after
\* it, and undoes no change of her own; DecisionsProvider shows rows of the
\* customer signed in, no answer but the server's, no countdown started again.
ScreensFollow ==
  /\ [](part = "policies" => AnyOrder!TypeOK) /\ AnyOrder!HerChangeStands
  /\ [](part = "turn" => InOrder!TypeOK /\ InOrder!LastReadShown) /\ InOrder!ReadsNeverGoBack
  /\ [](part = "customers" =>
        Customers!TypeOK /\ Customers!OwnRowsOnly /\ Customers!NoInventedAnswer)
  /\ [](part = "two" => Two!TypeOK /\ Two!NoInventedAnswer)
  /\ [](part = "one" => One!TypeOK) /\ One!ExpiredWaitsNoMore /\ One!CountdownRuns

\* What rows say: a stop leaves current rows of runs, one run at a time goes
\* on, a mismatch of the feed is kept and an answer is none (D7); an answered
\* message outlives a rewrite (tier 3); the newest card of a scenario wins;
\* refusals are stored when the client is closed, the newest of them kept.
RowsStand ==
  /\ [](part = "stop" => Stopped!TypeOK /\ Stopped!StoppedRowsAreCurrent)
  /\ [](part = "start" => Started!TypeOK /\ Started!OneRunAtATime)
  /\ [](part = "feed" => Feed!TypeOK /\ Feed!MismatchKept) /\ Feed!AnswerIsNoMismatch
  /\ [](part = "rewrites" => Messages!AnswerStands)
  /\ [](part \in {"rewrites", "standby"} => Messages!TypeOK /\ Messages!FactsKept)
  /\ Messages!ShownNeverReopens
  /\ [](part = "bindings" => Bindings!TypeOK /\ Bindings!NewestWins)
  /\ [](part = "named" => Named!TypeOK /\ Named!NamedTogether)
  /\ [](part = "calls" => Log!TypeOK)
  /\ Log!RefusalsOutliveTheClient /\ Log!OldestGoFirst
=============================================================================
