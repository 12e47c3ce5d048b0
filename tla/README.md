# OneGuard, specified

TLA+ modules of OneGuard (its backend, `src/backend/oneguard`, and the parts of
its app that keep state), TLC runs that check them on small instances, and
TLAPS proofs of their main properties for every value of the constants.  Paths
below are relative to `src/backend/oneguard` unless they start with `docs/` or
`frontend/`.

OneGuard stands between a payment platform (Viseca) and a card holder.  The
platform hands it every purchase of a simulated run; OneGuard must answer
within a few seconds with approve, decline or "ask the customer" (a step-up),
by the policy the customer confirmed.  A step-up waits for the customer for a
limited window, and what is approved counts against the policy's limits.

## 1. The system

| Part | State | Operations | Interacts with |
| --- | --- | --- | --- |
| Live worker (`viseca/worker.py`) | runs followed, timers, policies, revoked TMs, ids a /resolve was sent for; one lock (`_resolution_lock`), one engine thread | poll, handle, decide, post, expire, resolve, recover, reconcile, revoke | platform (HTTP), engine thread, store, API |
| Pipeline and engine (`pipeline.py`, `engine/`) | none of its own | facts, rules, protections, signs, `decide()` | ledger (reads), worker (called) |
| Ledger (`engine/ledger.py`, `ledger_base.py`) | `decisions` rows | record, resolve, set_deadline, set_explanation, view | engine, worker, API |
| Policies (`api/routes_customer.py`, `api/queries.py`) | `mandates` rows, drafts | C1 draft, C2 confirm, C4 tighten, C5 revoke | platform, worker memory, `policy_lock` |
| Operator runs (`api/routes_dev.py`) | the run at the platform, the policy it goes under | D3 in two forms, D4, D7 | platform, worker, policies |
| Services (`api/services.py`) | locks, time-outs | C8 answer, closing of lapsed step-ups, policy binding | worker, offline replay |
| Lease (`store/lease.py`) | a database lock | acquire, held, release | worker start, stand-by, take-over |
| Offline replay (`api/offline.py`, `replay/`) | one replay, its timers | restart, run, resolve, expire, stop | engine, ledger |
| Devices (`passport/devices.py`) | devices, nonces | enrol, approve, transfer, remove, reset, verify | API |
| Passports, receipts, keys (`passport/book.py`, `passport/keys.py`) | versions, receipts, signing keys | sync, issue, re-sign, verify | policies, ledger |
| Reference sync, event feed (`viseca/worker.py`, `store/history.py`) | tables, digests, history index, cursor | sync, check, compare | platform, decisions |
| Compiler, language models (`compiler/`, `llm/`, `engine/tier2.py`, `engine/tier3.py`) | the pool of model calls, the draft limit | text to rules, facts, wording | drafting, decisions |
| App (`frontend/src/state`) | what is on screen, reads and answers under way | poll, answer, merge | API |
| Store schema, HTTP shapes, challenge data | tables | - | - |

What makes it hard:

* the event loop awaits the platform or the store between nearly any two
  steps, so that C8, an expiry timer, a read of the list, the start-up
  reconciliation and the decision of another purchase meet in any order;
* the engine runs on a thread of its own and may be late (the loop then posts
  an overrun decision by itself), fail, or fail after it committed;
* every call may be taken with its reply lost, and a store call whose wait is
  over may still commit;
* a process dies at any point; what it kept in memory (timers, claims,
  revocations, contexts of runs) is gone, what it stored is not;
* two processes stand on one store, and the one that leads learns late that it
  does not lead any more;
* one policy stands in four places at once: the row, the platform, the
  worker's memory and the context of a run in flight;
* transactions read rows without locking them, and write what they read;
* polls of the app overlap and come back in any order.

What makes each part correct: *worker* - ledger and platform agree on what is
approved, a step-up is closed once, and in the end; *decide()* - a worse
finding never helps; *ledger* - limits, duplicates, single items, doubts and
the watch rest on rows that change after they were read; *policies* - one
active policy per card, and what is revoked approves nothing more; *lease* -
what one holder leaves, the next one closes; *documents* - a receipt says what
was decided, a revoked passport is final; *devices* - a card is controlled by
the device its controller named; *copies* (tables, index, settings, screens) -
they come to say what the original says, and never go back.

`PROJECT.json` lists every component with what is and is not modelled of it,
every definition with the lines it translates, and 40 hazards: the lines where
something hard to test may go wrong, each with the properties that would show
it.

## 2. The modules

A module is written for one component.  Time, amounts and ids are small
numbers; names, texts and payloads are members of small sets; a database
transaction is one step where the store makes it one, and a read step and a
write step where the code reads rows in one and writes in another.

| Module | Of |
| --- | --- |
| `Purchase` | the abstract promise: decided once, closed once, approved only if Viseca approved |
| `StepUpWorker` | a purchase's way through the worker, with every failure; implements `Purchase` |
| `WorkerLease` | two processes on one store: the lease, its loss and the late look at it, take-over, closes by both |
| `RunRecords` | a run's progress, end, stop and rows; the event feed, its cursor and mismatches |
| `Rewrites` | tier 3: a message rewritten by a model while the customer answers |
| `WorkerSettings`, `ScenarioBindings` | settings read from the platform; the card a scenario runs on |
| `Decide`, `DecideChecks` | `decide()`: findings in, outcome, step and trust out; its properties over all inputs |
| `SessionLedger` | the decision rows, their view, the rules and protections that read it (uses `Decide`) |
| `Rules`, `RuleChecks`, `RuleCases` | the typed rules on one purchase and ledger; what changes between two evaluations; the cases TLC takes |
| `ModelFacts`, `Signals` | tier 2: a model's answer becomes a fact; the detector behind the soft signals |
| `Familiarity` | which devices and shops purchases make familiar |
| `PolicyLifecycle` | C2, C4, C5, D3, the worker's policies, restart and take-over |
| `Compiler`, `Preview` | an instruction's two readings, lint and draft; preview, form and meter (both use `Rules`) |
| `Drafting` | C1's rate limit, the threads of drafts and model calls, their deadlines |
| `OfflineReplay` | D2: restart, runner, stop, answers and expiries of a replay |
| `ReferenceSync` | the shared sync of reference data, its joiners, digests and index |
| `KeyRing`, `PassportBook` | the signing keys of several processes; versions and receipts and the sweep |
| `Devices`, `SignedRequests` | the devices of one card; signed requests and their nonces |
| `CallLog` | the log of refused platform calls |
| `AppPolicies`, `AppDecisions` | what the customer's app shows of policies and step-ups, and the answer she taps |
| `MC...` | instances for TLC |
| `...Proofs` | theorems |

An operator whose name ends in `_M` is a mutation of the one below it: a bug
somebody could write there.  The properties are shown to notice it.

### Modules for TLC

Components that share nothing are checked in one run: `MCPolicy`, `MCRules`,
`MCServices`, `MCPassports`, `MCViews`, `MCHandover`, `MCRecovery` and
`MCAnswers` instantiate several components (or one component several times,
with other bounds), and a variable `part` says which of them a behaviour is
about; the others rest in their initial states.  The state space is the
disjoint union of the components', and a property of such a module is the
conjunction of what its parts promise, each under `part = "..."`.  Where a
property of an MC module is proved, the module declares the constants of the
components it is about, and the cfg gives them their values.  In `MCPolicy` two
parts are `PolicyLifecycle` itself, and `scope` says how many cards, runs and
failures each may use of those there are.

### StepUpWorker

`pc`, `cur`, `kind`, `mode`, `body`, `reply` are the polling loop inside
`_handle`, `_decide`, `_post` and their helpers, one action between two awaits.
`eng`, `entry` and `claim` are the engine thread and the overrun claim
(`ClaimedLedger`).  `inside` holds the one task inside `_resolution_lock`: C8,
a timer, a list read or the reconciliation, with the step it stands before.
`ledger`, `saved` are the store; `plat`, `accepted`, `source`, `resolves` the
platform; `sent`, `timers`, `runPending` the process's memory, lost in `Crash`.

* `Poll` delivers a new purchase, one delivered before, or one listed as
  waiting; `StillWaiting`, `Redelivered`, `EngineStarts` are the three ways on.
* `EngineAdmits`, `EngineRecords`, `EngineReturns`, `EngineFails` run beside
  the loop; `Overrun` takes the claim from it or finds it taken.
* `Post`, `PostedNew`, `PostedStored`, `SettleOverrun`, `AwaitAnswer` follow
  the four ways a decision is posted and what the platform said.
* `CustomerAnswers`, `CustomerSend`, `ExpireByTimer`, `ExpireByRead`,
  `ExpireRead`, `ExpireSend`, `ExpireReread`, `Record` are C8 and `expire`.
* `RecoverPending`, `ListAtStart`, `Reconcile...` are the start.

Amounts, explanations, deadlines' values and event checks are left out: a
deadline is passed or not (`due`).

### Decide and SessionLedger

`Decide` takes the findings as sets (results of rules, protections that fired,
strong signs, the number of weak ones, the watch) and returns outcome, step and
session trust as `decide()` computes them, step by step with its early returns.

`SessionLedger` holds one row per purchase, and for each what it was decided
with (`seen`, and those of it the customer had said yes to, `yes`; observations
that no action reads).  `DecideEvent` is the engine thread's view, rules,
`decide()` and record in one step, as the single thread makes it;
`CustomerAnswers` and `TimesOut` are `resolve`.  Purchases arrive in any order
of their simulated time, in two runs and on two cards.  A purchase is a record
of what the ledger's rules tell apart: run, card, time, amount, item, device, a
burst, a doubt, the requested item.

### PolicyLifecycle

`row` (mandates), `plat` (TMs), `bound` (`_policies` of each process), `gone`
(`_revoked`), `expected`, `ctx` (a run's policy), `run` (at the platform, and
who follows it).  `req` is the request that holds `policy_lock` and how far it
is; `d3` the D3 outside of it; `hand` the purchase being decided, with what
customers had been told when it arrived.

* C2: `ConfirmDraft`, `StoreConfirmed`, `EndOld` with `MarkRevoked` and
  `DeleteAtPlatform` for each earlier policy, `BindNew`.
* C4: `TightenPolicy`, `TightenStore`, `TightenBind`.
* C5: `RevokePolicy`, `RevokeStore`, `RevokeBind`, `RevokeFlip`, then the
  marking and the DELETE of `VisecaWorker.revoke`.
* D3 under the card's policy: `CreateRun`, `CheckPlatform`, `Reregister...`,
  `Launch`, `TrackRun`, `MovePolicy`; with the scenario's instruction:
  `ScenarioRun`, `ScenarioLaunch`, then C2's steps, then `TrackRun`.
* Worker: `Receive`, `RestoreRead`, `RestoreBind`, `BindRun`, `Decide`.
* Processes: `StartProcess` (the policies are bound once, in `lifespan`),
  `Lead`, `Crash`.

Kept simple: requests reach the leading process; one D3 at a time; "revoked"
and "superseded" are one ending; ids are given in order, so the id of a
policy's first row stands for its `confirmed_at`; the platform takes a PATCH
for an active mandate only
(`src/vendor/viseca-2026/technical_details.md:372`); a store call that commits
late does so at once, before the request's lock is free; passports are left
out (`reissue_passport` swallows its errors).  The first half of
`worker.revoke`, up to its first await, is one step: the supported Python
(3.12 and later) runs it inside the caller's `wait_for`.  A C5 on a policy that
has ended already promises nothing new.  `EndOld`'s branch for two policies of
one TM needs two D3 at once and is not reached here.

### Documents and devices

`PassportBook` follows one policy: what its row says (`policy`, `facts`), the
versions and the receipts issued, the decisions of its purchases (`dec`), and
for each process the pass of the sweep it is in (`task`) with the rows that
pass has read: a pass reads in one transaction and inserts in another, where a
number or a receipt that is there already makes the insert fail.  `KeyRing`
has the `signing_keys` rows, and for each process the stage of `load` it is at
and what it read before.

`Devices` follows one card.  A request (`req`) starts when the server reads its
clock and `require_device` has found the signer, reads the card's rows
(`ReadRows`) and writes what they call for (`Write`).  The size of `Request` is
the number of requests that may overlap.  `SignedRequests` has the nonces and
the deliveries of signed requests, each with the time it was read at.

### What runs beside the decisions

`WorkerLease` keeps, for each process, its role, the connection that holds the
lock, the timers it armed and the close it is in; `row` and `viseca` are a
step-up in the store and at the platform.  `ReferenceSync` separates what the
platform serves, the tables, the digest a process remembers and the index it
decides with.  `RunRecords` separates the platform's runs, the worker's
(`runs`), their rows, and what progress reads and the feed have in hand.
`OfflineReplay` keeps the replay that is current, the runner tasks and the one
purchase on the ledger's thread.  `AppDecisions` and `AppPolicies` keep the
server's rows, the rows on screen, and the reads and answers under way with
what the server said when it served them.

## 3. The runs

| Run | Instance | Shows |
| --- | --- | --- |
| `worker_one` | 1 purchase, 2 failures, 1 crash, fairness | no stale close; ledger and platform agree; a customer's approval is kept; one /resolve per process; `Purchase` is implemented; everything ends |
| `worker_two` | 2 purchases, 1 failure | the same lock, thread, claim and timer with another purchase in between; while nothing fails both sides hold the same decision |
| `ledger` | 3 purchases, 2 cards, 2 runs, windows of 2 days | money follows answers and fits the windows; repeats, the single item, doubts and the watch; nothing decided changes |
| `policy` | 2 cards, 1 run, 1 failure or crash; 1 card, 2 runs; both with forced D3; drafts, previews, meters | one active policy per card; what a process revoked stays so; what was ended approves nothing; runs follow the rows; readings keep the instruction, previews their word |
| `rules` | `decide()` on all findings with up to 4 weak signs; rules on small ledgers, texts and policies; 3 purchases that teach | the strictest check wins; a worse finding never loosens; more orders, more text and a tightened policy never loosen; a model settles nothing the shop left open; only what was vouched for is known |
| `services` | 2 devices, 2 deliveries; 2 processes with 1 break, 1 crash and 1 failure; 2 replays, one after the other, with 1 failed write; 3 drafts of 2 customers, a tier-2 question and a policy read, on 1 or 2 threads or without a model; 2 runs | a signed request is accepted once; replays keep apart; waits and drafts are bounded; copies agree |
| `passports` | 3 processes, 3 keys; 2 sweeps or 1 crash; 3 devices, 1 or 2 requests at a time | the oldest key stays active; documents stand; a card keeps its devices |
| `views` | 4 reads and 2 changes; 2 step-ups; 2 runs; 2 messages; 3 sightings; 3 refused calls | screens follow the server; rows stand |
| `handover` | 2 processes, 1 break of the lease or 1 failed sync, fairness | what the last holder left is closed; one is left to decide; tables catch up |
| `recovery` | 1 run with 1 failure; 1 change and 1 crash, fairness | rows and documents say in the end what is so |
| `answers` | 2 of each, fairness | whoever waits is answered |
| `policy_takeover` | 2 processes, 1 crash | **violated**: the process that takes over approves under a revoked policy |

`CHECK_DEADLOCK FALSE` stands where the instance ends: every purchase is
decided and closed, every id or key is used, the clock has reached its bound,
or the input enumeration is complete.  `StepUpWorker` never stops: its loop
polls.

Bounds.  `MaxFaults`, `MaxCrashes`, `MaxFailures`, `MaxBreaks` bound lost
replies, failed calls, crashes and broken connections; two failures and a crash
in one purchase's life reach every path of `_handle` and `expire`, and one is
enough for each known disagreement.  Two purchases share every lock and thread
the worker has; a third adds no new sharer.  Three purchases are the least for
a limit crossed by an answer to an earlier one, and for a watch turned on,
answered and asked again.  A model that answers two rules can lose a cap, keep
it twice or ask twice; a history of no, one or two last prices is every case
the code tells apart.  Two cards, two policies and two TMs are the least
for a policy that moved, was superseded at the platform by another card's and
is registered again; the two cards are interchangeable in that part, and so are
the runs, and `SYMMETRY` is declared over both in run `policy`, as over the purchases in run
`ledger` (both runs check safety only).  Two processes are the least for a race
on the store, three keys for one that prunes what two others made.
`MaxTMs`, `MaxMandates`, `MaxTime`, `MaxSeen`, `MaxNumber` bound ids, clocks and
counters, and a run of TLC stops when they are used.  The proofs of section 4
do not depend on any of these bounds.

Fairness.  Every module with a liveness property states its own `Fairness`
beside `FairSpec`, with the reason:

* weak fairness of a step that is ready: asyncio, the executors and the store
  threads run what is ready, and every await of theirs has a time-out
  (`StepUpWorker`, `WorkerLease`, `RunRecords`, `PassportBook`, `Rewrites`,
  `Drafting`, `OfflineReplay`, `ReferenceSync`, `KeyRing`);
* strong fairness of entering a lock or a thread: `asyncio.Lock`,
  `threading.Lock` and the one-thread executors give every waiter its turn, and
  what repeats on a timer (the sweep, a stand-by's attempt at the lease, the
  app's poll, an idle poll) comes again and again;
* of the platform: that it closes what nobody answers (`RunRecords`) and that
  not every reply of a poll is lost (`AppDecisions`);
* never of a customer who answers, an operator, a failure or a crash.

In the MC modules a behaviour is about one part for good, so their
specifications assume only that part's fairness (`[]<>(part = ...)`).

### What the violated run means

A process binds the policies of the store once, when it starts, and may then
stand by for the lease.  `_take_over` follows the unfinished runs but reads no
policy again: after a C5 served by the leading process and that process's
death, the one that stood by approves under its stale copy.
`docs/rules.md:151` and `api/routes_customer.py:644` say that nothing more is
approved.

### Other disagreements met while modelling

These were found with the modules (each as a counterexample of a property that
states the quoted text), and are listed for the team; they have no run.

| Where | What the code does | What is said of it |
| --- | --- | --- |
| `viseca/worker.py:2327` | the engine commits an approval and then raises; the loop posts a decline, the row goes on counting | `docs/rules.md:89` declines never count |
| `viseca/worker.py:2598` | a run waits for a step-up closed before `set_deadline` | `api/routes_dev.py:566` |
| `viseca/worker.py:1287`, `:1462`, `:1320` | two processes decide for up to ten seconds, each may send a /resolve, and one posted late by the old holder is recovered by nobody until a read | `viseca/worker.py:1216`, `:1428`, `:1321` |
| `viseca/worker.py:1598`, `:1585`, `:1736` | the index is reloaded by the sync that changed the tables only; a pack is returned before its sync; a history file is compared with a digest of memory | `docs/architecture.md:75`, `viseca/worker.py:1535`, `:1757` |
| `viseca/worker.py:2681`, `:2669`, `:2801` | a run's row keeps somebody waiting after a restart; a run answered through the stand-by never closes; mismatches in memory are lost behind a stored cursor | `docs/architecture.md:110-112`, `docs/decisions.md:105` |
| `viseca/worker.py:2725`, `:2775` | a rewrite replaces the message of an answered step-up | `docs/rules.md:160` |
| `viseca/worker.py:1514`, `:1318`, `:2074` | a failed first read of the settings leaves runs on the default; a take-over decides with an old window; a policy read waits behind drafts | `viseca/worker.py:1488`, `docs/architecture.md:92`, `:98` |
| `viseca/worker.py:1376`, `:2988`, `:3001` | bindings of two threads, of two sightings, and of a failed commit differ from the newest sighting | `docs/database.md:56` |
| `api/queries.py:322` | D3's move makes an active copy of a policy revoked in between | `docs/rules.md:151` |
| `api/services.py:165` | C4 does not reach a run in flight | `bind_mandate`'s docstring |
| `pipeline.py:158` | all period rules are read over the shortest period | `docs/rules.md:151` T5 |
| `engine/protections.py:203` | one more re-quote of a declined order is approved unasked | `docs/rules.md:100` |
| `engine/tier2.py:236` | a model may pick one of two stated sizes | `docs/rules.md:18` |
| `engine/explain.py:624` | an agent without history is told no bound | `docs/passport.md:223` |
| `compiler/lint.py:170`, `:192`, `:241` | a window is not compared with the instruction; two bounds that exclude each other pass; an id is taken for its clause | `compiler/lint.py:4`, `:11`, `:12` |
| `compiler/dryrun.py:46`, `:52`, `api/policies.py:311` | the preview reads one card's prices, counts a decline as a question, and says "all fit" | `docs/rules.md:79`, `compiler/dryrun.py:50` |
| `passport/devices.py:230`, `:285` | two requests that overlap enrol two first devices, or remove the last two | `passport/devices.py:18-24` |
| `passport/book.py:89`, `:223`, `:413` | a stale pass issues looser terms; the device of an answer is in memory; an operator's run that ends early is not named | `docs/passport.md:152`, `:199` |
| `passport/keys.py:3` | a process signs with a key another has deactivated | `docs/passport.md:30` |
| `api/offline.py:184`, `:226`, `:241` | two D2 replay at once; a C5 misses the run that is starting; a stopped replay leaves a step-up without a timer | docstrings there |
| `api/routes_dev.py:305` | two D3 pass the check for a run in progress | `api/routes_dev.py:279` |
| `api/app.py:130`, `engine/signals.py:231`, `api/services.py:159` | /healthz names a detector that does not decide; an unknown setting stops the server; D5 misses a replay | `api/app.py:31`, `:129`, `api/routes_dev.py:814` |
| `api/services.py:195`, `store/worker_events.py:79` | a call cut by its own bound is not logged; of two refusals the older is shown | `docs/database.md:62`, `docs/architecture.md:178` |
| `frontend/src/state/mergeDecisions.ts:41`, `screens/Approvals/Approvals.tsx:56`, `:274`, `DecisionsProvider.tsx:58` | an answered step-up offers its buttons again; "nothing was approved" after a lost reply; an error state beside decisions | `frontend/src/api/approvals.ts:5`, the comments there |

The one-/resolve claim is in memory, so a restart after a lost answer allows a
second one (`OneResolvePerProcess` counts per process for that reason).  A
crash between the decisions row and the `events_raw` row leaves a pending
step-up that `_recover_pending` does not arm again; a read closes it
(`ReadingCloses`, a part of `EverythingEnds`).  A restore of a policy read
before a C4 may be bound after it.  The properties that are checked are stated
so that they hold of the code as it is; where a promise is kept with one
process or one request at a time only, the property or its part says so.

## 4. The proofs

TLAPS proves, for all constants that meet the modules' assumptions:

| Theorem | Module | Says | Rests on |
| --- | --- | --- | --- |
| `TypeCorrect` | StepUpWorkerProofs | `TypeOK` | `IInv` |
| `NoCloseIsStale` | " | a step-up is closed on what its task read | `LockInv` |
| `CountedOnlyIfApproved`, `ApprovalsAreRecorded` | " | ledger and platform agree on approvals | `PostInv`, `TaskInv` |
| `OneResolve` | " | one /resolve per process | `SendInv` |
| `Refinement` | " | `StepUpWorker` implements `Purchase` | `IInv`; each action is a step of `Purchase` or none |
| `ApprovalSurvivesAFailure` | " | one failure or crash turns no approval into a decline | `ApprovalInv` |
| `OverrunsAgree` | " | while nothing fails, what Viseca took is in the ledger | `MatchInv` |
| `Strictest`, `Monotone` | AnswerProofs | the strictest check wins; worse findings never loosen | `decide()` unfolded |
| `ModelsSettleNothing`, `ModelsReadOnly` | " | tier 2 changes only facts asked for, and reverses no rule but as its facts say; the same of `MCRules` | `ReadInv` |
| `KnownByHerYes`, `VouchedIsKnown` | " | only what the customer vouched for becomes known; the same of `MCRules`, with a history and without | `KnownInv`, `NewlyInv` |
| `PurchasesAreJudged` | " | all of `RulesStand`: waiting orders, yeses, more text, more orders, a rule more, what a declined agent is told | `RulesInv` |
| `ScreensAreTrue`, `CountdownsStand` | " | the app: the signed-in customer's rows; no answer or time nobody gave | `ScreenInv` |
| `ScreenKeepsUp`, `LastReadStays` | " | the app's policies: her change stands; no read goes back | `PolicyInv` |
| `MessagesStand`, `ToldStays` | " | tier 3: facts kept; an answer shown stays shown | `MessageInv` |
| `MoneyIsConsistent`, `Final`, `RepeatsNeverAutomatic`, `BoughtOnce`, `DoubtsConfirmed`, `WatchKept` | SessionLedgerProofs | rows against rows | `IInv` |
| `WithinTheLimit`, `OverspendIsAsked` | " | sums over windows | `LimitInv` |
| `TypeCorrect`, `OneActive`, `RevokedStays` | PolicyLifecycleProofs | types; one active policy per card; what a process revoked stays so | `IInv` |
| `RevokeStops` | " | one process: what was ended approves nothing | `RevokeInv` |
| `RunsAreFollowed` | " | until a failure, a live run goes by an active row | `StoreInv` |
| `RunsFollowRows` | " | one process: both, of the parts of `MCPolicy` | each step there is one of `PolicyLifecycle` |
| `ReadingsKeep` | " | a customer's words: caps stated, nothing dropped unasked, one rule asks | `ReadingInv` |
| `PreviewsKeep` | " | preview, form and meter tell what the engine does | sums do not depend on names or order |
| `TypeCorrect`, `SignedOnce` | ServicesProofs | a signed request is accepted once | `IInv` |
| `BookedIsApproved` | " | two processes or more: booked as approved only if Viseca approved | `LeaseInv` |
| `SeenStaysStored` | " | what a process takes for synced is in the store | `SyncInv` |
| `CopiesAreAlike` | " | all of `CopiesAgree`: lease, reference data, soft signal, settings | `CopiesInv` |
| `ReplayKeepsItsOwn`, `NoneIsForgotten`, `ReplaysKeepToThemselves` | " | the replay of a scenario, D2 one at a time; all of `ReplayKeepsToItself` | `ReplayInv` |
| `WaitsEnd` | " | all of `WaitsAreBounded`: C1's limit, the two queues, a model that hangs | `LimitInv`, `DraftInv` |
| `DoneRunsAreSettled`, `StopsLeaveRows` | RunRecordsProofs | a run's row says what is so: done when nobody waits, the ledger's decisions after a stop | `RunsSound`, `Settled`; `RowsFollow` |
| `MismatchesAreKept`, `AnswersAreNoMismatch` | " | the event feed: what contradicts the ledger is told; an answer under way does not | `FeedRead`; `LeadAnswers` |
| `RunsAreStartedInTurn` | " | D3 one at a time: no run starts beside one with an open purchase | `ClearInv` |
| `OldestKeyStaysActive`, `LoadFindsAKey` | DeviceProofs | the oldest key is never pruned; a start ends with a key | `IInv`, `StagesFindKeys` |
| `RevokedForGood`, `VersionsSaySomething`, `AnswersAreTrue`, `AnsweredOnce` | PassportBookProofs | passports and receipts, any number of processes | `IInv` |
| `NamesTheVersion` | " | one process: a receipt names the version in force | `OrderInv` |
| `ApprovedInOrder` | DeviceProofs | however requests overlap, who lets a device in was let in before | `CardInv` |
| `OneKeyOneDevice`, `LaterDevicesWait`, `RemovedForGood`, `DeviceRemains`, `ControlMovesByHand` | " | one request at a time: the promises of devices.py | `AloneInv` |

**StepUpWorker.**  `IInv` is `TypeOK /\ HandlerInv /\ LockInv /\ SendInv /\
PostInv /\ CountedInv`.  None of the safety invariants is inductive alone: that
the ledger never counts a close Viseca did not make needs to know what the task
inside the lock read before its awaits, and that nobody else closed the row
since (the lock), while the engine may write (only rows not there yet).
`ApprovalInv` follows one customer's approval from Viseca to the row: it is
known to the task on its way to record it, or it is the one failure allowed and
the next task reads it.  `MatchInv` follows an overrun: whoever holds the claim
decides for both sides, and a late engine writes what was posted.

**SessionLedger.**  `IInv` adds what an approval rested on: `seen` and `yes`
are stored rows, and only a purchase with a doubt gave one as its reason.  An
automatic approval is clean with respect to the rows it saw (`ApprovalIsClean`,
from `Decide`), and a row changes afterwards only from pending to closed, so
that what could have become an approval was already counted as one.
`LimitInv` is the same for sums: at every row that counts, what was approved or
waiting in its window with it fits the limit or a customer agreed to more.  The
sums are folds over finite sets; the lemmas about them (empty, one more, a part
of, two sums of one set) are proved from the fold's defining recursion, by a
least counterexample, since the library's induction theorem cannot be
instantiated.

**PolicyLifecycle.**  `IInv` adds where each request can be (`ReqInv`): a
policy on its way to the store has the newest id, which no row has; a policy
being changed has its row; the earlier policies still to be ended in the worker
are ended in the store already, because only the lock's holder writes rows.  It
also ties a D3 to its request and to its run (`D3Inv`), and a run's policy to a
run the platform has started (`LeadInv`).  `RevokeInv` adds what C5 has been
answered with (`ToldInv`), the state of the platform's TMs (`PlatInv`) and who
holds the lock (`LockInv`).  It is stated for one process (`OneProcess`): with
a stand-by the property is false, which is the violated run.  `StoreInv` adds
that every active row leads back to one policy (`OneRoot`), that a run whose
row ended has its ending under way (`EndedInv`, `MoveInv`, `MarkInv`), and that
a policy registered again has a TM of its own (`FreshTM`).  `RunsFollowTheStore`
takes the last of a policy's rows (`LastOf` among `CopiesOf`), since a moved
policy leaves an ended row behind.  `RunsFollowRows` carries both to `MCPolicy`,
whose steps leave the component alone or are steps of it (`PartsAreBounded`).

**Compiler.**  What a draft says is settled when it is made, so `ReadingInv` is
about one draft and the policy confirmed from it, and the work is in what a
reading keeps through its steps (`Reads`).  A rule whose value is not in the
words has a rule it was worked out from (`Traced`): a cap of so many nights one
per item, a cap of a period one over days.  `finalize` drops rules that check
the same, but what is dropped has its like among what stays (`DistinctIs`), so a
source is never lost; that its order is a numbering of the places kept is
`InOrderIs`.  A model's rules come with no source, and get theirs from lint
(`NoIssues`): every amount in the words, every kind the parser read still
there.  A rule asks under the id the parser recorded, and no two rules that ask
have the same stem (`StemsDiffer`), so at most one asks, whoever read the words.

**ModelFacts.**  `ReadInv` says that what is decided on differs from what the
patterns found only in facts that were asked for, and there in one value that
the shop's text states (`ReadFrom`, `Gained`).  Facts only grow from nothing and
least return periods only shrink the set of answers, so a rule that failed
still fails, one that passed still passes unless it asks, and `ModelClosesOnly`
follows rule by rule.  The sums over a purchase's lines are compared by a least
index at which they differ.

**Familiarity.**  `KnownInv`: a purchase approved unasked came from a known
device and from no lookalike shop, and what is known before it was known from
purchases that were approved before it.  So no device becomes free beside one
the customer vouched for, except the first one of an empty history: two free
devices are one (`KnownFree`).  The customer with a history and the one without
differ in what is known at the start; the second is proved by the same lemmas
(`NewlyInv`).

**RuleChecks.**  `RulesInv` says that purchase, policy and ledger have the
shapes the source gives them, that the rules that may be added cover no flag by
allowing more than it does (`Keeps`), and that whatever is remembered was said
(`RemembersYes`).  The rest is one argument per kind of step.  A sentence more
only adds to what a line states: a fact that was read stays or is contradicted,
the least return period shrinks, alcohol that was named stays named
(`BrokenStays`).  An order more makes sums and counts no smaller
(`OrdersTighten`); that a sum over a set has a value that does not depend on the
order of adding is proved first (`SumExists`, `SumWithout`).  A rule more leaves
the results of the others as they were while the window stays (`WindowStays`),
and says what a flag said whose place it takes (`RuleTakesOver`).  An agent that
meets what it was told meets the bound of each rule that failed (`BoundIsMet`),
and each bound is enough for its rule or flag (`RuleOutOfTheWay`,
`FlagOutOfTheWay`).  One bound is not: a last price is that of the shop the
purchase was declined at (`engine/explain.py:534`), so at another shop the same
rule may fail again; `BoundsAreEnough` says so.

**OfflineReplay.**  `ReplayInv`: the run that goes was started last, and its
task is at a stage that says how far the ledger may be ahead of what the run
has counted: by nothing, or, from the engine's decision to the count, by the
next purchase (`AtStage`, `InTurn`).  That the counted purchases are the first
ones needs a fact about sizes of sets (`Prefix`).  A stopped run leaves the
thread one purchase, which `Deciding` ties to it until the next run is
installed.  The promises about timers end with the first fault, as in the code.

**WorkerLease, ReferenceSync.**  `LeaseInv` says of a close in progress that an
"approved" in its hand is Viseca's, and that a step-up is known to the row and
to Viseca from the same step on.  `SyncInv`: only the leader syncs; what it has
read was served after what is stored, so that no table goes back, and the index
is replaced after the tables it was read for.

**Signals, WorkerSettings.**  `LoadInv` says who loads the model: the one that
holds `_load_lock`, once, and what the lifespan took stands afterwards.  The
thread of the pool loads for the job at the head of its queue (`Loading`), so
that what /healthz reports and what answers change in the same step.
`SettingsInv` rests on the order of a start: before the first read of the
settings has landed nothing is followed and no run is bound (`ReadFirst`).
`StartInv` adds, for a process that never loses the lease, that the window in
use, or that of the read under way, is one every followed run may have
(`Followed`).

**Drafting.**  `LimitInv`: the limiter's window is the end of what was accepted,
and what came before it is too old to count.  So the young ones fit the limit,
and when the time a refused customer was told has passed, the first of the
window is too old as well.  `DraftInv` adds that a queue holds each of those
who wait once (`DraftQueues`), how far the job of each asker is (`DraftTurn`),
and, while the executor has a thread for every job it was given, that the age
of a draft is zero or the time its model call has taken (`DraftGoesOn`): a job
in the queue finds a free thread before time passes.  The compiler's wait is
shorter than C1's, so no draft is out of time.  `Withdrawn` and the limiter's
pops are about one place of a sequence; the lemmas say what is left of it
(`TakenBack`, `Suffix`).

**Preview.**  No invariant but the types: the two evaluators are compared on
any past.  The orders the engine is given are the card's approved purchases
under other names, so their sums over a window are equal (`SumMoved`,
`TotalsAgree`; what waits is added to what is spent, `SumJoined`, `SpentIs`),
and rule by rule what is shown as fitting passes and what is shown as a breach
fails (`RuleAgrees`, `FlagAgrees`, `DecidedAs`).  A form's cap is the lowest of
its limits (`CapIsBroken`), the meter's limit the lowest over the shortest period
(`LimitIs`).  The preview's theorem is for one window per draft, since the engine
reads every period over the shortest one, and for the purchases of one card,
since the engine's known shops and last prices are the customer's (section 3).

**The whole of MCServices, MCRules.**  A behaviour is about one part, which
keeps its invariant while it runs; the others rest in their initial states.
`CopiesInv`, `PartsInv` are the conjunctions of the parts' invariants, each
under `part = "..."`.

**RunRecords.**  All five rest on the types, on what the loop has in hand being
followed and held by the one that leads (`FollowsThem`, `OneLead`), and on what
a step can make of one run, one row, the site and the feed (`Moved`, `RowMove`,
`SiteMove`, `FeedMove`).  `DoneRunsAreSettled` needs that a run is over here
only when it is over at Viseca, where nothing opens again, that the purchase in
hand is of a run not over, and that every step-up that waits is waited for or
about to be (`OverHere`, `InHand`, `Waits`); then a row that says done was
written from such a run, and no decision can follow.  `FeedRead` says of every
item the leader has read that it is noted, agrees with the ledger, or is about a
purchase that can never be decided, because what the feed calls final is not
open (`Fed`).  What is in memory goes with a process, so `StopsLeaveRows`
assumes that none dies, `DoneRunsAreSettled` that none stops or dies, and
`MismatchesAreKept` that no decision is late either; `AnswersAreNoMismatch`
assumes that C8 is served by the leader (`~AnswersAnywhere`), and
`RunsAreStartedInTurn` that D3 requests do not overlap.  Section 3's table has
what happens otherwise.

**KeyRing.**  What a process read of the keys stays a part of what is stored,
so the key it keeps is never younger than another it would deactivate; and at
every stage of its start it has, or will find, a key.

**PassportBook.**  `IInv` says that what a pass is about to insert was due when
it was compared, and still is while its number is free (`IssueInv`), and what
the rows it holds say of the decisions.  `OrderInv` orders versions and
decisions in time; two processes break it (a pass of one issues between the
look-up and the insert of the other), so `NamesTheVersion` assumes one.

**Devices.**  `CardInv` holds however requests overlap: times, signers and
approvers, and that a device let in a second time by an overlapping approval is
let in by a request older than everything it has signed (`Again`).  `AloneInv`
is for requests one at a time (`CardRequest = {one}`): what a request read is
what is stored, its signer is enrolled, and one device at most is marked as
controller (`OneMark`), so that `ControllerOf` is determined (`Rightful`).

**AppDecisions, AppPolicies, Rewrites.**  `ScreenInv` says the same of the rows
on screen and of those a read under way will bring: they are the signed-in
customer's (`Mine`), show an answer only if the server has it or she is giving
it (`Honest`), and carry the server's times (`Timed`).  `PolicyInv` orders the
reads: one that still counts was served after every change shown, and the last
that landed has the version on screen.  `MessageInv` follows a text from the
model to the store and to the screen: it repeats the row's facts, and what is
queued to be told agrees with the row.  When another process answers
(`Standby`), or an answer comes while the decision's POST is still retried
(`Early`), a rewrite or a late listener can undo what an answer said, as section
3's table says; the second half of `MessagesStand` assumes neither of them,
`ToldStays` only that no answer is early.

**Assumptions.**  Every hypothesis on a constant is named: `ASSUME`d in the
module that a run extends (`WorkerAssumption`, `LedgerAssumption`,
`UnseenAssumption`, `PolicyAssumption`, `NothingAssumption`, `TimesAssumption`,
`LeaseAssumption`, `KeyRingAssumption`), or assumed in the theorem and, for the
instances of the MC modules, by `Parameters` there (`BookAssumption`,
`DevicesAssumption`, `ReplayAssumption`, `SyncAssumption`, `RunAssumption`,
`AppAssumption`, `PoliciesAssumption`, `RewritesAssumption`, `RuleChecksAssumption`,
`SignalsAssumption`, `SettingsAssumption`, `ModelFactsAssumption`,
`FamiliarityAssumption`, `DraftingAssumption`, `CompilerAssumption`, `PreviewAssumption`); TLC evaluates all of them.  They say that values
standing for "none" are no member of the set they complete, that ids which
break ties are numbers, that bounds are numbers, how the times of signed
requests are related, that the compiler waits shorter than C1 (8 s and 10 s,
`compiler/llm.py`, `api/services.py`), and what the fields of a purchase and of a rule are (a
return period is only ever a least one: that is all the compiler makes), and which
rules a draft, a form and a metered policy have (`Stated`, `OneWindow`, `OnForm`,
`OfLimits`).  `RuleChecksAssumption` takes rules from the vocabulary of
`compiler/draft.py:64` and narrows it: a period has one limit from above, a rule
on alcohol or on recurring billing forbids it (a model may also write a rule
that requires recurring billing, `compiler/llm.py:553`, and shop text could meet
that one), a return period is a least one.  Flags are read off the rules of
their draft (`compiler/draft.py:454`), so a rule that takes the place of a flag
is taken to allow no more than it, and the items a customer asked for are taken
to be ones her policy lets in.  Sets
whose size matters (`Ids`, `Replays`, the drafts and what else shares their
threads) are assumed finite.  `OneProcess` and `CardRequest = {one}` are hypotheses of the theorems
that need them: the container runs one uvicorn process (`Dockerfile`,
`docs/architecture.md:61`), a stand-by exists when a second one is started on
the same store, and `CardRequest = {one}` is the card whose requests do not
overlap, `OneAtATime` (`Overlap <= 1`) the replay that is not started twice at once, `~Standby`
and `~Early` the one process whose customer answers once the decision is posted.  Where those
hypotheses fail the promises do too (section 3).

**Left to TLC.**  Liveness (`EverythingEnds`, `HandedOver`, `RowsCatchUp`,
`EveryoneIsAnswered`) rests on fairness, that is on ENABLED, and is beyond the
prover.
`DocumentsStand`, `CardKeepsItsDevices`, `ScreensFollow` and `RowsStand` are
conjunctions over instances with bounds; what they say of `PassportBook`,
`KeyRing`, `Devices`, `RunRecords`, `AppDecisions`, `AppPolicies` and `Rewrites`
is proved of the components, what they say of `CallLog` and `ScenarioBindings`
is not.

## 5. Not modelled

The words of explanations and prompts, canonical JSON and signatures, the wire
formats of the platform and the model providers, the lexicons, and the grammar
of instructions beyond amounts, windows, counts and prices are functions of
their input or text.  The store's schema and the HTTP shapes keep no state of
their own that decisions read; a transaction is a step of the module that makes
it.  The replay's oracle and matrix are test harnesses over recorded
purchases; challenge data and scripts are fixtures.  Demo controls D1, D2, D4
to D9 are modelled where they touch a component's state (D2 in `OfflineReplay`,
D4 and D7 in `RunRecords`, D5 in `Signals`).

## 6. Plan

1. The worker, the ledger, `decide()` and policies, with their proofs. *(done)*
2. Two processes, documents, devices, replay, sync, rows, drafting, rules,
   compiler and the app. *(done)*
3. Proofs of the money, of T6, of rows followed, of the lease, the documents,
   the devices, the replay, the reference tables, the rows of the runs, the
   feed and the screens. *(done)*
4. Proofs of tier 2, of familiarity, of the soft signal, the settings and the
   waits of drafts, of the compiler's readings, and of
   what `MCServices`, `MCRules` and `MCPolicy` say of the whole, the rules on
   one purchase included. *(done)*
5. Next: `CallLog`, `ScenarioBindings`, and the whole of `MCPassports` and `MCViews`.
