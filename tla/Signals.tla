------------------------------- MODULE Signals -------------------------------
(***************************************************************************)
(* The soft signal of a decision: engine/signals.py with its model (Laya), *)
(* loaded once beside the decisions and asked on a pool of one thread, the *)
(* switch over it (D5; Services.models_enabled) and what /healthz says of  *)
(* it.  Live purchases are decided on the worker's engine thread, those of *)
(* a replay on the replay's; both share one detector.                      *)
(*                                                                         *)
(* Of a purchase's lines only two facts count: whether the keywords flag   *)
(* one, and whether one is left for the model to read.  Time is left out:  *)
(* a wait for the model may run out at any moment, and the model may never *)
(* load and never answer.                                                  *)
(***************************************************************************)
EXTENDS Naturals, Sequences, FiniteSets

CONSTANTS
  Live, Replayed, \* purchases of a live run, and of a replay
  Settings,       \* what ONEGUARD_SOFT_SIGNALS may be set to
  MaxSwitches     \* bound on uses of D5 and D2

SignalsAssumption == MaxSwitches \in Nat

VARIABLES
  setting, facts, \* the environment: the setting, and what purchases are
  process,        \* "down", "up", or "failed" to start
  models,         \* models_enabled: D5, or "unset"
  loading, loaded,\* model_loading, model_loaded
  startup,        \* the lifespan's thread that warms the model
  tried, predict, \* LayaSignals: a load was begun; the model is set
  lock, loads,    \* _load_lock; loads begun
  pool, thread,   \* _pool: jobs waiting, and where its one thread is
  replayOn,       \* signals_enabled of the replay in progress
  at, score,      \* where each decision is; the model's answer to it
  signal,         \* what the soft signal says of it
  switches

laya == <<tried, predict, lock, loads>>
shown == <<loading, loaded>>
deciding == <<at, score, signal>>
vars == <<setting, facts, process, models, shown, startup, laya, pool, thread,
          replayOn, deciding, switches>>

Purchase == Live \cup Replayed
Jobs == Purchase \cup {"warm"}
Nobody == "nobody"

TypeOK ==
  /\ setting \in Settings
  /\ facts \in [Purchase -> [flagged: BOOLEAN, left: BOOLEAN]]
  /\ process \in {"down", "up", "failed"} /\ models \in {"unset", "on", "off"}
  /\ loading \in BOOLEAN /\ loaded \in BOOLEAN
  /\ startup \in {"none", "lock", "load", "set", "done"}
  /\ tried \in BOOLEAN /\ predict \in BOOLEAN /\ loads \in Nat
  /\ lock \in {Nobody, "startup", "pool"}
  /\ pool \in Seq(Jobs) /\ thread \in {"idle", "load"}
  /\ replayOn \in BOOLEAN
  /\ at \in [Purchase -> {"idle", "waits", "done"}]
  /\ score \in [Purchase -> {"none", "low", "high", "broken"}]
  /\ signal \in [Purchase -> {"none", "quiet", "triggered"}]
  /\ switches \in 0..MaxSwitches

Init ==
  /\ setting \in Settings
  /\ facts \in [Purchase -> [flagged: BOOLEAN, left: BOOLEAN]]
  /\ process = "down" /\ models = "unset" /\ loading = FALSE /\ loaded = FALSE
  /\ startup = "none" /\ tried = FALSE /\ predict = FALSE /\ lock = Nobody /\ loads = 0
  /\ pool = <<>> /\ thread = "idle" /\ replayOn = FALSE
  /\ at = [p \in Purchase |-> "idle"]
  /\ score = [p \in Purchase |-> "none"]
  /\ signal = [p \in Purchase |-> "none"]
  /\ switches = 0

-----------------------------------------------------------------------------
(* What the setting means: to the app, and to the detector itself. *)

Known == {"off", "keywords", "laya"}

signals_backend == CASE setting = "unset" -> "off"
                     [] setting \in Known -> setting
                     [] OTHER -> "keywords"

select_backend == IF setting = "unset" THEN "keywords" ELSE setting

live_models == IF models = "unset" THEN signals_backend # "off" ELSE models = "on"

replay_models == models = "on"

(* The detector that answers a decision now. *)
Detector == IF select_backend = "laya" /\ ~predict THEN "keywords" ELSE select_backend

-----------------------------------------------------------------------------
(* The process and its operator. *)

(* The engine's modules are imported first: a value the detector does not  *)
(* know is an error there.  Then the lifespan, which loads the model in a  *)
(* thread of its own.                                                      *)
Start ==
  /\ process = "down"
  /\ \/ /\ select_backend \notin Known
        /\ process' = "failed"
        /\ UNCHANGED <<loading, startup>>
     \/ /\ select_backend \in Known
        /\ process' = "up"
        /\ loading' = (signals_backend = "laya")
        /\ startup' = IF signals_backend = "laya" THEN "lock" ELSE "none"
  /\ UNCHANGED <<setting, facts, models, loaded, laya, pool, thread, replayOn, deciding, switches>>

(* D5: live runs follow at once (set_models writes every run's context). *)
soft_signals ==
  /\ process = "up" /\ switches < MaxSwitches
  /\ models' \in {"on", "off"}
  /\ switches' = switches + 1
  /\ UNCHANGED <<setting, facts, process, shown, startup, laya, pool, thread, replayOn, deciding>>

(* D2: the replay's context takes the switch as it is now. *)
Restart ==
  /\ process = "up" /\ switches < MaxSwitches
  /\ \A p \in Replayed : at[p] = "idle"
  /\ replayOn' = replay_models
  /\ switches' = switches + 1
  /\ UNCHANGED <<setting, facts, process, models, shown, startup, laya, pool, thread, deciding>>

-----------------------------------------------------------------------------
(* The model: warm(), from the startup's thread and from the pool's. *)

(* The value warm() returns to the lifespan, which keeps it for /healthz. *)
Reported(ready) ==
  /\ startup' = "done" /\ loading' = FALSE /\ loaded' = ready

(* with _load_lock: whoever finds nothing tried loads, ...                 *)
Begins(t) ==
  /\ lock = Nobody /\ ~tried
  /\ lock' = t /\ tried' = TRUE /\ loads' = loads + 1

(* ... the next one waits at the lock and finds what came of it. *)
Finds == lock = Nobody /\ tried /\ UNCHANGED <<tried, lock, loads>>

StartupWarms ==
  /\ startup = "lock"
  /\ \/ Begins("startup") /\ startup' = "load" /\ UNCHANGED shown
     \/ Finds /\ Reported(predict)
  /\ UNCHANGED <<setting, facts, process, models, predict, pool, thread, replayOn, deciding, switches>>

StartupLoaded ==
  /\ startup = "load"
  /\ predict' \in BOOLEAN
  /\ startup' = "set" /\ lock' = Nobody
  /\ UNCHANGED <<setting, facts, process, models, shown, tried, loads, pool, thread, replayOn, deciding, switches>>

(* The thread has come back to the lifespan's task. *)
StartupReports ==
  /\ startup = "set" /\ Reported(predict)
  /\ UNCHANGED <<setting, facts, process, models, laya, pool, thread, replayOn, deciding, switches>>

PoolWarms ==
  /\ thread = "idle" /\ pool # <<>> /\ Head(pool) = "warm"
  /\ \/ Begins("pool") /\ thread' = "load" /\ UNCHANGED pool
     \/ Finds /\ pool' = Tail(pool) /\ UNCHANGED thread
  /\ UNCHANGED <<setting, facts, process, models, shown, startup, predict, replayOn, deciding, switches>>

PoolLoaded ==
  /\ thread = "load"
  /\ predict' \in BOOLEAN
  /\ lock' = Nobody /\ thread' = "idle" /\ pool' = Tail(pool)
  /\ UNCHANGED <<setting, facts, process, models, shown, startup, tried, loads, replayOn, deciding, switches>>

(* _ask_all: the model's scores, whether or not anybody still waits. *)
PoolAnswers ==
  /\ thread = "idle" /\ pool # <<>> /\ Head(pool) \in Purchase
  /\ \E s \in {"low", "high", "broken"} : score' = [score EXCEPT ![Head(pool)] = s]
  /\ pool' = Tail(pool)
  /\ UNCHANGED <<setting, facts, process, models, shown, startup, laya, thread, replayOn, at, signal, switches>>

-----------------------------------------------------------------------------
(* A decision. *)

KeywordSignals(p) == IF facts[p].flagged THEN "triggered" ELSE "quiet"

(* What stands once the model has answered: it adds, and clears nothing. *)
Combined(p, s) ==
  IF s = "high" THEN "triggered" ELSE KeywordSignals(p)

Says(p, s) ==
  /\ at' = [at EXCEPT ![p] = "done"]
  /\ signal' = [signal EXCEPT ![p] = s]

signals_enabled(p) == IF p \in Live THEN live_models ELSE replayOn

(* soft_signals of a purchase.  The job it leaves to the pool is the model *)
(* to ask, or the load nobody has begun.                                   *)
Decide(p) ==
  /\ process = "up" /\ at[p] = "idle"
  /\ \/ /\ ~signals_enabled(p) \/ select_backend = "off"
        /\ Says(p, "none") /\ UNCHANGED pool
     \/ /\ signals_enabled(p) /\ Detector = "keywords"
        /\ Says(p, KeywordSignals(p))
        /\ pool' = IF select_backend = "laya" /\ ~tried THEN Append(pool, "warm") ELSE pool
     \/ /\ signals_enabled(p) /\ Detector = "laya"
        /\ \/ Says(p, KeywordSignals(p)) /\ UNCHANGED pool    \* no line left, or no time
           \/ /\ facts[p].left
              /\ at' = [at EXCEPT ![p] = "waits"]
              /\ pool' = Append(pool, p)
              /\ UNCHANGED signal
  /\ UNCHANGED <<setting, facts, process, models, shown, startup, laya, thread, replayOn, score, switches>>

Answered(p) ==
  /\ at[p] = "waits" /\ score[p] # "none"
  /\ Says(p, Combined(p, score[p]))
  /\ UNCHANGED <<setting, facts, process, models, shown, startup, laya, pool, thread, replayOn, score, switches>>

(* The budget is spent: the keywords' answer; the job stays in the pool. *)
OutOfTime(p) ==
  /\ at[p] = "waits"
  /\ Says(p, KeywordSignals(p))
  /\ UNCHANGED <<setting, facts, process, models, shown, startup, laya, pool, thread, replayOn, score, switches>>

Next ==
  \/ Start \/ soft_signals \/ Restart
  \/ StartupWarms \/ StartupLoaded \/ StartupReports
  \/ PoolWarms \/ PoolLoaded \/ PoolAnswers
  \/ \E p \in Purchase : Decide(p) \/ Answered(p) \/ OutOfTime(p)

Spec == Init /\ [][Next]_vars

-----------------------------------------------------------------------------
(* warm: the model is loaded at most once, by the startup's thread or for  *)
(* the first decision that found nobody had begun.                         *)
LoadedOnce == loads <= 1

(* _load_signals_model keeps /healthz truthful: once it has ended, the     *)
(* model it reports is the one that answers, whoever loaded it.            *)
HealthTruthful == startup = "done" => loaded = predict /\ ~loading

(* LayaSignals: with the signal on, what the keywords flag is flagged,     *)
(* whatever the model answers, and when.                                   *)
KeywordsStand ==
  \A p \in Purchase : facts[p].flagged => signal[p] # "quiet"

=============================================================================
