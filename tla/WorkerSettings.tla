--------------------------- MODULE WorkerSettings ---------------------------
(***************************************************************************)
(* The settings the worker takes from the platform (viseca/worker.py       *)
(* _load_settings, refresh_bootstrap, _run_started, start, track_run,      *)
(* _bind_run; api/routes_dev.py D3 and D8).  GET /v1/bootstrap says how    *)
(* long the customer has to answer.  It is read at start, before D3        *)
(* creates a run and D8 lists the catalogue, and in the background when a  *)
(* run is seen first, unless it was just read; by the lease holder only,   *)
(* one read at a time.  A run keeps the window it was bound with, until a  *)
(* read finds another.                                                     *)
(*                                                                         *)
(* One process; what other processes do is in Elsewhere.  A tick is ten    *)
(* seconds, and a read takes less than one.                                *)
(***************************************************************************)
EXTENDS Naturals

CONSTANTS
  Runs,
  Windows,     \* human windows the platform may serve
  Default,     \* DEFAULT_HUMAN_WINDOW_S
  Fresh,       \* BOOTSTRAP_FRESH_S, in ticks
  Failures,    \* which reads may fail: of {"start", "later"}
  Others       \* another process may hold the lease

SettingsAssumption ==
  /\ Fresh \in Nat \ {0} /\ Failures \subseteq {"start", "later"} /\ Others \in BOOLEAN
  /\ Runs # {} /\ Windows # {}

VARIABLES
  served,      \* the window the platform serves
  since,       \* ticks since the platform last served each
  state,       \* "starting", "standby", "polling"
  holder,      \* _holder
  window,      \* human_window_s
  age,         \* ticks since _bootstrap_read_at, or Never
  read,        \* the read under way
  created,     \* runs the platform has
  known,       \* _runs
  rows,        \* unfinished runs in the store
  ctx,         \* the window each run was bound with
  d3,          \* the run D3 is starting
  allowed      \* observed: the windows a run may have

vars == <<served, since, state, holder, window, age, read, created, known, rows, ctx, d3, allowed>>
platform == <<served, since>>
records == <<created, known, rows, ctx, d3, allowed>>

Never == Fresh + 1
NoRead == [at |-> "none", value |-> "none"]
Sent == [at |-> "sent", value |-> "none"]

TypeOK ==
  /\ served \in Windows /\ since \in [Windows -> 0..(Fresh + 2)]
  /\ state \in {"starting", "standby", "polling"} /\ holder \in BOOLEAN
  /\ window \in Windows \cup {Default}
  /\ age \in 0..Never
  /\ read \in [at: {"none", "sent", "answered"}, value: Windows \cup {"none"}]
  /\ known \subseteq created /\ rows \subseteq created /\ created \subseteq Runs
  /\ ctx \in [Runs -> Windows \cup {Default, "none"}] /\ \A r \in Runs \ known : ctx[r] = "none"
  /\ d3 \in [at: {"none", "waits"}, run: Runs]
  /\ allowed \in [Runs -> SUBSET Windows]

Unbound == [r \in Runs |-> "none"]

Started ==
  /\ state' = "starting" /\ holder' = FALSE /\ window' = Default /\ age' = Never
  /\ read' = Sent

Init ==
  /\ served \in Windows /\ since = [w \in Windows |-> IF w = served THEN 0 ELSE Fresh + 2]
  /\ state = "starting" /\ holder = FALSE /\ window = Default /\ age = Never /\ read = Sent
  /\ created = {} /\ known = {} /\ rows = {} /\ ctx = Unbound
  /\ d3 = [at |-> "none", run |-> CHOOSE r \in Runs : TRUE]
  /\ allowed = [r \in Runs |-> {}]

-----------------------------------------------------------------------------
(* The platform *)

Changes(w) ==
  /\ w # served /\ served' = w /\ since' = [since EXCEPT ![w] = 0]
  /\ allowed' = [r \in Runs |-> IF allowed[r] # {} THEN allowed[r] \cup {w} ELSE {}]
  /\ UNCHANGED <<state, holder, window, age, read, created, known, rows, ctx, d3>>

Tick ==
  /\ read.at = "none" /\ state # "starting"
  /\ since' = [w \in Windows |-> IF w = served THEN 0
                                 ELSE IF since[w] > Fresh + 1 THEN since[w] ELSE since[w] + 1]
  /\ age' = IF age >= Fresh THEN age ELSE age + 1
  /\ UNCHANGED <<served, state, holder, window, read, records>>

Answers ==
  /\ read.at = "sent" /\ read' = [at |-> "answered", value |-> served]
  /\ UNCHANGED <<platform, state, holder, window, age, records>>

-----------------------------------------------------------------------------
(* _load_settings.  At the first read that succeeds there is nothing to     *)
(* compare with; a later one that finds a change gives it to every run.     *)

Retimed ==
  IF age # Never /\ read.value # window
    THEN [r \in Runs |-> IF ctx[r] # "none" THEN read.value ELSE "none"]
    ELSE ctx

Lands ==
  /\ read.at = "answered" /\ read' = NoRead
  /\ window' = read.value /\ age' = 0 /\ ctx' = Retimed
  /\ UNCHANGED <<platform, state, holder, created, known, rows, d3, allowed>>

(* A failure keeps the values in use. *)
Fails ==
  /\ read.at # "none" /\ read' = NoRead
  /\ (IF state = "starting" THEN "start" ELSE "later") \in Failures
  /\ UNCHANGED <<platform, state, holder, window, age, records>>

-----------------------------------------------------------------------------
(* start, and the lease *)

(* The lease is tried when the first read is done. *)
TryLease ==
  /\ state = "starting" /\ read.at = "none"
  /\ \/ holder' = TRUE /\ state' = "polling"
     \/ Others /\ state' = "standby" /\ UNCHANGED holder
  /\ UNCHANGED <<platform, window, age, read, records>>

(* The windows a run may have when it is seen first: what the platform has  *)
(* served for the time a read stays fresh, and the tick the read took.      *)
Served == {w \in Windows : since[w] <= Fresh + 1}
SeesFirst(new) ==
  allowed' = [r \in Runs |-> IF r \in new /\ allowed[r] = {} THEN Served ELSE allowed[r]]

(* _take_over follows the runs the store shows as unfinished. *)
TakeOver ==
  /\ state = "standby" /\ holder' = TRUE /\ state' = "polling"
  /\ known' = known \cup rows /\ SeesFirst(rows)
  /\ UNCHANGED <<platform, window, age, read, created, rows, ctx, d3>>

StepDown ==
  /\ Others /\ state = "polling" /\ holder' = FALSE /\ state' = "standby"
  /\ UNCHANGED <<platform, window, age, read, records>>

(* Another process leads: it may start a run, or bind one and store its row. *)
Elsewhere(r) ==
  /\ ~holder /\ Others
  /\ created' = created \cup {r} /\ rows' \in {rows, rows \cup {r}} /\ <<created, rows>>' # <<created, rows>>
  /\ UNCHANGED <<platform, state, holder, window, age, read, known, ctx, d3, allowed>>

Restart ==
  /\ Started
  /\ known' = {} /\ ctx' = Unbound /\ d3' = [d3 EXCEPT !.at = "none"]
  /\ allowed' = [r \in Runs |-> {}]
  /\ UNCHANGED <<platform, created, rows>>

-----------------------------------------------------------------------------
(* refresh_bootstrap: the holder reads; a read under way is joined. *)
refresh_bootstrap == read' = IF holder /\ read.at = "none" THEN Sent ELSE read

(* D8. *)
list_scenarios ==
  /\ state # "starting" /\ refresh_bootstrap /\ read' # read
  /\ UNCHANGED <<platform, state, holder, window, age, records>>

(* A run seen for the first time. *)
_run_started == IF age < Fresh THEN UNCHANGED read ELSE refresh_bootstrap

(* D3 waits for the read, creates the run, and the worker follows it. *)
create_run(r) ==
  /\ d3.at = "none" /\ r \notin created /\ state # "starting"
  /\ d3' = [at |-> "waits", run |-> r] /\ refresh_bootstrap
  /\ UNCHANGED <<platform, state, holder, window, age, created, known, rows, ctx, allowed>>

track_run ==
  /\ d3.at = "waits" /\ read.at = "none" /\ d3.run \notin created
  /\ d3' = [d3 EXCEPT !.at = "none"]
  /\ created' = created \cup {d3.run} /\ known' = known \cup {d3.run}
  /\ SeesFirst({d3.run}) /\ _run_started
  /\ UNCHANGED <<platform, state, holder, window, age, rows, ctx>>

(* The first request of a run, and, after the reference data of its ids     *)
(* were looked up, its binding.                                             *)
Arrives(r) ==
  /\ holder /\ r \in created \ known
  /\ known' = known \cup {r} /\ SeesFirst({r}) /\ _run_started
  /\ UNCHANGED <<platform, state, holder, window, age, created, rows, ctx, d3>>

_bind_run(r) ==
  /\ holder /\ r \in known /\ ctx[r] = "none"
  /\ ctx' = [ctx EXCEPT ![r] = window] /\ rows' = rows \cup {r}
  /\ UNCHANGED <<platform, state, holder, window, age, read, created, known, d3, allowed>>

Next ==
  \/ \E w \in Windows : Changes(w)
  \/ Tick \/ Answers \/ Lands \/ Fails
  \/ TryLease \/ TakeOver \/ StepDown \/ Restart
  \/ list_scenarios \/ track_run
  \/ \E r \in Runs : Elsewhere(r) \/ create_run(r) \/ Arrives(r) \/ _bind_run(r)

Spec == Init /\ [][Next]_vars

-----------------------------------------------------------------------------
(* _load_settings: a value that changed since the last read is used from    *)
(* then on, in every run.  No run is left with another window than the one  *)
(* in force, whatever the order of reads, changes and bindings.             *)
OneWindow == \A r \in Runs : ctx[r] \in {"none", window}

(* docs/decisions.md: every run start re-reads the bootstrap.  With no read *)
(* under way, a bound run has a window the platform has served since        *)
(* shortly before the run was seen.                                         *)
WindowOfItsStart == read.at = "none" => \A r \in Runs : ctx[r] \in allowed[r] \cup {"none"}

=============================================================================
