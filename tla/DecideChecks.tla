---------------------------- MODULE DecideChecks ----------------------------
(***************************************************************************)
(* Decide.tla over all its inputs.  A state is one purchase's findings     *)
(* under one uncertainty setting; a step makes one finding worse, or the   *)
(* setting stricter.  So the states are all the inputs, and a step is the  *)
(* comparison of two of them.                                              *)
(***************************************************************************)
EXTENDS Decide

CONSTANT MaxWeak  \* bound: weak signs on one purchase

ASSUME ChecksAssumption == MaxWeak \in Nat

VARIABLES in, setting

vars == <<in, setting>>

Init ==
    /\ in = [authority |-> "active", rules |-> {}, protections |-> {},
             strong |-> {}, weak |-> 0, soft |-> FALSE, watch |-> FALSE]
    /\ setting = "approve"

AuthorityDoubted ==
    /\ in.authority = "active"
    /\ in' = [in EXCEPT !.authority = "unsure"] /\ UNCHANGED setting

AuthorityLost ==
    /\ in.authority = "unsure"
    /\ in' = [in EXCEPT !.authority = "inactive"] /\ UNCHANGED setting

RuleTurns(o) ==
    /\ o \in RuleOutcomes \ in.rules
    /\ in' = [in EXCEPT !.rules = @ \cup {o}] /\ UNCHANGED setting

ProtectionTriggers(o) ==
    /\ o \in ProtectionOutcomes \ in.protections
    /\ in' = [in EXCEPT !.protections = @ \cup {o}] /\ UNCHANGED setting

StrongSignTriggers(w) ==
    /\ w \in StrongSigns \ in.strong
    /\ in' = [in EXCEPT !.strong = @ \cup {w}] /\ UNCHANGED setting

WeakSignTriggers ==
    /\ in.weak < MaxWeak
    /\ in' = [in EXCEPT !.weak = @ + 1] /\ UNCHANGED setting

SoftSignalAsks ==
    /\ ~in.soft
    /\ in' = [in EXCEPT !.soft = TRUE] /\ UNCHANGED setting

WatchTurnsOn ==
    /\ ~in.watch
    /\ in' = [in EXCEPT !.watch = TRUE] /\ UNCHANGED setting

SettingTightens ==
    /\ \/ setting = "approve" /\ setting' = "ask"
       \/ setting = "ask" /\ setting' = "decline"
    /\ UNCHANGED in

Next ==
    \/ AuthorityDoubted \/ AuthorityLost
    \/ (\E o \in RuleOutcomes : RuleTurns(o))
    \/ (\E o \in ProtectionOutcomes : ProtectionTriggers(o))
    \/ (\E w \in StrongSigns : StrongSignTriggers(w))
    \/ WeakSignTriggers \/ SoftSignalAsks \/ WatchTurnsOn \/ SettingTightens

Spec == Init /\ [][Next]_vars

-----------------------------------------------------------------------------
(* Properties *)

TypeOK == in \in Findings(MaxWeak) /\ setting \in Settings

Severity(outcome) ==
    IF outcome = "decline" THEN 2 ELSE IF outcome = "step_up" THEN 1 ELSE 0

Outcome == Decision(in, setting).outcome

(* What each check would have decided alone. *)
OnAuthority ==
    IF in.authority = "inactive" THEN "decline"
    ELSE IF in.authority = "active" THEN "approve"
    ELSE IF setting = "decline" THEN "decline" ELSE "step_up"
OnBroken == IF "fail" \in in.rules THEN "decline" ELSE "approve"
OnReserved == IF "reserved" \in in.rules THEN "step_up" ELSE "approve"
OnUnknown ==
    IF "unknown" \notin in.rules \/ setting = "approve" THEN "approve"
    ELSE IF setting = "ask" THEN "step_up" ELSE "decline"
OnProtections ==
    IF "decline" \in in.protections THEN "decline"
    ELSE IF in.protections # {} THEN "step_up" ELSE "approve"
OnSigns ==
    IF in.strong # {} \/ in.weak > 1 \/ in.soft \/ in.watch
    THEN "step_up" ELSE "approve"

Demands ==
    {OnAuthority, OnBroken, OnReserved, OnUnknown, OnProtections, OnSigns}

(* P4, "the most restrictive result wins": the early returns of decide()   *)
(* never let a check that came first hide a stricter one that comes later. *)
MostRestrictiveWins ==
    /\ Outcome \in Demands
    /\ \A d \in Demands : Severity(d) <= Severity(Outcome)

(* P3 to P5: one more adverse finding, or a stricter setting, never turns  *)
(* a decision into a more lenient one.                                     *)
NeverLoosens == [][Severity(Outcome') >= Severity(Outcome)]_vars

=============================================================================
