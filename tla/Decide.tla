------------------------------- MODULE Decide -------------------------------
(***************************************************************************)
(* The decision step of the engine (engine/decide.py): what the results of *)
(* the rules, the protections, the warning signs and the session watch     *)
(* make of one purchase.  A pure function, as in the source.               *)
(*                                                                         *)
(* A finding record says what the checks before it found:                  *)
(*   authority   step-1 checks: all pass, one fails, or one is not known   *)
(*   rules       outcomes other than "pass" among the customer's rules;    *)
(*               "reserved" is a period rule that fails only because of    *)
(*               amounts still waiting for an answer (RESERVATION_ONLY)    *)
(*   protections outcomes of the triggered protections; "bought" is A8     *)
(*   strong      the triggered strong signs (W1 new device, W2 burst)      *)
(*   weak        how many weak signs triggered                             *)
(*   soft        a soft signal asks                                        *)
(*   watch       LedgerView.frozen: the session watch is on                *)
(*                                                                         *)
(* An operator whose name ends in _M is a mutation of the one after it.    *)
(***************************************************************************)
EXTENDS Naturals, FiniteSets

Settings == {"ask", "decline", "approve"}
RuleOutcomes == {"fail", "reserved", "unknown"}
ProtectionOutcomes == {"decline", "ask", "bought"}
StrongSigns == {"W1", "W2"}

Findings(maxWeak) ==
    [authority : {"active", "inactive", "unsure"},
     rules : SUBSET RuleOutcomes,
     protections : SUBSET ProtectionOutcomes,
     strong : SUBSET StrongSigns,
     weak : 0..maxWeak,
     soft : BOOLEAN,
     watch : BOOLEAN]

Verdict(outcome, step) == [outcome |-> outcome, step |-> step]

(* A check of step 4 that could not be made. *)
Unsure(in) == in.authority = "unsure" \/ "unknown" \in in.rules

(* Step 4 asks: an unknown follows the setting, an unknown step-1 check and *)
(* a limit broken by reservations alone always ask. *)
AsksAt4_M(in, setting) == setting = "ask" /\ (Unsure(in) \/ "reserved" \in in.rules)
AsksAt4(in, setting) ==
    \/ "reserved" \in in.rules
    \/ in.authority = "unsure"
    \/ "unknown" \in in.rules /\ setting = "ask"

(* W-rules 1 and 2: one strong sign, or two weak ones. *)
Suspicious_M(in) == IF in.strong # {} THEN TRUE ELSE in.weak = 2 \/ in.soft
Suspicious(in) == in.strong # {} \/ in.weak >= 2 \/ in.soft

(* The first step that applies decides. *)
Decision(in, setting) ==
    IF in.authority = "inactive"          THEN Verdict("decline", 1)
    ELSE IF "fail" \in in.rules           THEN Verdict("decline", 2)
    ELSE IF "decline" \in in.protections  THEN Verdict("decline", 3)
    ELSE IF Unsure(in) /\ setting = "decline" THEN Verdict("decline", 4)
    ELSE IF AsksAt4(in, setting)          THEN Verdict("step_up", 4)
    ELSE IF in.protections # {}           THEN Verdict("step_up", 5)
    ELSE IF Suspicious(in) \/ in.watch    THEN Verdict("step_up", 6)
    ELSE IF "unknown" \in in.rules        THEN Verdict("approve", 4)
    ELSE Verdict("approve", 7)

(* _session_trust: a new device in a burst freezes the session, and so does *)
(* a watch that is still on. *)
Trust(in) ==
    IF in.strong = {"W1", "W2"} \/ in.watch THEN "frozen"
    ELSE IF in.strong # {} THEN "elevated" ELSE "normal"

=============================================================================
