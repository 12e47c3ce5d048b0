---------------------------- MODULE AnswerProofs ----------------------------
(***************************************************************************)
(* What decide() promises, for every number of weak signs: the most        *)
(* restrictive check wins, and nothing adverse ever loosens a decision.    *)
(* And what becomes of an answer in the app: the step-ups and policies on  *)
(* the customer's screen, for any reads, replies and times, and the        *)
(* messages a model rewrites, for any decisions and threads.  Then what a  *)
(* model's answer may settle about a purchase (tier 2), and which shops    *)
(* and devices the customer's approvals make known, for any purchases,     *)
(* policies, answers, devices and settings.  Last, what the rules make of  *)
(* a purchase, for any policy and ledger, and what may happen to them.     *)
(***************************************************************************)
EXTENDS MCRules, Sequences, FiniteSetTheorems, WellFoundedInduction, TLAPS

(* Every step keeps the findings and the setting within their types. *)
LEMMA TypePreserved ==
    ASSUME TypeOK, [Next]_vars
    PROVE  TypeOK'
<1> USE ChecksAssumption DEF TypeOK, Findings, Settings
<1>1. CASE AuthorityDoubted BY <1>1 DEF AuthorityDoubted
<1>2. CASE AuthorityLost BY <1>2 DEF AuthorityLost
<1>3. ASSUME NEW o \in RuleOutcomes, RuleTurns(o) PROVE TypeOK'
  BY <1>3 DEF RuleTurns
<1>4. ASSUME NEW o \in ProtectionOutcomes, ProtectionTriggers(o) PROVE TypeOK'
  BY <1>4 DEF ProtectionTriggers
<1>5. ASSUME NEW w \in StrongSigns, StrongSignTriggers(w) PROVE TypeOK'
  BY <1>5 DEF StrongSignTriggers
<1>6. CASE WeakSignTriggers BY <1>6 DEF WeakSignTriggers
<1>7. CASE SoftSignalAsks BY <1>7 DEF SoftSignalAsks
<1>8. CASE WatchTurnsOn BY <1>8 DEF WatchTurnsOn
<1>9. CASE SettingTightens BY <1>9 DEF SettingTightens
<1>10. CASE UNCHANGED vars BY <1>10 DEF vars
<1> QED
  BY <1>1, <1>2, <1>3, <1>4, <1>5, <1>6, <1>7, <1>8, <1>9, <1>10 DEF Next

(* The findings stay within their types (the inputs of decide()). *)
THEOREM TypeCorrect == Spec => []TypeOK
<1>1. Init => TypeOK
  BY ChecksAssumption DEF Init, TypeOK, Findings, Settings
<1> QED BY <1>1, TypePreserved, PTL DEF Spec

(* Whatever the findings and the setting, decide() returns the most        *)
(* restrictive of what its checks demand (P4).                             *)
LEMMA TakesTheStrictest ==
    ASSUME TypeOK
    PROVE  MostRestrictiveWins
<1> USE ChecksAssumption DEF TypeOK, Findings, Settings, Demands, OnAuthority,
        OnBroken, OnReserved, OnUnknown, OnProtections, OnSigns, Outcome,
        Decision, Verdict, Unsure, AsksAt4, Suspicious
<1>1. Outcome \in Demands
  OBVIOUS
<1>2. ASSUME NEW d \in Demands
      PROVE  Severity(d) <= Severity(Outcome)
  BY DEF Severity
<1> QED BY <1>1, <1>2 DEF MostRestrictiveWins

(* The most restrictive result wins (P4), for every input of decide(). *)
THEOREM Strictest == Spec => []MostRestrictiveWins
BY TypeCorrect, TakesTheStrictest, PTL

(* One adverse finding more, or a stricter setting, never makes the        *)
(* decision more lenient.                                                  *)
LEMMA OneStepLoosensNothing ==
    ASSUME TypeOK, [Next]_vars
    PROVE  Severity(Outcome') >= Severity(Outcome)
<1> USE ChecksAssumption DEF TypeOK, Findings, Settings, Outcome, Severity,
        Decision, Verdict, Unsure, AsksAt4, Suspicious
<1>1. CASE AuthorityDoubted BY <1>1 DEF AuthorityDoubted
<1>2. CASE AuthorityLost BY <1>2 DEF AuthorityLost
<1>3. ASSUME NEW o \in RuleOutcomes, RuleTurns(o)
      PROVE  Severity(Outcome') >= Severity(Outcome)
  BY <1>3 DEF RuleTurns
<1>4. ASSUME NEW o \in ProtectionOutcomes, ProtectionTriggers(o)
      PROVE  Severity(Outcome') >= Severity(Outcome)
  BY <1>4 DEF ProtectionTriggers
<1>5. ASSUME NEW w \in StrongSigns, StrongSignTriggers(w)
      PROVE  Severity(Outcome') >= Severity(Outcome)
  BY <1>5 DEF StrongSignTriggers
<1>6. CASE WeakSignTriggers BY <1>6 DEF WeakSignTriggers
<1>7. CASE SoftSignalAsks BY <1>7 DEF SoftSignalAsks
<1>8. CASE WatchTurnsOn BY <1>8 DEF WatchTurnsOn
<1>9. CASE SettingTightens BY <1>9 DEF SettingTightens
<1>10. CASE UNCHANGED vars BY <1>10 DEF vars
<1> QED
  BY <1>1, <1>2, <1>3, <1>4, <1>5, <1>6, <1>7, <1>8, <1>9, <1>10 DEF Next

(* P3 to P5: no adverse finding and no stricter setting ever loosens a     *)
(* decision, for every number of weak signs.                               *)
THEOREM Monotone == Spec => NeverLoosens
BY TypeCorrect, OneStepLoosensNothing, PTL DEF Spec, NeverLoosens

-----------------------------------------------------------------------------
(***************************************************************************)
(* The step-ups on the customer's screen (AppDecisions), for any step-ups, *)
(* reads, answers and times.                                               *)
(***************************************************************************)
CONSTANTS Hers, His, Reads, Calls, MaxTime, MaxTaps, Looks, Losses

VARIABLES
  server, now, signedInAs, rows, status, started, reads, calls, resolving, failed, taps, answered

Screen == INSTANCE AppDecisions

ScreenType ==
    /\ server \in [Screen!StepUp -> Screen!Row] /\ now \in 0..MaxTime
    /\ signedInAs \in Screen!Customer
    /\ rows \in [Screen!StepUp -> Screen!Row]
    /\ reads \in [Reads -> Screen!Read]
    /\ calls \in [Calls -> Screen!Call \cup {Screen!NoCall}]

(* A row is the signed-in customer's; it shows no answer but the server's, *)
(* and when it waits it has a deadline.                                    *)
Mine(row, d) == row # Screen!None => Screen!Owner(d) = signedInAs
Honest(row, d) == row.st \in {"approved", "declined"} => server[d].st = row.st
Timed(row) == row.st = "pending" => row.due # 0

(* So are the rows a read will bring; an answer that was taken is the      *)
(* server's.                                                               *)
ScreenInv ==
    /\ ScreenType
    /\ \A d \in Screen!StepUp :
         Mine(rows[d], d) /\ Honest(rows[d], d) /\ Timed(rows[d]) /\ Timed(server[d])
    /\ \A r \in Reads, d \in Screen!StepUp : reads[r].at = "served" =>
         Mine(reads[r].seen[d], d) /\ Honest(reads[r].seen[d], d) /\ Timed(reads[r].seen[d])
    /\ \A c \in Calls :
         /\ calls[c].at # "idle" => calls[c].on \in Screen!StepUp
         /\ calls[c].at = "taken" => server[calls[c].on].st = calls[c].answer

-----------------------------------------------------------------------------
LEMMA Empty ==
    ASSUME Screen!AppAssumption
    PROVE  /\ Screen!None \in Screen!Row /\ Screen!Nothing \in [Screen!StepUp -> Screen!Row]
           /\ Screen!NoRead \in Screen!Read /\ Screen!NoRead.at = "idle" /\ Screen!NoCall.at = "idle"
           /\ Screen!None.st = "none" /\ \A d \in Screen!StepUp : Screen!Nothing[d] = Screen!None
<1>1. Screen!None \in Screen!Row /\ Screen!None.st = "none"
    BY DEF Screen!None, Screen!Row, Screen!AppAssumption
<1>2. Screen!Nothing \in [Screen!StepUp -> Screen!Row] /\ \A d \in Screen!StepUp : Screen!Nothing[d] = Screen!None
    BY <1>1 DEF Screen!Nothing
<1>3. Screen!NoRead \in Screen!Read /\ Screen!NoRead.at = "idle"
    BY <1>2 DEF Screen!NoRead, Screen!Read
<1> QED
    BY <1>1, <1>2, <1>3 DEF Screen!NoCall

LEMMA ScreenInitially ==
    ASSUME Screen!AppAssumption, Screen!Init
    PROVE  ScreenInv
<1>1. ScreenType
    BY Empty, SMT DEF Screen!Init, ScreenType, Screen!AppAssumption
<1>2. \A d \in Screen!StepUp : rows[d] = Screen!None /\ server[d] = Screen!None
    BY Empty DEF Screen!Init
<1>3. (\A r \in Reads : reads[r].at = "idle") /\ (\A c \in Calls : calls[c].at = "idle")
    BY Empty DEF Screen!Init
<1> QED
    BY <1>1, <1>2, <1>3, Empty DEF ScreenInv, Mine, Honest, Timed

(* The server moves on: what is settled stays. *)
LEMMA ServerKeeps ==
    ASSUME ScreenInv, UNCHANGED <<now, signedInAs, rows, reads>>,
           server' \in [Screen!StepUp -> Screen!Row],
           \A d \in Screen!StepUp :
              /\ server[d].st \in Screen!Final => server'[d].st = server[d].st
              /\ Timed(server'[d]),
           calls' \in [Calls -> Screen!Call \cup {Screen!NoCall}],
           \A c \in Calls : calls'[c] # calls[c] =>
              /\ calls'[c].on \in Screen!StepUp
              /\ calls'[c].at = "taken" => server'[calls'[c].on].st = calls'[c].answer
    PROVE  ScreenInv'
<1>1. ScreenType'
    BY DEF ScreenInv, ScreenType
<1>2. \A d \in Screen!StepUp :
         Mine(rows[d], d)' /\ Honest(rows[d], d)' /\ Timed(rows[d])' /\ Timed(server[d])'
    BY DEF ScreenInv, Mine, Honest, Timed, Screen!Final
<1>3. \A r \in Reads, d \in Screen!StepUp : (reads[r].at = "served" =>
         Mine(reads[r].seen[d], d) /\ Honest(reads[r].seen[d], d) /\ Timed(reads[r].seen[d]))'
    BY DEF ScreenInv, Mine, Honest, Timed, Screen!Final
<1>4. ASSUME NEW c \in Calls
      PROVE  /\ calls'[c].at # "idle" => calls'[c].on \in Screen!StepUp
             /\ calls'[c].at = "taken" => server'[calls'[c].on].st = calls'[c].answer
  <2>1. CASE calls'[c] # calls[c]
    BY <2>1
  <2>2. CASE calls'[c] = calls[c]
    <3>1. calls[c].at = "taken" => server[calls[c].on].st \in Screen!Final
      BY Empty DEF ScreenInv, ScreenType, Screen!Call, Screen!Final, Screen!NoCall
    <3> QED
      BY <2>2, <3>1 DEF ScreenInv
  <2> QED
    BY <2>1, <2>2
<1> QED
    BY <1>1, <1>2, <1>3, <1>4 DEF ScreenInv

LEMMA ServerStep ==
    ASSUME Screen!AppAssumption, ScreenInv, NEW d \in Screen!StepUp,
           Screen!Arrives(d) \/ Screen!Accepted(d) \/ Screen!ClosedElsewhere(d)
    PROVE  ScreenInv'
<1>1. /\ now' = now /\ signedInAs' = signedInAs /\ rows' = rows /\ reads' = reads /\ calls' = calls
    BY DEF Screen!Arrives, Screen!Accepted, Screen!ClosedElsewhere, Screen!screen
<1>2. server \in [Screen!StepUp -> Screen!Row] /\ now \in Nat /\ MaxTime \in Nat
    BY DEF ScreenInv, ScreenType, Screen!AppAssumption
<1>3. PICK new \in Screen!Row : /\ server' = [server EXCEPT ![d] = new] /\ server[d].st \notin Screen!Final
                                /\ Timed(new)
  <2>1. CASE Screen!Arrives(d)
    <3>1. PICK t \in now + 1..MaxTime : server' = [server EXCEPT ![d] = [st |-> "pending", due |-> t]]
      BY <2>1 DEF Screen!Arrives
    <3>2. [st |-> "pending", due |-> t] \in Screen!Row /\ Timed([st |-> "pending", due |-> t])
      BY <1>2, <3>1 DEF Screen!Row, Timed
    <3>3. server[d].st \notin Screen!Final
      BY <2>1 DEF Screen!Arrives, Screen!Final, Screen!None
    <3> QED
      BY <3>1, <3>2, <3>3
  <2>2. CASE Screen!Accepted(d)
    <3>1. PICK t \in now + 1..MaxTime : server' = [server EXCEPT ![d].due = t]
      BY <2>2 DEF Screen!Accepted
    <3>2. server[d].st = "pending" /\ server[d] \in Screen!Row
      BY <1>2, <2>2 DEF Screen!Accepted
    <3>3. [server[d] EXCEPT !.due = t] \in Screen!Row /\ Timed([server[d] EXCEPT !.due = t])
      BY <1>2, <3>1, <3>2 DEF Screen!Row, Timed
    <3> QED
      BY <3>1, <3>2, <3>3 DEF Screen!Final
  <2>3. CASE Screen!ClosedElsewhere(d)
    <3>1. PICK a \in Screen!Final : server' = [server EXCEPT ![d] = [st |-> a, due |-> 0]]
      BY <2>3 DEF Screen!ClosedElsewhere, Screen!Closes, Screen!Final
    <3>2. server[d].st = "pending"
      BY <2>3 DEF Screen!ClosedElsewhere
    <3>3. [st |-> a, due |-> 0] \in Screen!Row /\ Timed([st |-> a, due |-> 0])
      BY <1>2, <3>1 DEF Screen!Row, Screen!Final, Timed
    <3> QED
      BY <3>1, <3>2, <3>3 DEF Screen!Final
  <2> QED
    BY <2>1, <2>2, <2>3
<1>4. /\ server' \in [Screen!StepUp -> Screen!Row]
      /\ \A e \in Screen!StepUp : server'[e] = IF e = d THEN new ELSE server[e]
    BY <1>2, <1>3
<1>5. \A e \in Screen!StepUp :
        /\ server[e].st \in Screen!Final => server'[e].st = server[e].st
        /\ Timed(server'[e])
    BY <1>3, <1>4 DEF ScreenInv
<1>6. calls' \in [Calls -> Screen!Call \cup {Screen!NoCall}]
    BY <1>1 DEF ScreenInv, ScreenType
<1> QED
    BY <1>1, <1>4, <1>5, <1>6, ServerKeeps

LEMMA ResolvesKeeps ==
    ASSUME Screen!AppAssumption, ScreenInv, NEW c \in Calls, Screen!Resolves(c)
    PROVE  ScreenInv'
<1> DEFINE d == calls[c].on
<1>1. /\ now' = now /\ signedInAs' = signedInAs /\ rows' = rows /\ reads' = reads
      /\ calls[c].at = "sent"
      /\ \/ /\ server[d].st = "pending" /\ server' = [server EXCEPT ![d] = [st |-> calls[c].answer, due |-> 0]]
            /\ calls' = [calls EXCEPT ![c].at = "taken"]
         \/ server' = server /\ calls' = [calls EXCEPT ![c].at = "refused"]
    BY DEF Screen!Resolves, Screen!Closes, Screen!screen
<1>2. /\ calls[c] \in Screen!Call /\ d \in Screen!StepUp
      /\ calls \in [Calls -> Screen!Call \cup {Screen!NoCall}]
      /\ server \in [Screen!StepUp -> Screen!Row] /\ MaxTime \in Nat
    BY <1>1, Empty DEF ScreenInv, ScreenType, Screen!Call, Screen!AppAssumption
<1>3. calls[c].answer \in {"approved", "declined"}
    BY <1>2 DEF Screen!Call
<1>4. \A at \in {"taken", "refused"} :
        [calls[c] EXCEPT !.at = at] \in Screen!Call /\ [calls[c] EXCEPT !.at = at].at = at
        /\ [calls[c] EXCEPT !.at = at].on = d /\ [calls[c] EXCEPT !.at = at].answer = calls[c].answer
    BY <1>2 DEF Screen!Call
<1>5. calls' \in [Calls -> Screen!Call \cup {Screen!NoCall}]
    BY <1>1, <1>2, <1>4
<1>6. \A k \in Calls : calls'[k] # calls[k] => k = c
    BY <1>1, <1>2
<1>7. calls'[c].on = d /\ calls'[c].answer = calls[c].answer
    BY <1>1, <1>2, <1>4
<1>8. CASE server[d].st = "pending" /\ server' = [server EXCEPT ![d] = [st |-> calls[c].answer, due |-> 0]]
           /\ calls' = [calls EXCEPT ![c].at = "taken"]
  <2>1. [st |-> calls[c].answer, due |-> 0] \in Screen!Row /\ Timed([st |-> calls[c].answer, due |-> 0])
    BY <1>2, <1>3 DEF Screen!Row, Screen!Final, Timed
  <2>2. /\ server' \in [Screen!StepUp -> Screen!Row]
        /\ \A e \in Screen!StepUp : server'[e] = IF e = d THEN [st |-> calls[c].answer, due |-> 0] ELSE server[e]
    BY <1>2, <1>8, <2>1
  <2>3. \A e \in Screen!StepUp :
          /\ server[e].st \in Screen!Final => server'[e].st = server[e].st
          /\ Timed(server'[e])
    BY <1>8, <2>1, <2>2 DEF ScreenInv, Screen!Final
  <2>4. server'[calls'[c].on].st = calls'[c].answer /\ calls'[c].on \in Screen!StepUp
    BY <1>2, <1>7, <2>2
  <2> QED
    BY <1>1, <1>5, <1>6, <2>2, <2>3, <2>4, ServerKeeps
<1>9. CASE server' = server /\ calls' = [calls EXCEPT ![c].at = "refused"]
  <2>1. calls'[c].at = "refused"
    BY <1>2, <1>4, <1>9
  <2>2. \A e \in Screen!StepUp :
          /\ server[e].st \in Screen!Final => server'[e].st = server[e].st
          /\ Timed(server'[e])
    BY <1>9 DEF ScreenInv
  <2> QED
    BY <1>1, <1>2, <1>5, <1>6, <1>7, <1>9, <2>1, <2>2, ServerKeeps
<1> QED
    BY <1>1, <1>8, <1>9

(* Reads come and go; the rows on screen change. *)
LEMMA RowsKeep ==
    ASSUME ScreenInv, server' = server, signedInAs' \in Screen!Customer, now' \in 0..MaxTime,
           rows' \in [Screen!StepUp -> Screen!Row], reads' \in [Reads -> Screen!Read],
           calls' \in [Calls -> Screen!Call \cup {Screen!NoCall}],
           \A d \in Screen!StepUp : Mine(rows[d], d)' /\ Honest(rows'[d], d) /\ Timed(rows'[d]),
           \A r \in Reads, d \in Screen!StepUp : reads'[r].at = "served" =>
             Mine(reads[r].seen[d], d)' /\ Honest(reads'[r].seen[d], d) /\ Timed(reads'[r].seen[d]),
           \A c \in Calls : calls'[c] # calls[c] =>
              calls'[c].at \in {"idle", "sent"} /\ (calls'[c].at = "sent" => calls'[c].on \in Screen!StepUp)
    PROVE  ScreenInv'
<1>1. ScreenType'
    BY DEF ScreenInv, ScreenType
<1>2. \A d \in Screen!StepUp :
         Mine(rows[d], d)' /\ Honest(rows[d], d)' /\ Timed(rows[d])' /\ Timed(server[d])'
    BY DEF ScreenInv, Honest, Timed
<1>3. \A r \in Reads, d \in Screen!StepUp : (reads[r].at = "served" =>
         Mine(reads[r].seen[d], d) /\ Honest(reads[r].seen[d], d) /\ Timed(reads[r].seen[d]))'
    BY DEF Honest, Timed
<1>4. \A c \in Calls :
        /\ calls'[c].at # "idle" => calls'[c].on \in Screen!StepUp
        /\ calls'[c].at = "taken" => server'[calls'[c].on].st = calls'[c].answer
    BY DEF ScreenInv
<1> QED
    BY <1>1, <1>2, <1>3, <1>4 DEF ScreenInv

LEMMA ReadStep ==
    ASSUME Screen!AppAssumption, ScreenInv, NEW r \in Reads,
           Screen!Sends(r) \/ Screen!Serves(r) \/ Screen!Fails(r)
    PROVE  ScreenInv'
<1>1. /\ server' = server /\ now' = now /\ signedInAs' = signedInAs /\ rows' = rows /\ calls' = calls
    BY DEF Screen!Sends, Screen!Serves, Screen!Fails, Screen!screen
<1>2. /\ server \in [Screen!StepUp -> Screen!Row] /\ reads \in [Reads -> Screen!Read]
      /\ rows \in [Screen!StepUp -> Screen!Row] /\ reads[r] \in Screen!Read
      /\ now \in 0..MaxTime /\ signedInAs \in Screen!Customer
      /\ calls \in [Calls -> Screen!Call \cup {Screen!NoCall}]
    BY DEF ScreenInv, ScreenType
<1>3. PICK new \in Screen!Read :
        /\ reads' = [reads EXCEPT ![r] = new]
        /\ new.at = "served" => \A d \in Screen!StepUp :
             new.seen[d] = IF Screen!Owner(d) = signedInAs THEN server[d] ELSE Screen!None
  <2>1. CASE Screen!Sends(r)
    <3> DEFINE new == [at |-> "sent", first |-> ~started, seen |-> Screen!Nothing]
    <3>1. new \in Screen!Read /\ new.at = "sent"
      BY Empty DEF Screen!Read
    <3>2. reads' = [reads EXCEPT ![r] = new]
      BY <2>1 DEF Screen!Sends
    <3> HIDE DEF new
    <3> QED
      BY <3>1, <3>2
  <2>2. CASE Screen!Serves(r)
    <3> DEFINE told == [d \in Screen!StepUp |-> IF Screen!Owner(d) = signedInAs THEN server[d] ELSE Screen!None]
               new == [reads[r] EXCEPT !.at = "served", !.seen = told]
    <3>1. told \in [Screen!StepUp -> Screen!Row]
      BY <1>2, Empty
    <3>2. reads' = [reads EXCEPT ![r] = new]
      BY <1>2, <2>2 DEF Screen!Serves
    <3>3. new \in Screen!Read /\ new.seen = told
      <4> HIDE DEF told
      <4> QED BY <1>2, <3>1 DEF Screen!Read
    <3>4. \A d \in Screen!StepUp : told[d] = IF Screen!Owner(d) = signedInAs THEN server[d] ELSE Screen!None
      OBVIOUS
    <3> HIDE DEF told, new
    <3> QED
      BY <3>2, <3>3, <3>4
  <2>3. CASE Screen!Fails(r)
    BY <2>3, Empty DEF Screen!Fails
  <2> QED
    BY <2>1, <2>2, <2>3
<1>4. /\ reads' \in [Reads -> Screen!Read]
      /\ \A q \in Reads : reads'[q] = IF q = r THEN new ELSE reads[q]
    BY <1>2, <1>3
<1>5. ASSUME NEW q \in Reads, NEW d \in Screen!StepUp, reads'[q].at = "served"
      PROVE  Mine(reads[q].seen[d], d)' /\ Honest(reads'[q].seen[d], d) /\ Timed(reads'[q].seen[d])
  <2>1. CASE q # r
    BY <1>1, <1>4, <1>5, <2>1 DEF ScreenInv, Mine
  <2>2. CASE q = r
    <3>1. reads'[q].seen[d] = IF Screen!Owner(d) = signedInAs THEN server[d] ELSE Screen!None
      BY <1>3, <1>4, <1>5, <2>2
    <3>2. Honest(server[d], d) /\ Timed(server[d]) /\ Honest(Screen!None, d) /\ Timed(Screen!None)
      BY Empty DEF ScreenInv, Honest, Timed
    <3> QED
      BY <1>1, <3>1, <3>2 DEF Mine
  <2> QED
    BY <2>1, <2>2
<1>6. \A d \in Screen!StepUp : Mine(rows[d], d)' /\ Honest(rows'[d], d) /\ Timed(rows'[d])
    BY <1>1 DEF ScreenInv, Mine
<1> QED
    BY <1>1, <1>2, <1>4, <1>5, <1>6, RowsKeep

(* The reads under way are dropped. *)
LEMMA RestartStep ==
    ASSUME Screen!AppAssumption, ScreenInv,
           Screen!retry \/ \E c \in Screen!Customer : Screen!continueAs(c)
    PROVE  ScreenInv'
<1>1. /\ server' = server /\ now' = now /\ calls' = calls /\ reads' = Screen!Cancelled
      /\ \/ rows' = rows /\ signedInAs' = signedInAs
         \/ rows' = Screen!Nothing /\ signedInAs' \in Screen!Customer
    BY DEF Screen!retry, Screen!continueAs, Screen!card
<1>2. /\ reads' \in [Reads -> Screen!Read] /\ \A r \in Reads : reads'[r].at = "idle"
    BY <1>1, Empty DEF Screen!Cancelled
<1>3. /\ now \in 0..MaxTime /\ signedInAs \in Screen!Customer /\ rows \in [Screen!StepUp -> Screen!Row]
      /\ calls \in [Calls -> Screen!Call \cup {Screen!NoCall}]
    BY DEF ScreenInv, ScreenType
<1>4. rows' \in [Screen!StepUp -> Screen!Row]
    BY <1>1, <1>3, Empty
<1>5. \A d \in Screen!StepUp : Mine(rows[d], d)' /\ Honest(rows'[d], d) /\ Timed(rows'[d])
  <2>1. CASE rows' = rows /\ signedInAs' = signedInAs
    BY <2>1 DEF ScreenInv, Mine
  <2>2. CASE rows' = Screen!Nothing
    BY <2>2, Empty DEF Mine, Honest, Timed
  <2> QED
    BY <1>1, <2>1, <2>2
<1> QED
    BY <1>1, <1>2, <1>3, <1>4, <1>5, RowsKeep

LEMMA LandsKeeps ==
    ASSUME Screen!AppAssumption, ScreenInv, NEW r \in Reads, Screen!Lands(r)
    PROVE  ScreenInv'
<1>1. /\ server' = server /\ now' = now /\ signedInAs' = signedInAs /\ calls' = calls
      /\ reads[r].at = "served" /\ reads' = [reads EXCEPT ![r] = Screen!NoRead]
      /\ rows' = [d \in Screen!StepUp |-> Screen!Merged(rows[d], reads[r].seen[d])]
    BY DEF Screen!Lands
<1>2. /\ reads \in [Reads -> Screen!Read] /\ rows \in [Screen!StepUp -> Screen!Row]
      /\ reads[r].seen \in [Screen!StepUp -> Screen!Row]
      /\ now \in 0..MaxTime /\ signedInAs \in Screen!Customer /\ MaxTime \in Nat
      /\ calls \in [Calls -> Screen!Call \cup {Screen!NoCall}]
    BY DEF ScreenInv, ScreenType, Screen!Read, Screen!AppAssumption
<1>3. reads' \in [Reads -> Screen!Read] /\ \A q \in Reads : reads'[q] = IF q = r THEN Screen!NoRead ELSE reads[q]
    BY <1>1, <1>2, Empty
<1>4. ASSUME NEW d \in Screen!StepUp
      PROVE  rows'[d] \in Screen!Row /\ Mine(rows[d], d)' /\ Honest(rows'[d], d) /\ Timed(rows'[d])
  <2> DEFINE old == rows[d]  new == reads[r].seen[d]
  <2>1. rows'[d] = Screen!Merged(old, new) /\ old \in Screen!Row /\ new \in Screen!Row
    BY <1>1, <1>2
  <2>2. /\ Mine(old, d) /\ Honest(old, d) /\ Timed(old)
        /\ Mine(new, d) /\ Honest(new, d) /\ Timed(new)
    BY <1>1 DEF ScreenInv
  <2>3. CASE new = Screen!None \/ (old.st = "expired" /\ new.st = "pending")
    <3>1. rows'[d] = old
      BY <2>1, <2>3 DEF Screen!Merged
    <3> QED
      BY <1>1, <2>1, <2>2, <3>1 DEF Mine
  <2>4. CASE ~(new = Screen!None \/ (old.st = "expired" /\ new.st = "pending"))
    <3>1. rows'[d] = [st |-> new.st, due |-> IF old.due # 0 THEN old.due ELSE new.due]
      BY <2>1, <2>4 DEF Screen!Merged
    <3>2. rows'[d] \in Screen!Row /\ rows'[d].st = new.st /\ (new.due # 0 => rows'[d].due # 0)
      BY <1>2, <2>1, <3>1 DEF Screen!Row
    <3> QED
      BY <1>1, <2>2, <2>4, <3>2 DEF Mine, Honest, Timed
  <2> QED
    BY <2>3, <2>4
<1>5. rows' \in [Screen!StepUp -> Screen!Row]
    BY <1>1, <1>4
<1>6. \A q \in Reads, d \in Screen!StepUp : reads'[q].at = "served" =>
        Mine(reads[q].seen[d], d)' /\ Honest(reads'[q].seen[d], d) /\ Timed(reads'[q].seen[d])
    BY <1>1, <1>3, Empty DEF ScreenInv, Mine
<1> QED
    BY <1>1, <1>2, <1>3, <1>4, <1>5, <1>6, RowsKeep

(* One row changes its status: the step-up expires, or the server's answer *)
(* is shown.                                                               *)
LEMMA RowKeeps ==
    ASSUME Screen!AppAssumption, ScreenInv, NEW d \in Screen!StepUp, NEW st \in Screen!Final,
           rows[d] # Screen!None, st \in {"approved", "declined"} => server[d].st = st,
           rows' = rows \/ rows' = [rows EXCEPT ![d].st = st],
           server' = server, now' = now, signedInAs' = signedInAs, reads' = reads,
           calls' \in [Calls -> Screen!Call \cup {Screen!NoCall}],
           \A c \in Calls : calls'[c] # calls[c] => calls'[c].at = "idle"
    PROVE  ScreenInv'
<1>1. /\ rows \in [Screen!StepUp -> Screen!Row] /\ reads \in [Reads -> Screen!Read]
      /\ now \in 0..MaxTime /\ signedInAs \in Screen!Customer
    BY DEF ScreenInv, ScreenType
<1>2. /\ rows[d] \in Screen!Row /\ [rows[d] EXCEPT !.st = st] \in Screen!Row
      /\ [rows[d] EXCEPT !.st = st].st = st
    BY <1>1 DEF Screen!Row
<1>3. /\ rows' \in [Screen!StepUp -> Screen!Row]
      /\ \A e \in Screen!StepUp : rows'[e] = rows[e] \/ (e = d /\ rows'[e].st = st)
    BY <1>1, <1>2
<1>4. ASSUME NEW e \in Screen!StepUp
      PROVE  Mine(rows[e], e)' /\ Honest(rows'[e], e) /\ Timed(rows'[e])
  <2>1. CASE rows'[e] = rows[e]
    BY <2>1 DEF ScreenInv, Mine
  <2>2. CASE e = d /\ rows'[e].st = st
    <3>1. Screen!Owner(d) = signedInAs
      BY DEF ScreenInv, Mine
    <3> QED
      BY <2>2, <3>1 DEF Mine, Honest, Timed, Screen!Final
  <2> QED
    BY <1>3, <2>1, <2>2
<1>5. \A r \in Reads, e \in Screen!StepUp : reads'[r].at = "served" =>
        Mine(reads[r].seen[e], e)' /\ Honest(reads'[r].seen[e], e) /\ Timed(reads'[r].seen[e])
    BY DEF ScreenInv, Mine
<1> QED
    BY <1>1, <1>3, <1>4, <1>5, RowsKeep

LEMMA ReturnsKeeps ==
    ASSUME Screen!AppAssumption, ScreenInv, NEW c \in Calls, Screen!Returns(c)
    PROVE  ScreenInv'
<1> DEFINE d == calls[c].on  a == calls[c].answer
<1>1. /\ server' = server /\ now' = now /\ signedInAs' = signedInAs /\ reads' = reads
      /\ calls[c].at # "idle" /\ calls' = [calls EXCEPT ![c] = Screen!NoCall]
      /\ \/ rows' = rows
         \/ calls[c].at = "taken" /\ rows[d] # Screen!None /\ rows' = [rows EXCEPT ![d].st = a]
    BY DEF Screen!Returns
<1>2. /\ calls \in [Calls -> Screen!Call \cup {Screen!NoCall}] /\ rows \in [Screen!StepUp -> Screen!Row]
      /\ reads \in [Reads -> Screen!Read] /\ now \in 0..MaxTime /\ signedInAs \in Screen!Customer
      /\ calls[c] \in Screen!Call
    BY <1>1, Empty DEF ScreenInv, ScreenType
<1>3. calls' \in [Calls -> Screen!Call \cup {Screen!NoCall}]
      /\ \A k \in Calls : calls'[k] # calls[k] => calls'[k].at = "idle"
    BY <1>1, <1>2, Empty
<1>4. CASE rows' = rows
  <2>1. \A e \in Screen!StepUp : Mine(rows[e], e)' /\ Honest(rows'[e], e) /\ Timed(rows'[e])
    BY <1>1, <1>4 DEF ScreenInv, Mine
  <2>2. \A r \in Reads, e \in Screen!StepUp : reads'[r].at = "served" =>
          Mine(reads[r].seen[e], e)' /\ Honest(reads'[r].seen[e], e) /\ Timed(reads'[r].seen[e])
    BY <1>1 DEF ScreenInv, Mine
  <2> QED
    BY <1>1, <1>2, <1>3, <1>4, <2>1, <2>2, RowsKeep
<1>5. CASE calls[c].at = "taken" /\ rows[d] # Screen!None /\ rows' = [rows EXCEPT ![d].st = a]
  <2>1. d \in Screen!StepUp /\ a \in Screen!Final /\ server[d].st = a
    BY <1>2, <1>5 DEF ScreenInv, Screen!Call, Screen!Final
  <2> QED
    BY <1>1, <1>3, <1>5, <2>1, RowKeeps
<1> QED
    BY <1>1, <1>4, <1>5

LEMMA ExpiresKeeps ==
    ASSUME Screen!AppAssumption, ScreenInv, NEW d \in Screen!StepUp, Screen!Expires(d)
    PROVE  ScreenInv'
<1>1. /\ server' = server /\ now' = now /\ signedInAs' = signedInAs /\ reads' = reads /\ calls' = calls
      /\ rows[d] # Screen!None /\ rows' = [rows EXCEPT ![d].st = "expired"]
    BY Empty DEF Screen!Expires, Screen!card
<1>2. "expired" \in Screen!Final /\ calls \in [Calls -> Screen!Call \cup {Screen!NoCall}]
    BY DEF Screen!Final, ScreenInv, ScreenType
<1> QED
    BY <1>1, <1>2, RowKeeps

(* A tap, a look, a tick: nothing on screen changes. *)
LEMMA CardStep ==
    ASSUME Screen!AppAssumption, ScreenInv,
           \/ Screen!Tick \/ UNCHANGED Screen!vars
           \/ \E d \in Screen!StepUp : Screen!setFocusedIndex(d) \/ \E c \in Calls : Screen!handle(d, c)
    PROVE  ScreenInv'
<1>1. /\ server' = server /\ signedInAs' = signedInAs /\ rows' = rows /\ reads' = reads
      /\ now' = now \/ Screen!Tick
    BY DEF Screen!Tick, Screen!setFocusedIndex, Screen!handle, Screen!Shows, Screen!vars, Screen!screen
<1>2. now' \in 0..MaxTime
    BY <1>1, SMT DEF Screen!Tick, ScreenInv, ScreenType, Screen!AppAssumption
<1>3. /\ calls \in [Calls -> Screen!Call \cup {Screen!NoCall}] /\ rows \in [Screen!StepUp -> Screen!Row]
      /\ reads \in [Reads -> Screen!Read] /\ signedInAs \in Screen!Customer
    BY DEF ScreenInv, ScreenType
<1>4. /\ calls' \in [Calls -> Screen!Call \cup {Screen!NoCall}]
      /\ \A c \in Calls : calls'[c] # calls[c] => calls'[c].at = "sent" /\ calls'[c].on \in Screen!StepUp
  <2>1. CASE calls' = calls
    BY <1>3, <2>1
  <2>2. ASSUME NEW d \in Screen!StepUp, NEW c \in Calls, Screen!handle(d, c)
        PROVE  /\ calls' \in [Calls -> Screen!Call \cup {Screen!NoCall}]
               /\ \A k \in Calls : calls'[k] # calls[k] => calls'[k].at = "sent" /\ calls'[k].on \in Screen!StepUp
    <3>1. PICK a \in {"approved", "declined"} : calls' = [calls EXCEPT ![c] = [at |-> "sent", on |-> d, answer |-> a]]
      BY <2>2 DEF Screen!handle
    <3>2. [at |-> "sent", on |-> d, answer |-> a] \in Screen!Call
      BY DEF Screen!Call
    <3> QED
      BY <1>3, <3>1, <3>2
  <2> QED
    BY <2>1, <2>2 DEF Screen!Tick, Screen!setFocusedIndex, Screen!vars
<1>5. \A e \in Screen!StepUp : Mine(rows[e], e)' /\ Honest(rows'[e], e) /\ Timed(rows'[e])
    BY <1>1 DEF ScreenInv, Mine
<1>6. \A r \in Reads, e \in Screen!StepUp : reads'[r].at = "served" =>
        Mine(reads[r].seen[e], e)' /\ Honest(reads'[r].seen[e], e) /\ Timed(reads'[r].seen[e])
    BY <1>1 DEF ScreenInv, Mine
<1> QED
    BY <1>1, <1>2, <1>3, <1>4, <1>5, <1>6, RowsKeep

LEMMA ScreenStep ==
    ASSUME Screen!AppAssumption, ScreenInv, [Screen!Next]_(Screen!vars)
    PROVE  ScreenInv'
BY ServerStep, ResolvesKeeps, ReadStep, RestartStep, LandsKeeps, ReturnsKeeps, ExpiresKeeps, CardStep
   DEF Screen!Next

LEMMA ScreenInvariant ==
    ASSUME Screen!AppAssumption
    PROVE  Screen!Spec => []ScreenInv
BY ScreenInitially, ScreenStep, PTL DEF Screen!Spec

(* Whoever signs in after whom, and whatever reads and replies are lost or *)
(* late: what is on screen is the signed-in customer's, and an answer it   *)
(* shows is the one the server took (DecisionsProvider, mergeDecisions).   *)
THEOREM ScreensAreTrue ==
    ASSUME Screen!AppAssumption
    PROVE  Screen!Spec => [](Screen!OwnRowsOnly /\ Screen!NoInventedAnswer)
<1>1. ScreenInv => Screen!OwnRowsOnly /\ Screen!NoInventedAnswer
    BY DEF ScreenInv, Mine, Honest, Screen!OwnRowsOnly, Screen!NoInventedAnswer
<1> QED
    BY <1>1, ScreenInvariant, PTL

(* A step-up that expired on screen waits for nobody afterwards, and no    *)
(* read disturbs a countdown that runs (mergeDecisions).                   *)
THEOREM CountdownsStand ==
    ASSUME Screen!AppAssumption
    PROVE  Screen!Spec => Screen!ExpiredWaitsNoMore /\ Screen!CountdownRuns
<1>1. ASSUME ScreenInv, [Screen!Next]_(Screen!vars), NEW d \in Screen!StepUp
      PROVE  /\ rows[d].st = "expired" => rows'[d].st # "pending"
             /\ rows[d].st = "pending" /\ rows'[d].st = "pending" => rows'[d].due = rows[d].due
  <2>0. rows \in [Screen!StepUp -> Screen!Row] /\ rows[d] \in Screen!Row /\ Timed(rows[d])
    BY <1>1 DEF ScreenInv, ScreenType
  <2>1. CASE rows' = rows
    BY <2>1
  <2>2. CASE rows' = Screen!Nothing
    BY <2>2, Empty
  <2>3. ASSUME NEW r \in Reads, Screen!Lands(r)
        PROVE  /\ rows[d].st = "expired" => rows'[d].st # "pending"
               /\ rows[d].st = "pending" /\ rows'[d].st = "pending" => rows'[d].due = rows[d].due
    <3>1. rows'[d] = Screen!Merged(rows[d], reads[r].seen[d])
      BY <2>3 DEF Screen!Lands
    <3> QED
      BY <2>0, <3>1 DEF Screen!Merged, Timed
  <2>4. ASSUME NEW e \in Screen!StepUp, NEW st \in {"approved", "declined", "expired"},
               rows' = [rows EXCEPT ![e].st = st]
        PROVE  /\ rows[d].st = "expired" => rows'[d].st # "pending"
               /\ rows[d].st = "pending" /\ rows'[d].st = "pending" => rows'[d].due = rows[d].due
    <3>1. CASE e # d
      BY <2>0, <2>4, <3>1
    <3>2. CASE e = d
      <4>1. rows'[d] = [rows[d] EXCEPT !.st = st]
        BY <2>0, <2>4, <3>2
      <4>2. rows'[d].st = st
        BY <2>0, <4>1 DEF Screen!Row
      <4> QED
        BY <4>2
    <3> QED
      BY <3>1, <3>2
  <2>5. ASSUME NEW c \in Calls, Screen!Returns(c), rows' # rows
        PROVE  \E e \in Screen!StepUp, st \in {"approved", "declined", "expired"} : rows' = [rows EXCEPT ![e].st = st]
    <3>1. calls[c].at = "taken" /\ rows' = [rows EXCEPT ![calls[c].on].st = calls[c].answer]
      BY <2>5 DEF Screen!Returns
    <3>2. calls[c] \in Screen!Call
      BY <1>1, <3>1, Empty DEF ScreenInv, ScreenType
    <3> QED
      BY <3>1, <3>2 DEF Screen!Call
  <2>6. ASSUME NEW e \in Screen!StepUp, Screen!Expires(e)
        PROVE  \E st \in {"approved", "declined", "expired"} : rows' = [rows EXCEPT ![e].st = st]
    BY <2>6 DEF Screen!Expires
  <2>7. \/ rows' = rows \/ rows' = Screen!Nothing \/ (\E r \in Reads : Screen!Lands(r))
        \/ (\E c \in Calls : Screen!Returns(c)) \/ \E e \in Screen!StepUp : Screen!Expires(e)
    BY <1>1 DEF Screen!Next, Screen!vars, Screen!screen, Screen!Tick, Screen!retry, Screen!continueAs,
       Screen!Arrives, Screen!Accepted, Screen!ClosedElsewhere, Screen!setFocusedIndex, Screen!Sends,
       Screen!Serves, Screen!Fails, Screen!handle, Screen!Shows, Screen!Resolves
  <2> QED
    BY <2>1, <2>2, <2>3, <2>4, <2>5, <2>6, <2>7
<1>2. ScreenInv /\ [Screen!Next]_(Screen!vars) =>
        [\A d \in Screen!StepUp : rows[d].st = "expired" => rows'[d].st # "pending"]_(Screen!vars)
    BY <1>1
<1>3. ScreenInv /\ [Screen!Next]_(Screen!vars) =>
        [\A d \in Screen!StepUp :
           rows[d].st = "pending" /\ rows'[d].st = "pending" => rows'[d].due = rows[d].due]_(Screen!vars)
    BY <1>1
<1> QED
    BY <1>2, <1>3, ScreenInvariant, PTL DEF Screen!Spec, Screen!ExpiredWaitsNoMore, Screen!CountdownRuns

-----------------------------------------------------------------------------
(***************************************************************************)
(* The policies on the customer's screen (AppPolicies), for any number of  *)
(* reads and changes.                                                      *)
(***************************************************************************)
CONSTANTS Changes, MaxNumber, MaxVersion, InTurn

VARIABLES
  version, policies, policyStatus, counter, lastApplied, lastLocalChange, policyReads, change

Client == INSTANCE AppPolicies WITH status <- policyStatus, reads <- policyReads

(* Numbers are given out in turn, the last one to a read.                  *)
Numbered ==
    /\ counter \in Client!Number /\ lastLocalChange < counter /\ lastApplied <= counter
    /\ policyReads[counter].at # "none"
    /\ \A n \in Client!Number : policyReads[n].at # "none" => n <= counter

(* A read that counts was served after her changes that are shown; and,    *)
(* where reads are served in turn, no earlier than what is shown.          *)
LaterThanHers ==
    /\ \A c \in Changes : change[c].at \in {"taken", "shown"} => change[c].made <= version
    /\ \A n \in Client!Number, c \in Changes :
         policyReads[n].at = "served" /\ Client!Counts(n) /\ change[c].at = "shown" =>
           policyReads[n].seen >= change[c].made
InOrder ==
    /\ policies <= version
    /\ \A n \in Client!Number : policyReads[n].at \in {"served", "ended"} => policyReads[n].seen <= version
    /\ InTurn => \A n \in Client!Number : policyReads[n].at = "served" =>
         /\ Client!Counts(n) => policies <= policyReads[n].seen
         /\ \A m \in Client!Number : m < n =>
              /\ policyReads[m].at # "sent"
              /\ policyReads[m].at = "served" => policyReads[m].seen <= policyReads[n].seen
    /\ InTurn => \A m, n \in Client!Number : m < n /\ policyReads[n].at = "ended" => policyReads[m].at # "sent"

(* The last read, once it has landed, is shown.                            *)
LastShown ==
    /\ policyReads[counter].at = "ended" =>
         lastApplied = counter /\ policies = policyReads[counter].seen
    /\ ~Losses => \A n \in Client!Number : policyReads[n].at # "failed"

PolicyInv == Client!TypeOK /\ Numbered /\ LaterThanHers /\ InOrder /\ LastShown

-----------------------------------------------------------------------------
LEMMA PolicyInitially ==
    ASSUME Client!PoliciesAssumption, Client!Init
    PROVE  PolicyInv
<1>1. /\ version = 1 /\ policies = 0 /\ policyStatus = "loading"
      /\ counter = 1 /\ lastApplied = 0 /\ lastLocalChange = 0
      /\ policyReads = [n \in Client!Number |-> IF n = 1 THEN [at |-> "sent", seen |-> 0] ELSE [at |-> "none", seen |-> 0]]
      /\ change = [c \in Changes |-> [at |-> "none", made |-> 0]]
  <2>1. policyReads = [[n \in Client!Number |-> [at |-> "none", seen |-> 0]] EXCEPT ![1] = [at |-> "sent", seen |-> 0]]
    BY DEF Client!Init, Client!Sent
  <2> QED
    BY <2>1 DEF Client!Init
<1>2. 1 \in Client!Number /\ MaxNumber \in Nat /\ MaxVersion \in Nat /\ MaxVersion > 0
    BY DEF Client!Number, Client!PoliciesAssumption
<1>3. Client!TypeOK
  <2>1. policyReads \in [Client!Number -> Client!Read]
    BY <1>1, <1>2 DEF Client!Read
  <2>2. change \in [Changes -> Client!Change]
    BY <1>1, <1>2 DEF Client!Change
  <2>3. 1 \in 1..MaxVersion /\ 0 \in 0..MaxVersion /\ {1, 0, 0} \subseteq 0..MaxNumber
    BY <1>2 DEF Client!Number
  <2> QED
    BY <1>1, <2>1, <2>2, <2>3 DEF Client!TypeOK
<1>4. Numbered
  <2>1. \A n \in Client!Number : policyReads[n].at # "none" => n = 1
    BY <1>1
  <2> QED
    BY <1>1, <1>2, <2>1 DEF Numbered
<1>5. LaterThanHers /\ InOrder /\ LastShown
  <2>1. \A n \in Client!Number : policyReads[n].at \in {"none", "sent"}
    BY <1>1
  <2>2. \A c \in Changes : change[c].at = "none"
    BY <1>1
  <2> QED
    BY <1>1, <1>2, <2>1, <2>2 DEF LaterThanHers, InOrder, LastShown
<1> QED
    BY <1>3, <1>4, <1>5 DEF PolicyInv

LEMMA PolicyTypes ==
    ASSUME Client!PoliciesAssumption, PolicyInv
    PROVE  /\ MaxNumber \in Nat /\ MaxVersion \in Nat /\ version \in 1..MaxVersion /\ policies \in 0..MaxVersion
           /\ counter \in 1..MaxNumber /\ lastApplied \in 0..MaxNumber /\ lastLocalChange \in 0..MaxNumber
           /\ policyReads \in [Client!Number -> Client!Read] /\ change \in [Changes -> Client!Change]
           /\ Client!Number = 1..MaxNumber
BY DEF Client!PoliciesAssumption, PolicyInv, Numbered, Client!TypeOK, Client!Number

(* A read is sent: with the number after the last, or after her change.    *)
LEMMA SendKeeps ==
    ASSUME Client!PoliciesAssumption, PolicyInv, NEW k \in {counter + 1, counter + 2}, k <= MaxNumber,
           counter' = k, policyReads' = Client!Sent(policyReads, k), lastApplied' = lastApplied,
           policyStatus' \in {"loading", "ready", "error"}, version' = version,
           \/ /\ k = counter + 1 /\ policies' = policies /\ change' = change /\ lastLocalChange' = lastLocalChange
           \/ /\ k = counter + 2 /\ lastLocalChange' = counter + 1
              /\ \E c \in Changes : /\ change[c].at = "taken" /\ policies' = change[c].made
                                    /\ change' = [change EXCEPT ![c].at = "shown"]
    PROVE  PolicyInv'
<1>1. /\ MaxNumber \in Nat /\ MaxVersion \in Nat /\ version \in 1..MaxVersion /\ policies \in 0..MaxVersion
      /\ counter \in 1..MaxNumber /\ lastApplied \in 0..MaxNumber /\ lastLocalChange \in 0..MaxNumber
      /\ policyReads \in [Client!Number -> Client!Read] /\ change \in [Changes -> Client!Change]
      /\ Client!Number = 1..MaxNumber
    BY PolicyTypes
<1>2. /\ k \in 1..MaxNumber /\ k > counter /\ counter \in Int /\ lastLocalChange' \in 0..MaxNumber
      /\ lastLocalChange' < k /\ lastLocalChange < counter /\ lastApplied <= counter
  <2>1. lastLocalChange < counter /\ lastApplied <= counter
    BY DEF PolicyInv, Numbered
  <2> QED
    BY <1>1, <2>1
<1>3. /\ policyReads' \in [Client!Number -> Client!Read]
      /\ policyReads'[k].at = "sent"
      /\ \A n \in Client!Number : n # k => policyReads'[n] = policyReads[n]
  <2>1. [at |-> "sent", seen |-> 0] \in Client!Read
    BY <1>1 DEF Client!Read
  <2>2. policyReads' = [policyReads EXCEPT ![k] = [at |-> "sent", seen |-> 0]]
    BY DEF Client!Sent
  <2> QED
    BY <1>1, <1>2, <2>1, <2>2
<1>4. /\ change' \in [Changes -> Client!Change] /\ policies' \in 0..MaxVersion /\ policies' <= version
      /\ \A c \in Changes : /\ change'[c].made = change[c].made
                            /\ change'[c].at \in {"taken", "shown"} => change[c].at \in {"taken", "shown"}
  <2>1. CASE policies' = policies /\ change' = change
    BY <1>1, <2>1 DEF PolicyInv, InOrder
  <2>2. ASSUME NEW c \in Changes, change[c].at = "taken", policies' = change[c].made,
               change' = [change EXCEPT ![c].at = "shown"]
        PROVE  /\ change' \in [Changes -> Client!Change] /\ policies' \in 0..MaxVersion /\ policies' <= version
               /\ \A e \in Changes : /\ change'[e].made = change[e].made
                                     /\ change'[e].at \in {"taken", "shown"} => change[e].at \in {"taken", "shown"}
    <3>1. change[c] \in Client!Change /\ change[c].made <= version
      BY <1>1, <2>2 DEF PolicyInv, LaterThanHers
    <3>2. /\ [change[c] EXCEPT !.at = "shown"] \in Client!Change
          /\ [change[c] EXCEPT !.at = "shown"].made = change[c].made
      BY <3>1 DEF Client!Change
    <3>3. change[c].made \in 0..MaxVersion
      BY <3>1 DEF Client!Change
    <3> QED
      BY <1>1, <2>2, <3>1, <3>2, <3>3
  <2> QED
    BY <2>1, <2>2
<1>5. \A n \in Client!Number : policyReads[n].at # "none" => n <= counter /\ n < k
    BY <1>1, <1>2 DEF PolicyInv, Numbered
<1>6. Client!TypeOK'
    BY <1>1, <1>2, <1>3, <1>4 DEF Client!TypeOK
<1>7. Numbered'
  <2>1. \A n \in Client!Number : policyReads'[n].at # "none" => n <= k
    BY <1>1, <1>2, <1>3, <1>5
  <2> QED
    BY <1>1, <1>2, <1>3, <2>1 DEF Numbered
(* Her change is numbered after every read there was. *)
<1>8. \A n \in Client!Number : policyReads'[n].at \in {"served", "ended", "failed"} =>
        /\ n # k /\ policyReads'[n] = policyReads[n] /\ n < k
        /\ Client!Counts(n)' => Client!Counts(n) /\ policies' = policies /\ change' = change
  <2>1. ASSUME NEW n \in Client!Number, policyReads'[n].at \in {"served", "ended", "failed"}
        PROVE  /\ n # k /\ policyReads'[n] = policyReads[n] /\ n < k /\ n <= counter
    BY <1>3, <1>5, <2>1
  <2>2. ASSUME NEW n \in Client!Number, n <= counter, Client!Counts(n)'
        PROVE  Client!Counts(n) /\ policies' = policies /\ change' = change
    <3>1. n >= lastApplied /\ n >= lastLocalChange'
      BY <2>2 DEF Client!Counts
    <3>2. lastLocalChange' # counter + 1
      BY <1>1, <2>2, <3>1
    <3> QED
      BY <3>1, <3>2 DEF Client!Counts
  <2> QED
    BY <2>1, <2>2
<1>9. LaterThanHers'
  <2>1. \A c \in Changes : change'[c].at \in {"taken", "shown"} => change'[c].made <= version'
    BY <1>4 DEF PolicyInv, LaterThanHers
  <2>2. ASSUME NEW n \in Client!Number, NEW c \in Changes,
               policyReads'[n].at = "served", Client!Counts(n)', change'[c].at = "shown"
        PROVE  policyReads'[n].seen >= change'[c].made
    BY <1>8, <2>2 DEF PolicyInv, LaterThanHers
  <2> QED
    BY <2>1, <2>2 DEF LaterThanHers
<1>10. InOrder'
  <2>1. \A n \in Client!Number : policyReads'[n].at \in {"served", "ended"} => policyReads'[n].seen <= version'
    BY <1>8 DEF PolicyInv, InOrder
  <2>2. ASSUME InTurn, NEW n \in Client!Number, policyReads'[n].at = "served"
        PROVE  /\ Client!Counts(n)' => policies' <= policyReads'[n].seen
               /\ \A m \in Client!Number : m < n =>
                    /\ policyReads'[m].at # "sent"
                    /\ policyReads'[m].at = "served" => policyReads'[m].seen <= policyReads'[n].seen
    <3>1. /\ policyReads'[n] = policyReads[n] /\ n < k
          /\ Client!Counts(n)' => Client!Counts(n) /\ policies' = policies
      BY <1>8, <2>2
    <3>2. \A m \in Client!Number : m < n => m # k /\ policyReads'[m] = policyReads[m]
      BY <1>1, <1>2, <1>3, <3>1
    <3> QED
      BY <2>2, <3>1, <3>2 DEF PolicyInv, InOrder
  <2>3. ASSUME InTurn, NEW m \in Client!Number, NEW n \in Client!Number, m < n, policyReads'[n].at = "ended"
        PROVE  policyReads'[m].at # "sent"
    <3>1. policyReads'[n] = policyReads[n] /\ n < k
      BY <1>8, <2>3
    <3>2. m # k /\ policyReads'[m] = policyReads[m]
      BY <1>1, <1>2, <1>3, <2>3, <3>1
    <3> QED
      BY <2>3, <3>1, <3>2 DEF PolicyInv, InOrder
  <2> QED
    BY <1>4, <2>1, <2>2, <2>3 DEF InOrder
<1>11. LastShown'
    BY <1>3, <1>8 DEF PolicyInv, LastShown
<1> QED
    BY <1>6, <1>7, <1>9, <1>10, <1>11 DEF PolicyInv
(* One read comes back, or is served: the others stay.                     *)
LEMMA OneRead ==
    ASSUME Client!PoliciesAssumption, PolicyInv, NEW n \in Client!Number, NEW new \in Client!Read,
           policyReads[n].at # "none", policyReads' = [policyReads EXCEPT ![n] = new], new.at # "none",
           version' = version, counter' = counter, lastLocalChange' = lastLocalChange, change' = change,
           policyStatus' \in {"loading", "ready", "error"}, lastApplied' \in {n, lastApplied},
           policies' \in 0..MaxVersion
    PROVE  /\ Client!TypeOK' /\ Numbered' /\ policyReads'[n] = new
           /\ \A m \in Client!Number : m # n => policyReads'[m] = policyReads[m]
<1>1. /\ MaxNumber \in Nat /\ MaxVersion \in Nat /\ version \in 1..MaxVersion /\ policies \in 0..MaxVersion
      /\ counter \in 1..MaxNumber /\ lastApplied \in 0..MaxNumber /\ lastLocalChange \in 0..MaxNumber
      /\ policyReads \in [Client!Number -> Client!Read] /\ change \in [Changes -> Client!Change]
      /\ Client!Number = 1..MaxNumber
    BY PolicyTypes
<1>2. /\ policyReads' \in [Client!Number -> Client!Read] /\ policyReads'[n] = new
      /\ \A m \in Client!Number : m # n => policyReads'[m] = policyReads[m]
    BY <1>1
<1>3. n <= counter /\ lastApplied <= counter /\ lastApplied' \in 0..MaxNumber /\ lastApplied' <= counter
    BY <1>1 DEF PolicyInv, Numbered
<1>4. Client!TypeOK'
    BY <1>1, <1>2, <1>3 DEF Client!TypeOK
<1>5. \A m \in Client!Number : policyReads'[m].at # "none" => m <= counter
    BY <1>2, <1>3 DEF PolicyInv, Numbered
<1>6. policyReads'[counter].at # "none"
    BY <1>1, <1>2 DEF PolicyInv, Numbered
<1>7. Numbered'
    BY <1>3, <1>5, <1>6 DEF PolicyInv, Numbered
<1> QED
    BY <1>2, <1>4, <1>7

LEMMA PolicyReadServed ==
    ASSUME Client!PoliciesAssumption, PolicyInv, NEW n \in Client!Number, Client!Serves(n)
    PROVE  PolicyInv'
<1> DEFINE new == [at |-> "served", seen |-> version]
<1>1. /\ MaxNumber \in Nat /\ MaxVersion \in Nat /\ version \in 1..MaxVersion /\ policies \in 0..MaxVersion
      /\ counter \in 1..MaxNumber /\ lastApplied \in 0..MaxNumber /\ lastLocalChange \in 0..MaxNumber
      /\ policyReads \in [Client!Number -> Client!Read] /\ change \in [Changes -> Client!Change]
      /\ Client!Number = 1..MaxNumber
    BY PolicyTypes
<1>2. new \in Client!Read /\ new.at = "served" /\ new.seen = version
    BY <1>1 DEF Client!Read
<1>3. /\ policyReads[n].at = "sent" /\ policyReads' = [policyReads EXCEPT ![n] = new]
      /\ InTurn => \A m \in Client!Number : m < n => policyReads[m].at # "sent"
      /\ version' = version /\ policies' = policies /\ policyStatus' = policyStatus /\ counter' = counter
      /\ lastApplied' = lastApplied /\ lastLocalChange' = lastLocalChange /\ change' = change
    BY DEF Client!Serves
<1>4. policyStatus' \in {"loading", "ready", "error"}
    BY <1>3 DEF PolicyInv, Client!TypeOK
<1> HIDE DEF new
<1>5. /\ Client!TypeOK' /\ Numbered' /\ policyReads'[n] = new
      /\ \A m \in Client!Number : m # n => policyReads'[m] = policyReads[m]
    BY <1>1, <1>2, <1>3, <1>4, OneRead
<1>6. \A m \in Client!Number : Client!Counts(m)' <=> Client!Counts(m)
    BY <1>3 DEF Client!Counts
<1>7. LaterThanHers'
  <2>1. \A c \in Changes : change[c].at \in {"taken", "shown"} => change[c].made <= version
    BY DEF PolicyInv, LaterThanHers
  <2>2. ASSUME NEW m \in Client!Number, NEW c \in Changes,
               policyReads'[m].at = "served", Client!Counts(m)', change'[c].at = "shown"
        PROVE  policyReads'[m].seen >= change'[c].made
    <3>1. CASE m = n
      <4>1. change[c].made <= version /\ change[c].made \in Nat
        BY <1>1, <1>3, <2>1, <2>2 DEF Client!Change
      <4> QED
        BY <1>1, <1>2, <1>3, <1>5, <3>1, <4>1
    <3>2. CASE m # n
      BY <1>3, <1>5, <1>6, <2>2, <3>2 DEF PolicyInv, LaterThanHers
    <3> QED
      BY <3>1, <3>2
  <2> QED
    BY <1>3, <2>1, <2>2 DEF LaterThanHers
<1>8. InOrder'
  <2>1. \A m \in Client!Number : policyReads'[m].at \in {"served", "ended"} => policyReads'[m].seen <= version'
    BY <1>1, <1>2, <1>3, <1>5 DEF PolicyInv, InOrder
  <2>2. \A m \in Client!Number : policyReads'[m].at = "sent" => policyReads[m].at = "sent"
    BY <1>3, <1>5
  <2>3. ASSUME InTurn, NEW i \in Client!Number, policyReads'[i].at = "served"
        PROVE  /\ Client!Counts(i)' => policies' <= policyReads'[i].seen
               /\ \A m \in Client!Number : m < i =>
                    /\ policyReads'[m].at # "sent"
                    /\ policyReads'[m].at = "served" => policyReads'[m].seen <= policyReads'[i].seen
    <3>1. CASE i = n
      <4>1. policies' <= policyReads'[i].seen
        BY <1>2, <1>3, <1>5, <3>1 DEF PolicyInv, InOrder
      <4>2. ASSUME NEW m \in Client!Number, m < i
            PROVE  /\ policyReads'[m].at # "sent"
                   /\ policyReads'[m].at = "served" => policyReads'[m].seen <= policyReads'[i].seen
        <5>1. m # n /\ policyReads'[m] = policyReads[m]
          BY <1>1, <1>5, <3>1, <4>2
        <5> QED
          BY <1>2, <1>3, <1>5, <2>1, <2>3, <3>1, <4>2, <5>1
      <4> QED
        BY <4>1, <4>2
    <3>2. CASE i # n
      <4>1. policyReads'[i] = policyReads[i] /\ (Client!Counts(i)' => policies' <= policyReads'[i].seen)
        BY <1>3, <1>5, <1>6, <2>3, <3>2 DEF PolicyInv, InOrder
      <4>2. ASSUME NEW m \in Client!Number, m < i
            PROVE  m # n
        <5>1. policyReads[m].at # "sent"
          BY <2>3, <4>1, <4>2 DEF PolicyInv, InOrder
        <5> QED
          BY <1>3, <5>1
      <4>3. \A m \in Client!Number : m < i =>
              /\ policyReads'[m].at # "sent"
              /\ policyReads'[m].at = "served" => policyReads'[m].seen <= policyReads'[i].seen
        BY <1>5, <2>3, <4>1, <4>2 DEF PolicyInv, InOrder
      <4> QED
        BY <4>1, <4>3
    <3> QED
      BY <3>1, <3>2
  <2>4. ASSUME InTurn, NEW m \in Client!Number, NEW i \in Client!Number, m < i, policyReads'[i].at = "ended"
        PROVE  policyReads'[m].at # "sent"
    <3>1. i # n /\ policyReads[i].at = "ended"
      BY <1>2, <1>5, <2>4
    <3> QED
      BY <2>2, <2>4, <3>1 DEF PolicyInv, InOrder
  <2> QED
    BY <1>3, <2>1, <2>3, <2>4 DEF PolicyInv, InOrder
<1>9. LastShown'
  <2>1. policyReads'[counter'].at = "ended" => policyReads[counter] = policyReads'[counter']
    BY <1>1, <1>2, <1>3, <1>5
  <2> QED
    BY <1>2, <1>3, <1>5, <2>1 DEF PolicyInv, LastShown
<1> QED
    BY <1>5, <1>7, <1>8, <1>9 DEF PolicyInv
(* What lands is shown only if it counts: then no read numbered lower      *)
(* counts afterwards.                                                      *)
LEMMA PolicyReadLands ==
    ASSUME Client!PoliciesAssumption, PolicyInv, NEW n \in Client!Number, Client!Lands(n)
    PROVE  PolicyInv'
<1> DEFINE new == [policyReads[n] EXCEPT !.at = "ended"]
<1>1. /\ MaxNumber \in Nat /\ MaxVersion \in Nat /\ version \in 1..MaxVersion /\ policies \in 0..MaxVersion
      /\ counter \in 1..MaxNumber /\ lastApplied \in 0..MaxNumber /\ lastLocalChange \in 0..MaxNumber
      /\ policyReads \in [Client!Number -> Client!Read] /\ change \in [Changes -> Client!Change]
      /\ Client!Number = 1..MaxNumber
    BY PolicyTypes
<1>2. /\ new \in Client!Read /\ new.at = "ended" /\ new.seen = policyReads[n].seen
      /\ policyReads[n].seen \in 0..MaxVersion
    BY <1>1 DEF Client!Read
<1>3. /\ policyReads[n].at = "served" /\ policyReads' = [policyReads EXCEPT ![n] = new]
      /\ version' = version /\ counter' = counter /\ lastLocalChange' = lastLocalChange /\ change' = change
      /\ \/ Client!Counts(n) /\ lastApplied' = n /\ policies' = policyReads[n].seen /\ policyStatus' = "ready"
         \/ ~Client!Counts(n) /\ lastApplied' = lastApplied /\ policies' = policies /\ policyStatus' = policyStatus
    BY <1>1 DEF Client!Lands
<1>4. policyStatus' \in {"loading", "ready", "error"} /\ lastApplied' \in {n, lastApplied} /\ policies' \in 0..MaxVersion
    BY <1>1, <1>2, <1>3 DEF PolicyInv, Client!TypeOK
<1> HIDE DEF new
<1>5. /\ Client!TypeOK' /\ Numbered' /\ policyReads'[n] = new
      /\ \A m \in Client!Number : m # n => policyReads'[m] = policyReads[m]
    BY <1>1, <1>2, <1>3, <1>4, OneRead
<1>6. ASSUME NEW m \in Client!Number, Client!Counts(m)'
      PROVE  Client!Counts(m) /\ (lastApplied' # lastApplied \/ policies' # policies => m >= n)
    BY <1>1, <1>3, <1>6 DEF Client!Counts
<1>7. LaterThanHers'
  <2>1. \A c \in Changes : change[c].at \in {"taken", "shown"} => change[c].made <= version
    BY DEF PolicyInv, LaterThanHers
  <2>2. ASSUME NEW m \in Client!Number, NEW c \in Changes,
               policyReads'[m].at = "served", Client!Counts(m)', change'[c].at = "shown"
        PROVE  policyReads'[m].seen >= change'[c].made
    <3>1. m # n /\ policyReads'[m] = policyReads[m]
      BY <1>2, <1>5, <2>2
    <3> QED
      BY <1>3, <1>6, <2>2, <3>1 DEF PolicyInv, LaterThanHers
  <2> QED
    BY <1>3, <2>1, <2>2 DEF LaterThanHers
<1>8. InOrder'
  <2>1. /\ policies' <= version'
        /\ \A m \in Client!Number : policyReads'[m].at \in {"served", "ended"} => policyReads'[m].seen <= version'
    BY <1>1, <1>2, <1>3, <1>5 DEF PolicyInv, InOrder
  <2>2. \A m \in Client!Number :
          /\ policyReads'[m].at = "served" => m # n /\ policyReads[m].at = "served"
          /\ policyReads'[m].at = "sent" => policyReads[m].at = "sent"
    BY <1>2, <1>5
  <2>3. ASSUME InTurn, NEW i \in Client!Number, policyReads'[i].at = "served"
        PROVE  /\ Client!Counts(i)' => policies' <= policyReads'[i].seen
               /\ \A m \in Client!Number : m < i =>
                    /\ policyReads'[m].at # "sent"
                    /\ policyReads'[m].at = "served" => policyReads'[m].seen <= policyReads'[i].seen
    <3>1. i # n /\ policyReads'[i] = policyReads[i] /\ policyReads[i].at = "served"
      BY <1>5, <2>2, <2>3
    <3>2. ASSUME Client!Counts(i)'
          PROVE  policies' <= policyReads'[i].seen
      <4>1. CASE policies' = policies
        BY <1>6, <2>3, <3>1, <3>2, <4>1 DEF PolicyInv, InOrder
      <4>2. CASE policies' # policies
        <5>1. n < i /\ policies' = policyReads[n].seen
          BY <1>1, <1>3, <1>6, <3>1, <3>2, <4>2
        <5> QED
          BY <1>3, <2>3, <3>1, <5>1 DEF PolicyInv, InOrder
      <4> QED
        BY <4>1, <4>2
    <3>3. \A m \in Client!Number : m < i =>
            /\ policyReads'[m].at # "sent"
            /\ policyReads'[m].at = "served" => policyReads'[m].seen <= policyReads'[i].seen
      BY <1>5, <2>2, <2>3, <3>1 DEF PolicyInv, InOrder
    <3> QED
      BY <3>2, <3>3
  <2>4. ASSUME InTurn, NEW m \in Client!Number, NEW i \in Client!Number, m < i, policyReads'[i].at = "ended"
        PROVE  policyReads'[m].at # "sent"
    <3>1. policyReads[i].at \in {"served", "ended"}
      BY <1>3, <1>5, <2>4
    <3> QED
      BY <2>2, <2>4, <3>1 DEF PolicyInv, InOrder
  <2> QED
    BY <2>1, <2>3, <2>4 DEF InOrder
<1>9. LastShown'
  <2>1. ~Losses => \A m \in Client!Number : policyReads'[m].at # "failed"
    BY <1>2, <1>5 DEF PolicyInv, LastShown
  <2>2. ASSUME policyReads'[counter].at = "ended"
        PROVE  lastApplied' = counter /\ policies' = policyReads'[counter].seen
    <3>1. CASE n = counter
      <4>1. Client!Counts(n)
        BY <1>1, <3>1 DEF Client!Counts, PolicyInv, Numbered
      <4> QED
        BY <1>2, <1>3, <1>5, <3>1, <4>1
    <3>2. CASE n # counter
      <4>1. policyReads[counter].at = "ended" /\ policyReads'[counter] = policyReads[counter]
        BY <1>1, <1>5, <2>2, <3>2
      <4>2. lastApplied = counter /\ policies = policyReads[counter].seen /\ n <= counter
        BY <1>3, <4>1 DEF PolicyInv, LastShown, Numbered
      <4>3. ~Client!Counts(n)
        BY <1>1, <3>2, <4>2 DEF Client!Counts
      <4> QED
        BY <1>3, <4>1, <4>2, <4>3
    <3> QED
      BY <3>1, <3>2
  <2> QED
    BY <1>3, <2>1, <2>2 DEF LastShown
<1> QED
    BY <1>5, <1>7, <1>8, <1>9 DEF PolicyInv

(* A failed read leaves the screen alone. *)
LEMMA PolicyReadFails ==
    ASSUME Client!PoliciesAssumption, PolicyInv, NEW n \in Client!Number, Client!Fails(n)
    PROVE  PolicyInv'
<1> DEFINE new == [policyReads[n] EXCEPT !.at = "failed"]
<1>1. /\ policyReads \in [Client!Number -> Client!Read] /\ policies \in 0..MaxVersion
      /\ counter \in Client!Number
    BY PolicyTypes
<1>2. new \in Client!Read /\ new.at = "failed"
    BY <1>1 DEF Client!Read
<1>3. /\ Losses /\ policyReads[n].at # "none" /\ policyReads' = [policyReads EXCEPT ![n] = new]
      /\ version' = version /\ policies' = policies /\ counter' = counter /\ lastApplied' = lastApplied
      /\ lastLocalChange' = lastLocalChange /\ change' = change
    BY <1>1 DEF Client!Fails
<1>4. policyStatus' \in {"loading", "ready", "error"}
    BY DEF PolicyInv, Client!TypeOK, Client!Fails
<1> HIDE DEF new
<1>5. /\ Client!TypeOK' /\ Numbered' /\ policyReads'[n] = new
      /\ \A m \in Client!Number : m # n => policyReads'[m] = policyReads[m]
    BY <1>1, <1>2, <1>3, <1>4, OneRead
<1>6. \A m \in Client!Number :
        /\ policyReads'[m].at \in {"sent", "served", "ended"} => policyReads'[m] = policyReads[m]
        /\ policyReads'[m].at = "sent" => policyReads[m].at = "sent"
        /\ Client!Counts(m)' <=> Client!Counts(m)
    BY <1>2, <1>3, <1>5 DEF Client!Counts
<1>7. LaterThanHers'
    BY <1>3, <1>6 DEF PolicyInv, LaterThanHers
<1>8. InOrder'
    BY <1>3, <1>6 DEF PolicyInv, InOrder
<1>9. LastShown'
    BY <1>1, <1>3, <1>6 DEF PolicyInv, LastShown
<1> QED
    BY <1>5, <1>7, <1>8, <1>9 DEF PolicyInv

(* A change, hers or another's, is taken by the server. *)
LEMMA VersionKeeps ==
    ASSUME Client!PoliciesAssumption, PolicyInv, version' \in {version, version + 1}, version' <= MaxVersion,
           change' \in [Changes -> Client!Change],
           \A c \in Changes :
              /\ change'[c].at \in {"taken", "shown"} => change'[c].made <= version'
              /\ change'[c].at = "shown" => change'[c] = change[c],
           UNCHANGED <<policies, policyStatus, counter, lastApplied, lastLocalChange, policyReads>>
    PROVE  PolicyInv'
<1>1. /\ MaxNumber \in Nat /\ MaxVersion \in Nat /\ version \in 1..MaxVersion /\ policies \in 0..MaxVersion
      /\ counter \in 1..MaxNumber /\ policyReads \in [Client!Number -> Client!Read]
      /\ Client!Number = 1..MaxNumber
    BY PolicyTypes
<1>2. version' \in 1..MaxVersion /\ version' >= version
    BY <1>1
<1>3. Client!TypeOK' /\ Numbered' /\ LastShown'
    BY <1>2 DEF PolicyInv, Client!TypeOK, Numbered, LastShown
<1>4. \A m \in Client!Number : (Client!Counts(m)' <=> Client!Counts(m)) /\ policyReads[m].seen \in Nat
    BY <1>1 DEF Client!Counts, Client!Read
<1>5. LaterThanHers'
    BY <1>4 DEF PolicyInv, LaterThanHers
<1>6. InOrder'
  <2>1. policies <= version' /\ \A m \in Client!Number :
          policyReads[m].at \in {"served", "ended"} => policyReads[m].seen <= version'
    BY <1>1, <1>2, <1>4 DEF PolicyInv, InOrder
  <2> QED
    BY <1>4, <2>1 DEF PolicyInv, InOrder
<1> QED
    BY <1>3, <1>5, <1>6 DEF PolicyInv

LEMMA ChangeStep ==
    ASSUME Client!PoliciesAssumption, PolicyInv,
           Client!Elsewhere \/ \E c \in Changes : Client!Asks(c) \/ Client!Taken(c)
    PROVE  PolicyInv'
<1>1. /\ MaxVersion \in Nat /\ version \in 1..MaxVersion /\ change \in [Changes -> Client!Change]
    BY PolicyTypes
<1>2. \A c \in Changes : change[c].at \in {"taken", "shown"} => change[c].made <= version
    BY DEF PolicyInv, LaterThanHers
<1>3. \A c \in Changes : change[c].made \in Nat
    BY <1>1 DEF Client!Change
<1>4. CASE Client!Elsewhere
  <2>1. version' = version + 1 /\ version' <= MaxVersion /\ change' = change
    BY <1>1, <1>4 DEF Client!Elsewhere
  <2>2. \A c \in Changes : change'[c].at \in {"taken", "shown"} => change'[c].made <= version'
    BY <1>1, <1>2, <1>3, <2>1
  <2> QED
    BY <1>1, <1>4, <2>1, <2>2, VersionKeeps DEF Client!Elsewhere
<1>5. ASSUME NEW c \in Changes, Client!Asks(c)
      PROVE  PolicyInv'
  <2>1. [change[c] EXCEPT !.at = "sent"] \in Client!Change /\ [change[c] EXCEPT !.at = "sent"].at = "sent"
    BY <1>1 DEF Client!Change
  <2>2. version' = version /\ change' = [change EXCEPT ![c] = [change[c] EXCEPT !.at = "sent"]]
    BY <1>1, <1>5 DEF Client!Asks
  <2>3. /\ change' \in [Changes -> Client!Change]
        /\ \A e \in Changes : e # c => change'[e] = change[e]
        /\ change'[c].at = "sent"
    BY <1>1, <2>1, <2>2
  <2>4. \A e \in Changes :
          /\ change'[e].at \in {"taken", "shown"} => change'[e].made <= version'
          /\ change'[e].at = "shown" => change'[e] = change[e]
    BY <1>2, <2>2, <2>3
  <2> QED
    BY <1>1, <1>5, <2>2, <2>3, <2>4, VersionKeeps DEF Client!Asks
<1>6. ASSUME NEW c \in Changes, Client!Taken(c)
      PROVE  PolicyInv'
  <2>1. version' = version + 1 /\ version' <= MaxVersion
    BY <1>1, <1>6 DEF Client!Taken
  <2>2. [at |-> "taken", made |-> version + 1] \in Client!Change
    BY <1>1, <2>1 DEF Client!Change
  <2>3. /\ change' \in [Changes -> Client!Change]
        /\ \A e \in Changes : e # c => change'[e] = change[e]
        /\ change'[c] = [at |-> "taken", made |-> version + 1]
    BY <1>1, <1>6, <2>2 DEF Client!Taken
  <2>4. \A e \in Changes :
          /\ change'[e].at \in {"taken", "shown"} => change'[e].made <= version'
          /\ change'[e].at = "shown" => change'[e] = change[e]
    BY <1>1, <1>2, <1>3, <2>1, <2>3
  <2> QED
    BY <1>1, <1>6, <2>1, <2>3, <2>4, VersionKeeps DEF Client!Taken
<1> QED
    BY <1>4, <1>5, <1>6

LEMMA SendStep ==
    ASSUME Client!PoliciesAssumption, PolicyInv,
           Client!refreshPolicies \/ Client!retry \/ \E c \in Changes : Client!setPolicyForCard(c)
    PROVE  PolicyInv'
<1>1. MaxNumber \in Nat /\ counter \in 1..MaxNumber /\ policyStatus \in {"loading", "ready", "error"}
    BY PolicyTypes DEF PolicyInv, Client!TypeOK
<1>2. CASE Client!refreshPolicies \/ Client!retry
  <2>1. /\ counter + 1 <= MaxNumber /\ counter' = counter + 1 /\ policyReads' = Client!Sent(policyReads, counter + 1)
        /\ lastApplied' = lastApplied /\ policyStatus' \in {"loading", "ready", "error"} /\ version' = version
        /\ policies' = policies /\ change' = change /\ lastLocalChange' = lastLocalChange
    BY <1>1, <1>2 DEF Client!refreshPolicies, Client!retry
  <2> QED
    BY <2>1, SendKeeps
<1>3. ASSUME NEW c \in Changes, Client!setPolicyForCard(c)
      PROVE  PolicyInv'
  <2>1. /\ counter + 2 <= MaxNumber /\ counter' = counter + 2 /\ policyReads' = Client!Sent(policyReads, counter + 2)
        /\ lastApplied' = lastApplied /\ policyStatus' \in {"loading", "ready", "error"} /\ version' = version
        /\ lastLocalChange' = counter + 1
        /\ change[c].at = "taken" /\ policies' = change[c].made /\ change' = [change EXCEPT ![c].at = "shown"]
    BY <1>1, <1>3 DEF Client!setPolicyForCard
  <2> QED
    BY <2>1, SendKeeps
<1> QED
    BY <1>2, <1>3

LEMMA PolicyStep ==
    ASSUME Client!PoliciesAssumption, PolicyInv, [Client!Next]_(Client!vars)
    PROVE  PolicyInv'
<1>1. CASE UNCHANGED Client!vars
    BY <1>1 DEF Client!vars, PolicyInv, Client!TypeOK, Numbered, LaterThanHers, InOrder, LastShown, Client!Counts
<1>2. CASE Client!Next
    BY <1>2, PolicyReadServed, PolicyReadLands, PolicyReadFails, ChangeStep, SendStep DEF Client!Next
<1> QED
    BY <1>1, <1>2

LEMMA PolicyInvariant ==
    ASSUME Client!PoliciesAssumption
    PROVE  Client!Spec => []PolicyInv
BY PolicyInitially, PolicyStep, PTL DEF Client!Spec

(* No read, whenever it started and comes back, replaces what is shown by  *)
(* a policy older than a change of hers (lastLocalChange); none that lands *)
(* late shows an older policy where reads are served in turn (lastApplied).*)
THEOREM ScreenKeepsUp ==
    ASSUME Client!PoliciesAssumption
    PROVE  Client!Spec => Client!HerChangeStands /\ Client!ReadsNeverGoBack
<1>1. ASSUME PolicyInv, NEW n \in Client!Number, Client!Lands(n)
      PROVE  /\ \/ policies' = policies
                \/ policies' = policyReads[n].seen /\ Client!Counts(n) /\ policyReads[n].at = "served"
             /\ policies \in Nat /\ policies' \in Nat
    BY <1>1 DEF Client!Lands, PolicyInv, Client!TypeOK, Client!Read
<1>2. ASSUME PolicyInv, NEW n \in Client!Number, NEW c \in Changes, Client!Lands(n), change[c].at = "shown"
      PROVE  policies' = policies \/ policies' >= change[c].made
    BY <1>1, <1>2 DEF PolicyInv, LaterThanHers
<1>3. ASSUME PolicyInv, InTurn, NEW n \in Client!Number, Client!Lands(n)
      PROVE  policies' >= policies
    BY <1>1, <1>3 DEF PolicyInv, InOrder
<1>4. PolicyInv /\ [Client!Next]_(Client!vars) =>
        [\A n \in Client!Number, c \in Changes :
           Client!Lands(n) /\ change[c].at = "shown" => policies' = policies \/ policies' >= change[c].made]_(Client!vars)
    BY <1>2
<1>5. PolicyInv /\ [Client!Next]_(Client!vars) =>
        [InTurn /\ (\E n \in Client!Number : Client!Lands(n)) => policies' >= policies]_(Client!vars)
    BY <1>3
<1> QED
    BY <1>4, <1>5, PolicyInvariant, PTL DEF Client!Spec, Client!HerChangeStands, Client!ReadsNeverGoBack

(* Dropping reads loses nothing: once all are back, what the last one saw  *)
(* is on screen.                                                           *)
THEOREM LastReadStays ==
    ASSUME Client!PoliciesAssumption
    PROVE  Client!Spec => []Client!LastReadShown
<1>1. ASSUME PolicyInv, \A n \in Client!Number : policyReads[n].at \notin {"sent", "served"}, ~Losses,
             NEW n \in Client!Number, policyReads[n].at = "ended",
             \A m \in {i \in Client!Number : policyReads[i].at = "ended"} : m <= n
      PROVE  policies = policyReads[n].seen
  <2>1. policyReads[counter] \in Client!Read /\ counter \in Client!Number /\ policyReads[counter].at \notin {"none", "failed"}
    BY <1>1 DEF PolicyInv, Client!TypeOK, Numbered, LastShown
  <2>2. policyReads[counter].at = "ended"
    BY <1>1, <2>1 DEF Client!Read
  <2>3. n <= counter /\ counter <= n
    BY <1>1, <2>1, <2>2 DEF PolicyInv, Numbered
  <2>4. n = counter
    BY <2>1, <2>3 DEF Client!Number
  <2> QED
    BY <1>1, <2>2, <2>4 DEF PolicyInv, LastShown
<1>2. PolicyInv => Client!LastReadShown
    BY <1>1 DEF Client!LastReadShown
<1> QED
    BY <1>2, PolicyInvariant, PTL

-----------------------------------------------------------------------------
(***************************************************************************)
(* The messages a model rewrites (Rewrites), for any decisions and threads.*)
(***************************************************************************)
CONSTANTS Decisions, StepUps, Threads, Standby, Early

VARIABLES row, task, snap, text, out, shown, models

Messages == INSTANCE Rewrites

Message == [lead : {"none", "asked", "decided"} \cup Messages!Answers, says : SUBSET (Messages!Facts \cup Messages!Strange)]
MessageRow == [message : Message, source : {"template", "model"}, answer : Messages!Answers \cup {"none"}]
Fresh(d) == [message |-> Messages!Template(d), source |-> "template", answer |-> "none"]
Rows == {<< >>} \cup {<<r>> : r \in MessageRow}

MessageTypes ==
    /\ row \in [Decisions -> Rows] /\ shown \in [Decisions -> Rows]
    /\ task \in [Decisions -> {"none", "scheduled", "waiting", "writing", "wrote", "checked", "over"}]
    /\ snap \in [Decisions -> Message] /\ text \in [Decisions -> Message]
    /\ out \in Seq([id : Decisions, row : MessageRow])

(* A text that will be stored repeats the facts, unless the window closed. *)
Expired(d) == row[d][1].answer = "expired"
Repeats ==
    \A d \in Decisions :
      /\ row[d] # << >> /\ ~Expired(d) => row[d][1].message.says = Messages!Facts
      /\ task[d] # "none" => row[d] # << >>
      /\ task[d] \in {"waiting", "writing"} => snap[d].says = Messages!Facts \/ Expired(d)
      /\ task[d] \in {"wrote", "checked"} => text[d].says = Messages!Facts \/ Expired(d)

(* Answers come after the POST, and the rewrite starts from what was asked.*)
AsAsked ==
    ~Early => \A d \in Decisions :
      /\ row[d] # << >> /\ task[d] \in {"none", "scheduled"} => row[d][1] = Fresh(d)
      /\ task[d] \in {"waiting", "writing", "wrote", "checked"} => snap[d] = Messages!Template(d)
Unchecked == ~Standby => \A d \in Decisions : task[d] # "checked"
Says == ~Standby /\ ~Early => Messages!AnswerStands

(* What was told of a step-up, what waits to be told, and the row agree on *)
(* its answer, in this order.                                              *)
ToldInOrder ==
    ~Early => \A d \in Decisions :
      /\ shown[d] # << >> /\ shown[d][1].answer # "none" =>
           /\ row[d] # << >> /\ row[d][1].answer = shown[d][1].answer
           /\ \A i \in 1..Len(out) : out[i].id = d => out[i].row.answer = shown[d][1].answer
      /\ \A i \in 1..Len(out) : out[i].id = d /\ out[i].row.answer # "none" =>
           /\ row[d] # << >> /\ row[d][1].answer = out[i].row.answer
           /\ \A j \in i..Len(out) : out[j].id = d => out[j].row.answer = out[i].row.answer

MessageInv == MessageTypes /\ Repeats /\ AsAsked /\ Unchecked /\ Says /\ ToldInOrder

-----------------------------------------------------------------------------
LEMMA AsksAreMessages ==
    ASSUME NEW d \in Decisions
    PROVE  /\ Messages!Template(d) \in Message /\ Messages!Template(d).says = Messages!Facts
           /\ Messages!Template(d).lead \in {"asked", "decided"}
           /\ Fresh(d) \in MessageRow /\ Fresh(d).message = Messages!Template(d) /\ Fresh(d).answer = "none"
           /\ Fresh(d).source = "template" /\ Messages!None \in Message
BY DEF Messages!Template, Message, MessageRow, Fresh, Messages!None, Messages!Facts

LEMMA RowsHaveOne ==
    /\ << >> \in Rows /\ \A r \in MessageRow : <<r>> \in Rows /\ <<r>> # << >> /\ <<r>>[1] = r
    /\ \A s \in Rows : s # << >> => s[1] \in MessageRow /\ s = <<s[1]>>
BY DEF Rows

LEMMA MessageRowFields ==
    ASSUME NEW r \in MessageRow, NEW m \in Message, NEW a
    PROVE  /\ [[r EXCEPT !.message = m] EXCEPT !.answer = a] = [message |-> m, source |-> r.source, answer |-> a]
           /\ [[r EXCEPT !.message = m] EXCEPT !.source = a] = [message |-> m, source |-> a, answer |-> r.answer]
<1>1. r = [message |-> r.message, source |-> r.source, answer |-> r.answer]
    BY DEF MessageRow
<1>2. [r EXCEPT !.message = m] = [message |-> m, source |-> r.source, answer |-> r.answer]
    BY <1>1
<1>3. [[message |-> m, source |-> r.source, answer |-> r.answer] EXCEPT !.answer = a]
        = [message |-> m, source |-> r.source, answer |-> a]
    OBVIOUS
<1>4. [[message |-> m, source |-> r.source, answer |-> r.answer] EXCEPT !.source = a]
        = [message |-> m, source |-> a, answer |-> r.answer]
    OBVIOUS
<1> QED
    BY <1>2, <1>3, <1>4

LEMMA OneField ==
    ASSUME NEW r, NEW m, NEW a
    PROVE  /\ [<<r>> EXCEPT ![1].message = m] = <<[r EXCEPT !.message = m]>>
           /\ [<<r>> EXCEPT ![1].answer = a] = <<[r EXCEPT !.answer = a]>>
           /\ [<<r>> EXCEPT ![1].source = a] = <<[r EXCEPT !.source = a]>>
<1>1. ASSUME NEW f, NEW g
      PROVE  [<<f>> EXCEPT ![1] = g] = <<g>> /\ <<f>>[1] = f
    OBVIOUS
<1> QED
    BY <1>1

(* One row is rewritten, or answered. *)
LEMMA OneMessage ==
    ASSUME MessageTypes, NEW d \in Decisions, row[d] # << >>
    PROVE  /\ row[d][1] \in MessageRow /\ row[d] = <<row[d][1]>>
           /\ \A m \in Message, a \in Messages!Answers :
                [row EXCEPT ![d][1].message = m, ![d][1].answer = a]
                  = [row EXCEPT ![d] = <<[message |-> m, source |-> row[d][1].source, answer |-> a]>>]
           /\ \A m \in Message :
                [row EXCEPT ![d][1].message = m, ![d][1].source = "model"]
                  = [row EXCEPT ![d] = <<[message |-> m, source |-> "model", answer |-> row[d][1].answer]>>]
<1>1. PICK r \in MessageRow : row[d] = <<r>> /\ row[d][1] = r
    BY DEF MessageTypes, Rows
<1>2. ASSUME NEW m \in Message, NEW a \in Messages!Answers
      PROVE  [row EXCEPT ![d][1].message = m, ![d][1].answer = a]
               = [row EXCEPT ![d] = <<[message |-> m, source |-> r.source, answer |-> a]>>]
  <2> DEFINE first == [r EXCEPT !.message = m]
  <2>1. [row[d] EXCEPT ![1].message = m] = <<first>>
    BY <1>1, OneField
  <2>2. [<<first>> EXCEPT ![1].answer = a] = <<[first EXCEPT !.answer = a]>>
    BY OneField
  <2>3. [first EXCEPT !.answer = a] = [message |-> m, source |-> r.source, answer |-> a]
    BY MessageRowFields, Zenon
  <2>4. [row EXCEPT ![d][1].message = m, ![d][1].answer = a]
          = [row EXCEPT ![d] = [[row[d] EXCEPT ![1].message = m] EXCEPT ![1].answer = a]]
    BY DEF MessageTypes
  <2> HIDE DEF first
  <2> QED
    BY <2>1, <2>2, <2>3, <2>4
<1>3. ASSUME NEW m \in Message
      PROVE  [row EXCEPT ![d][1].message = m, ![d][1].source = "model"]
               = [row EXCEPT ![d] = <<[message |-> m, source |-> "model", answer |-> r.answer]>>]
  <2> DEFINE first == [r EXCEPT !.message = m]
  <2>1. [row[d] EXCEPT ![1].message = m] = <<first>>
    BY <1>1, OneField
  <2>2. [<<first>> EXCEPT ![1].source = "model"] = <<[first EXCEPT !.source = "model"]>>
    BY OneField
  <2>3. [first EXCEPT !.source = "model"] = [message |-> m, source |-> "model", answer |-> r.answer]
    BY MessageRowFields
  <2>4. [row EXCEPT ![d][1].message = m, ![d][1].source = "model"]
          = [row EXCEPT ![d] = [[row[d] EXCEPT ![1].message = m] EXCEPT ![1].source = "model"]]
    BY DEF MessageTypes
  <2> HIDE DEF first
  <2> QED
    BY <2>1, <2>2, <2>3, <2>4
<1> QED
    BY <1>1, <1>2, <1>3
LEMMA MessagesInitially ==
    ASSUME Messages!RewritesAssumption, Messages!Init
    PROVE  MessageInv
<1>1. /\ row = [d \in Decisions |-> << >>] /\ shown = [d \in Decisions |-> << >>] /\ out = << >>
      /\ task = [d \in Decisions |-> "none"] /\ snap \in [Decisions -> Message] /\ text \in [Decisions -> Message]
  <2>1. Messages!None \in Message
    BY DEF Messages!None, Message
  <2> QED
    BY <2>1 DEF Messages!Init
<1>2. MessageTypes
    BY <1>1, RowsHaveOne DEF MessageTypes
<1>3. \A d \in Decisions : row[d] = << >> /\ shown[d] = << >> /\ task[d] = "none"
    BY <1>1
<1>4. Repeats /\ AsAsked /\ Unchecked
    BY <1>3 DEF Repeats, AsAsked, Unchecked
<1>5. Says
    BY <1>3 DEF Says, Messages!AnswerStands, Messages!RewritesAssumption
<1>6. ToldInOrder
    BY <1>1, <1>3 DEF ToldInOrder
<1> QED
    BY <1>2, <1>4, <1>5, <1>6 DEF MessageInv

(* One row changes, to an answer it has only if it had it before, or if    *)
(* nobody was told of one; and it may be told.                             *)
LEMMA RowChanges ==
    ASSUME MessageTypes, ToldInOrder, NEW d \in Decisions, NEW new \in MessageRow,
           row' = [row EXCEPT ![d] = <<new>>], shown' = shown,
           row[d] # << >> /\ row[d][1].answer # "none" => new.answer = row[d][1].answer,
           out' = out \/ out' = Append(out, [id |-> d, row |-> new])
    PROVE  /\ ToldInOrder' /\ row' \in [Decisions -> Rows] /\ out' \in Seq([id : Decisions, row : MessageRow])
           /\ row'[d] = <<new>> /\ row'[d][1] = new
           /\ \A e \in Decisions : e # d => row'[e] = row[e]
<1>1. /\ row \in [Decisions -> Rows] /\ out \in Seq([id : Decisions, row : MessageRow])
      /\ <<new>> \in Rows /\ <<new>>[1] = new
    BY RowsHaveOne DEF MessageTypes
<1>2. /\ row' \in [Decisions -> Rows] /\ row'[d] = <<new>> /\ row'[d][1] = new /\ row'[d] # << >>
      /\ \A e \in Decisions : e # d => row'[e] = row[e]
    BY <1>1
<1>3. [id |-> d, row |-> new] \in [id : Decisions, row : MessageRow]
    OBVIOUS
<1>4. out' \in Seq([id : Decisions, row : MessageRow])
  <2>1. \A S : \A s \in Seq(S), x \in S : Append(s, x) \in Seq(S)
    OBVIOUS
  <2> QED
    BY <1>1, <1>3, <2>1, ZenonT(60)
(* What waits to be told is what waited, and perhaps the new row. *)
<1>5. /\ Len(out) \in Nat /\ Len(out') \in Nat
      /\ \A i \in 1..Len(out') :
           \/ i \in 1..Len(out) /\ out'[i] = out[i]
           \/ i = Len(out') /\ Len(out') = Len(out) + 1 /\ out'[i].id = d /\ out'[i].row = new
    BY <1>1, <1>3, SMTT(30)
<1>6. ASSUME ~Early, NEW e \in Decisions, shown[e] # << >>, shown[e][1].answer # "none"
      PROVE  /\ row'[e] # << >> /\ row'[e][1].answer = shown[e][1].answer
             /\ \A i \in 1..Len(out') : out'[i].id = e => out'[i].row.answer = shown[e][1].answer
  <2>1. /\ row[e] # << >> /\ row[e][1].answer = shown[e][1].answer
        /\ \A i \in 1..Len(out) : out[i].id = e => out[i].row.answer = shown[e][1].answer
    BY <1>6 DEF ToldInOrder
  <2>2. row'[e] # << >> /\ row'[e][1].answer = shown[e][1].answer
    BY <1>2, <1>6, <2>1
  <2>3. e = d => new.answer = shown[e][1].answer
    BY <1>6, <2>1
  <2> QED
    BY <1>5, <2>1, <2>2, <2>3
<1>7. ASSUME ~Early, NEW e \in Decisions, NEW i \in 1..Len(out'), out'[i].id = e, out'[i].row.answer # "none"
      PROVE  /\ row'[e] # << >> /\ row'[e][1].answer = out'[i].row.answer
             /\ \A j \in i..Len(out') : out'[j].id = e => out'[j].row.answer = out'[i].row.answer
  <2>1. CASE i \in 1..Len(out) /\ out'[i] = out[i]
    <3>1. /\ row[e] # << >> /\ row[e][1].answer = out[i].row.answer
          /\ \A j \in i..Len(out) : out[j].id = e => out[j].row.answer = out[i].row.answer
      BY <1>7, <2>1 DEF ToldInOrder
    <3>2. row'[e] # << >> /\ row'[e][1].answer = out'[i].row.answer
      BY <1>2, <1>7, <2>1, <3>1
    <3>3. e = d => new.answer = out'[i].row.answer
      BY <1>7, <2>1, <3>1
    <3>4. ASSUME NEW j \in i..Len(out'), out'[j].id = e
          PROVE  out'[j].row.answer = out'[i].row.answer
      <4>1. j \in 1..Len(out')
        BY <1>5, <3>4
      <4>2. CASE j \in 1..Len(out) /\ out'[j] = out[j]
        <5>1. j \in i..Len(out)
          BY <3>4, <4>2
        <5> QED
          BY <2>1, <3>1, <3>4, <4>2, <5>1
      <4>3. CASE out'[j].id = d /\ out'[j].row = new
        BY <3>3, <3>4, <4>3
      <4> QED
        BY <1>5, <4>1, <4>2, <4>3
    <3> QED
      BY <3>2, <3>4
  <2>2. CASE i = Len(out') /\ out'[i].id = d /\ out'[i].row = new
    <3>1. \A j \in i..Len(out') : j = i
      BY <1>5, <2>2
    <3> QED
      BY <1>2, <1>7, <2>2, <3>1
  <2> QED
    BY <1>5, <1>7, <2>1, <2>2
<1>8. ToldInOrder'
    BY <1>6, <1>7 DEF ToldInOrder
<1> QED
    BY <1>2, <1>4, <1>8

(* The decision is stored; then it is posted, and listeners hear of it. *)
LEMMA RecordKeeps ==
    ASSUME Messages!RewritesAssumption, MessageInv, NEW d \in Decisions, Messages!Record(d)
    PROVE  MessageInv'
<1>1. /\ row[d] = << >> /\ row' = [row EXCEPT ![d] = <<Fresh(d)>>]
      /\ task' = task /\ snap' = snap /\ text' = text /\ out' = out /\ shown' = shown
    BY DEF Messages!Record, Fresh
<1>2. /\ Fresh(d) \in MessageRow /\ Fresh(d).message.says = Messages!Facts /\ Fresh(d).answer = "none"
    BY AsksAreMessages
<1> HIDE DEF Fresh
<1>3. /\ ToldInOrder' /\ row' \in [Decisions -> Rows] /\ out' \in Seq([id : Decisions, row : MessageRow])
      /\ row'[d] = <<Fresh(d)>> /\ row'[d][1] = Fresh(d)
      /\ \A e \in Decisions : e # d => row'[e] = row[e]
    BY <1>1, <1>2, RowChanges DEF MessageInv
<1>4. MessageTypes'
    BY <1>1, <1>3 DEF MessageInv, MessageTypes
<1>5. task[d] = "none"
    BY <1>1 DEF MessageInv, Repeats
<1>6. Repeats'
  <2>1. ASSUME NEW e \in Decisions, e # d
        PROVE  /\ row'[e] # << >> /\ ~Expired(e)' => row'[e][1].message.says = Messages!Facts
               /\ task'[e] # "none" => row'[e] # << >>
               /\ task'[e] \in {"waiting", "writing"} => snap'[e].says = Messages!Facts \/ Expired(e)'
               /\ task'[e] \in {"wrote", "checked"} => text'[e].says = Messages!Facts \/ Expired(e)'
    BY <1>1, <1>3, <2>1 DEF MessageInv, Repeats, Expired
  <2> QED
    BY <1>1, <1>2, <1>3, <1>5, <2>1 DEF Repeats, Messages!Facts
<1>7. AsAsked'
    BY <1>1, <1>3, <1>5 DEF MessageInv, AsAsked, Fresh
<1>8. Unchecked'
    BY <1>1 DEF MessageInv, Unchecked
<1>9. Says'
    BY <1>1, <1>2, <1>3 DEF MessageInv, Says, Messages!AnswerStands, Messages!RewritesAssumption
<1> QED
    BY <1>3, <1>4, <1>6, <1>7, <1>8, <1>9 DEF MessageInv
LEMMA PostedKeeps ==
    ASSUME Messages!RewritesAssumption, MessageInv, NEW d \in Decisions, Messages!Posted(d)
    PROVE  MessageInv'
<1>1. /\ row[d] # << >> /\ task[d] = "none" /\ row' = row /\ snap' = snap /\ text' = text /\ shown' = shown
      /\ out' = Append(out, [id |-> d, row |-> Fresh(d)])
      /\ task' = [task EXCEPT ![d] = IF models THEN "scheduled" ELSE "over"]
    BY DEF Messages!Posted, Messages!Tell, Fresh
<1>2. /\ row \in [Decisions -> Rows] /\ row[d] \in Rows
      /\ task \in [Decisions -> {"none", "scheduled", "waiting", "writing", "wrote", "checked", "over"}]
    BY DEF MessageInv, MessageTypes
<1>3. /\ task' \in [Decisions -> {"none", "scheduled", "waiting", "writing", "wrote", "checked", "over"}]
      /\ task'[d] \in {"scheduled", "over"} /\ \A e \in Decisions : e # d => task'[e] = task[e]
    BY <1>1, <1>2
<1>4. Fresh(d) \in MessageRow
    BY AsksAreMessages
<1>5. out' \in Seq([id : Decisions, row : MessageRow]) /\ (~Early => ToldInOrder')
  <2>1. CASE Early
    <3>1. \A S : \A s \in Seq(S), x \in S : Append(s, x) \in Seq(S)
      OBVIOUS
    <3> QED
      BY <1>1, <1>4, <2>1, <3>1 DEF MessageInv, MessageTypes
  <2>2. CASE ~Early
    <3>1. row[d][1] = Fresh(d) /\ row[d] = <<Fresh(d)>>
      BY <1>1, <1>2, <2>2, RowsHaveOne DEF MessageInv, AsAsked
    <3>2. row' = [row EXCEPT ![d] = <<Fresh(d)>>]
      BY <1>1, <1>2, <3>1
    <3> QED
      BY <1>1, <1>4, <3>1, <3>2, RowChanges DEF MessageInv
  <2> QED
    BY <2>1, <2>2
<1>6. MessageTypes'
    BY <1>1, <1>2, <1>3, <1>5 DEF MessageInv, MessageTypes
<1>7. Repeats'
    BY <1>1, <1>3 DEF MessageInv, Repeats, Expired
<1>8. AsAsked' /\ Unchecked' /\ ToldInOrder'
    BY <1>1, <1>3, <1>5 DEF MessageInv, AsAsked, Unchecked, ToldInOrder, Fresh
<1>9. Says'
    BY <1>1 DEF MessageInv, Says, Messages!AnswerStands
<1> QED
    BY <1>6, <1>7, <1>8, <1>9 DEF MessageInv

(* The rewrite's own steps, until it stores: no row changes. *)
LEMMA TaskKeeps ==
    ASSUME MessageInv, NEW d \in Decisions, task[d] # "none",
           UNCHANGED <<row, out, shown>>,
           task' \in [Decisions -> {"none", "scheduled", "waiting", "writing", "wrote", "checked", "over"}],
           task'[d] \in {"waiting", "writing", "wrote", "checked", "over"},
           snap' \in [Decisions -> Message], text' \in [Decisions -> Message],
           \A e \in Decisions : e # d => task'[e] = task[e] /\ snap'[e] = snap[e] /\ text'[e] = text[e],
           task'[d] \in {"waiting", "writing"} => snap'[d].says = Messages!Facts \/ Expired(d),
           task'[d] \in {"wrote", "checked"} => text'[d].says = Messages!Facts \/ Expired(d),
           ~Early /\ task'[d] # "over" => snap'[d] = Messages!Template(d),
           ~Standby => task'[d] # "checked"
    PROVE  MessageInv'
<1>1. MessageTypes'
    BY DEF MessageInv, MessageTypes
<1>2. Repeats'
    BY DEF MessageInv, Repeats, Expired
<1>3. AsAsked' /\ Unchecked' /\ ToldInOrder'
    BY DEF MessageInv, AsAsked, Unchecked, ToldInOrder, Fresh
<1>4. Says'
    BY DEF MessageInv, Says, Messages!AnswerStands
<1> QED
    BY <1>1, <1>2, <1>3, <1>4 DEF MessageInv

LEMMA StartKeeps ==
    ASSUME Messages!RewritesAssumption, MessageInv, NEW d \in Decisions, Messages!Start(d)
    PROVE  MessageInv'
<1>1. /\ row' = row /\ out' = out /\ shown' = shown /\ text' = text /\ task[d] = "scheduled"
      /\ \/ task' = [task EXCEPT ![d] = "waiting"] /\ snap' = [snap EXCEPT ![d] = row[d][1].message]
         \/ task' = [task EXCEPT ![d] = "over"] /\ snap' = snap
    BY DEF Messages!Start
<1>2. /\ row[d] # << >> /\ row[d] \in Rows /\ snap \in [Decisions -> Message] /\ text \in [Decisions -> Message]
      /\ task \in [Decisions -> {"none", "scheduled", "waiting", "writing", "wrote", "checked", "over"}]
    BY <1>1 DEF MessageInv, MessageTypes, Repeats
<1>3. row[d][1].message \in Message
    BY <1>2, RowsHaveOne DEF MessageRow
<1>4. row[d][1].message.says = Messages!Facts \/ Expired(d)
    BY <1>2 DEF MessageInv, Repeats
<1>5. ~Early => row[d][1].message = Messages!Template(d)
    BY <1>1, <1>2, AsksAreMessages DEF MessageInv, AsAsked
<1>6. /\ task' \in [Decisions -> {"none", "scheduled", "waiting", "writing", "wrote", "checked", "over"}]
      /\ task'[d] \in {"waiting", "over"} /\ snap' \in [Decisions -> Message]
      /\ \A e \in Decisions : e # d => task'[e] = task[e] /\ snap'[e] = snap[e]
      /\ task'[d] = "waiting" => snap'[d] = row[d][1].message
    BY <1>1, <1>2, <1>3
<1> QED
    BY <1>1, <1>2, <1>4, <1>5, <1>6, TaskKeeps

LEMMA WritingKeeps ==
    ASSUME Messages!RewritesAssumption, MessageInv, NEW d \in Decisions,
           Messages!TakeThread(d) \/ Messages!Rewritten(d)
    PROVE  MessageInv'
<1>1. /\ row' = row /\ out' = out /\ shown' = shown /\ snap' = snap /\ task[d] \in {"waiting", "writing"}
    BY DEF Messages!TakeThread, Messages!Rewritten
<1>2. /\ snap \in [Decisions -> Message] /\ text \in [Decisions -> Message]
      /\ task \in [Decisions -> {"none", "scheduled", "waiting", "writing", "wrote", "checked", "over"}]
      /\ snap[d].says = Messages!Facts \/ Expired(d)
      /\ ~Early => snap[d] = Messages!Template(d)
    BY <1>1 DEF MessageInv, MessageTypes, Repeats, AsAsked
<1>3. \/ task' = [task EXCEPT ![d] = "writing"] /\ text' = text
      \/ task' = [task EXCEPT ![d] = "over"] /\ text' = text
      \/ /\ task' = [task EXCEPT ![d] = "wrote"]
         /\ \E said \in SUBSET (Messages!Facts \cup Messages!Strange) :
              Messages!Acceptable(said, snap[d]) /\ text' = [text EXCEPT ![d] = [lead |-> "none", says |-> said]]
    BY DEF Messages!TakeThread, Messages!Rewritten
<1>4. CASE task' = [task EXCEPT ![d] = "writing"] /\ text' = text
    BY <1>1, <1>2, <1>4, TaskKeeps
<1>5. CASE task' = [task EXCEPT ![d] = "over"] /\ text' = text
    BY <1>1, <1>2, <1>5, TaskKeeps
<1>6. ASSUME task' = [task EXCEPT ![d] = "wrote"], NEW said \in SUBSET (Messages!Facts \cup Messages!Strange),
             Messages!Acceptable(said, snap[d]), text' = [text EXCEPT ![d] = [lead |-> "none", says |-> said]]
      PROVE  MessageInv'
  <2>1. [lead |-> "none", says |-> said] \in Message
    BY DEF Message
  <2>2. snap[d].says = Messages!Facts => said = Messages!Facts
    BY <1>6 DEF Messages!Acceptable
  <2>3. /\ text' \in [Decisions -> Message] /\ text'[d].says = said
        /\ \A e \in Decisions : e # d => text'[e] = text[e] /\ task'[e] = task[e]
        /\ task'[d] = "wrote"
        /\ task' \in [Decisions -> {"none", "scheduled", "waiting", "writing", "wrote", "checked", "over"}]
    BY <1>2, <1>6, <2>1
  <2> QED
    BY <1>1, <1>2, <2>2, <2>3, TaskKeeps
<1> QED
    BY <1>3, <1>4, <1>5, <1>6
(* Storing: only over a message that has no answer yet, in one process.    *)
LEMMA StoresKeeps ==
    ASSUME Messages!RewritesAssumption, MessageInv, NEW d \in Decisions,
           Messages!Store(d) \/ Messages!StoreChecked(d)
    PROVE  MessageInv'
<1> DEFINE new == [message |-> text[d], source |-> "model", answer |-> row[d][1].answer]
<1>1. /\ task[d] \in {"wrote", "checked"} /\ snap' = snap /\ text' = text /\ shown' = shown /\ row[d] # << >>
    BY DEF Messages!Store, Messages!StoreChecked, MessageInv, Repeats
<1>2. /\ snap \in [Decisions -> Message] /\ text \in [Decisions -> Message] /\ text[d] \in Message
      /\ task \in [Decisions -> {"none", "scheduled", "waiting", "writing", "wrote", "checked", "over"}]
      /\ text[d].says = Messages!Facts \/ Expired(d)
      /\ ~Early => snap[d] = Messages!Template(d)
    BY <1>1 DEF MessageInv, MessageTypes, Repeats, AsAsked
<1>3. \/ task' = [task EXCEPT ![d] = "over"] /\ row' = row /\ out' = out
      \/ Standby /\ task' = [task EXCEPT ![d] = "checked"] /\ row' = row /\ out' = out
      \/ Messages!SetExplanation(d) /\ (~Standby => Messages!StillThere(d))
    BY <1>1 DEF Messages!Store, Messages!StoreChecked, MessageInv, Unchecked
<1>4. CASE task' = [task EXCEPT ![d] = "over"] /\ row' = row /\ out' = out
    BY <1>1, <1>2, <1>4, TaskKeeps
<1>5. CASE Standby /\ task' = [task EXCEPT ![d] = "checked"] /\ row' = row /\ out' = out
    BY <1>1, <1>2, <1>5, TaskKeeps
<1>6. CASE Messages!SetExplanation(d) /\ (~Standby => Messages!StillThere(d))
  <2>1. row[d][1] \in MessageRow /\ new \in MessageRow /\ new.answer = row[d][1].answer /\ new.message = text[d]
    <3>1. row[d][1] \in MessageRow
      BY <1>1, OneMessage DEF MessageInv
    <3> QED
      BY <1>2, <3>1 DEF MessageRow
  <2>2. row' = [row EXCEPT ![d] = <<new>>]
    BY <1>1, <1>2, <1>6, OneMessage DEF MessageInv, Messages!SetExplanation
  <2>3. row'[d][1] = new
    BY <2>1, <2>2, RowsHaveOne DEF MessageInv, MessageTypes
  <2>4. out' = Append(out, [id |-> d, row |-> new]) /\ task' = [task EXCEPT ![d] = "over"]
    BY <1>6, <2>3 DEF Messages!SetExplanation, Messages!Tell
  <2> HIDE DEF new
  <2>5. /\ ToldInOrder' /\ row' \in [Decisions -> Rows] /\ out' \in Seq([id : Decisions, row : MessageRow])
        /\ row'[d] = <<new>> /\ row'[d] # << >>
        /\ \A e \in Decisions : e # d => row'[e] = row[e]
    BY <1>1, <2>1, <2>2, <2>4, RowChanges, RowsHaveOne DEF MessageInv
  <2>6. /\ task' \in [Decisions -> {"none", "scheduled", "waiting", "writing", "wrote", "checked", "over"}]
        /\ task'[d] = "over" /\ \A e \in Decisions : e # d => task'[e] = task[e]
    BY <1>2, <2>4
  <2>7. MessageTypes'
    BY <1>1, <2>5, <2>6 DEF MessageInv, MessageTypes
  <2>8. Repeats'
    <3>1. ASSUME NEW e \in Decisions, e # d
          PROVE  /\ row'[e] # << >> /\ ~Expired(e)' => row'[e][1].message.says = Messages!Facts
                 /\ task'[e] # "none" => row'[e] # << >>
                 /\ task'[e] \in {"waiting", "writing"} => snap'[e].says = Messages!Facts \/ Expired(e)'
                 /\ task'[e] \in {"wrote", "checked"} => text'[e].says = Messages!Facts \/ Expired(e)'
      BY <1>1, <2>5, <2>6, <3>1 DEF MessageInv, Repeats, Expired
    <3>2. row'[d][1].message.says = Messages!Facts \/ Expired(d)'
      BY <1>2, <2>1, <2>3 DEF Expired
    <3> QED
      BY <2>5, <2>6, <3>1, <3>2 DEF Repeats
  <2>9. AsAsked' /\ Unchecked'
    BY <1>1, <2>5, <2>6 DEF MessageInv, AsAsked, Unchecked, Fresh
  <2>10. Says'
    <3>1. ASSUME ~Standby, ~Early, d \in StepUps, new.answer # "none"
          PROVE  FALSE
      <4>1. row[d][1].message = Messages!Template(d)
        BY <1>2, <1>6, <3>1 DEF Messages!StillThere
      <4>2. row[d][1].message.lead = row[d][1].answer
        BY <1>1, <2>1, <3>1 DEF MessageInv, Says, Messages!AnswerStands
      <4>3. row[d][1].answer \in Messages!Answers
        BY <2>1, <3>1 DEF MessageRow
      <4> QED
        BY <4>1, <4>2, <4>3, AsksAreMessages DEF Messages!Answers
    <3> QED
      BY <2>3, <2>5, <3>1 DEF MessageInv, Says, Messages!AnswerStands, Messages!RewritesAssumption
  <2> QED
    BY <2>5, <2>7, <2>8, <2>9, <2>10 DEF MessageInv
<1> QED
    BY <1>3, <1>4, <1>5, <1>6

(* The customer answers, or the window closes, here or in another process. *)
LEMMA CloseKeeps ==
    ASSUME Messages!RewritesAssumption, MessageInv, NEW d \in Decisions, NEW answer \in Messages!Answers,
           Messages!Close(d, answer) \/ Messages!StandbyClose(d, answer)
    PROVE  MessageInv'
<1> DEFINE old == row[d][1].message
           said == Messages!Answered(old, answer)
           new == [message |-> said, source |-> row[d][1].source, answer |-> answer]
<1>1. /\ row[d] # << >> /\ d \in StepUps /\ row[d][1].answer = "none" /\ (Early \/ task[d] \notin {"none", "scheduled"})
      /\ Messages!Resolve(d, answer)
      /\ task' = task /\ snap' = snap /\ text' = text /\ shown' = shown
      /\ out' = out \/ Messages!Tell(d, row'[d][1])
    BY DEF Messages!Close, Messages!StandbyClose, Messages!Asked
<1>2. row[d][1] \in MessageRow /\ old \in Message /\ row[d][1].source \in {"template", "model"}
    BY <1>1, OneMessage DEF MessageInv, MessageRow
<1>3. said \in Message /\ said.lead = answer /\ (answer # "expired" => said.says = old.says)
    BY <1>2 DEF Messages!Answered, Message, Messages!Answers
<1> HIDE DEF said, old
<1>4. new \in MessageRow /\ new.answer = answer /\ new.message = said
    BY <1>2, <1>3 DEF MessageRow
<1>5. row' = [row EXCEPT ![d] = <<new>>]
  <2>1. row' = [row EXCEPT ![d][1].message = said, ![d][1].answer = answer]
    BY <1>1 DEF Messages!Resolve, said, old
  <2>2. \A m \in Message, a \in Messages!Answers :
          [row EXCEPT ![d][1].message = m, ![d][1].answer = a]
            = [row EXCEPT ![d] = <<[message |-> m, source |-> row[d][1].source, answer |-> a]>>]
    BY <1>1, OneMessage DEF MessageInv
  <2>3. said \in Message /\ answer \in Messages!Answers
    BY <1>3
  <2> QED
    BY <2>1, <2>2, <2>3, Zenon
<1>6. row'[d][1] = new
    BY <1>4, <1>5, RowsHaveOne DEF MessageInv, MessageTypes
<1>7. out' = out \/ out' = Append(out, [id |-> d, row |-> new])
    BY <1>1, <1>6 DEF Messages!Tell
<1> HIDE DEF new
<1>8. /\ ToldInOrder' /\ row' \in [Decisions -> Rows] /\ out' \in Seq([id : Decisions, row : MessageRow])
      /\ row'[d] = <<new>> /\ row'[d] # << >>
      /\ \A e \in Decisions : e # d => row'[e] = row[e]
    BY <1>1, <1>4, <1>5, <1>7, RowChanges, RowsHaveOne DEF MessageInv
<1>9. MessageTypes'
    BY <1>1, <1>8 DEF MessageInv, MessageTypes
<1>10. Repeats'
  <2>1. ASSUME NEW e \in Decisions, e # d
        PROVE  /\ row'[e] # << >> /\ ~Expired(e)' => row'[e][1].message.says = Messages!Facts
               /\ task'[e] # "none" => row'[e] # << >>
               /\ task'[e] \in {"waiting", "writing"} => snap'[e].says = Messages!Facts \/ Expired(e)'
               /\ task'[e] \in {"wrote", "checked"} => text'[e].says = Messages!Facts \/ Expired(e)'
    BY <1>1, <1>8, <2>1 DEF MessageInv, Repeats, Expired
  <2>2. ~Expired(d)
    BY <1>1 DEF Expired
  <2>3. /\ task[d] \in {"waiting", "writing"} => snap[d].says = Messages!Facts
        /\ task[d] \in {"wrote", "checked"} => text[d].says = Messages!Facts
        /\ old.says = Messages!Facts
    BY <1>1, <2>2 DEF MessageInv, Repeats, old
  <2>4. row'[d][1].message.says = Messages!Facts \/ Expired(d)'
    BY <1>3, <1>4, <1>6, <2>3 DEF Expired
  <2> QED
    BY <1>1, <1>8, <2>1, <2>3, <2>4 DEF Repeats
<1>11. AsAsked' /\ Unchecked'
    BY <1>1, <1>8 DEF MessageInv, AsAsked, Unchecked, Fresh
<1>12. Says'
    BY <1>3, <1>4, <1>6, <1>8 DEF MessageInv, Says, Messages!AnswerStands, Messages!RewritesAssumption
<1> QED
    BY <1>8, <1>9, <1>10, <1>11, <1>12 DEF MessageInv

LEMMA HeadAndTail ==
    ASSUME NEW S, NEW s \in Seq(S), s # << >>
    PROVE  /\ Tail(s) \in Seq(S) /\ Head(s) = s[1] /\ s[1] \in S /\ Len(s) \in Nat /\ Len(s) >= 1
           /\ Len(Tail(s)) = Len(s) - 1 /\ \A i \in 1..Len(s) - 1 : Tail(s)[i] = s[i + 1]
OBVIOUS

LEMMA NotifyKeeps ==
    ASSUME Messages!RewritesAssumption, MessageInv, Messages!Notify
    PROVE  MessageInv'
<1>1. /\ out # << >> /\ shown' = [shown EXCEPT ![Head(out).id] = <<Head(out).row>>] /\ out' = Tail(out)
      /\ row' = row /\ task' = task /\ snap' = snap /\ text' = text
    BY DEF Messages!Notify
<1>2. out \in Seq([id : Decisions, row : MessageRow]) /\ shown \in [Decisions -> Rows]
    BY DEF MessageInv, MessageTypes
<1>3. /\ out' \in Seq([id : Decisions, row : MessageRow]) /\ Head(out) = out[1]
      /\ out[1] \in [id : Decisions, row : MessageRow] /\ Len(out) \in Nat /\ Len(out) >= 1
      /\ Len(out') = Len(out) - 1 /\ \A i \in 1..Len(out) - 1 : out'[i] = out[i + 1]
    BY <1>1, <1>2, HeadAndTail
<1>4. PICK d \in Decisions, r \in MessageRow : out[1].id = d /\ out[1].row = r
    BY <1>3
<1>5. /\ shown' \in [Decisions -> Rows] /\ shown'[d] = <<r>> /\ shown'[d][1] = r
      /\ \A e \in Decisions : e # d => shown'[e] = shown[e]
    BY <1>1, <1>2, <1>3, <1>4, RowsHaveOne
<1>6. MessageTypes'
    BY <1>1, <1>3, <1>5 DEF MessageInv, MessageTypes
<1>7. Repeats' /\ AsAsked' /\ Unchecked' /\ Says'
    BY <1>1 DEF MessageInv, Repeats, Expired, AsAsked, Unchecked, Says, Messages!AnswerStands, Fresh
<1>8. ToldInOrder'
  <2>1. ASSUME NEW i \in 1..Len(out')
        PROVE  i + 1 \in 1..Len(out) /\ out'[i] = out[i + 1]
    BY <1>3
  <2>2. ASSUME ~Early, NEW e \in Decisions, shown'[e] # << >>, shown'[e][1].answer # "none"
        PROVE  /\ row[e] # << >> /\ row[e][1].answer = shown'[e][1].answer
               /\ \A i \in 1..Len(out') : out'[i].id = e => out'[i].row.answer = shown'[e][1].answer
    <3>1. CASE e = d
      <4>1. /\ row[e] # << >> /\ row[e][1].answer = r.answer
            /\ \A j \in 1..Len(out) : out[j].id = e => out[j].row.answer = r.answer
        BY <1>3, <1>4, <1>5, <2>2, <3>1 DEF MessageInv, ToldInOrder
      <4> QED
        BY <1>5, <2>1, <3>1, <4>1
    <3>2. CASE e # d
      <4>1. /\ row[e] # << >> /\ row[e][1].answer = shown[e][1].answer
            /\ \A j \in 1..Len(out) : out[j].id = e => out[j].row.answer = shown[e][1].answer
        BY <1>5, <2>2, <3>2 DEF MessageInv, ToldInOrder
      <4> QED
        BY <1>5, <2>1, <3>2, <4>1
    <3> QED
      BY <3>1, <3>2
  <2>3. ASSUME ~Early, NEW e \in Decisions, NEW i \in 1..Len(out'), out'[i].id = e, out'[i].row.answer # "none"
        PROVE  /\ row[e] # << >> /\ row[e][1].answer = out'[i].row.answer
               /\ \A j \in i..Len(out') : out'[j].id = e => out'[j].row.answer = out'[i].row.answer
    <3>1. i + 1 \in 1..Len(out) /\ out'[i] = out[i + 1]
      BY <2>1
    <3>2. /\ row[e] # << >> /\ row[e][1].answer = out[i + 1].row.answer
          /\ \A j \in i + 1..Len(out) : out[j].id = e => out[j].row.answer = out[i + 1].row.answer
      BY <2>3, <3>1 DEF MessageInv, ToldInOrder
    <3>3. ASSUME NEW j \in i..Len(out'), out'[j].id = e
          PROVE  out'[j].row.answer = out'[i].row.answer
      <4>1. j \in 1..Len(out') /\ j + 1 \in i + 1..Len(out)
        BY <1>3, <3>3
      <4> QED
        BY <2>1, <3>1, <3>2, <3>3, <4>1
    <3> QED
      BY <3>1, <3>2, <3>3
  <2> QED
    BY <1>1, <2>2, <2>3, ZenonT(60) DEF ToldInOrder
<1> QED
    BY <1>6, <1>7, <1>8 DEF MessageInv

LEMMA MessageStep ==
    ASSUME Messages!RewritesAssumption, MessageInv, [Messages!Next]_(Messages!vars)
    PROVE  MessageInv'
<1>1. CASE Messages!SwitchOff \/ UNCHANGED Messages!vars
    BY <1>1 DEF Messages!SwitchOff, Messages!vars, MessageInv, MessageTypes, Repeats, Expired, AsAsked, Unchecked,
       Says, Messages!AnswerStands, ToldInOrder, Fresh
<1>2. CASE Messages!Next /\ ~Messages!SwitchOff
    BY <1>2, RecordKeeps, PostedKeeps, StartKeeps, WritingKeeps, StoresKeeps, CloseKeeps, NotifyKeeps
       DEF Messages!Next, Messages!Rewrite
<1> QED
    BY <1>1, <1>2

LEMMA MessageInvariant ==
    ASSUME Messages!RewritesAssumption
    PROVE  Messages!Spec => []MessageInv
BY MessagesInitially, MessageStep, PTL DEF Messages!Spec

(* A message keeps every number and name of the decision through a rewrite *)
(* and an answer, in either order and in any number of processes; and in   *)
(* one process an answered message says how it was answered                *)
(* (_store_rewrite, acceptable).                                           *)
THEOREM MessagesStand ==
    ASSUME Messages!RewritesAssumption
    PROVE  Messages!Spec => [](Messages!FactsKept /\ (~Standby /\ ~Early => Messages!AnswerStands))
<1>1. MessageInv => Messages!FactsKept /\ (~Standby /\ ~Early => Messages!AnswerStands)
    BY DEF MessageInv, Repeats, Expired, Says, Messages!FactsKept
<1> QED
    BY <1>1, MessageInvariant, PTL

(* What a listener was told of a step-up never goes back to waiting        *)
(* (_publish, _store_rewrite).                                             *)
THEOREM ToldStays ==
    ASSUME Messages!RewritesAssumption, ~Early
    PROVE  Messages!Spec => Messages!ShownNeverReopens
<1>1. ASSUME MessageInv, [Messages!Next]_(Messages!vars), NEW d \in StepUps,
             shown[d] # << >>, shown[d][1].answer # "none"
      PROVE  shown'[d][1].answer = shown[d][1].answer
  <2>1. d \in Decisions /\ out \in Seq([id : Decisions, row : MessageRow]) /\ shown \in [Decisions -> Rows]
    BY <1>1 DEF Messages!RewritesAssumption, MessageInv, MessageTypes
  <2>2. CASE Messages!Notify
    <3>1. /\ out # << >> /\ shown' = [shown EXCEPT ![Head(out).id] = <<Head(out).row>>]
      BY <2>2 DEF Messages!Notify
    <3>2. 1 \in 1..Len(out) /\ Head(out) = out[1] /\ out[1] \in [id : Decisions, row : MessageRow]
      <4>1. Head(out) = out[1] /\ out[1] \in [id : Decisions, row : MessageRow] /\ Len(out) \in Nat /\ Len(out) >= 1
        BY <2>1, <3>1, HeadAndTail
      <4> QED
        BY <4>1
    <3>3. out[1].id = d => out[1].row.answer = shown[d][1].answer
      BY <1>1, <2>1, <3>2 DEF MessageInv, ToldInOrder
    <3>4. CASE out[1].id = d
      <4>1. shown'[d] = <<out[1].row>> /\ shown'[d][1] = out[1].row
        BY <2>1, <3>1, <3>2, <3>4
      <4> QED
        BY <3>3, <3>4, <4>1
    <3>5. CASE out[1].id # d
      BY <2>1, <3>1, <3>2, <3>5
    <3> QED
      BY <3>4, <3>5
  <2>3. CASE ~Messages!Notify
    <3>1. shown' = shown
      BY <1>1, <2>3 DEF Messages!Next, Messages!vars, Messages!SwitchOff, Messages!Record, Messages!Posted,
         Messages!Rewrite, Messages!Start, Messages!TakeThread, Messages!Rewritten, Messages!Store,
         Messages!StoreChecked, Messages!Close, Messages!StandbyClose
    <3> QED
      BY <3>1
  <2> QED
    BY <2>2, <2>3
<1>2. MessageInv /\ [Messages!Next]_(Messages!vars) =>
        [\A d \in StepUps : shown[d] # << >> /\ shown[d][1].answer # "none" =>
           shown'[d][1].answer = shown[d][1].answer]_(Messages!vars)
    BY <1>1
<1> QED
    BY <1>2, MessageInvariant, PTL DEF Messages!Spec, Messages!ShownNeverReopens

-----------------------------------------------------------------------------
(* Tier 2, for any purchases, policies and answers of a model.  What is    *)
(* read differs from what the patterns found only in facts that were asked *)
(* for and that the text states. *)

Gained(i, f, v) ==
  <<i, f>> \in Reading!Asks /\ Reading!Accepted(f, v, textP.lines[i])

ReadFrom(q) ==
  /\ q.amount = textP.amount /\ q.shop = textP.shop
  /\ q.shopType = textP.shopType /\ q.returnable = textP.returnable
  /\ DOMAIN q.lines = DOMAIN textP.lines
  /\ \A i \in DOMAIN textP.lines :
       /\ q.lines[i].words = textP.lines[i].words
       /\ q.lines[i].count = textP.lines[i].count
       /\ \A f \in Reading!ModelFields :
            \/ q.lines[i][f] = textP.lines[i][f]
            \/ \E v : Gained(i, f, v) /\ q.lines[i][f] = {v}

ReadInv ==
  /\ textP \in Texts /\ textPol \in Wishes
  /\ phase \in {"rules", "asked", "decided"}
  /\ ReadFrom(read)

(* What a model's answer makes of the purchase. *)
LEMMA ResolvedIsRead ==
  ASSUME Reading!ModelFactsAssumption, textP \in Texts, NEW answer \in Reading!Answers
  PROVE  ReadFrom(Reading!Resolved(answer))
<1> DEFINE q == Reading!Resolved(answer)
           p == textP
           fact(i, x) == IF x \in Reading!ModelFields /\ Reading!Taken(answer, i, x) # {}
                         THEN Reading!Taken(answer, i, x) ELSE p.lines[i][x]
<1>1. /\ p = [amount |-> p.amount, shop |-> p.shop, shopType |-> p.shopType,
              returnable |-> p.returnable, lines |-> p.lines]
      /\ p.lines = [i \in DOMAIN p.lines |-> p.lines[i]]
      /\ \A i \in DOMAIN p.lines :
           {"sizes", "letters", "returns", "words", "count"} \subseteq DOMAIN p.lines[i]
  BY DEF Reading!ModelFactsAssumption
<1>2. q = [p EXCEPT !.lines = [i \in DOMAIN p.lines |-> [x \in DOMAIN p.lines[i] |-> fact(i, x)]]]
  BY DEF Reading!Resolved, Reading!Items
<1>3. /\ q.amount = p.amount /\ q.shop = p.shop
      /\ q.shopType = p.shopType /\ q.returnable = p.returnable
      /\ q.lines = [i \in DOMAIN p.lines |-> [x \in DOMAIN p.lines[i] |-> fact(i, x)]]
  <2> HIDE DEF fact, q
  <2> QED
    BY <1>1, <1>2
<1>4. ASSUME NEW i \in DOMAIN p.lines
      PROVE  /\ q.lines[i].words = p.lines[i].words /\ q.lines[i].count = p.lines[i].count
             /\ \A f \in Reading!ModelFields : q.lines[i][f] = fact(i, f)
  <2>1. \A x \in DOMAIN p.lines[i] : q.lines[i][x] = fact(i, x)
    <3> HIDE DEF fact, q
    <3> QED
      BY <1>3
  <2>2. {"sizes", "letters", "returns", "words", "count"} \subseteq DOMAIN p.lines[i]
    BY <1>1
  <2> HIDE DEF q
  <2> QED
    BY <2>1, <2>2 DEF Reading!ModelFields, Reading!Sizes
<1>5. ASSUME NEW i \in DOMAIN p.lines, NEW f \in Reading!ModelFields, Reading!Taken(answer, i, f) # {}
      PROVE  \E v : Gained(i, f, v) /\ Reading!Taken(answer, i, f) = {v}
  <2>1. <<i, f>> \in Reading!Asks
    BY <1>5 DEF Reading!Taken, Reading!Answers
  <2>2. Reading!Taken(answer, i, f) =
          {v \in answer[<<i, f>>] : Reading!Accepted(f, v, p.lines[i])}
    BY <1>5 DEF Reading!Taken
  <2>3. PICK v : answer[<<i, f>>] = {v}
    <3>1. answer[<<i, f>>] \in {{}} \cup {{v} : v \in Values}
      BY <2>1, Zenon DEF Reading!Answers
    <3>2. answer[<<i, f>>] # {}
      BY <1>5, <2>2
    <3> QED
      BY <3>1, <3>2
  <2>4. Reading!Accepted(f, v, p.lines[i]) /\ Reading!Taken(answer, i, f) = {v}
    <3> HIDE DEF p
    <3> QED
      BY <1>5, <2>2, <2>3
  <2> QED
    BY <2>1, <2>4 DEF Gained
<1>6. ASSUME NEW i \in DOMAIN p.lines, NEW f \in Reading!ModelFields
      PROVE  \/ q.lines[i][f] = p.lines[i][f]
             \/ \E v : Gained(i, f, v) /\ q.lines[i][f] = {v}
  <2>1. q.lines[i][f] = fact(i, f)
    BY <1>4, <1>6
  <2>2. CASE Reading!Taken(answer, i, f) = {}
    <3> HIDE DEF q
    <3> QED
      BY <1>6, <2>1, <2>2
  <2>3. CASE Reading!Taken(answer, i, f) # {}
    <3>1. PICK v : Gained(i, f, v) /\ Reading!Taken(answer, i, f) = {v}
      BY <1>5, <1>6, <2>3
    <3> HIDE DEF q
    <3> QED
      BY <1>6, <2>1, <2>3, <3>1
  <2> QED
    BY <2>2, <2>3
<1>7. DOMAIN q.lines = DOMAIN p.lines
  <2> HIDE DEF fact, q
  <2> QED
    BY <1>3
<1> HIDE DEF q
<1>8. ReadFrom(q)
  BY <1>3, <1>4, <1>6, <1>7 DEF ReadFrom
<1> QED
  BY <1>8 DEF q

LEMMA ReadInitially ==
  ASSUME Reading!Init
  PROVE  ReadInv
BY DEF Reading!Init, ReadInv, ReadFrom

LEMMA ReadSteps ==
  ASSUME Reading!ModelFactsAssumption, ReadInv, [Reading!Next]_(Reading!vars)
  PROVE  ReadInv'
<1>1. ASSUME UNCHANGED <<textP, textPol>>, read' = read \/ (phase = "asked" /\ \E answer \in Reading!Answers : read' = Reading!Resolved(answer)),
             phase' \in {"rules", "asked", "decided"}
      PROVE  ReadInv'
  <2>1. ReadFrom(read')
    BY <1>1, ResolvedIsRead DEF ReadInv
  <2>2. ReadFrom(read)'
    <3>1. Reading!Asks' = Reading!Asks
      BY <1>1 DEF Reading!Asks, Reading!Candidates, Reading!Items, Reading!Relevant, Reading!Open,
         Reading!Verdicts
    <3> QED
      BY <1>1, <2>1, <3>1 DEF ReadFrom, Gained
  <2> QED
    BY <1>1, <2>2 DEF ReadInv
<1>2. CASE Reading!WithoutModel
  BY <1>1, <1>2 DEF Reading!WithoutModel
<1>3. CASE Reading!Ask
  BY <1>1, <1>3 DEF Reading!Ask
<1>4. CASE Reading!ModelAnswers
  BY <1>1, <1>4 DEF Reading!ModelAnswers
<1>5. CASE Reading!ModelFails
  BY <1>1, <1>5 DEF Reading!ModelFails
<1>6. CASE UNCHANGED Reading!vars
  BY <1>1, <1>6 DEF Reading!vars, ReadInv
<1> QED
  BY <1>2, <1>3, <1>4, <1>5, <1>6 DEF Reading!Next

(* A fact that was found is not replaced; what is read of one is in range. *)
LEMMA OnlyOpenAreRead ==
  ASSUME Reading!ModelFactsAssumption, ReadInv, NEW i \in DOMAIN textP.lines, NEW f \in Reading!ModelFields,
         read.lines[i][f] # textP.lines[i][f]
  PROVE  /\ textP.lines[i][f] = {} /\ f \notin textP.lines[i].settled /\ ~textP.lines[i].directed
         /\ <<i, f>> \in Reading!Asks
         /\ \E v : /\ read.lines[i][f] = {v} /\ v \in Reading!Stated(f, textP.lines[i])
                  /\ Reading!InRange(f, v)
<1>1. PICK v : Gained(i, f, v) /\ read.lines[i][f] = {v}
  BY DEF ReadInv, ReadFrom
<1>2. <<i, f>> \in Reading!Candidates
  BY <1>1 DEF Gained, Reading!Asks
<1>3. ~textP.lines[i].directed /\ Reading!MayResolve(f, textP.lines[i])
  BY <1>2 DEF Reading!Candidates
<1> QED
  BY <1>1, <1>3 DEF Gained, Reading!MayResolve, Reading!Accepted

LEMMA ReadStands ==
  ASSUME Reading!ModelFactsAssumption, ReadInv
  PROVE  Reading!SettledStays /\ Reading!ReadFromItsText /\ Reading!NoSizeWhereOneIsOpen
<1>1. Reading!SettledStays
  BY OnlyOpenAreRead DEF Reading!SettledStays, Reading!Changed, Reading!Lines, Reading!Items
<1>2. Reading!ReadFromItsText
  <2>1. ASSUME NEW i \in DOMAIN textP.lines, NEW f \in Reading!ModelFields, Reading!Changed(i, f)
        PROVE  /\ read.lines[i][f] \subseteq Reading!Stated(f, textP.lines[i])
               /\ ~textP.lines[i].directed
    <3>1. PICK v : read.lines[i][f] = {v} /\ v \in Reading!Stated(f, textP.lines[i])
      BY <2>1, OnlyOpenAreRead DEF Reading!Changed
    <3>2. ~textP.lines[i].directed
      BY <2>1, OnlyOpenAreRead DEF Reading!Changed
    <3> QED
      BY <3>1, <3>2
  <2> QED
    BY <2>1 DEF Reading!ReadFromItsText, Reading!Lines, Reading!Items
<1>3. ASSUME NEW i \in DOMAIN textP.lines, NEW g \in Reading!Sizes, Reading!LeftOpen(g, textP.lines[i]),
             NEW f \in Reading!Sizes, Reading!Changed(i, f)
      PROVE  FALSE
  <2>1. <<i, f>> \in Reading!Asks
    BY <1>3, OnlyOpenAreRead DEF Reading!Changed, Reading!ModelFields
  <2> QED
    BY <1>3, <2>1 DEF Reading!Asks
<1>4. Reading!NoSizeWhereOneIsOpen
  BY <1>3 DEF Reading!NoSizeWhereOneIsOpen, Reading!Lines, Reading!Items
<1> QED
  BY <1>1, <1>2, <1>4

(* Among subsets of a finite set there are minimal ones. *)
LEMMA Minimal ==
    ASSUME NEW S, IsFiniteSet(S), NEW T \in SUBSET SUBSET S, T # {}
    PROVE  \E s \in T : \A r \in SUBSET s : r # s => r \notin T
<1>1. IsWellFoundedOn(StrictSubsetOrdering(S), FiniteSubsetsOf(S))
  BY FS_StrictSubsetOrderingWellFounded
<1>2. T \subseteq FiniteSubsetsOf(S)
  BY FS_Subset DEF FiniteSubsetsOf
<1>3. \E x \in T : \A y \in T : ~ (<<y, x>> \in StrictSubsetOrdering(S))
  BY <1>1, <1>2, WFMin
<1> QED BY <1>3 DEF StrictSubsetOrdering

(* Every set of numbers has a least one. *)
LEMMA Least ==
    ASSUME NEW T \in SUBSET Nat, T # {}
    PROVE  \E n \in T : \A m \in T : n <= m
<1>1. PICK top \in T : TRUE
  OBVIOUS
<1> DEFINE All == 0..top
           Upto == {s \in SUBSET All : \E n \in T : s = 0..n}
<1>2. IsFiniteSet(All) /\ All \in Upto
  BY <1>1, FS_Interval
<1>3. PICK s \in Upto : \A r \in SUBSET s : r # s => r \notin Upto
  <2>1. Upto \in SUBSET SUBSET All /\ Upto # {}
    BY <1>2
  <2> HIDE DEF Upto, All
  <2> QED BY <1>2, <2>1, Minimal
<1>4. PICK n \in T : s = 0..n
  BY <1>3
<1>5. ASSUME NEW m \in T, m < n
      PROVE  FALSE
  <2>1. 0..m \in SUBSET s /\ n \in s /\ n \notin 0..m
    BY <1>4, <1>5
  <2>2. 0..m \in Upto
    BY <1>3, <2>1
  <2> QED BY <1>3, <2>1, <2>2
<1> QED BY <1>4, <1>5

(* What the lines say, as the rules read it: once known, it stays. *)
LEMMA FactsAreAdded ==
  ASSUME Reading!ModelFactsAssumption, ReadInv, NEW i \in DOMAIN textP.lines
  PROVE  LET old == textP.lines[i]  new == read.lines[i]
         IN /\ Reading!Size(old) \subseteq Reading!Size(new)
            /\ Reading!Size(old) # {} => Reading!Size(new) = Reading!Size(old)
            /\ Reading!Letter(old) \subseteq Reading!Letter(new)
            /\ Reading!Letter(old) # {} => Reading!Letter(new) = Reading!Letter(old)
            /\ Reading!Returns(old) \subseteq Reading!Returns(new)
            /\ Reading!Returns(new) \subseteq Nat
            /\ Reading!Cardinality(new.returns) > 1 <=> Reading!Cardinality(old.returns) > 1
<1> DEFINE old == textP.lines[i]
           new == read.lines[i]
<1>1. /\ \A S : Reading!Cardinality(S) = Cardinality(S)
      /\ \A v : Cardinality({v}) = 1 /\ Cardinality({}) = 0
  BY FS_Singleton, FS_EmptySet DEF Reading!Cardinality, Cardinality
<1>2. \A f \in Reading!ModelFields :
        \/ new[f] = old[f]
        \/ old[f] = {} /\ \E v : new[f] = {v} /\ Reading!InRange(f, v)
  BY OnlyOpenAreRead
<1>3. ASSUME NEW S, NEW T, T = S \/ (S = {} /\ \E v : T = {v})
      PROVE  /\ Reading!OnlyOne(S) \subseteq Reading!OnlyOne(T)
             /\ Reading!OnlyOne(S) # {} => Reading!OnlyOne(T) = Reading!OnlyOne(S)
             /\ Reading!Cardinality(T) > 1 <=> Reading!Cardinality(S) > 1
  <2>1. CASE T = S
    BY <2>1
  <2>2. ASSUME S = {}, NEW v, T = {v}
        PROVE  Reading!OnlyOne(S) = {} /\ ~(Reading!Cardinality(T) > 1) /\ ~(Reading!Cardinality(S) > 1)
    <3>1. Cardinality({v}) = 1 /\ Cardinality({}) = 0
      BY <1>1
    <3>2. Cardinality(T) = 1 /\ Cardinality(S) = 0
      BY <2>2, <3>1
    <3>3. Reading!Cardinality(T) = 1 /\ Reading!Cardinality(S) = 0
      BY <1>1, <3>2
    <3> QED
      BY <2>2, <3>3 DEF Reading!OnlyOne
  <2> QED
    BY <1>3, <2>1, <2>2
<1>4. /\ new.sizes = old.sizes \/ (old.sizes = {} /\ \E v : new.sizes = {v})
      /\ new.letters = old.letters \/ (old.letters = {} /\ \E v : new.letters = {v})
      /\ new.returns = old.returns \/ (old.returns = {} /\ \E v \in 0..365 : new.returns = {v})
  <2>1. {"sizes", "letters", "returns"} \subseteq Reading!ModelFields
    BY DEF Reading!ModelFields, Reading!Sizes
  <2> HIDE DEF old, new
  <2> QED
    BY <1>2, <2>1 DEF Reading!InRange
<1>5. old.returns \subseteq Nat \cup {Reading!Exchange}
  BY DEF Reading!ModelFactsAssumption, ReadInv
<1> HIDE DEF old, new
<1>6. /\ Reading!Size(old) \subseteq Reading!Size(new)
      /\ Reading!Size(old) # {} => Reading!Size(new) = Reading!Size(old)
  BY <1>3, <1>4 DEF Reading!Size
<1>7. /\ Reading!Letter(old) \subseteq Reading!Letter(new)
      /\ Reading!Letter(old) # {} => Reading!Letter(new) = Reading!Letter(old)
  BY <1>3, <1>4 DEF Reading!Letter
<1>8. Reading!Cardinality(new.returns) > 1 <=> Reading!Cardinality(old.returns) > 1
  BY <1>3, <1>4
<1>9. /\ Reading!Returns(old) \subseteq Reading!Returns(new)
      /\ Reading!Returns(new) \subseteq Nat
  <2>1. CASE new.returns = old.returns
    BY <1>5, <2>1 DEF Reading!Returns, Reading!OnlyOne
  <2>2. CASE old.returns = {} /\ \E v \in 0..365 : new.returns = {v}
    BY <1>1, <2>2 DEF Reading!Returns, Reading!OnlyOne, Reading!Exchange
  <2> QED
    BY <1>4, <2>1, <2>2
<1> QED
  BY <1>6, <1>7, <1>8, <1>9 DEF old, new

(* The facts no model reads are the patterns' own. *)
LEMMA OthersStand ==
  ASSUME ReadInv, NEW field, field \notin {"size", "letter", "returns"}
  PROVE  Reading!FactsFor(field, read, textPol, Reading!Nobody)
           = Reading!FactsFor(field, textP, textPol, Reading!Nobody)
<1>1. /\ read.amount = textP.amount /\ read.shop = textP.shop
      /\ read.shopType = textP.shopType /\ read.returnable = textP.returnable
      /\ Reading!Items(read) = Reading!Items(textP)
      /\ \A i \in Reading!Items(textP) : read.lines[i].words = textP.lines[i].words
      /\ Reading!Ordered(read) = Reading!Ordered(textP)
  BY DEF ReadInv, ReadFrom, Reading!Items, Reading!Ordered
<1>2. /\ Reading!Wanted(read, textPol) = Reading!Wanted(textP, textPol)
      /\ Reading!IsKnown(read, Reading!Nobody) = Reading!IsKnown(textP, Reading!Nobody)
  BY <1>1 DEF Reading!Wanted, Reading!IsKnown
<1>3. Reading!Recurring(read) = Reading!Recurring(textP)
  BY <1>1 DEF Reading!Recurring, Reading!Billed
<1>4. {Reading!Alcohol(i, read.lines[i]) : i \in Reading!Items(read)}
        = {Reading!Alcohol(i, textP.lines[i]) : i \in Reading!Items(textP)}
  BY <1>1 DEF Reading!Alcohol
<1>5. {{Types[i]} : i \in Reading!Items(read)} = {{Types[i]} : i \in Reading!Items(textP)}
  BY <1>1
<1> HIDE DEF Types
<1> QED
  BY <1>1, <1>2, <1>3, <1>4, <1>5 DEF Reading!FactsFor

LEMMA FlagsStand ==
  ASSUME ReadInv, NEW id
  PROVE  Reading!Flag(id, read, textPol, Reading!Nobody) = Reading!Flag(id, textP, textPol, Reading!Nobody)
<1>1. /\ read.shop = textP.shop /\ read.shopType = textP.shopType
      /\ Reading!Items(read) = Reading!Items(textP)
  BY DEF ReadInv, ReadFrom, Reading!Items
<1>2. /\ Reading!Wanted(read, textPol) = Reading!Wanted(textP, textPol)
      /\ Reading!IsKnown(read, Reading!Nobody) = Reading!IsKnown(textP, Reading!Nobody)
      /\ Reading!Excess(read, textPol) = Reading!Excess(textP, textPol)
      /\ \A types, inside : Reading!OfType(read, types, inside) = Reading!OfType(textP, types, inside)
  BY <1>1 DEF Reading!Wanted, Reading!IsKnown, Reading!Excess, Reading!OfType
<1> QED
  BY <1>1, <1>2 DEF Reading!Flag, Reading!CheckAllowedTypes, Reading!CheckBlockedTypes,
     Reading!CheckRequestedItem, Reading!CheckShopType, Reading!CheckKnownShop, Reading!CheckNothingExtra

LEMMA MinIsLeast ==
  ASSUME NEW S \in SUBSET Nat, S # {}
  PROVE  Reading!Min(S) \in S /\ \A n \in S : Reading!Min(S) <= n
<1>1. \E n \in S : \A m \in S : n <= m
  BY Least
<1> QED
  BY <1>1 DEF Reading!Min

(* The days an order may be returned: one line more that names some makes  *)
(* them fewer, if anything. *)
LEMMA ReturnsShorten ==
  ASSUME Reading!ModelFactsAssumption, ReadInv, Reading!OrderReturns(textP) # {}
  PROVE  \E days \in Nat, fewer \in Nat :
            /\ Reading!OrderReturns(textP) = {days} /\ Reading!OrderReturns(read) = {fewer}
            /\ fewer <= days
<1> DEFINE stated(q) == UNION {Reading!Returns(q.lines[i]) : i \in Reading!Items(q)}
<1>1. /\ read.returnable = textP.returnable
      /\ Reading!Items(read) = DOMAIN textP.lines /\ Reading!Items(textP) = DOMAIN textP.lines
  BY DEF ReadInv, ReadFrom, Reading!Items
<1>2. CASE textP.returnable = "false"
  BY <1>1, <1>2 DEF Reading!OrderReturns
<1>3. CASE textP.returnable # "false"
  <2>1. ~\E i \in DOMAIN textP.lines : Reading!Cardinality(textP.lines[i].returns) > 1
    BY <1>1, <1>3 DEF Reading!OrderReturns
  <2>2. ~\E i \in DOMAIN textP.lines : Reading!Cardinality(read.lines[i].returns) > 1
    BY <2>1, FactsAreAdded
  <2>3. stated(textP) # {} /\ Reading!OrderReturns(textP) = {Reading!Min(stated(textP))}
    BY <1>1, <1>3, <2>1 DEF Reading!OrderReturns
  <2>4. /\ \A i \in DOMAIN textP.lines : Reading!Returns(textP.lines[i]) \subseteq Reading!Returns(read.lines[i])
        /\ \A i \in DOMAIN textP.lines : Reading!Returns(read.lines[i]) \subseteq Nat
    BY FactsAreAdded
  <2>5. stated(textP) \subseteq stated(read) /\ stated(read) \in SUBSET Nat
    BY <1>1, <2>4
  <2>6. Reading!OrderReturns(read) = {Reading!Min(stated(read))}
    <3>1. stated(read) # {}
      BY <2>3, <2>5
    <3> QED
      BY <1>1, <1>3, <2>2, <3>1 DEF Reading!OrderReturns
  <2> HIDE DEF stated
  <2>7. /\ Reading!Min(stated(textP)) \in stated(textP)
        /\ Reading!Min(stated(read)) \in stated(read)
        /\ \A n \in stated(read) : Reading!Min(stated(read)) <= n
    BY <2>3, <2>5, MinIsLeast
  <2> QED
    BY <2>3, <2>5, <2>6, <2>7
<1> QED
  BY <1>2, <1>3

(* A typed rule on the facts a model has added to. *)
LEMMA RulesClose ==
  ASSUME Reading!ModelFactsAssumption, ReadInv, NEW id \in DOMAIN textPol.rules
  PROVE  LET r == textPol.rules[id]
             old == Reading!TypedRule(r, textP, textPol, Reading!Nobody)
             new == Reading!TypedRule(r, read, textPol, Reading!Nobody)
         IN /\ old = "fail" => new = "fail"
            /\ old = "pass" => (new = "unknown" => r.asks)
<1> DEFINE r == textPol.rules[id]
           old == Reading!TypedRule(r, textP, textPol, Reading!Nobody)
           new == Reading!TypedRule(r, read, textPol, Reading!Nobody)
           F == Reading!FactsFor(r.field, textP, textPol, Reading!Nobody)
           G == Reading!FactsFor(r.field, read, textPol, Reading!Nobody)
           Goal == (old = "fail" => new = "fail") /\ (old = "pass" => (new = "unknown" => r.asks))
<1> SUFFICES Goal
  OBVIOUS
<1>1. /\ old = IF F = {} THEN "unknown"
               ELSE IF \E v \in UNION F : ~Reading!Within(v, r.op, r.value) THEN Reading!Broken(r)
               ELSE IF {} \in F THEN "unknown" ELSE "pass"
      /\ new = IF G = {} THEN "unknown"
               ELSE IF \E v \in UNION G : ~Reading!Within(v, r.op, r.value) THEN Reading!Broken(r)
               ELSE IF {} \in G THEN "unknown" ELSE "pass"
  BY DEF Reading!TypedRule
<1>2. /\ Reading!Items(read) = DOMAIN textP.lines /\ Reading!Items(textP) = DOMAIN textP.lines
      /\ Reading!Wanted(read, textPol) = Reading!Wanted(textP, textPol)
      /\ Reading!Wanted(textP, textPol) \subseteq DOMAIN textP.lines
  BY DEF ReadInv, ReadFrom, Reading!Items, Reading!Wanted
<1>3. CASE F = G
  <2> HIDE DEF F, G
  <2> QED
    BY <1>1, <1>3
<1>4. ASSUME G # {}, UNION F \subseteq UNION G, F # {}, {} \notin F => G = F
      PROVE  Goal
  <2>1. CASE {} \notin F
    BY <1>3, <1>4, <2>1
  <2>2. CASE {} \in F
    <3> HIDE DEF F, G
    <3>1. old # "pass"
      BY <1>1, <1>4, <2>2 DEF Reading!Broken
    <3>2. ASSUME old = "fail" PROVE new = "fail"
      <4>1. PICK v \in UNION F : ~Reading!Within(v, r.op, r.value)
        BY <1>1, <1>4, <2>2, <3>2
      <4>2. old = Reading!Broken(r) /\ new = Reading!Broken(r)
        BY <1>1, <1>4, <4>1
      <4> QED
        BY <3>2, <4>2
    <3> HIDE DEF old, new
    <3> QED
      BY <3>1, <3>2
  <2> QED
    BY <2>1, <2>2
<1>5. CASE r.field \notin {"size", "letter", "returns"}
  BY <1>3, <1>5, OthersStand
<1>6. CASE r.field = "size"
  <2>1. /\ F = IF Reading!Wanted(textP, textPol) = {} THEN {{}}
               ELSE {Reading!Size(textP.lines[i]) : i \in Reading!Wanted(textP, textPol)}
        /\ G = IF Reading!Wanted(textP, textPol) = {} THEN {{}}
               ELSE {Reading!Size(read.lines[i]) : i \in Reading!Wanted(textP, textPol)}
    BY <1>2, <1>6 DEF Reading!FactsFor
  <2>2. \A i \in Reading!Wanted(textP, textPol) :
           /\ Reading!Size(textP.lines[i]) \subseteq Reading!Size(read.lines[i])
           /\ Reading!Size(textP.lines[i]) # {} => Reading!Size(read.lines[i]) = Reading!Size(textP.lines[i])
    BY <1>2, FactsAreAdded
  <2>3. F # {} /\ G # {} /\ UNION F \subseteq UNION G /\ ({} \notin F => G = F)
    <3> HIDE DEF F, G
    <3>1. CASE Reading!Wanted(textP, textPol) = {}
      BY <2>1, <3>1
    <3>2. CASE Reading!Wanted(textP, textPol) # {}
      <4>1. F # {} /\ G # {}
        BY <2>1, <3>2
      <4>2. \A x \in UNION F : x \in UNION G
        BY <2>1, <2>2, <3>2
      <4>3. ASSUME {} \notin F PROVE G = F
        BY <2>1, <2>2, <3>2, <4>3
      <4> QED
        BY <4>1, <4>2, <4>3
    <3> QED
      BY <3>1, <3>2
  <2> QED
    BY <1>4, <2>3
<1>7. CASE r.field = "letter"
  <2>1. /\ F = IF Reading!Wanted(textP, textPol) = {} THEN {{}}
               ELSE {Reading!Letter(textP.lines[i]) : i \in Reading!Wanted(textP, textPol)}
        /\ G = IF Reading!Wanted(textP, textPol) = {} THEN {{}}
               ELSE {Reading!Letter(read.lines[i]) : i \in Reading!Wanted(textP, textPol)}
    BY <1>2, <1>7 DEF Reading!FactsFor
  <2>2. \A i \in Reading!Wanted(textP, textPol) :
           /\ Reading!Letter(textP.lines[i]) \subseteq Reading!Letter(read.lines[i])
           /\ Reading!Letter(textP.lines[i]) # {} => Reading!Letter(read.lines[i]) = Reading!Letter(textP.lines[i])
    BY <1>2, FactsAreAdded
  <2>3. F # {} /\ G # {} /\ UNION F \subseteq UNION G /\ ({} \notin F => G = F)
    <3> HIDE DEF F, G
    <3>1. CASE Reading!Wanted(textP, textPol) = {}
      BY <2>1, <3>1
    <3>2. CASE Reading!Wanted(textP, textPol) # {}
      <4>1. F # {} /\ G # {}
        BY <2>1, <3>2
      <4>2. \A x \in UNION F : x \in UNION G
        BY <2>1, <2>2, <3>2
      <4>3. ASSUME {} \notin F PROVE G = F
        BY <2>1, <2>2, <3>2, <4>3
      <4> QED
        BY <4>1, <4>2, <4>3
    <3> QED
      BY <3>1, <3>2
  <2> QED
    BY <1>4, <2>3
<1>8. CASE r.field = "returns"
  <2>1. F = {Reading!OrderReturns(textP)} /\ G = {Reading!OrderReturns(read)}
    BY <1>8 DEF Reading!FactsFor
  <2>2. r.op = ">=" /\ r.value \subseteq Int /\ r.asks \in BOOLEAN
    BY <1>8 DEF ReadInv, Reading!ModelFactsAssumption
  <2>3. CASE Reading!OrderReturns(textP) = {}
    BY <1>1, <2>1, <2>3
  <2>4. CASE Reading!OrderReturns(textP) # {}
    <3>1. PICK days \in Nat, fewer \in Nat :
             /\ Reading!OrderReturns(textP) = {days} /\ Reading!OrderReturns(read) = {fewer}
             /\ fewer <= days
      BY <2>4, ReturnsShorten
    <3>2. F = {{days}} /\ G = {{fewer}}
      BY <2>1, <3>1
    <3> HIDE DEF F, G, r
    <3>3. \A v \in Nat : Reading!Within(v, ">=", r.value) <=> \A limit \in r.value : v >= limit
      BY DEF Reading!Within
    <3>4. Reading!Within(fewer, r.op, r.value) => Reading!Within(days, r.op, r.value)
      BY <2>2, <3>1, <3>3
    <3>5. /\ old = IF ~Reading!Within(days, r.op, r.value) THEN Reading!Broken(r) ELSE "pass"
          /\ new = IF ~Reading!Within(fewer, r.op, r.value) THEN Reading!Broken(r) ELSE "pass"
      BY <1>1, <3>2
    <3> HIDE DEF old, new
    <3> QED
      BY <2>2, <3>4, <3>5 DEF Reading!Broken
  <2> QED
    BY <2>3, <2>4
<1> QED
  BY <1>5, <1>6, <1>7, <1>8

LEMMA ReadCloses ==
  ASSUME Reading!ModelFactsAssumption, ReadInv
  PROVE  Reading!ModelClosesOnly
<1>1. ASSUME NEW id \in Reading!Ids(textPol)
      PROVE  /\ Reading!Verdicts(textP)[id] = "fail" => Reading!Verdicts(read)[id] = "fail"
             /\ Reading!Verdicts(textP)[id] = "pass" =>
                  (Reading!Verdicts(read)[id] = "unknown" => id \in DOMAIN textPol.rules /\ textPol.rules[id].asks)
  <2>1. CASE id \in DOMAIN textPol.rules
    <3>1. /\ Reading!Verdicts(textP)[id] = Reading!TypedRule(textPol.rules[id], textP, textPol, Reading!Nobody)
          /\ Reading!Verdicts(read)[id] = Reading!TypedRule(textPol.rules[id], read, textPol, Reading!Nobody)
      BY <1>1, <2>1 DEF Reading!Verdicts
    <3> QED
      BY <2>1, <3>1, RulesClose
  <2>2. CASE id \notin DOMAIN textPol.rules
    <3>1. Reading!Verdicts(read)[id] = Reading!Verdicts(textP)[id]
      BY <1>1, <2>2, FlagsStand DEF Reading!Verdicts
    <3> QED
      BY <3>1
  <2> QED
    BY <2>1, <2>2
<1> QED
  BY <1>1 DEF Reading!ModelClosesOnly

(* Tier 2, whatever the model answers: a rule the patterns found broken or *)
(* met is not left open, a fact the shop contradicts itself on is not      *)
(* settled, and what is read stands in the text of its line (tier2.py). *)
THEOREM ModelsSettleNothing ==
  ASSUME Reading!ModelFactsAssumption
  PROVE  Reading!Spec => []( /\ Reading!ModelClosesOnly /\ Reading!SettledStays
                             /\ Reading!ReadFromItsText /\ Reading!NoSizeWhereOneIsOpen )
<1>1. Reading!Init => ReadInv
  BY ReadInitially
<1>2. ReadInv /\ [Reading!Next]_(Reading!vars) => ReadInv'
  BY ReadSteps
<1>3. ReadInv => /\ Reading!ModelClosesOnly /\ Reading!SettledStays
                 /\ Reading!ReadFromItsText /\ Reading!NoSizeWhereOneIsOpen
  BY ReadStands, ReadCloses
<1> QED
  BY <1>1, <1>2, <1>3, PTL DEF Reading!Spec

-----------------------------------------------------------------------------
(* What becomes familiar, for any history, shops, devices, amounts and     *)
(* settings.  Purchases are decided in turn; one that is approved unasked  *)
(* came from a known device and from no lookalike, and what is known       *)
(* before it was known from purchases that were approved before.           *)

KnownPast == {h.device : h \in History}
KnownTaught ==
  [shop : Shops, device : Devices \cup {KnownFace!NoDevice}, amount : Amounts,
   outcome : {"approve", "decline", "step_up"},
   answer : {"none", "pending", "approved", "declined", "expired"}]

KnownTypes ==
  /\ teaches \in [KnownFace!Purchases -> {<< >>} \cup {<<t>> : t \in KnownTaught}]
  /\ \A i \in KnownFace!Decided : \A k \in 1..i - 1 : k \in KnownFace!Decided
  /\ \A i \in KnownFace!Decided : KnownFace!R(i).answer = "pending" => KnownFace!R(i).outcome = "step_up"

KnownYes(i) == i \in KnownFace!Decided /\ KnownFace!CustomerYes(i)
KnownFinal == {i \in KnownFace!Decided : KnownFace!Final(i)}
KnownFree(d) ==
  /\ \E i \in KnownFinal : KnownFace!R(i).device = d
  /\ d \notin KnownPast /\ d # KnownFace!NoDevice
  /\ ~\E i \in KnownFace!Decided : KnownYes(i) /\ KnownFace!R(i).device = d

KnownLikes ==
  \A i \in KnownFinal :
    (\E h \in History : {h.shop, KnownFace!R(i).shop} \in Alike)
      /\ KnownFace!R(i).shop \notin {h.shop : h \in History} =>
        \E j \in KnownFace!Decided : KnownYes(j) /\ KnownFace!R(j).shop = KnownFace!R(i).shop

KnownInv ==
  /\ KnownTypes
  /\ History # {} => \A d : ~KnownFree(d)
  /\ \A d, e : KnownFree(d) /\ KnownFree(e) => d = e
  /\ KnownFace!NoDeviceAsks /\ KnownLikes

LEMMA KnownInitially ==
  ASSUME KnownFace!Init
  PROVE  KnownInv
<1>1. KnownFace!Decided = {}
  BY DEF KnownFace!Init, KnownFace!Decided
<1>2. KnownTypes
  BY <1>1 DEF KnownFace!Init, KnownTypes
<1>3. \A d : ~KnownFree(d)
  BY <1>1 DEF KnownFree, KnownFinal
<1>4. KnownFace!NoDeviceAsks
  BY <1>1 DEF KnownFace!NoDeviceAsks
<1>5. KnownLikes
  BY <1>1 DEF KnownLikes, KnownFinal
<1> QED
  BY <1>2, <1>3, <1>4, <1>5 DEF KnownInv

(* An approval unasked: nothing spoke against it. *)
LEMMA KnownApproval ==
  ASSUME KnownFace!FamiliarityAssumption, NEW e, NEW n, NEW rule,
         KnownFace!Decision(KnownFace!FindingsOf(e, n, rule), Setting).outcome = "approve"
  PROVE  ~KnownFace!NewDevice(e, n) /\ ~KnownFace!Lookalike(e, n)
<1> DEFINE found == KnownFace!FindingsOf(e, n, rule)
<1>1. found.strong = {} /\ found.protections = {}
  <2>1. KnownFace!Decision(found, Setting).outcome = "approve"
    OBVIOUS
  <2> HIDE DEF found
  <2> QED
    BY <2>1 DEF KnownFace!Decision, KnownFace!Verdict, KnownFace!Suspicious
<1>2. ~KnownFace!NewDevice(e, n)
  BY <1>1 DEF KnownFace!FindingsOf
<1>3. KnownFace!Protections(e, n) = {}
  BY <1>1 DEF KnownFace!FindingsOf
<1>4. ~KnownFace!Lookalike(e, n)
  BY <1>3 DEF KnownFace!Protections
<1> QED
  BY <1>2, <1>4

(* The two steps, by what they make of the rows. *)
KnownStands(i) == i \in KnownFace!Decided' /\ KnownFace!R(i)' = KnownFace!R(i)

LEMMA KnownDecides ==
  ASSUME KnownFace!FamiliarityAssumption, KnownTypes, NEW n \in KnownFace!Purchases, KnownFace!Decide(n)
  PROVE  /\ KnownTypes'
         /\ n \notin KnownFace!Decided /\ KnownFace!Decided' = KnownFace!Decided \cup {n}
         /\ \A i \in KnownFace!Decided : i < n /\ KnownStands(i)
         /\ KnownFace!R(n)'.answer # "approved"
         /\ KnownFace!R(n)'.outcome = "approve" =>
              \E e : /\ KnownFace!R(n)'.device = e.device /\ KnownFace!R(n)'.shop = e.shop
                     /\ ~KnownFace!NewDevice(e, n) /\ ~KnownFace!Lookalike(e, n)
<1>1. PICK e \in KnownFace!Events, rule \in {"pass", "fail", "unknown"} :
        LET outcome == KnownFace!Decision(KnownFace!FindingsOf(e, n, rule), Setting).outcome
        IN teaches' = [teaches EXCEPT ![n] =
             <<[shop |-> e.shop, device |-> e.device, amount |-> e.amount, outcome |-> outcome,
                answer |-> IF outcome = "step_up" THEN "pending" ELSE "none"]>>]
  BY DEF KnownFace!Decide
<1> DEFINE outcome == KnownFace!Decision(KnownFace!FindingsOf(e, n, rule), Setting).outcome
           new == [shop |-> e.shop, device |-> e.device, amount |-> e.amount, outcome |-> outcome,
                   answer |-> IF outcome = "step_up" THEN "pending" ELSE "none"]
<1>2. outcome \in {"approve", "decline", "step_up"}
  <2> DEFINE found == KnownFace!FindingsOf(e, n, rule)
  <2> HIDE DEF found
  <2>1. KnownFace!Decision(found, Setting).outcome \in {"approve", "decline", "step_up"}
    BY DEF KnownFace!Decision, KnownFace!Verdict
  <2> QED
    BY <2>1 DEF found
<1> HIDE DEF outcome
<1>3. new \in KnownTaught
  BY <1>2 DEF KnownFace!Events, KnownTaught
<1>4. /\ new.answer # "approved" /\ new.device = e.device /\ new.shop = e.shop /\ new.outcome = outcome
      /\ new.answer = "pending" => new.outcome = "step_up"
  OBVIOUS
<1>5. teaches' = [teaches EXCEPT ![n] = <<new>>]
  BY <1>1 DEF outcome
<1> HIDE DEF new
<1>6. /\ teaches' \in [KnownFace!Purchases -> {<< >>} \cup {<<t>> : t \in KnownTaught}]
      /\ teaches'[n] = <<new>> /\ \A i \in KnownFace!Purchases : i # n => teaches'[i] = teaches[i]
  BY <1>3, <1>5 DEF KnownTypes
<1>7. n \notin KnownFace!Decided /\ \A k \in 1..n - 1 : k \in KnownFace!Decided
  BY DEF KnownFace!Decide, KnownFace!Decided, KnownFace!Purchases, KnownFace!FamiliarityAssumption
<1>8. KnownFace!Decided' = KnownFace!Decided \cup {n}
  BY <1>6 DEF KnownFace!Decided
<1>9. ASSUME NEW i \in KnownFace!Decided
      PROVE  i < n /\ KnownStands(i)
  <2>1. i \in KnownFace!Purchases /\ i \in Int /\ n \in Int /\ n >= 1
    BY DEF KnownFace!Decided, KnownFace!Purchases, KnownFace!FamiliarityAssumption
  <2>2. ~(n < i) /\ n # i
    BY <1>7, <2>1 DEF KnownTypes
  <2> QED
    BY <1>6, <1>8, <2>1, <2>2 DEF KnownStands, KnownFace!R
<1>10. KnownFace!R(n)' = new
  BY <1>6 DEF KnownFace!R
<1>11. KnownTypes'
  <2>1. \A i \in KnownFace!Decided' : \A k \in 1..i - 1 : k \in KnownFace!Decided'
    BY <1>7, <1>8 DEF KnownTypes
  <2>2. \A i \in KnownFace!Decided' :
           KnownFace!R(i)'.answer = "pending" => KnownFace!R(i)'.outcome = "step_up"
    BY <1>4, <1>8, <1>9, <1>10 DEF KnownTypes, KnownStands
  <2>3. KnownFace!Purchases' = KnownFace!Purchases /\ KnownTaught' = KnownTaught
    BY DEF KnownFace!Purchases, KnownTaught, KnownFace!NoDevice
  <2> QED
    BY <1>6, <2>1, <2>2, <2>3 DEF KnownTypes
<1>12. outcome = "approve" => ~KnownFace!NewDevice(e, n) /\ ~KnownFace!Lookalike(e, n)
  BY KnownApproval DEF outcome
<1> QED
  BY <1>4, <1>7, <1>8, <1>9, <1>10, <1>11, <1>12

LEMMA KnownAnswers ==
  ASSUME KnownTypes, NEW n \in KnownFace!Purchases, KnownFace!Answer(n)
  PROVE  /\ KnownTypes'
         /\ n \in KnownFace!Decided /\ KnownFace!Decided' = KnownFace!Decided
         /\ KnownFace!R(n).outcome = "step_up" /\ KnownFace!R(n).answer = "pending"
         /\ KnownFace!R(n)'.outcome = "step_up"
         /\ KnownFace!R(n)'.device = KnownFace!R(n).device /\ KnownFace!R(n)'.shop = KnownFace!R(n).shop
         /\ \A i \in KnownFace!Decided \ {n} : KnownStands(i)
<1>1. PICK answer \in {"approved", "declined", "expired"} : teaches' = [teaches EXCEPT ![n][1].answer = answer]
  BY DEF KnownFace!Answer
<1>2. n \in KnownFace!Decided /\ KnownFace!R(n).answer = "pending"
  BY DEF KnownFace!Answer, KnownFace!Waiting
<1>3. PICK t \in KnownTaught : teaches[n] = <<t>>
  BY <1>2 DEF KnownTypes, KnownFace!Decided
<1> DEFINE new == [t EXCEPT !.answer = answer]
<1>4. /\ new \in KnownTaught /\ new.answer = answer /\ new.outcome = t.outcome
      /\ new.device = t.device /\ new.shop = t.shop
  BY DEF KnownTaught
<1>5. teaches' = [teaches EXCEPT ![n] = <<new>>] /\ teaches'[n] = <<new>> /\ \A i \in KnownFace!Purchases : i # n => teaches'[i] = teaches[i]
  <2>1. teaches' = [teaches EXCEPT ![n] = [teaches[n] EXCEPT ![1] = [teaches[n][1] EXCEPT !.answer = answer]]]
    BY <1>1
  <2>2. [teaches[n] EXCEPT ![1] = [teaches[n][1] EXCEPT !.answer = answer]] = <<new>>
    BY <1>3
  <2> QED
    BY <2>1, <2>2 DEF KnownTypes
<1>6. teaches' \in [KnownFace!Purchases -> {<< >>} \cup {<<u>> : u \in KnownTaught}]
  <2> HIDE DEF new
  <2> QED
    BY <1>4, <1>5 DEF KnownTypes
<1> HIDE DEF new
<1>7. KnownFace!Decided' = KnownFace!Decided
  BY <1>2, <1>5 DEF KnownFace!Decided
<1>8. KnownFace!R(n) = t /\ KnownFace!R(n)' = new
  BY <1>3, <1>5 DEF KnownFace!R
<1>9. \A i \in KnownFace!Decided \ {n} : KnownStands(i)
  BY <1>5, <1>7 DEF KnownStands, KnownFace!R, KnownFace!Decided
<1>10. KnownFace!R(n).outcome = "step_up"
  BY <1>2 DEF KnownTypes
<1>11. KnownTypes'
  <2>1. \A i \in KnownFace!Decided' : \A k \in 1..i - 1 : k \in KnownFace!Decided'
    BY <1>7 DEF KnownTypes
  <2>2. \A i \in KnownFace!Decided' :
           KnownFace!R(i)'.answer = "pending" => KnownFace!R(i)'.outcome = "step_up"
    BY <1>4, <1>7, <1>8, <1>9 DEF KnownTypes, KnownStands
  <2>3. KnownFace!Purchases' = KnownFace!Purchases /\ KnownTaught' = KnownTaught
    BY DEF KnownFace!Purchases, KnownTaught, KnownFace!NoDevice
  <2> QED
    BY <1>6, <2>1, <2>2, <2>3 DEF KnownTypes
<1> QED
  BY <1>2, <1>4, <1>7, <1>8, <1>9, <1>10, <1>11

(* What was known before a purchase is what has been approved so far. *)
LEMMA KnownBefore ==
  ASSUME NEW n, \A i \in KnownFace!Decided : i < n
  PROVE  /\ KnownFace!Learned(n) = KnownFinal
         /\ KnownFace!KnownDevices(n) = (KnownPast \cup {KnownFace!R(i).device : i \in KnownFinal}) \ {KnownFace!NoDevice}
         /\ KnownFace!KnownShops(n) = {h.shop : h \in History} \cup {KnownFace!R(i).shop : i \in KnownFinal}
<1>1. KnownFace!Learned(n) = KnownFinal
  BY DEF KnownFace!Learned, KnownFinal
<1> QED
  BY <1>1 DEF KnownFace!KnownDevices, KnownFace!KnownShops, KnownPast

LEMMA KnownAtTheEnd ==
  ASSUME KnownFace!FamiliarityAssumption
  PROVE  \A i \in KnownFace!Decided : i < KnownFace!All
BY DEF KnownFace!FamiliarityAssumption, KnownFace!All, KnownFace!Decided, KnownFace!Purchases

LEMMA LookalikesByRow ==
  ASSUME KnownFace!FamiliarityAssumption
  PROVE  KnownFace!LookalikesVouchedFor <=> KnownLikes
<1>1. KnownFace!KnownShops(KnownFace!All)
        = {h.shop : h \in History} \cup {KnownFace!R(i).shop : i \in KnownFinal}
  BY KnownAtTheEnd, KnownBefore
<1> QED
  BY <1>1 DEF KnownFace!LookalikesVouchedFor, KnownLikes, KnownYes

LEMMA KnownStepDecide ==
  ASSUME KnownFace!FamiliarityAssumption, KnownInv, NEW n \in KnownFace!Purchases, KnownFace!Decide(n)
  PROVE  KnownInv'
<1> DEFINE new == KnownFace!R(n)'
<1>1. /\ KnownTypes'
      /\ n \notin KnownFace!Decided /\ KnownFace!Decided' = KnownFace!Decided \cup {n}
      /\ \A i \in KnownFace!Decided : i < n /\ KnownFace!R(i)' = KnownFace!R(i)
      /\ new.answer # "approved"
  BY KnownDecides DEF KnownInv, KnownStands
<1>2. new.outcome = "approve" =>
        /\ new.device # KnownFace!NoDevice
        /\ \/ new.device \in KnownPast
           \/ \E i \in KnownFinal : KnownFace!R(i).device = new.device
           \/ History = {} /\ KnownFinal = {}
        /\ \/ new.shop \in {h.shop : h \in History}
           \/ \E i \in KnownFinal : KnownFace!R(i).shop = new.shop
           \/ ~\E h \in History : {h.shop, new.shop} \in Alike
  <2> SUFFICES ASSUME new.outcome = "approve"
               PROVE  /\ new.device # KnownFace!NoDevice
                      /\ \/ new.device \in KnownPast
                         \/ \E i \in KnownFinal : KnownFace!R(i).device = new.device
                         \/ History = {} /\ KnownFinal = {}
                      /\ \/ new.shop \in {h.shop : h \in History}
                         \/ \E i \in KnownFinal : KnownFace!R(i).shop = new.shop
                         \/ ~\E h \in History : {h.shop, new.shop} \in Alike
    OBVIOUS
  <2>1. PICK e : /\ new.device = e.device /\ new.shop = e.shop
                 /\ ~KnownFace!NewDevice(e, n) /\ ~KnownFace!Lookalike(e, n)
    BY KnownDecides DEF KnownInv
  <2>2. /\ KnownFace!KnownDevices(n)
             = (KnownPast \cup {KnownFace!R(i).device : i \in KnownFinal}) \ {KnownFace!NoDevice}
        /\ KnownFace!KnownShops(n) = {h.shop : h \in History} \cup {KnownFace!R(i).shop : i \in KnownFinal}
    BY <1>1, KnownBefore
  <2> HIDE DEF new
  <2>3. /\ e.device # KnownFace!NoDevice
        /\ e.device \in KnownFace!KnownDevices(n) \/ KnownFace!KnownShops(n) = {}
    BY <2>1 DEF KnownFace!NewDevice, KnownFace!NoBaseline
  <2>4. KnownFace!KnownShops(n) = {} => History = {} /\ KnownFinal = {}
    BY <2>2
  <2>5. e.shop \in KnownFace!KnownShops(n) \/ ~\E h \in History : {h.shop, e.shop} \in Alike
    BY <2>1, <2>2 DEF KnownFace!Lookalike
  <2> QED
    BY <2>1, <2>2, <2>3, <2>4, <2>5
<1>3. \A i : KnownYes(i)' <=> KnownYes(i)
  BY <1>1 DEF KnownYes, KnownFace!CustomerYes
<1>4. KnownFinal' = KnownFinal \cup (IF new.outcome = "approve" THEN {n} ELSE {})
  BY <1>1 DEF KnownFinal, KnownFace!Final
<1>5. KnownFinal \subseteq KnownFace!Decided
  BY DEF KnownFinal
<1>6. ASSUME NEW d, KnownFree(d)'
      PROVE  \/ KnownFree(d)
             \/ new.outcome = "approve" /\ d = new.device /\ History = {} /\ KnownFinal = {}
  <2>1. /\ \E i \in KnownFinal' : KnownFace!R(i)'.device = d
        /\ d \notin KnownPast /\ d # KnownFace!NoDevice
        /\ ~\E i \in KnownFace!Decided : KnownYes(i) /\ KnownFace!R(i).device = d
    BY <1>1, <1>3, <1>6 DEF KnownFree, KnownPast, KnownFace!NoDevice
  <2>2. CASE \E i \in KnownFinal : KnownFace!R(i).device = d
    BY <2>1, <2>2 DEF KnownFree
  <2>3. CASE ~\E i \in KnownFinal : KnownFace!R(i).device = d
    <3>1. new.outcome = "approve" /\ d = new.device
      BY <1>1, <1>4, <1>5, <2>1, <2>3
    <3> HIDE DEF new
    <3> QED
      BY <1>2, <2>1, <2>3, <3>1
  <2> QED
    BY <2>2, <2>3
<1>7. (History # {} => \A d : ~KnownFree(d))'
  BY <1>6 DEF KnownInv
<1>8. (\A d, e : KnownFree(d) /\ KnownFree(e) => d = e)'
  <2>1. KnownFinal = {} => \A d : ~KnownFree(d)
    BY DEF KnownFree
  <2> QED
    BY <1>6, <2>1 DEF KnownInv
<1>9. KnownFace!NoDeviceAsks'
  BY <1>1, <1>2 DEF KnownInv, KnownFace!NoDeviceAsks, KnownFace!NoDevice
<1>10. KnownLikes'
  <2>1. ASSUME NEW i \in KnownFinal',
               \E h \in History : {h.shop, KnownFace!R(i)'.shop} \in Alike,
               KnownFace!R(i)'.shop \notin {h.shop : h \in History}
        PROVE  \E j \in KnownFace!Decided : KnownYes(j) /\ KnownFace!R(j).shop = KnownFace!R(i)'.shop
    <3>1. \E k \in KnownFinal : KnownFace!R(k).shop = KnownFace!R(i)'.shop
      BY <1>1, <1>2, <1>4, <1>5, <2>1
    <3> QED
      BY <2>1, <3>1 DEF KnownInv, KnownLikes
  <2>2. ASSUME NEW i \in KnownFinal',
               \E h \in History : {h.shop, KnownFace!R(i)'.shop} \in Alike,
               KnownFace!R(i)'.shop \notin {h.shop : h \in History}
        PROVE  \E j \in KnownFace!Decided' : KnownYes(j)' /\ KnownFace!R(j)'.shop = KnownFace!R(i)'.shop
    BY <1>1, <1>3, <2>1, <2>2
  <2> QED
    BY <2>2 DEF KnownLikes
<1> QED
  BY <1>1, <1>7, <1>8, <1>9, <1>10 DEF KnownInv

LEMMA KnownStepAnswer ==
  ASSUME KnownInv, NEW n \in KnownFace!Purchases, KnownFace!Answer(n)
  PROVE  KnownInv'
<1>1. /\ KnownTypes'
      /\ n \in KnownFace!Decided /\ KnownFace!Decided' = KnownFace!Decided
      /\ KnownFace!R(n).outcome = "step_up" /\ KnownFace!R(n).answer = "pending"
      /\ KnownFace!R(n)'.outcome = "step_up"
      /\ KnownFace!R(n)'.device = KnownFace!R(n).device /\ KnownFace!R(n)'.shop = KnownFace!R(n).shop
      /\ \A i \in KnownFace!Decided \ {n} : KnownFace!R(i)' = KnownFace!R(i)
  BY KnownAnswers DEF KnownInv, KnownStands
<1>2. \A i : KnownYes(i) => KnownYes(i)'
  BY <1>1 DEF KnownYes, KnownFace!CustomerYes
<1>3. \A i \in KnownFinal' : i \in KnownFinal \/ (i = n /\ KnownYes(n)')
  BY <1>1 DEF KnownFinal, KnownFace!Final, KnownYes, KnownFace!CustomerYes
<1>4. \A i \in KnownFace!Decided :
        KnownFace!R(i)'.device = KnownFace!R(i).device /\ KnownFace!R(i)'.shop = KnownFace!R(i).shop
  BY <1>1
<1>5. ASSUME NEW d, KnownFree(d)'
      PROVE  KnownFree(d)
  <2>1. /\ \E i \in KnownFinal' : KnownFace!R(i)'.device = d
        /\ d \notin KnownPast /\ d # KnownFace!NoDevice
        /\ ~\E i \in KnownFace!Decided : KnownYes(i)' /\ KnownFace!R(i)'.device = d
    BY <1>1, <1>5 DEF KnownFree, KnownPast, KnownFace!NoDevice
  <2>2. KnownFinal \subseteq KnownFace!Decided
    BY DEF KnownFinal
  <2> QED
    BY <1>1, <1>2, <1>3, <1>4, <2>1, <2>2 DEF KnownFree
<1>6. KnownFace!NoDeviceAsks'
  BY <1>1 DEF KnownInv, KnownFace!NoDeviceAsks, KnownFace!NoDevice
<1>7. KnownLikes'
  <2>1. ASSUME NEW i \in KnownFinal',
               \E h \in History : {h.shop, KnownFace!R(i)'.shop} \in Alike,
               KnownFace!R(i)'.shop \notin {h.shop : h \in History}
        PROVE  \E j \in KnownFace!Decided' : KnownYes(j)' /\ KnownFace!R(j)'.shop = KnownFace!R(i)'.shop
    <3>1. CASE i = n /\ KnownYes(n)'
      BY <1>1, <3>1
    <3>2. CASE i \in KnownFinal
      <4>1. i \in KnownFace!Decided
        BY <3>2 DEF KnownFinal
      <4>2. PICK j \in KnownFace!Decided : KnownYes(j) /\ KnownFace!R(j).shop = KnownFace!R(i).shop
        BY <1>4, <2>1, <3>2, <4>1 DEF KnownInv, KnownLikes
      <4> QED
        BY <1>1, <1>2, <1>4, <4>1, <4>2
    <3> QED
      BY <1>3, <3>1, <3>2
  <2> QED
    BY <2>1 DEF KnownLikes
<1> QED
  BY <1>1, <1>5, <1>6, <1>7 DEF KnownInv

LEMMA KnownSteps ==
  ASSUME KnownFace!FamiliarityAssumption, KnownInv, [KnownFace!Next]_(KnownFace!vars)
  PROVE  KnownInv'
<1>1. CASE KnownFace!Next
  BY <1>1, KnownStepDecide, KnownStepAnswer DEF KnownFace!Next
<1>2. CASE UNCHANGED KnownFace!vars
  <2>1. teaches' = teaches
    BY <1>2 DEF KnownFace!vars
  <2>2. /\ KnownFace!Decided' = KnownFace!Decided /\ \A i : KnownFace!R(i)' = KnownFace!R(i)
    BY <2>1 DEF KnownFace!Decided, KnownFace!R
  <2>3. KnownTypes'
    BY <2>1, <2>2 DEF KnownInv, KnownTypes, KnownTaught, KnownFace!Purchases, KnownFace!NoDevice
  <2>4. KnownFinal' = KnownFinal /\ \A i : KnownYes(i)' <=> KnownYes(i)
    BY <2>2 DEF KnownFinal, KnownFace!Final, KnownYes, KnownFace!CustomerYes
  <2>5. \A d : KnownFree(d)' <=> KnownFree(d)
    BY <2>2, <2>4 DEF KnownFree, KnownPast, KnownFace!NoDevice
  <2>6. KnownLikes' /\ KnownFace!NoDeviceAsks'
    BY <2>2, <2>4 DEF KnownInv, KnownLikes, KnownFace!NoDeviceAsks, KnownFace!NoDevice
  <2> QED
    BY <2>3, <2>5, <2>6 DEF KnownInv
<1> QED
  BY <1>1, <1>2

(* What the invariant says of the known devices and shops at the end. *)
LEMMA KnownStand ==
  ASSUME KnownFace!FamiliarityAssumption, KnownInv
  PROVE  /\ KnownFace!DevicesVouchedFor /\ KnownFace!LookalikesVouchedFor
         /\ KnownFace!OneFreeDevice /\ KnownFace!NoDeviceAsks
<1>1. /\ KnownFace!KnownDevices(KnownFace!All)
           = (KnownPast \cup {KnownFace!R(i).device : i \in KnownFinal}) \ {KnownFace!NoDevice}
      /\ KnownFace!KnownShops(KnownFace!All)
           = {h.shop : h \in History} \cup {KnownFace!R(i).shop : i \in KnownFinal}
  BY KnownAtTheEnd, KnownBefore
<1>2. KnownFace!DevicesVouchedFor
  BY <1>1 DEF KnownInv, KnownFree, KnownYes, KnownPast, KnownFace!DevicesVouchedFor
<1>3. KnownFace!LookalikesVouchedFor
  BY LookalikesByRow DEF KnownInv
<1> DEFINE free == {d \in KnownFace!KnownDevices(KnownFace!All) :
                      /\ d \notin {h.device : h \in History}
                      /\ ~\E i \in KnownFace!Decided : KnownFace!CustomerYes(i) /\ KnownFace!R(i).device = d}
<1>4. \A d \in free : KnownFree(d)
  BY <1>1 DEF KnownFree, KnownYes, KnownPast
<1>5. free = {} \/ \E d : free = {d}
  <2> HIDE DEF free
  <2> QED
    BY <1>4 DEF KnownInv
<1>6. Cardinality(free) <= 1
  <2> HIDE DEF free
  <2> QED
    BY <1>5, FS_EmptySet, FS_Singleton
<1>7. KnownFace!Cardinality(free) = Cardinality(free)
  BY DEF KnownFace!Cardinality, Cardinality
<1>8. KnownFace!OneFreeDevice
  BY <1>6, <1>7 DEF KnownFace!OneFreeDevice
<1> QED
  BY <1>2, <1>3, <1>8 DEF KnownInv

(* W1, A7: a device, or a shop of almost a known name, becomes known by a  *)
(* purchase the customer said yes to; without a history one device does    *)
(* without it; what comes without a device asks (warnings.py). *)
THEOREM KnownByHerYes ==
  ASSUME KnownFace!FamiliarityAssumption
  PROVE  KnownFace!Spec => []( /\ KnownFace!DevicesVouchedFor /\ KnownFace!LookalikesVouchedFor
                               /\ KnownFace!OneFreeDevice /\ KnownFace!NoDeviceAsks )
<1>1. KnownFace!Init => KnownInv
  BY KnownInitially
<1>2. KnownInv /\ [KnownFace!Next]_(KnownFace!vars) => KnownInv'
  BY KnownSteps
<1>3. KnownInv => /\ KnownFace!DevicesVouchedFor /\ KnownFace!LookalikesVouchedFor
                  /\ KnownFace!OneFreeDevice /\ KnownFace!NoDeviceAsks
  BY KnownStand
<1> QED
  BY <1>1, <1>2, <1>3, PTL DEF KnownFace!Spec

-----------------------------------------------------------------------------
(* The same for a customer without a history, whose policy is the other    *)
(* way round in what it forbids.  A name that says Newly is the one above  *)
(* that says Known. *)

NewlyTaught ==
  [shop : Shops, device : Devices \cup {Newcomer!NoDevice}, amount : Amounts,
   outcome : {"approve", "decline", "step_up"},
   answer : {"none", "pending", "approved", "declined", "expired"}]

NewlyTypes ==
  /\ teaches \in [Newcomer!Purchases -> {<< >>} \cup {<<t>> : t \in NewlyTaught}]
  /\ \A i \in Newcomer!Decided : \A k \in 1..i - 1 : k \in Newcomer!Decided
  /\ \A i \in Newcomer!Decided : Newcomer!R(i).answer = "pending" => Newcomer!R(i).outcome = "step_up"

NewlyYes(i) == i \in Newcomer!Decided /\ Newcomer!CustomerYes(i)
NewlyFinal == {i \in Newcomer!Decided : Newcomer!Final(i)}
NewlyFree(d) ==
  /\ \E i \in NewlyFinal : Newcomer!R(i).device = d
  /\ d # Newcomer!NoDevice
  /\ ~\E i \in Newcomer!Decided : NewlyYes(i) /\ Newcomer!R(i).device = d

NewlyInv ==
  /\ NewlyTypes
  /\ \A d, e : NewlyFree(d) /\ NewlyFree(e) => d = e
  /\ Newcomer!NoDeviceAsks

LEMMA NewlyInitially ==
  ASSUME Newcomer!Init
  PROVE  NewlyInv
<1>1. Newcomer!Decided = {}
  BY DEF Newcomer!Init, Newcomer!Decided
<1>2. NewlyTypes
  BY <1>1 DEF Newcomer!Init, NewlyTypes
<1>3. \A d : ~NewlyFree(d)
  BY <1>1 DEF NewlyFree, NewlyFinal
<1>4. Newcomer!NoDeviceAsks
  BY <1>1 DEF Newcomer!NoDeviceAsks
<1> QED
  BY <1>2, <1>3, <1>4 DEF NewlyInv

LEMMA NewlyApproval ==
  ASSUME Newcomer!FamiliarityAssumption, NEW e, NEW n, NEW rule,
         Newcomer!Decision(Newcomer!FindingsOf(e, n, rule), Setting).outcome = "approve"
  PROVE  ~Newcomer!NewDevice(e, n)
<1> DEFINE found == Newcomer!FindingsOf(e, n, rule)
<1>1. found.strong = {}
  <2>1. Newcomer!Decision(found, Setting).outcome = "approve"
    OBVIOUS
  <2> HIDE DEF found
  <2> QED
    BY <2>1 DEF Newcomer!Decision, Newcomer!Verdict, Newcomer!Suspicious
<1> QED
  BY <1>1 DEF Newcomer!FindingsOf

NewlyStands(i) == i \in Newcomer!Decided' /\ Newcomer!R(i)' = Newcomer!R(i)

LEMMA NewlyDecides ==
  ASSUME Newcomer!FamiliarityAssumption, NewlyTypes, NEW n \in Newcomer!Purchases, Newcomer!Decide(n)
  PROVE  /\ NewlyTypes'
         /\ n \notin Newcomer!Decided /\ Newcomer!Decided' = Newcomer!Decided \cup {n}
         /\ \A i \in Newcomer!Decided : i < n /\ NewlyStands(i)
         /\ Newcomer!R(n)'.answer # "approved"
         /\ Newcomer!R(n)'.outcome = "approve" =>
              \E e : Newcomer!R(n)'.device = e.device /\ ~Newcomer!NewDevice(e, n)
<1>1. PICK e \in Newcomer!Events, rule \in {"pass", "fail", "unknown"} :
        LET outcome == Newcomer!Decision(Newcomer!FindingsOf(e, n, rule), Setting).outcome
        IN teaches' = [teaches EXCEPT ![n] =
             <<[shop |-> e.shop, device |-> e.device, amount |-> e.amount, outcome |-> outcome,
                answer |-> IF outcome = "step_up" THEN "pending" ELSE "none"]>>]
  BY DEF Newcomer!Decide
<1> DEFINE outcome == Newcomer!Decision(Newcomer!FindingsOf(e, n, rule), Setting).outcome
           new == [shop |-> e.shop, device |-> e.device, amount |-> e.amount, outcome |-> outcome,
                   answer |-> IF outcome = "step_up" THEN "pending" ELSE "none"]
<1>2. outcome \in {"approve", "decline", "step_up"}
  <2> DEFINE found == Newcomer!FindingsOf(e, n, rule)
  <2> HIDE DEF found
  <2>1. Newcomer!Decision(found, Setting).outcome \in {"approve", "decline", "step_up"}
    BY DEF Newcomer!Decision, Newcomer!Verdict
  <2> QED
    BY <2>1 DEF found
<1> HIDE DEF outcome
<1>3. new \in NewlyTaught
  BY <1>2 DEF Newcomer!Events, NewlyTaught
<1>4. /\ new.answer # "approved" /\ new.device = e.device /\ new.outcome = outcome
      /\ new.answer = "pending" => new.outcome = "step_up"
  OBVIOUS
<1>5. teaches' = [teaches EXCEPT ![n] = <<new>>]
  BY <1>1 DEF outcome
<1> HIDE DEF new
<1>6. /\ teaches' \in [Newcomer!Purchases -> {<< >>} \cup {<<t>> : t \in NewlyTaught}]
      /\ teaches'[n] = <<new>> /\ \A i \in Newcomer!Purchases : i # n => teaches'[i] = teaches[i]
  BY <1>3, <1>5 DEF NewlyTypes
<1>7. n \notin Newcomer!Decided /\ \A k \in 1..n - 1 : k \in Newcomer!Decided
  BY DEF Newcomer!Decide, Newcomer!Decided, Newcomer!Purchases, Newcomer!FamiliarityAssumption
<1>8. Newcomer!Decided' = Newcomer!Decided \cup {n}
  BY <1>6 DEF Newcomer!Decided
<1>9. ASSUME NEW i \in Newcomer!Decided
      PROVE  i < n /\ NewlyStands(i)
  <2>1. i \in Newcomer!Purchases /\ i \in Int /\ n \in Int /\ n >= 1
    BY DEF Newcomer!Decided, Newcomer!Purchases, Newcomer!FamiliarityAssumption
  <2>2. ~(n < i) /\ n # i
    BY <1>7, <2>1 DEF NewlyTypes
  <2> QED
    BY <1>6, <1>8, <2>1, <2>2 DEF NewlyStands, Newcomer!R
<1>10. Newcomer!R(n)' = new
  BY <1>6 DEF Newcomer!R
<1>11. NewlyTypes'
  <2>1. \A i \in Newcomer!Decided' : \A k \in 1..i - 1 : k \in Newcomer!Decided'
    BY <1>7, <1>8 DEF NewlyTypes
  <2>2. \A i \in Newcomer!Decided' :
           Newcomer!R(i)'.answer = "pending" => Newcomer!R(i)'.outcome = "step_up"
    BY <1>4, <1>8, <1>9, <1>10 DEF NewlyTypes, NewlyStands
  <2>3. Newcomer!Purchases' = Newcomer!Purchases /\ NewlyTaught' = NewlyTaught
    BY DEF Newcomer!Purchases, NewlyTaught, Newcomer!NoDevice
  <2> QED
    BY <1>6, <2>1, <2>2, <2>3 DEF NewlyTypes
<1>12. outcome = "approve" => ~Newcomer!NewDevice(e, n)
  BY NewlyApproval DEF outcome
<1> QED
  BY <1>4, <1>7, <1>8, <1>9, <1>10, <1>11, <1>12

LEMMA NewlyAnswers ==
  ASSUME NewlyTypes, NEW n \in Newcomer!Purchases, Newcomer!Answer(n)
  PROVE  /\ NewlyTypes'
         /\ n \in Newcomer!Decided /\ Newcomer!Decided' = Newcomer!Decided
         /\ Newcomer!R(n).outcome = "step_up" /\ Newcomer!R(n).answer = "pending"
         /\ Newcomer!R(n)'.outcome = "step_up"
         /\ Newcomer!R(n)'.device = Newcomer!R(n).device
         /\ \A i \in Newcomer!Decided \ {n} : NewlyStands(i)
<1>1. PICK answer \in {"approved", "declined", "expired"} : teaches' = [teaches EXCEPT ![n][1].answer = answer]
  BY DEF Newcomer!Answer
<1>2. n \in Newcomer!Decided /\ Newcomer!R(n).answer = "pending"
  BY DEF Newcomer!Answer, Newcomer!Waiting
<1>3. PICK t \in NewlyTaught : teaches[n] = <<t>>
  BY <1>2 DEF NewlyTypes, Newcomer!Decided
<1> DEFINE new == [t EXCEPT !.answer = answer]
<1>4. /\ new \in NewlyTaught /\ new.answer = answer /\ new.outcome = t.outcome
      /\ new.device = t.device
  BY DEF NewlyTaught
<1>5. teaches' = [teaches EXCEPT ![n] = <<new>>] /\ teaches'[n] = <<new>> /\ \A i \in Newcomer!Purchases : i # n => teaches'[i] = teaches[i]
  <2>1. teaches' = [teaches EXCEPT ![n] = [teaches[n] EXCEPT ![1] = [teaches[n][1] EXCEPT !.answer = answer]]]
    BY <1>1
  <2>2. [teaches[n] EXCEPT ![1] = [teaches[n][1] EXCEPT !.answer = answer]] = <<new>>
    BY <1>3
  <2> QED
    BY <2>1, <2>2 DEF NewlyTypes
<1>6. teaches' \in [Newcomer!Purchases -> {<< >>} \cup {<<u>> : u \in NewlyTaught}]
  <2> HIDE DEF new
  <2> QED
    BY <1>4, <1>5 DEF NewlyTypes
<1> HIDE DEF new
<1>7. Newcomer!Decided' = Newcomer!Decided
  BY <1>2, <1>5 DEF Newcomer!Decided
<1>8. Newcomer!R(n) = t /\ Newcomer!R(n)' = new
  BY <1>3, <1>5 DEF Newcomer!R
<1>9. \A i \in Newcomer!Decided \ {n} : NewlyStands(i)
  BY <1>5, <1>7 DEF NewlyStands, Newcomer!R, Newcomer!Decided
<1>10. Newcomer!R(n).outcome = "step_up"
  BY <1>2 DEF NewlyTypes
<1>11. NewlyTypes'
  <2>1. \A i \in Newcomer!Decided' : \A k \in 1..i - 1 : k \in Newcomer!Decided'
    BY <1>7 DEF NewlyTypes
  <2>2. \A i \in Newcomer!Decided' :
           Newcomer!R(i)'.answer = "pending" => Newcomer!R(i)'.outcome = "step_up"
    BY <1>4, <1>7, <1>8, <1>9 DEF NewlyTypes, NewlyStands
  <2>3. Newcomer!Purchases' = Newcomer!Purchases /\ NewlyTaught' = NewlyTaught
    BY DEF Newcomer!Purchases, NewlyTaught, Newcomer!NoDevice
  <2> QED
    BY <1>6, <2>1, <2>2, <2>3 DEF NewlyTypes
<1> QED
  BY <1>2, <1>4, <1>7, <1>8, <1>9, <1>10, <1>11

LEMMA NewlyBefore ==
  ASSUME NEW n, \A i \in Newcomer!Decided : i < n
  PROVE  /\ Newcomer!Learned(n) = NewlyFinal
         /\ Newcomer!KnownDevices(n) = {Newcomer!R(i).device : i \in NewlyFinal} \ {Newcomer!NoDevice}
         /\ Newcomer!KnownShops(n) = {Newcomer!R(i).shop : i \in NewlyFinal}
<1>1. Newcomer!Learned(n) = NewlyFinal
  BY DEF Newcomer!Learned, NewlyFinal
<1> QED
  BY <1>1 DEF Newcomer!KnownDevices, Newcomer!KnownShops

LEMMA NewlyAtTheEnd ==
  ASSUME Newcomer!FamiliarityAssumption
  PROVE  \A i \in Newcomer!Decided : i < Newcomer!All
BY DEF Newcomer!FamiliarityAssumption, Newcomer!All, Newcomer!Decided, Newcomer!Purchases

LEMMA NewlyStepDecide ==
  ASSUME Newcomer!FamiliarityAssumption, NewlyInv, NEW n \in Newcomer!Purchases, Newcomer!Decide(n)
  PROVE  NewlyInv'
<1> DEFINE new == Newcomer!R(n)'
<1>1. /\ NewlyTypes'
      /\ n \notin Newcomer!Decided /\ Newcomer!Decided' = Newcomer!Decided \cup {n}
      /\ \A i \in Newcomer!Decided : i < n /\ Newcomer!R(i)' = Newcomer!R(i)
      /\ new.answer # "approved"
  BY NewlyDecides DEF NewlyInv, NewlyStands
<1>2. new.outcome = "approve" =>
        /\ new.device # Newcomer!NoDevice
        /\ \/ \E i \in NewlyFinal : Newcomer!R(i).device = new.device
           \/ NewlyFinal = {}
  <2> SUFFICES ASSUME new.outcome = "approve"
               PROVE  /\ new.device # Newcomer!NoDevice
                      /\ \/ \E i \in NewlyFinal : Newcomer!R(i).device = new.device
                         \/ NewlyFinal = {}
    OBVIOUS
  <2>1. PICK e : new.device = e.device /\ ~Newcomer!NewDevice(e, n)
    BY NewlyDecides DEF NewlyInv
  <2>2. /\ Newcomer!KnownDevices(n)
             = {Newcomer!R(i).device : i \in NewlyFinal} \ {Newcomer!NoDevice}
        /\ Newcomer!KnownShops(n) = {Newcomer!R(i).shop : i \in NewlyFinal}
    BY <1>1, NewlyBefore
  <2> HIDE DEF new
  <2>3. /\ e.device # Newcomer!NoDevice
        /\ e.device \in Newcomer!KnownDevices(n) \/ Newcomer!KnownShops(n) = {}
    BY <2>1 DEF Newcomer!NewDevice, Newcomer!NoBaseline
  <2>4. Newcomer!KnownShops(n) = {} => NewlyFinal = {}
    BY <2>2
  <2> QED
    BY <2>1, <2>2, <2>3, <2>4
<1>3. \A i : NewlyYes(i)' <=> NewlyYes(i)
  BY <1>1 DEF NewlyYes, Newcomer!CustomerYes
<1>4. NewlyFinal' = NewlyFinal \cup (IF new.outcome = "approve" THEN {n} ELSE {})
  BY <1>1 DEF NewlyFinal, Newcomer!Final
<1>5. NewlyFinal \subseteq Newcomer!Decided
  BY DEF NewlyFinal
<1>6. ASSUME NEW d, NewlyFree(d)'
      PROVE  \/ NewlyFree(d)
             \/ new.outcome = "approve" /\ d = new.device /\ NewlyFinal = {}
  <2>1. /\ \E i \in NewlyFinal' : Newcomer!R(i)'.device = d
        /\ d # Newcomer!NoDevice
        /\ ~\E i \in Newcomer!Decided : NewlyYes(i) /\ Newcomer!R(i).device = d
    BY <1>1, <1>3, <1>6 DEF NewlyFree, Newcomer!NoDevice
  <2>2. CASE \E i \in NewlyFinal : Newcomer!R(i).device = d
    BY <2>1, <2>2 DEF NewlyFree
  <2>3. CASE ~\E i \in NewlyFinal : Newcomer!R(i).device = d
    <3>1. new.outcome = "approve" /\ d = new.device
      BY <1>1, <1>4, <1>5, <2>1, <2>3
    <3> HIDE DEF new
    <3> QED
      BY <1>2, <2>1, <2>3, <3>1
  <2> QED
    BY <2>2, <2>3
<1>8. (\A d, e : NewlyFree(d) /\ NewlyFree(e) => d = e)'
  <2>1. NewlyFinal = {} => \A d : ~NewlyFree(d)
    BY DEF NewlyFree
  <2> QED
    BY <1>6, <2>1 DEF NewlyInv
<1>9. Newcomer!NoDeviceAsks'
  BY <1>1, <1>2 DEF NewlyInv, Newcomer!NoDeviceAsks, Newcomer!NoDevice
<1> QED
  BY <1>1, <1>8, <1>9 DEF NewlyInv

LEMMA NewlyStepAnswer ==
  ASSUME NewlyInv, NEW n \in Newcomer!Purchases, Newcomer!Answer(n)
  PROVE  NewlyInv'
<1>1. /\ NewlyTypes'
      /\ n \in Newcomer!Decided /\ Newcomer!Decided' = Newcomer!Decided
      /\ Newcomer!R(n).outcome = "step_up" /\ Newcomer!R(n).answer = "pending"
      /\ Newcomer!R(n)'.outcome = "step_up"
      /\ Newcomer!R(n)'.device = Newcomer!R(n).device
      /\ \A i \in Newcomer!Decided \ {n} : Newcomer!R(i)' = Newcomer!R(i)
  BY NewlyAnswers DEF NewlyInv, NewlyStands
<1>2. \A i : NewlyYes(i) => NewlyYes(i)'
  BY <1>1 DEF NewlyYes, Newcomer!CustomerYes
<1>3. \A i \in NewlyFinal' : i \in NewlyFinal \/ (i = n /\ NewlyYes(n)')
  BY <1>1 DEF NewlyFinal, Newcomer!Final, NewlyYes, Newcomer!CustomerYes
<1>4. \A i \in Newcomer!Decided :
        Newcomer!R(i)'.device = Newcomer!R(i).device
  BY <1>1
<1>5. ASSUME NEW d, NewlyFree(d)'
      PROVE  NewlyFree(d)
  <2>1. /\ \E i \in NewlyFinal' : Newcomer!R(i)'.device = d
        /\ d # Newcomer!NoDevice
        /\ ~\E i \in Newcomer!Decided : NewlyYes(i)' /\ Newcomer!R(i)'.device = d
    BY <1>1, <1>5 DEF NewlyFree, Newcomer!NoDevice
  <2>2. NewlyFinal \subseteq Newcomer!Decided
    BY DEF NewlyFinal
  <2> QED
    BY <1>1, <1>2, <1>3, <1>4, <2>1, <2>2 DEF NewlyFree
<1>6. Newcomer!NoDeviceAsks'
  BY <1>1 DEF NewlyInv, Newcomer!NoDeviceAsks, Newcomer!NoDevice
<1> QED
  BY <1>1, <1>5, <1>6 DEF NewlyInv

LEMMA NewlySteps ==
  ASSUME Newcomer!FamiliarityAssumption, NewlyInv, [Newcomer!Next]_(Newcomer!vars)
  PROVE  NewlyInv'
<1>1. CASE Newcomer!Next
  BY <1>1, NewlyStepDecide, NewlyStepAnswer DEF Newcomer!Next
<1>2. CASE UNCHANGED Newcomer!vars
  <2>1. teaches' = teaches
    BY <1>2 DEF Newcomer!vars
  <2>2. /\ Newcomer!Decided' = Newcomer!Decided /\ \A i : Newcomer!R(i)' = Newcomer!R(i)
    BY <2>1 DEF Newcomer!Decided, Newcomer!R
  <2>3. NewlyTypes'
    BY <2>1, <2>2 DEF NewlyInv, NewlyTypes, NewlyTaught, Newcomer!Purchases, Newcomer!NoDevice
  <2>4. NewlyFinal' = NewlyFinal /\ \A i : NewlyYes(i)' <=> NewlyYes(i)
    BY <2>2 DEF NewlyFinal, Newcomer!Final, NewlyYes, Newcomer!CustomerYes
  <2>5. \A d : NewlyFree(d)' <=> NewlyFree(d)
    BY <2>2, <2>4 DEF NewlyFree, Newcomer!NoDevice
  <2>6. Newcomer!NoDeviceAsks'
    BY <2>2, <2>4 DEF NewlyInv, Newcomer!NoDeviceAsks, Newcomer!NoDevice
  <2> QED
    BY <2>3, <2>5, <2>6 DEF NewlyInv
<1> QED
  BY <1>1, <1>2

LEMMA NewlyStand ==
  ASSUME Newcomer!FamiliarityAssumption, NewlyInv
  PROVE  Newcomer!OneFreeDevice /\ Newcomer!NoDeviceAsks
<1>1. Newcomer!KnownDevices(Newcomer!All)
        = {Newcomer!R(i).device : i \in NewlyFinal} \ {Newcomer!NoDevice}
  BY NewlyAtTheEnd, NewlyBefore
<1> DEFINE free == {d \in Newcomer!KnownDevices(Newcomer!All) :
                      /\ d \notin {h.device : h \in {}}
                      /\ ~\E i \in Newcomer!Decided : Newcomer!CustomerYes(i) /\ Newcomer!R(i).device = d}
<1>4. \A d \in free : NewlyFree(d)
  BY <1>1 DEF NewlyFree, NewlyYes
<1>5. free = {} \/ \E d : free = {d}
  <2> HIDE DEF free
  <2> QED
    BY <1>4 DEF NewlyInv
<1>6. Cardinality(free) <= 1
  <2> HIDE DEF free
  <2> QED
    BY <1>5, FS_EmptySet, FS_Singleton
<1>7. Newcomer!Cardinality(free) = Cardinality(free)
  BY DEF Newcomer!Cardinality, Cardinality
<1>8. Newcomer!OneFreeDevice
  BY <1>6, <1>7 DEF Newcomer!OneFreeDevice
<1> QED
  BY <1>8 DEF NewlyInv

-----------------------------------------------------------------------------
(* The parts together: the one that runs keeps what is so of it, the       *)
(* others rest. *)

PartsInv ==
  /\ part \in Parts
  /\ part = "read" => ReadInv
  /\ part = "familiar" => KnownInv
  /\ part = "newcomer" => NewlyInv

LEMMA PartsInitially ==
  ASSUME WholeInit
  PROVE  PartsInv
<1>1. part \in Parts
  BY DEF WholeInit
<1>2. part = "read" => ReadInv
  BY ReadInitially DEF WholeInit
<1>3. KnownInv
  BY KnownInitially DEF WholeInit
<1>4. NewlyInv
  <2>1. Newcomer!Init
    BY DEF WholeInit, KnownFace!Init, Newcomer!Init, KnownFace!Purchases, Newcomer!Purchases
  <2> QED
    BY <2>1, NewlyInitially
<1> QED
  BY <1>1, <1>2, <1>3, <1>4 DEF PartsInv

LEMMA PartsStep ==
  ASSUME PartsInv, [WholeNext]_whole
  PROVE  PartsInv'
<1>1. part' = part
  BY DEF WholeNext, whole
<1>2. ASSUME part = "read" PROVE [Reading!Next]_(Reading!vars)
  BY <1>2 DEF WholeNext, whole, textVars, Reading!vars
<1>3. ASSUME part = "familiar" PROVE [KnownFace!Next]_(KnownFace!vars)
  BY <1>3 DEF WholeNext, whole, knownVars, KnownFace!vars
<1>4. ASSUME part = "newcomer" PROVE [Newcomer!Next]_(Newcomer!vars)
  BY <1>4 DEF WholeNext, whole, knownVars, Newcomer!vars
<1>5. part = "read" => ReadInv'
  BY <1>2, ReadSteps, Parameters DEF PartsInv, Parameters
<1>6. part = "familiar" => KnownInv'
  BY <1>3, KnownSteps, Parameters DEF PartsInv, Parameters
<1>7. part = "newcomer" => NewlyInv'
  BY <1>4, NewlySteps, Parameters DEF PartsInv, Parameters
<1> QED
  BY <1>1, <1>5, <1>6, <1>7 DEF PartsInv

(* Tier 2 settles nothing the shop has left open, for all texts, policies  *)
(* and answers (tier2.py, facts.tier2_candidates). *)
THEOREM ModelsReadOnly == WholeSpec => []ModelsOnlyRead
<1>1. PartsInv => ModelsOnlyRead
  BY ReadStands, ReadCloses, Parameters DEF PartsInv, ModelsOnlyRead, Parameters
<1> QED
  BY <1>1, PartsInitially, PartsStep, PTL DEF WholeSpec

(* Only what the customer vouched for becomes known, for all shops,        *)
(* devices, amounts and settings (warnings.py W1, protections.py A7). *)
THEOREM VouchedIsKnown == WholeSpec => []OnlyVouchedIsKnown
<1>1. PartsInv => OnlyVouchedIsKnown
  BY KnownStand, NewlyStand, Parameters DEF PartsInv, OnlyVouchedIsKnown, Parameters
<1> QED
  BY <1>1, PartsInitially, PartsStep, PTL DEF WholeSpec

-----------------------------------------------------------------------------
(* The rules on one purchase.  Whichever part runs, a step of it is one of *)
(* these, and keeps what purchases, policies and ledgers are. *)

Speaks(s) == Text!ShopSays(s[1], s[2], s[3])
Agrees(ids) ==
  /\ led' = [past |-> led.past \cup {[age |-> 0, amount |-> rulesP.amount, waiting |-> FALSE]},
             known |-> led.known \cup {rulesP.shop},
             lastPrice |-> [led.lastPrice EXCEPT ![rulesP.shop] = {rulesP.amount}],
             confirmed |-> led.confirmed \cup Spent!ConfirmationKeys(ids, rulesP)]
  /\ yes' = yes \cup {<<id, rulesP.shop, Spent!Items(rulesP)>> : id \in ids}
  /\ UNCHANGED <<rulesP, rulesPol>>
Proposed(q) == rulesP' = q /\ UNCHANGED <<rulesPol, led, yes>>
RulesStep ==
  \/ \E s \in Sentences : Speaks(s)
  \/ \E ids : Agrees(ids)
  \/ \E o \in MoreOrders : Spent!AnotherOrder(o) \/ Spent!Answered(o)
  \/ part = "tighten" /\ (\E id \in DOMAIN MoreRules : Tightened!Tighten(id))
  \/ \E q \in PurchasesRead \cup PurchasesMade \cup PurchasesTold : Proposed(q)
  \/ UNCHANGED rulesVars

(* What is remembered is what the customer said yes to. *)
RemembersYes ==
  \A id, shop, i : <<id, shop, i>> \in led.confirmed
                    => \E y \in yes : y[1] = id /\ y[2] = shop /\ (i = "*" \/ i \in y[3])

RulesInv ==
  /\ Spent!IsPurchase(rulesP) /\ Spent!IsPolicy(rulesPol) /\ Spent!IsLedger(led)
  /\ part = "tighten" => \A id \in DOMAIN MoreRules : Tightened!Keeps(id, rulesPol)
  /\ RemembersYes

(* What the steps may bring. *)
RulesGiven ==
  /\ \A q \in PurchasesRead \cup PurchasesMade \cup PurchasesTold : Spent!IsPurchase(q)
  /\ \A d \in PoliciesRead \cup PoliciesMade : Spent!IsPolicy(d)
  /\ \A l \in LedgersRead \cup LedgersNew \cup LedgersMade : Spent!IsLedger(l) /\ l.confirmed = {}
  /\ \A s \in Sentences : /\ s[2] \in {"sizes", "letters", "returns", "words"}
                           /\ s[2] = "returns" => s[3] \in Nat \cup {Spent!Exchange}
  /\ \A o \in MoreOrders : Spent!IsOrder(o)
  /\ \A id \in DOMAIN MoreRules : Spent!IsRule(MoreRules[id])
  /\ \A d \in PoliciesMade, id \in DOMAIN MoreRules : Tightened!Keeps(id, d)

LEMMA SameShapes ==
  /\ \A q : (Text!IsPurchase(q) <=> Spent!IsPurchase(q)) /\ (Bounds!IsPurchase(q) <=> Spent!IsPurchase(q))
             /\ (Tightened!IsPurchase(q) <=> Spent!IsPurchase(q))
  /\ \A r : (Text!IsRule(r) <=> Spent!IsRule(r)) /\ (Bounds!IsRule(r) <=> Spent!IsRule(r))
             /\ (Tightened!IsRule(r) <=> Spent!IsRule(r))
  /\ \A o : (Text!IsOrder(o) <=> Spent!IsOrder(o)) /\ (Bounds!IsOrder(o) <=> Spent!IsOrder(o))
             /\ (Tightened!IsOrder(o) <=> Spent!IsOrder(o))
  /\ \A d : (Text!IsPolicy(d) <=> Spent!IsPolicy(d)) /\ (Bounds!IsPolicy(d) <=> Spent!IsPolicy(d))
             /\ (Tightened!IsPolicy(d) <=> Spent!IsPolicy(d))
  /\ \A l : (Text!IsLedger(l) <=> Spent!IsLedger(l)) /\ (Bounds!IsLedger(l) <=> Spent!IsLedger(l))
             /\ (Tightened!IsLedger(l) <=> Spent!IsLedger(l))
<1>1. \A l : (Text!IsLine(l) <=> Spent!IsLine(l)) /\ (Bounds!IsLine(l) <=> Spent!IsLine(l))
             /\ (Tightened!IsLine(l) <=> Spent!IsLine(l))
  BY DEF Text!IsLine, Spent!IsLine, Bounds!IsLine, Tightened!IsLine,
         Text!Exchange, Spent!Exchange, Bounds!Exchange, Tightened!Exchange,
         Text!IsFiniteSet, Spent!IsFiniteSet, Bounds!IsFiniteSet, Tightened!IsFiniteSet
<1>2. \A q : (Text!IsPurchase(q) <=> Spent!IsPurchase(q)) /\ (Bounds!IsPurchase(q) <=> Spent!IsPurchase(q))
             /\ (Tightened!IsPurchase(q) <=> Spent!IsPurchase(q))
  BY <1>1 DEF Text!IsPurchase, Spent!IsPurchase, Bounds!IsPurchase, Tightened!IsPurchase,
         Text!Items, Spent!Items, Bounds!Items, Tightened!Items
<1>3. \A r : (Text!IsRule(r) <=> Spent!IsRule(r)) /\ (Bounds!IsRule(r) <=> Spent!IsRule(r))
             /\ (Tightened!IsRule(r) <=> Spent!IsRule(r))
  BY DEF Text!IsRule, Spent!IsRule, Bounds!IsRule, Tightened!IsRule
<1>4. \A o : (Text!IsOrder(o) <=> Spent!IsOrder(o)) /\ (Bounds!IsOrder(o) <=> Spent!IsOrder(o))
             /\ (Tightened!IsOrder(o) <=> Spent!IsOrder(o))
  BY DEF Text!IsOrder, Spent!IsOrder, Bounds!IsOrder, Tightened!IsOrder
<1>5. \A d : (Text!IsPolicy(d) <=> Spent!IsPolicy(d)) /\ (Bounds!IsPolicy(d) <=> Spent!IsPolicy(d))
             /\ (Tightened!IsPolicy(d) <=> Spent!IsPolicy(d))
  BY <1>3 DEF Text!IsPolicy, Spent!IsPolicy, Bounds!IsPolicy, Tightened!IsPolicy,
         Text!LetsIn, Spent!LetsIn, Bounds!LetsIn, Tightened!LetsIn,
         Text!Admits, Spent!Admits, Bounds!Admits, Tightened!Admits
<1>6. \A l : (Text!IsLedger(l) <=> Spent!IsLedger(l)) /\ (Bounds!IsLedger(l) <=> Spent!IsLedger(l))
             /\ (Tightened!IsLedger(l) <=> Spent!IsLedger(l))
  BY <1>4 DEF Text!IsLedger, Spent!IsLedger, Bounds!IsLedger, Tightened!IsLedger,
         Text!IsFiniteSet, Spent!IsFiniteSet, Bounds!IsFiniteSet, Tightened!IsFiniteSet
<1> QED
  BY <1>2, <1>3, <1>4, <1>5, <1>6

LEMMA RulesAreGiven == RulesGiven
<1>1. Spent!RuleChecksAssumption
  BY Parameters DEF Parameters
<1>2. Text!RuleChecksAssumption
  BY Parameters DEF Parameters
<1>3. Bounds!RuleChecksAssumption
  BY Parameters DEF Parameters
<1>4. Tightened!RuleChecksAssumption
  BY Parameters DEF Parameters
<1>5. \A q \in PurchasesRead \cup PurchasesMade \cup PurchasesTold : Spent!IsPurchase(q)
  BY <1>1, <1>2, <1>3, SameShapes
     DEF Spent!RuleChecksAssumption, Text!RuleChecksAssumption, Bounds!RuleChecksAssumption
<1>6. \A d \in PoliciesRead \cup PoliciesMade : Spent!IsPolicy(d)
  BY <1>1, <1>2, SameShapes DEF Spent!RuleChecksAssumption, Text!RuleChecksAssumption
<1>7. \A l \in LedgersRead \cup LedgersNew \cup LedgersMade : Spent!IsLedger(l) /\ l.confirmed = {}
  BY <1>1, <1>2, <1>3, SameShapes
     DEF Spent!RuleChecksAssumption, Text!RuleChecksAssumption, Bounds!RuleChecksAssumption
<1>8. \A s \in Sentences : /\ s[2] \in {"sizes", "letters", "returns", "words"}
                           /\ s[2] = "returns" => s[3] \in Nat \cup {Spent!Exchange}
  BY <1>2 DEF Text!RuleChecksAssumption, Text!Exchange, Spent!Exchange
<1>9. \A o \in MoreOrders : Spent!IsOrder(o)
  BY <1>1 DEF Spent!RuleChecksAssumption
<1>10. /\ \A id \in DOMAIN MoreRules : Spent!IsRule(MoreRules[id])
       /\ \A d \in PoliciesMade, id \in DOMAIN MoreRules : Tightened!Keeps(id, d)
  BY <1>4, SameShapes DEF Tightened!RuleChecksAssumption
<1> QED
  BY <1>5, <1>6, <1>7, <1>8, <1>9, <1>10 DEF RulesGiven

LEMMA RulesInitially ==
  ASSUME WholeInit
  PROVE  RulesInv
<1>1. /\ rulesP \in PurchasesRead \cup PurchasesMade \cup PurchasesTold
      /\ rulesPol \in PoliciesRead \cup PoliciesMade
      /\ led \in LedgersRead \cup LedgersNew \cup LedgersMade
  <2>1. CASE part = "text"
    BY <2>1 DEF WholeInit, Text!Init
  <2>2. CASE part = "bounds"
    BY <2>2 DEF WholeInit, Bounds!Init
  <2>3. CASE part = "tighten"
    BY <2>3 DEF WholeInit, Tightened!Init
  <2>4. CASE part = "ledger"
    BY <2>4 DEF WholeInit, Spent!Init
  <2>5. CASE part \notin {"text", "bounds", "tighten", "ledger"}
    <3>1. Spent!Init
      BY <2>5 DEF WholeInit
    <3> QED BY <3>1 DEF Spent!Init
  <2> QED BY <2>1, <2>2, <2>3, <2>4, <2>5
<1>2. part = "tighten" => rulesPol \in PoliciesMade
  BY DEF WholeInit, Tightened!Init
<1> QED
  BY <1>1, <1>2, RulesAreGiven DEF RulesGiven, RulesInv, RemembersYes

LEMMA KeysAlike ==
  ASSUME NEW ids, NEW q
  PROVE  /\ Text!ConfirmationKeys(ids, q) = Spent!ConfirmationKeys(ids, q)
         /\ Bounds!ConfirmationKeys(ids, q) = Spent!ConfirmationKeys(ids, q)
         /\ Tightened!ConfirmationKeys(ids, q) = Spent!ConfirmationKeys(ids, q)
         /\ Text!Items(q) = Spent!Items(q) /\ Bounds!Items(q) = Spent!Items(q)
         /\ Tightened!Items(q) = Spent!Items(q)
BY DEF Text!ConfirmationKeys, Spent!ConfirmationKeys, Bounds!ConfirmationKeys, Tightened!ConfirmationKeys,
       Text!AtShop, Spent!AtShop, Bounds!AtShop, Tightened!AtShop,
       Text!AtItem, Spent!AtItem, Bounds!AtItem, Tightened!AtItem,
       Text!Items, Spent!Items, Bounds!Items, Tightened!Items

(* Each part takes these steps only. *)
LEMMA RulesTakeSteps ==
  ASSUME [WholeNext]_whole
  PROVE  RulesStep
<1>1. CASE Text!Next /\ part = "text"
  <2>1. CASE \E s \in Sentences : Text!ShopSays(s[1], s[2], s[3])
    BY <2>1 DEF RulesStep, Speaks
  <2>2. CASE Text!CustomerSaysYes
    <3>1. Agrees(Text!Asking)
      BY <2>2, KeysAlike DEF Text!CustomerSaysYes, Agrees
    <3> QED BY <3>1 DEF RulesStep
  <2>3. CASE \E q \in PurchasesRead : Text!ProposesAgain(q)
    BY <2>3 DEF RulesStep, Text!ProposesAgain, Proposed
  <2> QED
    BY <1>1, <2>1, <2>2, <2>3 DEF Text!Next
<1>2. CASE Spent!Next /\ part = "ledger"
  <2>1. CASE \E o \in MoreOrders : Spent!AnotherOrder(o) \/ Spent!Answered(o)
    BY <2>1 DEF RulesStep
  <2>2. CASE Spent!CustomerSaysYes
    <3>1. Agrees(Spent!Asking)
      BY <2>2, KeysAlike DEF Spent!CustomerSaysYes, Agrees
    <3> QED BY <3>1 DEF RulesStep
  <2>3. CASE \E q \in PurchasesMade : Spent!ProposesAgain(q)
    BY <2>3 DEF RulesStep, Spent!ProposesAgain, Proposed
  <2> QED
    BY <1>2, <2>1, <2>2, <2>3 DEF Spent!Next
<1>3. CASE Bounds!Next /\ part = "bounds"
  <2>2. CASE Bounds!CustomerSaysYes
    <3>1. Agrees(Bounds!Asking)
      BY <2>2, KeysAlike DEF Bounds!CustomerSaysYes, Agrees
    <3> QED BY <3>1 DEF RulesStep
  <2>3. CASE \E q \in PurchasesTold : Bounds!ProposesAgain(q)
    BY <2>3 DEF RulesStep, Bounds!ProposesAgain, Proposed
  <2> QED
    BY <1>3, <2>2, <2>3 DEF Bounds!Next
<1>4. CASE Tightened!Next /\ part = "tighten"
  <2>1. CASE \E id \in DOMAIN MoreRules : Tightened!Tighten(id)
    BY <1>4, <2>1 DEF RulesStep
  <2>2. CASE Tightened!CustomerSaysYes
    <3>1. Agrees(Tightened!Asking)
      BY <2>2, KeysAlike DEF Tightened!CustomerSaysYes, Agrees
    <3> QED BY <3>1 DEF RulesStep
  <2>3. CASE \E q \in PurchasesMade : Tightened!ProposesAgain(q)
    BY <2>3 DEF RulesStep, Tightened!ProposesAgain, Proposed
  <2> QED
    BY <1>4, <2>1, <2>2, <2>3 DEF Tightened!Next
<1>5. CASE UNCHANGED rulesVars
  BY <1>5 DEF RulesStep
<1> QED
  BY <1>1, <1>2, <1>3, <1>4, <1>5 DEF WholeNext, whole

(* A sentence more in the shop's text: it adds to what a line states. *)
More(s, i, field) == IF i = s[1] /\ s[2] = field THEN {s[3]} ELSE {}
Adds(s, i, was, then) ==
  /\ then.sizes = was.sizes \cup More(s, i, "sizes")
  /\ then.letters = was.letters \cup More(s, i, "letters")
  /\ then.returns = was.returns \cup More(s, i, "returns")
  /\ then.words = was.words \cup More(s, i, "words")
  /\ then.count = was.count

LEMMA LineSpeaks ==
  ASSUME NEW l, Spent!IsLine(l), NEW s,
         s[2] = "returns" => s[3] \in Nat \cup {Spent!Exchange}
  PROVE  /\ Spent!IsLine(Text!Stating(l, s[2], s[3]))
         /\ Adds(s, s[1], l, Text!Stating(l, s[2], s[3]))
<1> DEFINE more(f) == IF f = s[2] THEN {s[3]} ELSE {}
           next == [sizes |-> l.sizes \cup more("sizes"), letters |-> l.letters \cup more("letters"),
                    returns |-> l.returns \cup more("returns"), words |-> l.words \cup more("words"),
                    count |-> l.count]
<1>1. Text!Stating(l, s[2], s[3]) = next
  BY DEF Text!Stating
<1>2. \A f : IsFiniteSet(more(f))
  BY FS_EmptySet, FS_Singleton
<1>3. \A S, T : IsFiniteSet(S) /\ IsFiniteSet(T) => IsFiniteSet(S \cup T)
  BY FS_Union
<1>4. \A S : IsFiniteSet(S) <=> Spent!IsFiniteSet(S)
  BY DEF Spent!IsFiniteSet, IsFiniteSet
<1>5. next.returns \subseteq Nat \cup {Spent!Exchange}
  BY DEF Spent!IsLine
<1>6. Spent!IsFiniteSet(next.sizes) /\ Spent!IsFiniteSet(next.letters) /\ Spent!IsFiniteSet(next.returns)
  <2> HIDE DEF more
  <2> QED BY <1>2, <1>3, <1>4 DEF Spent!IsLine
<1>7. Spent!IsLine(next)
  BY <1>5, <1>6 DEF Spent!IsLine
<1>8. Adds(s, s[1], l, next)
  BY DEF Adds, More
<1> QED
  BY <1>1, <1>7, <1>8

LEMMA Speaking ==
  ASSUME Spent!IsPurchase(rulesP), RulesGiven, NEW s \in Sentences, Speaks(s)
  PROVE  /\ Spent!IsPurchase(rulesP')
         /\ Spent!Items(rulesP') = Spent!Items(rulesP) /\ s[1] \in Spent!Items(rulesP)
         /\ rulesP'.amount = rulesP.amount /\ rulesP'.shop = rulesP.shop
         /\ rulesP'.shopType = rulesP.shopType /\ rulesP'.returnable = rulesP.returnable
         /\ \A i \in Spent!Items(rulesP) : Adds(s, i, rulesP.lines[i], rulesP'.lines[i])
<1> DEFINE Told == Text!Stating(rulesP.lines[s[1]], s[2], s[3])
           next == [i \in Spent!Items(rulesP) |-> IF i = s[1] THEN Told ELSE rulesP.lines[i]]
<1>1. /\ s[1] \in Spent!Items(rulesP)
      /\ rulesP' = [rulesP EXCEPT !.lines[s[1]] = Told]
  BY DEF Speaks, Text!ShopSays, Text!Items, Spent!Items
<1>2. rulesP' = [amount |-> rulesP.amount, shop |-> rulesP.shop, shopType |-> rulesP.shopType,
                 returnable |-> rulesP.returnable, lines |-> next]
  <2>1. rulesP = [amount |-> rulesP.amount, shop |-> rulesP.shop, shopType |-> rulesP.shopType,
                 returnable |-> rulesP.returnable, lines |-> rulesP.lines]
    BY DEF Spent!IsPurchase
  <2>2. [rulesP.lines EXCEPT ![s[1]] = Told] = next
    <3>1. rulesP.lines = [i \in Spent!Items(rulesP) |-> rulesP.lines[i]]
      BY DEF Spent!IsPurchase
    <3> HIDE DEF Told
    <3> QED BY <1>1, <3>1
  <2> HIDE DEF next, Told
  <2> QED BY <1>1, <2>1, <2>2
<1>3. /\ Spent!IsLine(Told) /\ Adds(s, s[1], rulesP.lines[s[1]], Told)
  <2>1. s[2] = "returns" => s[3] \in Nat \cup {Spent!Exchange}
    BY DEF RulesGiven
  <2> QED BY <1>1, <2>1, LineSpeaks DEF Spent!IsPurchase
<1> HIDE DEF Told
<1>4. \A i \in Spent!Items(rulesP) : Spent!IsLine(next[i]) /\ Adds(s, i, rulesP.lines[i], next[i])
  BY <1>3 DEF Spent!IsPurchase, Adds, More
<1>5. DOMAIN next = Spent!Items(rulesP)
  OBVIOUS
<1> HIDE DEF next
<1>6. Spent!Items(rulesP') = Spent!Items(rulesP) /\ rulesP'.lines = next
  BY <1>2, <1>5 DEF Spent!Items
<1>7. next = [i \in Spent!Items(rulesP) |-> next[i]]
  BY DEF next
<1>8. Spent!IsPurchase(rulesP')
  BY <1>2, <1>4, <1>6, <1>7 DEF Spent!IsPurchase
<1> QED
  BY <1>1, <1>2, <1>4, <1>6, <1>8

LEMMA AgreesKeeps ==
  ASSUME RulesInv, NEW ids, Agrees(ids), part' = part
  PROVE  RulesInv'
<1> DEFINE o == [age |-> 0, amount |-> rulesP.amount, waiting |-> FALSE]
           answers == {<<id, rulesP.shop, Spent!Items(rulesP)>> : id \in ids}
           keys == Spent!ConfirmationKeys(ids, rulesP)
           prices == [led.lastPrice EXCEPT ![rulesP.shop] = {rulesP.amount}]
<1>1. led' = [past |-> led.past \cup {o}, known |-> led.known \cup {rulesP.shop},
              lastPrice |-> prices, confirmed |-> led.confirmed \cup keys]
  BY DEF Agrees
<1>2. Spent!IsFiniteSet(led.past \cup {o})
  <2>1. \A S : Spent!IsFiniteSet(S) <=> IsFiniteSet(S)
    BY DEF Spent!IsFiniteSet, IsFiniteSet
  <2> HIDE DEF o
  <2> QED BY <2>1, FS_AddElement DEF RulesInv, Spent!IsLedger
<1>3. Spent!IsOrder(o)
  BY DEF RulesInv, Spent!IsPurchase, Spent!IsOrder
<1>4. Spent!IsLedger(led')
  <2> HIDE DEF o, prices, keys
  <2> QED BY <1>1, <1>2, <1>3 DEF RulesInv, Spent!IsLedger
<1>5. RemembersYes'
  <2> SUFFICES ASSUME NEW id, NEW shop, NEW i, <<id, shop, i>> \in led'.confirmed
               PROVE  \E y \in yes' : y[1] = id /\ y[2] = shop /\ (i = "*" \/ i \in y[3])
    BY DEF RemembersYes
  <2>1. yes' = yes \cup answers
    BY DEF Agrees
  <2>2. CASE <<id, shop, i>> \in led.confirmed
    BY <2>1, <2>2 DEF RulesInv, RemembersYes
  <2>3. CASE <<id, shop, i>> \in keys
    <3>1. id \in ids /\ shop = rulesP.shop /\ (i = "*" \/ i \in Spent!Items(rulesP))
      BY <2>3 DEF Spent!ConfirmationKeys, Spent!AtShop, Spent!AtItem
    <3> DEFINE y == <<id, rulesP.shop, Spent!Items(rulesP)>>
    <3>2. y \in answers /\ y[1] = id /\ y[2] = rulesP.shop /\ y[3] = Spent!Items(rulesP)
      BY <3>1
    <3>3. y \in yes'
      BY <2>1, <3>2
    <3> HIDE DEF y
    <3> QED BY <3>1, <3>2, <3>3
  <2>4. led'.confirmed = led.confirmed \cup keys
    BY <1>1
  <2> QED BY <2>2, <2>3, <2>4
<1> QED
  BY <1>4, <1>5 DEF RulesInv, Agrees

LEMMA LedgerKeeps ==
  ASSUME RulesInv, RulesGiven, NEW o \in MoreOrders, Spent!AnotherOrder(o) \/ Spent!Answered(o),
         part' = part
  PROVE  RulesInv'
<1> DEFINE settled == [o EXCEPT !.waiting = FALSE]
<1>1. PICK past \in {led.past \cup {o}, (led.past \ {o}) \cup {settled}, led.past \ {o}} :
        led' = [led EXCEPT !.past = past]
  BY DEF Spent!AnotherOrder, Spent!Answered
<1>2. led = [past |-> led.past, known |-> led.known, lastPrice |-> led.lastPrice,
             confirmed |-> led.confirmed]
  BY DEF RulesInv, Spent!IsLedger
<1>3. led' = [past |-> past, known |-> led.known, lastPrice |-> led.lastPrice,
              confirmed |-> led.confirmed]
  BY <1>1, <1>2
<1>4. Spent!IsOrder(o) /\ Spent!IsOrder(settled)
  BY DEF RulesGiven, Spent!IsOrder
<1> HIDE DEF settled
<1>5. Spent!IsFiniteSet(past) /\ \A r \in past : Spent!IsOrder(r)
  <2>1. \A S : Spent!IsFiniteSet(S) <=> IsFiniteSet(S)
    BY DEF Spent!IsFiniteSet, IsFiniteSet
  <2>2. IsFiniteSet(led.past) /\ IsFiniteSet(led.past \ {o})
    BY <2>1, FS_RemoveElement DEF RulesInv, Spent!IsLedger
  <2>3. /\ IsFiniteSet(led.past \cup {o}) /\ IsFiniteSet((led.past \ {o}) \cup {settled})
    BY <2>2, FS_AddElement
  <2>4. IsFiniteSet(past)
    BY <2>2, <2>3
  <2> QED BY <1>4, <2>1, <2>4 DEF RulesInv, Spent!IsLedger
<1>6. Spent!IsLedger(led')
  BY <1>3, <1>5 DEF Spent!IsLedger
<1>7. led'.confirmed = led.confirmed /\ UNCHANGED <<rulesP, rulesPol, yes>>
  BY <1>3 DEF Spent!AnotherOrder, Spent!Answered
<1> QED
  BY <1>6, <1>7 DEF RulesInv, RemembersYes

(* The policies that may be in force: one that was confirmed, and what was *)
(* added to it. *)
LEMMA TightenKeeps ==
  ASSUME RulesInv, RulesGiven, NEW id \in DOMAIN MoreRules, Tightened!Tighten(id),
         part = "tighten", part' = part
  PROVE  /\ RulesInv'
         /\ DOMAIN rulesPol'.rules = DOMAIN rulesPol.rules \cup {id}
         /\ rulesPol'.rules[id] = MoreRules[id]
         /\ \A j \in DOMAIN rulesPol.rules : rulesPol'.rules[j] = rulesPol.rules[j]
         /\ rulesPol'.requested = rulesPol.requested /\ rulesPol'.allowed = rulesPol.allowed
         /\ rulesPol'.blocked = rulesPol.blocked /\ rulesPol'.shopType = rulesPol.shopType
         /\ rulesPol'.knownShop = rulesPol.knownShop
         /\ rulesPol'.nothingExtra = rulesPol.nothingExtra /\ rulesPol'.setting = rulesPol.setting
<1> DEFINE rules == [j \in DOMAIN rulesPol.rules \cup {id} |->
                        IF j = id THEN MoreRules[id] ELSE rulesPol.rules[j]]
<1>1. rulesPol' = [rules |-> rules, requested |-> rulesPol.requested, allowed |-> rulesPol.allowed,
                   blocked |-> rulesPol.blocked, shopType |-> rulesPol.shopType,
                   knownShop |-> rulesPol.knownShop, nothingExtra |-> rulesPol.nothingExtra,
                   setting |-> rulesPol.setting]
  <2>1. rulesPol = [rules |-> rulesPol.rules, requested |-> rulesPol.requested, allowed |-> rulesPol.allowed,
                    blocked |-> rulesPol.blocked, shopType |-> rulesPol.shopType,
                    knownShop |-> rulesPol.knownShop, nothingExtra |-> rulesPol.nothingExtra,
                    setting |-> rulesPol.setting]
    BY DEF RulesInv, Spent!IsPolicy
  <2>2. rulesPol' = [rulesPol EXCEPT !.rules = rules]
    BY DEF Tightened!Tighten
  <2> HIDE DEF rules
  <2> QED BY <2>1, <2>2
<1>2. id \notin DOMAIN rulesPol.rules
  BY DEF Tightened!Tighten
<1>3. /\ DOMAIN rules = DOMAIN rulesPol.rules \cup {id} /\ rules[id] = MoreRules[id]
      /\ \A j \in DOMAIN rulesPol.rules : rules[j] = rulesPol.rules[j]
      /\ rules = [j \in DOMAIN rules |-> rules[j]]
  BY <1>2
<1> HIDE DEF rules
<1>4. Spent!IsPolicy(rulesPol')
  <2>1. \A j \in DOMAIN rules : Spent!IsRule(rules[j])
    <3>1. \A j \in DOMAIN rulesPol.rules : Spent!IsRule(rulesPol.rules[j])
      BY DEF RulesInv, Spent!IsPolicy
    <3>2. Spent!IsRule(MoreRules[id])
      BY DEF RulesGiven
    <3> QED BY <1>3, <3>1, <3>2
  <2>2. ASSUME NEW i \in rulesPol.requested PROVE Spent!LetsIn(rulesPol', i)
    <3>1. Spent!LetsIn(rulesPol, i)
      BY DEF RulesInv, Spent!IsPolicy
    <3>2. Spent!Admits(MoreRules[id], i)
      <4>1. Tightened!Keeps(id, rulesPol)
        BY DEF RulesInv
      <4> QED BY <4>1 DEF Tightened!Keeps, Tightened!Admits, Spent!Admits
    <3>3. \A j \in DOMAIN rules : Spent!Admits(rules[j], i)
      BY <1>3, <3>1, <3>2 DEF Spent!LetsIn
    <3> QED BY <1>1, <3>1, <3>3 DEF Spent!LetsIn
  <2> QED BY <1>1, <1>3, <2>1, <2>2 DEF Spent!IsPolicy
<1>5. UNCHANGED <<rulesP, led, yes>>
  BY DEF Tightened!Tighten
<1>6. \A j \in DOMAIN MoreRules : Tightened!Keeps(j, rulesPol')
  <2>1. \A j \in DOMAIN MoreRules : Tightened!Keeps(j, rulesPol)
    BY DEF RulesInv
  <2> QED BY <1>1, <2>1 DEF Tightened!Keeps
<1>7. RulesInv'
  BY <1>4, <1>5, <1>6 DEF RulesInv, RemembersYes
<1> QED
  BY <1>1, <1>3, <1>7

LEMMA RulesKept ==
  ASSUME RulesInv, [WholeNext]_whole
  PROVE  RulesInv'
<1>1. part' = part
  BY DEF WholeNext, whole
<1>2. RulesGiven
  BY RulesAreGiven
<1>3. ASSUME NEW s \in Sentences, Speaks(s) PROVE RulesInv'
  <2>1. UNCHANGED <<rulesPol, led, yes>>
    BY <1>3 DEF Speaks, Text!ShopSays
  <2>2. Spent!IsPurchase(rulesP')
    BY <1>2, <1>3, Speaking DEF RulesInv
  <2> QED BY <1>1, <2>1, <2>2 DEF RulesInv, RemembersYes
<1>4. ASSUME NEW ids, Agrees(ids) PROVE RulesInv'
  BY <1>1, <1>4, AgreesKeeps
<1>5. ASSUME NEW o \in MoreOrders, Spent!AnotherOrder(o) \/ Spent!Answered(o) PROVE RulesInv'
  BY <1>1, <1>2, <1>5, LedgerKeeps
<1>6. ASSUME part = "tighten", NEW id \in DOMAIN MoreRules, Tightened!Tighten(id) PROVE RulesInv'
  BY <1>1, <1>2, <1>6, TightenKeeps
<1>7. ASSUME NEW q \in PurchasesRead \cup PurchasesMade \cup PurchasesTold, Proposed(q) PROVE RulesInv'
  BY <1>1, <1>2, <1>7 DEF RulesGiven, Proposed, RulesInv, RemembersYes
<1>8. CASE UNCHANGED rulesVars
  BY <1>1, <1>8 DEF RulesInv, RemembersYes, rulesVars
<1> QED
  BY <1>3, <1>4, <1>5, <1>6, <1>7, <1>8, RulesTakeSteps DEF RulesStep

-----------------------------------------------------------------------------
(* M5: what the waiting orders decide. *)

LEMMA WaitingAsks ==
  ASSUME RulesInv
  PROVE  Spent!WaitingAloneAsks
<1> SUFFICES ASSUME NEW id \in Spent!PeriodRules(rulesPol)
             PROVE  (Spent!Result(id, rulesP, rulesPol, led) = "reserved")
                    = (/\ Spent!Result(id, rulesP, rulesPol, led) # "pass"
                       /\ Spent!Result(id, rulesP, rulesPol, Spent!WithoutWaiting) = "pass")
  BY DEF Spent!WaitingAloneAsks
<1> DEFINE r == rulesPol.rules[id]
           taken(l) == Spent!InWindow(rulesPol, l)
           then == Spent!WithoutWaiting
           Ok(orders) == Spent!Within(Spent!Total(r, rulesP, orders), r.op, r.value)
<1>1. id \in DOMAIN rulesPol.rules /\ r.days > 0
  BY DEF Spent!PeriodRules
<1>2. \A l : Spent!Result(id, rulesP, rulesPol, l) = Spent!PeriodRule(r, rulesP, rulesPol, l)
  BY <1>1 DEF Spent!Result, Spent!RuleResult
<1>3. \A l : Spent!PeriodRule(r, rulesP, rulesPol, l) =
               IF r.days # Spent!Window(rulesPol) THEN "unknown"
               ELSE IF Ok(taken(l)) THEN "pass"
               ELSE IF Ok(Spent!Approved(taken(l))) THEN "reserved" ELSE "fail"
  BY DEF Spent!PeriodRule
<1>4. then.past = Spent!Approved(led.past)
  BY DEF RulesInv, Spent!IsLedger, Spent!WithoutWaiting
<1>5. taken(then) = Spent!Approved(taken(led)) /\ Spent!Approved(taken(then)) = taken(then)
  BY <1>4 DEF Spent!InWindow, Spent!Approved
<1> HIDE DEF Ok, taken, then, r
<1> QED
  BY <1>2, <1>3, <1>5 DEF then

(* What is remembered of a yes, and nothing else, lets a rule pass. *)
LEMMA YesReaches ==
  ASSUME RulesInv, RulesGiven
  PROVE  Spent!YesGoesNoFurther
<1> DEFINE forgotten == [led EXCEPT !.confirmed = {}]
<1> SUFFICES ASSUME NEW q \in PurchasesMade, NEW id \in Spent!Ids(rulesPol),
                    Spent!Result(id, q, rulesPol, led) = "pass",
                    Spent!Result(id, q, rulesPol, forgotten) # "pass"
             PROVE  /\ Spent!Answers(id, q) # {}
                    /\ \/ Spent!OnTheShop(id)
                       \/ Spent!Items(q) \subseteq UNION {y[3] : y \in Spent!Answers(id, q)}
  BY DEF Spent!YesGoesNoFurther
<1>1. /\ forgotten.past = led.past /\ forgotten.known = led.known
      /\ forgotten.lastPrice = led.lastPrice
  BY DEF RulesInv, Spent!IsLedger
<1> HIDE DEF forgotten
<1>2. \A field : Spent!FactsFor(field, q, rulesPol, forgotten) = Spent!FactsFor(field, q, rulesPol, led)
  BY <1>1 DEF Spent!FactsFor, Spent!IsKnown
<1>3. \A r : Spent!TypedRule(r, q, rulesPol, forgotten) = Spent!TypedRule(r, q, rulesPol, led)
  BY <1>2 DEF Spent!TypedRule
<1>4. \A r : /\ Spent!PeriodRule(r, q, rulesPol, forgotten) = Spent!PeriodRule(r, q, rulesPol, led)
             /\ Spent!LastPriceRule(r, q, forgotten) = Spent!LastPriceRule(r, q, led)
  <2>1. Spent!InWindow(rulesPol, forgotten) = Spent!InWindow(rulesPol, led)
    BY <1>1 DEF Spent!InWindow
  <2> QED BY <1>1, <2>1 DEF Spent!PeriodRule, Spent!LastPriceRule
<1>5. \A i : <<id, q.shop, i>> \in led.confirmed
             => \E y \in Spent!Answers(id, q) : i = "*" \/ i \in y[3]
  BY DEF RulesInv, RemembersYes, Spent!Answers
<1>6. CASE Spent!AtShop(id, q) \in led.confirmed /\ Spent!OnTheShop(id)
  BY <1>5, <1>6 DEF Spent!AtShop
<1>7. CASE Spent!Remembered(id, q, led)
  <2>1. Spent!Items(q) # {} /\ "*" \notin Spent!Items(q)
    BY DEF RulesGiven, Spent!IsPurchase
  <2>2. \A i \in Spent!Items(q) : \E y \in Spent!Answers(id, q) : i \in y[3]
    BY <1>5, <1>7, <2>1 DEF Spent!Remembered, Spent!AtItem
  <2> QED BY <2>1, <2>2
<1>8. CASE id \in DOMAIN rulesPol.rules
  <2> DEFINE r == rulesPol.rules[id]
             typed == Spent!TypedRule(r, q, rulesPol, led)
  <2>1. Spent!RuleResult(id, q, rulesPol, led) = "pass" /\ Spent!RuleResult(id, q, rulesPol, forgotten) # "pass"
    BY <1>8 DEF Spent!Result
  <2>2. CASE r.days > 0
    BY <1>4, <2>1, <2>2 DEF Spent!RuleResult
  <2>3. CASE ~(r.days > 0) /\ r.field = "known_shop"
    <3>1. Spent!KnownShop(id, typed, q, led) = "pass" /\ Spent!KnownShop(id, typed, q, forgotten) # "pass"
      BY <1>3, <2>1, <2>3 DEF Spent!RuleResult
    <3>2. Spent!AtShop(id, q) \in led.confirmed
      BY <1>1, <3>1 DEF Spent!KnownShop
    <3> QED BY <1>6, <2>3, <3>2 DEF Spent!OnTheShop
  <2>4. CASE ~(r.days > 0) /\ r.field # "known_shop"
    <3>1. Spent!Remembered(id, q, led)
      BY <1>3, <1>4, <2>1, <2>4 DEF Spent!RuleResult, Spent!OnLastPrice
    <3> QED BY <1>7, <3>1
  <2> QED BY <2>2, <2>3, <2>4
<1>9. CASE id \notin DOMAIN rulesPol.rules
  <2>1. Spent!FlagResult(id, q, rulesPol, led) = "pass" /\ Spent!FlagResult(id, q, rulesPol, forgotten) # "pass"
    BY <1>9 DEF Spent!Result
  <2>2. Spent!Flag(id, q, rulesPol, forgotten) = Spent!Flag(id, q, rulesPol, led)
    BY <1>1 DEF Spent!Flag, Spent!CheckKnownShop, Spent!IsKnown
  <2>3. Spent!AtShop(id, q) \in led.confirmed
    BY <1>1, <2>1, <2>2 DEF Spent!FlagResult, Spent!KnownShop
  <2> QED BY <1>6, <1>9, <2>3 DEF Spent!OnTheShop
<1> QED
  BY <1>8, <1>9

-----------------------------------------------------------------------------
(* The sum of the orders on a card does not depend on their order. *)

(* The element a sum takes first, and what it makes of a set given its     *)
(* results for smaller ones. *)
First(s) == CHOOSE x \in s : TRUE
Added(it, s) == IF s = {} THEN 0 ELSE First(s).amount + it[s \ {First(s)}]
IsSum(S, it) == it = [s \in SUBSET S |-> Added(it, s)]

SumOf(S) == (CHOOSE it : IsSum(S, it))[S]

LEMMA FirstIn ==
    ASSUME NEW s, s # {}
    PROVE  First(s) \in s
BY DEF First

(* The recursion has a solution, of numbers. *)
LEMMA SumExists ==
    ASSUME NEW S, IsFiniteSet(S), \A o \in S : o.amount \in Nat
    PROVE  \E it \in [SUBSET S -> Nat] : IsSum(S, it)
<1> DEFINE Upto(n) == \E it \in [SUBSET S -> Nat] : \A s \in SUBSET S :
                          Cardinality(s) <= n => it[s] = Added(it, s)
           T == {n \in Nat : ~Upto(n)}
<1>0. \A s \in SUBSET S : IsFiniteSet(s) /\ Cardinality(s) \in Nat
                          /\ Cardinality(s) <= Cardinality(S)
  BY FS_Subset, FS_CardinalityType
<1>1. Upto(0)
  <2> DEFINE it == [s \in SUBSET S |-> 0]
  <2>1. \A s \in SUBSET S : Cardinality(s) <= 0 => s = {}
    BY <1>0, FS_EmptySet
  <2>2. it \in [SUBSET S -> Nat]
    OBVIOUS
  <2>3. ASSUME NEW s \in SUBSET S, Cardinality(s) <= 0
        PROVE  it[s] = Added(it, s)
    BY <2>1, <2>3 DEF Added
  <2> HIDE DEF it
  <2> QED BY <2>2, <2>3
<1>2. ASSUME NEW n \in Nat, Upto(n)
      PROVE  Upto(n + 1)
  <2>1. PICK it \in [SUBSET S -> Nat] : \A s \in SUBSET S :
            Cardinality(s) <= n => it[s] = Added(it, s)
    BY <1>2
  <2> DEFINE next == [s \in SUBSET S |-> IF Cardinality(s) <= n THEN it[s] ELSE Added(it, s)]
  <2>2. ASSUME NEW s \in SUBSET S, s # {}
        PROVE  /\ First(s) \in S /\ s \ {First(s)} \in SUBSET S
               /\ Cardinality(s \ {First(s)}) = Cardinality(s) - 1
    BY <1>0, <2>2, FirstIn, FS_RemoveElement
  <2>3. next \in [SUBSET S -> Nat]
    <3>1. ASSUME NEW s \in SUBSET S
          PROVE  Added(it, s) \in Nat
      <4>1. CASE s = {}
        BY <4>1 DEF Added
      <4>2. CASE s # {}
        <5>1. First(s).amount \in Nat /\ it[s \ {First(s)}] \in Nat
          BY <2>2, <4>2
        <5> QED BY <4>2, <5>1 DEF Added
      <4> QED BY <4>1, <4>2
    <3> QED BY <3>1
  <2>4. ASSUME NEW s \in SUBSET S, Cardinality(s) <= n + 1
        PROVE  next[s] = Added(next, s)
    <3>1. next[s] = Added(it, s)
      BY <2>1
    <3>2. s # {} => next[s \ {First(s)}] = it[s \ {First(s)}]
      BY <1>0, <2>2, <2>4
    <3> HIDE DEF next
    <3> QED BY <3>1, <3>2 DEF Added
  <2> HIDE DEF next
  <2> QED BY <2>3, <2>4
<1>3. T = {}
  <2>1. SUFFICES ASSUME T # {} PROVE FALSE
    OBVIOUS
  <2> HIDE DEF Upto
  <2>2. PICK n \in T : \A m \in T : n <= m
    BY <2>1, Least
  <2>3. n # 0
    BY <1>1, <2>2
  <2>4. n - 1 \in Nat /\ n - 1 \notin T /\ n = (n - 1) + 1
    BY <2>2, <2>3
  <2> QED BY <1>2, <2>2, <2>4
<1>4. PICK it \in [SUBSET S -> Nat] : \A s \in SUBSET S :
          Cardinality(s) <= Cardinality(S) => it[s] = Added(it, s)
  BY <1>3, FS_CardinalityType
<1>5. IsSum(S, it)
  <2>1. \A s \in SUBSET S : it[s] = Added(it, s)
    BY <1>0, <1>4
  <2> QED BY <1>4, <2>1 DEF IsSum
<1> QED BY <1>5

(* Any two solutions agree. *)
LEMMA SumUnique ==
    ASSUME NEW S, IsFiniteSet(S), NEW a, IsSum(S, a), NEW R, S \subseteq R, NEW b, IsSum(R, b)
    PROVE  \A s \in SUBSET S : a[s] = b[s]
<1> DEFINE T == {s \in SUBSET S : a[s] # b[s]}
<1>1. SUFFICES ASSUME T # {} PROVE FALSE
  OBVIOUS
<1>2. PICK s \in T : \A r \in SUBSET s : r # s => r \notin T
  <2>1. T \in SUBSET SUBSET S
    OBVIOUS
  <2> HIDE DEF T
  <2> QED BY <1>1, <2>1, Minimal
<1>3. a[s] = Added(a, s) /\ b[s] = Added(b, s)
  BY <1>2 DEF IsSum
<1>4. s # {} => First(s) \in s /\ s \ {First(s)} \in SUBSET S /\ a[s \ {First(s)}] = b[s \ {First(s)}]
  BY <1>2, FirstIn
<1> QED BY <1>2, <1>3, <1>4 DEF Added

(* A sum over a part of the orders. *)
LEMMA SumOfPart ==
    ASSUME NEW S, IsFiniteSet(S), \A o \in S : o.amount \in Nat, NEW s \in SUBSET S
    PROVE  /\ SumOf(s) \in Nat
           /\ SumOf(s) = IF s = {} THEN 0 ELSE First(s).amount + SumOf(s \ {First(s)})
<1>1. PICK it \in [SUBSET S -> Nat] : IsSum(S, it)
  BY SumExists
<1>2. ASSUME NEW t \in SUBSET S
      PROVE  SumOf(t) = it[t]
  <2>1. IsFiniteSet(t) /\ \A o \in t : o.amount \in Nat
    BY FS_Subset
  <2>2. \E a : IsSum(t, a)
    BY <2>1, SumExists
  <2> DEFINE c == CHOOSE a : IsSum(t, a)
  <2>3. IsSum(t, c)
    BY <2>2
  <2> HIDE DEF c
  <2>4. c[t] = it[t]
    BY <1>1, <2>1, <2>3, SumUnique
  <2> QED BY <2>4 DEF SumOf, c
<1>3. it[s] = Added(it, s)
  BY <1>1 DEF IsSum
<1>4. s # {} => s \ {First(s)} \in SUBSET S
  OBVIOUS
<1> QED BY <1>2, <1>3, <1>4 DEF Added

(* A sum may be taken in any order. *)
LEMMA SumWithout ==
    ASSUME NEW S, IsFiniteSet(S), \A o \in S : o.amount \in Nat, NEW t \in SUBSET S, NEW y \in t
    PROVE  SumOf(t) = y.amount + SumOf(t \ {y})
<1> DEFINE T == {s \in SUBSET S : \E x \in s :
                    SumOf(s) # x.amount + SumOf(s \ {x})}
<1>1. SUFFICES ASSUME T # {} PROVE FALSE
  OBVIOUS
<1>2. PICK s \in T : \A r \in SUBSET s : r # s => r \notin T
  <2>1. T \in SUBSET SUBSET S
    OBVIOUS
  <2> HIDE DEF T
  <2> QED BY <1>1, <2>1, Minimal
<1>3. PICK x \in s : SumOf(s) # x.amount + SumOf(s \ {x})
  BY <1>2
<1> DEFINE f == First(s)  rest == (s \ {f}) \ {x}
<1>4. f \in s /\ SumOf(s) = f.amount + SumOf(s \ {f})
  BY <1>2, FirstIn, SumOfPart
<1>5. x # f
  BY <1>3, <1>4
<1>6. SumOf(s \ {f}) = x.amount + SumOf(rest)
  <2>1. s \ {f} \in SUBSET s /\ s \ {f} # s /\ x \in s \ {f} /\ s \ {f} \in SUBSET S
    BY <1>2, <1>4, <1>5
  <2>2. s \ {f} \notin T
    BY <1>2, <2>1
  <2> QED BY <2>1, <2>2
<1>7. SumOf(s \ {x}) = f.amount + SumOf(rest)
  <2>1. s \ {x} \in SUBSET s /\ s \ {x} # s /\ f \in s \ {x} /\ s \ {x} \in SUBSET S
    BY <1>2, <1>4, <1>5
  <2>2. s \ {x} \notin T
    BY <1>2, <2>1
  <2>3. (s \ {x}) \ {f} = rest
    OBVIOUS
  <2> QED BY <2>1, <2>2, <2>3
<1>8. x.amount \in Nat /\ f.amount \in Nat /\ SumOf(rest) \in Nat
  <2>1. rest \in SUBSET S /\ x \in S /\ f \in S
    BY <1>2, <1>4
  <2> HIDE DEF rest, f
  <2> QED BY <2>1, SumOfPart
<1> HIDE DEF rest, f, T
<1> QED BY <1>3, <1>4, <1>6, <1>7, <1>8

LEMMA SumIsIt ==
    ASSUME NEW S
    PROVE  Spent!Sum(S) = SumOf(S) /\ Bounds!Sum(S) = SumOf(S)
BY DEF Spent!Sum, Spent!MapThenSumSet, Spent!MapThenFoldSet,
       Bounds!Sum, Bounds!MapThenSumSet, Bounds!MapThenFoldSet, SumOf, IsSum, Added, First

(* One order more: more is spent, and there are more of them. *)
LEMMA OrdersAddUp ==
  ASSUME NEW S, IsFiniteSet(S), \A x \in S : Spent!IsOrder(x), NEW o, Spent!IsOrder(o)
  PROVE  /\ Spent!Sum(S) \in Nat /\ Spent!Sum(S \cup {o}) \in Nat
         /\ Spent!Sum(S) <= Spent!Sum(S \cup {o})
         /\ Spent!Cardinality(S) \in Nat /\ Spent!Cardinality(S \cup {o}) \in Nat
         /\ Spent!Cardinality(S) <= Spent!Cardinality(S \cup {o})
<1>1. IsFiniteSet(S \cup {o}) /\ \A x \in S \cup {o} : x.amount \in Nat
  BY FS_AddElement DEF Spent!IsOrder
<1>2. SumOf(S) \in Nat /\ SumOf(S \cup {o}) \in Nat
  BY <1>1, SumOfPart
<1>3. SumOf(S) <= SumOf(S \cup {o})
  <2>1. CASE o \in S
    <3>1. S \cup {o} = S
      BY <2>1
    <3> QED BY <1>2, <3>1
  <2>2. CASE o \notin S
    <3>1. (S \cup {o}) \ {o} = S
      BY <2>2
    <3>2. SumOf(S \cup {o}) = o.amount + SumOf((S \cup {o}) \ {o})
      BY <1>1, SumWithout
    <3> QED BY <1>1, <1>2, <3>1, <3>2
  <2> QED BY <2>1, <2>2
<1>4. /\ Cardinality(S) \in Nat /\ Cardinality(S \cup {o}) \in Nat
      /\ Cardinality(S) <= Cardinality(S \cup {o})
  BY <1>1, FS_Subset, FS_CardinalityType
<1>5. \A T : Spent!Cardinality(T) = Cardinality(T)
  BY DEF Spent!Cardinality, Cardinality
<1> QED
  BY <1>2, <1>3, <1>4, <1>5, SumIsIt

LEMMA WithinLimit ==
  ASSUME NEW v, NEW op \in {"<", "<="}, NEW limit
  PROVE  Spent!Within(v, op, {limit}) <=> (IF op = "<" THEN v < limit ELSE v <= limit)
<1>1. CASE op = "<"
  BY <1>1 DEF Spent!Within
<1>2. CASE op = "<="
  BY <1>2 DEF Spent!Within
<1> QED
  BY <1>1, <1>2

(* More orders, waiting or approved, make no period rule more lenient. *)
LEMMA OrdersTighten ==
  ASSUME RulesInv, RulesGiven, NEW o \in MoreOrders, Spent!AnotherOrder(o),
         NEW id \in Spent!PeriodRules(rulesPol)
  PROVE  Spent!Strictness[Spent!Result(id, rulesP, rulesPol, led)']
         >= Spent!Strictness[Spent!Result(id, rulesP, rulesPol, led)]
<1> DEFINE r == rulesPol.rules[id]
           taken(l) == Spent!InWindow(rulesPol, l)
           Ok(orders) == Spent!Within(Spent!Total(r, rulesP, orders), r.op, r.value)
<1>1. id \in DOMAIN rulesPol.rules /\ r.days > 0
  BY DEF Spent!PeriodRules
<1>2. \A l : Spent!Result(id, rulesP, rulesPol, l) = Spent!PeriodRule(r, rulesP, rulesPol, l)
  BY <1>1 DEF Spent!Result, Spent!RuleResult
<1>3. \A l : Spent!PeriodRule(r, rulesP, rulesPol, l) =
               IF r.days # Spent!Window(rulesPol) THEN "unknown"
               ELSE IF Ok(taken(l)) THEN "pass"
               ELSE IF Ok(Spent!Approved(taken(l))) THEN "reserved" ELSE "fail"
  BY DEF Spent!PeriodRule
<1>4. UNCHANGED <<rulesP, rulesPol>> /\ led'.past = led.past \cup {o}
  BY DEF Spent!AnotherOrder, RulesInv, Spent!IsLedger
<1>5. Spent!IsOrder(o) /\ rulesP.amount \in Nat
  BY DEF RulesGiven, RulesInv, Spent!IsPurchase
<1>6. ASSUME NEW S, IsFiniteSet(S), \A x \in S : Spent!IsOrder(x), ~Ok(S)
      PROVE  ~Ok(S \cup {o})
  <2> DEFINE t == Spent!Total(r, rulesP, S)  u == Spent!Total(r, rulesP, S \cup {o})
  <2>1. t \in Nat /\ u \in Nat /\ t <= u
    <3>1. /\ Spent!Sum(S) \in Nat /\ Spent!Sum(S \cup {o}) \in Nat
          /\ Spent!Sum(S) <= Spent!Sum(S \cup {o})
          /\ Spent!Cardinality(S) \in Nat /\ Spent!Cardinality(S \cup {o}) \in Nat
          /\ Spent!Cardinality(S) <= Spent!Cardinality(S \cup {o})
      BY <1>5, <1>6, OrdersAddUp
    <3> QED BY <1>5, <3>1 DEF Spent!Total
  <2>2. r.op \in {"<", "<="} /\ \E limit \in r.value : limit \in Nat /\ r.value = {limit}
    <3>1. Spent!IsRule(r)
      BY <1>1 DEF RulesInv, Spent!IsPolicy
    <3> QED BY <1>1, <3>1 DEF Spent!IsRule
  <2>3. PICK limit \in Nat : r.value = {limit}
    BY <2>2
  <2> DEFINE op == r.op
  <2>4. \A v : Spent!Within(v, op, {limit}) <=> (IF op = "<" THEN v < limit ELSE v <= limit)
    <3> HIDE DEF r
    <3> QED BY <2>2, WithinLimit
  <2>5. /\ Ok(S) <=> Spent!Within(t, op, {limit})
        /\ Ok(S \cup {o}) <=> Spent!Within(u, op, {limit})
    BY <2>3
  <2> HIDE DEF Ok, t, u, op
  <2>6. ~Spent!Within(t, op, {limit})
    BY <1>6, <2>5
  <2>7. ~Spent!Within(u, op, {limit})
    BY <2>1, <2>4, <2>6
  <2> QED BY <2>5, <2>7
<1>7. /\ IsFiniteSet(taken(led)) /\ \A x \in taken(led) : Spent!IsOrder(x)
      /\ IsFiniteSet(Spent!Approved(taken(led))) /\ \A x \in Spent!Approved(taken(led)) : Spent!IsOrder(x)
  <2>1. IsFiniteSet(led.past) /\ \A x \in led.past : Spent!IsOrder(x)
    BY DEF RulesInv, Spent!IsLedger, Spent!IsFiniteSet, IsFiniteSet
  <2>2. taken(led) \subseteq led.past /\ Spent!Approved(taken(led)) \subseteq led.past
    BY DEF Spent!InWindow, Spent!Approved
  <2> QED BY <2>1, <2>2, FS_Subset
<1>8. /\ taken(led') \in {taken(led), taken(led) \cup {o}}
      /\ Spent!Approved(taken(led')) \in {Spent!Approved(taken(led)), Spent!Approved(taken(led)) \cup {o}}
  BY <1>4 DEF Spent!InWindow, Spent!Approved
<1>9. /\ ~Ok(taken(led)) => ~Ok(taken(led'))
      /\ ~Ok(Spent!Approved(taken(led))) => ~Ok(Spent!Approved(taken(led')))
  <2> HIDE DEF Ok, taken
  <2> QED BY <1>6, <1>7, <1>8
<1>10. Spent!Result(id, rulesP, rulesPol, led)' = Spent!Result(id, rulesP, rulesPol, led')
  BY <1>4
<1> HIDE DEF Ok, taken, r
<1>11. CASE r.days # Spent!Window(rulesPol)
  BY <1>2, <1>3, <1>10, <1>11 DEF Spent!Strictness
<1>12. CASE r.days = Spent!Window(rulesPol) /\ Ok(taken(led))
  <2>1. /\ Spent!Result(id, rulesP, rulesPol, led) = "pass"
        /\ Spent!Result(id, rulesP, rulesPol, led') \in {"pass", "reserved", "fail"}
    BY <1>2, <1>3, <1>12
  <2> QED BY <1>10, <2>1 DEF Spent!Strictness
<1>13. CASE r.days = Spent!Window(rulesPol) /\ ~Ok(taken(led)) /\ Ok(Spent!Approved(taken(led)))
  <2>1. /\ Spent!Result(id, rulesP, rulesPol, led) = "reserved"
        /\ Spent!Result(id, rulesP, rulesPol, led') \in {"reserved", "fail"}
    BY <1>2, <1>3, <1>9, <1>13
  <2> QED BY <1>10, <2>1 DEF Spent!Strictness
<1>14. CASE r.days = Spent!Window(rulesPol) /\ ~Ok(taken(led)) /\ ~Ok(Spent!Approved(taken(led)))
  <2>1. /\ Spent!Result(id, rulesP, rulesPol, led) = "fail"
        /\ Spent!Result(id, rulesP, rulesPol, led') = "fail"
    BY <1>2, <1>3, <1>9, <1>14
  <2> QED BY <1>10, <2>1 DEF Spent!Strictness
<1> QED
  BY <1>11, <1>12, <1>13, <1>14

-----------------------------------------------------------------------------
(* Shop text: a sentence more adds values, never takes one back. *)

Louder(s, p, q) ==
  /\ Spent!IsPurchase(p) /\ Spent!IsPurchase(q)
  /\ Text!Items(q) = Text!Items(p) /\ q.amount = p.amount /\ q.shop = p.shop
  /\ q.shopType = p.shopType /\ q.returnable = p.returnable
  /\ \A i \in Text!Items(p) : Adds(s, i, p.lines[i], q.lines[i])

LEMMA LinesOf ==
  ASSUME NEW s, NEW p, NEW q, Louder(s, p, q), NEW i \in Text!Items(p)
  PROVE  /\ Spent!IsLine(p.lines[i]) /\ Spent!IsLine(q.lines[i])
         /\ IsFiniteSet(p.lines[i].sizes) /\ IsFiniteSet(q.lines[i].sizes)
         /\ IsFiniteSet(p.lines[i].letters) /\ IsFiniteSet(q.lines[i].letters)
         /\ IsFiniteSet(p.lines[i].returns) /\ IsFiniteSet(q.lines[i].returns)
         /\ p.lines[i].sizes \subseteq q.lines[i].sizes
         /\ p.lines[i].letters \subseteq q.lines[i].letters
         /\ p.lines[i].returns \subseteq q.lines[i].returns
         /\ p.lines[i].words \subseteq q.lines[i].words
         /\ q.lines[i].count = p.lines[i].count
<1>1. Spent!IsLine(p.lines[i]) /\ Spent!IsLine(q.lines[i])
  BY DEF Louder, Spent!IsPurchase, Spent!Items, Text!Items
<1>2. \A S : Spent!IsFiniteSet(S) <=> IsFiniteSet(S)
  BY DEF Spent!IsFiniteSet, IsFiniteSet
<1>3. Adds(s, i, p.lines[i], q.lines[i])
  BY DEF Louder
<1> QED
  BY <1>1, <1>2, <1>3 DEF Spent!IsLine, Adds

(* A fact that was read stays, or is contradicted. *)
LEMMA StaysOrOpens ==
  ASSUME NEW S, NEW T, IsFiniteSet(S), IsFiniteSet(T), S \subseteq T, Text!OnlyOne(S) # {}
  PROVE  Text!OnlyOne(T) \in {Text!OnlyOne(S), {}}
<1>1. Cardinality(S) = 1 /\ Text!OnlyOne(S) = S
  BY DEF Text!OnlyOne, Text!Cardinality, Cardinality
<1>2. Cardinality(T) = 1 => S = T
  BY <1>1, FS_Subset
<1> QED
  BY <1>1, <1>2 DEF Text!OnlyOne, Text!Cardinality, Cardinality

(* The least of the days that are stated. *)
LEMMA MinIs ==
  ASSUME NEW S \in SUBSET Nat, S # {}
  PROVE  /\ Text!Min(S) \in S /\ \A n \in S : Text!Min(S) <= n
         /\ Tightened!Min(S) \in S /\ \A n \in S : Tightened!Min(S) <= n
<1>1. \E x \in S : \A y \in S : x <= y
  BY Least
<1> QED
  BY <1>1 DEF Text!Min, Tightened!Min

LEMMA ReturnsAreDays ==
  ASSUME NEW l, Spent!IsLine(l)
  PROVE  Text!Returns(l) \subseteq Nat
<1>1. l.returns \subseteq Nat \cup {-1}
  BY DEF Spent!IsLine, Spent!Exchange
<1>2. Text!Returns(l) \subseteq l.returns \ {-1}
  BY DEF Text!Returns, Text!OnlyOne, Text!Exchange
<1> QED BY <1>1, <1>2

(* What one text says of the days to return an order, and a longer one. *)
LEMMA DaysShorten ==
  ASSUME NEW s, NEW p, NEW q, Louder(s, p, q), NEW v \in Text!OrderReturns(p)
  PROVE  /\ v \in Nat
         /\ Text!OrderReturns(q) = {} \/ \E w \in Text!OrderReturns(q) : w \in Nat /\ w <= v
<1> DEFINE Stated(o) == UNION {Text!Returns(o.lines[i]) : i \in Text!Items(o)}
           Twice(o) == \E i \in Text!Items(o) : Text!Cardinality(o.lines[i].returns) > 1
<1>1. \A o : Text!OrderReturns(o) = IF o.returnable = "false" THEN {0}
                                    ELSE IF Twice(o) THEN {}
                                    ELSE IF Stated(o) = {} THEN {} ELSE {Text!Min(Stated(o))}
  BY DEF Text!OrderReturns
<1>2. \A i \in Text!Items(p) : Text!Returns(p.lines[i]) \subseteq Nat /\ Text!Returns(q.lines[i]) \subseteq Nat
  BY LinesOf, ReturnsAreDays
<1>3. Text!Items(q) = Text!Items(p) /\ q.returnable = p.returnable
  BY DEF Louder
<1>4. Stated(p) \subseteq Nat /\ Stated(q) \subseteq Nat
  BY <1>2, <1>3
<1>5. CASE q.returnable = "false"
  <2>1. Text!OrderReturns(p) = {0} /\ Text!OrderReturns(q) = {0}
    BY <1>3, <1>5 DEF Text!OrderReturns
  <2> QED BY <2>1
<1>6. CASE q.returnable # "false"
  <2>1. ~Twice(p) /\ Stated(p) # {} /\ v = Text!Min(Stated(p))
    <3> HIDE DEF Twice, Stated
    <3> QED BY <1>1, <1>3, <1>6
  <2>2. v \in Stated(p) /\ v \in Nat
    <3> HIDE DEF Stated
    <3> QED BY <1>4, <2>1, MinIs
  <2>3. PICK i \in Text!Items(p) : v \in Text!Returns(p.lines[i])
    BY <2>2
  <2>4. ~Twice(q) => v \in Stated(q)
    <3> SUFFICES ASSUME ~Twice(q) PROVE v \in Stated(q)
      OBVIOUS
    <3> DEFINE was == p.lines[i].returns  then == q.lines[i].returns
    <3>1. /\ Text!Exchange \notin was /\ v \in was /\ Cardinality(was) = 1
      BY <2>3 DEF Text!Returns, Text!OnlyOne, Text!Cardinality, Cardinality
    <3>2. was \subseteq then /\ IsFiniteSet(then) /\ IsFiniteSet(was)
      BY LinesOf
    <3>3. Cardinality(then) <= 1
      <4>1. ~(Text!Cardinality(then) > 1)
        BY <1>3
      <4>2. Cardinality(then) \in Nat
        BY <3>2, FS_CardinalityType
      <4> QED BY <4>1, <4>2 DEF Text!Cardinality, Cardinality
    <3>4. then = was
      <4> HIDE DEF was, then
      <4> QED BY <3>1, <3>2, <3>3, FS_Subset, FS_CardinalityType
    <3>5. v \in Text!Returns(q.lines[i])
      BY <2>3, <3>4 DEF Text!Returns
    <3> QED BY <1>3, <3>5
  <2>5. ~Twice(q) => Text!Min(Stated(q)) \in Nat /\ Text!Min(Stated(q)) <= v /\ Stated(q) # {}
    <3> HIDE DEF Twice, Stated
    <3> QED BY <1>4, <2>4, MinIs
  <2> HIDE DEF Twice, Stated
  <2> QED BY <1>1, <1>6, <2>2, <2>5
<1> QED
  BY <1>5, <1>6

LEMMA AlcoholStays ==
  ASSUME NEW i, NEW was, NEW then, was.words \subseteq then.words,
         NEW v \in Text!Alcohol(i, was), v # "false"
  PROVE  v = "true" /\ Text!Alcohol(i, then) \in {{}, {"true"}}
<1> DEFINE a == was.words \cup Described[i]  b == then.words \cup Described[i]
<1>1. a \subseteq b
  OBVIOUS
<1>2. \A words : Text!Verdict(words) \in {{}, {"true"}, {"false"}}
  BY DEF Text!Verdict
<1>3. \A words : Text!Verdict(words) = {"true"} <=> "alcohol" \in words /\ "free" \notin words
  BY DEF Text!Verdict
<1>4. Text!Verdict(b) \in {{}, {"true"}} \/ "alcohol" \notin b
  BY DEF Text!Verdict
<1>5. Text!Alcohol(i, was) = {"true"} /\ Catalogue[i] \notin Text!NotADrink
  BY <1>2 DEF Text!Alcohol
<1>6. CASE Text!Verdict(Described[i]) = {"true"}
  BY <1>5, <1>6 DEF Text!Alcohol
<1>7. CASE Text!Verdict(Described[i]) # {"true"}
  <2>1. Text!Verdict(a) = {"true"}
    BY <1>5, <1>7 DEF Text!Alcohol
  <2>2. Text!Alcohol(i, then) = Text!Verdict(b)
    BY <1>5, <1>7 DEF Text!Alcohol
  <2> HIDE DEF a, b
  <2> QED BY <1>1, <1>3, <1>4, <1>5, <2>1, <2>2
<1> QED
  BY <1>6, <1>7

(* A value that breaks a rule: once the text says more, the rule is still  *)
(* broken, or it is not known any more whether it is. *)
LEMMA BrokenStays ==
  ASSUME NEW s, NEW p, NEW q, Louder(s, p, q), NEW r, Spent!IsRule(r), NEW d, NEW l,
         NEW v \in UNION Text!FactsFor(r.field, p, d, l), ~Text!Within(v, r.op, r.value)
  PROVE  \/ {} \in Text!FactsFor(r.field, q, d, l)
         \/ \E w \in UNION Text!FactsFor(r.field, q, d, l) : ~Text!Within(w, r.op, r.value)
<1> DEFINE was == Text!FactsFor(r.field, p, d, l)  then == Text!FactsFor(r.field, q, d, l)
<1>1. /\ Text!Items(q) = Text!Items(p) /\ q.amount = p.amount /\ q.shop = p.shop
      /\ q.shopType = p.shopType /\ q.returnable = p.returnable
      /\ Text!Wanted(q, d) = Text!Wanted(p, d) /\ Text!Wanted(p, d) \subseteq Text!Items(p)
  BY DEF Louder, Text!Wanted
<1>2. CASE r.field \in {"total", "returnable", "shop_type", "item_type", "known_shop"}
  <2>1. was = then
    BY <1>1, <1>2 DEF Text!FactsFor, Text!IsKnown
  <2> QED BY <2>1
<1>3. CASE r.field = "quantity"
  <2>1. Text!Ordered(p) = Text!Ordered(q)
    BY <1>1, LinesOf DEF Text!Ordered
  <2>2. was = then
    BY <1>1, <1>3, <2>1 DEF Text!FactsFor
  <2> QED BY <2>2
<1>4. CASE r.field = "size"
  <2>1. was = (IF Text!Wanted(p, d) = {} THEN {{}} ELSE {Text!Size(p.lines[i]) : i \in Text!Wanted(p, d)})
    BY <1>4 DEF Text!FactsFor
  <2>2. then = (IF Text!Wanted(q, d) = {} THEN {{}} ELSE {Text!Size(q.lines[i]) : i \in Text!Wanted(q, d)})
    BY <1>4 DEF Text!FactsFor
  <2>3. PICK i \in Text!Wanted(p, d) : v \in Text!Size(p.lines[i])
    BY <2>1
  <2>4. Text!Size(q.lines[i]) \in {Text!Size(p.lines[i]), {}}
    BY <1>1, <2>3, LinesOf, StaysOrOpens DEF Text!Size
  <2>5. Text!Size(q.lines[i]) \in then
    BY <1>1, <2>2, <2>3
  <2> HIDE DEF then
  <2>6. {} \in then \/ v \in UNION then
    BY <2>3, <2>4, <2>5
  <2> QED BY <2>6 DEF then
<1>5. CASE r.field = "letter"
  <2>1. was = (IF Text!Wanted(p, d) = {} THEN {{}} ELSE {Text!Letter(p.lines[i]) : i \in Text!Wanted(p, d)})
    BY <1>5 DEF Text!FactsFor
  <2>2. then = (IF Text!Wanted(q, d) = {} THEN {{}} ELSE {Text!Letter(q.lines[i]) : i \in Text!Wanted(q, d)})
    BY <1>5 DEF Text!FactsFor
  <2>3. PICK i \in Text!Wanted(p, d) : v \in Text!Letter(p.lines[i])
    BY <2>1
  <2>4. Text!Letter(q.lines[i]) \in {Text!Letter(p.lines[i]), {}}
    BY <1>1, <2>3, LinesOf, StaysOrOpens DEF Text!Letter
  <2>5. Text!Letter(q.lines[i]) \in then
    BY <1>1, <2>2, <2>3
  <2> HIDE DEF then
  <2>6. {} \in then \/ v \in UNION then
    BY <2>3, <2>4, <2>5
  <2> QED BY <2>6 DEF then
<1>6. CASE r.field = "alcohol"
  <2>1. r.op = "=" /\ r.value = {"false"}
    BY <1>6 DEF Spent!IsRule
  <2>2. \A w : Text!Within(w, r.op, r.value) <=> w = "false"
    BY <2>1 DEF Text!Within
  <2>3. PICK i \in Text!Items(p) : v \in Text!Alcohol(i, p.lines[i])
    BY <1>6 DEF Text!FactsFor
  <2>4. v = "true" /\ Text!Alcohol(i, q.lines[i]) \in {{}, {"true"}}
    BY <2>2, <2>3, LinesOf, AlcoholStays
  <2>5. Text!Alcohol(i, q.lines[i]) \in then
    BY <1>1, <1>6, <2>3 DEF Text!FactsFor
  <2> HIDE DEF then
  <2>6. {} \in then \/ v \in UNION then
    BY <2>4, <2>5
  <2> QED BY <2>6 DEF then
<1>7. CASE r.field = "recurring"
  <2>1. r.op = "=" /\ r.value = {"false"}
    BY <1>7 DEF Spent!IsRule
  <2>2. \A w : Text!Within(w, r.op, r.value) <=> w = "false"
    BY <2>1 DEF Text!Within
  <2>3. was = {{Text!Recurring(p)}} /\ then = {{Text!Recurring(q)}}
    BY <1>7 DEF Text!FactsFor
  <2>4. Text!Recurring(p) = v /\ v # "false"
    BY <2>2, <2>3
  <2>5. \E i \in Text!Items(p) : Text!Billed(i, p.lines[i])
    BY <2>4 DEF Text!Recurring
  <2>6. \E i \in Text!Items(q) : Text!Billed(i, q.lines[i])
    BY <1>1, <2>5, LinesOf DEF Text!Billed
  <2>7. Text!Recurring(q) = "true" /\ Text!Recurring(p) = "true"
    BY <2>5, <2>6 DEF Text!Recurring
  <2> QED BY <2>3, <2>4, <2>7
<1>8. CASE r.field = "returns"
  <2>1. was = {Text!OrderReturns(p)} /\ then = {Text!OrderReturns(q)}
    BY <1>8 DEF Text!FactsFor
  <2>2. v \in Text!OrderReturns(p)
    BY <2>1
  <2>3. v \in Nat /\ (Text!OrderReturns(q) = {} \/ \E w \in Text!OrderReturns(q) : w \in Nat /\ w <= v)
    BY <2>2, DaysShorten
  <2>4. /\ r.value \subseteq Nat
        /\ \A w : Text!Within(w, r.op, r.value) <=> \A limit \in r.value : w >= limit
    BY <1>8 DEF Spent!IsRule, Text!Within
  <2>5. \A w \in Nat : w <= v => ~Text!Within(w, r.op, r.value)
    BY <2>3, <2>4
  <2> QED BY <2>1, <2>3, <2>5
<1>9. CASE r.field \notin {"total", "returnable", "shop_type", "item_type", "known_shop", "quantity",
                           "size", "letter", "alcohol", "recurring", "returns"}
  <2>1. was = {}
    BY <1>9 DEF Text!FactsFor
  <2> QED BY <2>1
<1> QED
  BY <1>2, <1>3, <1>4, <1>5, <1>6, <1>7, <1>8, <1>9

LEMMA TextClears ==
  ASSUME NEW s, NEW p, NEW q, Louder(s, p, q), NEW d, NEW l, NEW id \in Text!Ids(d),
         \A j \in DOMAIN d.rules : Spent!IsRule(d.rules[j]),
         Text!Result(id, p, d, l) = "fail"
  PROVE  Text!Result(id, q, d, l) # "pass"
<1>1. /\ Text!Items(q) = Text!Items(p) /\ q.amount = p.amount /\ q.shop = p.shop
      /\ q.shopType = p.shopType /\ Text!Wanted(q, d) = Text!Wanted(p, d)
  BY DEF Louder, Text!Wanted
<1>2. CASE id \in DOMAIN d.rules
  <2> DEFINE r == d.rules[id]
  <2>1. Spent!IsRule(r) /\ Text!RuleResult(id, p, d, l) = "fail"
        /\ Text!Result(id, q, d, l) = Text!RuleResult(id, q, d, l)
    BY <1>2 DEF Text!Result
  <2>2. CASE r.days > 0
    <3>1. Text!PeriodRule(r, p, d, l) = Text!PeriodRule(r, q, d, l)
      BY <1>1 DEF Text!PeriodRule, Text!Total
    <3> QED BY <2>1, <2>2, <3>1 DEF Text!RuleResult
  <2>3. CASE ~(r.days > 0) /\ r.field = "known_shop"
    <3>1. Text!TypedRule(r, q, d, l) = Text!TypedRule(r, p, d, l)
      BY <1>1, <2>3 DEF Text!TypedRule, Text!FactsFor, Text!IsKnown
    <3>2. Text!RuleResult(id, q, d, l) = Text!RuleResult(id, p, d, l)
      BY <1>1, <2>3, <3>1 DEF Text!RuleResult, Text!KnownShop, Text!AtShop
    <3> QED BY <2>1, <3>2
  <2>4. CASE ~(r.days > 0) /\ r.field = "last_price"
    <3>1. Text!RuleResult(id, q, d, l) = Text!RuleResult(id, p, d, l)
      BY <1>1, <2>4 DEF Text!RuleResult, Text!OnLastPrice, Text!LastPriceRule
    <3> QED BY <2>1, <3>1
  <2>5. CASE ~(r.days > 0) /\ r.field \notin {"known_shop", "last_price"}
    <3>1. Text!RuleResult(id, p, d, l) \in {"pass", Text!TypedRule(r, p, d, l)}
      BY <2>5 DEF Text!RuleResult, Text!OnLastPrice
    <3>2. Text!TypedRule(r, p, d, l) = "fail"
      BY <2>1, <3>1
    <3>3. \E v \in UNION Text!FactsFor(r.field, p, d, l) : ~Text!Within(v, r.op, r.value)
      BY <3>2 DEF Text!TypedRule
    <3>4. ~r.asks
      BY <3>2, <3>3 DEF Text!TypedRule, Text!Broken
    <3>5. ~Text!Unchecked(r)
      <4>1. r.field = "unverifiable" => Text!FactsFor(r.field, p, d, l) = {}
        BY DEF Text!FactsFor
      <4> QED BY <3>3, <4>1 DEF Text!Unchecked
    <3>6. \/ {} \in Text!FactsFor(r.field, q, d, l)
          \/ \E w \in UNION Text!FactsFor(r.field, q, d, l) : ~Text!Within(w, r.op, r.value)
      BY <2>1, <3>3, BrokenStays
    <3>7. Text!TypedRule(r, q, d, l) # "pass"
      BY <3>4, <3>6 DEF Text!TypedRule, Text!Broken
    <3> QED BY <2>1, <2>5, <3>5, <3>7 DEF Text!RuleResult, Text!OnLastPrice
  <2> QED BY <2>2, <2>3, <2>4, <2>5
<1>3. CASE id \notin DOMAIN d.rules
  <2>1. Text!Flag(id, q, d, l) = Text!Flag(id, p, d, l)
    <3>1. Text!Excess(q, d) = Text!Excess(p, d)
      BY <1>1 DEF Text!Excess
    <3>2. \A types, of : Text!OfType(q, types, of) = Text!OfType(p, types, of)
      BY <1>1 DEF Text!OfType
    <3> QED BY <1>1, <3>1, <3>2
            DEF Text!Flag, Text!CheckAllowedTypes, Text!CheckBlockedTypes, Text!CheckRequestedItem,
                Text!CheckShopType, Text!CheckKnownShop, Text!IsKnown, Text!CheckNothingExtra
  <2>2. Text!FlagResult(id, q, d, l) = Text!FlagResult(id, p, d, l)
    BY <1>1, <2>1 DEF Text!FlagResult, Text!KnownShop, Text!AtShop
  <2> QED BY <1>3, <2>2 DEF Text!Result
<1> QED
  BY <1>2, <1>3

LEMMA ClearsNothing ==
  ASSUME RulesInv, RulesGiven, NEW s \in Sentences, Speaks(s)
  PROVE  \A id \in Text!Ids(rulesPol) :
           Text!Result(id, rulesP, rulesPol, led) = "fail"
             => Text!Result(id, rulesP, rulesPol, led)' # "pass"
<1>1. UNCHANGED <<rulesPol, led>>
  BY DEF Speaks, Text!ShopSays
<1>2. Louder(s, rulesP, rulesP')
  BY Speaking DEF RulesInv, Louder, Text!Items, Spent!Items
<1>3. \A j \in DOMAIN rulesPol.rules : Spent!IsRule(rulesPol.rules[j])
  BY DEF RulesInv, Spent!IsPolicy
<1>4. \A id : Text!Result(id, rulesP, rulesPol, led)' = Text!Result(id, rulesP', rulesPol, led)
  BY <1>1
<1> QED
  BY <1>2, <1>3, <1>4, TextClears

-----------------------------------------------------------------------------
(* T5: a rule more.  What the rules in force say stays as it was. *)

SaidOf(p, d, l) == {Tightened!Result(j, p, d, l) : j \in Tightened!Ids(d)}

LEMMA OutcomeIs ==
  ASSUME NEW p, NEW d, NEW l
  PROVE  Tightened!Outcome(p, d, l) =
           IF "fail" \in SaidOf(p, d, l) \/ ("unknown" \in SaidOf(p, d, l) /\ d.setting = "decline") THEN "decline"
           ELSE IF "reserved" \in SaidOf(p, d, l) \/ ("unknown" \in SaidOf(p, d, l) /\ d.setting = "ask")
           THEN "step_up" ELSE "approve"
<1> DEFINE found == Tightened!Findings(p, d, l)
<1>1. /\ found.authority = "active" /\ found.protections = {} /\ found.strong = {} /\ found.weak = 0
      /\ found.soft = FALSE /\ found.watch = FALSE /\ found.rules = SaidOf(p, d, l) \ {"pass"}
  BY DEF Tightened!Findings, SaidOf
<1>2. Tightened!Outcome(p, d, l) = Tightened!D!Decision(found, d.setting).outcome
  BY DEF Tightened!Outcome
<1> HIDE DEF found
<1>3. Tightened!D!Unsure(found) <=> "unknown" \in SaidOf(p, d, l)
  BY <1>1 DEF Tightened!D!Unsure
<1>4. Tightened!D!AsksAt4(found, d.setting) <=>
        "reserved" \in SaidOf(p, d, l) \/ ("unknown" \in SaidOf(p, d, l) /\ d.setting = "ask")
  BY <1>1 DEF Tightened!D!AsksAt4
<1>5. ~Tightened!D!Suspicious(found)
  BY <1>1 DEF Tightened!D!Suspicious
<1> QED
  BY <1>1, <1>2, <1>3, <1>4, <1>5 DEF Tightened!D!Decision, Tightened!D!Verdict

(* A policy d, and e with one rule more. *)
Tighter(id, d, e) ==
  /\ id \in DOMAIN MoreRules /\ id \notin DOMAIN d.rules
  /\ DOMAIN e.rules = DOMAIN d.rules \cup {id} /\ e.rules[id] = MoreRules[id]
  /\ \A j \in DOMAIN d.rules : e.rules[j] = d.rules[j]
  /\ e.requested = d.requested /\ e.allowed = d.allowed /\ e.blocked = d.blocked
  /\ e.shopType = d.shopType /\ e.knownShop = d.knownShop
  /\ e.nothingExtra = d.nothingExtra /\ e.setting = d.setting
  /\ \A j \in DOMAIN e.rules : Spent!IsRule(e.rules[j])
  /\ Tightened!Keeps(id, d)
  /\ MoreRules[id].days = 0 \/ Tightened!PeriodRules(d) = {}
     \/ MoreRules[id].days >= Tightened!Window(d)

LEMMA WindowStays ==
  ASSUME NEW id, NEW d, NEW e, Tighter(id, d, e), Tightened!PeriodRules(d) # {}
  PROVE  Tightened!Window(e) = Tightened!Window(d)
<1> DEFINE S == {d.rules[j].days : j \in Tightened!PeriodRules(d)}
           T == {e.rules[j].days : j \in Tightened!PeriodRules(e)}
<1>1. \A j \in DOMAIN d.rules : d.rules[j].days \in Nat
  BY DEF Tighter, Spent!IsRule
<1>2. S \in SUBSET Nat /\ S # {}
  BY <1>1 DEF Tightened!PeriodRules
<1>3. Tightened!Window(d) = Tightened!Min(S) /\ Tightened!Window(e) = Tightened!Min(T)
  BY DEF Tightened!Window
<1>4. MoreRules[id].days \in Nat
  BY DEF Tighter, Spent!IsRule
<1>5. CASE MoreRules[id].days = 0
  <2>1. Tightened!PeriodRules(e) = Tightened!PeriodRules(d)
    BY <1>5 DEF Tightened!PeriodRules, Tighter
  <2>2. T = S
    BY <2>1 DEF Tighter, Tightened!PeriodRules
  <2> QED BY <1>3, <2>2
<1>6. CASE MoreRules[id].days # 0
  <2>1. T = S \cup {MoreRules[id].days}
    <3>1. Tightened!PeriodRules(e) = Tightened!PeriodRules(d) \cup {id}
      BY <1>4, <1>6 DEF Tightened!PeriodRules, Tighter
    <3> QED BY <3>1 DEF Tighter, Tightened!PeriodRules
  <2>2. MoreRules[id].days >= Tightened!Min(S)
    BY <1>3, <1>6 DEF Tighter
  <2>3. T \in SUBSET Nat /\ T # {}
    BY <1>2, <1>4, <2>1
  <2> HIDE DEF S, T
  <2>4. Tightened!Min(S) \in S /\ \A n \in S : Tightened!Min(S) <= n
    BY <1>2, MinIs
  <2>5. Tightened!Min(T) \in T /\ \A n \in T : Tightened!Min(T) <= n
    BY <2>3, MinIs
  <2> QED BY <1>2, <1>3, <1>4, <2>1, <2>2, <2>4, <2>5
<1> QED
  BY <1>5, <1>6

LEMMA RulesSayTheSame ==
  ASSUME NEW id, NEW d, NEW e, Tighter(id, d, e), NEW p, NEW l, NEW j \in DOMAIN d.rules
  PROVE  j \in Tightened!Ids(e) /\ Tightened!Result(j, p, e, l) = Tightened!Result(j, p, d, l)
<1> DEFINE r == d.rules[j]
<1>1. j \in DOMAIN e.rules /\ e.rules[j] = r
  BY DEF Tighter
<1>2. \A field : Tightened!FactsFor(field, p, e, l) = Tightened!FactsFor(field, p, d, l)
  <2>1. Tightened!Wanted(p, e) = Tightened!Wanted(p, d)
    BY DEF Tightened!Wanted, Tighter
  <2> QED BY <2>1 DEF Tightened!FactsFor
<1>3. Tightened!TypedRule(r, p, e, l) = Tightened!TypedRule(r, p, d, l)
  BY <1>2 DEF Tightened!TypedRule
<1>4. r.days > 0 => Tightened!PeriodRule(r, p, e, l) = Tightened!PeriodRule(r, p, d, l)
  <2> SUFFICES ASSUME r.days > 0
               PROVE  Tightened!PeriodRule(r, p, e, l) = Tightened!PeriodRule(r, p, d, l)
    OBVIOUS
  <2>1. j \in Tightened!PeriodRules(d)
    BY DEF Tightened!PeriodRules
  <2>2. Tightened!Window(e) = Tightened!Window(d)
    BY <2>1, WindowStays
  <2> QED BY <2>2 DEF Tightened!PeriodRule, Tightened!InWindow
<1>5. Tightened!RuleResult(j, p, e, l) = Tightened!RuleResult(j, p, d, l)
  BY <1>1, <1>3, <1>4 DEF Tightened!RuleResult
<1> QED
  BY <1>1, <1>5 DEF Tightened!Result, Tightened!Ids

LEMMA FlagsSayTheSame ==
  ASSUME NEW id, NEW d, NEW e, Tighter(id, d, e), NEW p, NEW l, NEW f \in Tightened!Checked(d),
         f \notin DOMAIN d.rules, f \in Tightened!Checked(e), f # id
  PROVE  f \in Tightened!Ids(e) /\ Tightened!Result(f, p, e, l) = Tightened!Result(f, p, d, l)
<1>1. f \notin DOMAIN e.rules
  BY DEF Tighter
<1>2. Tightened!Flag(f, p, e, l) = Tightened!Flag(f, p, d, l)
  BY DEF Tighter, Tightened!Flag, Tightened!CheckAllowedTypes, Tightened!CheckBlockedTypes,
         Tightened!CheckRequestedItem, Tightened!Wanted, Tightened!CheckShopType,
         Tightened!CheckNothingExtra, Tightened!Excess
<1>3. Tightened!FlagResult(f, p, e, l) = Tightened!FlagResult(f, p, d, l)
  BY <1>2 DEF Tightened!FlagResult
<1> QED
  BY <1>1, <1>3 DEF Tightened!Result, Tightened!Ids

(* A flag that the added rule takes the place of: the rule says the same,  *)
(* or the flag was met. *)
LEMMA RuleTakesOver ==
  ASSUME NEW id, NEW d, NEW e, Tighter(id, d, e), NEW p, NEW l, NEW f \in Tightened!Checked(d),
         f \notin DOMAIN d.rules, f \notin Tightened!Checked(e) \/ f = id
  PROVE  Tightened!Result(f, p, d, l) \in {"pass", Tightened!Result(id, p, e, l)}
<1> DEFINE r == MoreRules[id]
           typed == Tightened!TypedRule(r, p, e, l)
           facts == Tightened!FactsFor(r.field, p, e, l)
<1>1. Tightened!Result(f, p, d, l) = Tightened!FlagResult(f, p, d, l)
  BY DEF Tightened!Result
<1>2. Tightened!Result(id, p, e, l) = Tightened!RuleResult(id, p, e, l) /\ e.rules[id] = r
  BY DEF Tightened!Result, Tighter
<1>3. Spent!IsRule(r) /\ Tightened!Keeps(id, d)
  BY DEF Tighter
<1>4. \A field, ops : Tightened!Covered(e, field, ops) /\ ~Tightened!Covered(d, field, ops)
                      => r.field = field /\ r.op \in ops
  BY DEF Tightened!Covered, Tighter
<1>5. r.field \in {"item_type", "shop_type"} => Tightened!Result(id, p, e, l) = typed
  BY <1>2, <1>3 DEF Tightened!RuleResult, Spent!IsRule, Tightened!OnLastPrice, Tightened!Unchecked
<1>6. ASSUME NEW v \in UNION facts, ~Tightened!Within(v, r.op, r.value), ~r.asks
      PROVE  typed = "fail"
  BY <1>6 DEF Tightened!TypedRule, Tightened!Broken
<1>7. CASE f = "C3"
  <2>1. d.allowed # {} /\ (id = "C3" \/ (r.field = "item_type" /\ r.op = "in"))
    BY <1>4, <1>7 DEF Tightened!Checked, Tightened!FlagIds, Tighter
  <2>2. r.field = "item_type" /\ r.op = "in" /\ ~r.asks /\ r.value \subseteq d.allowed
    BY <1>3, <2>1 DEF Tightened!Keeps
  <2>3. Tightened!FlagResult(f, p, d, l) = Tightened!Met(Tightened!OfType(p, d.allowed, FALSE) = {})
    BY <1>7 DEF Tightened!FlagResult, Tightened!Flag, Tightened!CheckAllowedTypes
  <2>4. ASSUME NEW i \in Tightened!Items(p), Catalogue[i] \notin d.allowed
        PROVE  typed = "fail"
    <3>1. Catalogue[i] \in UNION facts
      BY <2>2 DEF Tightened!FactsFor
    <3>2. ~Tightened!Within(Catalogue[i], r.op, r.value)
      BY <2>2, <2>4 DEF Tightened!Within
    <3> QED BY <1>6, <2>2, <3>1, <3>2
  <2> HIDE DEF typed, facts, r
  <2> QED BY <1>1, <1>5, <2>2, <2>3, <2>4 DEF Tightened!OfType, Tightened!Met
<1>8. CASE f = "C4"
  <2>1. d.blocked # {} /\ (id = "C4" \/ (r.field = "item_type" /\ r.op = "not_in"))
    BY <1>4, <1>8 DEF Tightened!Checked, Tightened!FlagIds, Tighter
  <2>2. r.field = "item_type" /\ r.op = "not_in" /\ ~r.asks /\ d.blocked \subseteq r.value
    BY <1>3, <2>1 DEF Tightened!Keeps
  <2>3. Tightened!FlagResult(f, p, d, l) = Tightened!Met(Tightened!OfType(p, d.blocked, TRUE) = {})
    BY <1>8 DEF Tightened!FlagResult, Tightened!Flag, Tightened!CheckBlockedTypes
  <2>4. ASSUME NEW i \in Tightened!Items(p), Catalogue[i] \in d.blocked
        PROVE  typed = "fail"
    <3>1. Catalogue[i] \in UNION facts
      BY <2>2 DEF Tightened!FactsFor
    <3>2. ~Tightened!Within(Catalogue[i], r.op, r.value)
      BY <2>2, <2>4 DEF Tightened!Within
    <3> QED BY <1>6, <2>2, <3>1, <3>2
  <2> HIDE DEF typed, facts, r
  <2> QED BY <1>1, <1>5, <2>2, <2>3, <2>4 DEF Tightened!OfType, Tightened!Met
<1>9. CASE f = "C8"
  <2>1. d.shopType # {} /\ (id = "C8" \/ (r.field = "shop_type" /\ r.op \in {"=", "in"}))
    BY <1>4, <1>9 DEF Tightened!Checked, Tightened!FlagIds, Tighter
  <2>2. r.field = "shop_type" /\ r.op \in {"=", "in"} /\ ~r.asks /\ r.value \subseteq d.shopType
    BY <1>3, <2>1 DEF Tightened!Keeps
  <2>3. Tightened!FlagResult(f, p, d, l)
          = IF p.shopType = {} THEN "unknown" ELSE Tightened!Met(p.shopType \subseteq d.shopType)
    BY <1>9 DEF Tightened!FlagResult, Tightened!Flag, Tightened!CheckShopType
  <2>4. facts = {p.shopType}
    BY <2>2 DEF Tightened!FactsFor
  <2>5. ASSUME NEW v \in p.shopType, v \notin d.shopType
        PROVE  typed = "fail"
    <3>1. v \in UNION facts
      BY <2>4
    <3>2. ~Tightened!Within(v, r.op, r.value)
      BY <2>2, <2>5 DEF Tightened!Within
    <3> QED BY <1>6, <2>2, <3>1, <3>2
  <2>6. p.shopType = {} => typed = "unknown"
    BY <2>4 DEF Tightened!TypedRule
  <2> HIDE DEF typed, facts, r
  <2> QED BY <1>1, <1>5, <2>2, <2>3, <2>5, <2>6 DEF Tightened!Met
<1>10. CASE f = "C9"
  <2>1. d.knownShop /\ (id = "C9" \/ (r.field = "known_shop" /\ r.op = "="))
    BY <1>4, <1>10 DEF Tightened!Checked, Tightened!FlagIds, Tighter
  <2>2. r.field = "known_shop" /\ r.op = "=" /\ ~r.asks /\ id = "C9"
    BY <1>3, <2>1 DEF Tightened!Keeps
  <2>3. r.value = {"true"} /\ ~(r.days > 0)
    BY <1>3, <2>2 DEF Spent!IsRule
  <2>4. facts = {{Tightened!IsKnown(p, l)}}
    BY <2>2 DEF Tightened!FactsFor
  <2>5. \A v : Tightened!Within(v, r.op, r.value) <=> v = "true"
    BY <2>2, <2>3 DEF Tightened!Within
  <2>6. typed = Tightened!Met(Tightened!IsKnown(p, l) = "true")
    BY <2>2, <2>4, <2>5 DEF Tightened!TypedRule, Tightened!Met, Tightened!Broken
  <2>7. Tightened!Result(id, p, e, l) = Tightened!KnownShop("C9", typed, p, l)
    BY <1>2, <2>2, <2>3 DEF Tightened!RuleResult
  <2>8. Tightened!FlagResult(f, p, d, l)
          = Tightened!KnownShop("C9", Tightened!Met(Tightened!IsKnown(p, l) = "true"), p, l)
    BY <1>10 DEF Tightened!FlagResult, Tightened!Flag, Tightened!CheckKnownShop
  <2> HIDE DEF typed, facts, r
  <2> QED BY <1>1, <2>6, <2>7, <2>8
<1>11. CASE f \in {"C5", "C10"}
  <2>1. f \in Tightened!Checked(e) /\ id \notin {"C5", "C10"}
    BY <1>3, <1>11 DEF Tightened!Checked, Tighter, Tightened!Keeps
  <2> QED BY <1>11, <2>1
<1> QED
  BY <1>7, <1>8, <1>9, <1>10, <1>11 DEF Tightened!Checked, Tightened!FlagIds

(* What was said of a purchase other than "it passes" is still said. *)
LEMMA NothingIsUnsaid ==
  ASSUME NEW id, NEW d, NEW e, Tighter(id, d, e), NEW p, NEW l, NEW v \in SaidOf(p, d, l), v # "pass"
  PROVE  v \in SaidOf(p, e, l)
<1>1. PICK j \in Tightened!Ids(d) : v = Tightened!Result(j, p, d, l)
  BY DEF SaidOf
<1>2. CASE j \in DOMAIN d.rules
  BY <1>1, <1>2, RulesSayTheSame DEF SaidOf
<1>3. CASE j \notin DOMAIN d.rules /\ j \in Tightened!Checked(e) /\ j # id
  <2>1. j \in Tightened!Checked(d)
    BY <1>1, <1>3 DEF Tightened!Ids
  <2> QED BY <1>1, <1>3, <2>1, FlagsSayTheSame DEF SaidOf
<1>4. CASE j \notin DOMAIN d.rules /\ (j \notin Tightened!Checked(e) \/ j = id)
  <2>1. j \in Tightened!Checked(d)
    BY <1>1, <1>4 DEF Tightened!Ids
  <2>2. v = Tightened!Result(id, p, e, l)
    BY <1>1, <1>4, <2>1, RuleTakesOver
  <2>3. id \in Tightened!Ids(e)
    BY DEF Tightened!Ids, Tighter
  <2> QED BY <2>2, <2>3 DEF SaidOf
<1> QED
  BY <1>2, <1>3, <1>4

LEMMA TightenedStays ==
  ASSUME NEW id, NEW d, NEW e, Tighter(id, d, e), NEW p, NEW l
  PROVE  ~(Tightened!Severity[Tightened!Outcome(p, e, l)] < Tightened!Severity[Tightened!Outcome(p, d, l)])
<1>1. \A v \in SaidOf(p, d, l) : v # "pass" => v \in SaidOf(p, e, l)
  BY NothingIsUnsaid
<1>2. d.setting = e.setting
  BY DEF Tighter
<1> DEFINE was == Tightened!Outcome(p, d, l)  then == Tightened!Outcome(p, e, l)
<1>3. was = IF "fail" \in SaidOf(p, d, l) \/ ("unknown" \in SaidOf(p, d, l) /\ d.setting = "decline") THEN "decline"
           ELSE IF "reserved" \in SaidOf(p, d, l) \/ ("unknown" \in SaidOf(p, d, l) /\ d.setting = "ask")
           THEN "step_up" ELSE "approve"
  BY OutcomeIs
<1>4. then = IF "fail" \in SaidOf(p, e, l) \/ ("unknown" \in SaidOf(p, e, l) /\ e.setting = "decline") THEN "decline"
           ELSE IF "reserved" \in SaidOf(p, e, l) \/ ("unknown" \in SaidOf(p, e, l) /\ e.setting = "ask")
           THEN "step_up" ELSE "approve"
  BY OutcomeIs
<1> HIDE DEF was, then
<1>5. /\ was \in {"approve", "step_up", "decline"} /\ then \in {"approve", "step_up", "decline"}
      /\ was = "decline" => then = "decline"
      /\ was = "step_up" => then # "approve"
  BY <1>1, <1>2, <1>3, <1>4
<1>6. ~(Tightened!Severity[then] < Tightened!Severity[was])
  BY <1>5 DEF Tightened!Severity
<1> QED BY <1>6 DEF was, then

(* T5, of a step. *)
LEMMA TighteningKeeps ==
  ASSUME RulesInv, [WholeNext]_whole, NEW id \in DOMAIN MoreRules, Tightened!Tighten(id),
         \/ MoreRules[id].days = 0 \/ Tightened!PeriodRules(rulesPol) = {}
         \/ MoreRules[id].days >= Tightened!Window(rulesPol)
  PROVE  ~Tightened!Loosened
<1>1. part' = part
  BY DEF WholeNext, whole
<1>2. part = "tighten"
  <2>1. DOMAIN rulesPol'.rules # DOMAIN rulesPol.rules
    <3>1. rulesPol' = [rulesPol EXCEPT !.rules = [j \in DOMAIN rulesPol.rules \cup {id} |->
                           IF j = id THEN MoreRules[id] ELSE rulesPol.rules[j]]]
          /\ id \notin DOMAIN rulesPol.rules
      BY DEF Tightened!Tighten
    <3>2. rulesPol'.rules = [j \in DOMAIN rulesPol.rules \cup {id} |->
                           IF j = id THEN MoreRules[id] ELSE rulesPol.rules[j]]
      BY <3>1 DEF RulesInv, Spent!IsPolicy
    <3> QED BY <3>1, <3>2
  <2>2. RulesStep
    BY RulesTakeSteps
  <2> QED BY <2>1, <2>2 DEF RulesStep, Speaks, Text!ShopSays, Agrees, Spent!AnotherOrder, Spent!Answered,
                            Proposed, rulesVars
<1>3. Tighter(id, rulesPol, rulesPol')
  <2>1. /\ RulesInv' /\ RulesInv
        /\ DOMAIN rulesPol'.rules = DOMAIN rulesPol.rules \cup {id}
        /\ rulesPol'.rules[id] = MoreRules[id]
        /\ \A j \in DOMAIN rulesPol.rules : rulesPol'.rules[j] = rulesPol.rules[j]
        /\ rulesPol'.requested = rulesPol.requested /\ rulesPol'.allowed = rulesPol.allowed
        /\ rulesPol'.blocked = rulesPol.blocked /\ rulesPol'.shopType = rulesPol.shopType
        /\ rulesPol'.knownShop = rulesPol.knownShop
        /\ rulesPol'.nothingExtra = rulesPol.nothingExtra /\ rulesPol'.setting = rulesPol.setting
    BY <1>1, <1>2, RulesAreGiven, TightenKeeps
  <2>2. id \notin DOMAIN rulesPol.rules
    BY DEF Tightened!Tighten
  <2>3. \A j \in DOMAIN rulesPol'.rules : Spent!IsRule(rulesPol'.rules[j])
    BY <2>1 DEF RulesInv, Spent!IsPolicy
  <2>4. Tightened!Keeps(id, rulesPol)
    BY <1>2, <2>1 DEF RulesInv
  <2> QED BY <2>1, <2>2, <2>3, <2>4 DEF Tighter
<1>4. UNCHANGED <<rulesP, led>>
  BY DEF Tightened!Tighten
<1>5. ~(Tightened!Severity[Tightened!Outcome(rulesP, rulesPol', led)]
        < Tightened!Severity[Tightened!Outcome(rulesP, rulesPol, led)])
  BY <1>3, TightenedStays
<1>6. /\ Tightened!Severity[Tightened!Outcome(rulesP, rulesPol, led)']
         = Tightened!Severity[Tightened!Outcome(rulesP, rulesPol', led)]
  BY <1>4
<1> QED
  BY <1>5, <1>6 DEF Tightened!Loosened

-----------------------------------------------------------------------------
(* E3: the agent proposes again what it was told would be approved. *)

Retries(q) ==
  /\ RulesInv /\ Spent!IsPurchase(q)
  /\ Bounds!Items(q) \subseteq Bounds!Items(rulesP) \cup rulesPol.requested
  /\ \A b \in Bounds!Told : Bounds!Meets(b, q)

(* It was told the bound of each rule that had failed, and meets it. *)
LEMMA BoundIsMet ==
  ASSUME NEW q, Retries(q), Bounds!Outcome(rulesP, rulesPol, led) = "decline",
         NEW id \in Bounds!Failing(rulesP, rulesPol, led),
         NEW b \in Bounds!RuleBound(id, rulesP, rulesPol, led)
  PROVE  /\ b.kind # "remove" => Bounds!Meets(b, q)
         /\ b.kind = "remove" => Bounds!Items(q) \cap b.items = {}
<1> DEFINE bounds == UNION {Bounds!RuleBound(j, rulesP, rulesPol, led) : j \in Bounds!Failing(rulesP, rulesPol, led)}
           removals == {c \in bounds : c.kind = "remove"}
           all == UNION {c.items : c \in removals}
<1>1. Bounds!Told = (bounds \ removals) \cup Bounds!Remove(all)
  BY DEF Bounds!Told, Bounds!WouldApproveIf, Bounds!Merged
<1>2. b \in bounds
  OBVIOUS
<1> HIDE DEF bounds
<1>3. CASE b.kind # "remove"
  <2>1. b \in Bounds!Told
    BY <1>1, <1>2, <1>3
  <2> QED BY <1>3, <2>1 DEF Retries
<1>4. CASE b.kind = "remove"
  <2>1. b.items \subseteq all
    BY <1>2, <1>4
  <2> HIDE DEF all
  <2>2. CASE all = {}
    BY <1>4, <2>1, <2>2
  <2>3. CASE all # {}
    <3> DEFINE one == [kind |-> "remove", items |-> all]
    <3>1. one \in Bounds!Told
      BY <1>1, <2>3 DEF Bounds!Remove
    <3>2. Bounds!Meets(one, q)
      BY <3>1 DEF Retries
    <3>3. Bounds!Items(q) \cap all = {}
      BY <3>2 DEF Bounds!Meets
    <3> QED BY <1>4, <2>1, <3>3
  <2> QED BY <2>2, <2>3
<1> QED
  BY <1>3, <1>4

LEMMA MaxIs ==
  ASSUME NEW n \in Int
  PROVE  /\ Bounds!Max({n}) = n
         /\ Bounds!Max({n, 0}) = IF n > 0 THEN n ELSE 0
<1>1. Bounds!Max({n}) = n
  BY DEF Bounds!Max
<1>2. \E x \in {n, 0} : \A y \in {n, 0} : x >= y
  OBVIOUS
<1>3. Bounds!Max({n, 0}) \in {n, 0} /\ \A y \in {n, 0} : Bounds!Max({n, 0}) >= y
  BY <1>2 DEF Bounds!Max
<1> QED
  BY <1>1, <1>3

LEMMA FieldIsMet ==
  ASSUME NEW q, NEW field, field # "count", NEW op, NEW value,
         Bounds!Meets([kind |-> "field", field |-> field, op |-> op, value |-> value], q)
  PROVE  \A f \in Bounds!FactsFor(field, q, rulesPol, led) :
            f # {} /\ \A v \in f : Bounds!Within(v, op, value)
BY DEF Bounds!Meets

LEMMA ShopIsKnown ==
  ASSUME NEW q, Bounds!Meets([kind |-> "requires", what |-> "known_shop"], q)
  PROVE  Bounds!IsKnown(q, led) = "true"
BY DEF Bounds!Meets, Bounds!IsKnown

(* The room that is left in a period. *)
LEMMA RoomSuffices ==
  ASSUME NEW q, Retries(q), NEW r, Spent!IsRule(r), r.days > 0, r.field = "total",
         Bounds!Within(q.amount, r.op, {Bounds!Room(r, rulesPol, led)})
  PROVE  Bounds!Within(Bounds!Total(r, q, Bounds!InWindow(rulesPol, led)), r.op, r.value)
<1> DEFINE spent == Bounds!Sum(Bounds!InWindow(rulesPol, led))
<1>1. PICK limit \in Nat : r.value = {limit}
  BY DEF Spent!IsRule
<1>2. r.op \in {"<", "<="}
  BY DEF Spent!IsRule
<1>3. spent \in Nat
  <2>1. IsFiniteSet(led.past) /\ \A o \in led.past : o.amount \in Nat
    BY DEF Retries, RulesInv, Spent!IsLedger, Spent!IsOrder, Spent!IsFiniteSet, IsFiniteSet
  <2>2. Bounds!InWindow(rulesPol, led) \in SUBSET led.past
    BY DEF Bounds!InWindow
  <2> QED BY <2>1, <2>2, SumOfPart, SumIsIt
<1>4. q.amount \in Nat \ {0}
  BY DEF Retries, Spent!IsPurchase
<1>5. Bounds!Room(r, rulesPol, led) = IF limit - spent > 0 THEN limit - spent ELSE 0
  <2>1. Bounds!Max(r.value) = limit
    <3>1. limit \in Int
      OBVIOUS
    <3>2. Bounds!Max({limit}) = limit
      BY <3>1, MaxIs
    <3> QED BY <1>1, <3>2
  <2>2. limit - spent \in Int
    BY <1>3
  <2>3. Bounds!Room(r, rulesPol, led) = Bounds!Max({limit - spent, 0})
    BY <2>1 DEF Bounds!Room
  <2> HIDE DEF spent
  <2> QED BY <2>2, <2>3, MaxIs
<1>6. Bounds!Total(r, q, Bounds!InWindow(rulesPol, led)) = spent + q.amount
  BY DEF Bounds!Total
<1> HIDE DEF spent
<1>7. CASE r.op = "<"
  <2>1. \A v, n : Bounds!Within(v, r.op, {n}) <=> v < n
    BY <1>7 DEF Bounds!Within
  <2>2. q.amount < Bounds!Room(r, rulesPol, led)
    BY <2>1
  <2>3. spent + q.amount < limit
    BY <1>3, <1>4, <1>5, <2>2
  <2> QED BY <1>1, <1>6, <2>1, <2>3
<1>8. CASE r.op = "<="
  <2>1. \A v, n : Bounds!Within(v, r.op, {n}) <=> v <= n
    BY <1>8 DEF Bounds!Within
  <2>2. q.amount <= Bounds!Room(r, rulesPol, led)
    BY <2>1
  <2>3. spent + q.amount <= limit
    BY <1>3, <1>4, <1>5, <2>2
  <2> QED BY <1>1, <1>6, <2>1, <2>3
<1> QED
  BY <1>2, <1>7, <1>8

(* An item that is not among those to remove is one the policy lets in. *)
LEMMA ItemsLeft ==
  ASSUME NEW q, Retries(q), NEW i \in Bounds!Items(q)
  PROVE  i \in Bounds!Items(rulesP) \/ (i \in rulesPol.requested /\ Spent!LetsIn(rulesPol, i))
BY DEF Retries, RulesInv, Spent!IsPolicy

LEMMA RuleOutOfTheWay ==
  ASSUME NEW q, Retries(q), Bounds!Outcome(rulesP, rulesPol, led) = "decline",
         NEW id \in Bounds!Actionable, id \in DOMAIN rulesPol.rules
  PROVE  \/ Bounds!OnLastPrice(rulesPol.rules[id]) /\ q.shop # rulesP.shop
         \/ Bounds!Result(id, q, rulesPol, led) \notin {"fail", "reserved"}
<1> DEFINE r == rulesPol.rules[id]
           facts == Bounds!FactsFor(r.field, q, rulesPol, led)
           typed == Bounds!TypedRule(r, q, rulesPol, led)
           bound == Bounds!TypedBound(r, rulesP, rulesPol, led)
<1>1. /\ Spent!IsRule(r)
      /\ Bounds!Result(id, q, rulesPol, led) = Bounds!RuleResult(id, q, rulesPol, led)
      /\ Bounds!RuleResult(id, rulesP, rulesPol, led) = "fail"
      /\ Bounds!Result(id, rulesP, rulesPol, led) = "fail" /\ r.field # "count"
  BY DEF Retries, RulesInv, Spent!IsPolicy, Bounds!Result, Bounds!Actionable
<1>2. id \in Bounds!Failing(rulesP, rulesPol, led)
  BY <1>1 DEF Bounds!Failing, Bounds!Actionable
<1>3. Bounds!RuleBound(id, rulesP, rulesPol, led) = bound
  BY <1>1 DEF Bounds!RuleBound, Bounds!NoneAllowed
<1>4. \A b \in bound : /\ b.kind # "remove" => Bounds!Meets(b, q)
                       /\ b.kind = "remove" => Bounds!Items(q) \cap b.items = {}
  BY <1>2, <1>3, BoundIsMet
<1>5. ASSUME NEW field, NEW op, NEW value, bound = Bounds!FieldBound(field, op, value), field # "count"
      PROVE  \A f \in Bounds!FactsFor(field, q, rulesPol, led) :
                f # {} /\ \A v \in f : Bounds!Within(v, op, value)
  <2> DEFINE b == [kind |-> "field", field |-> field, op |-> op, value |-> value]
  <2>1. b \in bound /\ b.kind = "field"
    BY <1>5 DEF Bounds!FieldBound
  <2>2. Bounds!Meets(b, q)
    BY <1>4, <2>1
  <2> QED BY <1>5, <2>2, FieldIsMet
<1>6. ASSUME \A f \in facts : f # {} /\ \A v \in f : Bounds!Within(v, r.op, r.value)
      PROVE  typed \in {"pass", "unknown"}
  BY <1>6 DEF Bounds!TypedRule
<1>7. CASE r.days > 0
  <2>1. r.field = "total"
    BY <1>1, <1>7 DEF Spent!IsRule
  <2>2. bound = Bounds!FieldBound("total", r.op, {Bounds!Room(r, rulesPol, led)})
    BY <1>7, <2>1 DEF Bounds!TypedBound
  <2>3. {q.amount} \in Bounds!FactsFor("total", q, rulesPol, led)
    BY DEF Bounds!FactsFor
  <2>4. Bounds!Within(q.amount, r.op, {Bounds!Room(r, rulesPol, led)})
    <3> HIDE DEF bound
    <3> QED BY <1>5, <2>2, <2>3
  <2>5. Bounds!Within(Bounds!Total(r, q, Bounds!InWindow(rulesPol, led)), r.op, r.value)
    <3> HIDE DEF r
    <3> QED BY <1>1, <1>7, <2>1, <2>4, RoomSuffices
  <2>6. Bounds!PeriodRule(r, q, rulesPol, led) \in {"pass", "unknown"}
    BY <2>5 DEF Bounds!PeriodRule
  <2> QED BY <1>1, <1>7, <2>6 DEF Bounds!RuleResult
<1>8. CASE ~(r.days > 0) /\ r.field = "known_shop"
  <2> DEFINE b == [kind |-> "requires", what |-> "known_shop"]
  <2>1. b \in bound /\ b.kind = "requires"
    BY <1>8 DEF Bounds!TypedBound, Bounds!Requires
  <2>2. Bounds!Meets(b, q)
    BY <1>4, <2>1
  <2>3. Bounds!IsKnown(q, led) = "true"
    BY <2>2, ShopIsKnown
  <2>4. typed = "pass"
    <3>1. r.op = "=" /\ r.value = {"true"} /\ facts = {{"true"}}
      BY <1>1, <1>8, <2>3 DEF Spent!IsRule, Bounds!FactsFor
    <3>2. Bounds!Within("true", r.op, r.value)
      BY <3>1 DEF Bounds!Within
    <3> QED BY <3>1, <3>2 DEF Bounds!TypedRule
  <2> QED BY <1>1, <1>8, <2>4 DEF Bounds!RuleResult, Bounds!KnownShop
<1>9. CASE ~(r.days > 0) /\ r.field = "last_price"
  <2>1. bound = Bounds!FieldBound("total", r.op, led.lastPrice[rulesP.shop])
    BY <1>9 DEF Bounds!TypedBound, Bounds!OnLastPrice
  <2>2. {q.amount} \in Bounds!FactsFor("total", q, rulesPol, led)
    BY DEF Bounds!FactsFor
  <2>3. Bounds!Within(q.amount, r.op, led.lastPrice[rulesP.shop])
    <3> HIDE DEF bound
    <3> QED BY <1>5, <2>1, <2>2
  <2>4. q.shop = rulesP.shop => Bounds!LastPriceRule(r, q, led) \in {"pass", "unknown"}
    BY <2>3 DEF Bounds!LastPriceRule
  <2>5. Bounds!RuleResult(id, q, rulesPol, led) = Bounds!LastPriceRule(r, q, led)
    BY <1>9 DEF Bounds!RuleResult, Bounds!OnLastPrice
  <2> QED BY <1>1, <1>9, <2>4, <2>5 DEF Bounds!OnLastPrice
<1>10. CASE ~(r.days > 0) /\ r.field = "item_type"
  <2> DEFINE gone == Bounds!OfType(rulesP, r.value, r.op = "not_in")
  <2>1. bound = Bounds!Remove(gone)
    BY <1>10 DEF Bounds!TypedBound
  <2>2. Bounds!Items(q) \cap gone = {}
    <3>1. CASE gone = {}
      BY <3>1
    <3>2. CASE gone # {}
      <4> DEFINE b == [kind |-> "remove", items |-> gone]
      <4>1. b \in bound /\ b.kind = "remove" /\ b.items = gone
        BY <2>1, <3>2 DEF Bounds!Remove
      <4> HIDE DEF b, bound, gone
      <4> QED BY <1>4, <4>1
    <3> QED BY <3>1, <3>2
  <2>3. ASSUME NEW i \in Bounds!Items(q)
        PROVE  Bounds!Within(Catalogue[i], r.op, r.value)
    <3>1. r.op \in {"in", "not_in"}
      BY <1>1, <1>10 DEF Spent!IsRule
    <3>2. CASE i \in Bounds!Items(rulesP)
      <4>1. i \notin Bounds!OfType(rulesP, r.value, r.op = "not_in")
        BY <2>2, <2>3
      <4>2. CASE r.op = "in"
        <5>1. Catalogue[i] \in r.value
          BY <3>2, <4>1, <4>2 DEF Bounds!OfType
        <5> QED BY <4>2, <5>1 DEF Bounds!Within
      <4>3. CASE r.op = "not_in"
        <5>1. Catalogue[i] \notin r.value
          BY <3>2, <4>1, <4>3 DEF Bounds!OfType
        <5> QED BY <4>3, <5>1 DEF Bounds!Within
      <4> QED BY <3>1, <4>2, <4>3
    <3>3. CASE Spent!LetsIn(rulesPol, i)
      <4>1. (Catalogue[i] \in r.value) = (r.op = "in")
        BY <1>10, <3>3 DEF Spent!LetsIn, Spent!Admits
      <4> QED BY <3>1, <4>1 DEF Bounds!Within
    <3> QED BY <2>3, <3>2, <3>3, ItemsLeft
  <2>4. facts = {{Catalogue[i]} : i \in Bounds!Items(q)}
    BY <1>10 DEF Bounds!FactsFor
  <2>5. \A f \in facts : f # {} /\ \A v \in f : Bounds!Within(v, r.op, r.value)
    BY <2>3, <2>4
  <2>6. typed \in {"pass", "unknown"}
    BY <1>6, <2>5
  <2>7. Bounds!RuleResult(id, q, rulesPol, led) = typed
    BY <1>10 DEF Bounds!RuleResult, Bounds!OnLastPrice, Bounds!Unchecked
  <2> QED BY <1>1, <2>6, <2>7
<1>11. CASE ~(r.days > 0) /\ r.field \notin {"known_shop", "last_price", "item_type"}
  <2>1. bound = Bounds!FieldBound(r.field, r.op, r.value)
    BY <1>1, <1>11 DEF Bounds!TypedBound, Bounds!OnLastPrice
  <2>2. typed \in {"pass", "unknown"}
    BY <1>1, <1>5, <1>6, <2>1
  <2>3. Bounds!RuleResult(id, q, rulesPol, led) \in {"pass", typed}
    BY <1>11 DEF Bounds!RuleResult, Bounds!OnLastPrice
  <2> QED BY <1>1, <2>2, <2>3
<1> QED
  BY <1>7, <1>8, <1>9, <1>10, <1>11

LEMMA FlagOutOfTheWay ==
  ASSUME NEW q, Retries(q), Bounds!Outcome(rulesP, rulesPol, led) = "decline",
         NEW id \in Bounds!Actionable, id \notin DOMAIN rulesPol.rules
  PROVE  Bounds!Result(id, q, rulesPol, led) \notin {"fail", "reserved"}
<1> DEFINE bound == Bounds!FlagBound(id, rulesP, rulesPol)
<1>1. /\ Bounds!Result(id, q, rulesPol, led) = Bounds!FlagResult(id, q, rulesPol, led)
      /\ Bounds!Result(id, rulesP, rulesPol, led) = "fail" /\ id \in Bounds!Checked(rulesPol)
  BY DEF Bounds!Result, Bounds!Actionable, Bounds!Ids
<1>2. id \in Bounds!Failing(rulesP, rulesPol, led)
  BY <1>1 DEF Bounds!Failing, Bounds!Actionable
<1>3. Bounds!RuleBound(id, rulesP, rulesPol, led) = bound
  BY <1>1 DEF Bounds!RuleBound
<1>4. \A b \in bound : /\ b.kind # "remove" => Bounds!Meets(b, q)
                       /\ b.kind = "remove" => Bounds!Items(q) \cap b.items = {}
  BY <1>2, <1>3, BoundIsMet
<1>5. ASSUME NEW gone, bound = Bounds!Remove(gone)
      PROVE  Bounds!Items(q) \cap gone = {}
  <2>1. CASE gone = {}
    BY <2>1
  <2>2. CASE gone # {}
    <3> DEFINE b == [kind |-> "remove", items |-> gone]
    <3>1. b \in bound /\ b.kind = "remove" /\ b.items = gone
      BY <1>5, <2>2 DEF Bounds!Remove
    <3> HIDE DEF b, bound
    <3> QED BY <1>4, <3>1
  <2> QED BY <2>1, <2>2
<1>6. id # "C9" => Bounds!Result(id, q, rulesPol, led) = Bounds!Flag(id, q, rulesPol, led)
  BY <1>1 DEF Bounds!FlagResult
<1>7. CASE id = "C3"
  <2>1. rulesPol.allowed # {}
    BY <1>1, <1>7 DEF Bounds!Checked
  <2>2. bound = Bounds!Remove(Bounds!OfType(rulesP, rulesPol.allowed, FALSE))
    BY <1>7 DEF Bounds!FlagBound
  <2>3. Bounds!Items(q) \cap Bounds!OfType(rulesP, rulesPol.allowed, FALSE) = {}
    BY <1>5, <2>2
  <2>4. Bounds!OfType(q, rulesPol.allowed, FALSE) = {}
    BY <2>1, <2>3, ItemsLeft DEF Bounds!OfType, Spent!LetsIn
  <2>5. Bounds!Flag(id, q, rulesPol, led) = "pass"
    BY <1>7, <2>4 DEF Bounds!Flag, Bounds!CheckAllowedTypes, Bounds!Met
  <2> QED BY <1>6, <1>7, <2>5
<1>8. CASE id = "C4"
  <2>2. bound = Bounds!Remove(Bounds!OfType(rulesP, rulesPol.blocked, TRUE))
    BY <1>8 DEF Bounds!FlagBound
  <2>3. Bounds!Items(q) \cap Bounds!OfType(rulesP, rulesPol.blocked, TRUE) = {}
    BY <1>5, <2>2
  <2>4. Bounds!OfType(q, rulesPol.blocked, TRUE) = {}
    BY <2>3, ItemsLeft DEF Bounds!OfType, Spent!LetsIn
  <2>5. Bounds!Flag(id, q, rulesPol, led) = "pass"
    BY <1>8, <2>4 DEF Bounds!Flag, Bounds!CheckBlockedTypes, Bounds!Met
  <2> QED BY <1>6, <1>8, <2>5
<1>9. CASE id = "C10"
  <2>2. bound = Bounds!Remove(Bounds!Excess(rulesP, rulesPol))
    BY <1>9 DEF Bounds!FlagBound
  <2>3. Bounds!Items(q) \cap Bounds!Excess(rulesP, rulesPol) = {}
    BY <1>5, <2>2
  <2>4. Bounds!Excess(q, rulesPol) = {}
    BY <2>3, ItemsLeft DEF Bounds!Excess
  <2>5. Bounds!Flag(id, q, rulesPol, led) = "pass"
    BY <1>9, <2>4 DEF Bounds!Flag, Bounds!CheckNothingExtra, Bounds!Met
  <2> QED BY <1>6, <1>9, <2>5
<1>10. CASE id = "C5"
  <2> DEFINE b == [kind |-> "requires", what |-> "requested_item"]
  <2>1. b \in bound /\ b.kind = "requires" /\ b.what = "requested_item"
    BY <1>10 DEF Bounds!FlagBound, Bounds!Requires
  <2>2. Bounds!Meets(b, q)
    BY <1>4, <2>1
  <2>3. Bounds!Wanted(q, rulesPol) # {}
    <3> HIDE DEF b
    <3> QED BY <2>1, <2>2 DEF Bounds!Meets
  <2>4. Bounds!Flag(id, q, rulesPol, led) = "pass"
    BY <1>10, <2>3 DEF Bounds!Flag, Bounds!CheckRequestedItem, Bounds!Met
  <2> QED BY <1>6, <1>10, <2>4
<1>11. CASE id = "C8"
  <2> DEFINE b == [kind |-> "field", field |-> "shop_type", op |-> "in", value |-> rulesPol.shopType]
  <2>1. b \in bound /\ b.kind = "field"
    BY <1>11 DEF Bounds!FlagBound, Bounds!FieldBound
  <2>2. Bounds!Meets(b, q)
    BY <1>4, <2>1
  <2>3. \A f \in Bounds!FactsFor("shop_type", q, rulesPol, led) :
            f # {} /\ \A v \in f : Bounds!Within(v, "in", rulesPol.shopType)
    BY <2>2, FieldIsMet
  <2>4. q.shopType # {} /\ q.shopType \subseteq rulesPol.shopType
    BY <2>3 DEF Bounds!FactsFor, Bounds!Within
  <2>5. Bounds!Flag(id, q, rulesPol, led) = "pass"
    BY <1>11, <2>4 DEF Bounds!Flag, Bounds!CheckShopType, Bounds!Met
  <2> QED BY <1>6, <1>11, <2>5
<1>12. CASE id = "C9"
  <2> DEFINE b == [kind |-> "requires", what |-> "known_shop"]
  <2>1. b \in bound /\ b.kind = "requires"
    BY <1>12 DEF Bounds!FlagBound, Bounds!Requires
  <2>2. Bounds!Meets(b, q)
    BY <1>4, <2>1
  <2>3. Bounds!IsKnown(q, led) = "true"
    BY <2>2, ShopIsKnown
  <2>4. Bounds!FlagResult(id, q, rulesPol, led) = "pass"
    BY <1>12, <2>3 DEF Bounds!FlagResult, Bounds!Flag, Bounds!CheckKnownShop, Bounds!Met, Bounds!KnownShop
  <2> QED BY <1>1, <2>4
<1> QED
  BY <1>1, <1>7, <1>8, <1>9, <1>10, <1>11, <1>12 DEF Bounds!Checked, Bounds!FlagIds

LEMMA BoundsSuffice ==
  ASSUME RulesInv, RulesGiven, NEW q \in PurchasesTold, Bounds!ProposesAgain(q), NEW id \in Bounds!Actionable
  PROVE  \/ id \in DOMAIN rulesPol.rules /\ Bounds!OnLastPrice(rulesPol.rules[id]) /\ rulesP'.shop # rulesP.shop
         \/ Bounds!Result(id, rulesP, rulesPol, led)' \notin {"fail", "reserved"}
<1>1. Retries(q) /\ rulesP' = q
  BY DEF RulesGiven, Bounds!ProposesAgain, Retries
<1>2. Bounds!Outcome(rulesP, rulesPol, led) = "decline"
  BY DEF Bounds!ProposesAgain, Bounds!Told, Bounds!WouldApproveIf
<1>3. UNCHANGED <<rulesPol, led>>
  BY DEF Bounds!ProposesAgain
<1>4. \A j : Bounds!Result(j, rulesP, rulesPol, led)' = Bounds!Result(j, q, rulesPol, led)
  BY <1>1, <1>3
<1>5. id \in DOMAIN rulesPol.rules
      => \/ Bounds!OnLastPrice(rulesPol.rules[id]) /\ q.shop # rulesP.shop
         \/ Bounds!Result(id, q, rulesPol, led) \notin {"fail", "reserved"}
  BY <1>1, <1>2, RuleOutOfTheWay
<1>6. id \notin DOMAIN rulesPol.rules => Bounds!Result(id, q, rulesPol, led) \notin {"fail", "reserved"}
  BY <1>1, <1>2, FlagOutOfTheWay
<1> QED
  BY <1>1, <1>4, <1>5, <1>6

(* For every purchase, policy, ledger, sentence, order and added rule that *)
(* is one (RuleChecksAssumption): a limit that only waiting orders break    *)
(* asks, a yes goes no further than it was said, orders and sentences make  *)
(* nothing pass that did not, a tightened policy decides no purchase more   *)
(* leniently, and what a declined agent is told is enough (policy.py,       *)
(* facts.py, explain.py). *)
THEOREM PurchasesAreJudged == WholeSpec => RulesStand
<1> DEFINE Looser == \A id \in Spent!PeriodRules(rulesPol) :
                        Spent!Strictness[Spent!Result(id, rulesP, rulesPol, led)']
                        >= Spent!Strictness[Spent!Result(id, rulesP, rulesPol, led)]
           Cleared == \A id \in Text!Ids(rulesPol) :
                        Text!Result(id, rulesP, rulesPol, led) = "fail"
                          => Text!Result(id, rulesP, rulesPol, led)' # "pass"
           Enough == \A id \in Bounds!Actionable :
                        \/ id \in DOMAIN rulesPol.rules /\ Bounds!OnLastPrice(rulesPol.rules[id])
                           /\ rulesP'.shop # rulesP.shop
                        \/ Bounds!Result(id, rulesP, rulesPol, led)' \notin {"fail", "reserved"}
<1>1. WholeInit => RulesInv
  BY RulesInitially
<1>2. RulesInv /\ [WholeNext]_whole => RulesInv'
  BY RulesKept
<1>3. RulesInv => (part = "ledger" => Spent!WaitingAloneAsks /\ Spent!YesGoesNoFurther)
  BY WaitingAsks, YesReaches, RulesAreGiven
<1>4. RulesInv /\ [WholeNext]_whole
      => [(\E o \in MoreOrders : Spent!AnotherOrder(o)) => Looser]_(Spent!vars)
  BY OrdersTighten, RulesAreGiven
<1>5. RulesInv /\ [WholeNext]_whole
      => [(\E s \in Sentences : Text!ShopSays(s[1], s[2], s[3])) => Cleared]_(Text!vars)
  BY ClearsNothing, RulesAreGiven DEF Speaks
<1>6. RulesInv /\ [WholeNext]_whole
      => [(\E id \in DOMAIN MoreRules :
             /\ Tightened!Tighten(id)
             /\ MoreRules[id].days = 0 \/ Tightened!PeriodRules(rulesPol) = {}
                \/ MoreRules[id].days >= Tightened!Window(rulesPol))
          => ~Tightened!Loosened]_(Tightened!vars)
  BY TighteningKeeps
<1>7. RulesInv /\ [WholeNext]_whole
      => [(\E q \in PurchasesTold : Bounds!ProposesAgain(q)) => Enough]_(Bounds!vars)
  BY BoundsSuffice, RulesAreGiven
<1> QED
  BY <1>1, <1>2, <1>3, <1>4, <1>5, <1>6, <1>7, PTL
     DEF WholeSpec, RulesStand, Spent!OrdersNeverLoosen, Text!ShopTextNeverClears,
         Tightened!TightenKeepsDecisions, Bounds!BoundsAreEnough
=============================================================================
