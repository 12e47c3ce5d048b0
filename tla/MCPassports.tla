---------------------------- MODULE MCPassports ----------------------------
(***************************************************************************)
(* The signed documents and the devices, for TLC: the key ring of several  *)
(* processes (KeyRing, the component this module extends), the passports   *)
(* and receipts of one policy, the devices of one card.  `part' says which *)
(* of them a behaviour is about, and with which bounds; the others rest in *)
(* their initial states.                                                   *)
(***************************************************************************)
EXTENDS KeyRing

VARIABLE part  \* the component that runs; the others rest

VARIABLES
  bookClock, policy, facts, versions, dec, receipt, noted, asking, task, todo,
  crashes
VARIABLES
  cardClock, cardDev, cardReq
VARIABLES
  pairClock, pairDev, pairReq

bookVars == <<bookClock, policy, facts, versions, dec, receipt, noted, asking,
              task, todo, crashes>>
cardVars == <<cardClock, cardDev, cardReq>>
pairVars == <<pairClock, pairDev, pairReq>>

Receipts == INSTANCE PassportBook WITH
  Process <- {"p1", "p2"}, Purchase <- {"u1"}, Device <- {"d1"},
  MaxChanges <- 0, MaxCrashes <- 0, clock <- bookClock
Restart == INSTANCE PassportBook WITH
  Process <- {"p1"}, Purchase <- {"u1"}, Device <- {"d1"}, MaxChanges <- 1,
  MaxCrashes <- 1, clock <- bookClock
Versions == INSTANCE PassportBook WITH
  Process <- {"p1", "p2"}, Purchase <- {}, Device <- {"d1"}, MaxChanges <- 1,
  MaxCrashes <- 1, clock <- bookClock
Card == INSTANCE Devices WITH
  Id <- 1..3, Key <- {"k1", "k2", "k3"}, Request <- {"r1"},
  MaxTime <- 6, clock <- cardClock, dev <- cardDev, req <- cardReq
Together == INSTANCE Devices WITH
  Id <- 1..3, Key <- {"k1", "k2"}, Request <- {"r1", "r2"},
  MaxTime <- 4, clock <- pairClock, dev <- pairDev, req <- pairReq

\* What the components say of their parameters.
ASSUME Parameters ==
  /\ Receipts!BookAssumption
  /\ Restart!BookAssumption
  /\ Versions!BookAssumption
  /\ Card!DevicesAssumption
  /\ Together!DevicesAssumption

Parts == {"keys", "receipts", "restart", "versions", "devices", "together"}

WholeInit ==
  /\ part \in Parts
  /\ Init
  /\ CASE part = "restart" -> Restart!Init
       [] part = "versions" -> Versions!Init
       [] OTHER -> Receipts!Init
  /\ part \notin {"receipts", "restart", "versions"} => policy.first = "confirmed"
  /\ Card!Init /\ (part # "devices" => Card!Enrolled(cardDev) = {})
  /\ Together!Init /\ (part # "together" => Together!Enrolled(pairDev) = {})

whole == <<part, bookVars, cardVars, pairVars, vars>>

WholeNext ==
  \/ /\ part = "keys" /\ Next
     /\ UNCHANGED <<part, bookVars, cardVars, pairVars>>
  \/ /\ part = "receipts" /\ Receipts!Next
     /\ UNCHANGED <<part, cardVars, pairVars, vars>>
  \/ /\ part = "restart" /\ Restart!Next
     /\ UNCHANGED <<part, cardVars, pairVars, vars>>
  \/ /\ part = "versions" /\ Versions!Next
     /\ UNCHANGED <<part, cardVars, pairVars, vars>>
  \/ /\ part = "devices" /\ Card!Next
     /\ UNCHANGED <<part, bookVars, pairVars, vars>>
  \/ /\ part = "together" /\ Together!Next
     /\ UNCHANGED <<part, bookVars, cardVars, vars>>

WholeSpec == WholeInit /\ [][WholeNext]_whole

----------------------------------------------------------------------------

\* passport.md: a revoked passport never changes again, a version says
\* something new, a receipt names the version in force and the decision's
\* answer, and is not signed again with another one.
DocumentsStand ==
  /\ [](part \in {"versions", "restart"} =>
        Versions!RevokedIsFinal /\ Versions!NoEmptyVersion)
  /\ [](part = "restart" => Restart!TypeOK /\ Restart!VersionInForce /\ Restart!AnswerIsTheDecisions)
  /\ [](part = "receipts" => Receipts!TypeOK /\ Receipts!AnswerIsTheDecisions)
  /\ Receipts!AnswerStays

\* devices.py, one request at a time: a key is one device's, a card keeps a
\* controller and a device, a later device waits, a removed one stays away;
\* and, two requests together, a device is approved by an older one.
CardKeepsItsDevices ==
  /\ [](part = "devices" => Card!TypeOK /\ Card!OneDevicePerKey)
  /\ Card!ControlIsHandedOver /\ Card!OneRemains
  /\ Card!LaterWaits /\ Card!RemovedStays
  /\ [](part = "together" => Together!TypeOK /\ Together!ApprovedByAnOlder)
=============================================================================
