------------------------------ MODULE Devices ------------------------------
(***************************************************************************)
(* passport/devices.py: the devices of one card.  The first device         *)
(* enrolled is the card's controller; a later one waits until the          *)
(* controller approves it.  Only the controller approves, removes and      *)
(* hands over control.  No operation reads another card's rows.            *)
(*                                                                         *)
(* An operation runs on a store thread: one transaction that reads the     *)
(* card's rows, decides on what it read, and writes the columns it changed *)
(* (READ COMMITTED: no lock is taken by the read).  So operations of two   *)
(* requests overlap, when Request holds more than one.                     *)
(***************************************************************************)
EXTENDS Integers, FiniteSets

CONSTANTS
  Id,         \* device ids, drawn at random by the server: numbers, for the tie-break
  Key,        \* device keys (their thumbprints)
  Request,    \* requests that may be in progress together
  MaxTime     \* bound on the clock, one tick per request

DevicesAssumption ==
  Id \subseteq Nat \ {0} /\ Key # {} /\ MaxTime \in Nat \ {0}

VARIABLES
  clock,      \* the server's time
  dev,        \* the Device rows of the card
  req         \* what each request does

vars == <<clock, dev, req>>

NoDevice == 0
Unset == 0
Live == {"pending", "enrolled"}
Managed == {"approve", "remove", "transfer"}

\* A row: its key, enrolled_at, enrolled_by_device_id and controller_since.
Row == [status : {"none", "pending", "enrolled", "removed"}, key : Key,
        at : 0..MaxTime, by : Id \cup {NoDevice}, since : 0..MaxTime]
NoRow == [status |-> "none", key |-> CHOOSE k \in Key : TRUE,
          at |-> Unset, by |-> NoDevice, since |-> Unset]

Enrolled(rows) == {d \in Id : rows[d].status = "enrolled"}

\* controller_of: the enrolled device marked last; with none marked (rows from
\* before controllers existed) the one enrolled first.
ControllerOf(rows) ==
  LET live == Enrolled(rows)
      marked == {d \in live : rows[d].since # Unset}
      Before(s, t, d, e) == s < t \/ (s = t /\ d < e)
  IN IF marked # {}
     THEN CHOOSE d \in marked :
            \A e \in marked \ {d} : Before(rows[e].since, rows[d].since, e, d)
     ELSE IF live # {}
     THEN CHOOSE d \in live : \A e \in live \ {d} : Before(rows[d].at, rows[e].at, d, e)
     ELSE NoDevice

TypeOK ==
  /\ clock \in 0..MaxTime
  /\ dev \in [Id -> Row]
  /\ \A r \in Request : req[r].pc \in {"idle", "read", "write"}

Idle == [pc |-> "idle"]

\* A card with no device, or with devices enrolled before controllers existed
\* (controller_since is NULL).
Init ==
  /\ clock = 1
  /\ \E old \in SUBSET Id, k \in [Id -> Key] :
       /\ Cardinality(old) < Cardinality(Id)
       /\ \A d, e \in old : d # e => k[d] # k[e]
       /\ dev = [d \in Id |-> IF d \in old
                              THEN [NoRow EXCEPT !.status = "enrolled", !.key = k[d], !.at = 1]
                              ELSE NoRow]
  /\ req = [r \in Request |-> Idle]

----------------------------------------------------------------------------
(* The operations' writes, given the rows they read.                       *)

\* enrol: the same live key returns its device; else a new row.
Known(rows, key) == \E d \in Id : rows[d].status \in Live /\ rows[d].key = key
NewRow(rows, key, now) ==
  IF Enrolled(rows) = {}
  THEN [status |-> "enrolled", key |-> key, at |-> now, by |-> NoDevice, since |-> now]
  ELSE [status |-> "pending", key |-> key, at |-> Unset, by |-> NoDevice, since |-> Unset]

EnrolWrites(x) ==
  IF Known(x.rows, x.key) THEN dev' = dev
  ELSE \E d \in Id : /\ dev[d].status = "none"
                     /\ dev' = [dev EXCEPT ![d] = NewRow(x.rows, x.key, x.now)]

\* _controller_signed: the signer is the controller among the rows read.
ControllerSigned(x) == ControllerOf(x.rows) = x.signer

\* approve: what the device's row becomes.
Approved(x, row) == [row EXCEPT !.status = "enrolled", !.at = x.now, !.by = x.signer]
Approvable(x) == x.rows[x.target].status = "pending"

ApproveWrites(x) ==
  IF ControllerSigned(x) /\ Approvable(x)
  THEN dev' = [dev EXCEPT ![x.target] = Approved(x, @)]
  ELSE dev' = dev

Removable_M(x) == x.rows[x.target].status \in Live
\* The controller cannot remove itself.
Removable(x) ==
  /\ x.rows[x.target].status \in Live
  /\ x.target # ControllerOf(x.rows)

RemoveWrites(x) ==
  IF ControllerSigned(x) /\ Removable(x)
  THEN dev' = [dev EXCEPT ![x.target].status = "removed"]
  ELSE dev' = dev

\* Control goes to another enrolled device; every other mark is cleared.
TransferWrites(x) ==
  IF /\ ControllerSigned(x)
     /\ x.rows[x.target].status = "enrolled"
     /\ x.target # ControllerOf(x.rows)
  THEN dev' = [d \in Id |-> IF d = x.target THEN [dev[d] EXCEPT !.since = x.now]
                            ELSE IF x.rows[d].since # Unset THEN [dev[d] EXCEPT !.since = Unset]
                            ELSE dev[d]]
  ELSE dev' = dev

\* The operator removes every device of the card.
ResetWrites(x) ==
  dev' = [d \in Id |-> IF x.rows[d].status \in Live
                       THEN [dev[d] EXCEPT !.status = "removed",
                               !.since = IF x.rows[d].since # Unset THEN Unset ELSE @]
                       ELSE dev[d]]

----------------------------------------------------------------------------
\* A request starts: the server reads its clock, and for a managed device
\* require_device has found the signer enrolled on the card.
Start(r, op, key, target, signer) ==
  /\ req[r] = Idle
  /\ clock < MaxTime
  /\ clock' = clock + 1
  /\ req' = [req EXCEPT ![r] = [pc |-> "read", op |-> op, key |-> key, target |-> target,
                                signer |-> signer, now |-> clock]]
  /\ UNCHANGED dev

Enrol(r) == \E k \in Key : Start(r, "enrol", k, NoDevice, NoDevice)
Manage(r) ==
  \E op \in Managed, t \in Id, s \in Enrolled(dev) :
    /\ dev[t].status # "none"
    /\ Start(r, op, NoRow.key, t, s)
Reset(r) == Start(r, "reset", NoRow.key, NoDevice, NoDevice)

ReadRows(r) ==
  /\ req[r].pc = "read"
  /\ req' = [req EXCEPT ![r] = [pc |-> "write", op |-> req[r].op, key |-> req[r].key,
                                target |-> req[r].target, signer |-> req[r].signer,
                                now |-> req[r].now, rows |-> dev]]
  /\ UNCHANGED <<clock, dev>>

Write(r) ==
  /\ req[r].pc = "write"
  /\ CASE req[r].op = "enrol" -> EnrolWrites(req[r])
       [] req[r].op = "approve" -> ApproveWrites(req[r])
       [] req[r].op = "remove" -> RemoveWrites(req[r])
       [] req[r].op = "transfer" -> TransferWrites(req[r])
       [] req[r].op = "reset" -> ResetWrites(req[r])
  /\ req' = [req EXCEPT ![r] = Idle]
  /\ UNCHANGED clock

Next == \E r \in Request : Enrol(r) \/ Manage(r) \/ Reset(r) \/ ReadRows(r) \/ Write(r)

Spec == Init /\ [][Next]_vars

----------------------------------------------------------------------------
\* The request that ends in a step, by what it asked for.
Ends(r, op) == req[r].pc = "write" /\ req[r].op = op /\ req'[r] = Idle

\* Control of a card moves only by its controller's hand: to the device the
\* controller named, to the first device of a card that has none, or to nobody
\* by the operator's reset.  No approval, removal or enrolment moves it.
ControlIsHandedOver ==
  [][ LET old == ControllerOf(dev)
          new == ControllerOf(dev')
      IN old # new =>
           \/ old = NoDevice /\ \E r \in Request : Ends(r, "enrol")
           \/ new = NoDevice /\ \E r \in Request : Ends(r, "reset")
           \/ \E r \in Request : Ends(r, "transfer") /\ req[r].signer = old /\ req[r].target = new
    ]_vars

\* devices.py: "at least one enrolled device always remains", but for the reset.
OneRemains ==
  [][ Enrolled(dev) # {} /\ Enrolled(dev') = {} => \E r \in Request : Ends(r, "reset") ]_vars

\* A device that is not the card's first waits for the controller's approval.
LaterWaits ==
  [][ \A d \in Id : dev[d].status = "none" /\ dev'[d].status = "enrolled" => Enrolled(dev) = {} ]_vars

\* The same key enrolled again is the same device, so that one key has at most
\* one live row on the card.
OneDevicePerKey ==
  \A d, e \in Id : d # e /\ dev[d].status \in Live /\ dev[e].status \in Live => dev[d].key # dev[e].key

\* What is removed stays removed: the same key enrols as a new device.
RemovedStays == [][ \A d \in Id : dev[d].status = "removed" => dev'[d].status = "removed" ]_vars

\* However requests overlap, who let a device in was let in before it (or was
\* the card's first), so that approvals lead back to a first device.
ApprovedByAnOlder ==
  \A d \in Id : dev[d].by # NoDevice =>
    LET b == dev[dev[d].by] IN b.status # "none" /\ b.at < dev[d].at
=============================================================================
