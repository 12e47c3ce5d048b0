------------------------------ MODULE Purchase ------------------------------
(***************************************************************************)
(* What OneGuard promises of each purchase, whatever the worker does to    *)
(* get there: the ledger decides it once, a step-up is closed once, and it *)
(* is closed as approved (and so counted) only when Viseca approved it.    *)
(* Viseca is the other actor: it may decline anything at any time, and     *)
(* what it has made final stays.                                           *)
(***************************************************************************)
EXTENDS Naturals

CONSTANT Auth

VARIABLES
    ledger,    \* ledger[a]: none, approve, decline, pending, or a closing
    viseca     \* viseca[a]: open (undecided), pending, approved, declined

pvars == <<ledger, viseca>>

PurchaseInit ==
    /\ ledger = [a \in Auth |-> "none"]
    /\ viseca = [a \in Auth |-> "open"]

(* A purchase is decided, once. *)
Decide(a) ==
    /\ ledger[a] = "none"
    /\ \E e \in {"approve", "decline", "pending"} :
          ledger' = [ledger EXCEPT ![a] = e]
    /\ UNCHANGED viseca

(* A pending step-up is closed, once. *)
Close(a) ==
    /\ ledger[a] = "pending"
    /\ \/ ledger' = [ledger EXCEPT ![a] = "declined"]
       \/ ledger' = [ledger EXCEPT ![a] = "expired"]
       \/ viseca[a] = "approved" /\ ledger' = [ledger EXCEPT ![a] = "approved"]
    /\ UNCHANGED viseca

(* Viseca takes a decision it was sent, or times out. *)
VisecaMoves(a) ==
    /\ \/ viseca[a] = "open"
          /\ \E v \in {"pending", "approved", "declined"} :
                viseca' = [viseca EXCEPT ![a] = v]
       \/ viseca[a] = "pending"
          /\ \E v \in {"approved", "declined"} : viseca' = [viseca EXCEPT ![a] = v]
    /\ UNCHANGED ledger

PurchaseNext == \E a \in Auth : Decide(a) \/ Close(a) \/ VisecaMoves(a)

PurchaseSpec == PurchaseInit /\ [][PurchaseNext]_pvars

=============================================================================
