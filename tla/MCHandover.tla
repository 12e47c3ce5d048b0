----------------------------- MODULE MCHandover -----------------------------
(***************************************************************************)
(* What a new holder of the worker lease makes good, for TLC: step-ups it  *)
(* finds waiting (WorkerLease, the component this module extends) and the  *)
(* reference tables (ReferenceSync).  `part' says which of them a          *)
(* behaviour is about; the other rests.  Each is as fair as its module     *)
(* says.                                                                   *)
(***************************************************************************)
EXTENDS WorkerLease

VARIABLE part  \* the component that runs; the others rest

VARIABLES
  served, store, syncRole, seen, sha, index, known, unresolved, asking, boot,
  sync, published, syncFaults, handovers

syncVars == <<served, store, syncRole, seen, sha, index, known, unresolved,
              asking, boot, sync, published, syncFaults, handovers>>

Tables == INSTANCE ReferenceSync WITH
  Process <- {"p1", "p2"}, Id <- {"x1"}, Tagged <- FALSE, MaxPublish <- 1,
  MaxFaults <- 1, MaxHandovers <- 1, role <- syncRole, faults <- syncFaults

\* What the components say of their parameters.
ASSUME Parameters ==
  Tables!SyncAssumption

Parts == {"lease", "tables"}

WholeInit ==
  /\ part \in Parts
  /\ Init
  /\ Tables!Init

whole == <<part, syncVars, vars>>

WholeNext ==
  \/ /\ part = "lease" /\ Next
     /\ UNCHANGED <<part, syncVars>>
  \/ /\ part = "tables" /\ Tables!Next
     /\ UNCHANGED <<part, vars>>

WholeSpec == WholeInit /\ [][WholeNext]_whole

WholeFair ==
  /\ WholeSpec
  /\ \/ []<>(part = "lease") /\ Fairness
     \/ []<>(part = "tables") /\ Tables!Fairness

----------------------------------------------------------------------------

\* What a holder of the lease leaves behind is made good: what waits when a
\* new one takes over is closed, one process is left to decide, and the tables
\* come to hold what is served.
HandedOver ==
  /\ part = "lease" => RecoveredCloses /\ SettlesOnOne
  /\ part = "tables" => Tables!TablesCatchUp
=============================================================================
