----------------------------- MODULE MCRecovery -----------------------------
(***************************************************************************)
(* What is made good after a failure, a crash or a change, for TLC: rows   *)
(* of runs (RunRecords), passports and receipts (PassportBook).  `part'    *)
(* says which of them a behaviour is about; the other rests.  Each is as   *)
(* fair as its module says.                                                *)
(***************************************************************************)
EXTENDS Integers

VARIABLE part  \* the component that runs; the others rest

VARIABLES
  site, ledger, store, role, runs, feed, steps, at, writes, d3, reported,
  faults, stops, recordsCrashes
VARIABLES
  clock, policy, facts, versions, dec, receipt, noted, asking, task, todo,
  bookCrashes

recordsVars == <<site, ledger, store, role, runs, feed, steps, at, writes, d3,
                 reported, faults, stops, recordsCrashes>>
bookVars == <<clock, policy, facts, versions, dec, receipt, noted, asking,
              task, todo, bookCrashes>>

Records == INSTANCE RunRecords WITH
  Process <- {"p1"}, Run <- {"r1"}, Size <- 2, Request <- {"q1"},
  AnswersAnywhere <- FALSE, MaxFaults <- 1, MaxStops <- 0, MaxCrashes <- 0,
  crashes <- recordsCrashes
Book == INSTANCE PassportBook WITH
  Process <- {"p1"}, Purchase <- {"u1"}, Device <- {}, MaxChanges <- 1,
  MaxCrashes <- 1, crashes <- bookCrashes

\* What the components say of their parameters.
ASSUME Parameters ==
  /\ Records!RunAssumption
  /\ Book!BookAssumption

Parts == {"records", "book"}

WholeInit ==
  /\ part \in Parts
  /\ Records!Init
  /\ Book!Init

whole == <<part, recordsVars, bookVars>>

WholeNext ==
  \/ /\ part = "records" /\ Records!Next
     /\ UNCHANGED <<part, bookVars>>
  \/ /\ part = "book" /\ Book!Next
     /\ UNCHANGED <<part, recordsVars>>

WholeSpec == WholeInit /\ [][WholeNext]_whole

FairSpec ==
  /\ WholeSpec
  /\ \/ []<>(part = "records") /\ Records!Fairness
     \/ []<>(part = "book") /\ Book!Fairness

----------------------------------------------------------------------------

\* What is stored says in the end what is so: a completed run is closed for
\* good, never before nobody waits; passports and receipts catch up.
RowsCatchUp ==
  /\ part = "records" => []Records!DoneIsSettled /\ Records!RunsClose
  /\ part = "book" => Book!CatchesUp
=============================================================================
