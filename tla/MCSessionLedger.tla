--------------------------- MODULE MCSessionLedger ---------------------------
(***************************************************************************)
(* A small instance of SessionLedger.  Money: amounts that fit the limit   *)
(* alone but not together, in and out of the window, on two cards.         *)
(* Memory: bursts, doubts and repeated orders in two live runs.            *)
(***************************************************************************)
EXTENDS SessionLedger, TLC

Fact(run, card, ts, amount, item, device, hurried, doubt, wanted) ==
    [run |-> run, card |-> card, ts |-> ts, amount |-> amount, item |-> item,
     device |-> device, hurried |-> hurried, doubt |-> doubt, wanted |-> wanted]

MoneyFacts ==
    {Fact(1, "card", ts, amount, IF ts % 2 = 0 THEN "pen" ELSE "cup", "phone",
          hurried, FALSE, FALSE) :
        ts \in 1..4, amount \in {30, 60}, hurried \in BOOLEAN}
    \cup {Fact(1, "other", 2, 60, "pen", "phone", TRUE, FALSE, FALSE)}

MemoryFacts ==
    {Fact(run, "card", ts, 40, item, "phone", FALSE, item = "ring", item = "lens") :
        run \in {1, 2}, ts \in {1, 3}, item \in {"ring", "lens"}}
    \cup {Fact(run, "card", 2, 40, "lamp", "laptop", TRUE, FALSE, FALSE) : run \in {1, 2}}

AllFacts == MoneyFacts \cup MemoryFacts

Symmetry == Permutations(Purchase)

=============================================================================
