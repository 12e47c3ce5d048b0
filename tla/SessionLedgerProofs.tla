------------------------ MODULE SessionLedgerProofs ------------------------
(***************************************************************************)
(* The engine's memory, for any purchases, limits, windows and settings.   *)
(* What an automatic approval rested on when it was given (`seen', `yes')  *)
(* still holds of the rows afterwards, however they are answered.          *)
(***************************************************************************)
EXTENDS SessionLedger, FiniteSetTheorems, WellFoundedInduction, TLAPS

-----------------------------------------------------------------------------
(* What SumFunctionOnSet gives on finite sets of natural numbers: a number *)
(* that does not depend on the order, grows with its weights, and adds up. *)
(* Every induction here takes a least set (or number) for which the claim  *)
(* fails; WFMin, of the library, says that there is one.                   *)

(* Among subsets of a finite set there are minimal ones. *)
LEMMA Minimal ==
    ASSUME NEW S, IsFiniteSet(S), NEW T \in SUBSET SUBSET S, T # {}
    PROVE  \E s \in T : \A r \in SUBSET s : r # s => r \notin T
<1>1. IsWellFoundedOn(StrictSubsetOrdering(S), FiniteSubsetsOf(S))
  BY FS_StrictSubsetOrderingWellFounded
<1>2. T \subseteq FiniteSubsetsOf(S)
  BY FS_Subset DEF FiniteSubsetsOf
<1>3. \E x \in T : \A y \in T : ~ (<<y, x>> \in StrictSubsetOrdering(S))
  BY <1>1, <1>2, WFMin
<1> QED BY <1>3 DEF StrictSubsetOrdering

(* Every set of numbers has a least one. *)
LEMMA Least ==
    ASSUME NEW T \in SUBSET Nat, T # {}
    PROVE  \E n \in T : \A m \in T : n <= m
<1>1. PICK top \in T : TRUE
  OBVIOUS
<1> DEFINE All == 0..top
           Upto == {s \in SUBSET All : \E n \in T : s = 0..n}
<1>2. IsFiniteSet(All) /\ All \in Upto
  BY <1>1, FS_Interval
<1>3. PICK s \in Upto : \A r \in SUBSET s : r # s => r \notin Upto
  <2>1. Upto \in SUBSET SUBSET All /\ Upto # {}
    BY <1>2
  <2> HIDE DEF Upto, All
  <2> QED BY <1>2, <2>1, Minimal
<1>4. PICK n \in T : s = 0..n
  BY <1>3
<1>5. ASSUME NEW m \in T, m < n
      PROVE  FALSE
  <2>1. 0..m \in SUBSET s /\ n \in s /\ n \notin 0..m
    BY <1>4, <1>5
  <2>2. 0..m \in Upto
    BY <1>3, <2>1
  <2> QED BY <1>3, <2>1, <2>2
<1> QED BY <1>4, <1>5

(* The element a sum takes first, and what it makes of a set given its     *)
(* results for smaller ones. *)
First(s) == CHOOSE x \in s : TRUE
Adds(w, it, s) == IF s = {} THEN 0 ELSE w[First(s)] + it[s \ {First(s)}]
IsSum(w, S, it) == it = [s \in SUBSET S |-> Adds(w, it, s)]

LEMMA SumIsIt ==
    ASSUME NEW w, NEW S
    PROVE  SumFunctionOnSet(w, S) = (CHOOSE it : IsSum(w, S, it))[S]
BY DEF SumFunctionOnSet, FoldFunctionOnSet, MapThenFoldSet, IsSum, Adds, First

LEMMA FirstIn ==
    ASSUME NEW s, s # {}
    PROVE  First(s) \in s
BY DEF First

(* The recursion has a solution, of numbers. *)
LEMMA SumExists ==
    ASSUME NEW S, IsFiniteSet(S), NEW w \in [S -> Nat]
    PROVE  \E it \in [SUBSET S -> Nat] : IsSum(w, S, it)
<1> DEFINE Upto(n) == \E it \in [SUBSET S -> Nat] : \A s \in SUBSET S :
                          Cardinality(s) <= n => it[s] = Adds(w, it, s)
           T == {n \in Nat : ~Upto(n)}
<1>0. \A s \in SUBSET S : IsFiniteSet(s) /\ Cardinality(s) \in Nat
                          /\ Cardinality(s) <= Cardinality(S)
  BY FS_Subset, FS_CardinalityType
<1>1. Upto(0)
  <2> DEFINE it == [s \in SUBSET S |-> 0]
  <2>1. \A s \in SUBSET S : Cardinality(s) <= 0 => s = {}
    BY <1>0, FS_EmptySet
  <2>2. it \in [SUBSET S -> Nat]
    OBVIOUS
  <2>3. ASSUME NEW s \in SUBSET S, Cardinality(s) <= 0
        PROVE  it[s] = Adds(w, it, s)
    BY <2>1, <2>3 DEF Adds
  <2> HIDE DEF it
  <2> QED BY <2>2, <2>3
<1>2. ASSUME NEW n \in Nat, Upto(n)
      PROVE  Upto(n + 1)
  <2>1. PICK it \in [SUBSET S -> Nat] : \A s \in SUBSET S :
            Cardinality(s) <= n => it[s] = Adds(w, it, s)
    BY <1>2
  <2> DEFINE next == [s \in SUBSET S |-> IF Cardinality(s) <= n THEN it[s] ELSE Adds(w, it, s)]
  <2>2. ASSUME NEW s \in SUBSET S, s # {}
        PROVE  /\ First(s) \in S /\ s \ {First(s)} \in SUBSET S
               /\ Cardinality(s \ {First(s)}) = Cardinality(s) - 1
    BY <1>0, <2>2, FirstIn, FS_RemoveElement
  <2>3. next \in [SUBSET S -> Nat]
    <3>1. ASSUME NEW s \in SUBSET S
          PROVE  Adds(w, it, s) \in Nat
      BY <2>2 DEF Adds
    <3> QED BY <3>1
  <2>4. ASSUME NEW s \in SUBSET S, Cardinality(s) <= n + 1
        PROVE  next[s] = Adds(w, next, s)
    <3>1. next[s] = Adds(w, it, s)
      BY <2>1
    <3>2. s # {} => next[s \ {First(s)}] = it[s \ {First(s)}]
      BY <1>0, <2>2, <2>4
    <3> HIDE DEF next
    <3> QED BY <3>1, <3>2 DEF Adds
  <2> HIDE DEF next
  <2> QED BY <2>3, <2>4
<1>3. T = {}
  <2>1. SUFFICES ASSUME T # {} PROVE FALSE
    OBVIOUS
  <2> HIDE DEF Upto
  <2>2. PICK n \in T : \A m \in T : n <= m
    BY <2>1, Least
  <2>3. n # 0
    BY <1>1, <2>2
  <2>4. n - 1 \in Nat /\ n - 1 \notin T /\ n = (n - 1) + 1
    BY <2>2, <2>3
  <2> QED BY <1>2, <2>2, <2>4
<1>4. PICK it \in [SUBSET S -> Nat] : \A s \in SUBSET S :
          Cardinality(s) <= Cardinality(S) => it[s] = Adds(w, it, s)
  BY <1>3, FS_CardinalityType
<1>5. IsSum(w, S, it)
  <2>1. \A s \in SUBSET S : it[s] = Adds(w, it, s)
    BY <1>0, <1>4
  <2> QED BY <1>4, <2>1 DEF IsSum
<1> QED BY <1>5

(* Any two solutions agree. *)
LEMMA SumUnique ==
    ASSUME NEW S, IsFiniteSet(S), NEW w \in [S -> Nat],
           NEW a, NEW b, IsSum(w, S, a), NEW R, S \subseteq R, IsFiniteSet(R), NEW v \in [R -> Nat],
           \A x \in S : v[x] = w[x], IsSum(v, R, b)
    PROVE  \A s \in SUBSET S : a[s] = b[s]
<1> DEFINE T == {s \in SUBSET S : a[s] # b[s]}
<1>1. SUFFICES ASSUME T # {} PROVE FALSE
  OBVIOUS
<1>2. PICK s \in T : \A r \in SUBSET s : r # s => r \notin T
  <2>1. T \in SUBSET SUBSET S
    OBVIOUS
  <2> HIDE DEF T
  <2> QED BY <1>1, <2>1, Minimal
<1>3. a[s] = Adds(w, a, s) /\ b[s] = Adds(v, b, s)
  BY <1>2 DEF IsSum
<1>4. s # {} => First(s) \in s /\ s \ {First(s)} \in SUBSET S /\ a[s \ {First(s)}] = b[s \ {First(s)}]
  BY <1>2, FirstIn
<1> QED BY <1>2, <1>3, <1>4 DEF Adds

(* A sum over a part of what weights are given for. *)
LEMMA SumOfPart ==
    ASSUME NEW S, IsFiniteSet(S), NEW w \in [S -> Nat], NEW s \in SUBSET S
    PROVE  /\ SumFunctionOnSet(w, s) \in Nat
           /\ SumFunctionOnSet(w, s) =
                IF s = {} THEN 0
                ELSE w[First(s)] + SumFunctionOnSet(w, s \ {First(s)})
<1>0. \A t \in SUBSET S : IsFiniteSet(t)
  BY FS_Subset
<1>1. PICK it \in [SUBSET S -> Nat] : IsSum(w, S, it)
  BY SumExists
<1>2. ASSUME NEW t \in SUBSET S
      PROVE  SumFunctionOnSet(w, t) = it[t]
  <2> DEFINE u == [x \in t |-> w[x]]
  <2>1. PICK a : IsSum(u, t, a)
    BY <1>0, SumExists
  <2>2. IsSum(w, t, a)
    <3>1. \A s1 \in SUBSET t : Adds(u, a, s1) = Adds(w, a, s1)
      BY FirstIn DEF Adds
    <3> QED BY <2>1, <3>1 DEF IsSum
  <2>3. IsSum(w, t, CHOOSE b : IsSum(w, t, b))
    BY <2>2
  <2> DEFINE c == CHOOSE b : IsSum(w, t, b)
  <2>5. IsSum(u, t, c)
    <3>1. \A s1 \in SUBSET t : Adds(u, c, s1) = Adds(w, c, s1)
      BY FirstIn DEF Adds
    <3> HIDE DEF u
    <3> QED BY <2>3, <3>1 DEF IsSum
  <2>4. c[t] = it[t]
    <3>1. u \in [t -> Nat] /\ \A x \in t : w[x] = u[x]
      OBVIOUS
    <3> HIDE DEF c, u
    <3> QED BY <1>0, <1>1, <2>5, <3>1, SumUnique
  <2> QED BY <2>4, SumIsIt
<1>3. it[s] = Adds(w, it, s)
  BY <1>1 DEF IsSum
<1>4. s # {} => s \ {First(s)} \in SUBSET S
  OBVIOUS
<1> QED BY <1>2, <1>3, <1>4 DEF Adds

(* A sum may be taken in any order. *)
LEMMA SumWithout ==
    ASSUME NEW S, IsFiniteSet(S), NEW w \in [S -> Nat], NEW t \in SUBSET S, NEW y \in t
    PROVE  SumFunctionOnSet(w, t) = w[y] + SumFunctionOnSet(w, t \ {y})
<1> DEFINE T == {s \in SUBSET S : \E x \in s :
                    SumFunctionOnSet(w, s) # w[x] + SumFunctionOnSet(w, s \ {x})}
<1>1. SUFFICES ASSUME T # {} PROVE FALSE
  OBVIOUS
<1>2. PICK s \in T : \A r \in SUBSET s : r # s => r \notin T
  <2>1. T \in SUBSET SUBSET S
    OBVIOUS
  <2> HIDE DEF T
  <2> QED BY <1>1, <2>1, Minimal
<1>3. PICK x \in s : SumFunctionOnSet(w, s) # w[x] + SumFunctionOnSet(w, s \ {x})
  BY <1>2
<1> DEFINE f == First(s)  rest == (s \ {f}) \ {x}
<1>4. f \in s /\ SumFunctionOnSet(w, s) = w[f] + SumFunctionOnSet(w, s \ {f})
  BY <1>2, FirstIn, SumOfPart
<1>5. x # f
  BY <1>3, <1>4
<1>6. SumFunctionOnSet(w, s \ {f}) = w[x] + SumFunctionOnSet(w, rest)
  <2>1. s \ {f} \in SUBSET s /\ s \ {f} # s /\ x \in s \ {f} /\ s \ {f} \in SUBSET S
    BY <1>2, <1>4, <1>5
  <2>2. s \ {f} \notin T
    BY <1>2, <2>1
  <2> QED BY <2>1, <2>2
<1>7. SumFunctionOnSet(w, s \ {x}) = w[f] + SumFunctionOnSet(w, rest)
  <2>1. s \ {x} \in SUBSET s /\ s \ {x} # s /\ f \in s \ {x} /\ s \ {x} \in SUBSET S
    BY <1>2, <1>4, <1>5
  <2>2. s \ {x} \notin T
    BY <1>2, <2>1
  <2>3. (s \ {x}) \ {f} = rest
    OBVIOUS
  <2> QED BY <2>1, <2>2, <2>3
<1>8. w[x] \in Nat /\ w[f] \in Nat /\ SumFunctionOnSet(w, rest) \in Nat
  <2>1. rest \in SUBSET S /\ x \in S /\ f \in S
    BY <1>2, <1>4
  <2> HIDE DEF rest, f
  <2> QED BY <2>1, SumOfPart
<1> HIDE DEF rest, f, T
<1> QED BY <1>3, <1>4, <1>6, <1>7, <1>8

(* What weighs anything in t is in u, and weighs no less there. *)
LEMMA SumWithin ==
    ASSUME NEW S, IsFiniteSet(S), NEW w \in [S -> Nat],
           NEW R, IsFiniteSet(R), NEW v \in [R -> Nat],
           NEW t \in SUBSET S, NEW u \in SUBSET R,
           \A x \in t : w[x] = 0 \/ (x \in u /\ w[x] <= v[x])
    PROVE  SumFunctionOnSet(w, t) <= SumFunctionOnSet(v, u)
<1> DEFINE Fits(s, r) == \A x \in s : w[x] = 0 \/ (x \in r /\ w[x] <= v[x])
           T == {s \in SUBSET t : \E r \in SUBSET R :
                    Fits(s, r) /\ ~(SumFunctionOnSet(w, s) <= SumFunctionOnSet(v, r))}
<1>1. SUFFICES ASSUME T # {} PROVE FALSE
  OBVIOUS
<1>2. IsFiniteSet(t)
  BY FS_Subset
<1>3. PICK s \in T : \A r \in SUBSET s : r # s => r \notin T
  <2>1. T \in SUBSET SUBSET t
    OBVIOUS
  <2> HIDE DEF T
  <2> QED BY <1>1, <1>2, <2>1, Minimal
<1>4. PICK r \in SUBSET R :
          Fits(s, r) /\ ~(SumFunctionOnSet(w, s) <= SumFunctionOnSet(v, r))
  BY <1>3
<1> DEFINE f == First(s)  rest == s \ {f}
<1>5. s \in SUBSET S /\ rest \in SUBSET S /\ s \in SUBSET t
  BY <1>3
<1>6. /\ \A q \in SUBSET R : SumFunctionOnSet(v, q) \in Nat
      /\ SumFunctionOnSet(w, s) = IF s = {} THEN 0 ELSE w[f] + SumFunctionOnSet(w, rest)
      /\ SumFunctionOnSet(w, rest) \in Nat
  <2>1. \A q \in SUBSET S :
            /\ SumFunctionOnSet(w, q) \in Nat
            /\ SumFunctionOnSet(w, q) =
                 IF q = {} THEN 0 ELSE w[First(q)] + SumFunctionOnSet(w, q \ {First(q)})
    BY SumOfPart
  <2>2. \A q \in SUBSET R : SumFunctionOnSet(v, q) \in Nat
    BY SumOfPart
  <2> QED BY <1>5, <2>1, <2>2
<1>7. s # {}
  BY <1>4, <1>6
<1>8. f \in s /\ w[f] \in Nat
  BY <1>5, <1>7, FirstIn
<1>9. ASSUME NEW q \in SUBSET R, Fits(rest, q)
      PROVE  SumFunctionOnSet(w, rest) <= SumFunctionOnSet(v, q)
  <2>1. rest \in SUBSET s /\ rest # s /\ rest \in SUBSET t
    BY <1>5, <1>8
  <2>2. rest \notin T
    BY <1>3, <2>1
  <2> HIDE DEF rest, Fits
  <2> QED BY <1>9, <2>1, <2>2
<1>10. SumFunctionOnSet(w, s) <= SumFunctionOnSet(v, r)
  <2>1. CASE w[f] = 0
    <3>1. Fits(rest, r)
      BY <1>4
    <3>2. SumFunctionOnSet(w, rest) <= SumFunctionOnSet(v, r)
      BY <1>9, <3>1
    <3> HIDE DEF rest, f
    <3> QED BY <1>6, <1>7, <2>1, <3>2
  <2>2. CASE w[f] # 0
    <3>1. f \in r /\ w[f] <= v[f]
      BY <1>4, <1>8, <2>2
    <3>2. Fits(rest, r \ {f})
      BY <1>4
    <3>3. SumFunctionOnSet(w, rest) <= SumFunctionOnSet(v, r \ {f})
      BY <1>9, <3>2
    <3>4. v[f] \in Nat /\ SumFunctionOnSet(v, r \ {f}) \in Nat
      BY <1>6, <3>1
    <3> HIDE DEF rest, f
    <3>5. SumFunctionOnSet(v, r) = v[f] + SumFunctionOnSet(v, r \ {f})
      BY <3>1, SumWithout
    <3> QED BY <1>6, <1>7, <1>8, <3>1, <3>3, <3>4, <3>5
  <2> QED BY <2>1, <2>2
<1> QED BY <1>4, <1>10

(* Greater weights make a greater sum. *)
LEMMA SumMonotone ==
    ASSUME NEW S, IsFiniteSet(S), NEW w \in [S -> Nat],
           NEW R, IsFiniteSet(R), NEW v \in [R -> Nat],
           NEW t \in SUBSET (S \cap R), \A x \in t : w[x] <= v[x]
    PROVE  SumFunctionOnSet(w, t) <= SumFunctionOnSet(v, t)
<1>1. t \in SUBSET S /\ t \in SUBSET R
  OBVIOUS
<1> QED BY <1>1, SumWithin

(* Sums of two weights add up. *)
LEMMA SumPlus ==
    ASSUME NEW S, IsFiniteSet(S), NEW u \in [S -> Nat], NEW v \in [S -> Nat],
           NEW w \in [S -> Nat], NEW t \in SUBSET S, \A x \in S : w[x] = u[x] + v[x]
    PROVE  SumFunctionOnSet(w, t) = SumFunctionOnSet(u, t) + SumFunctionOnSet(v, t)
<1> DEFINE T == {s \in SUBSET S : SumFunctionOnSet(w, s)
                                   # SumFunctionOnSet(u, s) + SumFunctionOnSet(v, s)}
<1>1. SUFFICES ASSUME T # {} PROVE FALSE
  OBVIOUS
<1>3. PICK s \in T : \A r \in SUBSET s : r # s => r \notin T
  <2>1. T \in SUBSET SUBSET S
    OBVIOUS
  <2> HIDE DEF T
  <2> QED BY <1>1, <2>1, Minimal
<1> DEFINE f == First(s)  rest == s \ {f}
<1>4. s \in SUBSET S /\ rest \in SUBSET S
  BY <1>3
<1>5. /\ SumFunctionOnSet(w, s) = IF s = {} THEN 0 ELSE w[f] + SumFunctionOnSet(w, rest)
      /\ SumFunctionOnSet(v, s) = IF s = {} THEN 0 ELSE v[f] + SumFunctionOnSet(v, rest)
      /\ SumFunctionOnSet(u, s) = IF s = {} THEN 0 ELSE u[f] + SumFunctionOnSet(u, rest)
      /\ SumFunctionOnSet(w, rest) \in Nat /\ SumFunctionOnSet(v, rest) \in Nat
      /\ SumFunctionOnSet(u, rest) \in Nat
  <2>1. ASSUME NEW x \in [S -> Nat], NEW r \in SUBSET S
        PROVE  /\ SumFunctionOnSet(x, r) \in Nat
               /\ SumFunctionOnSet(x, r) =
                    IF r = {} THEN 0 ELSE x[First(r)] + SumFunctionOnSet(x, r \ {First(r)})
    BY SumOfPart
  <2> QED BY <1>4, <2>1
<1>6. s # {}
  BY <1>3, <1>5
<1>7. w[f] \in Nat /\ v[f] \in Nat /\ u[f] \in Nat /\ w[f] = u[f] + v[f]
  BY <1>4, <1>6, FirstIn
<1>8. SumFunctionOnSet(w, rest) = SumFunctionOnSet(u, rest) + SumFunctionOnSet(v, rest)
  <2>1. rest \in SUBSET s /\ rest # s
    BY <1>6, FirstIn
  <2>2. rest \notin T
    BY <1>3, <2>1
  <2> QED BY <1>4, <2>2
<1> HIDE DEF rest, f
<1>9. SumFunctionOnSet(w, s) = SumFunctionOnSet(u, s) + SumFunctionOnSet(v, s)
  BY <1>5, <1>6, <1>7, <1>8
<1> QED BY <1>3, <1>9

(* Every finite nonempty set has an element of the greatest weight. *)
LEMMA Greatest ==
    ASSUME NEW S, IsFiniteSet(S), NEW w \in [S -> Nat], NEW t \in SUBSET S, t # {}
    PROVE  \E x \in t : \A y \in t : w[y] <= w[x]
<1> DEFINE Has(s) == \E x \in s : \A y \in s : w[y] <= w[x]
           T == {s \in SUBSET S : s # {} /\ ~Has(s)}
<1>1. SUFFICES ASSUME T # {} PROVE FALSE
  OBVIOUS
<1>3. PICK s \in T : \A r \in SUBSET s : r # s => r \notin T
  <2>1. T \in SUBSET SUBSET S
    OBVIOUS
  <2> HIDE DEF T
  <2> QED BY <1>1, <2>1, Minimal
<1> DEFINE f == First(s)  rest == s \ {f}
<1>4. f \in s /\ rest \in SUBSET s /\ rest # s
  BY <1>3, FirstIn
<1>5. rest = {} \/ Has(rest)
  BY <1>3, <1>4
<1>6. \A y \in s : w[y] \in Nat
  BY <1>3
<1> HIDE DEF f
<1>7. Has(s)
  <2>1. CASE rest = {}
    BY <1>4, <1>6, <2>1
  <2>2. CASE Has(rest)
    <3>1. PICK x \in rest : \A y \in rest : w[y] <= w[x]
      BY <2>2
    <3>2. CASE w[f] <= w[x]
      BY <1>4, <1>6, <3>1, <3>2
    <3>3. CASE w[x] < w[f]
      <4>1. \A y \in s : w[y] <= w[f]
        BY <1>4, <1>6, <3>1, <3>3
      <4> QED BY <1>4, <4>1
    <3> QED BY <1>4, <1>6, <3>1, <3>2, <3>3
  <2> QED BY <1>5, <2>1, <2>2
<1> QED BY <1>3, <1>7

-----------------------------------------------------------------------------

(* What a purchase was decided with is among the rows. *)
SeenIsStored ==
    \A p \in Purchase :
        /\ seen[p] \subseteq Stored /\ p \notin seen[p]
        /\ yes[p] = {q \in yes[p] : CustomerYes(q)} /\ yes[p] \subseteq seen[p]

(* Only a purchase with a doubt was asked, or refused, because of it. *)
DoubtsAreReal ==
    \A p \in Stored : "doubt" \in row[p].reasons => row[p].fact.doubt

IInv ==
    /\ TypeOK /\ SeenIsStored /\ DoubtsAreReal /\ MoneyFollowsAnswers
    /\ RepeatsAreAsked /\ ItemBoughtOnce /\ DoubtsNeedAYes /\ WatchHolds

(* The two ways a row changes. *)
Arrives(p, f, tie) ==
    /\ p \in Purchase \ Stored /\ f \in Facts /\ tie \in BOOLEAN
    /\ row' = [row EXCEPT ![p] = NewRow(f, tie)]
    /\ seen' = [seen EXCEPT ![p] = Stored]
    /\ yes' = [yes EXCEPT ![p] = {q \in Stored : CustomerYes(q)}]

Closes(p, a) ==
    /\ p \in Stored /\ Pending(p) /\ a \in {"approved", "declined", "expired"}
    /\ row' = Closed(p, a)
    /\ UNCHANGED <<seen, yes>>

-----------------------------------------------------------------------------

(* An approval by decide() means that nothing it was given objects. *)
LEMMA ApprovalIsClean ==
    ASSUME NEW in, NEW s \in Settings, Decision(in, s).outcome = "approve"
    PROVE  /\ in.protections = {} /\ ~in.watch
           /\ "unknown" \in in.rules => s = "approve"
           /\ "fail" \notin in.rules /\ "reserved" \notin in.rules
BY DEF Decision, Verdict, AsksAt4, Unsure, Settings

(* decide() returns one of three outcomes and one of seven steps. *)
LEMMA VerdictType ==
    ASSUME NEW in, NEW s
    PROVE  /\ Decision(in, s).outcome \in {"approve", "step_up", "decline"}
           /\ Decision(in, s).step \in 1..7
BY DEF Decision, Verdict

(* What record stores is a row. *)
LEMMA NewRowType ==
    ASSUME NEW f \in Facts, NEW tie \in BOOLEAN
    PROVE  NewRow(f, tie) \in Rows
<1> DEFINE in == FindingsOf(f, tie)
<1>1. f.amount \in Nat
  BY LedgerAssumption DEF WellFormed
<1>2. Trust(in) \in {"normal", "elevated", "frozen"}
  BY DEF Trust
<1>3. StepFourReasons(f) \subseteq {"reserved", "doubt"}
  BY DEF StepFourReasons
<1> HIDE DEF in
<1>4. /\ Decision(in, Setting).outcome \in {"approve", "step_up", "decline"}
      /\ Decision(in, Setting).step \in 1..7
  BY VerdictType
<1> QED BY <1>1, <1>2, <1>3, <1>4 DEF NewRow, Rows, Answers, in

(* A step is a new row, a closed row, or nothing. *)
LEMMA StepCases ==
    ASSUME TypeOK, [Next]_vars
    PROVE  \/ UNCHANGED vars
           \/ \E p \in Purchase, f \in Facts, tie \in BOOLEAN : Arrives(p, f, tie)
           \/ \E p \in Purchase, a \in {"approved", "declined", "expired"} : Closes(p, a)
<1>1. ASSUME NEW p \in Purchase, NEW f \in Facts, DecideEvent(p, f)
      PROVE  \/ UNCHANGED vars
             \/ \E tie \in BOOLEAN : Arrives(p, f, tie)
  <2>1. PICK tie \in BOOLEAN : row' = Recorded(p, f, tie)
    BY <1>1 DEF DecideEvent
  <2>2. CASE row[p] = Unseen
    BY <1>1, <2>1, <2>2 DEF DecideEvent, Recorded, Arrives, Stored, TypeOK
  <2>3. CASE row[p] # Unseen
    BY <1>1, <2>1, <2>3 DEF DecideEvent, Recorded, vars, TypeOK
  <2> QED BY <2>2, <2>3
<1>2. ASSUME NEW p \in Purchase, NEW a \in {"approved", "declined"},
             CustomerAnswers(p, a)
      PROVE  Closes(p, a)
  BY <1>2 DEF CustomerAnswers, Closes
<1>3. ASSUME NEW p \in Purchase, TimesOut(p)
      PROVE  Closes(p, "expired")
  BY <1>3 DEF TimesOut, Closes
<1> QED BY <1>1, <1>2, <1>3 DEF Next

(* A new row leaves every other row as it is. *)
LEMMA ArriveFrame ==
    ASSUME TypeOK, NEW p, NEW f, NEW tie, Arrives(p, f, tie)
    PROVE  /\ p \in Purchase /\ p \notin Stored /\ Stored' = Stored \cup {p}
           /\ row'[p] = NewRow(f, tie) /\ \A q \in Stored : row'[q] = row[q]
           /\ seen'[p] = Stored /\ yes'[p] = {q \in Stored : CustomerYes(q)}
           /\ \A q \in Purchase \ {p} : seen'[q] = seen[q] /\ yes'[q] = yes[q]
<1>1. NewRow(f, tie) # Unseen
  BY NewRowType, UnseenAssumption DEF Arrives
<1> QED BY <1>1 DEF Arrives, Stored, TypeOK

(* A closed row keeps what was decided, and the others stay as they are. *)
LEMMA CloseFrame ==
    ASSUME TypeOK, NEW p, NEW a, Closes(p, a)
    PROVE  /\ Stored' = Stored /\ p \in Stored
           /\ \A q \in Stored \ {p} : row'[q] = row[q]
           /\ \A q \in Stored :
                 /\ row'[q].fact = row[q].fact /\ row'[q].outcome = row[q].outcome
                 /\ row'[q].trust = row[q].trust /\ row'[q].reasons = row[q].reasons
           /\ row[p].answer = "pending" /\ row'[p].answer = a
           /\ row'[p].spent = IF a = "approved" THEN row[p].fact.amount ELSE 0
           /\ row'[p].reserved = 0
           /\ row'[p] \in Rows /\ seen' = seen /\ yes' = yes
<1>1. row[p] \in Rows /\ p \in Purchase
  BY DEF Closes, Stored, TypeOK
<1>2. row[p].fact.amount \in Nat
  BY <1>1, LedgerAssumption DEF Rows, WellFormed
<1>3. row'[p] = [row[p] EXCEPT !.answer = a,
                               !.spent = IF a = "approved" THEN row[p].fact.amount ELSE 0,
                               !.reserved = 0]
  BY <1>1 DEF Closes, Closed, TypeOK
<1>4. \A q \in Purchase \ {p} : row'[q] = row[q]
  BY <1>1 DEF Closes, Closed, TypeOK
<1> DEFINE r == row[p]
           money == IF a = "approved" THEN r.fact.amount ELSE 0
<1>7. /\ r \in Rows /\ money \in Nat /\ a \in Answers
      /\ row'[p] = [r EXCEPT !.answer = a, !.spent = money, !.reserved = 0]
  BY <1>1, <1>2, <1>3 DEF Answers, Closes
<1> HIDE DEF r, money
<1>5. row'[p] \in Rows
  <2>1. [r EXCEPT !.answer = a, !.spent = money, !.reserved = 0] \in Rows
    BY <1>7, ZenonT(60) DEF Rows
  <2> QED BY <1>7, <2>1
<1>8. /\ row'[p].fact = r.fact /\ row'[p].outcome = r.outcome
      /\ row'[p].trust = r.trust
  BY <1>7 DEF Rows
<1>9. /\ row'[p].reasons = r.reasons /\ row'[p].answer = a
      /\ row'[p].spent = money /\ row'[p].reserved = 0
  BY <1>7 DEF Rows
<1>6. Stored' = Stored
  BY <1>1, <1>4, <1>5, UnseenAssumption DEF Stored, Closes
<1> QED
  BY <1>1, <1>4, <1>5, <1>6, <1>8, <1>9 DEF Closes, Pending, Stored, r, money

(* The fields of a new row. *)
LEMMA NewRowFields ==
    ASSUME NEW f, NEW tie
    PROVE  LET r == NewRow(f, tie)
               v == Decision(FindingsOf(f, tie), Setting)
           IN /\ r.fact = f /\ r.outcome = v.outcome
              /\ r.answer = IF v.outcome = "step_up" THEN "pending" ELSE "none"
              /\ r.spent = IF v.outcome = "approve" THEN f.amount ELSE 0
              /\ r.reserved = IF v.outcome = "step_up" THEN f.amount ELSE 0
              /\ "doubt" \in r.reasons => Doubt(f) = "unknown"
BY DEF NewRow, StepFourReasons

(* What an approval by the engine itself rests on. *)
LEMMA AutomaticMeans ==
    ASSUME NEW f \in Facts, NEW tie \in BOOLEAN, NewRow(f, tie).outcome = "approve"
    PROVE  /\ ~Repeats(f) /\ ~Bought(f) /\ ~Frozen(f, tie)
           /\ Doubt(f) = "unknown" => Setting = "approve"
<1> DEFINE in == FindingsOf(f, tie)
<1>1. /\ in.protections = (IF Repeats(f) \/ Splits(f) THEN {"ask"} ELSE {})
                           \cup (IF Bought(f) THEN {"bought"} ELSE {})
      /\ in.watch = Frozen(f, tie)
      /\ in.rules = RuleResults(f)
  BY Zenon DEF FindingsOf
<1>2. Decision(in, Setting).outcome = "approve"
  BY NewRowFields
<1>3. Setting \in Settings
  BY LedgerAssumption
<1> HIDE DEF in
<1>4. /\ in.protections = {} /\ ~in.watch
      /\ "unknown" \in in.rules => Setting = "approve"
  BY <1>2, <1>3, ApprovalIsClean
<1>5. Doubt(f) = "unknown" => "unknown" \in RuleResults(f)
  BY DEF RuleResults
<1> QED BY <1>1, <1>4, <1>5

-----------------------------------------------------------------------------
(* One lemma per invariant and way of changing a row. *)

(* A new row is a row, and what it was decided with is stored. *)
LEMMA TypeArrive ==
    ASSUME IInv, NEW p, NEW f, NEW tie, Arrives(p, f, tie)
    PROVE  TypeOK' /\ SeenIsStored'
<1>1. /\ p \in Purchase /\ p \notin Stored /\ Stored' = Stored \cup {p}
      /\ row'[p] = NewRow(f, tie) /\ \A q \in Stored : row'[q] = row[q]
      /\ seen'[p] = Stored /\ yes'[p] = {q \in Stored : CustomerYes(q)}
      /\ \A q \in Purchase \ {p} : seen'[q] = seen[q] /\ yes'[q] = yes[q]
  BY ArriveFrame DEF IInv
<1>2. NewRow(f, tie) \in Rows
  BY NewRowType DEF Arrives
<1>3. TypeOK'
  BY <1>2 DEF IInv, TypeOK, Arrives, Stored
<1>4. ASSUME NEW q \in Purchase
      PROVE  (/\ seen[q] \subseteq Stored /\ q \notin seen[q]
              /\ yes[q] = {r \in yes[q] : CustomerYes(r)} /\ yes[q] \subseteq seen[q])'
  BY <1>1, <1>4 DEF IInv, SeenIsStored, CustomerYes
<1> QED BY <1>3, <1>4 DEF SeenIsStored

(* A closed row is a row, and the answers used before stay answers. *)
LEMMA TypeClose ==
    ASSUME IInv, NEW p, NEW a, Closes(p, a)
    PROVE  TypeOK' /\ SeenIsStored'
<1>1. /\ Stored' = Stored /\ p \in Stored
      /\ \A q \in Stored \ {p} : row'[q] = row[q]
      /\ row[p].answer = "pending" /\ row'[p] \in Rows
      /\ seen' = seen /\ yes' = yes
  BY CloseFrame DEF IInv
<1>2. TypeOK'
  BY <1>1 DEF IInv, TypeOK, Closes, Closed, Stored
<1>3. ASSUME NEW q \in Purchase
      PROVE  (/\ seen[q] \subseteq Stored /\ q \notin seen[q]
              /\ yes[q] = {r \in yes[q] : CustomerYes(r)} /\ yes[q] \subseteq seen[q])'
  BY <1>1 DEF IInv, SeenIsStored, CustomerYes
<1> QED BY <1>2, <1>3 DEF SeenIsStored

(* A new row holds its amount where its outcome puts it. *)
LEMMA MoneyArrive ==
    ASSUME IInv, NEW p, NEW f, NEW tie, Arrives(p, f, tie)
    PROVE  MoneyFollowsAnswers' /\ DoubtsAreReal'
<1>1. /\ Stored' = Stored \cup {p} /\ row'[p] = NewRow(f, tie)
      /\ \A q \in Stored : row'[q] = row[q]
  BY ArriveFrame DEF IInv
<1>2. ASSUME NEW q \in Stored'
      PROVE  (/\ row[q].spent = IF FinalApproval(q) THEN row[q].fact.amount ELSE 0
              /\ row[q].reserved = IF Pending(q) THEN row[q].fact.amount ELSE 0
              /\ Pending(q) => row[q].outcome = "step_up"
              /\ "doubt" \in row[q].reasons => row[q].fact.doubt)'
  <2>1. CASE q = p
    <3>1. Doubt(f) = "unknown" => f.doubt
      BY DEF Doubt
    <3> QED BY <1>1, <2>1, <3>1, NewRowFields DEF FinalApproval, Pending
  <2>2. CASE q \in Stored
    BY <1>1, <2>2 DEF IInv, MoneyFollowsAnswers, DoubtsAreReal, FinalApproval, Pending
  <2> QED BY <1>1, <2>1, <2>2
<1> QED BY <1>2 DEF MoneyFollowsAnswers, DoubtsAreReal

(* A closed row holds its amount where the answer puts it. *)
LEMMA MoneyClose ==
    ASSUME IInv, NEW p, NEW a, Closes(p, a)
    PROVE  MoneyFollowsAnswers' /\ DoubtsAreReal'
<1>1. /\ Stored' = Stored /\ p \in Stored /\ a \in {"approved", "declined", "expired"}
      /\ \A q \in Stored \ {p} : row'[q] = row[q]
      /\ \A q \in Stored :
            /\ row'[q].fact = row[q].fact /\ row'[q].outcome = row[q].outcome
            /\ row'[q].reasons = row[q].reasons
      /\ row[p].answer = "pending" /\ row'[p].answer = a
      /\ row'[p].spent = IF a = "approved" THEN row[p].fact.amount ELSE 0
      /\ row'[p].reserved = 0
  BY CloseFrame DEF IInv, Closes
<1>2. row[p].outcome = "step_up"
  BY <1>1 DEF IInv, MoneyFollowsAnswers, Pending
<1>3. ASSUME NEW q \in Stored'
      PROVE  (/\ row[q].spent = IF FinalApproval(q) THEN row[q].fact.amount ELSE 0
              /\ row[q].reserved = IF Pending(q) THEN row[q].fact.amount ELSE 0
              /\ Pending(q) => row[q].outcome = "step_up"
              /\ "doubt" \in row[q].reasons => row[q].fact.doubt)'
  <2>1. CASE q = p
    BY <1>1, <1>2, <2>1 DEF IInv, DoubtsAreReal, FinalApproval, Pending
  <2>2. CASE q # p
    BY <1>1, <2>2 DEF IInv, MoneyFollowsAnswers, DoubtsAreReal, FinalApproval, Pending
  <2> QED BY <2>1, <2>2
<1> QED BY <1>3 DEF MoneyFollowsAnswers, DoubtsAreReal

(* A3 kept the new row from passing as a repeat. *)
LEMMA RepeatsArrive ==
    ASSUME IInv, NEW p, NEW f, NEW tie, Arrives(p, f, tie)
    PROVE  RepeatsAreAsked'
<1>1. /\ p \in Purchase /\ p \notin Stored /\ Stored' = Stored \cup {p}
      /\ row'[p] = NewRow(f, tie) /\ \A q \in Stored : row'[q] = row[q]
      /\ seen'[p] = Stored /\ yes'[p] = {q \in Stored : CustomerYes(q)}
      /\ \A q \in Purchase \ {p} : seen'[q] = seen[q] /\ yes'[q] = yes[q]
      /\ f \in Facts /\ tie \in BOOLEAN
  <2>1. TypeOK /\ f \in Facts /\ tie \in BOOLEAN
    BY DEF IInv, Arrives
  <2> QED BY <2>1, ArriveFrame
<1>2. \A q \in Stored : q \in Purchase /\ seen[q] \subseteq Stored /\ yes[q] \subseteq Stored
  BY DEF IInv, SeenIsStored, Stored
<1>3. row'[p].fact = f /\ row'[p].outcome = NewRow(f, tie).outcome
  <2>1. NewRow(f, tie).fact = f
    BY NewRowFields
  <2> QED BY <1>1, <2>1
<1>4. ASSUME NEW q \in Stored', Automatic(q)',
             NEW r \in (seen[q] \cap Priors(row[q].fact, DuplicateWindow))'
      PROVE  ~Near(row[q].fact.amount, row[r].fact.amount)'
  <2>1. CASE q = p
    <3>1. ~Repeats(f)
      BY <1>1, <1>3, <1>4, <2>1, AutomaticMeans DEF Automatic
    <3>2. r \in Priors(f, DuplicateWindow) /\ row'[r] = row[r]
      BY <1>1, <1>3, <1>4, <2>1 DEF Priors, Before, FinalApproval, Pending
    <3> QED BY <1>3, <2>1, <3>1, <3>2 DEF Repeats
  <2>2. CASE q \in Stored
    <3>1. row'[q] = row[q] /\ r \in Stored /\ row'[r] = row[r] /\ seen'[q] = seen[q]
      BY <1>1, <1>2, <1>4, <2>2
    <3>2. r \in seen[q] \cap Priors(row[q].fact, DuplicateWindow)
      BY <1>4, <3>1 DEF Priors, Before, FinalApproval, Pending
    <3>3. Automatic(q)
      BY <1>4, <2>2, <3>1 DEF Automatic
    <3> QED BY <2>2, <3>1, <3>2, <3>3 DEF IInv, RepeatsAreAsked
  <2> QED BY <1>1, <2>1, <2>2
<1> QED BY <1>4 DEF RepeatsAreAsked

(* An answer makes no closed order open again. *)
LEMMA RepeatsClose ==
    ASSUME IInv, NEW p, NEW a, Closes(p, a)
    PROVE  RepeatsAreAsked'
<1>1. /\ Stored' = Stored /\ p \in Stored /\ seen' = seen /\ yes' = yes
      /\ \A q \in Stored \ {p} : row'[q] = row[q]
      /\ \A q \in Stored :
            /\ row'[q].fact = row[q].fact /\ row'[q].outcome = row[q].outcome
            /\ row'[q].trust = row[q].trust
      /\ row[p].answer = "pending"
  BY CloseFrame DEF IInv
<1>2. \A q \in Stored : q \in Purchase /\ seen[q] \subseteq Stored /\ yes[q] \subseteq Stored
  BY DEF IInv, SeenIsStored, Stored
<1>3. ASSUME NEW q \in Stored', Automatic(q)',
             NEW r \in (seen[q] \cap Priors(row[q].fact, DuplicateWindow))'
      PROVE  ~Near(row[q].fact.amount, row[r].fact.amount)'
  <2>1. Automatic(q) /\ r \in seen[q] /\ r \in Stored /\ q \in Stored
    BY <1>1, <1>2, <1>3 DEF Automatic
  <2>2. FinalApproval(r)' \/ Pending(r)' => FinalApproval(r) \/ Pending(r)
    BY <1>1, <2>1 DEF FinalApproval, Pending
  <2>3. r \in Priors(row[q].fact, DuplicateWindow)
    BY <1>1, <1>3, <2>1, <2>2 DEF Priors, Before
  <2> QED BY <1>1, <2>1, <2>3 DEF IInv, RepeatsAreAsked
<1> QED BY <1>3 DEF RepeatsAreAsked

(* A8 kept the new row from buying the item again. *)
LEMMA BoughtArrive ==
    ASSUME IInv, NEW p, NEW f, NEW tie, Arrives(p, f, tie)
    PROVE  ItemBoughtOnce'
<1>1. /\ p \in Purchase /\ p \notin Stored /\ Stored' = Stored \cup {p}
      /\ row'[p] = NewRow(f, tie) /\ \A q \in Stored : row'[q] = row[q]
      /\ seen'[p] = Stored /\ yes'[p] = {q \in Stored : CustomerYes(q)}
      /\ \A q \in Purchase \ {p} : seen'[q] = seen[q] /\ yes'[q] = yes[q]
      /\ f \in Facts /\ tie \in BOOLEAN
  <2>1. TypeOK /\ f \in Facts /\ tie \in BOOLEAN
    BY DEF IInv, Arrives
  <2> QED BY <2>1, ArriveFrame
<1>2. \A q \in Stored : q \in Purchase /\ seen[q] \subseteq Stored /\ yes[q] \subseteq Stored
  BY DEF IInv, SeenIsStored, Stored
<1>3. row'[p].fact = f /\ row'[p].outcome = NewRow(f, tie).outcome
  <2>1. NewRow(f, tie).fact = f
    BY NewRowFields
  <2> QED BY <1>1, <2>1
<1>4. ASSUME SingleItem, NEW q \in Stored', NEW r \in Stored',
             Automatic(q)', Automatic(r)', row'[q].fact.wanted, row'[r].fact.wanted,
             r \in (seen[q] \cap (Before(row[q].fact) \cup EarlierRuns(row[q].fact)))'
      PROVE  FALSE
  <2>1. CASE q = p
    <3>1. ~Bought(f)
      BY <1>1, <1>3, <1>4, <2>1, AutomaticMeans DEF Automatic
    <3>2. r \in Stored /\ row'[r] = row[r]
      BY <1>1, <1>4, <2>1
    <3>3. r \in Before(f) \cup EarlierRuns(f) /\ FinalApproval(r)
      BY <1>3, <1>4, <2>1, <3>2 DEF Before, EarlierRuns, FinalApproval, Automatic
    <3> QED BY <1>3, <1>4, <2>1, <3>1, <3>2, <3>3 DEF Bought
  <2>2. CASE q \in Stored
    <3>1. row'[q] = row[q] /\ r \in Stored /\ row'[r] = row[r] /\ seen'[q] = seen[q]
      BY <1>1, <1>2, <1>4, <2>2
    <3>2. r \in seen[q] \cap (Before(row[q].fact) \cup EarlierRuns(row[q].fact))
      BY <1>4, <3>1 DEF Before, EarlierRuns
    <3>3. Automatic(q) /\ Automatic(r) /\ row[q].fact.wanted /\ row[r].fact.wanted
      BY <1>4, <2>2, <3>1 DEF Automatic
    <3> QED BY <1>4, <2>2, <3>1, <3>2, <3>3 DEF IInv, ItemBoughtOnce
  <2> QED BY <1>1, <2>1, <2>2
<1> QED BY <1>4 DEF ItemBoughtOnce

(* An answer makes no purchase an automatic one. *)
LEMMA BoughtClose ==
    ASSUME IInv, NEW p, NEW a, Closes(p, a)
    PROVE  ItemBoughtOnce'
<1>1. /\ Stored' = Stored /\ p \in Stored /\ seen' = seen /\ yes' = yes
      /\ \A q \in Stored \ {p} : row'[q] = row[q]
      /\ \A q \in Stored :
            /\ row'[q].fact = row[q].fact /\ row'[q].outcome = row[q].outcome
            /\ row'[q].trust = row[q].trust
      /\ row[p].answer = "pending"
  BY CloseFrame DEF IInv
<1>2. \A q \in Stored : q \in Purchase /\ seen[q] \subseteq Stored /\ yes[q] \subseteq Stored
  BY DEF IInv, SeenIsStored, Stored
<1>3. ASSUME SingleItem, NEW q \in Stored', NEW r \in Stored',
             Automatic(q)', Automatic(r)', row'[q].fact.wanted, row'[r].fact.wanted,
             r \in (seen[q] \cap (Before(row[q].fact) \cup EarlierRuns(row[q].fact)))'
      PROVE  FALSE
  <2>1. r \in seen[q] \cap (Before(row[q].fact) \cup EarlierRuns(row[q].fact))
    BY <1>1, <1>3 DEF Before, EarlierRuns
  <2>2. Automatic(q) /\ Automatic(r) /\ row[q].fact.wanted /\ row[r].fact.wanted
    BY <1>1, <1>3 DEF Automatic
  <2> QED BY <1>1, <1>3, <2>1, <2>2 DEF IInv, ItemBoughtOnce
<1> QED BY <1>3 DEF ItemBoughtOnce

(* The new row's doubt was confirmed by the rows it saw. *)
LEMMA DoubtsArrive ==
    ASSUME IInv, NEW p, NEW f, NEW tie, Arrives(p, f, tie)
    PROVE  DoubtsNeedAYes'
<1>1. /\ p \in Purchase /\ p \notin Stored /\ Stored' = Stored \cup {p}
      /\ row'[p] = NewRow(f, tie) /\ \A q \in Stored : row'[q] = row[q]
      /\ seen'[p] = Stored /\ yes'[p] = {q \in Stored : CustomerYes(q)}
      /\ \A q \in Purchase \ {p} : seen'[q] = seen[q] /\ yes'[q] = yes[q]
      /\ f \in Facts /\ tie \in BOOLEAN
  <2>1. TypeOK /\ f \in Facts /\ tie \in BOOLEAN
    BY DEF IInv, Arrives
  <2> QED BY <2>1, ArriveFrame
<1>2. \A q \in Stored : q \in Purchase /\ seen[q] \subseteq Stored /\ yes[q] \subseteq Stored
  BY DEF IInv, SeenIsStored, Stored
<1>3. row'[p].fact = f /\ row'[p].outcome = NewRow(f, tie).outcome
  <2>1. NewRow(f, tie).fact = f
    BY NewRowFields
  <2> QED BY <1>1, <2>1
<1>4. ASSUME Setting # "approve", NEW q \in Stored', Automatic(q)', row'[q].fact.doubt
      PROVE  \E r \in yes'[q] :
                row'[r].fact.doubt /\ row'[r].fact.item = row'[q].fact.item
  <2>1. CASE q = p
    <3>1. Doubt(f) # "unknown"
      BY <1>1, <1>3, <1>4, <2>1, AutomaticMeans DEF Automatic
    <3>2. Confirmed(f)
      BY <1>3, <1>4, <2>1, <3>1 DEF Doubt
    <3>3. PICK r \in Stored : /\ CustomerYes(r) /\ "doubt" \in row[r].reasons
                              /\ row[r].fact.item = f.item
      BY <3>2 DEF Confirmed, ConfirmedBy, Before, EarlierRuns
    <3>4. row[r].fact.doubt
      BY <3>3 DEF IInv, DoubtsAreReal
    <3> QED BY <1>1, <1>3, <2>1, <3>3, <3>4
  <2>2. CASE q \in Stored
    <3>1. row'[q] = row[q] /\ yes'[q] = yes[q] /\ Automatic(q)
      BY <1>1, <1>2, <1>4, <2>2 DEF Automatic
    <3>2. PICK r \in yes[q] : row[r].fact.doubt /\ row[r].fact.item = row[q].fact.item
      BY <1>4, <2>2, <3>1 DEF IInv, DoubtsNeedAYes
    <3> QED BY <1>1, <1>2, <2>2, <3>1, <3>2
  <2> QED BY <1>1, <2>1, <2>2
<1> QED BY <1>4 DEF DoubtsNeedAYes

(* An answer never takes back the yes used before. *)
LEMMA DoubtsClose ==
    ASSUME IInv, NEW p, NEW a, Closes(p, a)
    PROVE  DoubtsNeedAYes'
<1>1. /\ Stored' = Stored /\ p \in Stored /\ seen' = seen /\ yes' = yes
      /\ \A q \in Stored \ {p} : row'[q] = row[q]
      /\ \A q \in Stored :
            /\ row'[q].fact = row[q].fact /\ row'[q].outcome = row[q].outcome
            /\ row'[q].trust = row[q].trust
      /\ row[p].answer = "pending"
  BY CloseFrame DEF IInv
<1>2. \A q \in Stored : q \in Purchase /\ seen[q] \subseteq Stored /\ yes[q] \subseteq Stored
  BY DEF IInv, SeenIsStored, Stored
<1>3. ASSUME Setting # "approve", NEW q \in Stored', Automatic(q)', row'[q].fact.doubt
      PROVE  \E r \in yes'[q] :
                row'[r].fact.doubt /\ row'[r].fact.item = row'[q].fact.item
  <2>1. Automatic(q) /\ row[q].fact.doubt /\ q \in Stored
    BY <1>1, <1>3 DEF Automatic
  <2>2. PICK r \in yes[q] : row[r].fact.doubt /\ row[r].fact.item = row[q].fact.item
    BY <1>3, <2>1 DEF IInv, DoubtsNeedAYes
  <2> QED BY <1>1, <1>2, <2>1, <2>2
<1> QED BY <1>3 DEF DoubtsNeedAYes

(* What froze the new row's card before it was followed by a yes. *)
LEMMA WatchArrive ==
    ASSUME IInv, NEW p, NEW f, NEW tie, Arrives(p, f, tie)
    PROVE  WatchHolds'
<1>1. /\ p \in Purchase /\ p \notin Stored /\ Stored' = Stored \cup {p}
      /\ row'[p] = NewRow(f, tie) /\ \A q \in Stored : row'[q] = row[q]
      /\ seen'[p] = Stored /\ yes'[p] = {q \in Stored : CustomerYes(q)}
      /\ \A q \in Purchase \ {p} : seen'[q] = seen[q] /\ yes'[q] = yes[q]
      /\ f \in Facts /\ tie \in BOOLEAN
  <2>1. TypeOK /\ f \in Facts /\ tie \in BOOLEAN
    BY DEF IInv, Arrives
  <2> QED BY <2>1, ArriveFrame
<1>2. \A q \in Stored : q \in Purchase /\ seen[q] \subseteq Stored /\ yes[q] \subseteq Stored
  BY DEF IInv, SeenIsStored, Stored
<1>3. row'[p].fact = f /\ row'[p].outcome = NewRow(f, tie).outcome
  <2>1. NewRow(f, tie).fact = f
    BY NewRowFields
  <2> QED BY <1>1, <2>1
<1>5. ASSUME NEW g, NEW r \in Stored
      PROVE  r \in OnCard(g) <=> r \in OnCard(g)'
  BY <1>1, <1>5 DEF OnCard, Before, EarlierRuns
<1>6. ASSUME NEW r \in Stored, NEW q \in Stored
      PROVE  Follows(r, q, TRUE) = Follows(r, q, TRUE)'
  BY <1>1, <1>6 DEF Follows
<1>4. ASSUME NEW q \in Stored', Automatic(q)',
             NEW r \in seen'[q], r \in OnCard(row[q].fact)', row'[r].trust = "frozen"
      PROVE  (\E s \in yes[q] \cap OnCard(row[q].fact) : s = r \/ Follows(s, r, TRUE))'
  <2>1. CASE q = p
    <3>1. ~Frozen(f, tie)
      BY <1>1, <1>3, <1>4, <2>1, AutomaticMeans DEF Automatic
    <3>2. r \in Stored /\ r \in OnCard(f) /\ row[r].trust = "frozen"
      BY <1>1, <1>3, <1>4, <1>5, <2>1
    <3>3. PICK s \in OnCard(f) : CustomerYes(s) /\ (s = r \/ Follows(s, r, tie))
      BY <3>1, <3>2 DEF Frozen, Cleared
    <3>4. s \in Stored
      BY <3>3 DEF OnCard, Before, EarlierRuns
    <3>5. s \in yes'[q] /\ s \in OnCard(row[q].fact)'
      BY <1>1, <1>3, <1>5, <2>1, <3>3, <3>4
    <3>6. s = r \/ Follows(s, r, TRUE)
      BY <3>3 DEF Follows
    <3> QED BY <1>6, <3>2, <3>4, <3>5, <3>6
  <2>2. CASE q \in Stored
    <3>1. row'[q] = row[q] /\ seen'[q] = seen[q] /\ yes'[q] = yes[q] /\ Automatic(q)
      BY <1>1, <1>2, <1>4, <2>2 DEF Automatic
    <3>2. r \in Stored /\ r \in seen[q] \cap OnCard(row[q].fact) /\ row[r].trust = "frozen"
      BY <1>1, <1>2, <1>4, <1>5, <2>2, <3>1
    <3>3. PICK s \in yes[q] \cap OnCard(row[q].fact) : s = r \/ Follows(s, r, TRUE)
      BY <2>2, <3>1, <3>2 DEF IInv, WatchHolds
    <3>4. s \in Stored /\ s \in yes'[q] /\ s \in OnCard(row[q].fact)'
      BY <1>2, <1>5, <2>2, <3>1, <3>3
    <3> QED BY <1>6, <3>2, <3>3, <3>4
  <2> QED BY <1>1, <2>1, <2>2
<1> QED BY <1>4 DEF WatchHolds

(* An answer never takes away the yes an earlier approval rested on. *)
LEMMA WatchClose ==
    ASSUME IInv, NEW p, NEW a, Closes(p, a)
    PROVE  WatchHolds'
<1>1. /\ Stored' = Stored /\ p \in Stored /\ seen' = seen /\ yes' = yes
      /\ \A q \in Stored :
            /\ row'[q].fact = row[q].fact /\ row'[q].outcome = row[q].outcome
            /\ row'[q].trust = row[q].trust
  BY CloseFrame DEF IInv
<1>2. \A q \in Stored : q \in Purchase /\ seen[q] \subseteq Stored /\ yes[q] \subseteq Stored
  BY DEF IInv, SeenIsStored, Stored
<1>5. ASSUME NEW g, NEW r \in Stored
      PROVE  r \in OnCard(g) <=> r \in OnCard(g)'
  BY <1>1, <1>5 DEF OnCard, Before, EarlierRuns
<1>6. ASSUME NEW r \in Stored, NEW q \in Stored
      PROVE  Follows(r, q, TRUE) = Follows(r, q, TRUE)'
  BY <1>1, <1>6 DEF Follows
<1>3. ASSUME NEW q \in Stored', Automatic(q)',
             NEW r \in seen'[q], r \in OnCard(row[q].fact)', row'[r].trust = "frozen"
      PROVE  (\E s \in yes[q] \cap OnCard(row[q].fact) : s = r \/ Follows(s, r, TRUE))'
  <2>1. Automatic(q) /\ q \in Stored /\ r \in Stored /\ row[r].trust = "frozen"
    BY <1>1, <1>2, <1>3 DEF Automatic
  <2>2. r \in seen[q] \cap OnCard(row[q].fact)
    BY <1>1, <1>3, <1>5, <2>1
  <2>3. PICK s \in yes[q] \cap OnCard(row[q].fact) : s = r \/ Follows(s, r, TRUE)
    BY <2>1, <2>2 DEF IInv, WatchHolds
  <2>4. s \in Stored /\ s \in yes'[q] /\ s \in OnCard(row[q].fact)'
    BY <1>1, <1>2, <1>5, <2>1, <2>3
  <2> QED BY <1>6, <2>1, <2>3, <2>4
<1> QED BY <1>3 DEF WatchHolds

-----------------------------------------------------------------------------

(* Every step keeps the inductive invariant. *)
LEMMA StepKeepsIInv ==
    ASSUME IInv, [Next]_vars
    PROVE  IInv'
<1>1. CASE UNCHANGED vars
  BY <1>1 DEF vars, IInv, TypeOK, SeenIsStored, DoubtsAreReal, MoneyFollowsAnswers,
     RepeatsAreAsked, ItemBoughtOnce, DoubtsNeedAYes, WatchHolds, Stored, CustomerYes,
     FinalApproval, Pending, Automatic, Priors, Before, EarlierRuns, OnCard, Follows
<1>2. ASSUME NEW p \in Purchase, NEW f \in Facts, NEW tie \in BOOLEAN, Arrives(p, f, tie)
      PROVE  IInv'
  BY <1>2, TypeArrive, MoneyArrive, RepeatsArrive, BoughtArrive, DoubtsArrive,
     WatchArrive DEF IInv
<1>3. ASSUME NEW p \in Purchase, NEW a \in {"approved", "declined", "expired"}, Closes(p, a)
      PROVE  IInv'
  BY <1>3, TypeClose, MoneyClose, RepeatsClose, BoughtClose, DoubtsClose,
     WatchClose DEF IInv
<1> QED BY <1>1, <1>2, <1>3, StepCases DEF IInv

(* What automatic approvals rested on stays true of the rows for good. *)
THEOREM Inductive == Spec => []IInv
<1>1. Init => IInv
  BY DEF Init, IInv, TypeOK, SeenIsStored, DoubtsAreReal, MoneyFollowsAnswers,
     RepeatsAreAsked, ItemBoughtOnce, DoubtsNeedAYes, WatchHolds, Stored
<1>2. IInv /\ [Next]_vars => IInv'
  BY StepKeepsIInv
<1> QED BY <1>1, <1>2, PTL DEF Spec

(* The rows stay rows. *)
THEOREM TypeCorrect == Spec => []TypeOK
<1>1. IInv => TypeOK
  BY DEF IInv
<1> QED BY <1>1, Inductive, PTL

(* A row's money always follows its state (M4, M5). *)
THEOREM MoneyIsConsistent == Spec => []MoneyFollowsAnswers
<1>1. IInv => MoneyFollowsAnswers
  BY DEF IInv
<1> QED BY <1>1, Inductive, PTL

(* The engine never approves a repeat of an order that is, or may still be *)
(* approved (A3). *)
THEOREM RepeatsNeverAutomatic == Spec => []RepeatsAreAsked
<1>1. IInv => RepeatsAreAsked
  BY DEF IInv
<1> QED BY <1>1, Inductive, PTL

(* A single-item mandate never gets its item twice by the engine (A8). *)
THEOREM BoughtOnce == Spec => []ItemBoughtOnce
<1>1. IInv => ItemBoughtOnce
  BY DEF IInv
<1> QED BY <1>1, Inductive, PTL

(* Only a customer's yes teaches the engine to pass a doubt. *)
THEOREM DoubtsConfirmed == Spec => []DoubtsNeedAYes
<1>1. IInv => DoubtsNeedAYes
  BY DEF IInv
<1> QED BY <1>1, Inductive, PTL

(* Nothing is approved automatically on a watched card (W-rule 4). *)
THEOREM WatchKept == Spec => []WatchHolds
<1>1. IInv => WatchHolds
  BY DEF IInv
<1> QED BY <1>1, Inductive, PTL

(* No step changes what was decided, or a row that is closed (M7). *)
THEOREM Final == Spec => DecidedForGood
<1> DEFINE Kept == \A p \in Stored :
        /\ row'[p].outcome = row[p].outcome /\ row'[p].trust = row[p].trust
        /\ ~Pending(p) => row'[p] = row[p]
<1>1. ASSUME IInv, [Next]_vars
      PROVE  [Kept]_vars
  <2>1. ASSUME NEW p \in Purchase, NEW f \in Facts, NEW tie \in BOOLEAN, Arrives(p, f, tie)
        PROVE  Kept
    BY <1>1, <2>1, ArriveFrame DEF IInv
  <2>2. ASSUME NEW p \in Purchase, NEW a \in {"approved", "declined", "expired"}, Closes(p, a)
        PROVE  Kept
    BY <1>1, <2>2, CloseFrame DEF IInv, Pending
  <2> HIDE DEF Kept
  <2> QED BY <1>1, <2>1, <2>2, StepCases DEF IInv
<1> QED BY <1>1, Inductive, PTL DEF Spec, DecidedForGood

-----------------------------------------------------------------------------
(* The period's money and number of orders. *)

(* What a purchase may come to cost: what it did, and what is still asked. *)
Exposed == [p \in Stored |-> row[p].spent + row[p].reserved]

(* The purchases of its window that p was decided next to. *)
Known(p) == Window(row[p].fact) \cap seen[p]
Open(p) == {q \in Known(p) : FinalApproval(q) \/ Pending(q)}

(* A purchase that was not refused, nor asked about because of a limit,    *)
(* fits it with everything it was decided next to, whatever comes of that. *)
FitsWithWaiting ==
    \A p \in Stored :
        row[p].outcome # "decline" /\ "reserved" \notin row[p].reasons =>
            /\ LimitDays = WindowDays =>
                  SumFunctionOnSet(Exposed, Known(p)) + row[p].fact.amount <= Limit
            /\ CountDays = WindowDays => Cardinality(Open(p)) + 1 <= MaxOrders

(* The engine approves by itself only where the limits could be checked.   *)
LimitsWereRead ==
    \A p \in Stored : Automatic(p) =>
        /\ "reserved" \notin row[p].reasons
        /\ Setting # "approve" => LimitDays = WindowDays /\ CountDays = WindowDays

(* One purchase is decided after the other. *)
OneAfterAnother == \A p, q \in Stored : p = q \/ p \in seen[q] \/ q \in seen[p]

(* Only a purchase the customer was asked about has an answer. *)
AnsweredWereAsked == \A p \in Stored : row[p].answer # "none" => row[p].outcome = "step_up"

LimitInv ==
    /\ IsFiniteSet(Stored) /\ OneAfterAnother /\ AnsweredWereAsked
    /\ LimitsWereRead /\ FitsWithWaiting

(* The weights are numbers. *)
LEMMA Weights ==
    ASSUME TypeOK
    PROVE  /\ Spends \in [Stored -> Nat] /\ Reserves \in [Stored -> Nat]
           /\ Exposed \in [Stored -> Nat]
           /\ \A p \in Stored : Exposed[p] = Spends[p] + Reserves[p]
           /\ \A p \in Stored : /\ row[p] \in Rows /\ row[p].fact \in Facts
                                /\ row[p].fact.amount \in Nat /\ row[p].fact.ts \in Nat
                                /\ row[p].fact.run \in Nat
<1>1. \A p \in Stored : row[p] \in Rows
  BY DEF TypeOK, Stored
<1>2. \A p \in Stored : row[p].spent \in Nat /\ row[p].reserved \in Nat /\ row[p].fact \in Facts
  BY <1>1 DEF Rows
<1>3. \A p \in Stored : /\ row[p].fact.amount \in Nat /\ row[p].fact.ts \in Nat
                        /\ row[p].fact.run \in Nat
  BY <1>2, LedgerAssumption DEF WellFormed
<1> QED BY <1>1, <1>2, <1>3 DEF Spends, Reserves, Exposed

LEMMA WindowIsStored ==
    ASSUME NEW f
    PROVE  Window(f) \subseteq Stored
BY DEF Window, Before

(* A new row that is not refused passed the limits, or names them. *)
LEMMA WithinLimits ==
    ASSUME NEW f, NEW tie, NewRow(f, tie).outcome # "decline",
           "reserved" \notin NewRow(f, tie).reasons
    PROVE  /\ PeriodRule(f) \notin {"fail", "reserved"}
           /\ CountRule(f) \notin {"fail", "reserved"}
<1> DEFINE in == FindingsOf(f, tie)
           v == Decision(in, Setting)
<1>1. in.rules = RuleResults(f)
  BY DEF FindingsOf
<1>2. /\ NewRow(f, tie).outcome = v.outcome
      /\ NewRow(f, tie).reasons = IF v.step = 4 THEN StepFourReasons(f) ELSE {}
  BY DEF NewRow
<1> HIDE DEF in
<1>3. "fail" \notin in.rules
  BY <1>2 DEF Decision, Verdict
<1>4. "reserved" \in in.rules => v.step = 4
  BY <1>2, <1>3 DEF Decision, Verdict, AsksAt4
<1>5. PeriodRule(f) # "fail" /\ CountRule(f) # "fail"
  BY <1>1, <1>3 DEF RuleResults
<1>6. PeriodRule(f) = "reserved" \/ CountRule(f) = "reserved" => "reserved" \in in.rules
  BY <1>1 DEF RuleResults
<1>7. PeriodRule(f) = "reserved" \/ CountRule(f) = "reserved" => "reserved" \in StepFourReasons(f)
  BY DEF StepFourReasons
<1> QED BY <1>2, <1>4, <1>5, <1>6, <1>7

(* A new row approved automatically could be held against the limits. *)
LEMMA ReadArrive ==
    ASSUME IInv, LimitInv, NEW p, NEW f, NEW tie, Arrives(p, f, tie)
    PROVE  IsFiniteSet(Stored)' /\ OneAfterAnother' /\ LimitsWereRead' /\ AnsweredWereAsked'
<1>1. /\ p \in Purchase /\ p \notin Stored /\ Stored' = Stored \cup {p}
      /\ row'[p] = NewRow(f, tie) /\ \A q \in Stored : row'[q] = row[q]
      /\ seen'[p] = Stored
      /\ \A q \in Purchase \ {p} : seen'[q] = seen[q]
  BY ArriveFrame DEF IInv
<1>2. IsFiniteSet(Stored)'
  BY <1>1, FS_AddElement DEF LimitInv
<1>3. Stored \subseteq Purchase
  BY DEF Stored
<1>4. OneAfterAnother'
  BY <1>1, <1>3 DEF LimitInv, OneAfterAnother
<1>5. ASSUME NEW q \in Stored', Automatic(q)'
      PROVE  (/\ "reserved" \notin row[q].reasons
              /\ Setting # "approve" => LimitDays = WindowDays /\ CountDays = WindowDays)'
  <2>1. CASE q = p
    <3> DEFINE in == FindingsOf(f, tie)
    <3>1. in.rules = RuleResults(f)
      BY DEF FindingsOf
    <3>2. Decision(in, Setting).outcome = "approve"
      BY <1>1, <1>5, <2>1, NewRowFields DEF Automatic
    <3>3. NewRow(f, tie).reasons \subseteq StepFourReasons(f)
      BY DEF NewRow
    <3>4. Setting \in Settings
      BY LedgerAssumption
    <3> HIDE DEF in
    <3>5. "reserved" \notin in.rules /\ ("unknown" \in in.rules => Setting = "approve")
      BY <3>2, <3>4, ApprovalIsClean
    <3>6. "reserved" \notin StepFourReasons(f)
      BY <3>1, <3>5 DEF StepFourReasons, RuleResults
    <3>7. Setting # "approve" => PeriodRule(f) # "unknown" /\ CountRule(f) # "unknown"
      BY <3>1, <3>5 DEF RuleResults
    <3> QED BY <1>1, <2>1, <3>3, <3>6, <3>7 DEF PeriodRule, CountRule, WindowDays
  <2>2. CASE q \in Stored
    BY <1>1, <1>5, <2>2 DEF LimitInv, LimitsWereRead, Automatic, WindowDays
  <2> QED BY <1>1, <2>1, <2>2
<1>6. AnsweredWereAsked'
  BY <1>1, NewRowFields DEF LimitInv, AnsweredWereAsked
<1> QED BY <1>2, <1>4, <1>5, <1>6 DEF LimitsWereRead

(* A new row fits with the rows it is decided next to. *)
LEMMA FitsArrive ==
    ASSUME IInv, LimitInv, NEW p, NEW f, NEW tie, Arrives(p, f, tie), TypeOK'
    PROVE  FitsWithWaiting'
<1>1. /\ p \in Purchase /\ p \notin Stored /\ Stored' = Stored \cup {p}
      /\ row'[p] = NewRow(f, tie) /\ \A q \in Stored : row'[q] = row[q]
      /\ seen'[p] = Stored
      /\ \A q \in Purchase \ {p} : seen'[q] = seen[q]
  BY ArriveFrame DEF IInv
<1>2. f \in Facts /\ f.amount \in Nat /\ f.ts \in Nat
  BY LedgerAssumption DEF Arrives, WellFormed
<1>3. IsFiniteSet(Stored) /\ IsFiniteSet(Stored')
  BY <1>1, FS_AddElement DEF LimitInv
<1>4. /\ Exposed \in [Stored -> Nat] /\ Spends \in [Stored -> Nat] /\ Reserves \in [Stored -> Nat]
      /\ \A q \in Stored : Exposed[q] = Spends[q] + Reserves[q]
  BY Weights DEF IInv
<1>5. Exposed' \in [Stored' -> Nat] /\ \A q \in Stored : Exposed'[q] = Exposed[q]
  <2>1. Exposed' \in [Stored' -> Nat]
    <3>1. \A q \in Stored' : row'[q] \in Rows
      BY DEF TypeOK, Stored
    <3>2. \A q \in Stored' : row'[q].spent + row'[q].reserved \in Nat
      BY <3>1 DEF Rows
    <3> QED BY <3>2 DEF Exposed
  <2> QED BY <1>1, <2>1 DEF Exposed
<1>6. ASSUME NEW S \in SUBSET Stored
      PROVE  SumFunctionOnSet(Exposed', S) <= SumFunctionOnSet(Exposed, S)
  <2> DEFINE w == Exposed'  v == Exposed  R == Stored'
  <2>1. w \in [R -> Nat] /\ v \in [Stored -> Nat] /\ S \in SUBSET (R \cap Stored)
        /\ \A q \in S : w[q] <= v[q]
    BY <1>1, <1>4, <1>5
  <2>2. IsFiniteSet(R)
    BY <1>3
  <2> HIDE DEF w, v, R
  <2>3. SumFunctionOnSet(w, S) <= SumFunctionOnSet(v, S)
    BY <1>3, <2>1, <2>2, SumMonotone
  <2> QED BY <2>3 DEF w, v
<1>7. ASSUME NEW S \in SUBSET Stored
      PROVE  SumFunctionOnSet(Exposed', S) \in Nat /\ SumFunctionOnSet(Exposed, S) \in Nat
  <2> DEFINE w == Exposed'  v == Exposed  R == Stored'
  <2>1. w \in [R -> Nat] /\ v \in [Stored -> Nat] /\ S \in SUBSET R /\ IsFiniteSet(R)
    BY <1>1, <1>3, <1>4, <1>5
  <2> HIDE DEF w, v, R
  <2>2. SumFunctionOnSet(w, S) \in Nat /\ SumFunctionOnSet(v, S) \in Nat
    BY <1>3, <2>1, SumOfPart
  <2> QED BY <2>2 DEF w, v
<1>8. ASSUME NEW q \in Stored', row'[q].outcome # "decline", "reserved" \notin row'[q].reasons
      PROVE  (/\ LimitDays = WindowDays =>
                    SumFunctionOnSet(Exposed, Known(q)) + row[q].fact.amount <= Limit
              /\ CountDays = WindowDays => Cardinality(Open(q)) + 1 <= MaxOrders)'
  <2>1. CASE q = p
    <3>1. row'[q].fact = f
      BY <1>1, <2>1, NewRowFields
    <3>2. PeriodRule(f) \notin {"fail", "reserved"} /\ CountRule(f) \notin {"fail", "reserved"}
      BY <1>1, <1>8, <2>1, WithinLimits
    <3>3. Known(q)' = Window(f)
      BY <1>1, <2>1, <3>1 DEF Known, Window, Before, WindowDays
    <3>4. Window(f) \in SUBSET Stored
      BY WindowIsStored
    <3>5. Open(q)' = {r \in Window(f) : FinalApproval(r)} \cup {r \in Window(f) : Pending(r)}
      BY <1>1, <3>3, <3>4 DEF Open, FinalApproval, Pending
    <3>6. ASSUME LimitDays = WindowDays
          PROVE  SumFunctionOnSet(Exposed', Known(q)') + row'[q].fact.amount <= Limit
      <4> DEFINE S == Window(f)
      <4>1. SumFunctionOnSet(Spends, S) + SumFunctionOnSet(Reserves, S) + f.amount <= Limit
        BY <3>2, <3>6 DEF PeriodRule, Spent, Reserved
      <4> HIDE DEF S
      <4>2. SumFunctionOnSet(Exposed, S) = SumFunctionOnSet(Spends, S) + SumFunctionOnSet(Reserves, S)
        BY <1>3, <1>4, <3>4, SumPlus DEF S
      <4>3. /\ SumFunctionOnSet(Exposed', S) <= SumFunctionOnSet(Exposed, S)
            /\ SumFunctionOnSet(Exposed', S) \in Nat /\ SumFunctionOnSet(Exposed, S) \in Nat
        BY <1>6, <1>7, <3>4 DEF S
      <4>4. SumFunctionOnSet(Exposed', S) + f.amount <= Limit
        BY <1>2, <4>1, <4>2, <4>3, LedgerAssumption
      <4> QED BY <3>1, <3>3, <4>4 DEF S
    <3>7. ASSUME CountDays = WindowDays
          PROVE  Cardinality(Open(q)') + 1 <= MaxOrders
      <4> DEFINE A == {r \in Window(f) : FinalApproval(r)}
                 W == {r \in Window(f) : Pending(r)}
      <4>1. Cardinality(A) + Cardinality(W) + 1 <= MaxOrders
        BY <3>2, <3>7 DEF CountRule
      <4>2. A \in SUBSET Stored /\ W \in SUBSET Stored /\ A \cap W \in SUBSET Stored
        BY <3>4
      <4> HIDE DEF A, W
      <4>3. IsFiniteSet(A) /\ IsFiniteSet(W) /\ IsFiniteSet(A \cap W)
        BY <1>3, <4>2, FS_Subset
      <4>4. Cardinality(A) \in Nat /\ Cardinality(W) \in Nat /\ Cardinality(A \cap W) \in Nat
        BY <4>3, FS_CardinalityType
      <4>5. Cardinality(A \cup W) = Cardinality(A) + Cardinality(W) - Cardinality(A \cap W)
        BY <4>3, FS_Union
      <4>6. Cardinality(A \cup W) + 1 <= MaxOrders
        BY <4>1, <4>4, <4>5, LedgerAssumption
      <4> QED BY <3>5, <4>6 DEF A, W
    <3> QED BY <3>6, <3>7 DEF WindowDays
  <2>2. CASE q \in Stored
    <3>1. row'[q] = row[q] /\ seen'[q] = seen[q] /\ seen[q] \subseteq Stored
      BY <1>1, <2>2 DEF IInv, SeenIsStored, Stored
    <3>2. Known(q)' = Known(q) /\ Known(q) \in SUBSET Stored
      BY <1>1, <2>2, <3>1 DEF Known, Window, Before, WindowDays
    <3>3. Open(q)' = Open(q)
      BY <1>1, <3>2 DEF Open, FinalApproval, Pending
    <3>4. row[q].fact.amount \in Nat
      BY <2>2, Weights DEF IInv
    <3>5. /\ LimitDays = WindowDays =>
                SumFunctionOnSet(Exposed, Known(q)) + row[q].fact.amount <= Limit
          /\ CountDays = WindowDays => Cardinality(Open(q)) + 1 <= MaxOrders
      BY <1>8, <2>2, <3>1 DEF LimitInv, FitsWithWaiting
    <3>6. ASSUME LimitDays = WindowDays
          PROVE  SumFunctionOnSet(Exposed', Known(q)) + row[q].fact.amount <= Limit
      <4>1. /\ SumFunctionOnSet(Exposed', Known(q)) <= SumFunctionOnSet(Exposed, Known(q))
            /\ SumFunctionOnSet(Exposed', Known(q)) \in Nat
            /\ SumFunctionOnSet(Exposed, Known(q)) \in Nat
        BY <1>6, <1>7, <3>2
      <4> QED BY <3>4, <3>5, <3>6, <4>1, LedgerAssumption
    <3> QED BY <3>1, <3>2, <3>3, <3>5, <3>6 DEF WindowDays
  <2> QED BY <1>1, <2>1, <2>2
<1> QED BY <1>8 DEF FitsWithWaiting

(* An answer makes no row weigh more than it did while it was awaited. *)
LEMMA FitsClose ==
    ASSUME IInv, LimitInv, NEW p, NEW a, Closes(p, a), TypeOK'
    PROVE  LimitInv'
<1>1. /\ Stored' = Stored /\ p \in Stored /\ seen' = seen
      /\ \A q \in Stored \ {p} : row'[q] = row[q]
      /\ \A q \in Stored :
            /\ row'[q].fact = row[q].fact /\ row'[q].outcome = row[q].outcome
            /\ row'[q].trust = row[q].trust /\ row'[q].reasons = row[q].reasons
      /\ row[p].answer = "pending" /\ row'[p].answer = a
      /\ row'[p].spent = IF a = "approved" THEN row[p].fact.amount ELSE 0
      /\ row'[p].reserved = 0
      /\ a \in {"approved", "declined", "expired"}
  BY CloseFrame DEF IInv, Closes
<1>2. IsFiniteSet(Stored)
  BY DEF LimitInv
<1>3. /\ Exposed \in [Stored -> Nat]
      /\ \A q \in Stored : row[q].fact.amount \in Nat
  BY Weights DEF IInv
<1>4. Exposed' \in [Stored -> Nat] /\ \A q \in Stored : Exposed'[q] <= Exposed[q]
  <2>1. Exposed' \in [Stored' -> Nat]
    <3>1. \A q \in Stored' : row'[q] \in Rows
      BY DEF TypeOK, Stored
    <3>2. \A q \in Stored' : row'[q].spent + row'[q].reserved \in Nat
      BY <3>1 DEF Rows
    <3> QED BY <3>2 DEF Exposed
  <2>2. Exposed[p] = row[p].spent + row[p].fact.amount /\ row[p].spent \in Nat
    <3>1. row[p].reserved = row[p].fact.amount
      BY <1>1 DEF IInv, MoneyFollowsAnswers, Pending
    <3>2. row[p] \in Rows
      BY <1>1, Weights DEF IInv
    <3> QED BY <1>1, <3>1, <3>2 DEF Exposed, Rows
  <2>3. Exposed'[p] = row'[p].spent + row'[p].reserved
    BY <1>1 DEF Exposed
  <2>4. Exposed'[p] <= Exposed[p]
    BY <1>1, <1>3, <2>2, <2>3
  <2>5. ASSUME NEW q \in Stored, q # p
        PROVE  Exposed'[q] <= Exposed[q]
    <3>1. Exposed'[q] = Exposed[q] /\ Exposed[q] \in Nat
      BY <1>1, <1>3, <2>5 DEF Exposed
    <3> QED BY <3>1
  <2> QED BY <1>1, <2>1, <2>4, <2>5
<1>5. ASSUME NEW q \in Stored
      PROVE  Known(q)' = Known(q) /\ Known(q) \in SUBSET Stored
  BY <1>1, <1>5 DEF Known, Window, Before, WindowDays
<1>6. ASSUME NEW q \in Stored
      PROVE  /\ SumFunctionOnSet(Exposed', Known(q)') <= SumFunctionOnSet(Exposed, Known(q))
             /\ SumFunctionOnSet(Exposed', Known(q)') \in Nat
             /\ SumFunctionOnSet(Exposed, Known(q)) \in Nat
  <2> DEFINE w == Exposed'  v == Exposed  S == Known(q)
  <2>1. w \in [Stored -> Nat] /\ v \in [Stored -> Nat] /\ S \in SUBSET Stored
        /\ \A x \in S : w[x] <= v[x]
    BY <1>3, <1>4, <1>5
  <2> HIDE DEF w, v, S
  <2>2. SumFunctionOnSet(w, S) <= SumFunctionOnSet(v, S)
    BY <1>2, <2>1, SumMonotone
  <2>3. SumFunctionOnSet(w, S) \in Nat /\ SumFunctionOnSet(v, S) \in Nat
    BY <1>2, <2>1, SumOfPart
  <2> QED BY <1>5, <2>2, <2>3 DEF w, v, S
<1>7. ASSUME NEW q \in Stored
      PROVE  /\ Cardinality(Open(q)') <= Cardinality(Open(q))
             /\ Cardinality(Open(q)') \in Nat /\ Cardinality(Open(q)) \in Nat
  <2>1. Open(q)' \in SUBSET Open(q) /\ Open(q) \in SUBSET Stored
    <3>1. \A r \in Stored : (FinalApproval(r) \/ Pending(r))' => FinalApproval(r) \/ Pending(r)
      BY <1>1 DEF FinalApproval, Pending
    <3> QED BY <1>5, <3>1 DEF Open
  <2>2. IsFiniteSet(Open(q)) /\ IsFiniteSet(Open(q)')
    BY <1>2, <2>1, FS_Subset
  <2> QED BY <2>1, <2>2, FS_Subset, FS_CardinalityType
<1>8. FitsWithWaiting'
  <2>1. ASSUME NEW q \in Stored', row'[q].outcome # "decline", "reserved" \notin row'[q].reasons
        PROVE  (/\ LimitDays = WindowDays =>
                      SumFunctionOnSet(Exposed, Known(q)) + row[q].fact.amount <= Limit
                /\ CountDays = WindowDays => Cardinality(Open(q)) + 1 <= MaxOrders)'
    <3>1. q \in Stored /\ row'[q].fact = row[q].fact /\ row[q].fact.amount \in Nat
      BY <1>1, <1>3
    <3>2. /\ LimitDays = WindowDays =>
                SumFunctionOnSet(Exposed, Known(q)) + row[q].fact.amount <= Limit
          /\ CountDays = WindowDays => Cardinality(Open(q)) + 1 <= MaxOrders
      BY <1>1, <2>1, <3>1 DEF LimitInv, FitsWithWaiting
    <3>3. LimitDays = WindowDays =>
              SumFunctionOnSet(Exposed', Known(q)') + row'[q].fact.amount <= Limit
      BY <1>6, <3>1, <3>2, LedgerAssumption
    <3>4. CountDays = WindowDays => Cardinality(Open(q)') + 1 <= MaxOrders
      BY <1>7, <3>1, <3>2, LedgerAssumption
    <3> QED BY <3>3, <3>4 DEF WindowDays
  <2> QED BY <2>1 DEF FitsWithWaiting
<1>9. OneAfterAnother' /\ LimitsWereRead'
  BY <1>1 DEF LimitInv, OneAfterAnother, LimitsWereRead, Automatic, WindowDays
<1>10. AnsweredWereAsked'
  <2>1. row[p].outcome = "step_up"
    BY <1>1 DEF IInv, MoneyFollowsAnswers, Pending
  <2> QED BY <1>1, <2>1 DEF LimitInv, AnsweredWereAsked
<1> QED BY <1>1, <1>2, <1>8, <1>9, <1>10 DEF LimitInv

(* What fits its period when it is decided fits for good. *)
THEOREM LimitsInductive == Spec => []LimitInv
<1>1. Init => LimitInv
  BY FS_EmptySet DEF Init, LimitInv, Stored, OneAfterAnother, LimitsWereRead,
     FitsWithWaiting, AnsweredWereAsked
<1>2. ASSUME IInv, IInv', LimitInv, [Next]_vars
      PROVE  LimitInv'
  <2>1. CASE UNCHANGED vars
    BY <1>2, <2>1, ZenonT(60) DEF vars, LimitInv, OneAfterAnother, LimitsWereRead, FitsWithWaiting, Stored,
       AnsweredWereAsked, Automatic, Exposed, Known, Open, Window, Before, WindowDays, FinalApproval, Pending
  <2>2. ASSUME NEW p \in Purchase, NEW f \in Facts, NEW tie \in BOOLEAN, Arrives(p, f, tie)
        PROVE  LimitInv'
    BY <1>2, <2>2, ReadArrive, FitsArrive DEF IInv, LimitInv
  <2>3. ASSUME NEW p \in Purchase, NEW a \in {"approved", "declined", "expired"}, Closes(p, a)
        PROVE  LimitInv'
    BY <1>2, <2>3, FitsClose DEF IInv
  <2> QED BY <1>2, <2>1, <2>2, <2>3, StepCases DEF IInv
<1> QED BY <1>1, <1>2, Inductive, PTL DEF Spec

(* What the engine approves by itself stays within the period's limit and  *)
(* number of orders, with all it was decided next to (M5, C2).             *)
THEOREM WithinTheLimit == Spec => []ApprovalsFitTheWindow
<1>1. ASSUME IInv, LimitInv
      PROVE  ApprovalsFitTheWindow
  <2>1. ASSUME NEW p \in Stored, Automatic(p), Setting # "approve"
        PROVE  /\ SumFunctionOnSet(Spends, Known(p)) + row[p].fact.amount <= Limit
               /\ Cardinality({q \in Known(p) : FinalApproval(q)}) + 1 <= MaxOrders
    <3>1. /\ SumFunctionOnSet(Exposed, Known(p)) + row[p].fact.amount <= Limit
          /\ Cardinality(Open(p)) + 1 <= MaxOrders
      BY <1>1, <2>1 DEF LimitInv, LimitsWereRead, FitsWithWaiting, Automatic
    <3>2. Known(p) \in SUBSET Stored /\ IsFiniteSet(Stored)
      BY <1>1, WindowIsStored DEF Known, LimitInv
    <3>3. /\ Spends \in [Stored -> Nat] /\ Exposed \in [Stored -> Nat]
          /\ \A q \in Stored : Spends[q] <= Exposed[q]
          /\ row[p].fact.amount \in Nat
      <4>1. /\ Spends \in [Stored -> Nat] /\ Reserves \in [Stored -> Nat]
            /\ Exposed \in [Stored -> Nat]
            /\ \A q \in Stored : Exposed[q] = Spends[q] + Reserves[q]
            /\ row[p].fact.amount \in Nat
        BY <1>1, <2>1, Weights DEF IInv
      <4>2. ASSUME NEW q \in Stored
            PROVE  Spends[q] <= Exposed[q]
        <5>1. Spends[q] \in Nat /\ Reserves[q] \in Nat /\ Exposed[q] = Spends[q] + Reserves[q]
          BY <4>1
        <5> QED BY <5>1
      <4> QED BY <4>1, <4>2
    <3>4. SumFunctionOnSet(Spends, Known(p)) <= SumFunctionOnSet(Exposed, Known(p))
      <4> DEFINE S == Known(p)
      <4>1. S \in SUBSET (Stored \cap Stored) /\ \A q \in S : Spends[q] <= Exposed[q]
        BY <3>2, <3>3
      <4> HIDE DEF S
      <4>2. SumFunctionOnSet(Spends, S) <= SumFunctionOnSet(Exposed, S)
        BY <3>2, <3>3, <4>1, SumMonotone
      <4> QED BY <4>2 DEF S
    <3>5. SumFunctionOnSet(Spends, Known(p)) \in Nat /\ SumFunctionOnSet(Exposed, Known(p)) \in Nat
      BY <3>2, <3>3, SumOfPart
    <3>6. SumFunctionOnSet(Spends, Known(p)) + row[p].fact.amount <= Limit
      BY <3>1, <3>3, <3>4, <3>5, LedgerAssumption
    <3>7. Cardinality({q \in Known(p) : FinalApproval(q)}) + 1 <= MaxOrders
      <4> DEFINE A == {q \in Known(p) : FinalApproval(q)}
      <4>1. A \in SUBSET Open(p) /\ Open(p) \in SUBSET Stored
        BY <3>2 DEF Open
      <4> HIDE DEF A
      <4>2. IsFiniteSet(Open(p)) /\ IsFiniteSet(A)
        BY <3>2, <4>1, FS_Subset
      <4>3. /\ Cardinality(A) <= Cardinality(Open(p))
            /\ Cardinality(A) \in Nat /\ Cardinality(Open(p)) \in Nat
        BY <4>1, <4>2, FS_Subset, FS_CardinalityType
      <4>4. Cardinality(A) + 1 <= MaxOrders
        BY <3>1, <4>3, LedgerAssumption
      <4> QED BY <4>4 DEF A
    <3> QED BY <3>6, <3>7
  <2> QED BY <2>1 DEF ApprovalsFitTheWindow, Known
<1> QED BY <1>1, Inductive, LimitsInductive, PTL

(* In order, a period passes its limit only by a purchase the customer was *)
(* asked about because of it (M5): the last one of them to be paid was     *)
(* decided next to all the others.                                         *)
THEOREM OverspendIsAsked == Spec => []OverspendWasAsked
<1>1. ASSUME IInv, LimitInv
      PROVE  OverspendWasAsked
  <2> SUFFICES ASSUME InOrder, LimitDays = WindowDays, NEW p \in Stored,
                      \A q \in Window(row[p].fact) \cup {p} :
                          CustomerYes(q) => row[q].reasons = {}
               PROVE  Spent(row[p].fact) + row[p].spent <= Limit
    BY DEF OverspendWasAsked
  <2> DEFINE W == Window(row[p].fact)
             Near1 == W \cup {p}
             Paid == {q \in Near1 : FinalApproval(q)}
             Times == [q \in Stored |-> row[q].fact.ts]
  <2>1. /\ Spends \in [Stored -> Nat] /\ Exposed \in [Stored -> Nat]
        /\ \A q \in Stored : Spends[q] = row[q].spent /\ Spends[q] <= Exposed[q]
        /\ \A q \in Stored : /\ row[q] \in Rows /\ row[q].fact.amount \in Nat
                             /\ row[q].fact.ts \in Nat
    <3>1. /\ Spends \in [Stored -> Nat] /\ Reserves \in [Stored -> Nat]
          /\ Exposed \in [Stored -> Nat]
          /\ \A q \in Stored : Exposed[q] = Spends[q] + Reserves[q]
          /\ \A q \in Stored : /\ row[q] \in Rows /\ row[q].fact.amount \in Nat
                               /\ row[q].fact.ts \in Nat
      BY <1>1, Weights DEF IInv
    <3>2. ASSUME NEW q \in Stored
          PROVE  Spends[q] <= Exposed[q]
      <4>1. Spends[q] \in Nat /\ Reserves[q] \in Nat /\ Exposed[q] = Spends[q] + Reserves[q]
        BY <3>1
      <4> QED BY <4>1
    <3> QED BY <3>1, <3>2 DEF Spends
  <2>2. IsFiniteSet(Stored) /\ W \in SUBSET Stored /\ Near1 \in SUBSET Stored
        /\ Paid \in SUBSET Stored /\ p \notin W
    <3>1. p \notin W
      BY <2>1 DEF Window, Before
    <3> QED BY <1>1, <3>1, WindowIsStored DEF LimitInv
  <2>3. SumFunctionOnSet(Spends, Near1) = Spent(row[p].fact) + row[p].spent
    <3> DEFINE N == Near1
    <3>1. N \in SUBSET Stored /\ p \in N /\ N \ {p} = W
      BY <2>2
    <3> HIDE DEF N, W
    <3>2. SumFunctionOnSet(Spends, N) = Spends[p] + SumFunctionOnSet(Spends, N \ {p})
      BY <2>1, <2>2, <3>1, SumWithout
    <3>3. SumFunctionOnSet(Spends, W) \in Nat
      BY <2>1, <2>2, SumOfPart
    <3>4. SumFunctionOnSet(Spends, N) = SumFunctionOnSet(Spends, W) + row[p].spent
      <4>1. Spends[p] = row[p].spent /\ Spends[p] \in Nat
        BY <2>1
      <4>2. SumFunctionOnSet(Spends, N) = Spends[p] + SumFunctionOnSet(Spends, W)
        BY <3>1, <3>2
      <4> QED BY <3>3, <4>1, <4>2
    <3> QED BY <3>4 DEF N, W, Spent
  <2>4. ASSUME NEW q \in Near1 \ Paid
        PROVE  Spends[q] = 0
    BY <1>1, <2>1, <2>2 DEF IInv, MoneyFollowsAnswers
  <2>5. CASE Paid = {}
    <3> DEFINE N == Near1
    <3>1. \A x \in N : Spends[x] = 0
      BY <2>4, <2>5
    <3>2. N \in SUBSET Stored /\ {} \in SUBSET Stored
      BY <2>2
    <3> HIDE DEF N
    <3>3. SumFunctionOnSet(Spends, N) <= SumFunctionOnSet(Exposed, {})
      BY <2>1, <2>2, <3>1, <3>2, SumWithin
    <3>4. SumFunctionOnSet(Exposed, {}) = 0
      BY <2>1, <2>2, <3>2, SumOfPart
    <3>5. SumFunctionOnSet(Spends, N) \in Nat
      BY <2>1, <2>2, <3>2, SumOfPart
    <3>6. SumFunctionOnSet(Spends, N) <= Limit
      BY <3>3, <3>4, <3>5, LedgerAssumption
    <3> QED BY <2>3, <3>6 DEF N
  <2>6. CASE Paid # {}
    <3>1. PICK q \in Paid : \A r \in Paid : row[r].fact.ts <= row[q].fact.ts
      <4>1. Times \in [Stored -> Nat]
        BY <2>1
      <4> HIDE DEF Paid, Times
      <4>2. \E x \in Paid : \A y \in Paid : Times[y] <= Times[x]
        BY <2>2, <2>6, <4>1, Greatest
      <4> QED BY <2>2, <4>2 DEF Times
    <3> DEFINE Others == Paid \ {q}
    <3>2. ASSUME NEW r \in Others
          PROVE  r \in Known(q)
      <4>1. /\ r \in Stored /\ q \in Stored /\ r # q
            /\ row[r].fact.run = row[p].fact.run /\ row[q].fact.run = row[p].fact.run
            /\ row[r].fact.card = row[p].fact.card /\ row[q].fact.card = row[p].fact.card
        BY <2>2 DEF Window, Before
      <4>2. r \in seen[q] \/ q \in seen[r]
        BY <1>1, <4>1 DEF LimitInv, OneAfterAnother
      <4>3. row[r].fact.ts <= row[q].fact.ts
        BY <3>1
      <4>4. r \in seen[q] /\ row[r].fact.ts < row[q].fact.ts
        BY <2>1, <4>1, <4>2, <4>3 DEF InOrder
      <4>5. row[q].fact.ts - WindowDays <= row[r].fact.ts
        <5>1. row[q].fact.ts <= row[p].fact.ts
          BY <2>1, <2>2 DEF Window, Before
        <5>2. r # p
          BY <2>1, <4>1, <4>4, <5>1
        <5>3. row[r].fact.ts >= row[p].fact.ts - WindowDays
          BY <2>2, <5>2 DEF Window
        <5>4. WindowDays \in Nat
          BY LedgerAssumption DEF WindowDays
        <5> QED BY <2>1, <4>1, <5>1, <5>3, <5>4
      <4>6. WindowDays \in Nat
        BY LedgerAssumption DEF WindowDays
      <4> QED BY <2>1, <4>1, <4>4, <4>5, <4>6 DEF Known, Window, Before
    <3>3. q \in Stored /\ row[q].outcome # "decline" /\ "reserved" \notin row[q].reasons
          /\ row[q].spent = row[q].fact.amount
      <4>1. q \in Stored /\ q \in Near1 /\ FinalApproval(q)
        BY <2>2
      <4>2. CASE Automatic(q)
        BY <1>1, <4>1, <4>2
           DEF Automatic, LimitInv, LimitsWereRead, IInv, MoneyFollowsAnswers
      <4>3. CASE ~Automatic(q)
        <5>1. CustomerYes(q)
          BY <4>1, <4>3 DEF FinalApproval, Automatic, CustomerYes
        <5>2. row[q].outcome # "decline"
          BY <1>1, <4>1, <5>1 DEF LimitInv, AnsweredWereAsked, CustomerYes
        <5>3. row[q].reasons = {}
          BY <4>1, <5>1
        <5> QED BY <1>1, <4>1, <5>2, <5>3 DEF IInv, MoneyFollowsAnswers
      <4> QED BY <4>2, <4>3
    <3>4. SumFunctionOnSet(Exposed, Known(q)) + row[q].fact.amount <= Limit
      BY <1>1, <3>3 DEF LimitInv, FitsWithWaiting
    <3> DEFINE Rest == Near1 \ {q}  K == Known(q)
    <3>5. K \in SUBSET Stored /\ Rest \in SUBSET Stored /\ q \in Near1
          /\ \A r \in Rest : Spends[r] = 0 \/ (r \in K /\ Spends[r] <= Exposed[r])
      <4>1. ASSUME NEW r \in Rest
            PROVE  Spends[r] = 0 \/ (r \in K /\ Spends[r] <= Exposed[r])
        BY <2>1, <2>2, <2>4, <3>2
      <4> QED BY <2>2, <4>1, WindowIsStored DEF Known
    <3> HIDE DEF Rest, K
    <3>6. SumFunctionOnSet(Spends, Rest) <= SumFunctionOnSet(Exposed, K)
      BY <2>1, <2>2, <3>5, SumWithin
    <3>7. SumFunctionOnSet(Spends, Rest) \in Nat /\ SumFunctionOnSet(Exposed, K) \in Nat
      BY <2>1, <2>2, <3>5, SumOfPart
    <3>8. SumFunctionOnSet(Spends, Near1) = row[q].fact.amount + SumFunctionOnSet(Spends, Rest)
      <4> DEFINE N == Near1
      <4>1. N \in SUBSET Stored /\ q \in N /\ N \ {q} = Rest
        BY <2>2, <3>5 DEF Rest
      <4> HIDE DEF N
      <4>2. SumFunctionOnSet(Spends, N) = Spends[q] + SumFunctionOnSet(Spends, N \ {q})
        BY <2>1, <2>2, <4>1, SumWithout
      <4> QED BY <2>1, <3>3, <4>1, <4>2 DEF N
    <3>9. SumFunctionOnSet(Spends, Near1) <= Limit
      <4>1. row[q].fact.amount \in Nat /\ SumFunctionOnSet(Exposed, K) + row[q].fact.amount <= Limit
        BY <2>1, <3>3, <3>4 DEF K
      <4> QED BY <3>6, <3>7, <3>8, <4>1, LedgerAssumption
    <3> QED BY <2>3, <3>9
  <2> QED BY <2>5, <2>6
<1> QED BY <1>1, Inductive, LimitsInductive, PTL

=============================================================================
