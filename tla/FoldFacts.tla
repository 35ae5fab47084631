------------------------------ MODULE FoldFacts ------------------------------
(***************************************************************************)
(* The fold of the community modules, for every operator: what it yields   *)
(* of no element, and of one element more. Instances of this module, one   *)
(* per operator, give the facts; a lemma cannot take the operator as its   *)
(* parameter.                                                              *)
(*                                                                         *)
(* The induction is over sets of naturals, since the well-founded order of *)
(* the naturals gives every set a least member.                            *)
(***************************************************************************)
EXTENDS Naturals, Sequences, SequencesExt, WellFoundedInduction, TLAPS

CONSTANT Op(_, _, _)

Fold(p, base, s) == FoldLeft(LAMBDA a, b : Op(p, a, b), base, s)

\* Every set of naturals that is not empty has a least member.
LEMMA Least ==
  ASSUME NEW T \in SUBSET Nat, T # {}
  PROVE  \E x \in T : \A y \in T : x <= y
<1>1. IsWellFoundedOn(OpToRel(<, Nat), Nat)
  BY NatLessThanWellFounded
<1>2. PICK x \in T : \A y \in T : ~(<<y, x>> \in OpToRel(<, Nat))
  BY <1>1, WFMin
<1>3. ASSUME NEW y \in T PROVE x <= y
  <2>1. <<y, x>> \in Nat \X Nat
     OBVIOUS
  <2>2. ~(<<y, x>> \in OpToRel(<, Nat))
    BY <1>2
  <2>. QED BY <2>1, <2>2 DEF OpToRel
<1>. QED BY <1>3

\* A set that holds 0 and with each n the next one holds every natural: induction in the
\* form of sets, which the provers can instantiate.
LEMMA Inductive ==
  ASSUME NEW S, 0 \in S, \A n \in Nat : n \in S => n + 1 \in S
  PROVE  Nat \subseteq S
<1> SUFFICES ASSUME NEW n \in Nat, n \notin S PROVE FALSE
  OBVIOUS
<1> DEFINE T == {m \in Nat : m \notin S}
<1>1. PICK x \in T : \A y \in T : x <= y
  BY Least
<1>2. x # 0
  OBVIOUS
<1>3. x - 1 \in Nat /\ x - 1 \notin T
  BY <1>1, <1>2
<1>4. x - 1 \in S /\ (x-1) + 1 = x
  BY <1>3
<1>. QED BY <1>3, <1>4

\* The largest of the first n positions.
LEMMA MaxOf ==
  ASSUME NEW n \in Nat, NEW s \in SUBSET (1 .. n), s # {}
  PROVE  Max(s) \in s /\ \A y \in s : Max(s) >= y
<1> DEFINE T == {m \in Nat : \A y \in s : m >= y}
<1>1. n \in T
  OBVIOUS
<1>2. PICK m \in T : \A y \in T : m <= y
  BY <1>1, Least
<1>3. m \in s
  <2> SUFFICES ASSUME m \notin s PROVE FALSE
    OBVIOUS
  <2>1. ASSUME NEW y \in s PROVE m - 1 >= y /\ m - 1 \in Nat
    <3>1. m >= y /\ m # y /\ y \in Nat /\ y > 0
      OBVIOUS
    <3>. QED BY <3>1
  <2>2. m - 1 \in T
    BY <2>1
  <2>. QED BY <1>2, <2>2
<1>4. \E x \in s : \A y \in s : x >= y
  BY <1>3
<1>. QED BY <1>4 DEF Max

\* The positions up to n + 1, without the last, are those up to n.
LEMMA FirstPositions ==
  ASSUME NEW n \in Nat
  PROVE  /\ 1 .. (n + 1) # {} /\ (1 .. (n + 1)) \ {n + 1} = 1 .. n
         /\ Max(1 .. (n + 1)) = n + 1
<1>1. 1 .. (n + 1) # {} /\ n + 1 \in 1 .. (n + 1) /\ n + 1 \in Nat
  OBVIOUS
<1>2. (1 .. (n + 1)) \ {n + 1} = 1 .. n
  OBVIOUS
<1>3. Max(1 .. (n + 1)) \in 1 .. (n + 1) /\ \A y \in 1 .. (n + 1) : Max(1 .. (n + 1)) >= y
  BY <1>1, MaxOf
<1>. QED BY <1>1, <1>2, <1>3

(* The recursion behind a fold of the first k elements of a function. *)
Iterates(it, p, base, s, k) ==
  it = [d \in SUBSET (1 .. k) |-> IF d = {} THEN base ELSE Op(p, it[d \ {Max(d)}], s[Max(d)])]

\* The fold of the community modules chooses a function that iterates: there is one.
LEMMA IterationExists ==
  ASSUME NEW p, NEW base, NEW s, NEW n \in Nat
  PROVE  \E it : Iterates(it, p, base, s, n)
<1> DEFINE S == {k \in Nat : \E it : Iterates(it, p, base, s, k)}
<1>1. 0 \in S
  <2> DEFINE it == [d \in SUBSET (1 .. 0) |-> base]
  <2>1. \A d \in SUBSET (1 .. 0) : d = {}
    OBVIOUS
  <2>2. Iterates(it, p, base, s, 0)
    BY <2>1 DEF Iterates
  <2>. QED BY <2>2
<1>2. ASSUME NEW k \in Nat, k \in S PROVE k + 1 \in S
  <2>1. PICK it : Iterates(it, p, base, s, k)
    BY <1>2
  <2> DEFINE more == [d \in SUBSET (1 .. (k + 1)) |->
        IF k + 1 \in d THEN Op(p, it[d \ {k + 1}], s[k + 1]) ELSE it[d]]
  <2>2. \A d \in SUBSET (1 .. k) : d \in SUBSET (1 .. (k + 1)) /\ k + 1 \notin d
    OBVIOUS
  <2>3. \A d \in SUBSET (1 .. (k + 1)) : k + 1 \notin d => d \in SUBSET (1 .. k)
    OBVIOUS
  <2>4. ASSUME NEW d \in SUBSET (1 .. (k + 1))
        PROVE  more[d] = IF d = {} THEN base ELSE Op(p, more[d \ {Max(d)}], s[Max(d)])
    <3>1. CASE k + 1 \in d
      <4>1. Max(d) = k + 1
        <5>1. Max(d) \in d /\ \A y \in d : Max(d) >= y
          BY <3>1, k + 1 \in Nat, MaxOf
        <5>2. Max(d) \in 1 .. (k + 1)
          BY <5>1
        <5>3. Max(d) >= k + 1
          BY <5>1, <3>1
        <5>. QED BY <5>2, <5>3
      <4>2. d \ {k + 1} \in SUBSET (1 .. (k + 1)) /\ k + 1 \notin d \ {k + 1}
        OBVIOUS
      <4>3. more[d \ {k + 1}] = it[d \ {k + 1}]
        BY <4>2
      <4>4. more[d] = Op(p, it[d \ {k + 1}], s[k + 1])
        BY <3>1
      <4>. QED BY <3>1, <4>1, <4>3, <4>4
    <3>2. CASE k + 1 \notin d
      <4>1. d \in SUBSET (1 .. k) /\ more[d] = it[d]
        BY <3>2, <2>3
      <4>2. it[d] = IF d = {} THEN base ELSE Op(p, it[d \ {Max(d)}], s[Max(d)])
        BY <2>1, <4>1 DEF Iterates
      <4>3. d \ {Max(d)} \in SUBSET (1 .. k)
        BY <4>1
      <4>4. more[d \ {Max(d)}] = it[d \ {Max(d)}]
        BY <4>3, <2>2
      <4>. QED BY <4>1, <4>2, <4>4
    <3>. QED BY <3>1, <3>2
  <2>5. Iterates(more, p, base, s, k + 1)
    BY <2>4 DEF Iterates
  <2>. QED BY <2>5
<1>. QED BY <1>1, <1>2, Inductive

\* The value of a fold is the value of such a function on all positions.
LEMMA FoldIterates ==
  ASSUME NEW p, NEW base, NEW s, NEW n \in Nat, DOMAIN s = 1 .. n
  PROVE  \E it : Iterates(it, p, base, s, n) /\ Fold(p, base, s) = it[1 .. n]
<1> DEFINE it == CHOOSE it : Iterates(it, p, base, s, n)
<1>1. Iterates(it, p, base, s, n)
  BY IterationExists
<1>2. Fold(p, base, s) = it[1 .. n]
  BY DEF Iterates, Fold, FoldLeft, MapThenFoldSet
<1>. QED BY <1>1, <1>2

\* Two iterations agree where both are defined.
LEMMA IterationsAgree ==
  ASSUME NEW p, NEW base, NEW s, NEW t, NEW m \in Nat, \A i \in 1 .. m : s[i] = t[i],
         NEW it, Iterates(it, p, base, s, m), NEW more, Iterates(more, p, base, t, m + 1)
  PROVE  it[1 .. m] = more[1 .. m]
<1> DEFINE S == {k \in Nat : k <= m => it[1 .. k] = more[1 .. k]}
<1>1. 0 \in S
  <2>1. 1 .. 0 = {} /\ 1 .. 0 \in SUBSET (1 .. m) /\ 1 .. 0 \in SUBSET (1 .. (m + 1))
    OBVIOUS
  <2>. QED BY <2>1 DEF Iterates
<1>2. ASSUME NEW k \in Nat, k \in S PROVE k + 1 \in S
  <2> SUFFICES ASSUME k + 1 <= m PROVE it[1 .. (k + 1)] = more[1 .. (k + 1)]
    OBVIOUS
  <2> DEFINE d == 1 .. (k + 1)
  <2>1. d # {} /\ d \in SUBSET (1 .. m) /\ d \in SUBSET (1 .. (m + 1))
    OBVIOUS
  <2>2. Max(d) = k + 1
    <3>1. Max(d) \in d /\ \A y \in d : Max(d) >= y
      BY <2>1, MaxOf
    <3>2. k + 1 \in d
      OBVIOUS
    <3>. QED BY <3>1, <3>2
  <2>3. d \ {k + 1} = 1 .. k
    OBVIOUS
  <2> HIDE DEF d
  <2>4. it[d] = Op(p, it[d \ {Max(d)}], s[Max(d)]) /\ more[d] = Op(p, more[d \ {Max(d)}], t[Max(d)])
    BY <2>1 DEF Iterates
  <2>5. it[1 .. k] = more[1 .. k] /\ s[k + 1] = t[k + 1]
    BY <1>2
  <2>. QED BY <2>2, <2>3, <2>4, <2>5 DEF d
<1>3. Nat \subseteq S
  BY <1>1, <1>2, Inductive
<1>. QED BY <1>3

\* The fold of nothing is where it starts.
THEOREM FoldEmpty == \A p, base : Fold(p, base, << >>) = base
<1> SUFFICES ASSUME NEW p, NEW base PROVE Fold(p, base, << >>) = base
  OBVIOUS
<1>1. PICK it : Iterates(it, p, base, << >>, 0) /\ Fold(p, base, << >>) = it[1 .. 0]
  BY FoldIterates
<1>2. 1 .. 0 = {}
  OBVIOUS
<1>. QED BY <1>1, <1>2 DEF Iterates

\* The fold of one element more is one application more of Op. Together with FoldEmpty
\* this is all there is to know of a fold, for every operator and every sequence.
THEOREM FoldAppend ==
  ASSUME NEW p, NEW base, NEW T, NEW s \in Seq(T), NEW x
  PROVE  Fold(p, base, Append(s, x)) = Op(p, Fold(p, base, s), x)
<1> DEFINE n == Len(s)
           t == Append(s, x)
<1>1. /\ n \in Nat /\ DOMAIN s = 1 .. n /\ DOMAIN t = 1 .. (n + 1) /\ t[n + 1] = x
      /\ \A i \in 1 .. n : t[i] = s[i]
  OBVIOUS
<1> HIDE DEF n, t
<1>2. PICK it : Iterates(it, p, base, s, n) /\ Fold(p, base, s) = it[1 .. n]
  BY <1>1, FoldIterates
<1>3. PICK more : Iterates(more, p, base, t, n + 1) /\ Fold(p, base, t) = more[1 .. (n + 1)]
  <2>1. n + 1 \in Nat
    BY <1>1
  <2>. QED BY <1>1, <2>1, FoldIterates
<1>4. it[1 .. n] = more[1 .. n]
  <2>1. \A i \in 1 .. n : s[i] = t[i]
    BY <1>1
  <2>. QED BY <1>1, <1>2, <1>3, <2>1, IterationsAgree
<1>5. Max(1 .. (n + 1)) = n + 1 /\ (1 .. (n + 1)) \ {n + 1} = 1 .. n /\ 1 .. (n + 1) # {}
  BY <1>1, FirstPositions
<1>7. more[1 .. (n + 1)] = Op(p, more[1 .. n], t[n + 1])
  BY <1>3, <1>5 DEF Iterates
<1>. QED BY <1>1, <1>2, <1>3, <1>4, <1>7 DEF n, t

=============================================================================
