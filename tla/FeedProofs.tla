------------------------------- MODULE FeedProofs -------------------------------
(***************************************************************************)
(* One subscription, for every mode, every set of values and of row keys,  *)
(* and however many lines are on their way: what the caller is shown is    *)
(* what the server meant.                                                  *)
(*                                                                         *)
(* The decoder first: a count, a diff, a patch and a list of fields, each  *)
(* read as it was written (the folds they are defined by are instances of  *)
(* FoldFacts). Then the feed: the lines on the wire are a path from what   *)
(* the client agrees with to what the server holds, and every step of      *)
(* either side keeps it one.                                               *)
(***************************************************************************)
EXTENDS SubscriptionFeed, SequenceTheorems, TLAPS

-----------------------------------------------------------------------------
(* The folds of the decoder. *)
Weighs == INSTANCE FoldFacts WITH Op <- LAMBDA p, sum, l : Weigh(sum, l)
Performs == INSTANCE FoldFacts WITH Op <- Perform
Keeps == INSTANCE FoldFacts WITH Op <- LAMBDA p, kept, c : Keep(kept, c)
Takes == INSTANCE FoldFacts WITH Op <- LAMBDA p, done, token : Take(done, token)

\* The four folds of the decoder are instances of the fold of FoldFacts.
LEMMA WeighsFold ==
  ASSUME NEW base, NEW s
  PROVE  FoldLeft(Weigh, base, s) = Weighs!Fold(0, base, s)
BY DEF FoldLeft, MapThenFoldSet, Max, Weighs!Fold, Weighs!FoldLeft, Weighs!MapThenFoldSet, Weighs!Max

LEMMA PerformsFold ==
  ASSUME NEW on, NEW base, NEW s
  PROVE  FoldLeft(LAMBDA run, i : Perform(on, run, i), base, s) = Performs!Fold(on, base, s)
BY DEF FoldLeft, MapThenFoldSet, Max, Performs!Fold, Performs!FoldLeft, Performs!MapThenFoldSet,
       Performs!Max

LEMMA KeepsFold ==
  ASSUME NEW base, NEW s
  PROVE  FoldLeft(Keep, base, s) = Keeps!Fold(0, base, s)
BY DEF FoldLeft, MapThenFoldSet, Max, Keeps!Fold, Keeps!FoldLeft, Keeps!MapThenFoldSet, Keeps!Max

LEMMA TakesFold ==
  ASSUME NEW base, NEW s
  PROVE  FoldLeft(Take, base, s) = Takes!Fold(0, base, s)
BY DEF FoldLeft, MapThenFoldSet, Max, Takes!Fold, Takes!FoldLeft, Takes!MapThenFoldSet, Takes!Max

-----------------------------------------------------------------------------
(* Counts in letters: what is written is read. *)

CapitalOf(n) == [capital |-> TRUE, place |-> (n - 1) % Radix]
Writes(g, m) ==
  g = [n \in 0 .. m |-> IF n = 0 THEN << >> ELSE Append(g[(n - 1) \div Radix], CapitalOf(n))]

\* A number is its quotient by the radix, and a rest.
LEMMA Quotient ==
  ASSUME NEW n \in Nat
  PROVE  /\ n \div Radix \in 0 .. n /\ n % Radix \in Nat
         /\ (n \div Radix) * Radix + (n % Radix) = n
<1>1. Radix \in Nat \ {0}
  BY RadixAssumption
<1>2. n \div Radix \in 0 .. n
  BY <1>1
<1>3. n % Radix \in Nat
  BY <1>1
<1>4. (n \div Radix) * Radix + (n % Radix) = n
  BY <1>1
<1>. QED BY <1>2, <1>3, <1>4

\* There is a function that writes every number up to m, by induction on m.
LEMMA WritingExists == \A m \in Nat : \E g : Writes(g, m)
<1> DEFINE S == {m \in Nat : \E g : Writes(g, m)}
<1>1. 0 \in S
  <2> DEFINE g == [n \in 0 .. 0 |-> << >>]
  <2>1. Writes(g, 0)
    BY DEF Writes
  <2>. QED BY <2>1
<1>2. ASSUME NEW m \in Nat, m \in S PROVE m + 1 \in S
  <2>1. PICK g : Writes(g, m)
    BY <1>2
  <2> DEFINE more == [n \in 0 .. (m + 1) |->
        IF n = m + 1 THEN Append(g[m \div Radix], CapitalOf(m + 1)) ELSE g[n]]
  <2>2. m \div Radix \in 0 .. m
    BY Quotient
  <2>3. ASSUME NEW n \in 0 .. (m + 1)
        PROVE  more[n] = IF n = 0 THEN << >> ELSE Append(more[(n - 1) \div Radix], CapitalOf(n))
    <3>1. CASE n = m + 1
      <4>1. (n - 1) \div Radix = m \div Radix /\ m \div Radix # m + 1 /\ m \div Radix \in 0 .. (m + 1)
        BY <2>2, <3>1
      <4>2. more[(n - 1) \div Radix] = g[m \div Radix]
        BY <4>1
      <4>3. more[n] = Append(g[m \div Radix], CapitalOf(n)) /\ n # 0
        BY <3>1
      <4>. QED BY <4>2, <4>3
    <3>2. CASE n = 0
      BY <2>1, <3>2 DEF Writes
    <3>3. CASE n \in 1 .. m
      <4>1. n - 1 \in Nat /\ (n - 1) \div Radix \in 0 .. (n - 1)
        BY <3>3, Quotient
      <4>2. (n - 1) \div Radix \in 0 .. m /\ n \in 0 .. m /\ n # 0
        BY <3>3, <4>1
      <4>3. g[n] = Append(g[(n - 1) \div Radix], CapitalOf(n))
        BY <2>1, <4>2 DEF Writes
      <4>4. more[n] = g[n] /\ more[(n - 1) \div Radix] = g[(n - 1) \div Radix]
        BY <4>2
      <4>. QED BY <4>2, <4>3, <4>4
    <3>. QED BY <3>1, <3>2, <3>3
  <2>4. Writes(more, m + 1)
    BY <2>3 DEF Writes
  <2>. QED BY <2>4
<1>. QED BY <1>1, <1>2, Keeps!Inductive

\* Capitals is such a function: the choice in its definition has a value.
LEMMA CapitalsWritten == Writes(Capitals, MaxUsize)
<1>1. \E g : Writes(g, MaxUsize)
  BY WritingExists, MaxUsizeAssumption
<1>2. Capitals = CHOOSE g : Writes(g, MaxUsize)
  BY DEF Capitals, Writes, CapitalOf
<1>. QED BY <1>1, <1>2

Letters == [capital : BOOLEAN, place : Nat]
Nought == [ok |-> TRUE, value |-> 0]

\* The capitals of a number are capitals, and weigh as much as it says.
LEMMA CapitalsWeigh ==
  \A n \in 0 .. MaxUsize :
     /\ Capitals[n] \in Seq(Letters)
     /\ \A k \in DOMAIN Capitals[n] : Capitals[n][k].capital = TRUE
     /\ Weighs!Fold(0, Nought, Capitals[n]) = [ok |-> TRUE, value |-> n]
<1> DEFINE P(n) == /\ Capitals[n] \in Seq(Letters)
                   /\ \A k \in DOMAIN Capitals[n] : Capitals[n][k].capital = TRUE
                   /\ Weighs!Fold(0, Nought, Capitals[n]) = [ok |-> TRUE, value |-> n]
           S == {m \in Nat : \A n \in 0 .. m : n \in 0 .. MaxUsize => P(n)}
<1> HIDE DEF P
<1>1. P(0)
  <2>1. Capitals[0] = << >>
    BY CapitalsWritten, MaxUsizeAssumption DEF Writes
  <2>2. Weighs!Fold(0, Nought, << >>) = Nought
    BY Weighs!FoldEmpty
  <2>. QED BY <2>1, <2>2 DEF P, Nought
<1>2. ASSUME NEW m \in Nat, m \in S, m + 1 \in 0 .. MaxUsize PROVE P(m + 1)
  <2> DEFINE q == m \div Radix
             before == Capitals[q]
             c == CapitalOf(m + 1)
  <2>1. q \in 0 .. m /\ q \in 0 .. MaxUsize /\ q * Radix + (m % Radix) = m /\ m % Radix \in Nat
    BY <1>2, Quotient, MaxUsizeAssumption
  <2>2. Capitals[m + 1] = Append(before, c)
    <3>1. m + 1 # 0 /\ (m + 1) - 1 = m
      OBVIOUS
    <3>. QED BY <1>2, <3>1, CapitalsWritten DEF Writes
  <2>3. P(q)
    BY <1>2, <2>1
  <2>4. c \in Letters /\ c.capital = TRUE /\ c.place = m % Radix
    BY <2>1 DEF CapitalOf, Letters
  <2> HIDE DEF q, c, before
  <2>5. before \in Seq(Letters) /\ \A k \in DOMAIN before : before[k].capital = TRUE
    BY <2>3 DEF P, before
  <2>6. Append(before, c) \in Seq(Letters)
    BY <2>4, <2>5
  <2>7. \A k \in DOMAIN Append(before, c) : Append(before, c)[k].capital = TRUE
    BY <2>4, <2>5
  <2>8. Weighs!Fold(0, Nought, Append(before, c)) = Weigh([ok |-> TRUE, value |-> q], c)
    <3>1. Weighs!Fold(0, Nought, Append(before, c)) = Weigh(Weighs!Fold(0, Nought, before), c)
      BY <2>5, Weighs!FoldAppend
    <3>2. Weighs!Fold(0, Nought, before) = [ok |-> TRUE, value |-> q]
      BY <2>3 DEF P, before
    <3>. QED BY <3>1, <3>2
  <2>9. Weigh([ok |-> TRUE, value |-> q], c) = [ok |-> TRUE, value |-> m + 1]
    <3>1. q * Radix + c.place + 1 = m + 1
      BY <2>1, <2>4, RadixAssumption
    <3>2. m + 1 <= MaxUsize
      BY <1>2, MaxUsizeAssumption
    <3>. QED BY <2>4, <3>1, <3>2 DEF Weigh
  <2>. QED BY <2>2, <2>6, <2>7, <2>8, <2>9 DEF P
<1>3. 0 \in S
  <2>1. \A n \in 0 .. 0 : n = 0
    OBVIOUS
  <2>. QED BY <1>1, <2>1
<1>4. ASSUME NEW m \in Nat, m \in S PROVE m + 1 \in S
  <2>1. ASSUME NEW n \in 0 .. (m + 1), n \in 0 .. MaxUsize PROVE P(n)
    <3>1. CASE n = m + 1
      BY <1>2, <1>4, <2>1, <3>1
    <3>2. CASE n \in 0 .. m
      BY <1>4, <2>1, <3>2
    <3>. QED BY <3>1, <3>2
  <2>. QED BY <2>1
<1>5. Nat \subseteq S
  BY <1>3, <1>4, Keeps!Inductive
<1>6. ASSUME NEW n \in 0 .. MaxUsize PROVE P(n)
  <2>1. n \in Nat /\ n \in 0 .. n
    BY MaxUsizeAssumption
  <2>. QED BY <1>5, <2>1
<1>. QED BY <1>6 DEF P

\* A count is read as it was written.
THEOREM CountIsRead ==
  ASSUME NEW n \in 0 .. MaxUsize
  PROVE  DecodeEncodedInteger(EncodedInteger(n)) = [ok |-> TRUE, value |-> n]
<1> DEFINE q == n \div Radix
           before == Capitals[q]
           c == [capital |-> FALSE, place |-> n % Radix]
           letters == EncodedInteger(n)
<1>1. n \in Nat /\ n <= MaxUsize
  BY MaxUsizeAssumption
<1>2. q \in 0 .. n /\ n % Radix \in Nat /\ q * Radix + (n % Radix) = n
  BY <1>1, Quotient
<1>3. q \in 0 .. MaxUsize
  BY <1>1, <1>2, MaxUsizeAssumption
<1>4. letters = Append(before, c)
  BY DEF EncodedInteger
<1>5. /\ before \in Seq(Letters) /\ \A k \in DOMAIN before : before[k].capital = TRUE
      /\ Weighs!Fold(0, Nought, before) = [ok |-> TRUE, value |-> q]
  BY <1>3, CapitalsWeigh
<1>6. c \in Letters /\ c.capital = FALSE /\ c.place = n % Radix
  BY <1>2 DEF Letters
<1> HIDE DEF q, c, before, letters
<1>7. /\ letters # << >>
      /\ \A k \in DOMAIN letters : letters[k].capital <=> k < Len(letters)
  <2>1. /\ Len(letters) = Len(before) + 1 /\ DOMAIN letters = 1 .. (Len(before) + 1)
        /\ \A k \in 1 .. Len(before) : letters[k] = before[k]
        /\ letters[Len(before) + 1] = c /\ Len(before) \in Nat /\ DOMAIN before = 1 .. Len(before)
    BY <1>4, <1>5, <1>6
  <2> DEFINE m == Len(before)
  <2> HIDE DEF m
  <2>2. ASSUME NEW k \in 1 .. (m + 1) PROVE letters[k].capital <=> k < m + 1
    <3>1. m \in Nat
      BY <2>1 DEF m
    <3>2. CASE k = m + 1
      BY <2>1, <1>6, <3>1, <3>2 DEF m
    <3>3. CASE k \in 1 .. m
      BY <2>1, <1>5, <3>1, <3>3 DEF m
    <3>. QED BY <3>1, <3>2, <3>3
  <2>3. letters # << >>
    BY <2>1
  <2>. QED BY <2>1, <2>2, <2>3 DEF m
<1>8. FoldLeft(Weigh, Nought, letters) = Weigh([ok |-> TRUE, value |-> q], c)
  <2>1. Weighs!Fold(0, Nought, Append(before, c)) = Weigh(Weighs!Fold(0, Nought, before), c)
    BY <1>5, Weighs!FoldAppend
  <2>. QED BY <1>4, <1>5, <2>1, WeighsFold
<1>9. Weigh([ok |-> TRUE, value |-> q], c) = [ok |-> TRUE, value |-> n]
  <2>1. q * Radix + c.place + 0 = n
    BY <1>2, <1>6, RadixAssumption
  <2>. QED BY <1>1, <1>6, <2>1 DEF Weigh
<1>10. FoldLeft(Weigh, Nought, letters) = FoldLeft(Weigh, [ok |-> TRUE, value |-> 0], letters)
  BY DEF Nought
<1>11. DecodeEncodedInteger(letters) = FoldLeft(Weigh, [ok |-> TRUE, value |-> 0], letters)
  BY <1>7 DEF DecodeEncodedInteger
<1>. QED BY <1>8, <1>9, <1>10, <1>11 DEF letters

-----------------------------------------------------------------------------
(* Sequences, element by element. *)

\* What holds the empty sequence and is closed under Append holds every sequence.
LEMMA SequencesAreBuilt ==
  ASSUME NEW T, NEW S, << >> \in S,
         \A s \in Seq(T) : \A x \in T : s \in S => Append(s, x) \in S
  PROVE  Seq(T) \subseteq S
<1> DEFINE L == {n \in Nat : \A s \in Seq(T) : Len(s) = n => s \in S}
<1>1. 0 \in L
  <2>1. ASSUME NEW s \in Seq(T), Len(s) = 0 PROVE s \in S
    <3>1. s = << >>
      BY <2>1, EmptySeq
    <3>. QED BY <3>1
  <2>. QED BY <2>1
<1>2. ASSUME NEW n \in Nat, n \in L PROVE n + 1 \in L
  <2>1. ASSUME NEW s \in Seq(T), Len(s) = n + 1 PROVE s \in S
    <3>1. s # << >>
      BY <2>1, EmptySeq
    <3>2. PICK t \in Seq(T), x \in T : s = Append(t, x)
      BY <3>1, SequenceEmptyOrAppend
    <3>3. Len(s) = Len(t) + 1 /\ Len(t) \in Nat
      BY <3>2, AppendProperties, LenProperties
    <3>4. Len(t) = n
      BY <2>1, <3>3
    <3>5. t \in S
      BY <1>2, <3>4
    <3>. QED BY <3>2, <3>5
  <2>. QED BY <2>1
<1>3. Nat \subseteq L
  BY <1>1, <1>2, Keeps!Inductive
<1>4. ASSUME NEW s \in Seq(T) PROVE s \in S
  <2>1. Len(s) \in L
    BY <1>3, LenProperties
  <2>. QED BY <2>1
<1>. QED BY <1>4

-----------------------------------------------------------------------------
(* Documents. *)

\* Nothing is read of nothing.
LEMMA DocumentOfNothing == Document(<< >>) = << >>
BY KeepsFold, Keeps!FoldEmpty DEF Document

\* A document is read one character at a time.
LEMMA DocumentGrows ==
  ASSUME NEW T, NEW s \in Seq(T), NEW x
  PROVE  Document(Append(s, x)) = Keep(Document(s), x)
<1>1. Keeps!Fold(0, << >>, Append(s, x)) = Keep(Keeps!Fold(0, << >>, s), x)
  BY Keeps!FoldAppend
<1>. QED BY <1>1, KeepsFold DEF Document

\* A document is a text without insignificant characters, no longer than the text.
LEMMA DocumentIsShort ==
  ASSUME NEW T, NEW text \in Seq(T)
  PROVE  /\ Document(text) \in Seq(T \ Insignificant)
         /\ Len(Document(text)) <= Len(text)
<1> DEFINE S == {s \in Seq(T) : Document(s) \in Seq(T \ Insignificant) /\ Len(Document(s)) <= Len(s)}
<1>1. << >> \in S
  <2>1. << >> \in Seq(T) /\ << >> \in Seq(T \ Insignificant) /\ Len(<< >>) = 0
    BY EmptySeq
  <2>2. Document(<< >>) \in Seq(T \ Insignificant) /\ Len(Document(<< >>)) = Len(<< >>)
    BY <2>1, DocumentOfNothing
  <2>. QED BY <2>1, <2>2
<1>2. ASSUME NEW s \in Seq(T), NEW x \in T, s \in S PROVE Append(s, x) \in S
  <2>1. Len(Append(s, x)) = Len(s) + 1 /\ Append(s, x) \in Seq(T) /\ Len(s) \in Nat
    OBVIOUS
  <2>2. Document(Append(s, x)) = Keep(Document(s), x)
    BY DocumentGrows
  <2>3. Document(s) \in Seq(T \ Insignificant) /\ Len(Document(s)) <= Len(s) /\ Len(Document(s)) \in Nat
    BY <1>2
  <2>4. CASE x \in Insignificant
    BY <2>1, <2>2, <2>3, <2>4 DEF Keep
  <2>5. CASE x \notin Insignificant
    <3>1. Keep(Document(s), x) = Append(Document(s), x)
      BY <2>5 DEF Keep
    <3>2. /\ Append(Document(s), x) \in Seq(T \ Insignificant)
          /\ Len(Append(Document(s), x)) = Len(Document(s)) + 1
      BY <2>3, <2>5
    <3>3. Len(Document(s)) + 1 <= Len(s) + 1
      BY <2>1, <2>3
    <3>4. /\ Document(Append(s, x)) \in Seq(T \ Insignificant)
          /\ Len(Document(Append(s, x))) <= Len(Append(s, x))
      BY <2>1, <2>2, <3>1, <3>2, <3>3
    <3>. QED BY <2>1, <3>4
  <2>. QED BY <2>4, <2>5
<1>3. Seq(T) \subseteq S
  BY <1>1, <1>2, SequencesAreBuilt
<1>. QED BY <1>3

\* A text without insignificant characters is its own document.
LEMMA DocumentOfDocument ==
  ASSUME NEW T, NEW text \in Seq(T)
  PROVE  Document(Document(text)) = Document(text)
<1> DEFINE S == {s \in Seq(T \ Insignificant) : Document(s) = s}
<1>1. << >> \in S
  BY DocumentOfNothing
<1>2. ASSUME NEW s \in Seq(T \ Insignificant), NEW x \in T \ Insignificant, s \in S
      PROVE  Append(s, x) \in S
  BY <1>2, DocumentGrows DEF Keep
<1>3. Seq(T \ Insignificant) \subseteq S
  BY <1>1, <1>2, SequencesAreBuilt
<1>. QED BY <1>3, DocumentIsShort

-----------------------------------------------------------------------------
(* The payload of a diff: what is written is read. *)

Shares(a, b, n) ==
  /\ n <= Len(b) /\ SubSeq(a, 1, n) = SubSeq(b, 1, n)
  /\ n = Len(a) \/ n = Len(b) \/ a[n + 1] # b[n + 1]

\* Two texts share some prefix, the empty one at least.
LEMMA SharesSome ==
  ASSUME NEW T, NEW a \in Seq(T), NEW b \in Seq(T)
  PROVE  \E n \in 0 .. Len(a) : Shares(a, b, n)
<1> SUFFICES ASSUME \A n \in 0 .. Len(a) : ~Shares(a, b, n) PROVE FALSE
  OBVIOUS
<1> DEFINE S == {n \in Nat : n \in 0 .. Len(a) /\ n <= Len(b) /\ SubSeq(a, 1, n) = SubSeq(b, 1, n)}
<1>0. Len(a) \in Nat /\ Len(b) \in Nat
  OBVIOUS
<1>1. 0 \in S
  <2>1. SubSeq(a, 1, 0) = << >> /\ SubSeq(b, 1, 0) = << >>
    BY SubSeqEmpty
  <2>. QED BY <1>0, <2>1
<1>2. ASSUME NEW n \in Nat, n \in S PROVE n + 1 \in S
  <2>1. n \in 0 .. Len(a) /\ n <= Len(b) /\ SubSeq(a, 1, n) = SubSeq(b, 1, n)
    BY <1>2
  <2>2. n # Len(a) /\ n # Len(b) /\ a[n + 1] = b[n + 1]
    BY <2>1 DEF Shares
  <2>3. n + 1 \in 1 .. Len(a) /\ n + 1 \in 1 .. Len(b)
    BY <1>0, <2>1, <2>2
  <2>4. SubSeq(a, 1, n + 1) = SubSeq(a, 1, n) \o <<a[n + 1]>>
    <3>1. SubSeq(a, 1, n + 1) = SubSeq(a, 1, (n + 1) - 1) \o <<a[n + 1]>>
      BY <2>3, SubSeqRecursiveSecond
    <3>. QED BY <3>1
  <2>5. SubSeq(b, 1, n + 1) = SubSeq(b, 1, n) \o <<b[n + 1]>>
    <3>1. SubSeq(b, 1, n + 1) = SubSeq(b, 1, (n + 1) - 1) \o <<b[n + 1]>>
      BY <2>3, SubSeqRecursiveSecond
    <3>. QED BY <3>1
  <2>6. SubSeq(a, 1, n + 1) = SubSeq(b, 1, n + 1)
    BY <2>1, <2>2, <2>4, <2>5
  <2>. QED BY <1>0, <2>3, <2>6
<1>3. Nat \subseteq S
  BY <1>1, <1>2, Keeps!Inductive
<1>4. Len(a) + 1 \in S
  BY <1>0, <1>3
<1>. QED BY <1>0, <1>4

\* The common prefix is one of them: a prefix of both.
LEMMA CommonPrefixShares ==
  ASSUME NEW T, NEW a \in Seq(T), NEW b \in Seq(T)
  PROVE  /\ CommonPrefix(a, b) \in 0 .. Len(a) /\ CommonPrefix(a, b) <= Len(b)
         /\ SubSeq(a, 1, CommonPrefix(a, b)) = SubSeq(b, 1, CommonPrefix(a, b))
<1>1. CommonPrefix(a, b) = CHOOSE n \in 0 .. Len(a) : Shares(a, b, n)
  BY DEF CommonPrefix, Shares
<1>2. CommonPrefix(a, b) \in 0 .. Len(a) /\ Shares(a, b, CommonPrefix(a, b))
  BY <1>1, SharesSome
<1>. QED BY <1>2 DEF Shares

\* The sections of a diff come in turn: copy, add, del.
LEMMA Sections == SectionType(1) = "copy" /\ SectionType(2) = "add" /\ SectionType(3) = "del"
<1>1. 1 % 3 = 1 /\ 2 % 3 = 2 /\ 3 % 3 = 0
  OBVIOUS
<1>. QED BY <1>1 DEF SectionType

Run(at, text) == [ok |-> TRUE, at |-> at, text |-> text]
Step(op, count, text) == [op |-> op, count |-> count, text |-> text]

\* A copy inside the base moves on in it and takes that part of it.
LEMMA PerformCopy ==
  ASSUME NEW base, Len(base) \in Nat, NEW a \in Nat, NEW t, NEW c \in Nat, NEW u,
         a + c <= Len(base)
  PROVE  Perform(base, Run(a, t), Step("copy", c, u)) = Run(a + c, t \o SubSeq(base, a + 1, a + c))
<1> DEFINE run == Run(a, t)
           i == Step("copy", c, u)
<1>1. /\ run.ok = TRUE /\ i.op = "copy" /\ ~(run.at + i.count > Len(base))
      /\ run.at = a /\ i.count = c /\ run.text = t
  BY DEF Run, Step
<1> HIDE DEF run, i
<1>2. "copy" # "add" /\ "copy" # "del"
  OBVIOUS
<1>3. Perform(base, run, i) =
        [run EXCEPT !.text = @ \o SubSeq(base, run.at + 1, run.at + i.count), !.at = @ + i.count]
  BY <1>1, <1>2, Zenon DEF Perform
<1>4. Perform(base, run, i) =
        [run EXCEPT !.text = run.text \o SubSeq(base, run.at + 1, run.at + i.count),
                    !.at = run.at + i.count]
  BY <1>3 DEF run, Run
<1>. QED BY <1>1, <1>4 DEF run, i, Run, Step

\* A deletion moves on in the base.
LEMMA PerformDel ==
  ASSUME NEW base, NEW a \in Nat, NEW t, NEW c \in Nat, NEW u, a + c <= MaxUsize
  PROVE  Perform(base, Run(a, t), Step("del", c, u)) = Run(a + c, t)
<1> DEFINE run == Run(a, t)
           i == Step("del", c, u)
<1>1. /\ run.ok = TRUE /\ i.op = "del" /\ ~(run.at + i.count > MaxUsize)
      /\ run.at = a /\ i.count = c
  BY MaxUsizeAssumption DEF Run, Step
<1> HIDE DEF run, i
<1>2. "del" # "copy" /\ "del" # "add"
  OBVIOUS
<1>3. Perform(base, run, i) = [run EXCEPT !.at = @ + i.count]
  BY <1>1, <1>2, Zenon DEF Perform
<1>. QED BY <1>1, <1>3 DEF run, i, Run, Step

\* An addition takes its text.
LEMMA PerformAdd ==
  ASSUME NEW base, NEW a, NEW t, NEW c, NEW u
  PROVE  Perform(base, Run(a, t), Step("add", c, u)) = Run(a, t \o u)
<1> DEFINE run == Run(a, t)
           i == Step("add", c, u)
<1>1. run.ok = TRUE /\ i.op = "add" /\ i.text = u /\ run.text = t
  BY DEF Run, Step
<1> HIDE DEF run, i
<1>2. "add" # "copy" /\ "add" # "del"
  OBVIOUS
<1>3. Perform(base, run, i) = [run EXCEPT !.text = @ \o i.text]
  BY <1>1, <1>2, Zenon DEF Perform
<1>. QED BY <1>1, <1>3 DEF run, i, Run, Step

\* Three sections that say what they mean.
LEMMA PayloadIsRead ==
  ASSUME NEW T, NEW from \in Seq(T), NEW to \in Seq(T),
         Len(from) <= MaxUsize, Len(to) <= MaxUsize
  PROVE  /\ Parses(Payload(from, to))
         /\ Assemble(from, Instructions(Payload(from, to))) = Text(to)
         /\ ~HasAstral(to) => \A k \in DOMAIN Payload(from, to) : ~HasAstral(Payload(from, to)[k].text)
<1> DEFINE kept == CommonPrefix(from, to)
           added == SubSeq(to, kept + 1, Len(to))
           payload == Payload(from, to)
           dropped == Len(from) - kept
<1>1. /\ kept \in 0 .. Len(from) /\ kept <= Len(to) /\ SubSeq(from, 1, kept) = SubSeq(to, 1, kept)
      /\ Len(from) \in Nat /\ Len(to) \in Nat /\ kept \in Nat
  BY CommonPrefixShares
<1>2. added \in Seq(T) /\ Len(added) = Len(to) - kept /\ \A i \in 1 .. Len(added) : added[i] = to[kept + i]
  <2>1. kept + 1 \in Int /\ Len(to) \in Int /\ \A i \in kept + 1 .. Len(to) : to[i] \in T
    BY <1>1
  <2>2. /\ added \in Seq(T) /\ Len(added) = IF kept + 1 <= Len(to) THEN Len(to) - (kept + 1) + 1 ELSE 0
        /\ \A i \in 1 .. Len(to) - (kept + 1) + 1 : added[i] = to[(kept + 1) + i - 1]
    BY <2>1, SubSeqProperties
  <2>. QED BY <1>1, <2>2
<1>3. kept \in 0 .. MaxUsize /\ Len(added) \in 0 .. MaxUsize /\ dropped \in 0 .. MaxUsize
  BY <1>1, <1>2, MaxUsizeAssumption
<1>4. payload = <<[count |-> EncodedInteger(kept), text |-> << >>],
                  [count |-> EncodedInteger(Len(added)), text |-> added],
                  [count |-> EncodedInteger(dropped), text |-> << >>]>>
  BY DEF Payload
<1>5. SubSeq(from, 1, kept) \o added = to
  <2>1. SubSeq(to, 1, kept) \o SubSeq(to, kept + 1, Len(to)) = SubSeq(to, 1, Len(to))
    <3>1. 1 \in 1 .. Len(to) + 1 /\ kept \in 1 - 1 .. Len(to) /\ Len(to) \in kept .. Len(to)
      BY <1>1
    <3>. QED BY <3>1, ConcatAdjacentSubSeq
  <2>. QED BY <1>1, <2>1, SubSeqFull
<1> HIDE DEF kept, added, dropped
<1> USE DEF dropped
<1> HIDE DEF dropped
<1>6. /\ DecodeEncodedInteger(EncodedInteger(kept)) = [ok |-> TRUE, value |-> kept]
      /\ DecodeEncodedInteger(EncodedInteger(Len(added))) = [ok |-> TRUE, value |-> Len(added)]
      /\ DecodeEncodedInteger(EncodedInteger(dropped)) = [ok |-> TRUE, value |-> dropped]
  BY <1>3, CountIsRead
<1>7. Instructions(payload) = <<[op |-> "copy", count |-> kept, text |-> << >>],
                                [op |-> "add", count |-> Len(added), text |-> added],
                                [op |-> "del", count |-> dropped, text |-> << >>]>>
  BY <1>4, <1>6, Sections DEF Instructions
<1>8. Parses(payload)
  <2>1. payload # << >> /\ DOMAIN payload = 1 .. 3
    BY <1>4
  <2>2. ASSUME NEW k \in 1 .. 3 PROVE DecodeEncodedInteger(payload[k].count).ok
    BY <1>4, <1>6
  <2>3. ASSUME NEW k \in 1 .. 3, SectionType(k) = "add"
        PROVE  Len(payload[k].text) = Instructions(payload)[k].count
    BY <1>4, <1>7, <2>3, Sections
  <2>. QED BY <2>1, <2>2, <2>3 DEF Parses
<1>9. Assemble(from, Instructions(payload)) = Text(to)
  <2> DEFINE i1 == Step("copy", kept, << >>)
             i2 == Step("add", Len(added), added)
             i3 == Step("del", dropped, << >>)
             start == SubSeq(from, 1, kept)
             s0 == << >>
             s1 == Append(s0, i1)
             s2 == Append(s1, i2)
             s3 == Append(s2, i3)
             I == {i1, i2, i3}
  <2>1. Instructions(payload) = s3
    BY <1>7 DEF Step
  <2>2. s0 \in Seq(I) /\ s1 \in Seq(I) /\ s2 \in Seq(I)
    OBVIOUS
  <2>3. << >> \o start = start /\ start \o added = to
    <3>1. start \in Seq(T)
      <4>1. \A i \in 1 .. kept : from[i] \in T
        BY <1>1
      <4>. QED BY <1>1, <4>1, SubSeqProperties
    <3>. QED BY <1>5, <3>1, ConcatEmptySeq
  <2>4. Perform(from, Run(0, << >>), i1) = Run(kept, start)
    <3> DEFINE a == 0
               t == << >>
    <3>1. a \in Nat /\ a + kept <= Len(from) /\ a + kept = kept /\ a + 1 = 1
      BY <1>1
    <3> HIDE DEF a, t
    <3>2. Perform(from, Run(a, t), Step("copy", kept, t)) = Run(a + kept, t \o SubSeq(from, a + 1, a + kept))
      <4>1. Len(from) \in Nat /\ kept \in Nat
        BY <1>1
      <4>2. a \in Nat /\ a + kept <= Len(from)
        BY <3>1
      <4>. QED BY <4>1, <4>2, PerformCopy
    <3>. QED BY <2>3, <3>1, <3>2 DEF a, t
  <2>5. Perform(from, Run(kept, start), i2) = Run(kept, to)
    <3>1. Perform(from, Run(kept, start), i2) = Run(kept, start \o added)
      BY PerformAdd
    <3>. QED BY <2>3, <3>1
  <2>6. Perform(from, Run(kept, to), i3) = Run(Len(from), to)
    <3>1. kept + dropped = Len(from)
      BY <1>1 DEF dropped
    <3>2. dropped \in Nat
      BY <1>1 DEF dropped
    <3>3. kept + dropped <= MaxUsize
      BY <1>1, <3>1
    <3>4. Perform(from, Run(kept, to), i3) = Run(kept + dropped, to)
      BY <1>1, <3>2, <3>3, PerformDel
    <3>. QED BY <3>1, <3>4
  <2> HIDE DEF i1, i2, i3, start, s0, s1, s2, s3, I
  <2> DEFINE fold(s) == Performs!Fold(from, Run(0, << >>), s)
  <2>7. fold(s1) = Perform(from, fold(s0), i1)
    BY <2>2, Performs!FoldAppend DEF s1
  <2>8. fold(s2) = Perform(from, fold(s1), i2)
    BY <2>2, Performs!FoldAppend DEF s2
  <2>9. fold(s3) = Perform(from, fold(s2), i3)
    BY <2>2, Performs!FoldAppend DEF s3
  <2>10. fold(s0) = Run(0, << >>)
    BY Performs!FoldEmpty DEF s0
  <2>11. fold(s3) = Run(Len(from), to)
    BY <2>4, <2>5, <2>6, <2>7, <2>8, <2>9, <2>10
  <2>12. FoldLeft(LAMBDA run, i : Perform(from, run, i), [ok |-> TRUE, at |-> 0, text |-> << >>], s3)
           = Run(Len(from), to)
    BY <2>11, PerformsFold DEF Run
  <2>13. Run(Len(from), to).ok = TRUE /\ Run(Len(from), to).text = to
    BY DEF Run
  <2>. QED BY <2>1, <2>12, <2>13, Zenon DEF Assemble
<1>10. ASSUME ~HasAstral(to), NEW k \in DOMAIN payload PROVE ~HasAstral(payload[k].text)
  <2>1. \A i \in DOMAIN to : to[i] \notin Astral
    BY <1>10 DEF HasAstral
  <2>2. DOMAIN to = 1 .. Len(to) /\ DOMAIN added = 1 .. Len(added)
    BY <1>2
  <2>3. ASSUME NEW i \in DOMAIN added PROVE added[i] \notin Astral
    <3>1. i \in 1 .. Len(added) /\ added[i] = to[kept + i] /\ kept + i \in DOMAIN to
      BY <1>1, <1>2, <2>2
    <3>. QED BY <2>1, <3>1
  <2>4. ~HasAstral(added) /\ ~HasAstral(<< >>)
    BY <2>3 DEF HasAstral
  <2>5. k \in 1 .. 3
    BY <1>4
  <2>. QED BY <1>4, <2>4, <2>5
<1>. QED BY <1>8, <1>9, <1>10

-----------------------------------------------------------------------------
(* The hypotheses of what follows: texts within a usize, and of one-unit characters. *)

Legible(text) == text \in Seq(Range(text)) /\ Len(text) <= MaxUsize

\* Two texts are texts over one alphabet.
LEMMA Together ==
  ASSUME NEW a, a \in Seq(Range(a)), NEW b, b \in Seq(Range(b))
  PROVE  /\ a \in Seq(Range(a) \union Range(b))
         /\ b \in Seq(Range(a) \union Range(b))
<1>1. Range(a) \subseteq Range(a) \union Range(b) /\ Range(b) \subseteq Range(a) \union Range(b)
  OBVIOUS
<1>2. a \in Seq(Range(a) \union Range(b))
  BY <1>1, SeqMonotonic
<1>3. b \in Seq(Range(a) \union Range(b))
  BY <1>1, SeqMonotonic
<1>. QED BY <1>2, <1>3

\* apply_tlcp_diff on the diff the server makes of two values gives the new one: what the
\* server encodes is what the client reads, for every two texts of one-unit characters.
THEOREM DiffIsRead ==
  ASSUME NEW from, Legible(from), ~HasAstral(from), NEW to, Legible(to), ~HasAstral(to)
  PROVE  ApplyTlcpDiff(from, Payload(from, to)) = Text(to)
<1> DEFINE T == Range(from) \union Range(to)
<1>1. from \in Seq(T) /\ to \in Seq(T) /\ Len(from) <= MaxUsize /\ Len(to) <= MaxUsize
  BY Together DEF Legible
<1> HIDE DEF T
<1>2. /\ Parses(Payload(from, to))
      /\ Assemble(from, Instructions(Payload(from, to))) = Text(to)
      /\ \A k \in DOMAIN Payload(from, to) : ~HasAstral(Payload(from, to)[k].text)
  BY <1>1, PayloadIsRead
<1>. QED BY <1>2 DEF ApplyTlcpDiff

\* apply_json_patch on the patch between two documents gives the new document, whatever
\* text the client holds for the old one.
THEOREM PatchIsRead ==
  ASSUME NEW from, Legible(from), NEW to, Legible(to),
         NEW base, Document(base) = Document(from), Document(from) # << >>
  PROVE  /\ ApplyJsonPatch(base, Payload(Document(from), Document(to))) = Text(Document(to))
         /\ Document(Document(to)) = Document(to)
<1> DEFINE T == Range(from) \union Range(to)
           a == Document(from)
           b == Document(to)
<1>1. from \in Seq(T) /\ to \in Seq(T) /\ Len(from) <= MaxUsize /\ Len(to) <= MaxUsize
  BY Together DEF Legible
<1> HIDE DEF T
<1>2. /\ a \in Seq(T \ Insignificant) /\ Len(a) <= Len(from)
      /\ b \in Seq(T \ Insignificant) /\ Len(b) <= Len(to)
  BY <1>1, DocumentIsShort
<1>3. /\ Len(a) \in Nat /\ Len(b) \in Nat /\ Len(from) \in Nat /\ Len(to) \in Nat
  BY <1>1, <1>2, LenProperties
<1>4. Len(a) <= MaxUsize /\ Len(b) <= MaxUsize
  BY <1>1, <1>2, <1>3, MaxUsizeAssumption
<1>5. Document(b) = b
  BY <1>1, DocumentOfDocument
<1> HIDE DEF a, b
<1>6. Parses(Payload(a, b)) /\ Assemble(a, Instructions(Payload(a, b))) = Text(b)
  BY <1>2, <1>4, PayloadIsRead
<1>7. ApplyJsonPatch(base, Payload(a, b)) = Text(b)
  BY <1>6 DEF ApplyJsonPatch, a
<1>. QED BY <1>5, <1>7 DEF a, b

\* The tag of a supported diff finds its decoder.
LEMMA Decoders ==
  /\ DecoderFor("T") = TlcpDiff /\ "T" \in SupportedDiffs
  /\ "P" \in SupportedDiffs => DecoderFor("P") = Rfc6902
  /\ SupportedDiffs \subseteq {"T", "P"}
<1>1. TlcpDiff.tag = "T" /\ Rfc6902.tag = "P" /\ "T" # "P"
  BY DEF TlcpDiff, Rfc6902
<1>2. CASE JsonPatch
  <2>1. DiffDecoders = <<TlcpDiff, Rfc6902>>
    BY <1>2 DEF DiffDecoders
  <2>2. Range(DiffDecoders) = {TlcpDiff, Rfc6902}
    BY <2>1 DEF Range
  <2>3. SupportedDiffs = {"T", "P"}
    BY <1>1, <2>1 DEF SupportedDiffs
  <2>4. DecoderFor("T") = TlcpDiff /\ DecoderFor("P") = Rfc6902
    BY <1>1, <2>2 DEF DecoderFor
  <2>. QED BY <2>3, <2>4
<1>3. CASE ~JsonPatch
  <2>1. DiffDecoders = <<TlcpDiff>>
    BY <1>3 DEF DiffDecoders
  <2>2. Range(DiffDecoders) = {TlcpDiff}
    BY <2>1 DEF Range
  <2>3. SupportedDiffs = {"T"}
    BY <1>1, <2>1 DEF SupportedDiffs
  <2>4. DecoderFor("T") = TlcpDiff
    BY <1>1, <2>2 DEF DecoderFor
  <2>. QED BY <1>1, <2>3, <2>4
<1>. QED BY <1>2, <1>3

-----------------------------------------------------------------------------
(* One token. *)

Given(value) == value.is \in {"null", "text"}
Agrees(slot, value) == IsSlot(slot) /\ (value.is # "unset" => Equivalent(slot, value))
Verbatim(slot) == slot.is = "text" => slot.form = "AsSent"
Sendable(value) == value.is = "text" => Legible(value.text)

Wide(fields, n) == fields = [f \in 1 .. n |-> fields[f]]
At(a, fields, changed) == [ok |-> TRUE, at |-> a, fields |-> fields, changed |-> changed]

\* Encodings says what it says of each token.
LEMMA EncodingCases ==
  ASSUME NEW old, NEW new, Given(new), NEW token \in Encodings(old, new)
  PROVE  \/ token = NullMark /\ new.is = "null"
         \/ token = EmptyMark /\ new.is = "text" /\ new.text = << >>
         \/ token = Content(new.text) /\ new.is = "text"
         \/ token = Same /\ old = new
         \/ /\ token = Diff("T", Payload(old.text, new.text))
            /\ old.is = "text" /\ new.is = "text" /\ ~HasAstral(old.text) /\ ~HasAstral(new.text)
         \/ /\ token = Diff("P", Payload(Document(old.text), Document(new.text)))
            /\ "P" \in SupportedDiffs /\ old.is = "text" /\ new.is = "text"
            /\ Document(old.text) # << >>
BY DEF Encodings, Given

\* A diff of the server, on a slot that agrees with what it had sent.
LEMMA DiffAgrees ==
  ASSUME NEW slot, NEW old, NEW new, Agrees(slot, old), old.is = "text", new.is = "text",
         Legible(old.text), Legible(new.text),
         NEW tag, NEW payload, NEW result, result = ApplyDiff(slot, tag, payload), result.ok,
         \/ tag = "T" /\ payload = Payload(old.text, new.text)
            /\ ~HasAstral(old.text) /\ ~HasAstral(new.text)
         \/ tag = "P" /\ payload = Payload(Document(old.text), Document(new.text))
            /\ "P" \in SupportedDiffs /\ Document(old.text) # << >>
  PROVE  Agrees(Value(result.text, DecoderFor(tag).resultForm), new)
<1>1. slot.is = "text" /\ slot.form \in {"AsSent", "ClientDerived"}
      /\ IF slot.form = "AsSent" THEN slot.text = old.text ELSE Document(slot.text) = Document(old.text)
  BY DEF Agrees, Equivalent, IsSlot
<1>2. Refused.ok = FALSE /\ \A t : Text(t).ok = TRUE /\ Text(t).text = t
  BY DEF Refused, Text
<1>3. tag \in SupportedDiffs /\ DiffableBase(DecoderFor(tag), slot)
  BY <1>2, Zenon DEF ApplyDiff
<1>4. CASE tag = "T" /\ payload = Payload(old.text, new.text)
            /\ ~HasAstral(old.text) /\ ~HasAstral(new.text)
  <2>1. DecoderFor(tag) = TlcpDiff /\ slot.form = "AsSent"
    <3>1. DecoderFor(tag) = TlcpDiff
      BY <1>4, Decoders
    <3>. QED BY <1>3, <3>1 DEF DiffableBase, TlcpDiff
  <2>2. slot.text = old.text
    BY <1>1, <2>1
  <2>3. result = Text(new.text)
    <3>1. result = ApplyTlcpDiff(slot.text, payload)
      BY <1>3, <1>4, Zenon DEF ApplyDiff
    <3>. QED BY <1>4, <2>2, <3>1, DiffIsRead
  <2>. QED BY <1>2, <2>1, <2>3 DEF Agrees, Equivalent, IsSlot, Value, TlcpDiff
<1>5. CASE tag = "P" /\ payload = Payload(Document(old.text), Document(new.text))
            /\ "P" \in SupportedDiffs /\ Document(old.text) # << >>
  <2>1. DecoderFor(tag) = Rfc6902 /\ tag # "T"
    BY <1>5, Decoders
  <2>2. Document(slot.text) = Document(old.text)
    BY <1>1
  <2>3. result = ApplyJsonPatch(slot.text, payload)
    BY <1>3, <2>1, Zenon DEF ApplyDiff
  <2>4. result = Text(Document(new.text)) /\ Document(Document(new.text)) = Document(new.text)
    BY <1>5, <2>2, <2>3, PatchIsRead
  <2>. QED BY <1>2, <2>1, <2>4 DEF Agrees, Equivalent, IsSlot, Value, Rfc6902
<1>. QED BY <1>4, <1>5

\* A staged slot is written, marked as changed, and the reading moves on by one.
LEMMA StageAt ==
  ASSUME NEW a, NEW fields, NEW changed, NEW slot
  PROVE  Stage(At(a, fields, changed), slot)
           = At(a + 1, [fields EXCEPT ![a] = slot], changed \union {a})
<1> DEFINE done == At(a, fields, changed)
<1>1. done.at = a /\ done.fields = fields /\ done.changed = changed
  BY DEF At
<1>2. Stage(done, slot)
        = [done EXCEPT !.fields = [fields EXCEPT ![a] = slot], !.changed = changed \union {a}, !.at = a + 1]
  BY <1>1 DEF Stage, At
<1>. QED BY <1>2 DEF At

\* A run of unchanged fields is skipped when each of them has a value, and refused if not.
LEMMA SkipAt ==
  ASSUME NEW a \in Nat, NEW fields, NEW changed, NEW count \in Nat
  PROVE  Skip(At(a, fields, changed), count)
           = IF /\ a + count <= Len(fields) + 1
                /\ \A f \in a .. (a + count - 1) : HasBaseline(fields[f])
             THEN At(a + count, fields, changed) ELSE Refused
<1> DEFINE done == At(a, fields, changed)
<1>1. done.at = a /\ done.fields = fields
  BY DEF At
<1>2. [done EXCEPT !.at = a + count] = At(a + count, fields, changed)
  <2> DEFINE moved == [done EXCEPT !.at = a + count]
  <2>1. moved = [x \in {"ok", "at", "fields", "changed"} |-> moved[x]]
    BY DEF At
  <2>2. moved.ok = TRUE /\ moved.at = a + count /\ moved.fields = fields /\ moved.changed = changed
    BY DEF At
  <2> HIDE DEF moved
  <2>3. moved = At(a + count, fields, changed)
    BY <2>1, <2>2 DEF At
  <2>. QED BY <2>3 DEF moved
<1> HIDE DEF done
<1>3. Skip(done, count)
           = IF /\ a + count <= Len(fields) + 1
                /\ \A f \in a .. (a + count - 1) : HasBaseline(fields[f])
             THEN [done EXCEPT !.at = a + count] ELSE Refused
  BY <1>1 DEF Skip
<1>. QED BY <1>2, <1>3 DEF done

\* What one token of the server does to a list read so far.
LEMMA TokenIsRead ==
  ASSUME NEW n \in Nat, NEW a \in 1 .. n, NEW fields, Wide(fields, n),
         NEW changed, NEW old, NEW new, Given(new), Agrees(fields[a], old),
         NEW token \in Encodings(old, new),
         token.is = "diff" => Sendable(old) /\ Sendable(new)
  PROVE  \/ Take(At(a, fields, changed), token) = Refused
         \/ \E slot, all :
               /\ Take(At(a, fields, changed), token) = At(a + 1, [fields EXCEPT ![a] = slot], all)
               /\ Agrees(slot, new)
               /\ token.is # "diff" /\ Verbatim(fields[a]) => Verbatim(slot)
<1> DEFINE done == At(a, fields, changed)
           Put(slot, all) == At(a + 1, [fields EXCEPT ![a] = slot], all)
<1>1. done.ok = TRUE /\ done.at = a /\ done.fields = fields /\ Len(fields) = n /\ ~(a > n)
  BY DEF At, Wide
<1> HIDE DEF done
<1>2. ASSUME NEW slot PROVE \E all : Stage(done, slot) = Put(slot, all)
  <2>1. Stage(done, slot) = Put(slot, changed \union {a})
    BY StageAt DEF done, Put
  <2>. QED BY <2>1
<1> HIDE DEF Put
<1>3. SUFFICES \/ Take(done, token) = Refused
               \/ \E slot, all :
                     /\ Take(done, token) = Put(slot, all) /\ Agrees(slot, new)
                     /\ token.is # "diff" /\ Verbatim(fields[a]) => Verbatim(slot)
  BY DEF done, Put
<1>4. CASE token = NullMark /\ new.is = "null"
  <2>1. token.is = "null"
    BY <1>4 DEF NullMark
  <2>2. Take(done, token) = Stage(done, Null)
    BY <1>1, <2>1 DEF Take
  <2>3. Agrees(Null, new) /\ Verbatim(Null)
    BY <1>4 DEF Agrees, IsSlot, Equivalent, Verbatim, Null
  <2>. QED BY <1>2, <2>2, <2>3
<1>5. CASE token = EmptyMark /\ new.is = "text" /\ new.text = << >>
  <2>1. token.is = "empty"
    BY <1>5 DEF EmptyMark
  <2>2. Take(done, token) = Stage(done, AsSent(<< >>))
    BY <1>1, <2>1 DEF Take
  <2>3. Agrees(AsSent(<< >>), new) /\ Verbatim(AsSent(<< >>))
    BY <1>5 DEF Agrees, IsSlot, Equivalent, Verbatim, AsSent, Value
  <2>. QED BY <1>2, <2>2, <2>3
<1>6. CASE token = Content(new.text) /\ new.is = "text"
  <2>1. token.is = "content" /\ token.text = new.text
    BY <1>6 DEF Content
  <2>2. Take(done, token) = Stage(done, AsSent(new.text))
    BY <1>1, <2>1 DEF Take
  <2>3. Agrees(AsSent(new.text), new) /\ Verbatim(AsSent(new.text))
    BY <1>6 DEF Agrees, IsSlot, Equivalent, Verbatim, AsSent, Value
  <2>. QED BY <1>2, <2>2, <2>3
<1>7. CASE token = Same /\ old = new
  <2>1. token.is = "same"
    BY <1>7 DEF Same
  <2>2. Take(done, token) = Skip(done, 1)
    BY <1>1, <2>1 DEF Take
  <2>3. Take(done, token) = Refused \/ Take(done, token) = Put(fields[a], changed)
    <3>1. Skip(done, 1) = At(a + 1, fields, changed) \/ Skip(done, 1) = Refused
      BY SkipAt DEF done
    <3>2. fields = [fields EXCEPT ![a] = fields[a]]
      BY DEF Wide
    <3>. QED BY <2>2, <3>1, <3>2 DEF Put
  <2>5. Agrees(fields[a], new)
    BY <1>7
  <2>. QED BY <2>3, <2>5
<1>8. CASE \/ /\ token = Diff("T", Payload(old.text, new.text))
              /\ old.is = "text" /\ new.is = "text" /\ ~HasAstral(old.text) /\ ~HasAstral(new.text)
           \/ /\ token = Diff("P", Payload(Document(old.text), Document(new.text)))
              /\ "P" \in SupportedDiffs /\ old.is = "text" /\ new.is = "text"
              /\ Document(old.text) # << >>
  <2> DEFINE result == ApplyDiff(fields[a], token.tag, token.payload)
             slot == Value(result.text, DecoderFor(token.tag).resultForm)
  <2>1. token.is = "diff"
    BY <1>8 DEF Diff
  <2>2. Legible(old.text) /\ Legible(new.text)
    BY <1>8, <2>1 DEF Sendable
  <2>3. \/ token.tag = "T" /\ token.payload = Payload(old.text, new.text)
           /\ ~HasAstral(old.text) /\ ~HasAstral(new.text)
        \/ token.tag = "P" /\ token.payload = Payload(Document(old.text), Document(new.text))
           /\ "P" \in SupportedDiffs /\ Document(old.text) # << >>
    BY <1>8 DEF Diff
  <2>4. old.is = "text" /\ new.is = "text"
    BY <1>8
  <2>5. Take(done, token) = IF result.ok THEN Stage(done, slot) ELSE Refused
    BY <1>1, <2>1 DEF Take
  <2>6. ASSUME result.ok PROVE Agrees(slot, new)
    BY <2>2, <2>3, <2>4, <2>6, DiffAgrees
  <2> HIDE DEF result, slot
  <2>. QED BY <1>2, <2>1, <2>5, <2>6
<1>. QED BY <1>4, <1>5, <1>6, <1>7, <1>8, EncodingCases

-----------------------------------------------------------------------------
(* The list. *)

\* A list with one token for each field, to a client that agrees.
Said(n, fields, old, new, tokens) ==
  /\ n \in Nat /\ Wide(fields, n)
  /\ tokens \in Seq(Range(tokens)) /\ Len(tokens) = n
  /\ \A f \in 1 .. n :
        /\ Given(new[f]) /\ Agrees(fields[f], old[f])
        /\ tokens[f] \in Encodings(old[f], new[f])
        /\ tokens[f].is = "diff" => Sendable(old[f]) /\ Sendable(new[f])

Becomes(before, after, value, token) ==
  /\ Agrees(after, value)
  /\ token.is # "diff" /\ Verbatim(before) => Verbatim(after)

ReadTo(n, fields, new, tokens, j, r) ==
  \/ r = Refused
  \/ \E now, changed :
        /\ r = At(j + 1, now, changed) /\ Wide(now, n)
        /\ \A f \in 1 .. n : IF f <= j THEN Becomes(fields[f], now[f], new[f], tokens[f])
                             ELSE now[f] = fields[f]

\* A list once refused stays refused.
LEMMA RefusedStays == \A token : Take(Refused, token) = Refused
BY DEF Take, Refused

\* One token more of a list of the server is read as it was meant, or refused.
LEMMA StepIsRead ==
  ASSUME NEW n, NEW fields, NEW old, NEW new, NEW tokens, Said(n, fields, old, new, tokens),
         NEW j \in Nat, j + 1 <= n, NEW r, ReadTo(n, fields, new, tokens, j, r)
  PROVE  ReadTo(n, fields, new, tokens, j + 1, Take(r, tokens[j + 1]))
<1>1. CASE r = Refused
  BY <1>1, RefusedStays DEF ReadTo
<1>2. CASE r # Refused
  <2> DEFINE a == j + 1
  <2>1. PICK now, changed :
          /\ r = At(a, now, changed) /\ Wide(now, n)
          /\ \A f \in 1 .. n : IF f <= j THEN Becomes(fields[f], now[f], new[f], tokens[f])
                               ELSE now[f] = fields[f]
    BY <1>2 DEF ReadTo
  <2>2. a \in 1 .. n /\ ~(a <= j) /\ n \in Nat
    BY DEF Said
  <2>3. now[a] = fields[a]
    BY <2>1, <2>2
  <2> HIDE DEF a
  <2>4. /\ Given(new[a]) /\ Agrees(now[a], old[a]) /\ tokens[a] \in Encodings(old[a], new[a])
        /\ tokens[a].is = "diff" => Sendable(old[a]) /\ Sendable(new[a])
    BY <2>2, <2>3 DEF Said
  <2>5. \/ Take(r, tokens[a]) = Refused
        \/ \E slot, all :
               /\ Take(r, tokens[a]) = At(a + 1, [now EXCEPT ![a] = slot], all)
               /\ Agrees(slot, new[a])
               /\ tokens[a].is # "diff" /\ Verbatim(now[a]) => Verbatim(slot)
    <3> DEFINE token == tokens[a]
               before == old[a]
               after == new[a]
    <3>1. /\ Given(after) /\ Agrees(now[a], before) /\ token \in Encodings(before, after)
          /\ token.is = "diff" => Sendable(before) /\ Sendable(after)
      BY <2>4
    <3> HIDE DEF token, before, after
    <3>2. Wide(now, n) /\ a \in 1 .. n /\ n \in Nat
      BY <2>1, <2>2
    <3>3. \/ Take(At(a, now, changed), token) = Refused
          \/ \E slot, all :
               /\ Take(At(a, now, changed), token) = At(a + 1, [now EXCEPT ![a] = slot], all)
               /\ Agrees(slot, after)
               /\ token.is # "diff" /\ Verbatim(now[a]) => Verbatim(slot)
      BY <3>1, <3>2, TokenIsRead
    <3>. QED BY <2>1, <3>3 DEF token, after
  <2>6. CASE Take(r, tokens[a]) = Refused
    BY <2>6 DEF ReadTo, a
  <2>7. CASE Take(r, tokens[a]) # Refused
    <3>1. PICK slot, all :
               /\ Take(r, tokens[a]) = At(a + 1, [now EXCEPT ![a] = slot], all)
               /\ Agrees(slot, new[a])
               /\ tokens[a].is # "diff" /\ Verbatim(now[a]) => Verbatim(slot)
      BY <2>5, <2>7
    <3> DEFINE then == [now EXCEPT ![a] = slot]
    <3>2. Wide(then, n) /\ then[a] = slot /\ \A f \in 1 .. n : f # a => then[f] = now[f]
      BY <2>1, <2>2 DEF Wide
    <3> HIDE DEF then
    <3>3. ASSUME NEW f \in 1 .. n
          PROVE  IF f <= a THEN Becomes(fields[f], then[f], new[f], tokens[f]) ELSE then[f] = fields[f]
      <4>1. CASE f = a
        BY <2>3, <3>1, <3>2, <4>1, <2>2 DEF Becomes
      <4>2. CASE f # a
        <5>1. then[f] = now[f]
          BY <3>2, <4>2
        <5>2. f <= a <=> f <= j
          BY <2>2, <4>2 DEF a
        <5>. QED BY <2>1, <5>1, <5>2
      <4>. QED BY <4>1, <4>2
    <3>. QED BY <3>1, <3>2, <3>3 DEF ReadTo, then, a
  <2>. QED BY <2>6, <2>7 DEF a
<1>. QED BY <1>1, <1>2

\* The prefixes of a list grow by one token each.
LEMMA PrefixGrows ==
  ASSUME NEW tokens, tokens \in Seq(Range(tokens)), NEW j \in Nat, j + 1 <= Len(tokens)
  PROVE  /\ SubSeq(tokens, 1, j) \in Seq(Range(tokens))
         /\ SubSeq(tokens, 1, j + 1) = Append(SubSeq(tokens, 1, j), tokens[j + 1])
<1> DEFINE T == Range(tokens)
<1>1. Len(tokens) \in Nat /\ \A i \in 1 .. j : tokens[i] \in T
  BY DEF Range
<1>2. SubSeq(tokens, 1, j) \in Seq(T)
  BY <1>1, SubSeqProperties
<1>3. SubSeq(tokens, 1, j + 1) = SubSeq(tokens, 1, (j + 1) - 1) \o <<tokens[j + 1]>>
  <2>1. 1 \in 1 .. Len(tokens) /\ j + 1 \in 1 .. Len(tokens)
    BY <1>1
  <2>. QED BY <2>1, SubSeqRecursiveSecond
<1>4. tokens[j + 1] \in T
  BY <1>1 DEF Range
<1> HIDE DEF T
<1>5. Append(SubSeq(tokens, 1, j), tokens[j + 1]) = SubSeq(tokens, 1, j) \o <<tokens[j + 1]>>
  BY <1>2, <1>4, AppendIsConcat
<1>6. (j + 1) - 1 = j
  OBVIOUS
<1>. QED BY <1>2, <1>3, <1>5, <1>6 DEF T

\* Every prefix of a list of the server is read as it was meant, by induction on its length.
LEMMA PrefixIsRead ==
  ASSUME NEW n, NEW fields, NEW old, NEW new, NEW tokens, Said(n, fields, old, new, tokens)
  PROVE  \A j \in 0 .. n : ReadTo(n, fields, new, tokens, j,
                                  Takes!Fold(0, At(1, fields, {}), SubSeq(tokens, 1, j)))
<1> DEFINE r(j) == Takes!Fold(0, At(1, fields, {}), SubSeq(tokens, 1, j))
           S == {j \in Nat : j <= n => ReadTo(n, fields, new, tokens, j, r(j))}
<1>0. n \in Nat /\ tokens \in Seq(Range(tokens)) /\ Len(tokens) = n /\ Wide(fields, n)
  BY DEF Said
<1>1. 0 \in S
  <2>1. SubSeq(tokens, 1, 0) = << >>
    BY SubSeqEmpty
  <2>2. r(0) = At(1, fields, {})
    BY <2>1, Takes!FoldEmpty
  <2> HIDE DEF r
  <2>3. \A f \in 1 .. n : ~(f <= 0)
    BY <1>0
  <2>4. r(0) = At(0 + 1, fields, {})
    BY <2>2
  <2>5. ReadTo(n, fields, new, tokens, 0, r(0))
    BY <1>0, <2>3, <2>4 DEF ReadTo
  <2>. QED BY <2>5
<1>2. ASSUME NEW j \in Nat, j \in S PROVE j + 1 \in S
  <2>1. SUFFICES ASSUME j + 1 <= n PROVE ReadTo(n, fields, new, tokens, j + 1, r(j + 1))
    OBVIOUS
  <2>2. r(j + 1) = Take(r(j), tokens[j + 1])
    <3>1. /\ SubSeq(tokens, 1, j) \in Seq(Range(tokens))
          /\ SubSeq(tokens, 1, j + 1) = Append(SubSeq(tokens, 1, j), tokens[j + 1])
      BY <1>0, <2>1, PrefixGrows
    <3> DEFINE before == SubSeq(tokens, 1, j)
               x == tokens[j + 1]
               base == At(1, fields, {})
               T == Range(tokens)
    <3>2. before \in Seq(T)
      BY <3>1
    <3> HIDE DEF before, x, base, T
    <3>3. Takes!Fold(0, base, Append(before, x)) = Take(Takes!Fold(0, base, before), x)
      BY <3>2, Takes!FoldAppend
    <3>. QED BY <3>1, <3>3 DEF before, x, base
  <2> HIDE DEF r
  <2>3. ReadTo(n, fields, new, tokens, j, r(j))
    BY <1>0, <1>2, <2>1
  <2>4. ReadTo(n, fields, new, tokens, j + 1, Take(r(j), tokens[j + 1]))
    BY <2>1, <2>3, StepIsRead
  <2>. QED BY <2>2, <2>4
<1>3. Nat \subseteq S
  BY <1>1, <1>2, Keeps!Inductive
<1>. QED BY <1>0, <1>3

Kept(tokens, n) == /\ \A k \in n + 1 .. Len(tokens) : tokens[k] = Same
                   /\ n = 0 \/ tokens[n] # Same

\* There is a last token that is not Same, or none.
LEMMA KeptExists ==
  ASSUME NEW tokens, Len(tokens) \in Nat
  PROVE  \E n \in 0 .. Len(tokens) : Kept(tokens, n)
<1> DEFINE T == {m \in Nat : m <= Len(tokens) /\ \A k \in m + 1 .. Len(tokens) : tokens[k] = Same}
<1>1. Len(tokens) \in T
  OBVIOUS
<1>2. PICK m \in T : \A x \in T : m <= x
  BY <1>1, Keeps!Least
<1>3. ASSUME m # 0, tokens[m] = Same PROVE FALSE
  <2>1. m - 1 \in Nat /\ m - 1 <= Len(tokens) /\ ~(m <= m - 1)
    BY <1>3
  <2>2. ASSUME NEW k \in (m - 1) + 1 .. Len(tokens) PROVE tokens[k] = Same
    <3>1. k = m \/ k \in m + 1 .. Len(tokens)
      OBVIOUS
    <3>. QED BY <1>3, <3>1
  <2>3. m - 1 \in T
    BY <2>1, <2>2
  <2>. QED BY <1>2, <2>1, <2>3
<1>. QED BY <1>3 DEF Kept

\* The server says Same of a value that is.
LEMMA SameMeansSame ==
  ASSUME NEW old, NEW new, Given(new), Same \in Encodings(old, new)
  PROVE  old = new
<1>1. Same.is = "same"
  BY DEF Same
<1>. QED BY <1>1, EncodingCases DEF NullMark, EmptyMark, Content, Diff

\* A run of unchanged fields says what as many tokens Same would.
LEMMA RunIsRead ==
  ASSUME NEW n, NEW fields, NEW old, NEW new, NEW tokens, Said(n, fields, old, new, tokens),
         NEW kept \in Nat, kept < n, \A k \in kept + 1 .. n : tokens[k] = Same,
         NEW r, ReadTo(n, fields, new, tokens, kept, r)
  PROVE  ReadTo(n, fields, new, tokens, n, Take(r, UnchangedRun(n - kept)))
<1>1. CASE r = Refused
  BY <1>1, RefusedStays DEF ReadTo
<1>2. CASE r # Refused
  <2> DEFINE a == kept + 1
             count == n - kept
             token == UnchangedRun(count)
  <2>1. PICK now, changed :
          /\ r = At(a, now, changed) /\ Wide(now, n)
          /\ \A f \in 1 .. n : IF f <= kept THEN Becomes(fields[f], now[f], new[f], tokens[f])
                               ELSE now[f] = fields[f]
    BY <1>2 DEF ReadTo
  <2>2. n \in Nat /\ a \in Nat /\ count \in Nat /\ ~(a > n) /\ a + count = n + 1
    BY DEF Said
  <2>3. token.is = "run" /\ token.count = count
    BY DEF UnchangedRun
  <2>4. r.ok = TRUE /\ r.at = a /\ r.fields = now /\ Len(now) = n
    BY <2>1, <2>2 DEF At, Wide
  <2> HIDE DEF a, count, token
  <2>5. Take(r, token) = Skip(r, count)
    BY <2>2, <2>3, <2>4 DEF Take
  <2>6. Skip(r, count) = At(a + count, now, changed) \/ Skip(r, count) = Refused
    BY <2>1, <2>2, SkipAt
  <2>7. ASSUME NEW f \in 1 .. n PROVE Becomes(fields[f], now[f], new[f], tokens[f])
    <3>1. CASE f <= kept
      BY <2>1, <3>1
    <3>2. CASE ~(f <= kept)
      <4>1. f \in kept + 1 .. n
        BY <3>2, <2>2
      <4>2. now[f] = fields[f] /\ tokens[f] = Same
        BY <2>1, <3>2, <4>1
      <4>3. Given(new[f]) /\ Agrees(fields[f], old[f]) /\ tokens[f] \in Encodings(old[f], new[f])
        BY DEF Said
      <4>4. old[f] = new[f]
        BY <4>2, <4>3, SameMeansSame
      <4>. QED BY <4>2, <4>3, <4>4 DEF Becomes
    <3>. QED BY <3>1, <3>2
  <2>8. \A f \in 1 .. n : f <= n
    BY <2>2
  <2>9. CASE Skip(r, count) = At(a + count, now, changed)
    <3>1. Take(r, token) = At(n + 1, now, changed)
      BY <2>2, <2>5, <2>9
    <3>. QED BY <2>1, <2>7, <2>8, <3>1 DEF ReadTo, token, count
  <2>10. CASE Skip(r, count) = Refused
    BY <2>5, <2>10 DEF ReadTo, token, count
  <2>. QED BY <2>6, <2>9, <2>10
<1>. QED BY <1>1, <1>2

\* A whole list, packed or not.
LEMMA ListIsRead ==
  ASSUME NEW n, NEW fields, NEW old, NEW new, NEW tokens, Said(n, fields, old, new, tokens),
         NEW list \in Packed(tokens)
  PROVE  ReadTo(n, fields, new, tokens, n, FoldLeft(Take, At(1, fields, {}), list))
<1> DEFINE base == At(1, fields, {})
           r(j) == Takes!Fold(0, base, SubSeq(tokens, 1, j))
<1>1. n \in Nat /\ tokens \in Seq(Range(tokens)) /\ Len(tokens) = n
  BY DEF Said
<1>2. \A j \in 0 .. n : ReadTo(n, fields, new, tokens, j, r(j))
  BY PrefixIsRead
<1> DEFINE kept == CHOOSE k \in 0 .. Len(tokens) : Kept(tokens, k)
           run == UnchangedRun(n - kept)
<1>3. \/ list = tokens
      \/ kept < n /\ list = SubSeq(tokens, 1, kept) \o <<run>>
  BY <1>1 DEF Packed, Kept
<1>4. kept \in 0 .. n /\ \A k \in kept + 1 .. n : tokens[k] = Same
  <2>1. kept \in 0 .. Len(tokens) /\ Kept(tokens, kept)
    BY <1>1, KeptExists
  <2>. QED BY <1>1, <2>1 DEF Kept
<1> HIDE DEF kept
<1>5. CASE list = tokens
  <2>1. SubSeq(tokens, 1, n) = tokens
    BY <1>1, SubSeqFull
  <2>2. r(n) = FoldLeft(Take, base, list)
    BY <1>5, <2>1, TakesFold
  <2>3. n \in 0 .. n
    BY <1>1
  <2>. QED BY <1>2, <2>2, <2>3
<1>6. CASE kept < n /\ list = SubSeq(tokens, 1, kept) \o <<run>>
  <2> DEFINE before == SubSeq(tokens, 1, kept)
             T == Range(tokens) \union {run}
  <2>1. before \in Seq(T)
    <3>1. \A i \in 1 .. kept : tokens[i] \in T
      BY <1>1, <1>4 DEF Range
    <3>. QED BY <1>4, <3>1, SubSeqProperties
  <2>2. run \in T
    OBVIOUS
  <2> HIDE DEF before, T, run
  <2>3. before \o <<run>> = Append(before, run)
    BY <2>1, <2>2, AppendIsConcat
  <2>4. Takes!Fold(0, base, Append(before, run)) = Take(Takes!Fold(0, base, before), run)
    BY <2>1, Takes!FoldAppend
  <2>5. FoldLeft(Take, base, list) = Take(r(kept), run)
    BY <1>6, <2>3, <2>4, TakesFold DEF before
  <2>6. ReadTo(n, fields, new, tokens, kept, r(kept))
    BY <1>2, <1>4
  <2> HIDE DEF r
  <2>7. ReadTo(n, fields, new, tokens, n, Take(r(kept), run))
    BY <1>4, <1>6, <2>6, RunIsRead DEF run
  <2>. QED BY <2>5, <2>7
<1>. QED BY <1>3, <1>5, <1>6

\* FieldDecoder: a list of the server, packed or not, if it is accepted leaves in every
\* field what the server meant, and a field no one spoke of as it was.
THEOREM ListAgrees ==
  ASSUME NEW n, NEW fields, NEW old, NEW new, NEW tokens, Said(n, fields, old, new, tokens),
         NEW list \in Packed(tokens), Decode(fields, list).ok
  PROVE  /\ Wide(Decode(fields, list).fields, n)
         /\ \A f \in 1 .. n : Becomes(fields[f], Decode(fields, list).fields[f], new[f], tokens[f])
<1> DEFINE end == FoldLeft(Take, At(1, fields, {}), list)
<1>1. ReadTo(n, fields, new, tokens, n, end)
  BY ListIsRead
<1>2. n \in Nat
  BY DEF Said
<1>3. Decode(fields, list) = IF end.ok /\ end.at = Len(fields) + 1 THEN end ELSE Refused
  BY DEF Decode, At
<1> HIDE DEF end
<1>4. Refused.ok = FALSE
  BY DEF Refused
<1>5. Decode(fields, list) = end /\ end # Refused
  BY <1>3, <1>4
<1>6. PICK now, changed :
        /\ end = At(n + 1, now, changed) /\ Wide(now, n)
        /\ \A f \in 1 .. n : IF f <= n THEN Becomes(fields[f], now[f], new[f], tokens[f])
                             ELSE now[f] = fields[f]
  BY <1>1, <1>5 DEF ReadTo
<1>7. end.fields = now
  BY <1>6 DEF At
<1>8. \A f \in 1 .. n : f <= n
  BY <1>2
<1>. QED BY <1>5, <1>6, <1>7, <1>8

-----------------------------------------------------------------------------
(* What the server holds, what a line says of it, and what the client agrees with. *)

Width(m) == IF m = "COMMAND" THEN 3 ELSE 2
Count(m) == IF m = "COMMAND" THEN 1 ELSE NumItems
Positions(m) == IF m = "COMMAND" THEN [key |-> 1, command |-> 2] ELSE NoCommandFields

(* What the server holds. *)
Now == [srv |-> srv, fields |-> srvFields, sent |-> srvSent, eos |-> srvEos, rows |-> srvRows]

IsValue(m, value) == value.is \in {"unset", "null", "text"} /\ (m # "COMMAND" => Sendable(value))

IsView(m, a) ==
  a.srv = "on" =>
     /\ Wide(a.fields, Count(m)) /\ Wide(a.sent, Count(m)) /\ Wide(a.eos, Count(m))
     /\ Wide(a.rows, Count(m))
     /\ \A i \in 1 .. Count(m) :
           /\ Wide(a.fields[i], Width(m))
           /\ \A f \in 1 .. Width(m) : IsValue(m, a.fields[i][f])
           /\ a.rows[i] = [k \in RowKeys |-> a.rows[i][k]]

(* The kind the server means. *)
KindIn(m, asked, a, i) ==
  IF ~asked THEN "RealTime"
  ELSE CASE m = "MERGE" -> IF a.sent[i] THEN "RealTime" ELSE "Snapshot"
         [] m \in {"DISTINCT", "COMMAND"} -> IF a.eos[i] THEN "RealTime" ELSE "Snapshot"
         [] OTHER -> "RealTime"

Spells(m, old, new, list) ==
  \E tokens :
     /\ tokens \in Seq(Range(tokens)) /\ Len(tokens) = Width(m) /\ list \in Packed(tokens)
     /\ \A f \in 1 .. Width(m) : /\ tokens[f] \in Encodings(old[f], new[f])
                                 /\ m = "COMMAND" => tokens[f].is # "diff"

\* One row changes, and the fields say which and how.
RowStep(before, values, after) ==
  \E k \in RowKeys, command \in DOMAIN Literals : \E literal \in Literals[command] :
     /\ values[1] = [is |-> "text", text |-> k]
     /\ values[2] = [is |-> "text", text |-> literal]
     /\ command # "DELETE" => values[3].is = "text"
     /\ after = [before EXCEPT ![k] = IF command = "DELETE" THEN Absent ELSE values[3]]

SaysUpdate(m, asked, a, line, b) ==
  LET i == line.item
      meaning == line.meaning
  IN  /\ Spells(m, a.fields[i], meaning.values, line.tokens)
      /\ Wide(meaning.values, Width(m))
      /\ \A f \in 1 .. Width(m) : Given(meaning.values[f]) /\ IsValue(m, meaning.values[f])
      /\ meaning.rows = [k \in RowKeys |-> meaning.rows[k]]
      /\ m = "COMMAND" => RowStep(a.rows[i], meaning.values, meaning.rows)
      /\ meaning.kind = KindIn(m, asked, a, i)
      /\ b.fields = [a.fields EXCEPT ![i] = meaning.values]
      /\ b.sent = [a.sent EXCEPT ![i] = TRUE]
      /\ b.rows = [a.rows EXCEPT ![i] = meaning.rows]
      /\ b.eos = a.eos

Contradicts(m, line) ==
  /\ line.stray = TRUE
  /\ \/ line.tag = "U" /\ line.item = 1 /\ line.tokens \in StrayLists
     \/ line.tag \in {"U", "EOS", "CS", "OV"} /\ line.item \notin 1 .. Count(m)
     \/ line.tag = "SUB" /\ line.fields = 1 /\ line.commandFields = [key |-> 1, command |-> 2]
     \/ line.tag = "CONF"

(* A line takes the server from a to b. *)
Says(m, asked, a, line, b) ==
  \/ Contradicts(m, line) /\ b = a
  \/ /\ line.stray = FALSE
     /\ \/ /\ line.tag = "SUB" /\ line.items = Count(m) /\ line.fields = Width(m)
           /\ line.commandFields = Positions(m)
           /\ b.srv = "on" /\ b.fields = [i \in 1 .. Count(m) |-> NewItem(Width(m))]
           /\ b.sent = [i \in 1 .. Count(m) |-> FALSE] /\ b.eos = [i \in 1 .. Count(m) |-> FALSE]
           /\ b.rows = [i \in 1 .. Count(m) |-> NoRows]
        \/ /\ line.tag = "U" /\ line.item \in 1 .. Count(m) /\ a.srv = "on" /\ b.srv = "on"
           /\ SaysUpdate(m, asked, a, line, b)
        \/ /\ line.tag = "EOS" /\ line.item \in 1 .. Count(m) /\ a.srv = "on" /\ b.srv = "on"
           /\ b.eos = [a.eos EXCEPT ![line.item] = TRUE]
           /\ b.fields = a.fields /\ b.sent = a.sent /\ b.rows = a.rows
        \/ /\ line.tag = "CS" /\ line.item \in 1 .. Count(m) /\ a.srv = "on" /\ b.srv = "on"
           /\ b.rows = [a.rows EXCEPT ![line.item] = NoRows]
           /\ b.fields = a.fields /\ b.sent = a.sent /\ b.eos = a.eos
        \/ line.tag \in {"OV", "CONF"} /\ b = a
        \/ line.tag = "UNSUB" /\ b.srv = "over"

(* The client agrees with what the server held. *)
Reflects(a) ==
  a.srv = "on" =>
     /\ activation = "active"
     /\ \A i \in 1 .. Count(mode) :
           /\ items[i].endOfSnapshot = a.eos[i]
           /\ i \notin refused =>
                 /\ items[i].seenUpdate = a.sent[i]
                 /\ \A f \in 1 .. Width(mode) : Agrees(items[i].fields[f], a.fields[i][f])
                 /\ mode = "COMMAND" /\ ~HeedsAdvice =>
                       \A k \in RowKeys : SameRow(rows[i][k], a.rows[i][k])

Path(h) ==
  /\ h[Len(wire)] = Now
  /\ Reflects(h[0])
  /\ \A k \in 0 .. Len(wire) : IsView(mode, h[k])
  /\ \A k \in 1 .. Len(wire) : Says(mode, snapshotRequested, h[k - 1], wire[k], h[k])

TrackerShape(m, tracker) ==
  /\ tracker = [fields |-> tracker.fields, seenUpdate |-> tracker.seenUpdate,
                endOfSnapshot |-> tracker.endOfSnapshot]
  /\ tracker.seenUpdate \in BOOLEAN /\ tracker.endOfSnapshot \in BOOLEAN
  /\ Wide(tracker.fields, Width(m))
  /\ \A f \in 1 .. Width(m) :
        /\ IsSlot(tracker.fields[f])
        /\ m = "COMMAND" => Verbatim(tracker.fields[f])

ManagerShape ==
  /\ activation \in {"pending", "active", "ended"}
  /\ activation = "active" =>
        /\ schema = Schema(Count(mode), Width(mode), DeclaredItems, DeclaredFields, Positions(mode))
        /\ Wide(items, Count(mode))
        /\ \A i \in 1 .. Count(mode) : TrackerShape(mode, items[i])
  /\ activation # "active" => items = << >>

CallerShape ==
  /\ refused \subseteq 1 .. Count(mode)
  /\ Wide(rows, Count(mode))
  /\ \A i \in 1 .. Count(mode) : rows[i] = [k \in RowKeys |-> rows[i][k]]

WireShape ==
  /\ mode \in {"RAW", "MERGE", "DISTINCT", "COMMAND"} /\ snapshotRequested \in BOOLEAN
  /\ srv \in {"off", "on", "over"}
  /\ wire \in Seq(Range(wire)) /\ Len(wire) <= WireBound

-----------------------------------------------------------------------------
\* The shape of a subscription follows from its mode.
LEMMA Shapes ==
  /\ FieldCount = Width(mode) /\ ItemCount = Count(mode) /\ Items = 1 .. Count(mode)
  /\ CommandFields = Positions(mode)
BY DEF FieldCount, Width, ItemCount, Count, Items, CommandFields, Positions

\* There are items, and two fields, or three in COMMAND mode.
LEMMA Sizes ==
  \A m : Count(m) \in Nat \ {0} /\ Width(m) \in {2, 3} /\ (Width(m) = 3 <=> m = "COMMAND")
BY BoundAssumption DEF Count, Width

ReadFrom(base, list) == FoldLeft(Take, base, list)

\* A list is read one token at a time.
LEMMA ReadMore ==
  ASSUME NEW base, NEW T, NEW list \in Seq(T), NEW token \in T
  PROVE  /\ ReadFrom(base, Append(list, token)) = Take(ReadFrom(base, list), token)
         /\ Append(list, token) \in Seq(T)
<1>1. Takes!Fold(0, base, Append(list, token)) = Take(Takes!Fold(0, base, list), token)
  BY Takes!FoldAppend
<1>2. Append(list, token) \in Seq(T)
  BY AppendProperties
<1>. QED BY <1>1, <1>2, TakesFold DEF ReadFrom

\* The same, for the lists a server that strays may send: none, two tokens, four.
LEMMA ReadNone ==
  ASSUME NEW base, NEW T
  PROVE  ReadFrom(base, << >>) = base /\ << >> \in Seq(T)
BY Takes!FoldEmpty, TakesFold DEF ReadFrom

LEMMA ReadTwo ==
  ASSUME NEW base, NEW t1, NEW t2
  PROVE  ReadFrom(base, <<t1, t2>>) = Take(Take(base, t1), t2)
<1> DEFINE T == {t1, t2}
           s0 == << >>
           s1 == Append(s0, t1)
           s2 == Append(s1, t2)
<1>1. t1 \in T /\ t2 \in T
  OBVIOUS
<1>2. s2 = <<t1, t2>>
  <2> DEFINE both == [i \in 1 .. 2 |-> IF i = 1 THEN t1 ELSE t2]
  <2>1. s2 = both
    OBVIOUS
  <2>2. <<t1, t2>> = both
    OBVIOUS
  <2> HIDE DEF both, s2
  <2>. QED BY <2>1, <2>2
<1>3. ReadFrom(base, s0) = base /\ s0 \in Seq(T)
  BY ReadNone
<1> HIDE DEF s0, s1, s2, T
<1>4. ReadFrom(base, s1) = Take(ReadFrom(base, s0), t1) /\ s1 \in Seq(T)
  BY <1>1, <1>3, ReadMore DEF s1
<1>5. ReadFrom(base, s2) = Take(ReadFrom(base, s1), t2)
  BY <1>1, <1>4, ReadMore DEF s2
<1>. QED BY <1>2, <1>3, <1>4, <1>5

LEMMA ReadFour ==
  ASSUME NEW base, NEW t
  PROVE  ReadFrom(base, <<t, t, t, t>>) = Take(Take(Take(Take(base, t), t), t), t)
<1> DEFINE T == {t}
           s0 == << >>
           s1 == Append(s0, t)
           s2 == Append(s1, t)
           s3 == Append(s2, t)
           s4 == Append(s3, t)
<1>1. t \in T
  OBVIOUS
<1>2. s4 = <<t, t, t, t>>
  <2> DEFINE four == [i \in 1 .. 4 |-> t]
  <2>1. s4 = four
    OBVIOUS
  <2>2. <<t, t, t, t>> = four
    OBVIOUS
  <2> HIDE DEF four, s4
  <2>. QED BY <2>1, <2>2
<1>3. ReadFrom(base, s0) = base /\ s0 \in Seq(T)
  BY ReadNone
<1> HIDE DEF s0, s1, s2, s3, s4, T
<1>4. ReadFrom(base, s1) = Take(ReadFrom(base, s0), t) /\ s1 \in Seq(T)
  BY <1>1, <1>3, ReadMore DEF s1
<1>5. ReadFrom(base, s2) = Take(ReadFrom(base, s1), t) /\ s2 \in Seq(T)
  BY <1>1, <1>4, ReadMore DEF s2
<1>6. ReadFrom(base, s3) = Take(ReadFrom(base, s2), t) /\ s3 \in Seq(T)
  BY <1>1, <1>5, ReadMore DEF s3
<1>7. ReadFrom(base, s4) = Take(ReadFrom(base, s3), t)
  BY <1>1, <1>6, ReadMore DEF s4
<1>. QED BY <1>2, <1>3, <1>4, <1>5, <1>6, <1>7

\* A literal is taken where a field is left, and refused past the last one.
LEMMA ContentIsTaken ==
  ASSUME NEW n \in Nat, NEW a \in 1 .. n + 1, NEW fields, Wide(fields, n), NEW changed, NEW text
  PROVE  IF a = n + 1 THEN Take(At(a, fields, changed), Content(text)) = Refused
         ELSE \E now, all : /\ Take(At(a, fields, changed), Content(text)) = At(a + 1, now, all)
                            /\ Wide(now, n)
<1> DEFINE done == At(a, fields, changed)
<1>1. done.ok = TRUE /\ done.at = a /\ done.fields = fields /\ Len(fields) = n
  BY DEF At, Wide
<1>2. Content(text).is = "content" /\ Content(text).text = text
  BY DEF Content
<1> HIDE DEF done
<1>3. CASE a = n + 1
  <2>1. done.at > Len(done.fields)
    BY <1>1, <1>3
  <2>. QED BY <1>1, <1>3, <2>1 DEF Take, done
<1>4. CASE a # n + 1
  <2>1. ~(done.at > Len(done.fields)) /\ a \in 1 .. n
    BY <1>1, <1>4
  <2>2. Take(done, Content(text)) = Stage(done, AsSent(text))
    BY <1>1, <1>2, <2>1 DEF Take
  <2>3. Stage(done, AsSent(text)) = At(a + 1, [fields EXCEPT ![a] = AsSent(text)], changed \union {a})
    BY StageAt DEF done
  <2>4. Wide([fields EXCEPT ![a] = AsSent(text)], n)
    BY <2>1 DEF Wide
  <2>. QED BY <1>4, <2>2, <2>3, <2>4 DEF done
<1>. QED BY <1>3, <1>4

\* A list the decoder must refuse is refused.
LEMMA StrayIsRefused ==
  ASSUME NEW n \in {2, 3}, NEW fields, Wide(fields, n), NEW list \in StrayLists
  PROVE  ~Decode(fields, list).ok
<1> DEFINE v == CHOOSE v \in Values : TRUE
           x == Content(v)
           base == At(1, fields, {})
           odd == Diff("X", <<[count |-> EncodedInteger(0), text |-> << >>]>>)
<1>1. \/ list = <<x, Malformed>> \/ list = <<x, x, x, x>> \/ list = <<x, UnchangedRun(9)>>
      \/ list = <<x, odd>>
  BY DEF StrayLists
<1> HIDE DEF v
<1>2. PICK f2, c2 : Take(base, x) = At(2, f2, c2) /\ Wide(f2, n)
  <2>1. n \in Nat /\ 1 \in 1 .. n + 1 /\ 1 # n + 1 /\ 1 + 1 = 2
    OBVIOUS
  <2>. QED BY <2>1, ContentIsTaken
<1> DEFINE second == At(2, f2, c2)
<1>3. second.ok = TRUE /\ second.at = 2 /\ second.fields = f2 /\ Len(f2) = n /\ ~(2 > n)
  BY <1>2 DEF At, Wide
<1>4. Decode(fields, list) = IF ReadFrom(base, list).ok
                                /\ ReadFrom(base, list).at = Len(fields) + 1
                             THEN ReadFrom(base, list) ELSE Refused
  BY DEF Decode, At, ReadFrom
<1>5. Refused.ok = FALSE
  BY DEF Refused
<1>6. SUFFICES ReadFrom(base, list) = Refused
  BY <1>4, <1>5
<1> HIDE DEF x, base, odd, second
<1>7. CASE list = <<x, Malformed>>
  <2>1. Malformed.is = "malformed"
    BY DEF Malformed
  <2>2. Take(second, Malformed) = Refused
    BY <1>3, <2>1 DEF Take
  <2>10. ReadFrom(base, <<x, Malformed>>) = Take(Take(base, x), Malformed)
    BY ReadTwo
  <2>. QED BY <1>2, <1>7, <2>2, <2>10 DEF second
<1>8. CASE list = <<x, UnchangedRun(9)>>
  <2>1. UnchangedRun(9).is = "run" /\ UnchangedRun(9).count = 9
    BY DEF UnchangedRun
  <2>2. Take(second, UnchangedRun(9)) = Skip(second, 9)
    BY <1>3, <2>1 DEF Take
  <2>3. ~(2 + 9 <= Len(f2) + 1)
    BY <1>3
  <2>4. Skip(second, 9) = Refused
    BY <2>3, SkipAt DEF second
  <2>10. ReadFrom(base, <<x, UnchangedRun(9)>>) = Take(Take(base, x), UnchangedRun(9))
    BY ReadTwo
  <2>. QED BY <1>2, <1>8, <2>2, <2>4, <2>10 DEF second
<1>9. CASE list = <<x, odd>>
  <2>1. odd.is = "diff" /\ odd.tag = "X" /\ "X" \notin SupportedDiffs
    BY Decoders DEF odd, Diff
  <2>2. ApplyDiff(f2[2], odd.tag, odd.payload) = Refused
    BY <2>1 DEF ApplyDiff
  <2>3. Take(second, odd) = Refused
    BY <1>3, <1>5, <2>1, <2>2 DEF Take
  <2>10. ReadFrom(base, <<x, odd>>) = Take(Take(base, x), odd)
    BY ReadTwo
  <2>. QED BY <1>2, <1>9, <2>3, <2>10 DEF second
<1>10. CASE list = <<x, x, x, x>>
  <2>1. n \in Nat /\ 2 \in 1 .. n + 1 /\ 2 # n + 1 /\ 2 + 1 = 3 /\ 3 + 1 = 4
    OBVIOUS
  <2>2. PICK f3, c3 : Take(second, x) = At(3, f3, c3) /\ Wide(f3, n)
    BY <1>2, <2>1, ContentIsTaken DEF second, x
  <2>5. ReadFrom(base, <<x, x, x, x>>) = Take(Take(Take(Take(base, x), x), x), x)
    BY ReadFour
  <2>3. CASE n = 2
    <3>1. Take(At(3, f3, c3), x) = Refused
      <4>1. 3 \in 1 .. n + 1 /\ 3 = n + 1
        BY <2>3
      <4>. QED BY <2>1, <2>2, <4>1, ContentIsTaken DEF x
    <3>2. Take(Refused, x) = Refused
      BY RefusedStays
    <3>. QED BY <1>2, <1>10, <2>2, <2>5, <3>1, <3>2 DEF second
  <2>4. CASE n = 3
    <3>1. 3 \in 1 .. n + 1 /\ 3 # n + 1 /\ 4 \in 1 .. n + 1 /\ 4 = n + 1
      BY <2>4
    <3>2. PICK f4, c4 : Take(At(3, f3, c3), x) = At(4, f4, c4) /\ Wide(f4, n)
      BY <2>1, <2>2, <3>1, ContentIsTaken DEF x
    <3>3. Take(At(4, f4, c4), x) = Refused
      BY <2>1, <3>1, <3>2, ContentIsTaken DEF x
    <3>. QED BY <1>2, <1>10, <2>2, <2>5, <3>2, <3>3 DEF second
  <2>. QED BY <2>3, <2>4
<1>. QED BY <1>1, <1>7, <1>8, <1>9, <1>10

\* A list of the server is read as it was meant, if it is read.
LEMMA SpelledIsRead ==
  ASSUME NEW m, NEW fields, Wide(fields, Width(m)), NEW old, NEW new, NEW list,
         Spells(m, old, new, list), Decode(fields, list).ok,
         \A f \in 1 .. Width(m) : /\ Given(new[f]) /\ IsValue(m, new[f]) /\ IsValue(m, old[f])
                                  /\ Agrees(fields[f], old[f])
  PROVE  /\ Wide(Decode(fields, list).fields, Width(m))
         /\ \A f \in 1 .. Width(m) :
               /\ Agrees(Decode(fields, list).fields[f], new[f])
               /\ m = "COMMAND" /\ Verbatim(fields[f]) => Verbatim(Decode(fields, list).fields[f])
<1> DEFINE n == Width(m)
<1>1. PICK tokens :
        /\ tokens \in Seq(Range(tokens)) /\ Len(tokens) = n /\ list \in Packed(tokens)
        /\ \A f \in 1 .. n : /\ tokens[f] \in Encodings(old[f], new[f])
                             /\ m = "COMMAND" => tokens[f].is # "diff"
  BY DEF Spells
<1>2. n \in Nat
  BY Sizes
<1>3. Said(n, fields, old, new, tokens)
  BY <1>1, <1>2 DEF Said, IsValue
<1> HIDE DEF n
<1>4. /\ Wide(Decode(fields, list).fields, n)
      /\ \A f \in 1 .. n : Becomes(fields[f], Decode(fields, list).fields[f], new[f], tokens[f])
  BY <1>1, <1>3, ListAgrees
<1>. QED BY <1>1, <1>4 DEF n, Becomes

\* Every spelling the server may choose spells the values it means.
LEMMA SpellingsSpell ==
  ASSUME NEW old, NEW new, NEW list \in Spellings(old, new)
  PROVE  Spells(mode, old, new, list)
<1> DEFINE all(f) == Encodings(old[f], new[f])
           plain(f) == {token \in all(f) : token.is # "diff"}
<1>1. CASE FieldCount = 2
  <2>1. PICK tokens \in all(1) \X all(2) : list \in Packed(tokens)
    BY <1>1 DEF Spellings
  <2>2. tokens = <<tokens[1], tokens[2]>> /\ tokens[1] \in all(1) /\ tokens[2] \in all(2)
    OBVIOUS
  <2>3. Width(mode) = 2 /\ mode # "COMMAND" /\ \A f \in 1 .. 2 : f = 1 \/ f = 2
    BY <1>1, Shapes, Sizes
  <2>4. tokens \in Seq(Range(tokens)) /\ Len(tokens) = 2
    <3>1. \A a, b : <<a, b>> \in Seq(Range(<<a, b>>)) /\ Len(<<a, b>>) = 2
      BY DEF Range
    <3>. QED BY <2>2, <3>1
  <2>. QED BY <2>1, <2>2, <2>3, <2>4 DEF Spells
<1>2. CASE FieldCount # 2
  <2>1. PICK tokens \in plain(1) \X plain(2) \X plain(3) : list \in Packed(tokens)
    BY <1>2 DEF Spellings
  <2>2. /\ tokens = <<tokens[1], tokens[2], tokens[3]>>
        /\ tokens[1] \in plain(1) /\ tokens[2] \in plain(2) /\ tokens[3] \in plain(3)
    OBVIOUS
  <2>3. Width(mode) = 3 /\ \A f \in 1 .. 3 : f = 1 \/ f = 2 \/ f = 3
    BY <1>2, Shapes, Sizes
  <2>4. tokens \in Seq(Range(tokens)) /\ Len(tokens) = 3
    <3>1. \A a, b, c : <<a, b, c>> \in Seq(Range(<<a, b, c>>)) /\ Len(<<a, b, c>>) = 3
      BY DEF Range
    <3>. QED BY <2>2, <3>1
  <2>. QED BY <2>1, <2>2, <2>3, <2>4 DEF Spells
<1>. QED BY <1>1, <1>2

-----------------------------------------------------------------------------
(* What is decoded keeps its shape. *)

\* Whatever is decoded is as wide as before, and made of slots.
Shaped(n, plain, r) ==
  r.ok => /\ r = At(r.at, r.fields, r.changed) /\ Wide(r.fields, n)
          /\ \A f \in 1 .. n : IsSlot(r.fields[f]) /\ (plain => Verbatim(r.fields[f]))

\* Staging a slot keeps the shape of what is decoded.
LEMMA StageIsShaped ==
  ASSUME NEW n \in Nat, NEW plain, NEW r, r.ok, Shaped(n, plain, r), NEW slot, IsSlot(slot),
         plain => Verbatim(slot)
  PROVE  Shaped(n, plain, Stage(r, slot))
<1> DEFINE a == r.at
           fields == r.fields
           changed == r.changed
           then == [fields EXCEPT ![a] = slot]
<1>1. r = At(a, fields, changed) /\ Wide(fields, n)
      /\ \A f \in 1 .. n : IsSlot(fields[f]) /\ (plain => Verbatim(fields[f]))
  BY DEF Shaped
<1> HIDE DEF a, fields, changed
<1>2. Stage(r, slot) = At(a + 1, then, changed \union {a})
  BY <1>1, StageAt
<1>3. Wide(then, n)
  BY <1>1 DEF Wide
<1>4. ASSUME NEW f \in 1 .. n PROVE IsSlot(then[f]) /\ (plain => Verbatim(then[f]))
  <2>1. then[f] = IF f = a THEN slot ELSE fields[f]
    BY <1>1 DEF Wide
  <2>. QED BY <1>1, <2>1
<1> HIDE DEF then
<1>5. /\ Stage(r, slot).fields = then /\ Stage(r, slot).at = a + 1
      /\ Stage(r, slot).changed = changed \union {a}
  BY <1>2 DEF At
<1>. QED BY <1>2, <1>3, <1>4, <1>5 DEF Shaped

\* So does skipping.
LEMMA SkipIsShaped ==
  ASSUME NEW n \in Nat, NEW plain, NEW r, r.ok, Shaped(n, plain, r), NEW count
  PROVE  Shaped(n, plain, Skip(r, count))
<1> DEFINE moved == [r EXCEPT !.at = @ + count]
           a == r.at
           fields == r.fields
           changed == r.changed
<1>1. r = At(a, fields, changed) /\ Wide(fields, n)
      /\ \A f \in 1 .. n : IsSlot(fields[f]) /\ (plain => Verbatim(fields[f]))
  BY DEF Shaped
<1> HIDE DEF a, fields, changed
<1>2. moved = [x \in {"ok", "at", "fields", "changed"} |-> moved[x]]
  BY <1>1 DEF At
<1>3. moved.ok = TRUE /\ moved.fields = fields /\ moved.changed = changed
  BY <1>1 DEF At
<1> HIDE DEF moved
<1>4. moved = At(moved.at, fields, changed)
  BY <1>2, <1>3 DEF At
<1>5. Shaped(n, plain, moved)
  BY <1>1, <1>3, <1>4 DEF Shaped
<1>6. Skip(r, count) = moved \/ Skip(r, count) = Refused
  BY DEF Skip, moved
<1>7. Shaped(n, plain, Refused)
  BY DEF Shaped, Refused
<1>. QED BY <1>5, <1>6, <1>7

\* So does any token; without diffs, every text is as it was sent.
LEMMA TakeIsShaped ==
  ASSUME NEW n \in Nat, NEW plain, NEW r, Shaped(n, plain, r), NEW token,
         plain => token.is # "diff"
  PROVE  Shaped(n, plain, Take(r, token))
<1>0. Shaped(n, plain, Refused)
  BY DEF Shaped, Refused
<1>1. CASE ~r.ok
  BY <1>1 DEF Take
<1>2. CASE r.ok /\ r.at > Len(r.fields)
  BY <1>0, <1>2 DEF Take
<1>3. CASE r.ok /\ ~(r.at > Len(r.fields))
  <2>1. ASSUME NEW count PROVE Shaped(n, plain, Skip(r, count))
    BY <1>3, SkipIsShaped
  <2>2. ASSUME NEW text PROVE Shaped(n, plain, Stage(r, AsSent(text)))
    <3>1. IsSlot(AsSent(text)) /\ Verbatim(AsSent(text))
      BY DEF IsSlot, AsSent, Value, Verbatim
    <3>. QED BY <1>3, <3>1, StageIsShaped
  <2>3. Shaped(n, plain, Stage(r, Null))
    <3>1. IsSlot(Null) /\ Verbatim(Null)
      BY DEF IsSlot, Null, Verbatim
    <3>. QED BY <1>3, <3>1, StageIsShaped
  <2>4. CASE token.is = "diff"
    <3> DEFINE result == ApplyDiff(r.fields[r.at], token.tag, token.payload)
               slot == Value(result.text, DecoderFor(token.tag).resultForm)
    <3>1. Take(r, token) = IF result.ok THEN Stage(r, slot) ELSE Refused
      BY <1>3, <2>4 DEF Take
    <3>2. ASSUME result.ok PROVE Shaped(n, plain, Stage(r, slot))
      <4>1. Refused.ok = FALSE
        BY DEF Refused
      <4>2. token.tag \in SupportedDiffs
        BY <3>2, <4>1 DEF ApplyDiff
      <4>3. DecoderFor(token.tag).resultForm \in {"AsSent", "ClientDerived"}
        <5>1. DecoderFor(token.tag) = TlcpDiff \/ DecoderFor(token.tag) = Rfc6902
          BY <4>2, Decoders
        <5>2. TlcpDiff.resultForm = "AsSent" /\ Rfc6902.resultForm = "ClientDerived"
          BY DEF TlcpDiff, Rfc6902
        <5>. QED BY <5>1, <5>2
      <4>4. IsSlot(slot)
        BY <4>3 DEF IsSlot, Value
      <4>5. ~plain
        BY <2>4
      <4> HIDE DEF slot, result
      <4>. QED BY <1>3, <4>4, <4>5, StageIsShaped
    <3> HIDE DEF slot, result
    <3>. QED BY <1>0, <3>1, <3>2
  <2>5. CASE token.is # "diff"
    <3>1. \/ Take(r, token) = Skip(r, 1) \/ Take(r, token) = Skip(r, token.count)
          \/ Take(r, token) = Stage(r, Null) \/ Take(r, token) = Stage(r, AsSent(<< >>))
          \/ Take(r, token) = Stage(r, AsSent(token.text)) \/ Take(r, token) = Refused
      BY <1>3, <2>5 DEF Take
    <3>. QED BY <1>0, <2>1, <2>2, <2>3, <3>1
  <2>. QED BY <2>4, <2>5
<1>. QED BY <1>1, <1>2, <1>3

\* So does a list, by induction on its length.
LEMMA DecodeIsShaped ==
  ASSUME NEW n \in Nat, NEW plain, NEW fields, Wide(fields, n),
         \A f \in 1 .. n : IsSlot(fields[f]) /\ (plain => Verbatim(fields[f])),
         NEW T, NEW list \in Seq(T), plain => \A token \in T : token.is # "diff"
  PROVE  Shaped(n, plain, Decode(fields, list))
<1> DEFINE base == At(1, fields, {})
           S == {l \in Seq(T) : Shaped(n, plain, ReadFrom(base, l))}
<1>1. << >> \in S
  <2>1. base.ok = TRUE /\ base.at = 1 /\ base.fields = fields /\ base.changed = {}
    BY DEF At
  <2>2. Shaped(n, plain, base)
    BY <2>1 DEF Shaped
  <2> HIDE DEF base
  <2>. QED BY <2>2, ReadNone
<1>2. ASSUME NEW l \in Seq(T), NEW token \in T, l \in S PROVE Append(l, token) \in S
  <2> HIDE DEF base
  <2>1. /\ ReadFrom(base, Append(l, token)) = Take(ReadFrom(base, l), token)
        /\ Append(l, token) \in Seq(T)
    BY ReadMore
  <2>2. Shaped(n, plain, ReadFrom(base, l))
    BY <1>2
  <2>3. Shaped(n, plain, Take(ReadFrom(base, l), token))
    BY <2>2, TakeIsShaped
  <2>. QED BY <2>1, <2>3
<1>3. Seq(T) \subseteq S
  <2> HIDE DEF base, S
  <2>. QED BY <1>1, <1>2, SequencesAreBuilt
<1>4. Shaped(n, plain, ReadFrom(base, list))
  BY <1>3
<1>5. Decode(fields, list) = ReadFrom(base, list) \/ Decode(fields, list) = Refused
  BY DEF Decode, ReadFrom, At
<1>6. Shaped(n, plain, Refused)
  BY DEF Shaped, Refused
<1> HIDE DEF base
<1>. QED BY <1>4, <1>5, <1>6

\* So does a list of the server, packed or not.
LEMMA SpelledIsShaped ==
  ASSUME NEW m, NEW tracker, TrackerShape(m, tracker), NEW old, NEW new, NEW list,
         Spells(m, old, new, list), Decode(tracker.fields, list).ok
  PROVE  /\ Wide(Decode(tracker.fields, list).fields, Width(m))
         /\ \A f \in 1 .. Width(m) :
               /\ IsSlot(Decode(tracker.fields, list).fields[f])
               /\ m = "COMMAND" => Verbatim(Decode(tracker.fields, list).fields[f])
<1> DEFINE n == Width(m)
<1>1. PICK tokens :
        /\ tokens \in Seq(Range(tokens)) /\ Len(tokens) = n /\ list \in Packed(tokens)
        /\ \A f \in 1 .. n : /\ tokens[f] \in Encodings(old[f], new[f])
                             /\ m = "COMMAND" => tokens[f].is # "diff"
  BY DEF Spells
<1>2. n \in Nat
  BY Sizes
<1> DEFINE kept == CHOOSE k \in 0 .. Len(tokens) : Kept(tokens, k)
           run == UnchangedRun(Len(tokens) - kept)
           T == Range(tokens) \union {run}
<1>3. list = tokens \/ list = SubSeq(tokens, 1, kept) \o <<run>>
  BY <1>1 DEF Packed, Kept
<1>4. kept \in 0 .. n
  BY <1>1, <1>2, KeptExists
<1>5. run.is = "run"
  BY DEF UnchangedRun
<1>6. ASSUME m = "COMMAND", NEW token \in T PROVE token.is # "diff"
  <2>1. DOMAIN tokens = 1 .. n
    BY <1>1
  <2>. QED BY <1>1, <1>5, <1>6, <2>1 DEF Range
<1> HIDE DEF kept, run
<1>7. list \in Seq(T)
  <2>1. tokens \in Seq(T)
    BY <1>1, SeqMonotonic
  <2>2. SubSeq(tokens, 1, kept) \in Seq(T)
    <3>1. \A i \in 1 .. kept : tokens[i] \in T
      BY <1>1, <1>2, <1>4 DEF Range
    <3>. QED BY <1>4, <3>1, SubSeqProperties
  <2>3. <<run>> \in Seq(T)
    OBVIOUS
  <2> HIDE DEF T
  <2>4. SubSeq(tokens, 1, kept) \o <<run>> \in Seq(T)
    BY <2>2, <2>3, ConcatProperties
  <2>. QED BY <1>3, <2>1, <2>4
<1> DEFINE plain == m = "COMMAND"
           fields == tracker.fields
<1>8. Wide(fields, n)
  BY DEF TrackerShape
<1>9. ASSUME NEW f \in 1 .. n PROVE IsSlot(fields[f]) /\ (plain => Verbatim(fields[f]))
  BY DEF TrackerShape
<1>10. plain => \A token \in T : token.is # "diff"
  BY <1>6
<1> HIDE DEF T, n, fields, plain
<1>11. Shaped(n, plain, Decode(fields, list))
  BY <1>2, <1>7, <1>8, <1>9, <1>10, DecodeIsShaped
<1>. QED BY <1>11 DEF Shaped, n, plain, fields

-----------------------------------------------------------------------------
(* The manager's steps: activation, snapshots, and the end. *)

Settled(a) == ManagerShape /\ CallerShape /\ Reflects(a)

\* An item is known while the subscription is active and its number is in range.
LEMMA ItemPositionMeans ==
  ASSUME ManagerShape, NEW i
  PROVE  ItemPosition(i) <=> activation = "active" /\ i \in 1 .. Count(mode)
<1>1. Count(mode) \in Nat
  BY Sizes
<1>2. activation = "active" => Len(items) = Count(mode)
  BY <1>1 DEF ManagerShape, Wide
<1>. QED BY <1>2 DEF ItemPosition

\* What is settled stays so while the client rests.
LEMMA ClientRestsSettled ==
  ASSUME NEW a, Settled(a), UNCHANGED <<mode, activation, schema, items, refused, rows>>
  PROVE  Settled(a)'
BY DEF Settled, ManagerShape, CallerShape, Reflects, DeclaredItems, DeclaredFields

\* handle_subscription: the schema is the one the server has, the items start afresh.
LEMMA ActivateStep ==
  ASSUME NEW a, NEW b, Settled(a), Says(mode, snapshotRequested, a, Head(wire), b), Activate
  PROVE  Settled(b)'
<1> DEFINE line == Head(wire)
<1>1. line.tag = "SUB" /\ mode' = mode
  BY DEF Activate, Line, Refuse, Tell
<1>2. CASE Contradicts(mode, line)
  <2>1. line.fields = 1 /\ line.commandFields = [key |-> 1, command |-> 2] /\ b = a
    BY <1>1, <1>2 DEF Contradicts, Says
  <2>2. ~CommandFieldPosition(line)
    BY <2>1 DEF CommandFieldPosition, NoCommandFields
  <2>3. UNCHANGED <<mode, activation, schema, items, refused, rows>>
    BY <2>2 DEF Activate, Refuse, Tell
  <2>. QED BY <2>1, <2>3, ClientRestsSettled
<1>3. CASE ~Contradicts(mode, line)
  <2>1. /\ line.items = Count(mode) /\ line.fields = Width(mode) /\ line.commandFields = Positions(mode)
        /\ b.srv = "on" /\ b.fields = [i \in 1 .. Count(mode) |-> NewItem(Width(mode))]
        /\ b.sent = [i \in 1 .. Count(mode) |-> FALSE] /\ b.eos = [i \in 1 .. Count(mode) |-> FALSE]
        /\ b.rows = [i \in 1 .. Count(mode) |-> NoRows]
    BY <1>1, <1>3 DEF Says
  <2>2. CommandFieldPosition(line)
    BY <2>1 DEF CommandFieldPosition, Positions, Width
  <2>3. /\ activation' = "active"
        /\ schema' = Schema(Count(mode), Width(mode), DeclaredItems, DeclaredFields, Positions(mode))
        /\ items' = [i \in 1 .. Count(mode) |-> NewTracker(Width(mode))]
        /\ refused' = {} /\ rows' = [i \in 1 .. Count(mode) |-> NoRows]
    BY <2>1, <2>2, Shapes DEF Activate
  <2>4. /\ Wide(NewItem(Width(mode)), Width(mode))
        /\ \A f \in 1 .. Width(mode) : NewItem(Width(mode))[f] = Unset
    BY DEF Wide, NewItem
  <2>5. IsSlot(Unset) /\ Verbatim(Unset) /\ Agrees(Unset, Unset)
    BY DEF IsSlot, Unset, Verbatim, Agrees
  <2> DEFINE fresh == NewTracker(Width(mode))
  <2>6. /\ fresh.fields = NewItem(Width(mode)) /\ fresh.seenUpdate = FALSE /\ fresh.endOfSnapshot = FALSE
        /\ fresh = [fields |-> fresh.fields, seenUpdate |-> fresh.seenUpdate,
                    endOfSnapshot |-> fresh.endOfSnapshot]
    BY DEF NewTracker
  <2> HIDE DEF fresh
  <2>7. TrackerShape(mode, fresh)
    BY <2>4, <2>5, <2>6 DEF TrackerShape
  <2>8. ManagerShape'
    <3>1. Wide(items', Count(mode)) /\ \A i \in 1 .. Count(mode) : items'[i] = fresh
      BY <2>3 DEF Wide, fresh
    <3>2. DeclaredItems' = DeclaredItems /\ DeclaredFields' = DeclaredFields
      BY <1>1 DEF DeclaredItems, DeclaredFields
    <3>. QED BY <1>1, <2>3, <2>7, <3>1, <3>2 DEF ManagerShape
  <2>9. CallerShape'
    BY <1>1, <2>3 DEF CallerShape, Wide, NoRows
  <2>10. Reflects(b)'
    <3>1. ASSUME NEW i \in 1 .. Count(mode)
          PROVE  /\ items'[i].endOfSnapshot = b.eos[i] /\ items'[i].seenUpdate = b.sent[i]
                 /\ \A f \in 1 .. Width(mode) : Agrees(items'[i].fields[f], b.fields[i][f])
                 /\ \A k \in RowKeys : SameRow(rows'[i][k], b.rows[i][k])
      <4>1. items'[i] = fresh
        BY <2>3 DEF fresh
      <4>2. b.eos[i] = FALSE /\ b.sent[i] = FALSE /\ b.fields[i] = NewItem(Width(mode))
        BY <2>1
      <4>3. rows'[i] = NoRows /\ b.rows[i] = NoRows
        BY <2>1, <2>3
      <4>4. \A k \in RowKeys : SameRow(NoRows[k], NoRows[k])
        BY DEF SameRow, NoRows, Absent
      <4>. QED BY <2>4, <2>5, <2>6, <4>1, <4>2, <4>3, <4>4
    <3>. QED BY <1>1, <2>3, <3>1 DEF Reflects
  <2>. QED BY <2>8, <2>9, <2>10 DEF Settled
<1>. QED BY <1>2, <1>3

\* handle_end_of_snapshot: the client's mark follows the server's.
LEMMA EndOfSnapshotStep ==
  ASSUME NEW a, NEW b, IsView(mode, a), Settled(a), Says(mode, snapshotRequested, a, Head(wire), b),
         EndOfSnapshot
  PROVE  Settled(b)'
<1> DEFINE line == Head(wire)
           i == line.item
<1>1. line.tag = "EOS" /\ mode' = mode
  BY DEF EndOfSnapshot, Line, Refuse, Tell
<1>2. ManagerShape /\ CallerShape /\ Reflects(a)
  BY DEF Settled
<1>3. CASE Contradicts(mode, line)
  <2>1. i \notin 1 .. Count(mode) /\ b = a
    BY <1>1, <1>3 DEF Contradicts, Says
  <2>2. ~ItemPosition(i)
    BY <1>2, <2>1, ItemPositionMeans
  <2>3. UNCHANGED <<mode, activation, schema, items, refused, rows>>
    BY <2>2 DEF EndOfSnapshot, Refuse, Tell
  <2>. QED BY <2>1, <2>3, ClientRestsSettled
<1>4. CASE ~Contradicts(mode, line)
  <2>1. /\ i \in 1 .. Count(mode) /\ a.srv = "on" /\ b.srv = "on"
        /\ b.eos = [a.eos EXCEPT ![i] = TRUE]
        /\ b.fields = a.fields /\ b.sent = a.sent /\ b.rows = a.rows
    BY <1>1, <1>4 DEF Says
  <2>2. activation = "active" /\ ItemPosition(i)
    BY <1>2, <2>1, ItemPositionMeans DEF Reflects
  <2>3. /\ items' = [items EXCEPT ![i].endOfSnapshot = TRUE]
        /\ UNCHANGED <<mode, activation, schema, refused, rows>>
    BY <2>2 DEF EndOfSnapshot, Tell
  <2>4. Wide(items, Count(mode)) /\ Wide(a.eos, Count(mode))
    BY <1>2, <2>1, <2>2 DEF ManagerShape, IsView
  <2>5. /\ Wide(items', Count(mode))
        /\ \A j \in 1 .. Count(mode) : j # i => items'[j] = items[j] /\ b.eos[j] = a.eos[j]
        /\ items'[i] = [items[i] EXCEPT !.endOfSnapshot = TRUE] /\ b.eos[i] = TRUE
    BY <2>1, <2>3, <2>4 DEF Wide
  <2>6. /\ items'[i].fields = items[i].fields /\ items'[i].seenUpdate = items[i].seenUpdate
        /\ items'[i].endOfSnapshot = TRUE
        /\ TrackerShape(mode, items'[i])
    <3>1. TrackerShape(mode, items[i])
      BY <1>2, <2>1, <2>2 DEF ManagerShape
    <3> DEFINE t == items[i]
               u == items'[i]
    <3>2. t = [fields |-> t.fields, seenUpdate |-> t.seenUpdate, endOfSnapshot |-> t.endOfSnapshot]
      BY <3>1 DEF TrackerShape
    <3>3. u = [t EXCEPT !.endOfSnapshot = TRUE]
      BY <2>5
    <3> HIDE DEF t, u
    <3>4. u.fields = t.fields /\ u.seenUpdate = t.seenUpdate /\ u.endOfSnapshot = TRUE
      BY <3>2, <3>3
    <3>5. u = [fields |-> u.fields, seenUpdate |-> u.seenUpdate, endOfSnapshot |-> u.endOfSnapshot]
      BY <3>2, <3>3
    <3>6. TrackerShape(mode, u)
      BY <3>1, <3>4, <3>5 DEF TrackerShape, t
    <3>. QED BY <3>4, <3>6 DEF t, u
  <2>7. ManagerShape'
    <3>1. ASSUME NEW j \in 1 .. Count(mode) PROVE TrackerShape(mode, items'[j])
      BY <1>2, <2>2, <2>5, <2>6 DEF ManagerShape
    <3>. QED BY <1>2, <2>2, <2>3, <2>5, <3>1 DEF ManagerShape, DeclaredItems, DeclaredFields
  <2>8. CallerShape'
    BY <1>2, <2>3 DEF CallerShape
  <2>9. Reflects(b)'
    <3>1. ASSUME NEW j \in 1 .. Count(mode)
          PROVE  /\ items'[j].endOfSnapshot = b.eos[j] /\ items'[j].seenUpdate = items[j].seenUpdate
                 /\ items'[j].fields = items[j].fields
      BY <1>2, <2>1, <2>5, <2>6 DEF Reflects
    <3>2. ASSUME NEW j \in 1 .. Count(mode), j \notin refused
          PROVE  /\ items'[j].seenUpdate = b.sent[j]
                 /\ \A f \in 1 .. Width(mode) : Agrees(items'[j].fields[f], b.fields[j][f])
                 /\ mode = "COMMAND" /\ ~HeedsAdvice =>
                       \A k \in RowKeys : SameRow(rows[j][k], b.rows[j][k])
      BY <1>2, <2>1, <3>1, <3>2 DEF Reflects
    <3> HIDE DEF i, line
    <3>3. ASSUME NEW j \in 1 .. Count(mode), j \notin refused'
          PROVE  /\ items'[j].seenUpdate = b.sent[j]
                 /\ \A f \in 1 .. Width(mode) : Agrees(items'[j].fields[f], b.fields[j][f])
                 /\ mode' = "COMMAND" /\ ~HeedsAdvice =>
                       \A k \in RowKeys : SameRow(rows'[j][k], b.rows[j][k])
      BY <2>3, <3>2, <3>3
    <3>4. activation' = "active" /\ mode' = mode
      BY <2>2, <2>3
    <3>. QED BY <3>1, <3>3, <3>4 DEF Reflects
  <2>. QED BY <2>7, <2>8, <2>9 DEF Settled
<1>. QED BY <1>3, <1>4

\* handle_clear_snapshot: the client forgets what the server forgot, the caller its rows.
LEMMA ClearSnapshotStep ==
  ASSUME NEW a, NEW b, IsView(mode, a), Settled(a), Says(mode, snapshotRequested, a, Head(wire), b),
         ClearSnapshot
  PROVE  Settled(b)'
<1> DEFINE line == Head(wire)
           i == line.item
<1>1. line.tag = "CS" /\ mode' = mode
  BY DEF ClearSnapshot, Line, Refuse, Tell
<1>2. ManagerShape /\ CallerShape /\ Reflects(a)
  BY DEF Settled
<1>3. CASE Contradicts(mode, line)
  <2>1. i \notin 1 .. Count(mode) /\ b = a
    BY <1>1, <1>3 DEF Contradicts, Says
  <2>2. ~ItemPosition(i)
    BY <1>2, <2>1, ItemPositionMeans
  <2>3. UNCHANGED <<mode, activation, schema, items, refused, rows>>
    BY <2>2 DEF ClearSnapshot, Refuse, Tell
  <2>. QED BY <2>1, <2>3, ClientRestsSettled
<1>4. CASE ~Contradicts(mode, line)
  <2>1. /\ i \in 1 .. Count(mode) /\ a.srv = "on" /\ b.srv = "on"
        /\ b.rows = [a.rows EXCEPT ![i] = NoRows]
        /\ b.fields = a.fields /\ b.sent = a.sent /\ b.eos = a.eos
    BY <1>1, <1>4 DEF Says
  <2>2. activation = "active" /\ ItemPosition(i)
    BY <1>2, <2>1, ItemPositionMeans DEF Reflects
  <2>3. /\ rows' = [rows EXCEPT ![i] = NoRows]
        /\ UNCHANGED <<mode, activation, schema, items, refused>>
    BY <2>2 DEF ClearSnapshot, Tell
  <2>4. Wide(rows, Count(mode)) /\ Wide(a.rows, Count(mode))
    BY <1>2, <2>1 DEF CallerShape, IsView
  <2>5. /\ Wide(rows', Count(mode))
        /\ \A j \in 1 .. Count(mode) : j # i => rows'[j] = rows[j] /\ b.rows[j] = a.rows[j]
        /\ rows'[i] = NoRows /\ b.rows[i] = NoRows
    BY <2>1, <2>3, <2>4 DEF Wide
  <2>6. ManagerShape'
    BY <1>2, <2>3 DEF ManagerShape, DeclaredItems, DeclaredFields
  <2>7. CallerShape'
    <3>1. ASSUME NEW j \in 1 .. Count(mode) PROVE rows'[j] = [k \in RowKeys |-> rows'[j][k]]
      BY <1>2, <2>5 DEF CallerShape, NoRows
    <3>. QED BY <1>2, <2>3, <2>5, <3>1 DEF CallerShape
  <2>8. Reflects(b)'
    <3>1. \A k \in RowKeys : SameRow(NoRows[k], NoRows[k])
      BY DEF SameRow, NoRows, Absent
    <3>2. ASSUME NEW j \in 1 .. Count(mode), j \notin refused, mode = "COMMAND", ~HeedsAdvice
          PROVE  \A k \in RowKeys : SameRow(rows'[j][k], b.rows[j][k])
      BY <1>2, <2>1, <2>5, <3>1, <3>2 DEF Reflects
    <3>. QED BY <1>2, <2>1, <2>3, <3>2 DEF Reflects
  <2>. QED BY <2>6, <2>7, <2>8 DEF Settled
<1>. QED BY <1>3, <1>4

\* An overflow or a reconfiguration changes nothing the server and the client agree on.
LEMMA OtherStep ==
  ASSUME NEW a, NEW b, Settled(a), Says(mode, snapshotRequested, a, Head(wire), b),
         Overflow \/ Reconfigured
  PROVE  Settled(b)'
<1>1. UNCHANGED <<mode, activation, schema, items, refused, rows>>
  BY DEF Overflow, Reconfigured, Refuse, Tell
<1>2. Head(wire).tag \in {"OV", "CONF"}
  BY DEF Overflow, Reconfigured, Line
<1>3. b = a
  BY <1>2 DEF Says, Contradicts
<1>. QED BY <1>1, <1>3, ClientRestsSettled

\* handle_unsubscribed: nothing more is agreed on.
LEMMA UnsubscribedStep ==
  ASSUME NEW a, NEW b, Settled(a), Says(mode, snapshotRequested, a, Head(wire), b), Unsubscribed
  PROVE  Settled(b)'
<1>1. /\ UNCHANGED <<mode, refused, rows>>
      /\ activation' = "ended" /\ items' = << >>
  BY DEF Unsubscribed, Tell
<1>2. Head(wire).tag = "UNSUB"
  BY DEF Unsubscribed, Line
<1>3. b.srv = "over"
  BY <1>2 DEF Says, Contradicts
<1>4. ManagerShape'
  BY <1>1 DEF ManagerShape
<1>5. CallerShape'
  BY <1>1 DEF Settled, CallerShape
<1>6. Reflects(b)'
  BY <1>3 DEF Reflects
<1>. QED BY <1>4, <1>5, <1>6 DEF Settled

-----------------------------------------------------------------------------
(* What the client has of a U: the list it read, and the update it makes.   *)
Decoded == Decode(items[Head(wire).item].fields, Head(wire).tokens)
Made ==
  LET i == Head(wire).item
  IN  ItemUpdate(schema, i,
                 ClassifyUpdate(items[i].endOfSnapshot, ~items[i].seenUpdate),
                 Decoded.fields, Decoded.changed)

\* apply_update leaves the client as it was, with the item refused if the server meant
\* something, or reads the list and tells of an update made of it.
LEMMA UpdateIsReadOrRefused ==
  ASSUME ManagerShape, NEW a, NEW b, Reflects(a),
         Says(mode, snapshotRequested, a, Head(wire), b), ApplyUpdate
  PROVE  \/ /\ UNCHANGED <<mode, activation, schema, items, rows>>
            /\ heard'.is # "Update"
            /\ \/ refused' = refused /\ b = a
               \/ /\ refused' = refused \union {Head(wire).item}
                  /\ Head(wire).item \in 1 .. Count(mode) /\ a.srv = "on" /\ b.srv = "on"
                  /\ SaysUpdate(mode, snapshotRequested, a, Head(wire), b)
         \/ /\ UNCHANGED <<mode, activation, schema, refused>>
            /\ Head(wire).item \in 1 .. Count(mode) /\ a.srv = "on" /\ b.srv = "on"
            /\ SaysUpdate(mode, snapshotRequested, a, Head(wire), b)
            /\ activation = "active" /\ Decoded.ok
            /\ items' = [items EXCEPT ![Head(wire).item].fields = Decoded.fields,
                                      ![Head(wire).item].seenUpdate = TRUE]
            /\ rows' = IF IsCommandMode(schema)
                       THEN [rows EXCEPT ![Head(wire).item] = ActOn(@, Made)] ELSE rows
            /\ heard' = [is |-> "Update", update |-> Made] /\ meant' = Head(wire).meaning
<1> DEFINE line == Head(wire)
           i == line.item
           decoded == IF ItemPosition(i) THEN Decoded ELSE Refused
<1>1. line.tag = "U" /\ mode' = mode
  BY DEF ApplyUpdate, Line, Refuse, Tell
<1>2. \/ /\ decoded.ok
         /\ items' = [items EXCEPT ![i].fields = decoded.fields, ![i].seenUpdate = TRUE]
         /\ Tell([is |-> "Update",
                  update |-> ItemUpdate(schema, i,
                               ClassifyUpdate(items[i].endOfSnapshot, ~items[i].seenUpdate),
                               decoded.fields, decoded.changed)], line.meaning)
         /\ IF IsCommandMode(schema)
            THEN rows' = [rows EXCEPT ![i] = ActOn(@,
                            ItemUpdate(schema, i,
                               ClassifyUpdate(items[i].endOfSnapshot, ~items[i].seenUpdate),
                               decoded.fields, decoded.changed))]
            ELSE UNCHANGED rows
         /\ UNCHANGED <<activation, schema, refused>>
      \/ /\ ~decoded.ok
         /\ \E reason : Refuse(reason)
         /\ refused' = IF line.stray THEN refused ELSE refused \union {i}
  BY DEF ApplyUpdate, Decoded
<1>3. Refused.ok = FALSE
  BY DEF Refused
<1>4. CASE decoded.ok
  <2>1. ItemPosition(i) /\ decoded = Decoded
    BY <1>3, <1>4
  <2>2. activation = "active" /\ i \in 1 .. Count(mode)
    BY <2>1, ItemPositionMeans
  <2>3. ~Contradicts(mode, line)
    <3>1. SUFFICES ASSUME Contradicts(mode, line) PROVE FALSE
      OBVIOUS
    <3>2. i = 1 /\ line.tokens \in StrayLists
      BY <1>1, <2>2, <3>1 DEF Contradicts
    <3>3. Wide(items[i].fields, Width(mode))
      BY <2>2 DEF ManagerShape, TrackerShape
    <3>4. ~Decoded.ok
      BY <3>2, <3>3, StrayIsRefused, Sizes DEF Decoded
    <3>. QED BY <1>4, <2>1, <3>4
  <2>4. a.srv = "on" /\ b.srv = "on" /\ SaysUpdate(mode, snapshotRequested, a, line, b)
    BY <1>1, <2>3 DEF Says
  <2> HIDE DEF decoded, i, line
  <2>5. /\ items' = [items EXCEPT ![i].fields = Decoded.fields, ![i].seenUpdate = TRUE]
        /\ Tell([is |-> "Update",
                  update |-> ItemUpdate(schema, i,
                               ClassifyUpdate(items[i].endOfSnapshot, ~items[i].seenUpdate),
                               Decoded.fields, Decoded.changed)], line.meaning)
        /\ IF IsCommandMode(schema)
           THEN rows' = [rows EXCEPT ![i] = ActOn(@,
                            ItemUpdate(schema, i,
                               ClassifyUpdate(items[i].endOfSnapshot, ~items[i].seenUpdate),
                               Decoded.fields, Decoded.changed))]
           ELSE UNCHANGED rows
        /\ UNCHANGED <<activation, schema, refused>>
    BY <1>2, <1>4, <2>1
  <2>6. Made = ItemUpdate(schema, i, ClassifyUpdate(items[i].endOfSnapshot, ~items[i].seenUpdate),
                          Decoded.fields, Decoded.changed)
    BY DEF Made, i, line
  <2>7. heard' = [is |-> "Update", update |-> Made] /\ meant' = line.meaning
    BY <2>5, <2>6 DEF Tell
  <2>8. rows' = IF IsCommandMode(schema) THEN [rows EXCEPT ![i] = ActOn(@, Made)] ELSE rows
    BY <2>5, <2>6
  <2>. QED BY <1>1, <1>4, <2>1, <2>2, <2>4, <2>5, <2>7, <2>8 DEF line, i
<1>5. CASE ~decoded.ok
  <2>1. PICK reason : Refuse(reason)
    BY <1>2, <1>5
  <2>2. /\ UNCHANGED <<mode, activation, schema, items, rows>> /\ heard'.is # "Update"
    BY <2>1 DEF Refuse, Tell
  <2>3. CASE Contradicts(mode, line)
    <3>1. line.stray = TRUE /\ b = a
      BY <1>1, <2>3 DEF Contradicts, Says
    <3>2. refused' = refused
      BY <1>2, <1>5, <3>1
    <3>. QED BY <2>2, <3>1, <3>2
  <2>4. CASE ~Contradicts(mode, line)
    <3>1. /\ line.stray = FALSE /\ i \in 1 .. Count(mode) /\ a.srv = "on" /\ b.srv = "on"
          /\ SaysUpdate(mode, snapshotRequested, a, line, b)
      BY <1>1, <2>4 DEF Says
    <3>2. refused' = refused \union {i}
      BY <1>2, <1>5, <3>1
    <3>. QED BY <2>2, <3>1, <3>2
  <2>. QED BY <2>3, <2>4
<1>. QED BY <1>4, <1>5

\* A literal of a command is read as that command.
LEMMA FromWireMeans ==
  ASSUME NEW command \in DOMAIN Literals, NEW literal \in Literals[command]
  PROVE  FromWire(literal) = command
<1>1. \A name \in DOMAIN Literals : literal \in Literals[name] => name = command
  BY LiteralsAssumption
<1>. QED BY <1>1 DEF FromWire

\* The schema is of the mode subscribed in, with its key and command where the mode has them.
LEMMA ModeOfSchema ==
  ASSUME ManagerShape, activation = "active"
  PROVE  /\ IsCommandMode(schema) <=> mode = "COMMAND"
         /\ mode = "COMMAND" => schema.keyField = 1 /\ schema.commandField = 2
<1>1. schema.keyField = Positions(mode).key /\ schema.commandField = Positions(mode).command
  BY DEF ManagerShape, Schema
<1>. QED BY <1>1 DEF IsCommandMode, Positions, NoCommandFields

\* The update that is told carries what was decoded.
LEMMA FieldsOfMade ==
  /\ Made.schema = schema /\ Made.item = Head(wire).item
  /\ Made.kind = ClassifyUpdate(items[Head(wire).item].endOfSnapshot, ~items[Head(wire).item].seenUpdate)
  /\ \A p \in DOMAIN Decoded.fields : Field(Made, p) = Shown(Decoded.fields[p])
  /\ DOMAIN Made.values = DOMAIN Decoded.fields
BY DEF Made, ItemUpdate, Field

\* The caller's rows stay a function of the keys.
LEMMA ActOnKeepsShape ==
  ASSUME NEW table, table = [k \in RowKeys |-> table[k]], NEW update
  PROVE  ActOn(table, update) = [k \in RowKeys |-> ActOn(table, update)[k]]
BY DEF ActOn

\* The caller's row follows the server's.
LEMMA RowFollows ==
  ASSUME mode = "COMMAND", ~HeedsAdvice, ManagerShape, activation = "active",
         Wide(Decoded.fields, 3), \A f \in 1 .. 3 : Verbatim(Decoded.fields[f]),
         NEW values, \A f \in 1 .. 3 : Given(values[f]) /\ Agrees(Decoded.fields[f], values[f]),
         NEW table, table = [k \in RowKeys |-> table[k]],
         NEW before, before = [k \in RowKeys |-> before[k]],
         \A k \in RowKeys : SameRow(table[k], before[k]),
         NEW after, RowStep(before, values, after)
  PROVE  \A k \in RowKeys : SameRow(ActOn(table, Made)[k], after[k])
<1>1. PICK k \in RowKeys, command \in DOMAIN Literals : \E literal \in Literals[command] :
         /\ values[1] = [is |-> "text", text |-> k]
         /\ values[2] = [is |-> "text", text |-> literal]
         /\ command # "DELETE" => values[3].is = "text"
         /\ after = [before EXCEPT ![k] = IF command = "DELETE" THEN Absent ELSE values[3]]
  BY DEF RowStep
<1>2. PICK literal \in Literals[command] :
         /\ values[1] = [is |-> "text", text |-> k]
         /\ values[2] = [is |-> "text", text |-> literal]
         /\ command # "DELETE" => values[3].is = "text"
         /\ after = [before EXCEPT ![k] = IF command = "DELETE" THEN Absent ELSE values[3]]
  BY <1>1
<1>3. schema.keyField = 1 /\ schema.commandField = 2
  BY ModeOfSchema
<1>4. DOMAIN Decoded.fields = 1 .. 3
  BY DEF Wide
<1>5. ASSUME NEW f \in 1 .. 3, values[f].is = "text"
      PROVE  Field(Made, f) = [is |-> "text", text |-> values[f].text]
  <2>1. Decoded.fields[f].is = "text" /\ Decoded.fields[f].text = values[f].text
    BY <1>5 DEF Agrees, Equivalent, Verbatim
  <2>2. Field(Made, f) = Shown(Decoded.fields[f])
    BY <1>4, FieldsOfMade
  <2>. QED BY <2>1, <2>2 DEF Shown
<1>6. Key(Made).text = k
  <2>1. 1 \in 1 .. 3 /\ values[1].is = "text" /\ values[1].text = k
    BY <1>2
  <2>2. Field(Made, 1).text = k
    BY <1>5, <2>1
  <2>. QED BY <1>3, <2>2, FieldsOfMade DEF Key
<1>7. Command(Made) = command
  <2>1. 2 \in 1 .. 3 /\ values[2].is = "text" /\ values[2].text = literal
    BY <1>2
  <2>2. Field(Made, 2) = [is |-> "text", text |-> literal]
    BY <1>5, <2>1
  <2>3. Field(Made, Made.schema.commandField) = [is |-> "text", text |-> literal]
    BY <1>3, <2>2, FieldsOfMade
  <2>. QED BY <2>3, FromWireMeans DEF Command
<1>8. CASE command = "DELETE"
  <2>1. ActOn(table, Made) = [table EXCEPT ![k] = Absent] /\ after = [before EXCEPT ![k] = Absent]
    BY <1>2, <1>6, <1>7, <1>8 DEF ActOn
  <2>2. SameRow(Absent, Absent)
    BY DEF SameRow, Absent
  <2>. QED BY <2>1, <2>2
<1>9. CASE command # "DELETE"
  <2>1. ActOn(table, Made) = [table EXCEPT ![k] = Field(Made, 3)]
    BY <1>6, <1>7, <1>9 DEF ActOn
  <2>2. after = [before EXCEPT ![k] = values[3]] /\ values[3].is = "text"
    BY <1>2, <1>9
  <2>3. Field(Made, 3) = [is |-> "text", text |-> values[3].text]
    BY <1>5, <2>2
  <2>4. SameRow(Field(Made, 3), values[3])
    BY <2>2, <2>3 DEF SameRow
  <2>. QED BY <2>1, <2>2, <2>4
<1>. QED BY <1>8, <1>9

\* What is read of an update of the server.
LEMMA UpdateIsRead ==
  ASSUME NEW a, Settled(a), activation = "active", IsView(mode, a), a.srv = "on", NEW b,
         Head(wire).item \in 1 .. Count(mode),
         SaysUpdate(mode, snapshotRequested, a, Head(wire), b), Decoded.ok
  PROVE  /\ Wide(Decoded.fields, Width(mode))
         /\ \A f \in 1 .. Width(mode) :
               /\ IsSlot(Decoded.fields[f])
               /\ mode = "COMMAND" => Verbatim(Decoded.fields[f])
               /\ Head(wire).item \notin refused =>
                     Agrees(Decoded.fields[f], Head(wire).meaning.values[f])
<1> DEFINE i == Head(wire).item
           m == mode
           tracker == items[i]
           old == a.fields[i]
           new == Head(wire).meaning.values
           list == Head(wire).tokens
<1>1. ManagerShape /\ Reflects(a) /\ TrackerShape(m, tracker)
  BY DEF Settled, ManagerShape
<1>2. Spells(m, old, new, list)
  BY DEF SaysUpdate
<1>3. \A f \in 1 .. Width(m) : Given(new[f]) /\ IsValue(m, new[f])
  BY DEF SaysUpdate
<1>4. \A f \in 1 .. Width(m) : IsValue(m, old[f])
  BY DEF IsView
<1>5. i \notin refused => \A f \in 1 .. Width(m) : Agrees(tracker.fields[f], old[f])
  BY <1>1 DEF Reflects
<1>6. Decoded = Decode(tracker.fields, list)
  BY DEF Decoded
<1>7. Wide(tracker.fields, Width(m))
  BY <1>1 DEF TrackerShape
<1> HIDE DEF i, m, tracker, old, new, list
<1>8. /\ Wide(Decoded.fields, Width(m))
      /\ \A f \in 1 .. Width(m) :
            /\ IsSlot(Decoded.fields[f])
            /\ m = "COMMAND" => Verbatim(Decoded.fields[f])
  BY <1>1, <1>2, <1>6, SpelledIsShaped
<1>9. ASSUME i \notin refused, NEW f \in 1 .. Width(m) PROVE Agrees(Decoded.fields[f], new[f])
  <2>1. \A g \in 1 .. Width(m) :
           /\ Given(new[g]) /\ IsValue(m, new[g]) /\ IsValue(m, old[g])
           /\ Agrees(tracker.fields[g], old[g])
    BY <1>3, <1>4, <1>5, <1>9
  <2> DEFINE fields == tracker.fields
  <2> HIDE DEF fields
  <2>2. Decode(fields, list).ok /\ Decoded = Decode(fields, list) /\ Wide(fields, Width(m))
    BY <1>6, <1>7 DEF fields
  <2>3. \A g \in 1 .. Width(m) :
           /\ Given(new[g]) /\ IsValue(m, new[g]) /\ IsValue(m, old[g])
           /\ Agrees(fields[g], old[g])
    BY <2>1 DEF fields
  <2>4. \A g \in 1 .. Width(m) : Agrees(Decode(fields, list).fields[g], new[g])
    BY <1>2, <2>2, <2>3, SpelledIsRead
  <2>. QED BY <2>2, <2>4
<1>. QED BY <1>8, <1>9 DEF i, m, new

-----------------------------------------------------------------------------
(* An update refused, and an update read. *)

\* A refused update: the item is no longer spoken of.
LEMMA RefusedStep ==
  ASSUME NEW a, NEW b, IsView(mode, a), Settled(a), NEW i \in 1 .. Count(mode),
         a.srv = "on", b.srv = "on", NEW values, NEW now,
         b.fields = [a.fields EXCEPT ![i] = values], b.sent = [a.sent EXCEPT ![i] = TRUE],
         b.rows = [a.rows EXCEPT ![i] = now], b.eos = a.eos,
         UNCHANGED <<mode, activation, schema, items, rows>>, refused' = refused \union {i}
  PROVE  Settled(b)'
<1>1. ManagerShape /\ CallerShape /\ Reflects(a)
  BY DEF Settled
<1>2. ManagerShape'
  BY <1>1 DEF ManagerShape, DeclaredItems, DeclaredFields
<1>3. CallerShape'
  BY <1>1 DEF CallerShape
<1>4. /\ Wide(a.fields, Count(mode)) /\ Wide(a.sent, Count(mode)) /\ Wide(a.rows, Count(mode))
  BY DEF IsView
<1>5. \A j \in 1 .. Count(mode) : j # i => /\ b.fields[j] = a.fields[j]
                                           /\ b.sent[j] = a.sent[j] /\ b.rows[j] = a.rows[j]
  BY <1>4 DEF Wide
<1>6. ASSUME NEW j \in 1 .. Count(mode), j \notin refused'
      PROVE  /\ items'[j].seenUpdate = b.sent[j]
             /\ \A f \in 1 .. Width(mode) : Agrees(items'[j].fields[f], b.fields[j][f])
             /\ mode' = "COMMAND" /\ ~HeedsAdvice =>
                       \A k \in RowKeys : SameRow(rows'[j][k], b.rows[j][k])
  <2>1. j # i /\ j \notin refused
    BY <1>6
  <2>2. /\ items[j].seenUpdate = a.sent[j]
        /\ \A f \in 1 .. Width(mode) : Agrees(items[j].fields[f], a.fields[j][f])
        /\ mode = "COMMAND" /\ ~HeedsAdvice =>
                       \A k \in RowKeys : SameRow(rows[j][k], a.rows[j][k])
    BY <1>1, <2>1 DEF Reflects
  <2>. QED BY <1>5, <2>1, <2>2
<1>7. ASSUME NEW j \in 1 .. Count(mode) PROVE items'[j].endOfSnapshot = b.eos[j]
  BY <1>1 DEF Reflects
<1>8. activation' = "active" /\ mode' = mode
  BY <1>1 DEF Reflects
<1>9. Reflects(b)'
  BY <1>6, <1>7, <1>8 DEF Reflects
<1>. QED BY <1>2, <1>3, <1>9 DEF Settled

\* An update that is read: the item, and the caller's row, are as the server has them.
LEMMA TakenStep ==
  ASSUME NEW a, NEW b, IsView(mode, a), Settled(a), a.srv = "on", b.srv = "on",
         Head(wire).item \in 1 .. Count(mode),
         SaysUpdate(mode, snapshotRequested, a, Head(wire), b),
         activation = "active", Decoded.ok, UNCHANGED <<mode, activation, schema, refused>>,
         items' = [items EXCEPT ![Head(wire).item].fields = Decoded.fields,
                                ![Head(wire).item].seenUpdate = TRUE],
         rows' = IF IsCommandMode(schema)
                 THEN [rows EXCEPT ![Head(wire).item] = ActOn(@, Made)] ELSE rows
  PROVE  /\ Settled(b)' /\ items'[Head(wire).item].fields = Decoded.fields
         /\ b.fields[Head(wire).item] = Head(wire).meaning.values
         /\ b.rows[Head(wire).item] = Head(wire).meaning.rows
<1> DEFINE i == Head(wire).item
           values == Head(wire).meaning.values
           now == Head(wire).meaning.rows
<1>1. ManagerShape /\ CallerShape /\ Reflects(a)
  BY DEF Settled
<1>2. /\ Wide(Decoded.fields, Width(mode))
      /\ \A f \in 1 .. Width(mode) :
            /\ IsSlot(Decoded.fields[f])
            /\ mode = "COMMAND" => Verbatim(Decoded.fields[f])
            /\ i \notin refused => Agrees(Decoded.fields[f], values[f])
  BY UpdateIsRead
<1>3. /\ b.fields = [a.fields EXCEPT ![i] = values] /\ b.sent = [a.sent EXCEPT ![i] = TRUE]
      /\ b.rows = [a.rows EXCEPT ![i] = now] /\ b.eos = a.eos
      /\ now = [k \in RowKeys |-> now[k]]
      /\ mode = "COMMAND" => RowStep(a.rows[i], values, now)
      /\ \A f \in 1 .. Width(mode) : Given(values[f])
  BY DEF SaysUpdate
<1>4. i \in 1 .. Count(mode)
  OBVIOUS
<1>5. /\ items' = [items EXCEPT ![i].fields = Decoded.fields, ![i].seenUpdate = TRUE]
      /\ rows' = IF IsCommandMode(schema) THEN [rows EXCEPT ![i] = ActOn(@, Made)] ELSE rows
  OBVIOUS
<1> HIDE DEF i, values, now
<1>6. /\ Wide(a.fields, Count(mode)) /\ Wide(a.sent, Count(mode)) /\ Wide(a.rows, Count(mode))
      /\ a.rows[i] = [k \in RowKeys |-> a.rows[i][k]]
  BY <1>4 DEF IsView
<1>7. Wide(items, Count(mode)) /\ Wide(rows, Count(mode))
  BY <1>1 DEF ManagerShape, CallerShape
<1>8. /\ \A j \in 1 .. Count(mode) : j # i => /\ b.fields[j] = a.fields[j]
                                              /\ b.sent[j] = a.sent[j] /\ b.rows[j] = a.rows[j]
      /\ b.fields[i] = values /\ b.sent[i] = TRUE /\ b.rows[i] = now
  BY <1>3, <1>4, <1>6 DEF Wide
<1>9. /\ Wide(items', Count(mode))
      /\ \A j \in 1 .. Count(mode) : j # i => items'[j] = items[j]
      /\ items'[i] = [[items[i] EXCEPT !.fields = Decoded.fields] EXCEPT !.seenUpdate = TRUE]
  BY <1>4, <1>5, <1>7 DEF Wide
<1>10. /\ TrackerShape(mode, items'[i]) /\ items'[i].fields = Decoded.fields
       /\ items'[i].seenUpdate = TRUE /\ items'[i].endOfSnapshot = items[i].endOfSnapshot
  <2>1. TrackerShape(mode, items[i])
    BY <1>1, <1>4 DEF ManagerShape
  <2> DEFINE t == items[i]
             u == items'[i]
             fields == Decoded.fields
  <2>2. u = [[t EXCEPT !.fields = fields] EXCEPT !.seenUpdate = TRUE]
    BY <1>9
  <2>3. /\ TrackerShape(mode, t) /\ Wide(fields, Width(mode))
        /\ \A f \in 1 .. Width(mode) : IsSlot(fields[f]) /\ (mode = "COMMAND" => Verbatim(fields[f]))
    BY <1>2, <2>1
  <2> HIDE DEF t, u, fields
  <2>4. t = [fields |-> t.fields, seenUpdate |-> t.seenUpdate, endOfSnapshot |-> t.endOfSnapshot]
    BY <2>3 DEF TrackerShape
  <2>5. u.fields = fields /\ u.seenUpdate = TRUE /\ u.endOfSnapshot = t.endOfSnapshot
    BY <2>2, <2>4
  <2>6. u = [fields |-> u.fields, seenUpdate |-> u.seenUpdate, endOfSnapshot |-> u.endOfSnapshot]
    BY <2>2, <2>4
  <2>7. TRUE \in BOOLEAN /\ t.endOfSnapshot \in BOOLEAN
    BY <2>3 DEF TrackerShape
  <2>8. TrackerShape(mode, u)
    BY <2>3, <2>5, <2>6, <2>7 DEF TrackerShape
  <2>. QED BY <2>5, <2>8 DEF t, u, fields
<1>11. ManagerShape'
  <2>1. ASSUME NEW j \in 1 .. Count(mode) PROVE TrackerShape(mode, items'[j])
    BY <1>1, <1>9, <1>10 DEF ManagerShape
  <2>. QED BY <1>1, <1>9, <2>1 DEF ManagerShape, DeclaredItems, DeclaredFields
<1>12. /\ Wide(rows', Count(mode))
       /\ \A j \in 1 .. Count(mode) : j # i => rows'[j] = rows[j]
       /\ rows'[i] = IF IsCommandMode(schema) THEN ActOn(rows[i], Made) ELSE rows[i]
  BY <1>4, <1>5, <1>7 DEF Wide
<1>13. rows[i] = [k \in RowKeys |-> rows[i][k]]
  BY <1>1, <1>4 DEF CallerShape
<1>14. rows'[i] = [k \in RowKeys |-> rows'[i][k]]
  <2>1. ActOn(rows[i], Made) = [k \in RowKeys |-> ActOn(rows[i], Made)[k]]
    BY <1>13, ActOnKeepsShape
  <2>. QED BY <1>12, <1>13, <2>1
<1>15. CallerShape'
  <2>1. ASSUME NEW j \in 1 .. Count(mode) PROVE rows'[j] = [k \in RowKeys |-> rows'[j][k]]
    BY <1>1, <1>12, <1>14 DEF CallerShape
  <2>. QED BY <1>1, <1>12, <2>1 DEF CallerShape
<1>16. ASSUME i \notin refused, mode = "COMMAND", ~HeedsAdvice
       PROVE  \A k \in RowKeys : SameRow(rows'[i][k], b.rows[i][k])
  <2>1. Width(mode) = 3
    BY <1>16, Sizes
  <2>2. /\ \A k \in RowKeys : SameRow(rows[i][k], a.rows[i][k])
    BY <1>1, <1>4, <1>16 DEF Reflects
  <2>3. \A f \in 1 .. 3 : Verbatim(Decoded.fields[f]) /\ Given(values[f]) /\ Agrees(Decoded.fields[f], values[f])
    BY <1>2, <1>3, <1>16, <2>1
  <2>4. rows'[i] = ActOn(rows[i], Made)
    BY <1>1, <1>12, <1>16, ModeOfSchema
  <2>5. RowStep(a.rows[i], values, now) /\ Wide(Decoded.fields, 3)
    BY <1>2, <1>3, <1>16, <2>1
  <2> DEFINE table == rows[i]
             before == a.rows[i]
  <2>6. /\ table = [k \in RowKeys |-> table[k]] /\ before = [k \in RowKeys |-> before[k]]
        /\ \A k \in RowKeys : SameRow(table[k], before[k])
        /\ RowStep(before, values, now)
    BY <1>6, <1>13, <2>2, <2>5
  <2> HIDE DEF table, before
  <2>7. \A k \in RowKeys : SameRow(ActOn(table, Made)[k], now[k])
    BY <1>1, <1>16, <2>3, <2>5, <2>6, RowFollows
  <2>. QED BY <1>8, <2>4, <2>7 DEF table
<1>17. Reflects(b)'
  <2>1. ASSUME NEW j \in 1 .. Count(mode) PROVE items'[j].endOfSnapshot = b.eos[j]
    <3>1. items[j].endOfSnapshot = b.eos[j]
      BY <1>1, <1>3 DEF Reflects
    <3>2. items'[j].endOfSnapshot = items[j].endOfSnapshot
      BY <1>9, <1>10
    <3>. QED BY <3>1, <3>2
  <2>2. ASSUME NEW j \in 1 .. Count(mode), j \notin refused, j # i
        PROVE  /\ items'[j].seenUpdate = b.sent[j]
               /\ \A f \in 1 .. Width(mode) : Agrees(items'[j].fields[f], b.fields[j][f])
               /\ mode = "COMMAND" /\ ~HeedsAdvice =>
                       \A k \in RowKeys : SameRow(rows'[j][k], b.rows[j][k])
    <3>1. /\ items[j].seenUpdate = a.sent[j]
          /\ \A f \in 1 .. Width(mode) : Agrees(items[j].fields[f], a.fields[j][f])
          /\ mode = "COMMAND" /\ ~HeedsAdvice =>
                       \A k \in RowKeys : SameRow(rows[j][k], a.rows[j][k])
      BY <1>1, <2>2 DEF Reflects
    <3>. QED BY <1>8, <1>9, <1>12, <2>2, <3>1
  <2>3. ASSUME i \notin refused
        PROVE  /\ items'[i].seenUpdate = b.sent[i]
               /\ \A f \in 1 .. Width(mode) : Agrees(items'[i].fields[f], b.fields[i][f])
    BY <1>2, <1>8, <1>10, <2>3
  <2>4. ASSUME NEW j \in 1 .. Count(mode), j \notin refused'
        PROVE  /\ items'[j].seenUpdate = b.sent[j]
               /\ \A f \in 1 .. Width(mode) : Agrees(items'[j].fields[f], b.fields[j][f])
               /\ mode' = "COMMAND" /\ ~HeedsAdvice =>
                       \A k \in RowKeys : SameRow(rows'[j][k], b.rows[j][k])
    <3>1. CASE j = i
      BY <1>16, <2>3, <2>4, <3>1
    <3>2. CASE j # i
      BY <2>2, <2>4, <3>2
    <3>. QED BY <3>1, <3>2
  <2>. QED BY <2>1, <2>4 DEF Reflects
<1>. QED BY <1>8, <1>10, <1>11, <1>15, <1>17 DEF Settled, i, values, now

-----------------------------------------------------------------------------
(* What is told of an update. *)

\* The names of the schema.
LEMMA NamesOfSchema ==
  ASSUME ManagerShape, activation = "active", NEW update, update.schema = schema,
         DOMAIN update.values = 1 .. Width(mode)
  PROVE  /\ FieldByName(update, DeclaredFields[1]) = Field(update, 1)
         /\ \A p \in 1 .. Width(mode) : FieldByName(update, ToString(p)) = NoField
         /\ \A i \in 1 .. Count(mode) :
               schema.items[i].text = IF i = 1 THEN DeclaredItems[1] ELSE ToString(i)
<1> DEFINE names == NamePositions(Width(mode), DeclaredFields)
<1>1. schema.fields = names /\ schema.items = NamePositions(Count(mode), DeclaredItems)
  BY DEF ManagerShape, Schema
<1>2. Width(mode) \in {2, 3} /\ (Width(mode) = 3 <=> mode = "COMMAND")
  BY Sizes
<1>3. /\ DOMAIN names = 1 .. Width(mode)
      /\ \A p \in 1 .. Width(mode) : /\ p <= 2 => names[p] = Declared(DeclaredFields[p])
                                     /\ p > 2 => names[p] = Positional(p)
  <2>1. Len(DeclaredFields) = 2
    BY DEF DeclaredFields
  <2>. QED BY <1>2, <2>1 DEF NamePositions
<1>4. \A x, y : Declared(x) = Declared(y) => x = y
  BY DEF Declared
<1>5. \A x, p : Positional(p) # Declared(x)
  BY DEF Declared, Positional
<1>6. \A p \in 1 .. 2 : DeclaredFields[p] \in {"v", "key", "command"}
  BY DEF DeclaredFields
<1> HIDE DEF names
<1>7. FieldByName(update, DeclaredFields[1]) = Field(update, 1)
  <2> DEFINE named == {p \in DOMAIN names : names[p] = Declared(DeclaredFields[1])}
  <2>1. 1 \in named /\ named \subseteq {1, 2}
    <3>1. 1 \in 1 .. Width(mode) /\ 1 <= 2
      BY <1>2
    <3>2. 1 \in named
      BY <1>3, <3>1
    <3>3. ASSUME NEW p \in named PROVE p \in {1, 2}
      <4>1. p \in 1 .. Width(mode) /\ names[p] = Declared(DeclaredFields[1])
        BY <1>3
      <4>2. ~(p > 2)
        BY <1>3, <1>5, <4>1
      <4>. QED BY <1>2, <4>1, <4>2
    <3>. QED BY <3>2, <3>3
  <2> HIDE DEF named
  <2>2. (CHOOSE p \in named : \A q \in named : p <= q) = 1
    <3>1. \A q \in named : 1 <= q
      BY <2>1
    <3>2. \A p \in named : (\A q \in named : p <= q) => p = 1
      BY <2>1
    <3>. QED BY <2>1, <3>1, <3>2
  <2>3. named = {p \in DOMAIN update.schema.fields :
                    update.schema.fields[p] = Declared(DeclaredFields[1])}
    BY <1>1 DEF named
  <2>4. FieldPosition(update, DeclaredFields[1]) = 1
    BY <2>1, <2>2, <2>3 DEF FieldPosition
  <2>. QED BY <2>4 DEF FieldByName
<1>8. ASSUME NEW p \in 1 .. Width(mode) PROVE FieldByName(update, ToString(p)) = NoField
  <2>1. p \in 1 .. 3
    BY <1>2
  <2>2. ToString(p) \notin {"v", "key", "command"}
    BY <2>1, NumeralAssumption
  <2>3. ASSUME NEW q \in 1 .. Width(mode) PROVE names[q] # Declared(ToString(p))
    <3>1. CASE q <= 2
      BY <1>2, <1>3, <1>4, <1>6, <2>2, <3>1
    <3>2. CASE q > 2
      BY <1>2, <1>3, <1>5, <3>2
    <3>. QED BY <1>2, <3>1, <3>2
  <2>4. {q \in DOMAIN update.schema.fields : update.schema.fields[q] = Declared(ToString(p))} = {}
    BY <1>1, <1>3, <2>3
  <2>5. FieldPosition(update, ToString(p)) = 0
    BY <2>4 DEF FieldPosition
  <2>6. 0 \notin 1 .. Width(mode)
    BY <1>2
  <2>. QED BY <2>5, <2>6 DEF FieldByName, Field
<1>9. ASSUME NEW i \in 1 .. Count(mode)
      PROVE  schema.items[i].text = IF i = 1 THEN DeclaredItems[1] ELSE ToString(i)
  <2>1. Len(DeclaredItems) = 1 /\ Count(mode) \in Nat
    BY Sizes DEF DeclaredItems
  <2>2. schema.items[i] = IF i <= 1 THEN Declared(DeclaredItems[i]) ELSE Positional(i)
    BY <1>1, <2>1 DEF NamePositions
  <2>. QED BY <2>1, <2>2 DEF Declared, Positional
<1>. QED BY <1>7, <1>8, <1>9

\* The kind, as the client classifies it.
LEMMA KindFollows ==
  ASSUME NEW a, Reflects(a), a.srv = "on", mode \in {"RAW", "MERGE", "DISTINCT", "COMMAND"},
         NEW i \in 1 .. Count(mode), i \notin refused
  PROVE  ClassifyUpdate(items[i].endOfSnapshot, ~items[i].seenUpdate)
           = KindIn(mode, snapshotRequested, a, i)
<1>1. items[i].endOfSnapshot = a.eos[i] /\ items[i].seenUpdate = a.sent[i]
  BY DEF Reflects
<1>2. CASE ~snapshotRequested
  BY <1>2 DEF ClassifyUpdate, KindIn
<1>3. CASE snapshotRequested /\ mode = "RAW"
  BY <1>3 DEF ClassifyUpdate, KindIn
<1>4. CASE snapshotRequested /\ mode = "MERGE"
  BY <1>1, <1>4 DEF ClassifyUpdate, KindIn
<1>5. CASE snapshotRequested /\ mode \in {"DISTINCT", "COMMAND"}
  BY <1>1, <1>5 DEF ClassifyUpdate, KindIn
<1>. QED BY <1>2, <1>3, <1>4, <1>5

Told == ValuesAreServers /\ KindIsServers /\ (~HeedsAdvice => RowsAreServers)

\* A step that tells no update claims nothing of one.
LEMMA NothingTold ==
  ASSUME heard'.is # "Update" PROVE Told'
BY DEF Told, ValuesAreServers, KindIsServers, RowsAreServers, UpdateHeard

\* apply_update keeps what is settled, and tells of each update what the server meant.
LEMMA UpdateStep ==
  ASSUME NEW a, NEW b, mode \in {"RAW", "MERGE", "DISTINCT", "COMMAND"},
         IsView(mode, a), Settled(a), Says(mode, snapshotRequested, a, Head(wire), b), ApplyUpdate
  PROVE  Settled(b)' /\ Told'
<1> DEFINE i == Head(wire).item
           values == Head(wire).meaning.values
<1>1. ManagerShape /\ CallerShape /\ Reflects(a)
  BY DEF Settled
<1>2. CASE /\ UNCHANGED <<mode, activation, schema, items, rows>> /\ heard'.is # "Update"
           /\ \/ refused' = refused /\ b = a
              \/ /\ refused' = refused \union {i}
                 /\ i \in 1 .. Count(mode) /\ a.srv = "on" /\ b.srv = "on"
                 /\ SaysUpdate(mode, snapshotRequested, a, Head(wire), b)
  <2>1. CASE refused' = refused /\ b = a
    BY <1>2, <2>1, ClientRestsSettled, NothingTold
  <2>2. CASE /\ refused' = refused \union {i}
             /\ i \in 1 .. Count(mode) /\ a.srv = "on" /\ b.srv = "on"
             /\ SaysUpdate(mode, snapshotRequested, a, Head(wire), b)
    <3>1. /\ b.fields = [a.fields EXCEPT ![i] = values] /\ b.sent = [a.sent EXCEPT ![i] = TRUE]
          /\ b.rows = [a.rows EXCEPT ![i] = Head(wire).meaning.rows] /\ b.eos = a.eos
      BY <2>2 DEF SaysUpdate
    <3> HIDE DEF i, values
    <3>. QED BY <1>2, <2>2, <3>1, RefusedStep, NothingTold
  <2>. QED BY <1>2, <2>1, <2>2
<1>3. CASE /\ UNCHANGED <<mode, activation, schema, refused>>
           /\ i \in 1 .. Count(mode) /\ a.srv = "on" /\ b.srv = "on"
           /\ SaysUpdate(mode, snapshotRequested, a, Head(wire), b)
           /\ activation = "active" /\ Decoded.ok
           /\ items' = [items EXCEPT ![i].fields = Decoded.fields, ![i].seenUpdate = TRUE]
           /\ rows' = IF IsCommandMode(schema)
                      THEN [rows EXCEPT ![i] = ActOn(@, Made)] ELSE rows
           /\ heard' = [is |-> "Update", update |-> Made] /\ meant' = Head(wire).meaning
  <2>1. /\ Settled(b)' /\ items'[i].fields = Decoded.fields
        /\ b.fields[i] = values /\ b.rows[i] = Head(wire).meaning.rows
    BY <1>3, TakenStep
  <2>2. /\ \A f \in 1 .. Width(mode) : Given(values[f])
        /\ Head(wire).meaning.kind = KindIn(mode, snapshotRequested, a, i)
    BY <1>3 DEF SaysUpdate
  <2>3. /\ Made.schema = schema /\ Made.item = i
        /\ Made.kind = ClassifyUpdate(items[i].endOfSnapshot, ~items[i].seenUpdate)
        /\ \A p \in DOMAIN Decoded.fields : Field(Made, p) = Shown(Decoded.fields[p])
        /\ DOMAIN Made.values = DOMAIN Decoded.fields
    BY FieldsOfMade
  <2>4. DOMAIN Decoded.fields = 1 .. Width(mode)
    <3>1. Wide(Decoded.fields, Width(mode))
      BY <1>3, UpdateIsRead
    <3>. QED BY <3>1 DEF Wide
  <2>5. /\ FieldByName(Made, DeclaredFields[1]) = Field(Made, 1)
        /\ \A p \in 1 .. Width(mode) : FieldByName(Made, ToString(p)) = NoField
        /\ ItemName(Made) = IF i = 1 THEN DeclaredItems[1] ELSE ToString(i)
    BY <1>1, <1>3, <2>3, <2>4, NamesOfSchema DEF ItemName
  <2>6. i \notin refused => Made.kind = Head(wire).meaning.kind
    BY <1>1, <1>3, <2>2, <2>3, KindFollows
  <2>7. /\ heard'.update = Made /\ heard'.update.item = i /\ refused' = refused
        /\ FieldCount' = Width(mode) /\ DeclaredFields' = DeclaredFields
        /\ DeclaredItems' = DeclaredItems
        /\ meant'.values = values /\ meant'.rows = Head(wire).meaning.rows
        /\ meant'.kind = Head(wire).meaning.kind
    BY <1>3, <2>3 DEF FieldCount, Width, DeclaredFields, DeclaredItems
  <2>8. i \notin refused =>
          /\ \A f \in 1 .. Width(mode) : Agrees(items'[i].fields[f], values[f])
          /\ mode = "COMMAND" /\ ~HeedsAdvice =>
                \A k \in RowKeys : SameRow(rows'[i][k], Head(wire).meaning.rows[k])
    <3>1. Reflects(b)'
      BY <2>1 DEF Settled
    <3> HIDE DEF i, values
    <3>. QED BY <1>3, <2>1, <2>7, <3>1 DEF Reflects
  <2> HIDE DEF i, values
  <2>9. i \notin refused => \A f \in 1 .. Width(mode) : Equivalent(items'[i].fields[f], values[f])
    BY <2>2, <2>8 DEF Agrees, Given
  <2>10. ValuesAreServers'
    BY <2>1, <2>3, <2>4, <2>5, <2>7, <2>9 DEF ValuesAreServers
  <2>11. KindIsServers'
    BY <2>6, <2>7 DEF KindIsServers
  <2>12. ~HeedsAdvice => RowsAreServers'
    <3>1. IsCommandMode(schema)' => mode = "COMMAND"
      BY <1>1, <1>3, ModeOfSchema
    <3>. QED BY <2>7, <2>8, <3>1 DEF RowsAreServers
  <2>. QED BY <2>1, <2>10, <2>11, <2>12 DEF Told
<1>. QED BY <1>1, <1>2, <1>3, UpdateIsReadOrRefused

-----------------------------------------------------------------------------
(* The wire: a path from what the client agrees with to what the server holds. *)

WirePath == \E h : Path(h)

\* A sequence is one over its own elements.
LEMMA OverItself ==
  ASSUME NEW T, NEW s \in Seq(T)
  PROVE  s \in Seq(Range(s))
<1>1. s = [k \in 1 .. Len(s) |-> s[k]] /\ Len(s) \in Nat
  BY LenProperties
<1>2. \A n \in Nat : \A t : t = [k \in 1 .. n |-> t[k]] => t \in Seq(Range(t))
  BY DEF Range
<1>. QED BY <1>1, <1>2

\* What was reflected still is, once the client rests.
LEMMA RestReflects ==
  ASSUME NEW a, Reflects(a), UNCHANGED <<mode, activation, items, refused, rows>>
  PROVE  Reflects(a)'
BY DEF Reflects

\* A line that is sent is one step more on the path.
LEMMA SentOnPath ==
  ASSUME WireShape, NEW h, Path(h), NEW line, wire' = Append(wire, line), Len(wire) < WireBound,
         UNCHANGED <<manager, caller>>, IsView(mode, Now'), srv' \in {"off", "on", "over"},
         Says(mode, snapshotRequested, Now, line, Now')
  PROVE  WireShape' /\ WirePath'
<1> DEFINE n == Len(wire)
           T == Range(wire) \union {line}
<1>1. wire \in Seq(T) /\ line \in T
  <2>1. Range(wire) \subseteq T
    OBVIOUS
  <2>2. wire \in Seq(Range(wire))
    BY DEF WireShape
  <2>. QED BY <2>1, <2>2, SeqMonotonic
<1>2. n \in Nat /\ n < WireBound
  BY <1>1, LenProperties
<1>3. /\ Len(wire') = n + 1 /\ wire' \in Seq(T)
      /\ \A k \in 1 .. n : wire'[k] = wire[k]
      /\ wire'[n + 1] = line
  BY <1>1, AppendProperties
<1>4. wire' \in Seq(Range(wire'))
  BY <1>3, OverItself
<1>5. WireShape'
  BY <1>2, <1>3, <1>4, BoundAssumption DEF WireShape, manager
<1>6. /\ h[n] = Now /\ Reflects(h[0])
      /\ \A k \in 0 .. n : IsView(mode, h[k])
      /\ \A k \in 1 .. n : Says(mode, snapshotRequested, h[k - 1], wire[k], h[k])
  BY DEF Path
<1>7. PICK g : g[n + 1] = Now' /\ \A k \in 0 .. n : g[k] = h[k]
  <2>1. WITNESS [k \in 0 .. n + 1 |-> IF k = n + 1 THEN Now' ELSE h[k]]
  <2>. QED BY <1>2
<1> HIDE DEF n, T
<1>8. g[Len(wire')] = Now'
  BY <1>3, <1>7
<1>9. Reflects(g[0])'
  <2>1. g[0] = h[0]
    BY <1>2, <1>7
  <2>2. Reflects(h[0])'
    BY <1>6, RestReflects DEF manager, caller
  <2>3. ASSUME NEW a, NEW b, a = b, Reflects(a)' PROVE Reflects(b)'
    BY <2>3 DEF Reflects
  <2>. QED BY <2>1, <2>2, <2>3
<1>10. mode' = mode /\ snapshotRequested' = snapshotRequested
  BY DEF manager
<1>11. ASSUME NEW k \in 0 .. Len(wire') PROVE IsView(mode, g[k])
  BY <1>2, <1>3, <1>6, <1>7, <1>11
<1>12. ASSUME NEW k \in 1 .. Len(wire')
       PROVE  Says(mode, snapshotRequested, g[k - 1], wire'[k], g[k])
  <2>1. CASE k = n + 1
    <3>1. k - 1 = n /\ n \in 0 .. n
      BY <1>2, <2>1
    <3>2. g[k - 1] = Now /\ wire'[k] = line /\ g[k] = Now'
      BY <1>3, <1>6, <1>7, <2>1, <3>1
    <3>. QED BY <3>2
  <2>2. CASE k # n + 1
    <3>1. k \in 1 .. n /\ k - 1 \in 0 .. n /\ k \in 0 .. n
      BY <1>2, <1>3, <1>12, <2>2
    <3>2. g[k - 1] = h[k - 1] /\ wire'[k] = wire[k] /\ g[k] = h[k]
      BY <1>3, <1>7, <3>1
    <3>. QED BY <1>6, <3>1, <3>2
  <2>. QED BY <2>1, <2>2
<1>. QED BY <1>5, <1>8, <1>9, <1>10, <1>11, <1>12 DEF Path, WirePath

\* The client has read the head of the wire.
LEMMA ReadOnPath ==
  ASSUME WireShape, NEW h, Path(h), wire # << >>, wire' = Tail(wire),
         UNCHANGED <<mode, snapshotRequested, server>>, Reflects(h[1])'
  PROVE  WireShape' /\ WirePath'
<1> DEFINE n == Len(wire)
<1>1. wire \in Seq(Range(wire)) /\ n \in Nat \ {0} /\ n <= WireBound
  <2>1. wire \in Seq(Range(wire))
    BY DEF WireShape
  <2>. QED BY <2>1, LenProperties, EmptySeq DEF WireShape
<1>2. /\ Len(wire') = n - 1 /\ wire' \in Seq(Range(wire))
      /\ \A k \in 1 .. n - 1 : wire'[k] = wire[k + 1]
  BY <1>1, HeadTailProperties
<1>3. wire' \in Seq(Range(wire'))
  BY <1>2, OverItself
<1>4. WireShape'
  BY <1>1, <1>2, <1>3, BoundAssumption DEF WireShape, server
<1>5. /\ h[n] = Now
      /\ \A k \in 0 .. n : IsView(mode, h[k])
      /\ \A k \in 1 .. n : Says(mode, snapshotRequested, h[k - 1], wire[k], h[k])
  BY DEF Path
<1>6. PICK g : \A k \in 0 .. n - 1 : g[k] = h[k + 1]
  <2>1. WITNESS [k \in 0 .. n - 1 |-> h[k + 1]]
  <2>. QED OBVIOUS
<1>7. g[0] = h[1] /\ g[n - 1] = h[n]
  BY <1>1, <1>6
<1> HIDE DEF n
<1>8. Now' = Now
  BY DEF Now, server
<1>9. ASSUME NEW k \in 0 .. Len(wire') PROVE IsView(mode, g[k])
  BY <1>1, <1>2, <1>5, <1>6, <1>9
<1>10. ASSUME NEW k \in 1 .. Len(wire')
       PROVE  Says(mode, snapshotRequested, g[k - 1], wire'[k], g[k])
  <2>1. k \in 1 .. n - 1 /\ k - 1 \in 0 .. n - 1 /\ k \in 0 .. n - 1 /\ k + 1 \in 1 .. n
    BY <1>1, <1>2, <1>10
  <2>2. g[k - 1] = h[k] /\ wire'[k] = wire[k + 1] /\ g[k] = h[k + 1]
    BY <1>2, <1>6, <2>1
  <2>3. Says(mode, snapshotRequested, h[(k + 1) - 1], wire[k + 1], h[k + 1])
    BY <1>5, <2>1
  <2>4. (k + 1) - 1 = k
    BY <2>1
  <2>. QED BY <2>2, <2>3, <2>4
<1>11. Reflects(g[0])'
  <2>3. ASSUME NEW a, NEW b, a = b, Reflects(a)' PROVE Reflects(b)'
    BY <2>3 DEF Reflects
  <2>. QED BY <1>7, <2>3
<1>. QED BY <1>2, <1>4, <1>5, <1>7, <1>8, <1>9, <1>10, <1>11 DEF Path, WirePath

\* The line at the head of the wire says something of the path.
LEMMA HeadOfPath ==
  ASSUME WireShape, NEW h, Path(h), wire # << >>
  PROVE  /\ IsView(mode, h[0]) /\ Reflects(h[0])
         /\ Says(mode, snapshotRequested, h[0], Head(wire), h[1])
<1>1. wire \in Seq(Range(wire)) /\ Len(wire) \in Nat \ {0}
  <2>1. wire \in Seq(Range(wire))
    BY DEF WireShape
  <2>. QED BY <2>1, LenProperties, EmptySeq
<1>2. 1 \in 1 .. Len(wire) /\ 0 \in 0 .. Len(wire) /\ 1 - 1 = 0 /\ Head(wire) = wire[1]
  BY <1>1
<1>3. Says(mode, snapshotRequested, h[1 - 1], wire[1], h[1])
  BY <1>2 DEF Path
<1>. QED BY <1>2, <1>3 DEF Path

-----------------------------------------------------------------------------
(* The server's steps: each says what it does. *)

\* What the server holds now, part by part.
LEMMA NowIs ==
  /\ Now.srv = srv /\ Now.fields = srvFields /\ Now.sent = srvSent /\ Now.eos = srvEos
  /\ Now.rows = srvRows
BY DEF Now

LEMMA NowIsNext ==
  /\ Now'.srv = srv' /\ Now'.fields = srvFields' /\ Now'.sent = srvSent' /\ Now'.eos = srvEos'
  /\ Now'.rows = srvRows'
BY DEF Now

\* A line of the server that is no stray.
LEMMA ActivationSays ==
  ASSUME ServerActivates
  PROVE  /\ IsView(mode, Now') /\ srv' = "on"
         /\ \E line : Send(line) /\ Says(mode, snapshotRequested, Now, line, Now')
<1> DEFINE line == [tag |-> "SUB", items |-> ItemCount, fields |-> FieldCount,
                    commandFields |-> CommandFields, stray |-> FALSE]
<1>1. Send(line) /\ srv' = "on"
  BY DEF ServerActivates
<1>2. /\ srvFields' = [i \in 1 .. Count(mode) |-> NewItem(Width(mode))]
      /\ srvSent' = [i \in 1 .. Count(mode) |-> FALSE]
      /\ srvEos' = [i \in 1 .. Count(mode) |-> FALSE]
      /\ srvRows' = [i \in 1 .. Count(mode) |-> NoRows]
  BY Shapes DEF ServerActivates
<1>3. Says(mode, snapshotRequested, Now, line, Now')
  BY <1>1, <1>2, NowIsNext, Shapes DEF Says
<1>4. IsView(mode, Now')
  <2>1. ASSUME NEW i \in 1 .. Count(mode)
        PROVE  /\ srvFields'[i] = NewItem(Width(mode)) /\ srvRows'[i] = NoRows
    BY <1>2
  <2>2. Wide(NewItem(Width(mode)), Width(mode))
    BY DEF Wide, NewItem
  <2>3. \A f \in 1 .. Width(mode) : IsValue(mode, NewItem(Width(mode))[f])
    BY DEF NewItem, Unset, IsValue, Sendable
  <2>4. NoRows = [k \in RowKeys |-> NoRows[k]]
    BY DEF NoRows
  <2>5. /\ Wide(srvFields', Count(mode)) /\ Wide(srvSent', Count(mode))
        /\ Wide(srvEos', Count(mode)) /\ Wide(srvRows', Count(mode))
    BY <1>2 DEF Wide
  <2>. QED BY <2>1, <2>2, <2>3, <2>4, <2>5, NowIsNext DEF IsView
<1>. QED BY <1>1, <1>3, <1>4

\* The end of a subscription is said as such.
LEMMA EndSays ==
  ASSUME ServerEnds
  PROVE  /\ IsView(mode, Now') /\ srv' = "over"
         /\ \E line : Send(line) /\ Says(mode, snapshotRequested, Now, line, Now')
<1> DEFINE line == [tag |-> "UNSUB", stray |-> FALSE]
<1>1. Send(line) /\ srv' = "over"
  BY DEF ServerEnds
<1>. QED BY <1>1, NowIsNext DEF Says, IsView

\* A stray line says nothing of what the server holds.
LEMMA StraySays ==
  ASSUME ServerStrays
  PROVE  /\ UNCHANGED server
         /\ \E line : Send(line) /\ Says(mode, snapshotRequested, Now, line, Now')
<1>1. PICK line \in StrayLines : Send(line)
  BY DEF ServerStrays
<1>2. UNCHANGED server /\ Now' = Now
  BY DEF ServerStrays, Now, server
<1>3. Count(mode) \in Nat /\ ItemCount = Count(mode)
  BY Sizes, Shapes
<1>4. Contradicts(mode, line)
  BY <1>3 DEF StrayLines, Contradicts
<1>. QED BY <1>1, <1>2, <1>4 DEF Says

\* Nor does an overflow or a change of frequency.
LEMMA NoteSays ==
  ASSUME NEW i, ServerNotes(i)
  PROVE  /\ UNCHANGED server
         /\ \E line : Send(line) /\ Says(mode, snapshotRequested, Now, line, Now')
<1>1. UNCHANGED server /\ Now' = Now
  BY DEF ServerNotes, Now, server
<1>2. CASE Send([tag |-> "OV", item |-> i, stray |-> FALSE])
  <2> DEFINE line == [tag |-> "OV", item |-> i, stray |-> FALSE]
  <2>1. line.tag = "OV" /\ line.stray = FALSE
    OBVIOUS
  <2> HIDE DEF line
  <2>2. Says(mode, snapshotRequested, Now, line, Now')
    BY <1>1, <2>1 DEF Says
  <2>. QED BY <1>1, <1>2, <2>2 DEF line
<1>3. CASE Send([tag |-> "CONF", stray |-> FALSE])
  <2> DEFINE line == [tag |-> "CONF", stray |-> FALSE]
  <2>1. line.tag = "CONF" /\ line.stray = FALSE
    OBVIOUS
  <2> HIDE DEF line
  <2>2. Says(mode, snapshotRequested, Now, line, Now')
    BY <1>1, <2>1 DEF Says
  <2>. QED BY <1>1, <1>3, <2>2 DEF line
<1>. QED BY <1>2, <1>3 DEF ServerNotes

\* The end of a snapshot is said of the item it ends for.
LEMMA SnapshotEndSays ==
  ASSUME NEW i \in Items, ServerEndsSnapshot(i), IsView(mode, Now)
  PROVE  /\ IsView(mode, Now') /\ UNCHANGED srv
         /\ \E line : Send(line) /\ Says(mode, snapshotRequested, Now, line, Now')
<1> DEFINE line == [tag |-> "EOS", item |-> i, stray |-> FALSE]
<1>1. /\ Send(line) /\ srv = "on" /\ srv' = srv /\ srvEos' = [srvEos EXCEPT ![i] = TRUE]
      /\ UNCHANGED <<srvFields, srvSent, srvRows>>
  BY DEF ServerEndsSnapshot
<1>2. Says(mode, snapshotRequested, Now, line, Now')
  BY <1>1, NowIs, NowIsNext, Shapes DEF Says
<1>3. IsView(mode, Now')
  <2>1. Wide(srvEos, Count(mode))
    BY <1>1, NowIs DEF IsView
  <2>2. Wide(srvEos', Count(mode))
    BY <1>1, <2>1 DEF Wide
  <2>. QED BY <1>1, <2>2, NowIs, NowIsNext DEF IsView
<1>. QED BY <1>1, <1>2, <1>3

\* A cleared snapshot is said of its item, whose fields and rows are gone.
LEMMA ClearSays ==
  ASSUME NEW i \in Items, ServerClears(i), IsView(mode, Now)
  PROVE  /\ IsView(mode, Now') /\ UNCHANGED srv
         /\ \E line : Send(line) /\ Says(mode, snapshotRequested, Now, line, Now')
<1> DEFINE line == [tag |-> "CS", item |-> i, stray |-> FALSE]
<1>1. /\ Send(line) /\ srv = "on" /\ srv' = srv /\ srvRows' = [srvRows EXCEPT ![i] = NoRows]
      /\ UNCHANGED <<srvFields, srvSent, srvEos>>
  BY DEF ServerClears
<1>2. Says(mode, snapshotRequested, Now, line, Now')
  BY <1>1, NowIs, NowIsNext, Shapes DEF Says
<1>3. IsView(mode, Now')
  <2>1. Wide(srvRows, Count(mode)) /\ \A j \in 1 .. Count(mode) : srvRows[j] = [k \in RowKeys |-> srvRows[j][k]]
    BY <1>1, NowIs DEF IsView
  <2>2. Wide(srvRows', Count(mode))
    BY <1>1, <2>1 DEF Wide
  <2>3. ASSUME NEW j \in 1 .. Count(mode) PROVE srvRows'[j] = [k \in RowKeys |-> srvRows'[j][k]]
    <3>1. srvRows'[j] = IF j = i THEN NoRows ELSE srvRows[j]
      BY <1>1, <2>1 DEF Wide
    <3>. QED BY <2>1, <3>1 DEF NoRows
  <2>. QED BY <1>1, <2>2, <2>3, NowIs, NowIsNext DEF IsView
<1>. QED BY <1>1, <1>2, <1>3

\* An update that is sent says the values it means, and the row it changes.
LEMMA SendUpdateSays ==
  ASSUME NEW i \in Items, NEW new, NEW newRows, SendUpdate(i, new, newRows), IsView(mode, Now),
         Wide(new, Width(mode)), newRows = [k \in RowKeys |-> newRows[k]],
         \A f \in 1 .. Width(mode) : Given(new[f]) /\ IsValue(mode, new[f]),
         mode = "COMMAND" => RowStep(srvRows[i], new, newRows)
  PROVE  /\ IsView(mode, Now') /\ UNCHANGED srv
         /\ \E line : Send(line) /\ Says(mode, snapshotRequested, Now, line, Now')
<1>1. PICK list \in Spellings(srvFields[i], new) :
        Send([tag |-> "U", item |-> i, tokens |-> list, stray |-> FALSE,
              meaning |-> [is |-> "update", values |-> new, rows |-> newRows,
                           kind |-> ServerKind(i)]])
  BY DEF SendUpdate
<1> DEFINE line == [tag |-> "U", item |-> i, tokens |-> list, stray |-> FALSE,
                    meaning |-> [is |-> "update", values |-> new, rows |-> newRows,
                                 kind |-> ServerKind(i)]]
<1>2. /\ line.tag = "U" /\ line.item = i /\ line.tokens = list /\ line.stray = FALSE
      /\ line.meaning.values = new /\ line.meaning.rows = newRows
      /\ line.meaning.kind = ServerKind(i) /\ Send(line)
  BY <1>1
<1> HIDE DEF line
<1>3. /\ srv = "on" /\ srv' = srv /\ srvEos' = srvEos
      /\ srvFields' = [srvFields EXCEPT ![i] = new]
      /\ srvSent' = [srvSent EXCEPT ![i] = TRUE]
      /\ srvRows' = [srvRows EXCEPT ![i] = newRows]
  BY DEF SendUpdate
<1>4. Spells(mode, srvFields[i], new, list)
  BY SpellingsSpell
<1>5. ServerKind(i) = KindIn(mode, snapshotRequested, Now, i)
  BY NowIs DEF ServerKind, KindIn
<1>6. SaysUpdate(mode, snapshotRequested, Now, line, Now')
  BY <1>2, <1>3, <1>4, <1>5, NowIs, NowIsNext DEF SaysUpdate
<1>7. Says(mode, snapshotRequested, Now, line, Now')
  BY <1>2, <1>3, <1>6, NowIs, NowIsNext, Shapes DEF Says
<1>8. IsView(mode, Now')
  <2>1. /\ Wide(srvFields, Count(mode)) /\ Wide(srvSent, Count(mode)) /\ Wide(srvEos, Count(mode))
        /\ Wide(srvRows, Count(mode))
        /\ \A j \in 1 .. Count(mode) :
             /\ Wide(srvFields[j], Width(mode))
             /\ \A f \in 1 .. Width(mode) : IsValue(mode, srvFields[j][f])
             /\ srvRows[j] = [k \in RowKeys |-> srvRows[j][k]]
    BY <1>3, NowIs DEF IsView
  <2>2. /\ Wide(srvFields', Count(mode)) /\ Wide(srvSent', Count(mode)) /\ Wide(srvEos', Count(mode))
        /\ Wide(srvRows', Count(mode))
    BY <1>3, <2>1 DEF Wide
  <2>3. ASSUME NEW j \in 1 .. Count(mode)
        PROVE  /\ Wide(srvFields'[j], Width(mode))
               /\ \A f \in 1 .. Width(mode) : IsValue(mode, srvFields'[j][f])
               /\ srvRows'[j] = [k \in RowKeys |-> srvRows'[j][k]]
    <3>1. /\ srvFields'[j] = IF j = i THEN new ELSE srvFields[j]
          /\ srvRows'[j] = IF j = i THEN newRows ELSE srvRows[j]
      BY <1>3, <2>1 DEF Wide
    <3>. QED BY <2>1, <3>1
  <2>. QED BY <1>3, <2>2, <2>3, NowIsNext DEF IsView
<1>. QED BY <1>2, <1>3, <1>7, <1>8

\* Every update the server may send is one of these.
LEMMA UpdateSays ==
  ASSUME NEW i \in Items, ServerUpdates(i), IsView(mode, Now),
         mode \in {"RAW", "MERGE", "DISTINCT", "COMMAND"}
  PROVE  /\ IsView(mode, Now') /\ UNCHANGED srv
         /\ \E line : Send(line) /\ Says(mode, snapshotRequested, Now, line, Now')
<1>1. CASE mode # "COMMAND"
  <2> DEFINE set == [1 .. FieldCount -> {Null} \union {[is |-> "text", text |-> v] : v \in Values}]
  <2>1. PICK new \in Few(i, set) : SendUpdate(i, new, NoRows)
    BY <1>1 DEF ServerUpdates
  <2>2. Null \in {Null} \union {[is |-> "text", text |-> v] : v \in Values}
    OBVIOUS
  <2>3. [f \in 1 .. FieldCount |-> Null] \in set
    BY <2>2
  <2>4. new \in set
    BY <2>1, <2>3 DEF Few
  <2>5. Width(mode) = FieldCount
    BY Shapes
  <2>6. Wide(new, Width(mode))
    BY <2>4, <2>5 DEF Wide
  <2>7. ASSUME NEW f \in 1 .. Width(mode) PROVE Given(new[f]) /\ IsValue(mode, new[f])
    <3>1. new[f] \in {Null} \union {[is |-> "text", text |-> v] : v \in Values}
      BY <2>4, <2>5
    <3>2. CASE new[f] = Null
      BY <3>2 DEF Null, Given, IsValue, Sendable
    <3>3. CASE new[f] # Null
      <4>1. PICK v \in Values : new[f] = [is |-> "text", text |-> v]
        BY <3>1, <3>3
      <4>2. new[f].is = "text" /\ new[f].text = v
        BY <4>1
      <4>3. Legible(v)
        BY TextsAssumption DEF Legible
      <4>. QED BY <4>2, <4>3 DEF Given, IsValue, Sendable
    <3>. QED BY <3>2, <3>3
  <2>8. NoRows = [k \in RowKeys |-> NoRows[k]]
    BY DEF NoRows
  <2>. QED BY <1>1, <2>1, <2>6, <2>7, <2>8, SendUpdateSays
<1>2. CASE mode = "COMMAND"
  <2>1. i = 1 /\ Width(mode) = 3
    <3>1. Count(mode) = 1
      BY <1>2 DEF Count
    <3>. QED BY <1>2, <3>1, Shapes, Sizes
  <2>2. Few(i, RowKeys) = RowKeys /\ Few(i, Values) = Values /\ srv = "on"
    BY <1>2, <2>1 DEF Few, ServerUpdates
  <2>3. PICK k \in RowKeys, v \in Values :
          \E command \in (IF srvRows[i][k] = Absent THEN {"ADD"} ELSE {"UPDATE", "DELETE"}) :
          \E literal \in Literals[command] :
          LET field(text) == [is |-> "text", text |-> text]
              value == IF command = "DELETE" THEN Null ELSE field(v)
          IN  SendUpdate(i, <<field(k), field(literal), value>>,
                         [srvRows[i] EXCEPT ![k] = IF command = "DELETE" THEN Absent ELSE value])
    BY <1>2, <2>2 DEF ServerUpdates
  <2>4. PICK command \in {"ADD", "UPDATE", "DELETE"} : \E literal \in Literals[command] :
          LET field(text) == [is |-> "text", text |-> text]
              value == IF command = "DELETE" THEN Null ELSE field(v)
          IN  SendUpdate(i, <<field(k), field(literal), value>>,
                         [srvRows[i] EXCEPT ![k] = IF command = "DELETE" THEN Absent ELSE value])
    BY <2>3
  <2> DEFINE field(text) == [is |-> "text", text |-> text]
             value == IF command = "DELETE" THEN Null ELSE field(v)
  <2>5. PICK literal \in Literals[command] :
           SendUpdate(i, <<field(k), field(literal), value>>,
                         [srvRows[i] EXCEPT ![k] = IF command = "DELETE" THEN Absent ELSE value])
    BY <2>4
  <2> DEFINE new == <<field(k), field(literal), value>>
             after == [srvRows[i] EXCEPT ![k] = IF command = "DELETE" THEN Absent ELSE value]
  <2>6. /\ new[1] = field(k) /\ new[2] = field(literal) /\ new[3] = value
        /\ Wide(new, 3)
    BY DEF Wide
  <2>7. field(k).is = "text" /\ field(literal).is = "text" /\ value.is \in {"null", "text"}
        /\ (command # "DELETE" => value.is = "text")
    BY DEF Null
  <2>8. \A f \in 1 .. 3 : Given(new[f]) /\ IsValue(mode, new[f])
    <3>1. \A f \in 1 .. 3 : f = 1 \/ f = 2 \/ f = 3
      OBVIOUS
    <3>. QED BY <1>2, <2>6, <2>7, <3>1 DEF Given, IsValue
  <2>9. srvRows[i] = [q \in RowKeys |-> srvRows[i][q]]
    BY <2>2, NowIs, Shapes DEF IsView
  <2>10. after = [q \in RowKeys |-> after[q]]
    BY <2>9
  <2>11. RowStep(srvRows[i], new, after)
    <3>1. command \in DOMAIN Literals
      BY LiteralsAssumption
    <3>2. /\ new[1] = [is |-> "text", text |-> k] /\ new[2] = [is |-> "text", text |-> literal]
          /\ command # "DELETE" => new[3].is = "text"
          /\ after = [srvRows[i] EXCEPT ![k] = IF command = "DELETE" THEN Absent ELSE new[3]]
      BY <2>6, <2>7
    <3> HIDE DEF new, after
    <3>. QED BY <3>1, <3>2 DEF RowStep
  <2>12. SendUpdate(i, new, after)
    BY <2>5
  <2> HIDE DEF new, after
  <2>. QED BY <2>1, <2>6, <2>8, <2>10, <2>11, <2>12, SendUpdateSays
<1>. QED BY <1>1, <1>2

-----------------------------------------------------------------------------
(* The inductive invariant and the theorems. *)

FeedInv == WireShape /\ ManagerShape /\ CallerShape /\ WirePath /\ Told

\* The invariant, when the server sends a line.
LEMMA SentKeeps ==
  ASSUME FeedInv, ClientRests, IsView(mode, Now'), srv' \in {"off", "on", "over"},
         NEW line, Send(line), Says(mode, snapshotRequested, Now, line, Now')
  PROVE  FeedInv'
<1>1. PICK h : Path(h)
  BY DEF FeedInv, WirePath
<1>2. UNCHANGED <<manager, caller>> /\ heard'.is # "Update"
  BY DEF ClientRests, Silence
<1>3. Len(wire) < WireBound /\ wire' = Append(wire, line)
  BY DEF Send
<1>4. WireShape' /\ WirePath'
  BY <1>1, <1>2, <1>3, SentOnPath DEF FeedInv
<1>5. Told'
  BY <1>2, NothingTold
<1>6. ManagerShape' /\ CallerShape'
  BY <1>2 DEF FeedInv, ManagerShape, CallerShape, manager, caller, DeclaredItems, DeclaredFields
<1>. QED BY <1>4, <1>5, <1>6 DEF FeedInv

\* The invariant, when the client has handled the line at the head.
LEMMA ReadKeeps ==
  ASSUME FeedInv, NEW h, Path(h), wire # << >>, wire' = Tail(wire),
         UNCHANGED <<mode, snapshotRequested, server>>, Settled(h[1])', Told'
  PROVE  FeedInv'
<1>1. WireShape' /\ WirePath'
  BY ReadOnPath DEF FeedInv, Settled
<1>. QED BY <1>1 DEF FeedInv, Settled

\* The invariant holds at first,
LEMMA InitFeed ==
  ASSUME Init
  PROVE  FeedInv
<1>1. /\ mode \in {"RAW", "MERGE", "DISTINCT", "COMMAND"} /\ snapshotRequested \in BOOLEAN
      /\ activation = "pending" /\ items = << >> /\ srv = "off" /\ wire = << >>
      /\ heard = Silence /\ refused = {} /\ rows = [i \in 1 .. Count(mode) |-> NoRows]
  BY ModesAssumption, Shapes DEF Init
<1>2. wire \in Seq(Range(wire)) /\ Len(wire) = 0
  BY <1>1, EmptySeq
<1>3. WireShape
  BY <1>1, <1>2, BoundAssumption DEF WireShape
<1>4. ManagerShape
  BY <1>1 DEF ManagerShape
<1>5. CallerShape
  BY <1>1 DEF CallerShape, Wide, NoRows
<1>6. WirePath
  <2>1. Now.srv = "off"
    BY <1>1 DEF Now
  <2>2. IsView(mode, Now) /\ Reflects(Now)
    BY <2>1 DEF IsView, Reflects
  <2>3. PICK h : h[0] = Now
    <3>1. WITNESS [k \in {0} |-> Now]
    <3>. QED OBVIOUS
  <2>4. Reflects(h[0])
    BY <2>2, <2>3
  <2>5. \A k \in 0 .. 0 : k = 0
    OBVIOUS
  <2>6. \A k \in 1 .. 0 : FALSE
    OBVIOUS
  <2>7. Path(h)
    BY <1>2, <2>2, <2>3, <2>4, <2>5, <2>6 DEF Path
  <2>. QED BY <2>7 DEF WirePath
<1>7. Told
  BY <1>1 DEF Told, ValuesAreServers, KindIsServers, RowsAreServers, UpdateHeard, Silence
<1>. QED BY <1>3, <1>4, <1>5, <1>6, <1>7 DEF FeedInv

\* when the session is replaced and the server starts anew,
LEMMA ReplacedKeeps ==
  ASSUME FeedInv, ServerReplaced
  PROVE  FeedInv'
<1>1. /\ srv' = "off" /\ wire' = << >> /\ UNCHANGED <<manager, caller>> /\ heard' = Silence
  BY DEF ServerReplaced, ClientRests
<1>2. wire' \in Seq(Range(wire')) /\ Len(wire') = 0
  BY <1>1, EmptySeq
<1>3. WireShape'
  BY <1>1, <1>2, BoundAssumption DEF FeedInv, WireShape, manager
<1>4. ManagerShape' /\ CallerShape'
  BY <1>1 DEF FeedInv, ManagerShape, CallerShape, manager, caller, DeclaredItems, DeclaredFields
<1>5. WirePath'
  <2>1. Now'.srv = "off"
    BY <1>1 DEF Now
  <2>3. PICK h : h[0] = Now'
    <3>1. WITNESS [k \in {0} |-> Now']
    <3>. QED OBVIOUS
  <2>2. IsView(mode', h[0]) /\ Reflects(h[0])'
    BY <2>1, <2>3 DEF IsView, Reflects
  <2>5. \A k \in 0 .. 0 : k = 0
    OBVIOUS
  <2>6. \A k \in 1 .. 0 : FALSE
    OBVIOUS
  <2>7. Path(h)'
    BY <1>2, <2>2, <2>3, <2>5, <2>6 DEF Path
  <2>. QED BY <2>7 DEF WirePath
<1>6. Told'
  BY <1>1, NothingTold DEF Silence
<1>. QED BY <1>3, <1>4, <1>5, <1>6 DEF FeedInv

\* when the manager handles a line, whichever it is,
LEMMA HandleKeeps ==
  ASSUME FeedInv, Handle
  PROVE  FeedInv'
<1>1. PICK h : Path(h)
  BY DEF FeedInv, WirePath
<1>2. wire # << >>
  BY DEF Handle, Activate, ApplyUpdate, EndOfSnapshot, ClearSnapshot, Overflow, Reconfigured,
         Unsubscribed, Line
<1>3. /\ IsView(mode, h[0]) /\ Settled(h[0])
      /\ Says(mode, snapshotRequested, h[0], Head(wire), h[1])
  BY <1>1, <1>2, HeadOfPath DEF FeedInv, Settled
<1>4. /\ wire' = Tail(wire) /\ UNCHANGED <<mode, snapshotRequested, server>>
      /\ ~ApplyUpdate => heard'.is # "Update"
  <2>1. CASE ApplyUpdate
    BY <2>1 DEF ApplyUpdate, Tell, Refuse
  <2>2. CASE Activate \/ EndOfSnapshot \/ ClearSnapshot \/ Overflow \/ Reconfigured \/ Unsubscribed
    BY <2>2 DEF Activate, EndOfSnapshot, ClearSnapshot, Overflow, Reconfigured, Unsubscribed,
                Tell, Refuse
  <2>. QED BY <2>1, <2>2 DEF Handle
<1>5. mode \in {"RAW", "MERGE", "DISTINCT", "COMMAND"}
  BY DEF FeedInv, WireShape
<1>6. Settled(h[1])' /\ Told'
  <2>1. CASE ApplyUpdate
    BY <1>3, <1>5, <2>1, UpdateStep
  <2>2. CASE ~ApplyUpdate
    <3>1. Told'
      BY <1>4, <2>2, NothingTold
    <3>2. CASE Activate
      BY <1>3, <3>1, <3>2, ActivateStep
    <3>3. CASE EndOfSnapshot
      BY <1>3, <3>1, <3>3, EndOfSnapshotStep
    <3>4. CASE ClearSnapshot
      BY <1>3, <3>1, <3>4, ClearSnapshotStep
    <3>5. CASE Overflow \/ Reconfigured
      BY <1>3, <3>1, <3>5, OtherStep
    <3>6. CASE Unsubscribed
      BY <1>3, <3>1, <3>6, UnsubscribedStep
    <3>. QED BY <2>2, <3>2, <3>3, <3>4, <3>5, <3>6 DEF Handle
  <2>. QED BY <2>1, <2>2
<1>. QED BY <1>1, <1>2, <1>4, <1>6, ReadKeeps

\* and when the server does anything.
LEMMA ServerKeeps ==
  ASSUME FeedInv,
         \/ ServerActivates \/ ServerEnds \/ ServerStrays
         \/ \E i \in Items : ServerUpdates(i) \/ ServerEndsSnapshot(i) \/ ServerClears(i)
                             \/ ServerNotes(i)
  PROVE  FeedInv'
<1>1. /\ IsView(mode, Now) /\ srv \in {"off", "on", "over"}
      /\ mode \in {"RAW", "MERGE", "DISTINCT", "COMMAND"}
  <2>1. PICK h : Path(h)
    BY DEF FeedInv, WirePath
  <2>2. Len(wire) \in Nat
    <3>1. wire \in Seq(Range(wire))
      BY DEF FeedInv, WireShape
    <3>. QED BY <3>1, LenProperties
  <2>3. Len(wire) \in 0 .. Len(wire) /\ h[Len(wire)] = Now
    BY <2>1, <2>2 DEF Path
  <2>4. IsView(mode, h[Len(wire)])
    BY <2>1, <2>3 DEF Path
  <2>. QED BY <2>3, <2>4 DEF FeedInv, WireShape
<1>2. ClientRests
  <2>1. ASSUME NEW i, ServerUpdates(i) PROVE ClientRests
    <3>1. \E new, newRows : SendUpdate(i, new, newRows)
      BY <2>1 DEF ServerUpdates
    <3>. QED BY <3>1 DEF SendUpdate
  <2>. QED BY <2>1 DEF ServerActivates, ServerEnds, ServerStrays, ServerEndsSnapshot, ServerClears,
                       ServerNotes
<1>3. /\ IsView(mode, Now') /\ srv' \in {"off", "on", "over"}
      /\ \E line : Send(line) /\ Says(mode, snapshotRequested, Now, line, Now')
  <2>1. CASE ServerActivates
    BY <2>1, ActivationSays
  <2>2. CASE ServerEnds
    BY <2>2, EndSays
  <2>3. UNCHANGED server => srv' = srv /\ Now' = Now
    BY DEF server, Now
  <2>4. CASE ServerStrays
    BY <1>1, <2>3, <2>4, StraySays
  <2>5. ASSUME NEW i \in Items,
               ServerUpdates(i) \/ ServerEndsSnapshot(i) \/ ServerClears(i) \/ ServerNotes(i)
        PROVE  /\ IsView(mode, Now') /\ srv' \in {"off", "on", "over"}
               /\ \E line : Send(line) /\ Says(mode, snapshotRequested, Now, line, Now')
    <3>1. CASE ServerUpdates(i)
      BY <1>1, <3>1, UpdateSays
    <3>2. CASE ServerEndsSnapshot(i)
      BY <1>1, <3>2, SnapshotEndSays
    <3>3. CASE ServerClears(i)
      BY <1>1, <3>3, ClearSays
    <3>4. CASE ServerNotes(i)
      BY <1>1, <2>3, <3>4, NoteSays
    <3>. QED BY <2>5, <3>1, <3>2, <3>3, <3>4
  <2>. QED BY <2>1, <2>2, <2>4, <2>5
<1>. QED BY <1>2, <1>3, SentKeeps

\* Every step keeps it.
LEMMA NextKeeps ==
  ASSUME FeedInv, [Next]_vars
  PROVE  FeedInv'
<1>1. CASE UNCHANGED vars
  BY <1>1 DEF FeedInv, vars, manager, server, caller, WireShape, ManagerShape, CallerShape,
     WirePath, Path, Now, Reflects, Told, ValuesAreServers, KindIsServers, RowsAreServers,
     UpdateHeard, FieldCount, DeclaredFields, DeclaredItems
<1>2. CASE ServerReplaced
  BY <1>2, ReplacedKeeps
<1>3. CASE Handle
  BY <1>3, HandleKeeps
<1>. QED BY <1>1, <1>2, <1>3, ServerKeeps DEF Next

\* It is an invariant of every behaviour.
LEMMA FeedIsInvariant == Spec => []FeedInv
<1>1. FeedInv /\ [Next]_vars => FeedInv'
  BY NextKeeps
<1>. QED BY <1>1, InitFeed, PTL DEF Spec

\* The shapes it speaks of are the types.
LEMMA ShapesTyped ==
  ASSUME FeedInv
  PROVE  TypeOK
<1>1. Count(mode) \in Nat /\ Width(mode) \in Nat /\ Items = 1 .. Count(mode)
  BY Sizes, Shapes
<1>2. \A s, n : n \in Nat /\ Wide(s, n) => Len(s) = n /\ DOMAIN s = 1 .. n
  BY DEF Wide
<1>3. ASSUME activation = "active"
      PROVE  /\ Len(items) = Len(schema.items)
             /\ \A i \in DOMAIN items :
                   /\ Len(items[i].fields) = Len(schema.fields)
                   /\ \A f \in DOMAIN items[i].fields : IsSlot(items[i].fields[f])
                   /\ items[i].seenUpdate \in BOOLEAN /\ items[i].endOfSnapshot \in BOOLEAN
  <2>1. Wide(items, Count(mode)) /\ \A i \in 1 .. Count(mode) : TrackerShape(mode, items[i])
    BY <1>3 DEF FeedInv, ManagerShape
  <2>2. /\ schema.items = NamePositions(Count(mode), DeclaredItems)
        /\ schema.fields = NamePositions(Width(mode), DeclaredFields)
    BY <1>3 DEF FeedInv, ManagerShape, Schema
  <2>3. Len(schema.items) = Count(mode) /\ Len(schema.fields) = Width(mode)
    BY <1>1, <2>2 DEF NamePositions
  <2>4. Len(items) = Count(mode) /\ DOMAIN items = 1 .. Count(mode)
    BY <1>1, <1>2, <2>1
  <2>5. ASSUME NEW i \in DOMAIN items
        PROVE  /\ Len(items[i].fields) = Len(schema.fields)
               /\ \A f \in DOMAIN items[i].fields : IsSlot(items[i].fields[f])
               /\ items[i].seenUpdate \in BOOLEAN /\ items[i].endOfSnapshot \in BOOLEAN
    <3>1. TrackerShape(mode, items[i])
      BY <2>1, <2>4
    <3>2. Len(items[i].fields) = Width(mode) /\ DOMAIN items[i].fields = 1 .. Width(mode)
      BY <1>1, <1>2, <3>1 DEF TrackerShape
    <3>. QED BY <2>3, <3>1, <3>2 DEF TrackerShape
  <2>. QED BY <2>3, <2>4, <2>5
<1>. QED BY <1>1, <1>3 DEF FeedInv, WireShape, ManagerShape, CallerShape, TypeOK

\* Type correctness: SubscriptionManager's items, its schema and the caller's rows are what
\* they are declared to be, whatever the server sends.
THEOREM FeedTypeOK == Spec => []TypeOK
<1>1. FeedInv => TypeOK
  BY ShapesTyped
<1>. QED BY <1>1, FeedIsInvariant, PTL

\* ItemUpdate's values: until an update of an item was refused, an update shows in every field
\* what the server holds, however the list was packed and each value diffed, by position and
\* by name.
THEOREM FeedShowsTheServersValues == Spec => []ValuesAreServers
<1>1. FeedInv => ValuesAreServers
  BY DEF FeedInv, Told
<1>. QED BY <1>1, FeedIsInvariant, PTL

\* classify_update: until an update of an item was refused, an update is called snapshot or
\* real-time as the server meant it, also on the session that replaced a lost one.
THEOREM FeedTellsSnapshotsApart == Spec => []KindIsServers
<1>1. FeedInv => KindIsServers
  BY DEF FeedInv, Told
<1>. QED BY <1>1, FeedIsInvariant, PTL

\* Until an update of the item was refused, the rows of a COMMAND caller that acts on
\* command() and key() of every update are the server's. One that deletes only on a command
\* the update itself carried may keep a row the server deleted, hence the assumption.
THEOREM FeedKeepsTheRows ==
  ASSUME ~HeedsAdvice
  PROVE  Spec => []RowsAreServers
<1>1. FeedInv => RowsAreServers
  BY DEF FeedInv, Told
<1>. QED BY <1>1, FeedIsInvariant, PTL
================================================================================
