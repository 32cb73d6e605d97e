---------------------------- MODULE FilterProofs ----------------------------
(***************************************************************************)
(* What flattening and filtering a sequence gives, for all sequences.      *)
(***************************************************************************)
EXTENDS Filters, Naturals, SequenceTheorems, FiniteSetTheorems, WellFoundedInduction, TLAPS

(* A set of numbers that has zero, and the successor of each, has all.      *)
LEMMA AllNumbers ==
    ASSUME NEW S \in SUBSET Nat, 0 \in S, \A n \in S : n + 1 \in S
    PROVE  S = Nat
<1> SUFFICES ASSUME Nat \ S # {}
             PROVE  FALSE
  OBVIOUS
<1> DEFINE gaps == Nat \ S
<1>1. PICK k \in gaps : \A l \in gaps : <<l, k>> \notin OpToRel(<, Nat)
  BY WFMin, NatLessThanWellFounded, Zenon
<1>2. \A l \in gaps : ~(l < k)
  BY <1>1, Zenon DEF OpToRel
<1>3. k \in Nat /\ k # 0 /\ k \notin S
  OBVIOUS
<1>4. k - 1 \in Nat /\ k - 1 < k
  BY <1>3
<1>5. k - 1 \in S
  BY <1>2, <1>4
<1>6. (k - 1) + 1 = k
  BY <1>3
<1> QED
  BY <1>3, <1>5, <1>6

(* f is what FlattenSeq computes, one sequence after the other.             *)
FlatSteps(f, s) == f = [i \in 1..Len(s) |-> IF i = 1 THEN s[i] ELSE f[i - 1] \o s[i]]

(* There is such a function, of sequences.                                  *)
LEMMA FlatStepsExist ==
    ASSUME NEW V, NEW s \in Seq(Seq(V))
    PROVE  \E f \in [1..Len(s) -> Seq(V)] : FlatSteps(f, s)
<1> DEFINE Upto(n) == \E f \in [1..n -> Seq(V)] :
                         \A i \in 1..n : f[i] = IF i = 1 THEN s[i] ELSE f[i - 1] \o s[i]
           good == {n \in Nat : n <= Len(s) => Upto(n)}
<1>1. Len(s) \in Nat /\ \A i \in 1..Len(s) : s[i] \in Seq(V)
  BY LenProperties, ElementOfSeq
<1>2. 0 \in good
  <2> DEFINE f == [i \in 1..0 |-> << >>]
  <2>1. f \in [1..0 -> Seq(V)] /\ 1..0 = {}
    OBVIOUS
  <2>2. Upto(0)
    BY <2>1, Zenon
  <2> HIDE DEF Upto
  <2> QED
    BY <2>2
<1>3. ASSUME NEW n \in good
      PROVE  n + 1 \in good
  <2> HIDE DEF Upto
  <2> SUFFICES ASSUME n + 1 <= Len(s)
               PROVE  Upto(n + 1)
    OBVIOUS
  <2>1. n \in Nat /\ n <= Len(s) /\ n + 1 \in 1..Len(s) /\ Upto(n)
    BY <1>1
  <2> USE DEF Upto
  <2>2. PICK f \in [1..n -> Seq(V)] :
               \A i \in 1..n : f[i] = IF i = 1 THEN s[i] ELSE f[i - 1] \o s[i]
    BY <2>1, Zenon
  <2> DEFINE x == IF n = 0 THEN s[1] ELSE f[n] \o s[n + 1]
             g == [i \in 1..(n + 1) |-> IF i = n + 1 THEN x ELSE f[i]]
  <2>3. x \in Seq(V)
    BY <1>1, <2>1, ConcatProperties
  <2>4. g \in [1..(n + 1) -> Seq(V)]
    BY <2>1, <2>3
  <2>5. ASSUME NEW i \in 1..(n + 1)
        PROVE  g[i] = IF i = 1 THEN s[i] ELSE g[i - 1] \o s[i]
    <3>1. CASE i = n + 1
      BY <2>1, <3>1
    <3>2. CASE i # n + 1
      <4>1. i \in 1..n /\ g[i] = f[i] /\ (i # 1 => i - 1 \in 1..n /\ g[i - 1] = f[i - 1])
        BY <2>1, <3>2
      <4>2. f[i] = IF i = 1 THEN s[i] ELSE f[i - 1] \o s[i]
        BY <2>2, <4>1, Zenon
      <4> HIDE DEF g
      <4> QED
        BY <4>1, <4>2
    <3> QED
      BY <3>1, <3>2
  <2> QED
    BY <2>4, <2>5
<1> HIDE DEF good, Upto
<1>4. good = Nat
  <2>1. good \in SUBSET Nat
    BY DEF good
  <2> QED
    BY <1>2, <1>3, <2>1, AllNumbers
<1>5. Upto(Len(s))
  BY <1>1, <1>4 DEF good
<1> USE DEF Upto
<1>6. PICK f \in [1..Len(s) -> Seq(V)] :
             \A i \in 1..Len(s) : f[i] = IF i = 1 THEN s[i] ELSE f[i - 1] \o s[i]
  BY <1>5
<1> QED
  BY <1>6 DEF FlatSteps

(* And only one.                                                            *)
LEMMA FlatStepsUnique ==
    ASSUME NEW s, Len(s) \in Nat, NEW f, FlatSteps(f, s), NEW g, FlatSteps(g, s)
    PROVE  f = g
<1> DEFINE good == {n \in Nat : n \in 1..Len(s) => f[n] = g[n]}
<1>1. 0 \in good
  OBVIOUS
<1>2. ASSUME NEW n \in good
      PROVE  n + 1 \in good
  <2> SUFFICES ASSUME n + 1 \in 1..Len(s)
               PROVE  f[n + 1] = g[n + 1]
    OBVIOUS
  <2>0. n \in Nat /\ (n + 1) - 1 = n
    OBVIOUS
  <2>1. /\ f[n + 1] = IF n + 1 = 1 THEN s[n + 1] ELSE f[n] \o s[n + 1]
        /\ g[n + 1] = IF n + 1 = 1 THEN s[n + 1] ELSE g[n] \o s[n + 1]
    BY <2>0, Zenon DEF FlatSteps
  <2>2. n + 1 # 1 => n \in 1..Len(s)
    BY <2>0
  <2> QED
    BY <2>1, <2>2
<1> HIDE DEF good
<1>3. good = Nat
  <2>1. good \in SUBSET Nat
    BY DEF good
  <2> QED
    BY <1>1, <1>2, <2>1, AllNumbers
<1>4. \A n \in 1..Len(s) : f[n] = g[n]
  BY <1>3 DEF good
<1>5. /\ f = [i \in 1..Len(s) |-> f[i]] /\ g = [i \in 1..Len(s) |-> g[i]]
  BY Zenon DEF FlatSteps
<1> QED
  BY <1>4, <1>5, Zenon

(* FlattenSeq gives the last of its steps.                                  *)
LEMMA FlatLast ==
    ASSUME NEW V, NEW s \in Seq(Seq(V)), s # << >>, NEW f, FlatSteps(f, s)
    PROVE  Seqs!FlattenSeq(s) = f[Len(s)]
<1> DEFINE F == CHOOSE h : FlatSteps(h, s)
<1>1. Len(s) \in Nat /\ Len(s) # 0
  BY EmptySeq
<1>2. FlatSteps(F, s)
  BY Zenon
<1>3. F = f
  BY <1>1, <1>2, FlatStepsUnique
<1>4. Seqs!FlattenSeq(s) = F[Len(s)]
  BY <1>1, Zenon DEF Seqs!FlattenSeq, FlatSteps
<1> QED
  BY <1>3, <1>4

(* Nothing is flattened to nothing.                                         *)
LEMMA FlattenEmpty == Seqs!FlattenSeq(<< >>) = << >>
BY EmptySeq, Zenon DEF Seqs!FlattenSeq

(* Sequences of values are flattened to one of values.                      *)
LEMMA FlattenType ==
    ASSUME NEW V, NEW s \in Seq(Seq(V))
    PROVE  Seqs!FlattenSeq(s) \in Seq(V)
<1>1. CASE s = << >>
  BY <1>1, FlattenEmpty, EmptySeq
<1>2. CASE s # << >>
  <2>1. PICK f \in [1..Len(s) -> Seq(V)] : FlatSteps(f, s)
    BY FlatStepsExist
  <2>2. f[Len(s)] \in Seq(V)
    <3>1. Len(s) \in Nat \ {0}
      BY <1>2, EmptySeq
    <3>2. Len(s) \in 1..Len(s)
      BY <3>1
    <3> QED
      BY <2>1, <3>2, Zenon
  <2>3. Seqs!FlattenSeq(s) = f[Len(s)]
    BY <1>2, <2>1, FlatLast, Zenon
  <2> QED
    BY <2>2, <2>3
<1> QED
  BY <1>1, <1>2

(* One more sequence goes behind what the others are flattened to.          *)
LEMMA FlattenAppend ==
    ASSUME NEW V, NEW s \in Seq(Seq(V)), NEW x \in Seq(V)
    PROVE  Seqs!FlattenSeq(Append(s, x)) = Seqs!FlattenSeq(s) \o x
<1> DEFINE t == Append(s, x)
           n == Len(s)
<1>1. /\ t \in Seq(Seq(V)) /\ t # << >> /\ Len(t) = n + 1 /\ n \in Nat
      /\ \A i \in 1..n : t[i] = s[i]
      /\ t[n + 1] = x
  BY AppendProperties, LenProperties
<1>2. PICK f \in [1..n -> Seq(V)] : FlatSteps(f, s)
  BY FlatStepsExist
<1> DEFINE y == IF n = 0 THEN x ELSE f[n] \o x
           g == [i \in 1..(n + 1) |-> IF i = n + 1 THEN y ELSE f[i]]
<1> HIDE DEF t
<1>3. ASSUME NEW i \in 1..(n + 1)
      PROVE  g[i] = IF i = 1 THEN t[i] ELSE g[i - 1] \o t[i]
  <2>1. CASE i = n + 1
    BY <1>1, <2>1
  <2>2. CASE i # n + 1
    <3>1. i \in 1..n /\ g[i] = f[i] /\ (i # 1 => i - 1 \in 1..n /\ g[i - 1] = f[i - 1])
      BY <1>1, <2>2
    <3>2. f[i] = IF i = 1 THEN s[i] ELSE f[i - 1] \o s[i]
      BY <1>2, <3>1, Zenon DEF FlatSteps
    <3> QED
      BY <1>1, <3>1, <3>2
  <2> QED
    BY <2>1, <2>2
<1>4. FlatSteps(g, t)
  <2>1. g = [i \in 1..(n + 1) |-> g[i]]
    BY Zenon
  <2> HIDE DEF g, n
  <2>2. g = [i \in 1..(n + 1) |-> IF i = 1 THEN t[i] ELSE g[i - 1] \o t[i]]
    BY <1>3, <2>1, Zenon
  <2> QED
    BY <1>1, <2>2, Zenon DEF FlatSteps
<1>5. Seqs!FlattenSeq(t) = y
  <2>1. Seqs!FlattenSeq(t) = g[Len(t)]
    BY <1>1, <1>4, FlatLast
  <2> QED
    BY <1>1, <2>1
<1>6. CASE s = << >>
  BY <1>1, <1>5, <1>6, FlattenEmpty, ConcatEmptySeq DEF t
<1>7. CASE s # << >>
  <2>1. n # 0
    BY <1>7, EmptySeq
  <2>2. Seqs!FlattenSeq(s) = f[n]
    BY <1>2, <1>7, FlatLast
  <2> QED
    BY <1>5, <2>1, <2>2 DEF t
<1> QED
  BY <1>6, <1>7

(* A function on the first numbers is a sequence.                           *)
LEMMA FunctionIsSeq ==
    ASSUME NEW S, NEW n \in Nat, NEW f \in [1..n -> S]
    PROVE  f \in Seq(S) /\ Len(f) = n /\ DOMAIN f = 1..n
<1>1. f \in Seq(S)
  BY SeqDef
<1> QED
  BY <1>1, LenProperties

(* A sequence is empty or one more element behind a shorter one.            *)
LEMMA OneShorter ==
    ASSUME NEW V, NEW x \in Seq(V), NEW n \in Nat, Len(x) = n + 1
    PROVE  \E y \in Seq(V), e \in V : x = Append(y, e) /\ Len(y) = n
<1>1. x # << >>
  BY EmptySeq
<1>2. PICK y \in Seq(V), e \in V : x = Append(y, e)
  BY <1>1, SequenceEmptyOrAppend
<1>3. Len(y) \in Nat /\ Len(x) = Len(y) + 1
  BY <1>2, AppendProperties, LenProperties
<1>4. Len(y) = n
  BY <1>3
<1> QED
  BY <1>2, <1>4

(* The elements as sequences of one; those not in T as empty ones.          *)
SinglesOf(x) == [i \in DOMAIN x |-> <<x[i]>>]
PiecesOf(x, T) == [i \in DOMAIN x |-> IF x[i] \in T THEN <<x[i]>> ELSE << >>]

(* The elements, as sequences, are as many.                                 *)
LEMMA SinglesSeq ==
    ASSUME NEW V, NEW x \in Seq(V)
    PROVE  SinglesOf(x) \in Seq(Seq(V)) /\ Len(SinglesOf(x)) = Len(x) /\ DOMAIN SinglesOf(x) = 1..Len(x)
<1>1. Len(x) \in Nat /\ DOMAIN x = 1..Len(x) /\ \A i \in 1..Len(x) : x[i] \in V
  BY LenProperties, ElementOfSeq
<1>2. \A v \in V : <<v>> \in Seq(V)
  OBVIOUS
<1>3. SinglesOf(x) \in [1..Len(x) -> Seq(V)]
  BY <1>1, <1>2, Zenon DEF SinglesOf
<1> QED
  BY <1>1, <1>3, FunctionIsSeq

(* So with an empty sequence for those that are not in T.                   *)
LEMMA PiecesSeq ==
    ASSUME NEW V, NEW x \in Seq(V), NEW T
    PROVE  /\ PiecesOf(x, T) \in Seq(Seq(V)) /\ Len(PiecesOf(x, T)) = Len(x)
           /\ DOMAIN PiecesOf(x, T) = 1..Len(x)
<1>1. Len(x) \in Nat /\ DOMAIN x = 1..Len(x) /\ \A i \in 1..Len(x) : x[i] \in V
  BY LenProperties, ElementOfSeq
<1>2. << >> \in Seq(V) /\ \A v \in V : <<v>> \in Seq(V)
  OBVIOUS
<1>3. PiecesOf(x, T) \in [1..Len(x) -> Seq(V)]
  BY <1>1, <1>2, Zenon DEF PiecesOf
<1> QED
  BY <1>1, <1>3, FunctionIsSeq

(* An element that is appended is the last of them.                         *)
LEMMA SinglesAppend ==
    ASSUME NEW V, NEW x \in Seq(V), NEW e \in V
    PROVE  SinglesOf(Append(x, e)) = Append(SinglesOf(x), <<e>>)
<1> DEFINE a == SinglesOf(Append(x, e))
           b == Append(SinglesOf(x), <<e>>)
           n == Len(x)
<1>1. /\ Append(x, e) \in Seq(V) /\ Len(Append(x, e)) = n + 1 /\ n \in Nat
      /\ Append(x, e)[n + 1] = e /\ \A i \in 1..n : Append(x, e)[i] = x[i]
  BY AppendProperties, LenProperties
<1>2. a \in Seq(Seq(V)) /\ Len(a) = n + 1
  BY <1>1, SinglesSeq
<1>3. <<e>> \in Seq(V)
  OBVIOUS
<1>4. /\ b \in Seq(Seq(V)) /\ Len(b) = n + 1
      /\ b[n + 1] = <<e>> /\ \A i \in 1..n : b[i] = SinglesOf(x)[i]
  BY <1>3, SinglesSeq, AppendProperties
<1>5. \A i \in 1..n : SinglesOf(x)[i] = <<x[i]>>
  BY LenProperties DEF SinglesOf
<1>6. \A i \in 1..(n + 1) : a[i] = <<Append(x, e)[i]>>
  BY <1>1, LenProperties DEF SinglesOf
<1>7. \A i \in 1..(n + 1) : a[i] = b[i]
  <2> HIDE DEF a, b
  <2>1. a[n + 1] = b[n + 1]
    BY <1>1, <1>4, <1>6
  <2>2. ASSUME NEW i \in 1..n
        PROVE  a[i] = b[i]
    <3>1. i \in 1..(n + 1) /\ Append(x, e)[i] = x[i]
      BY <1>1
    <3> QED
      BY <1>4, <1>5, <1>6, <3>1, Zenon
  <2> QED
    BY <1>1, <2>1, <2>2
<1> HIDE DEF a, b
<1>8. a = b
  BY <1>2, <1>4, <1>7, SeqEqual
<1> QED
  BY <1>8 DEF a, b

(* What is appended is the last piece.                                      *)
LEMMA PiecesAppend ==
    ASSUME NEW V, NEW x \in Seq(V), NEW e \in V, NEW T
    PROVE  PiecesOf(Append(x, e), T) = Append(PiecesOf(x, T), IF e \in T THEN <<e>> ELSE << >>)
<1> DEFINE last == IF e \in T THEN <<e>> ELSE << >>
           a == PiecesOf(Append(x, e), T)
           b == Append(PiecesOf(x, T), last)
           n == Len(x)
<1>1. /\ Append(x, e) \in Seq(V) /\ Len(Append(x, e)) = n + 1 /\ n \in Nat
      /\ Append(x, e)[n + 1] = e /\ \A i \in 1..n : Append(x, e)[i] = x[i]
  BY AppendProperties, LenProperties
<1>2. a \in Seq(Seq(V)) /\ Len(a) = n + 1
  BY <1>1, PiecesSeq
<1>3. last \in Seq(V)
  OBVIOUS
<1> HIDE DEF last
<1>4. /\ b \in Seq(Seq(V)) /\ Len(b) = n + 1
      /\ b[n + 1] = last /\ \A i \in 1..n : b[i] = PiecesOf(x, T)[i]
  BY <1>3, PiecesSeq, AppendProperties
<1>5. \A i \in 1..n : PiecesOf(x, T)[i] = IF x[i] \in T THEN <<x[i]>> ELSE << >>
  BY LenProperties DEF PiecesOf
<1>6. \A i \in 1..(n + 1) : a[i] = IF Append(x, e)[i] \in T THEN <<Append(x, e)[i]>> ELSE << >>
  BY <1>1, LenProperties DEF PiecesOf
<1>7. \A i \in 1..(n + 1) : a[i] = b[i]
  <2> HIDE DEF a, b
  <2>1. a[n + 1] = b[n + 1]
    BY <1>1, <1>4, <1>6 DEF last
  <2>2. ASSUME NEW i \in 1..n
        PROVE  a[i] = b[i]
    <3>1. i \in 1..(n + 1) /\ Append(x, e)[i] = x[i]
      BY <1>1
    <3> QED
      BY <1>4, <1>5, <1>6, <3>1, Zenon
  <2> QED
    BY <1>1, <2>1, <2>2
<1> HIDE DEF a, b
<1>8. a = b
  BY <1>2, <1>4, <1>7, SeqEqual
<1> QED
  BY <1>8 DEF a, b, last

(* A sequence of sequences of one element each.                             *)
LEMMA FlattenSingles ==
    ASSUME NEW V, NEW s \in Seq(V)
    PROVE  Seqs!FlattenSeq([i \in DOMAIN s |-> <<s[i]>>]) = s
<1> DEFINE good == {n \in Nat : \A x \in Seq(V) : Len(x) = n => Seqs!FlattenSeq(SinglesOf(x)) = x}
<1>1. 0 \in good
  <2> SUFFICES ASSUME NEW x \in Seq(V), Len(x) = 0
               PROVE  Seqs!FlattenSeq(SinglesOf(x)) = x
    OBVIOUS
  <2>1. x = << >> /\ SinglesOf(x) = << >>
    BY SinglesSeq, EmptySeq
  <2> QED
    BY <2>1, FlattenEmpty
<1>2. ASSUME NEW n \in good
      PROVE  n + 1 \in good
  <2> SUFFICES ASSUME NEW x \in Seq(V), Len(x) = n + 1
               PROVE  Seqs!FlattenSeq(SinglesOf(x)) = x
    OBVIOUS
  <2>0. n \in Nat
    OBVIOUS
  <2> HIDE DEF good
  <2>1. PICK y \in Seq(V), e \in V : x = Append(y, e) /\ Len(y) = n
    BY <2>0, OneShorter, Zenon
  <2> USE DEF good
  <2>2. Seqs!FlattenSeq(SinglesOf(y)) = y
    BY <2>1
  <2>3. SinglesOf(y) \in Seq(Seq(V)) /\ <<e>> \in Seq(V)
    BY SinglesSeq
  <2>4. Seqs!FlattenSeq(Append(SinglesOf(y), <<e>>)) = Seqs!FlattenSeq(SinglesOf(y)) \o <<e>>
    BY <2>3, FlattenAppend
  <2>5. SinglesOf(x) = Append(SinglesOf(y), <<e>>)
    BY <2>1, SinglesAppend
  <2>6. Append(y, e) = y \o <<e>>
    BY AppendIsConcat
  <2> QED
    BY <2>1, <2>2, <2>4, <2>5, <2>6, Zenon
<1> HIDE DEF good
<1>3. good = Nat
  <2>1. good \in SUBSET Nat
    BY DEF good
  <2> QED
    BY <1>1, <1>2, <2>1, AllNumbers
<1>4. Len(s) \in good
  BY <1>3, LenProperties
<1> QED
  BY <1>4 DEF good, SinglesOf

(* One more element is kept if it is in the set.                            *)
LEMMA FilteredAppend ==
    ASSUME NEW V, NEW s \in Seq(V), NEW e \in V, NEW T
    PROVE  Filtered(Append(s, e), T) = IF e \in T THEN Append(Filtered(s, T), e) ELSE Filtered(s, T)
<1> DEFINE last == IF e \in T THEN <<e>> ELSE << >>
<1>1. last \in Seq(V)
  OBVIOUS
<1>2. PiecesOf(s, T) \in Seq(Seq(V))
  BY PiecesSeq
<1>3. PiecesOf(Append(s, e), T) = Append(PiecesOf(s, T), last)
  BY PiecesAppend, Zenon
<1>4. Seqs!FlattenSeq(Append(PiecesOf(s, T), last)) = Seqs!FlattenSeq(PiecesOf(s, T)) \o last
  BY <1>1, <1>2, FlattenAppend
<1>5. Seqs!FlattenSeq(PiecesOf(s, T)) \in Seq(V)
  BY <1>2, FlattenType
<1>6. /\ Filtered(s, T) = Seqs!FlattenSeq(PiecesOf(s, T))
      /\ Filtered(Append(s, e), T) = Seqs!FlattenSeq(PiecesOf(Append(s, e), T))
  BY Zenon DEF Filtered, PiecesOf
<1>7. CASE e \in T
  BY <1>3, <1>4, <1>5, <1>6, <1>7, AppendIsConcat
<1>8. CASE e \notin T
  BY <1>3, <1>4, <1>5, <1>6, <1>8, ConcatEmptySeq
<1> QED
  BY <1>7, <1>8

(* Where x has elements of T; that it has each element once; that F has     *)
(* elements of x that are in T only.                                        *)
PlacesIn(x, T) == {i \in DOMAIN x : x[i] \in T}
Distinct(x) == \A i, j \in DOMAIN x : x[i] = x[j] => i = j
TakenFrom(F, x, T) == \A i \in DOMAIN F : F[i] \in T /\ \E j \in DOMAIN x : F[i] = x[j]
(* What is said of a filtered sequence.                                     *)
FilterOK(F, x, V, T) ==
    /\ F \in Seq(V)
    /\ TakenFrom(F, x, T)
    /\ Distinct(x) => Distinct(F)
    /\ IsFiniteSet(PlacesIn(x, T)) /\ Len(F) = Cardinality(PlacesIn(x, T))

(* It holds of one with one more element.                                   *)
LEMMA FilterStep ==
    ASSUME NEW V, NEW T, NEW y \in Seq(V), NEW e \in V, FilterOK(Filtered(y, T), y, V, T)
    PROVE  FilterOK(Filtered(Append(y, e), T), Append(y, e), V, T)
<1> DEFINE x == Append(y, e)
           n == Len(y)
           F == Filtered(y, T)
           G == Filtered(x, T)
           m == Len(F)
<1>1. /\ n \in Nat /\ x \in Seq(V) /\ DOMAIN y = 1..n /\ DOMAIN x = 1..(n + 1)
      /\ \A i \in 1..n : x[i] = y[i]
      /\ x[n + 1] = e
  BY AppendProperties, LenProperties
<1>2. /\ F \in Seq(V) /\ m \in Nat /\ DOMAIN F = 1..m
      /\ TakenFrom(F, y, T) /\ (Distinct(y) => Distinct(F))
      /\ IsFiniteSet(PlacesIn(y, T)) /\ m = Cardinality(PlacesIn(y, T))
  BY LenProperties DEF FilterOK
<1>3. G = IF e \in T THEN Append(F, e) ELSE F
  BY FilteredAppend, Zenon
<1> HIDE DEF x, F, G, n, m
<1>4. Distinct(x) => Distinct(y)
  <2> SUFFICES ASSUME Distinct(x), NEW i \in DOMAIN y, NEW j \in DOMAIN y, y[i] = y[j]
               PROVE  i = j
    BY DEF Distinct
  <2>1. i \in DOMAIN x /\ j \in DOMAIN x /\ x[i] = x[j]
    BY <1>1
  <2> QED
    BY <2>1 DEF Distinct
<1>5. \A i \in DOMAIN F : F[i] \in T /\ \E j \in DOMAIN x : j \in 1..n /\ F[i] = x[j]
  <2> SUFFICES ASSUME NEW i \in DOMAIN F
               PROVE  F[i] \in T /\ \E j \in DOMAIN x : j \in 1..n /\ F[i] = x[j]
    OBVIOUS
  <2>1. PICK j \in 1..n : F[i] \in T /\ F[i] = y[j]
    BY <1>1, <1>2 DEF TakenFrom
  <2>2. j \in DOMAIN x /\ x[j] = y[j]
    BY <1>1
  <2> QED
    BY <2>1, <2>2
<1>6. CASE e \in T
  <2>1. /\ G = Append(F, e) /\ G \in Seq(V) /\ DOMAIN G = 1..(m + 1) /\ Len(G) = m + 1
        /\ \A i \in 1..m : G[i] = F[i]
        /\ G[m + 1] = e
    <3>1. G = Append(F, e)
      BY <1>3, <1>6
    <3>2. m = Len(F)
      BY DEF m
    <3> QED
      BY <1>2, <3>1, <3>2, AppendProperties, LenProperties
  <2>2. \A i \in DOMAIN G : i = m + 1 \/ (i \in 1..m /\ i \in DOMAIN F /\ G[i] = F[i])
    BY <1>2, <2>1
  <2>3. n + 1 \in DOMAIN x
    BY <1>1
  <2>4. TakenFrom(G, x, T)
    BY <1>1, <1>5, <1>6, <2>1, <2>2, <2>3 DEF TakenFrom
  <2>5. Distinct(x) => Distinct(G)
    <3> SUFFICES ASSUME Distinct(x), NEW i \in DOMAIN G, NEW j \in DOMAIN G, G[i] = G[j]
                 PROVE  i = j
      BY DEF Distinct
    <3>1. Distinct(F)
      BY <1>2, <1>4
    <3>2. \A k \in DOMAIN F : F[k] # e
      <4> SUFFICES ASSUME NEW k \in DOMAIN F, F[k] = e
                   PROVE  FALSE
        OBVIOUS
      <4>1. PICK l \in DOMAIN x : l \in 1..n /\ F[k] = x[l]
        BY <1>5
      <4>2. l = n + 1
        BY <1>1, <2>3, <4>1 DEF Distinct
      <4> QED
        BY <1>1, <4>1, <4>2
    <3> QED
      BY <2>1, <2>2, <3>1, <3>2 DEF Distinct
  <2>6. PlacesIn(x, T) = PlacesIn(y, T) \cup {n + 1} /\ n + 1 \notin PlacesIn(y, T)
    BY <1>1, <1>6 DEF PlacesIn
  <2>7. IsFiniteSet(PlacesIn(x, T)) /\ Cardinality(PlacesIn(x, T)) = m + 1
    BY <1>2, <2>6, FS_AddElement
  <2> QED
    BY <2>1, <2>4, <2>5, <2>7 DEF FilterOK, x, G
<1>7. CASE e \notin T
  <2>1. PlacesIn(x, T) = PlacesIn(y, T)
    BY <1>1, <1>7 DEF PlacesIn
  <2>2. G = F
    BY <1>3, <1>7
  <2>3. TakenFrom(G, x, T)
    BY <1>5, <2>2 DEF TakenFrom
  <2>4. FilterOK(G, x, V, T)
    BY <1>2, <1>4, <2>1, <2>2, <2>3 DEF FilterOK, m
  <2> QED
    BY <2>4 DEF x, G
<1> QED
  BY <1>6, <1>7

(* What is kept is in the set and comes from the sequence, twice only if it *)
(* is there twice, and there are as many as there are positions with one.   *)
LEMMA FilteredFacts ==
    ASSUME NEW V, NEW s \in Seq(V), NEW T
    PROVE  FilterOK(Filtered(s, T), s, V, T)
<1> DEFINE good == {n \in Nat : \A x \in Seq(V) : Len(x) = n => FilterOK(Filtered(x, T), x, V, T)}
<1>1. 0 \in good
  <2> SUFFICES ASSUME NEW x \in Seq(V), Len(x) = 0
               PROVE  FilterOK(Filtered(x, T), x, V, T)
    OBVIOUS
  <2>1. x = << >> /\ DOMAIN x = {}
    BY EmptySeq, LenProperties
  <2>4. PiecesOf(x, T) = << >>
    <3>1. PiecesOf(x, T) \in Seq(Seq(V)) /\ Len(PiecesOf(x, T)) = 0
      BY PiecesSeq
    <3> QED
      BY <3>1, EmptySeq
  <2>2. Filtered(x, T) = << >>
    BY <2>4, FlattenEmpty, Zenon DEF Filtered, PiecesOf
  <2>3. PlacesIn(x, T) = {}
    BY <2>1 DEF PlacesIn
  <2> QED
    BY <2>1, <2>2, <2>3, FS_EmptySet, EmptySeq DEF FilterOK, TakenFrom, Distinct
<1>2. ASSUME NEW n \in good
      PROVE  n + 1 \in good
  <2> SUFFICES ASSUME NEW x \in Seq(V), Len(x) = n + 1
               PROVE  FilterOK(Filtered(x, T), x, V, T)
    OBVIOUS
  <2>0. n \in Nat
    OBVIOUS
  <2>1. PICK y \in Seq(V), e \in V : x = Append(y, e) /\ Len(y) = n
    BY <2>0, OneShorter, Zenon
  <2>2. FilterOK(Filtered(y, T), y, V, T)
    BY <2>1
  <2> QED
    BY <2>1, <2>2, FilterStep
<1> HIDE DEF good
<1>3. good = Nat
  <2>1. good \in SUBSET Nat
    BY DEF good
  <2> QED
    BY <1>1, <1>2, <2>1, AllNumbers
<1>4. Len(s) \in good
  BY <1>3, LenProperties
<1> QED
  BY <1>4 DEF good

=============================================================================
