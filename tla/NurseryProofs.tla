---------------------------- MODULE NurseryProofs ----------------------------
(***************************************************************************)
(* The nursery collector and the heap's sizes are correct for every heap   *)
(* size, page size, nursery fraction, set of roots and number of objects.  *)
(*                                                                         *)
(* Objs(m, e, s, z) are the objects of a heap m: the old ones, below e,    *)
(* and those of the nursery, from s up to z.  While the nursery is         *)
(* evacuated e is the end of the copies, and an address leads to an object *)
(* (Tgt) if the object is there or a forwarding reference to its copy is.  *)
(* CopyState says that such a heap is one copying can go on from, Moved    *)
(* and Step relate it to a later one, and Inv, the inductive invariant,    *)
(* adds the roots, the frames, the lists and the remembered set.           *)
(***************************************************************************)
EXTENDS Nursery, FiniteSetTheorems, WellFoundedInduction, TLAPS

(* A set of naturals has a least element.                                   *)
LEMMA LeastOf ==
  ASSUME NEW S, S \subseteq Nat, S # {}
  PROVE  \E m \in S : \A j \in S : m <= j
<1>1. PICK m \in S : \A j \in S : <<j, m>> \notin OpToRel(<, Nat)
  BY NatLessThanWellFounded, WFMin
<1>2. \A j \in S : ~(j < m)
  BY <1>1 DEF OpToRel
<1> QED BY <1>2

(* The subsets of 1 .. n are finite and have a greatest element.            *)
LEMMA SubsetOfRange ==
  ASSUME NEW n \in Nat, NEW s \in SUBSET (1 .. n)
  PROVE  /\ IsFiniteSet(s) /\ s \subseteq Nat /\ Cardinality(s) \in Nat
         /\ Cardinality(s) <= n
         /\ s # {} => Max(s) \in s /\ \A x \in s : x <= Max(s)
<1>1. IsFiniteSet(1 .. n) /\ Cardinality(1 .. n) = n
  BY FS_Interval
<1>2. IsFiniteSet(s) /\ Cardinality(s) \in Nat /\ Cardinality(s) <= n /\ s \subseteq Nat
  <2>1. s \subseteq 1 .. n
    OBVIOUS
  <2>2. IsFiniteSet(s) /\ Cardinality(s) <= Cardinality(1 .. n)
    BY <1>1, <2>1, FS_Subset
  <2>3. Cardinality(s) \in Nat
    BY <2>2, FS_CardinalityType
  <2> QED BY <1>1, <2>1, <2>2, <2>3
<1>3. ASSUME s # {} PROVE Max(s) \in s /\ \A x \in s : x <= Max(s)
  <2> DEFINE up == {n - x : x \in s}
  <2>0. \A x \in s : x \in Nat /\ n - x \in Nat
    OBVIOUS
  <2>1. up \subseteq Nat /\ up # {}
    BY <1>3, <2>0
  <2>2. PICK m \in up : \A j \in up : m <= j
    BY <2>1, LeastOf
  <2>3. PICK y \in s : m = n - y
    BY <2>2
  <2>4. ASSUME NEW x \in s PROVE y >= x
    <3>1. n - x \in up
      OBVIOUS
    <3>2. m <= n - x
      BY <2>2, <3>1
    <3> HIDE DEF up
    <3> QED BY <2>0, <2>3, <3>2
  <2>5. \E x \in s : \A y1 \in s : x >= y1
    BY <2>4
  <2>6. Max(s) \in s /\ \A x \in s : Max(s) >= x
    BY <2>5, Zenon DEF Max
  <2> QED BY <2>6, <1>2
<1> QED BY <1>2, <1>3

(* The greatest element of 1 .. k.                                          *)
LEMMA MaxOfRange ==
  ASSUME NEW k \in Nat \ {0}
  PROVE  Max(1 .. k) = k /\ (1 .. k) \ {k} = 1 .. (k - 1)
<1>1. Max(1 .. k) \in 1 .. k /\ k <= Max(1 .. k)
  <2>1. 1 .. k \in SUBSET (1 .. k) /\ k \in 1 .. k /\ 1 .. k # {}
    OBVIOUS
  <2> QED BY <2>1, SubsetOfRange
<1> QED BY <1>1

(* One word of CopyWords, one element of Kept.                              *)
CopyWord(s, x) == LET r == CopyObject(s, s.words[x]) IN
                    [mem |-> r.mem, top |-> r.top, words |-> [s.words EXCEPT ![x] = r.word]]
KeepIn(s, a, S) == IF a \in S THEN Append(s, a) ELSE s

(* There is the function that the fold is defined by ...                    *)
SlotsIter(f, base, xs, s) == IF s = {} THEN base ELSE CopySlot(f[s \ {Max(s)}], xs[Max(s)])
SlotsStates(f, base, xs) == f = [s \in SUBSET (DOMAIN xs) |-> SlotsIter(f, base, xs, s)]
(* That function exists, by induction over the number of elements.         *)
LEMMA SlotsFoldExists ==
  ASSUME NEW base, NEW xs, NEW n \in Nat, DOMAIN xs = 1 .. n
  PROVE  \E f : SlotsStates(f, base, xs)
<1> DEFINE S == DOMAIN xs
           Next1(f, s) == SlotsIter(f, base, xs, s)
           Good(f, k) == /\ f = [s \in SUBSET S |-> f[s]]
                         /\ \A s \in SUBSET S : Cardinality(s) <= k => f[s] = Next1(f, s)
           Bad == {k \in Nat : \A f : ~Good(f, k)}
<1>1. \A s \in SUBSET S : IsFiniteSet(s) /\ s \subseteq Nat /\ Cardinality(s) \in Nat
                          /\ (s # {} => Max(s) \in s)
  BY SubsetOfRange
<1>2. \E f : Good(f, 0)
  <2> DEFINE f == [s \in SUBSET S |-> base]
  <2>1. f = [s \in SUBSET S |-> f[s]]
    OBVIOUS
  <2>2. ASSUME NEW s \in SUBSET S, Cardinality(s) <= 0 PROVE f[s] = Next1(f, s)
    <3>1. s = {}
      BY <1>1, <2>2, FS_EmptySet
    <3> QED BY <3>1 DEF SlotsIter
  <2> QED BY <2>1, <2>2
<1>3. ASSUME NEW k \in Nat, NEW f, Good(f, k) PROVE \E g : Good(g, k + 1)
  <2> DEFINE g == [s \in SUBSET S |-> Next1(f, s)]
  <2>1. g = [s \in SUBSET S |-> g[s]]
    OBVIOUS
  <2>2. ASSUME NEW s \in SUBSET S, Cardinality(s) <= k + 1 PROVE g[s] = Next1(g, s)
    <3>1. CASE s = {}
      BY <3>1 DEF SlotsIter
    <3>2. CASE s # {}
      <4> DEFINE t == s \ {Max(s)}
      <4>1. t \in SUBSET S /\ Cardinality(t) <= k
        <5>1. IsFiniteSet(s) /\ Max(s) \in s /\ Cardinality(s) \in Nat
          BY <1>1, <3>2
        <5>2. Cardinality(t) = Cardinality(s) - 1
          BY <5>1, FS_RemoveElement
        <5> QED BY <2>2, <5>1, <5>2
      <4>2. f[t] = Next1(f, t) /\ g[t] = Next1(f, t)
        BY <1>3, <4>1
      <4>3. g[s] = Next1(f, s)
        OBVIOUS
      <4>4. g[t] = f[t]
        BY <4>2
      <4> HIDE DEF g
      <4> QED BY <3>2, <4>3, <4>4 DEF SlotsIter
    <3> QED BY <3>1, <3>2
  <2> QED BY <2>1, <2>2
<1>4. Bad = {}
  <2> HIDE DEF Good
  <2> SUFFICES ASSUME Bad # {} PROVE FALSE
    OBVIOUS
  <2>1. PICK m \in Bad : \A j \in Bad : m <= j
    BY LeastOf
  <2>2. m # 0
    BY <1>2, <2>1
  <2>3. m - 1 \in Nat /\ m - 1 \notin Bad
    BY <2>1, <2>2
  <2> QED BY <1>3, <2>1, <2>3
<1>5. PICK f : Good(f, n)
  <2> HIDE DEF Good
  <2> QED BY <1>4
<1>6. \A s \in SUBSET S : Cardinality(s) <= n
  BY SubsetOfRange
<1>7. \A s \in SUBSET S : f[s] = Next1(f, s)
  BY <1>5, <1>6
<1>8. f = [s \in SUBSET S |-> Next1(f, s)]
  <2>1. f = [s \in SUBSET S |-> f[s]]
    BY <1>5
  <2> HIDE DEF Next1
  <2> QED BY <1>7, <2>1
<1> QED BY <1>8 DEF SlotsStates

(* ... and its values on the beginnings of the sequence are the states that *)
(* the fold goes through.                                                   *)
SlotsTrace(r, base, xs, n) ==
  /\ r[0] = base
  /\ \A k \in 1 .. n : r[k] = CopySlot(r[k-1], xs[k])
  /\ FoldLeft(CopySlot, base, xs) = r[n]

(* Folding copy-slot over a sequence passes through states, each the last  *)
(* one after one element more: here they are, from the first to the last.  *)
LEMMA SlotsFold ==
  ASSUME NEW base, NEW xs, NEW n \in Nat, DOMAIN xs = 1 .. n
  PROVE  \E r : SlotsTrace(r, base, xs, n)
<1> DEFINE iter == CHOOSE f : SlotsStates(f, base, xs)
           r == [k \in 0 .. n |-> iter[1 .. k]]
<1>1. iter = [s \in SUBSET (DOMAIN xs) |-> SlotsIter(iter, base, xs, s)]
  <2>1. \E f : SlotsStates(f, base, xs)
    BY SlotsFoldExists
  <2>2. SlotsStates(iter, base, xs)
    BY <2>1, Zenon
  <2> HIDE DEF iter
  <2> QED BY <2>2 DEF SlotsStates
<1>2. FoldLeft(CopySlot, base, xs) = iter[DOMAIN xs]
  BY Zenon DEF FoldLeft, MapThenFoldSet, SlotsIter, SlotsStates
<1> HIDE DEF iter
<1>3. r[0] = base
  <2>1. 1 .. 0 = {} /\ 1 .. 0 \in SUBSET (DOMAIN xs)
    OBVIOUS
  <2>2. iter[1 .. 0] = base
    BY <1>1, <2>1 DEF SlotsIter
  <2> QED BY <2>2
<1>4. ASSUME NEW k \in 1 .. n PROVE r[k] = CopySlot(r[k-1], xs[k])
  <2>1. Max(1 .. k) = k /\ (1 .. k) \ {k} = 1 .. (k - 1) /\ 1 .. k \in SUBSET (DOMAIN xs) /\ 1 .. k # {}
    BY MaxOfRange
  <2> DEFINE s == 1 .. k
  <2>2. iter[s] = CopySlot(iter[s \ {Max(s)}], xs[Max(s)])
    BY <1>1, <2>1 DEF SlotsIter
  <2>3. r[k] = iter[s] /\ r[k-1] = iter[s \ {Max(s)}]
    <3>1. k \in 0 .. n /\ k - 1 \in 0 .. n /\ s \ {Max(s)} = 1 .. (k - 1)
      BY <2>1
    <3> QED BY <3>1
  <2> HIDE DEF r
  <2> QED BY <2>1, <2>2, <2>3
<1>5. iter[DOMAIN xs] = r[n]
  OBVIOUS
<1> HIDE DEF r
<1>6. SlotsTrace(r, base, xs, n)
  BY <1>2, <1>3, <1>4, <1>5 DEF SlotsTrace
<1> QED BY <1>6

(* There is the function that the fold is defined by ...                    *)
WordsIter(f, base, xs, s) == IF s = {} THEN base ELSE CopyWord(f[s \ {Max(s)}], xs[Max(s)])
WordsStates(f, base, xs) == f = [s \in SUBSET (DOMAIN xs) |-> WordsIter(f, base, xs, s)]
(* That function exists, by induction over the number of elements.         *)
LEMMA WordsFoldExists ==
  ASSUME NEW base, NEW xs, NEW n \in Nat, DOMAIN xs = 1 .. n
  PROVE  \E f : WordsStates(f, base, xs)
<1> DEFINE S == DOMAIN xs
           Next1(f, s) == WordsIter(f, base, xs, s)
           Good(f, k) == /\ f = [s \in SUBSET S |-> f[s]]
                         /\ \A s \in SUBSET S : Cardinality(s) <= k => f[s] = Next1(f, s)
           Bad == {k \in Nat : \A f : ~Good(f, k)}
<1>1. \A s \in SUBSET S : IsFiniteSet(s) /\ s \subseteq Nat /\ Cardinality(s) \in Nat
                          /\ (s # {} => Max(s) \in s)
  BY SubsetOfRange
<1>2. \E f : Good(f, 0)
  <2> DEFINE f == [s \in SUBSET S |-> base]
  <2>1. f = [s \in SUBSET S |-> f[s]]
    OBVIOUS
  <2>2. ASSUME NEW s \in SUBSET S, Cardinality(s) <= 0 PROVE f[s] = Next1(f, s)
    <3>1. s = {}
      BY <1>1, <2>2, FS_EmptySet
    <3> QED BY <3>1 DEF WordsIter
  <2> QED BY <2>1, <2>2
<1>3. ASSUME NEW k \in Nat, NEW f, Good(f, k) PROVE \E g : Good(g, k + 1)
  <2> DEFINE g == [s \in SUBSET S |-> Next1(f, s)]
  <2>1. g = [s \in SUBSET S |-> g[s]]
    OBVIOUS
  <2>2. ASSUME NEW s \in SUBSET S, Cardinality(s) <= k + 1 PROVE g[s] = Next1(g, s)
    <3>1. CASE s = {}
      BY <3>1 DEF WordsIter
    <3>2. CASE s # {}
      <4> DEFINE t == s \ {Max(s)}
      <4>1. t \in SUBSET S /\ Cardinality(t) <= k
        <5>1. IsFiniteSet(s) /\ Max(s) \in s /\ Cardinality(s) \in Nat
          BY <1>1, <3>2
        <5>2. Cardinality(t) = Cardinality(s) - 1
          BY <5>1, FS_RemoveElement
        <5> QED BY <2>2, <5>1, <5>2
      <4>2. f[t] = Next1(f, t) /\ g[t] = Next1(f, t)
        BY <1>3, <4>1
      <4>3. g[s] = Next1(f, s)
        OBVIOUS
      <4>4. g[t] = f[t]
        BY <4>2
      <4> HIDE DEF g
      <4> QED BY <3>2, <4>3, <4>4 DEF WordsIter
    <3> QED BY <3>1, <3>2
  <2> QED BY <2>1, <2>2
<1>4. Bad = {}
  <2> HIDE DEF Good
  <2> SUFFICES ASSUME Bad # {} PROVE FALSE
    OBVIOUS
  <2>1. PICK m \in Bad : \A j \in Bad : m <= j
    BY LeastOf
  <2>2. m # 0
    BY <1>2, <2>1
  <2>3. m - 1 \in Nat /\ m - 1 \notin Bad
    BY <2>1, <2>2
  <2> QED BY <1>3, <2>1, <2>3
<1>5. PICK f : Good(f, n)
  <2> HIDE DEF Good
  <2> QED BY <1>4
<1>6. \A s \in SUBSET S : Cardinality(s) <= n
  BY SubsetOfRange
<1>7. \A s \in SUBSET S : f[s] = Next1(f, s)
  BY <1>5, <1>6
<1>8. f = [s \in SUBSET S |-> Next1(f, s)]
  <2>1. f = [s \in SUBSET S |-> f[s]]
    BY <1>5
  <2> HIDE DEF Next1
  <2> QED BY <1>7, <2>1
<1> QED BY <1>8 DEF WordsStates

(* ... and its values on the beginnings of the sequence are the states that *)
(* the fold goes through.                                                   *)
WordsTrace(r, base, xs, n) ==
  /\ r[0] = base
  /\ \A k \in 1 .. n : r[k] = CopyWord(r[k-1], xs[k])
  /\ CopyWords(base, xs) = r[n]

(* The same of CopyWord over the names of words ...                        *)
LEMMA WordsFold ==
  ASSUME NEW base, NEW xs, NEW n \in Nat, DOMAIN xs = 1 .. n
  PROVE  \E r : WordsTrace(r, base, xs, n)
<1> DEFINE iter == CHOOSE f : WordsStates(f, base, xs)
           r == [k \in 0 .. n |-> iter[1 .. k]]
<1>1. iter = [s \in SUBSET (DOMAIN xs) |-> WordsIter(iter, base, xs, s)]
  <2>1. \E f : WordsStates(f, base, xs)
    BY WordsFoldExists
  <2>2. WordsStates(iter, base, xs)
    BY <2>1, Zenon
  <2> HIDE DEF iter
  <2> QED BY <2>2 DEF WordsStates
<1>2. CopyWords(base, xs) = iter[DOMAIN xs]
  BY Zenon DEF FoldLeft, MapThenFoldSet, CopyWords, CopyWord, WordsIter, WordsStates
<1> HIDE DEF iter
<1>3. r[0] = base
  <2>1. 1 .. 0 = {} /\ 1 .. 0 \in SUBSET (DOMAIN xs)
    OBVIOUS
  <2>2. iter[1 .. 0] = base
    BY <1>1, <2>1 DEF WordsIter
  <2> QED BY <2>2
<1>4. ASSUME NEW k \in 1 .. n PROVE r[k] = CopyWord(r[k-1], xs[k])
  <2>1. Max(1 .. k) = k /\ (1 .. k) \ {k} = 1 .. (k - 1) /\ 1 .. k \in SUBSET (DOMAIN xs) /\ 1 .. k # {}
    BY MaxOfRange
  <2> DEFINE s == 1 .. k
  <2>2. iter[s] = CopyWord(iter[s \ {Max(s)}], xs[Max(s)])
    BY <1>1, <2>1 DEF WordsIter
  <2>3. r[k] = iter[s] /\ r[k-1] = iter[s \ {Max(s)}]
    <3>1. k \in 0 .. n /\ k - 1 \in 0 .. n /\ s \ {Max(s)} = 1 .. (k - 1)
      BY <2>1
    <3> QED BY <3>1
  <2> HIDE DEF r
  <2> QED BY <2>1, <2>2, <2>3
<1>5. iter[DOMAIN xs] = r[n]
  OBVIOUS
<1> HIDE DEF r
<1>6. WordsTrace(r, base, xs, n)
  BY <1>2, <1>3, <1>4, <1>5 DEF WordsTrace
<1> QED BY <1>6

(* There is the function that the fold is defined by ...                    *)
PassIter(f, base, xs, s) == IF s = {} THEN base ELSE PassOver(f[s \ {Max(s)}], xs[Max(s)])
PassStates(f, base, xs) == f = [s \in SUBSET (DOMAIN xs) |-> PassIter(f, base, xs, s)]
(* That function exists, by induction over the number of elements.         *)
LEMMA PassFoldExists ==
  ASSUME NEW base, NEW xs, NEW n \in Nat, DOMAIN xs = 1 .. n
  PROVE  \E f : PassStates(f, base, xs)
<1> DEFINE S == DOMAIN xs
           Next1(f, s) == PassIter(f, base, xs, s)
           Good(f, k) == /\ f = [s \in SUBSET S |-> f[s]]
                         /\ \A s \in SUBSET S : Cardinality(s) <= k => f[s] = Next1(f, s)
           Bad == {k \in Nat : \A f : ~Good(f, k)}
<1>1. \A s \in SUBSET S : IsFiniteSet(s) /\ s \subseteq Nat /\ Cardinality(s) \in Nat
                          /\ (s # {} => Max(s) \in s)
  BY SubsetOfRange
<1>2. \E f : Good(f, 0)
  <2> DEFINE f == [s \in SUBSET S |-> base]
  <2>1. f = [s \in SUBSET S |-> f[s]]
    OBVIOUS
  <2>2. ASSUME NEW s \in SUBSET S, Cardinality(s) <= 0 PROVE f[s] = Next1(f, s)
    <3>1. s = {}
      BY <1>1, <2>2, FS_EmptySet
    <3> QED BY <3>1 DEF PassIter
  <2> QED BY <2>1, <2>2
<1>3. ASSUME NEW k \in Nat, NEW f, Good(f, k) PROVE \E g : Good(g, k + 1)
  <2> DEFINE g == [s \in SUBSET S |-> Next1(f, s)]
  <2>1. g = [s \in SUBSET S |-> g[s]]
    OBVIOUS
  <2>2. ASSUME NEW s \in SUBSET S, Cardinality(s) <= k + 1 PROVE g[s] = Next1(g, s)
    <3>1. CASE s = {}
      BY <3>1 DEF PassIter
    <3>2. CASE s # {}
      <4> DEFINE t == s \ {Max(s)}
      <4>1. t \in SUBSET S /\ Cardinality(t) <= k
        <5>1. IsFiniteSet(s) /\ Max(s) \in s /\ Cardinality(s) \in Nat
          BY <1>1, <3>2
        <5>2. Cardinality(t) = Cardinality(s) - 1
          BY <5>1, FS_RemoveElement
        <5> QED BY <2>2, <5>1, <5>2
      <4>2. f[t] = Next1(f, t) /\ g[t] = Next1(f, t)
        BY <1>3, <4>1
      <4>3. g[s] = Next1(f, s)
        OBVIOUS
      <4>4. g[t] = f[t]
        BY <4>2
      <4> HIDE DEF g
      <4> QED BY <3>2, <4>3, <4>4 DEF PassIter
    <3> QED BY <3>1, <3>2
  <2> QED BY <2>1, <2>2
<1>4. Bad = {}
  <2> HIDE DEF Good
  <2> SUFFICES ASSUME Bad # {} PROVE FALSE
    OBVIOUS
  <2>1. PICK m \in Bad : \A j \in Bad : m <= j
    BY LeastOf
  <2>2. m # 0
    BY <1>2, <2>1
  <2>3. m - 1 \in Nat /\ m - 1 \notin Bad
    BY <2>1, <2>2
  <2> QED BY <1>3, <2>1, <2>3
<1>5. PICK f : Good(f, n)
  <2> HIDE DEF Good
  <2> QED BY <1>4
<1>6. \A s \in SUBSET S : Cardinality(s) <= n
  BY SubsetOfRange
<1>7. \A s \in SUBSET S : f[s] = Next1(f, s)
  BY <1>5, <1>6
<1>8. f = [s \in SUBSET S |-> Next1(f, s)]
  <2>1. f = [s \in SUBSET S |-> f[s]]
    BY <1>5
  <2> HIDE DEF Next1
  <2> QED BY <1>7, <2>1
<1> QED BY <1>8 DEF PassStates

(* ... and its values on the beginnings of the sequence are the states that *)
(* the fold goes through.                                                   *)
PassTrace(r, base, xs, n) ==
  /\ r[0] = base
  /\ \A k \in 1 .. n : r[k] = PassOver(r[k-1], xs[k])
  /\ FoldLeft(PassOver, base, xs) = r[n]

(* ... of PassOver over the stacks of a pass ...                           *)
LEMMA PassFold ==
  ASSUME NEW base, NEW xs, NEW n \in Nat, DOMAIN xs = 1 .. n
  PROVE  \E r : PassTrace(r, base, xs, n)
<1> DEFINE iter == CHOOSE f : PassStates(f, base, xs)
           r == [k \in 0 .. n |-> iter[1 .. k]]
<1>1. iter = [s \in SUBSET (DOMAIN xs) |-> PassIter(iter, base, xs, s)]
  <2>1. \E f : PassStates(f, base, xs)
    BY PassFoldExists
  <2>2. PassStates(iter, base, xs)
    BY <2>1, Zenon
  <2> HIDE DEF iter
  <2> QED BY <2>2 DEF PassStates
<1>2. FoldLeft(PassOver, base, xs) = iter[DOMAIN xs]
  BY Zenon DEF FoldLeft, MapThenFoldSet, PassIter, PassStates
<1> HIDE DEF iter
<1>3. r[0] = base
  <2>1. 1 .. 0 = {} /\ 1 .. 0 \in SUBSET (DOMAIN xs)
    OBVIOUS
  <2>2. iter[1 .. 0] = base
    BY <1>1, <2>1 DEF PassIter
  <2> QED BY <2>2
<1>4. ASSUME NEW k \in 1 .. n PROVE r[k] = PassOver(r[k-1], xs[k])
  <2>1. Max(1 .. k) = k /\ (1 .. k) \ {k} = 1 .. (k - 1) /\ 1 .. k \in SUBSET (DOMAIN xs) /\ 1 .. k # {}
    BY MaxOfRange
  <2> DEFINE s == 1 .. k
  <2>2. iter[s] = PassOver(iter[s \ {Max(s)}], xs[Max(s)])
    BY <1>1, <2>1 DEF PassIter
  <2>3. r[k] = iter[s] /\ r[k-1] = iter[s \ {Max(s)}]
    <3>1. k \in 0 .. n /\ k - 1 \in 0 .. n /\ s \ {Max(s)} = 1 .. (k - 1)
      BY <2>1
    <3> QED BY <3>1
  <2> HIDE DEF r
  <2> QED BY <2>1, <2>2, <2>3
<1>5. iter[DOMAIN xs] = r[n]
  OBVIOUS
<1> HIDE DEF r
<1>6. PassTrace(r, base, xs, n)
  BY <1>2, <1>3, <1>4, <1>5 DEF PassTrace
<1> QED BY <1>6

(* There is the function that the fold is defined by ...                    *)
TrackersIter(f, base, xs, s) == IF s = {} THEN base ELSE UpdateTracker(f[s \ {Max(s)}], xs[Max(s)])
TrackersStates(f, base, xs) == f = [s \in SUBSET (DOMAIN xs) |-> TrackersIter(f, base, xs, s)]
(* That function exists, by induction over the number of elements.         *)
LEMMA TrackersFoldExists ==
  ASSUME NEW base, NEW xs, NEW n \in Nat, DOMAIN xs = 1 .. n
  PROVE  \E f : TrackersStates(f, base, xs)
<1> DEFINE S == DOMAIN xs
           Next1(f, s) == TrackersIter(f, base, xs, s)
           Good(f, k) == /\ f = [s \in SUBSET S |-> f[s]]
                         /\ \A s \in SUBSET S : Cardinality(s) <= k => f[s] = Next1(f, s)
           Bad == {k \in Nat : \A f : ~Good(f, k)}
<1>1. \A s \in SUBSET S : IsFiniteSet(s) /\ s \subseteq Nat /\ Cardinality(s) \in Nat
                          /\ (s # {} => Max(s) \in s)
  BY SubsetOfRange
<1>2. \E f : Good(f, 0)
  <2> DEFINE f == [s \in SUBSET S |-> base]
  <2>1. f = [s \in SUBSET S |-> f[s]]
    OBVIOUS
  <2>2. ASSUME NEW s \in SUBSET S, Cardinality(s) <= 0 PROVE f[s] = Next1(f, s)
    <3>1. s = {}
      BY <1>1, <2>2, FS_EmptySet
    <3> QED BY <3>1 DEF TrackersIter
  <2> QED BY <2>1, <2>2
<1>3. ASSUME NEW k \in Nat, NEW f, Good(f, k) PROVE \E g : Good(g, k + 1)
  <2> DEFINE g == [s \in SUBSET S |-> Next1(f, s)]
  <2>1. g = [s \in SUBSET S |-> g[s]]
    OBVIOUS
  <2>2. ASSUME NEW s \in SUBSET S, Cardinality(s) <= k + 1 PROVE g[s] = Next1(g, s)
    <3>1. CASE s = {}
      BY <3>1 DEF TrackersIter
    <3>2. CASE s # {}
      <4> DEFINE t == s \ {Max(s)}
      <4>1. t \in SUBSET S /\ Cardinality(t) <= k
        <5>1. IsFiniteSet(s) /\ Max(s) \in s /\ Cardinality(s) \in Nat
          BY <1>1, <3>2
        <5>2. Cardinality(t) = Cardinality(s) - 1
          BY <5>1, FS_RemoveElement
        <5> QED BY <2>2, <5>1, <5>2
      <4>2. f[t] = Next1(f, t) /\ g[t] = Next1(f, t)
        BY <1>3, <4>1
      <4>3. g[s] = Next1(f, s)
        OBVIOUS
      <4>4. g[t] = f[t]
        BY <4>2
      <4> HIDE DEF g
      <4> QED BY <3>2, <4>3, <4>4 DEF TrackersIter
    <3> QED BY <3>1, <3>2
  <2> QED BY <2>1, <2>2
<1>4. Bad = {}
  <2> HIDE DEF Good
  <2> SUFFICES ASSUME Bad # {} PROVE FALSE
    OBVIOUS
  <2>1. PICK m \in Bad : \A j \in Bad : m <= j
    BY LeastOf
  <2>2. m # 0
    BY <1>2, <2>1
  <2>3. m - 1 \in Nat /\ m - 1 \notin Bad
    BY <2>1, <2>2
  <2> QED BY <1>3, <2>1, <2>3
<1>5. PICK f : Good(f, n)
  <2> HIDE DEF Good
  <2> QED BY <1>4
<1>6. \A s \in SUBSET S : Cardinality(s) <= n
  BY SubsetOfRange
<1>7. \A s \in SUBSET S : f[s] = Next1(f, s)
  BY <1>5, <1>6
<1>8. f = [s \in SUBSET S |-> Next1(f, s)]
  <2>1. f = [s \in SUBSET S |-> f[s]]
    BY <1>5
  <2> HIDE DEF Next1
  <2> QED BY <1>7, <2>1
<1> QED BY <1>8 DEF TrackersStates

(* ... and its values on the beginnings of the sequence are the states that *)
(* the fold goes through.                                                   *)
TrackersTrace(r, base, xs, n) ==
  /\ r[0] = base
  /\ \A k \in 1 .. n : r[k] = UpdateTracker(r[k-1], xs[k])
  /\ FoldLeft(UpdateTracker, base, xs) = r[n]

(* ... of UpdateTracker over the liveness trackers ...                     *)
LEMMA TrackersFold ==
  ASSUME NEW base, NEW xs, NEW n \in Nat, DOMAIN xs = 1 .. n
  PROVE  \E r : TrackersTrace(r, base, xs, n)
<1> DEFINE iter == CHOOSE f : TrackersStates(f, base, xs)
           r == [k \in 0 .. n |-> iter[1 .. k]]
<1>1. iter = [s \in SUBSET (DOMAIN xs) |-> TrackersIter(iter, base, xs, s)]
  <2>1. \E f : TrackersStates(f, base, xs)
    BY TrackersFoldExists
  <2>2. TrackersStates(iter, base, xs)
    BY <2>1, Zenon
  <2> HIDE DEF iter
  <2> QED BY <2>2 DEF TrackersStates
<1>2. FoldLeft(UpdateTracker, base, xs) = iter[DOMAIN xs]
  BY Zenon DEF FoldLeft, MapThenFoldSet, TrackersIter, TrackersStates
<1> HIDE DEF iter
<1>3. r[0] = base
  <2>1. 1 .. 0 = {} /\ 1 .. 0 \in SUBSET (DOMAIN xs)
    OBVIOUS
  <2>2. iter[1 .. 0] = base
    BY <1>1, <2>1 DEF TrackersIter
  <2> QED BY <2>2
<1>4. ASSUME NEW k \in 1 .. n PROVE r[k] = UpdateTracker(r[k-1], xs[k])
  <2>1. Max(1 .. k) = k /\ (1 .. k) \ {k} = 1 .. (k - 1) /\ 1 .. k \in SUBSET (DOMAIN xs) /\ 1 .. k # {}
    BY MaxOfRange
  <2> DEFINE s == 1 .. k
  <2>2. iter[s] = UpdateTracker(iter[s \ {Max(s)}], xs[Max(s)])
    BY <1>1, <2>1 DEF TrackersIter
  <2>3. r[k] = iter[s] /\ r[k-1] = iter[s \ {Max(s)}]
    <3>1. k \in 0 .. n /\ k - 1 \in 0 .. n /\ s \ {Max(s)} = 1 .. (k - 1)
      BY <2>1
    <3> QED BY <3>1
  <2> HIDE DEF r
  <2> QED BY <2>1, <2>2, <2>3
<1>5. iter[DOMAIN xs] = r[n]
  OBVIOUS
<1> HIDE DEF r
<1>6. TrackersTrace(r, base, xs, n)
  BY <1>2, <1>3, <1>4, <1>5 DEF TrackersTrace
<1> QED BY <1>6

(* There is the function that the fold is defined by ...                    *)
KeptIter(f, base, xs, s, S0) == IF s = {} THEN base ELSE KeepIn(f[s \ {Max(s)}], xs[Max(s)], S0)
KeptStates(f, base, xs, S0) == f = [s \in SUBSET (DOMAIN xs) |-> KeptIter(f, base, xs, s, S0)]
(* That function exists, by induction over the number of elements.         *)
LEMMA KeptFoldExists ==
  ASSUME NEW base, NEW xs, NEW n \in Nat, DOMAIN xs = 1 .. n, NEW S0, base = << >>
  PROVE  \E f : KeptStates(f, base, xs, S0)
<1> DEFINE S == DOMAIN xs
           Next1(f, s) == KeptIter(f, base, xs, s, S0)
           Good(f, k) == /\ f = [s \in SUBSET S |-> f[s]]
                         /\ \A s \in SUBSET S : Cardinality(s) <= k => f[s] = Next1(f, s)
           Bad == {k \in Nat : \A f : ~Good(f, k)}
<1>1. \A s \in SUBSET S : IsFiniteSet(s) /\ s \subseteq Nat /\ Cardinality(s) \in Nat
                          /\ (s # {} => Max(s) \in s)
  BY SubsetOfRange
<1>2. \E f : Good(f, 0)
  <2> DEFINE f == [s \in SUBSET S |-> base]
  <2>1. f = [s \in SUBSET S |-> f[s]]
    OBVIOUS
  <2>2. ASSUME NEW s \in SUBSET S, Cardinality(s) <= 0 PROVE f[s] = Next1(f, s)
    <3>1. s = {}
      BY <1>1, <2>2, FS_EmptySet
    <3> QED BY <3>1 DEF KeptIter
  <2> QED BY <2>1, <2>2
<1>3. ASSUME NEW k \in Nat, NEW f, Good(f, k) PROVE \E g : Good(g, k + 1)
  <2> DEFINE g == [s \in SUBSET S |-> Next1(f, s)]
  <2>1. g = [s \in SUBSET S |-> g[s]]
    OBVIOUS
  <2>2. ASSUME NEW s \in SUBSET S, Cardinality(s) <= k + 1 PROVE g[s] = Next1(g, s)
    <3>1. CASE s = {}
      BY <3>1 DEF KeptIter
    <3>2. CASE s # {}
      <4> DEFINE t == s \ {Max(s)}
      <4>1. t \in SUBSET S /\ Cardinality(t) <= k
        <5>1. IsFiniteSet(s) /\ Max(s) \in s /\ Cardinality(s) \in Nat
          BY <1>1, <3>2
        <5>2. Cardinality(t) = Cardinality(s) - 1
          BY <5>1, FS_RemoveElement
        <5> QED BY <2>2, <5>1, <5>2
      <4>2. f[t] = Next1(f, t) /\ g[t] = Next1(f, t)
        BY <1>3, <4>1
      <4>3. g[s] = Next1(f, s)
        OBVIOUS
      <4>4. g[t] = f[t]
        BY <4>2
      <4> HIDE DEF g
      <4> QED BY <3>2, <4>3, <4>4 DEF KeptIter
    <3> QED BY <3>1, <3>2
  <2> QED BY <2>1, <2>2
<1>4. Bad = {}
  <2> HIDE DEF Good
  <2> SUFFICES ASSUME Bad # {} PROVE FALSE
    OBVIOUS
  <2>1. PICK m \in Bad : \A j \in Bad : m <= j
    BY LeastOf
  <2>2. m # 0
    BY <1>2, <2>1
  <2>3. m - 1 \in Nat /\ m - 1 \notin Bad
    BY <2>1, <2>2
  <2> QED BY <1>3, <2>1, <2>3
<1>5. PICK f : Good(f, n)
  <2> HIDE DEF Good
  <2> QED BY <1>4
<1>6. \A s \in SUBSET S : Cardinality(s) <= n
  BY SubsetOfRange
<1>7. \A s \in SUBSET S : f[s] = Next1(f, s)
  BY <1>5, <1>6
<1>8. f = [s \in SUBSET S |-> Next1(f, s)]
  <2>1. f = [s \in SUBSET S |-> f[s]]
    BY <1>5
  <2> HIDE DEF Next1
  <2> QED BY <1>7, <2>1
<1> QED BY <1>8 DEF KeptStates

(* ... and its values on the beginnings of the sequence are the states that *)
(* the fold goes through.                                                   *)
KeptTrace(r, base, xs, n, S0) ==
  /\ r[0] = base
  /\ \A k \in 1 .. n : r[k] = KeepIn(r[k-1], xs[k], S0)
  /\ Kept(xs, S0) = r[n]

(* ... and of the fold that filters a list.                                *)
LEMMA KeptFold ==
  ASSUME NEW base, NEW xs, NEW n \in Nat, DOMAIN xs = 1 .. n, NEW S0, base = << >>
  PROVE  \E r : KeptTrace(r, base, xs, n, S0)
<1> DEFINE iter == CHOOSE f : KeptStates(f, base, xs, S0)
           r == [k \in 0 .. n |-> iter[1 .. k]]
<1>1. iter = [s \in SUBSET (DOMAIN xs) |-> KeptIter(iter, base, xs, s, S0)]
  <2>1. \E f : KeptStates(f, base, xs, S0)
    BY KeptFoldExists
  <2>2. KeptStates(iter, base, xs, S0)
    BY <2>1, Zenon
  <2> HIDE DEF iter
  <2> QED BY <2>2 DEF KeptStates
<1>2. Kept(xs, S0) = iter[DOMAIN xs]
  BY Zenon DEF FoldLeft, MapThenFoldSet, Kept, KeepIn, KeptIter, KeptStates
<1> HIDE DEF iter
<1>3. r[0] = base
  <2>1. 1 .. 0 = {} /\ 1 .. 0 \in SUBSET (DOMAIN xs)
    OBVIOUS
  <2>2. iter[1 .. 0] = base
    BY <1>1, <2>1 DEF KeptIter
  <2> QED BY <2>2
<1>4. ASSUME NEW k \in 1 .. n PROVE r[k] = KeepIn(r[k-1], xs[k], S0)
  <2>1. Max(1 .. k) = k /\ (1 .. k) \ {k} = 1 .. (k - 1) /\ 1 .. k \in SUBSET (DOMAIN xs) /\ 1 .. k # {}
    BY MaxOfRange
  <2> DEFINE s == 1 .. k
  <2>2. iter[s] = KeepIn(iter[s \ {Max(s)}], xs[Max(s)], S0)
    BY <1>1, <2>1 DEF KeptIter
  <2>3. r[k] = iter[s] /\ r[k-1] = iter[s \ {Max(s)}]
    <3>1. k \in 0 .. n /\ k - 1 \in 0 .. n /\ s \ {Max(s)} = 1 .. (k - 1)
      BY <2>1
    <3> QED BY <3>1
  <2> HIDE DEF r
  <2> QED BY <2>1, <2>2, <2>3
<1>5. iter[DOMAIN xs] = r[n]
  OBVIOUS
<1> HIDE DEF r
<1>6. KeptTrace(r, base, xs, n, S0)
  BY <1>2, <1>3, <1>4, <1>5 DEF KeptTrace
<1> QED BY <1>6
-----------------------------------------------------------------------------
(* A heap m with objects below e and from s up to z.                        *)
WordType == [k : {"hdr", "ref", "weak", "plain", "junk"}, t : AllTypes \cup {""}, v : Nat]
Memory == [Cells -> WordType]
Objs(m, e, s, z) == {a \in Cells : m[a].k = "hdr" /\ (a < e \/ (s <= a /\ a < z))}

(* They do not overlap, and each has a name of its own.                     *)
Layout(m, e, s, z) ==
  /\ m \in Memory /\ e \in Nat /\ s \in Nat /\ z \in Nat /\ e <= s /\ z <= MaxSize /\ s <= z
  /\ \A a \in Objs(m, e, s, z) :
       /\ m[a].t \in AllTypes /\ m[a].v \in 1 .. allocated
       /\ a < e => a + AllocationSize(m, a) <= e
       /\ s <= a => a + AllocationSize(m, a) <= z
  /\ \A a, b \in Objs(m, e, s, z) : a < b => a + AllocationSize(m, a) <= b
  /\ \A a, b \in Objs(m, e, s, z) : m[a].v = m[b].v => a = b

(* A value refers to a place in T if it refers to any, and so do all words  *)
(* of the objects.                                                          *)
Value(w, T) == w.k = "plain" \/ (w.k = "ref" /\ w.v \in T)
WeakValue(w, T) == w.k = "plain" \/ (w.k = "weak" /\ w.v \in T)
Fields(m, e, s, z, T) ==
  \A a \in Objs(m, e, s, z) :
    /\ \A c \in Range(Slots(m, a)) : Value(m[c], T)
    /\ m[a].t = "tracker" => WeakValue(m[a + 1], T)

(* Where the object is that a reference leads to, and the addresses that    *)
(* lead to one.                                                             *)
Res(m, s, a) == IF s <= a /\ m[a].k = "ref" THEN m[a].v ELSE a
Tgt(m, e, s, z) ==
  {a \in Cells : /\ a < e \/ (s <= a /\ a < z)
                 /\ Res(m, s, a) \in Objs(m, e, s, z)
                 /\ Res(m, s, a) # a => Res(m, s, a) < e}

(* The space between e and s is enough for the objects above it; the ones   *)
(* from lo to e follow on each other.                                       *)
Cover(m, A) == UNION {a .. a + AllocationSize(m, a) - 1 : a \in A}
Above(m, e, s, z) == {a \in Objs(m, e, s, z) : s <= a}
Room(m, e, s, z) == Cardinality(Cover(m, Above(m, e, s, z))) <= s - e
Tiles(m, e, s, z, lo) ==
  /\ lo \in Nat /\ lo <= e /\ (lo = e \/ lo \in Objs(m, e, s, z))
  /\ \A a \in Objs(m, e, s, z) : lo <= a /\ a < e =>
       a + AllocationSize(m, a) = e \/ a + AllocationSize(m, a) \in Objs(m, e, s, z)

CopyState(m, e, s, z, lo) ==
  /\ Layout(m, e, s, z)
  /\ Fields(m, e, s, z, Tgt(m, e, s, z))
  /\ Room(m, e, s, z)
  /\ Tiles(m, e, s, z, lo)

(* What copying keeps: every address leads to the same object.              *)
SameObject(m, a, n, b) == n[b] = m[a] /\ (m[a].t = "tracker" => n[b + 1] = m[a + 1])
Moved(m, e, n, f, s, z) ==
  /\ e <= f
  /\ \A a \in Tgt(m, e, s, z) :
       /\ a \in Tgt(n, f, s, z)
       /\ SameObject(m, Res(m, s, a), n, Res(n, s, a))
       /\ Res(m, s, a) < e => Res(n, s, a) = Res(m, s, a)
  /\ \A b \in Objs(n, f, s, z) : \E a \in Objs(m, e, s, z) : SameObject(m, a, n, b)

(* The size of an object, and where its references are.                     *)
LEMMA SizesAre ==
  ASSUME NEW m, NEW a \in Nat, m[a].t \in AllTypes
  PROVE  /\ AllocationSize(m, a) = IF m[a].t = "box" THEN 3 ELSE 2
         /\ AllocationSize(m, a) \in {2, 3}
         /\ Range(Slots(m, a)) = IF m[a].t = "cell" THEN {a + 1} ELSE IF m[a].t = "box" THEN {a + 2} ELSE {}
         /\ Slots(m, a) = IF m[a].t = "cell" THEN <<a + 1>> ELSE IF m[a].t = "box" THEN <<a + 2>> ELSE << >>
<1>1. AllocationSize(m, a) = IF m[a].t = "box" THEN 3 ELSE 2
  BY DEF AllocationSize, ObjectSize, AllTypes
<1>2. RefSlots[m[a].t] = IF m[a].t = "cell" THEN <<1>> ELSE IF m[a].t = "box" THEN <<2>> ELSE << >>
  BY DEF RefSlots, AllTypes
<1>3. Slots(m, a) = IF m[a].t = "cell" THEN <<a + 1>> ELSE IF m[a].t = "box" THEN <<a + 2>> ELSE << >>
  <2>1. CASE m[a].t = "cell"
    <3>1. Slots(m, a) = [i \in DOMAIN <<1>> |-> a + <<1>>[i]]
      BY <1>2, <2>1 DEF Slots
    <3> QED BY <2>1, <3>1
  <2>2. CASE m[a].t = "box"
    <3>1. Slots(m, a) = [i \in DOMAIN <<2>> |-> a + <<2>>[i]]
      BY <1>2, <2>2 DEF Slots
    <3> QED BY <2>2, <3>1
  <2>3. CASE m[a].t \notin {"cell", "box"}
    <3>1. Slots(m, a) = [i \in DOMAIN << >> |-> a + << >>[i]]
      BY <1>2, <2>3 DEF Slots
    <3> QED BY <2>3, <3>1
  <2> QED BY <2>1, <2>2, <2>3
<1>4. Range(Slots(m, a)) = IF m[a].t = "cell" THEN {a + 1} ELSE IF m[a].t = "box" THEN {a + 2} ELSE {}
  BY <1>3 DEF Range
<1> QED BY <1>1, <1>3, <1>4

(* The same for the objects of a heap: their references are inside of them. *)
LEMMA ObjectIs ==
  ASSUME NEW m, NEW e, NEW s, NEW z, Layout(m, e, s, z), NEW a \in Objs(m, e, s, z)
  PROVE  /\ a \in Cells /\ a \in Nat /\ m[a].k = "hdr" /\ m[a] \in WordType /\ m[a].t \in AllTypes
         /\ AllocationSize(m, a) \in {2, 3} /\ a + AllocationSize(m, a) <= z
         /\ a + 1 \in Cells
         /\ a + AllocationSize(m, a) <= MaxSize
         /\ \A c \in Range(Slots(m, a)) : c \in Cells /\ a < c /\ c < a + AllocationSize(m, a)
         /\ Range(Slots(m, a)) = IF m[a].t = "cell" THEN {a + 1} ELSE IF m[a].t = "box" THEN {a + 2} ELSE {}
         /\ AllocationSize(m, a) = IF m[a].t = "box" THEN 3 ELSE 2
         /\ m[a].v \in Nat
<1>1. a \in Cells /\ a \in Nat /\ m[a].k = "hdr" /\ m[a] \in WordType /\ m[a].t \in AllTypes
      /\ m[a].v \in Nat
  <2>1. a \in Cells /\ a \in Nat /\ m[a].k = "hdr" /\ m[a].t \in AllTypes
    BY DEF Layout, Objs, Cells
  <2>2. m[a] \in WordType
    BY <2>1 DEF Layout, Memory
  <2> QED BY <2>1, <2>2 DEF WordType
<1>2. AllocationSize(m, a) = (IF m[a].t = "box" THEN 3 ELSE 2) /\ AllocationSize(m, a) \in {2, 3}
      /\ Range(Slots(m, a)) = IF m[a].t = "cell" THEN {a + 1} ELSE IF m[a].t = "box" THEN {a + 2} ELSE {}
  BY <1>1, SizesAre
<1>3. a + AllocationSize(m, a) <= z /\ z \in Nat /\ z <= MaxSize
  BY <1>1, <1>2 DEF Layout, Objs
<1>4. a + AllocationSize(m, a) <= MaxSize /\ a + 1 \in Cells
  BY <1>1, <1>2, <1>3, Sizes DEF Cells
<1>5. ASSUME NEW c \in Range(Slots(m, a)) PROVE c \in Cells /\ a < c /\ c < a + AllocationSize(m, a)
  BY <1>1, <1>2, <1>4, Sizes DEF Cells
<1> QED BY <1>1, <1>2, <1>3, <1>4, <1>5

(* Between the words of an object no other begins.                          *)
LEMMA NoneInside ==
  ASSUME NEW m, NEW e, NEW s, NEW z, Layout(m, e, s, z), NEW a \in Objs(m, e, s, z),
         NEW b \in Nat, a < b, b < a + AllocationSize(m, a)
  PROVE  b \in Cells /\ b \notin Objs(m, e, s, z) /\ m[b].k # "hdr" /\ (a < e <=> b < e) /\ (s <= a <=> s <= b)
<1>1. a \in Nat /\ AllocationSize(m, a) \in {2, 3} /\ a + AllocationSize(m, a) <= z
      /\ e \in Nat /\ s \in Nat /\ z \in Nat /\ z <= MaxSize /\ e <= s
  BY ObjectIs DEF Layout
<1>2. (a < e => a + AllocationSize(m, a) <= e) /\ (a < e \/ s <= a)
  BY DEF Layout, Objs
<1>3. b \in Cells /\ b < z
  BY <1>1, Sizes DEF Cells
<1>4. b \notin Objs(m, e, s, z)
  <2> SUFFICES ASSUME b \in Objs(m, e, s, z) PROVE FALSE
    OBVIOUS
  <2>1. a + AllocationSize(m, a) <= b
    BY DEF Layout
  <2> QED BY <1>1, <2>1
<1>5. (a < e <=> b < e) /\ (s <= a <=> s <= b)
  BY <1>1, <1>2
<1>6. m[b].k # "hdr"
  <2>1. b < e \/ (s <= b /\ b < z)
    BY <1>2, <1>3, <1>5
  <2> QED BY <1>3, <1>4, <2>1 DEF Objs
<1> QED BY <1>3, <1>4, <1>5, <1>6
-----------------------------------------------------------------------------
(* copy-object of an object that is not copied yet: the words of x go to e. *)
CopyOf(m, e, x) ==
  LET n == AllocationSize(m, x) IN
  [c \in Cells |-> IF c \in e .. e + n - 1 THEN m[x + c - e] ELSE IF c = x THEN Ref(e) ELSE m[c]]

(* The space that is left has room for it.                                  *)
LEMMA ObjectFits ==
  ASSUME NEW m, NEW e, NEW s, NEW z, Layout(m, e, s, z), Room(m, e, s, z),
         NEW x \in Above(m, e, s, z)
  PROVE  /\ e + AllocationSize(m, x) <= s
         /\ Cardinality(Cover(m, Above(m, e, s, z) \ {x})) <= s - (e + AllocationSize(m, x))
<1> DEFINE n == AllocationSize(m, x)
           A == Above(m, e, s, z)
           X == x .. x + n - 1
<1>1. x \in Objs(m, e, s, z) /\ s <= x /\ e \in Nat /\ s \in Nat /\ z \in Nat
  BY DEF Above, Layout
<1>2. x \in Nat /\ n \in {2, 3}
  BY <1>1, ObjectIs
<1>3. IsFiniteSet(X) /\ Cardinality(X) = n
  BY <1>2, FS_Interval
<1>4. Cover(m, A) \subseteq 0 .. z
  <2>1. ASSUME NEW a \in A PROVE a .. a + AllocationSize(m, a) - 1 \subseteq 0 .. z
    <3>1. a \in Nat /\ a + AllocationSize(m, a) <= z /\ AllocationSize(m, a) \in {2, 3}
      BY ObjectIs DEF Above
    <3> QED BY <1>1, <3>1
  <2> QED BY <2>1 DEF Cover
<1>5. IsFiniteSet(Cover(m, A)) /\ Cardinality(Cover(m, A)) \in Nat
  <2>1. IsFiniteSet(0 .. z)
    BY <1>1, FS_Interval
  <2> QED BY <1>4, <2>1, FS_Subset, FS_CardinalityType
<1>6. X \subseteq Cover(m, A)
  BY DEF Cover
<1>7. Cover(m, A \ {x}) = Cover(m, A) \ X
  <2>1. ASSUME NEW a \in A \ {x} PROVE (a .. a + AllocationSize(m, a) - 1) \cap X = {}
    <3>1. a \in Objs(m, e, s, z) /\ a # x
      BY DEF Above
    <3>2. a \in Nat /\ AllocationSize(m, a) \in {2, 3}
      BY <3>1, ObjectIs
    <3>3. a + AllocationSize(m, a) <= x \/ x + n <= a
      BY <1>1, <1>2, <3>1, <3>2 DEF Layout
    <3> QED BY <1>2, <3>2, <3>3
  <2> HIDE DEF n, X
  <2>2. ASSUME NEW c PROVE c \in Cover(m, A \ {x}) <=> c \in Cover(m, A) \ X
    <3>1. c \in Cover(m, A) <=> \E a \in A : c \in a .. a + AllocationSize(m, a) - 1
      BY DEF Cover
    <3>2. c \in Cover(m, A \ {x}) <=> \E a \in A \ {x} : c \in a .. a + AllocationSize(m, a) - 1
      BY DEF Cover
    <3>3. X = x .. x + AllocationSize(m, x) - 1
      BY DEF X, n
    <3> QED BY <2>1, <3>1, <3>2, <3>3
  <2> QED BY <2>2
<1>8. Cardinality(Cover(m, A) \ X) = Cardinality(Cover(m, A)) - n
  <2>1. IsFiniteSet(Cover(m, A) \ X)
    BY <1>5, FS_Subset
  <2>2. Cardinality(Cover(m, A)) = Cardinality(Cover(m, A) \ X) + Cardinality(X)
    <3>1. Cover(m, A) = (Cover(m, A) \ X) \cup X /\ (Cover(m, A) \ X) \cap X = {}
      BY <1>6
    <3> HIDE DEF X, A
    <3>2. Cardinality((Cover(m, A) \ X) \cup X) = Cardinality(Cover(m, A) \ X) + Cardinality(X) - Cardinality({})
      BY <1>3, <2>1, <3>1, FS_Union
    <3>3. Cardinality({}) = 0
      BY FS_EmptySet
    <3>4. Cardinality(Cover(m, A) \ X) \in Nat
      BY <2>1, FS_CardinalityType
    <3> QED BY <1>2, <1>3, <3>1, <3>2, <3>3, <3>4
  <2>3. Cardinality(Cover(m, A) \ X) \in Nat
    BY <2>1, FS_CardinalityType
  <2> QED BY <1>2, <1>3, <2>2, <2>3
<1>9. Cardinality(Cover(m, A)) <= s - e
  BY DEF Room
<1>10. n <= Cardinality(Cover(m, A))
  <2>1. Cardinality(X) <= Cardinality(Cover(m, A))
    BY <1>5, <1>6, FS_Subset
  <2> QED BY <1>3, <2>1
<1> HIDE DEF n, A
<1>11. e + n <= s
  BY <1>1, <1>2, <1>5, <1>9, <1>10
<1>12. Cardinality(Cover(m, A \ {x})) <= s - (e + n)
  <2> HIDE DEF X
  <2> QED BY <1>1, <1>2, <1>5, <1>7, <1>8, <1>9
<1> QED BY <1>11, <1>12 DEF n, A
-----------------------------------------------------------------------------
(* A reference is one, and so on.                                           *)
LEMMA RefIs ==
  ASSUME NEW a
  PROVE  /\ Ref(a).k = "ref" /\ Ref(a).v = a /\ Plain.k = "plain" /\ Junk.k = "junk"
         /\ Weak(a).k = "weak" /\ Weak(a).v = a
BY DEF Ref, Plain, Junk, Weak

(* The heap after it: x has moved to e, nothing else has changed.           *)
LEMMA CopyIs ==
  ASSUME NEW m, NEW e, NEW s, NEW z, Layout(m, e, s, z), Room(m, e, s, z),
         NEW x \in Above(m, e, s, z), NEW n, n = AllocationSize(m, x),
         NEW w, w = CopyOf(m, e, x)
  PROVE  /\ n \in {2, 3} /\ e + n <= s /\ e \in Cells /\ e < x /\ w \in Memory
         /\ w[e] = m[x] /\ w[x] = Ref(e)
         /\ \A i \in 0 .. n - 1 : e + i \in Cells /\ x + i \in Cells /\ w[e + i] = m[x + i]
         /\ \A c \in Cells : (c < e \/ e + n <= c) /\ c # x => w[c] = m[c]
         /\ Objs(w, e + n, s, z) = (Objs(m, e, s, z) \ {x}) \cup {e}
         /\ e \notin Objs(m, e, s, z)
<1>0. x \in Objs(m, e, s, z) /\ s <= x
  BY DEF Above
<1>1. /\ e \in Nat /\ s \in Nat /\ z \in Nat /\ e <= s /\ z <= MaxSize
      /\ n \in {2, 3} /\ x \in Nat /\ x \in Cells /\ x + n <= MaxSize /\ x + n <= z
      /\ e + n <= s /\ MaxSize \in Nat
  BY <1>0, ObjectIs, ObjectFits, Sizes DEF Layout
<1>2. e \in Cells /\ e < x
  BY <1>0, <1>1 DEF Cells
<1>3. \A c \in Cells : w[c] = IF c \in e .. e + n - 1 THEN m[x + c - e] ELSE IF c = x THEN Ref(e) ELSE m[c]
  BY DEF CopyOf
<1>4. ASSUME NEW i \in 0 .. n - 1 PROVE e + i \in Cells /\ x + i \in Cells /\ w[e + i] = m[x + i]
  <2>1. e + i \in Cells /\ x + i \in Cells /\ e + i \in e .. e + n - 1 /\ x + (e + i) - e = x + i
    BY <1>0, <1>1 DEF Cells
  <2> QED BY <1>3, <2>1
<1>5. ASSUME NEW c \in Cells, (c < e \/ e + n <= c) /\ c # x PROVE w[c] = m[c]
  BY <1>1, <1>3, <1>5 DEF Cells
<1>6. w[x] = Ref(e)
  BY <1>0, <1>1, <1>3
<1>7. w[e] = m[x]
  <2>1. 0 \in 0 .. n - 1 /\ e + 0 = e /\ x + 0 = x
    BY <1>1
  <2> QED BY <1>4, <2>1
<1>8. w \in Memory
  <2>1. ASSUME NEW c \in Cells PROVE w[c] \in WordType
    <3>1. m[c] \in WordType
      BY DEF Layout, Memory
    <3>2. Ref(e) \in WordType
      BY <1>1 DEF Ref, WordType
    <3>3. CASE c \in e .. e + n - 1
      <4>1. x + c - e \in Cells
        BY <1>1, <3>3 DEF Cells
      <4>2. m[x + c - e] \in WordType
        BY <4>1 DEF Layout, Memory
      <4> QED BY <1>3, <3>3, <4>2
    <3> QED BY <1>3, <3>1, <3>2, <3>3
  <2>2. w = [c \in Cells |-> w[c]]
    BY DEF CopyOf
  <2> QED BY <2>1, <2>2 DEF Memory
<1>9. Objs(w, e + n, s, z) = (Objs(m, e, s, z) \ {x}) \cup {e}
  <2> SUFFICES ASSUME NEW c PROVE c \in Objs(w, e + n, s, z) <=> c \in (Objs(m, e, s, z) \ {x}) \cup {e}
    OBVIOUS
  <2>1. c \in Objs(m, e, s, z) => c \in Cells /\ (c < e \/ s <= c) /\ m[c].k = "hdr"
    BY DEF Objs
  <2>2. c \in Objs(w, e + n, s, z) => c \in Cells /\ (c < e + n \/ s <= c) /\ w[c].k = "hdr"
    BY DEF Objs
  <2>3. CASE c \notin Cells
    BY <1>2, <2>1, <2>2, <2>3
  <2>4. CASE c \in Cells /\ c < e
    <3>1. w[c] = m[c] /\ c # x /\ c # e
      BY <1>1, <1>2, <1>5, <2>4 DEF Cells
    <3>2. c \in Objs(w, e + n, s, z) <=> w[c].k = "hdr"
      BY <1>1, <2>4 DEF Objs, Cells
    <3>3. c \in Objs(m, e, s, z) <=> m[c].k = "hdr"
      BY <1>1, <2>4 DEF Objs, Cells
    <3> QED BY <3>1, <3>2, <3>3
  <2>5. CASE c = e
    <3>1. w[c].k = "hdr" /\ c < e + n /\ c \in Cells
      BY <1>0, <1>1, <1>2, <1>7, <2>5, ObjectIs
    <3> QED BY <2>5, <3>1 DEF Objs
  <2>6. CASE c \in Cells /\ e < c /\ c < e + n
    <3>1. c - e \in 0 .. n - 1 /\ e + (c - e) = c /\ x < x + (c - e) /\ x + (c - e) < x + n /\ x + (c - e) \in Nat
      BY <1>1, <2>6 DEF Cells
    <3>2. w[c] = m[x + (c - e)]
      BY <1>4, <3>1
    <3>3. m[x + (c - e)].k # "hdr"
      BY <1>0, <3>1, NoneInside
    <3>4. ~(c < e) /\ ~(s <= c) /\ c # e
      BY <1>1, <2>6 DEF Cells
    <3> QED BY <2>1, <2>2, <3>2, <3>3, <3>4
  <2>7. CASE c \in Cells /\ e + n <= c /\ c < s
    <3>1. ~(c < e) /\ ~(s <= c) /\ ~(c < e + n) /\ c # e
      BY <1>1, <2>7 DEF Cells
    <3> QED BY <2>1, <2>2, <3>1
  <2>8. CASE c = x
    <3>1. w[c].k # "hdr" /\ c # e
      <4>1. w[c].k = "ref"
        BY <1>6, <2>8, RefIs
      <4> QED BY <1>1, <1>2, <2>8, <4>1
    <3> QED BY <1>1, <2>2, <2>8, <3>1
  <2>9. CASE c \in Cells /\ s <= c /\ c # x
    <3>1. w[c] = m[c] /\ c # e
      BY <1>1, <1>2, <1>5, <2>9 DEF Cells
    <3>2. c \in Objs(w, e + n, s, z) <=> w[c].k = "hdr" /\ c < z
      BY <1>1, <2>9 DEF Objs, Cells
    <3>3. c \in Objs(m, e, s, z) <=> m[c].k = "hdr" /\ c < z
      BY <1>1, <2>9 DEF Objs, Cells
    <3> QED BY <2>9, <3>1, <3>2, <3>3
  <2> QED BY <1>1, <2>3, <2>4, <2>5, <2>6, <2>7, <2>8, <2>9 DEF Cells
<1>10. e \notin Objs(m, e, s, z)
  BY <1>1 DEF Objs
<1> QED BY <1>1, <1>2, <1>4, <1>5, <1>6, <1>7, <1>8, <1>9, <1>10

(* Where an object is after it, and what is in its words.                   *)
LEMMA CopyObjectsAre ==
  ASSUME NEW m, NEW e, NEW s, NEW z, Layout(m, e, s, z), Room(m, e, s, z),
         NEW x \in Above(m, e, s, z), NEW n, n = AllocationSize(m, x),
         NEW w, w = CopyOf(m, e, x), NEW a \in Objs(m, e, s, z)
  PROVE  LET b == IF a = x THEN e ELSE a IN
         /\ b \in Objs(w, e + n, s, z)
         /\ AllocationSize(w, b) = AllocationSize(m, a)
         /\ \A i \in 0 .. AllocationSize(m, a) - 1 : w[b + i] = m[a + i]
         /\ (b < e + n <=> b < e \/ a = x)
         /\ (s <= b <=> s <= a /\ a # x)
         /\ Res(w, s, a) = b
         /\ w[b] = m[a] /\ w[b + 1] = m[a + 1]
<1>1. /\ e \in Nat /\ s \in Nat /\ z \in Nat /\ e <= s /\ z <= MaxSize /\ MaxSize \in Nat
      /\ x \in Objs(m, e, s, z) /\ s <= x
  BY Sizes DEF Layout, Above
<1>2. /\ n \in {2, 3} /\ e + n <= s /\ e < x
      /\ w[e] = m[x] /\ w[x] = Ref(e)
      /\ \A i \in 0 .. n - 1 : w[e + i] = m[x + i]
      /\ \A c \in Cells : (c < e \/ e + n <= c) /\ c # x => w[c] = m[c]
      /\ Objs(w, e + n, s, z) = (Objs(m, e, s, z) \ {x}) \cup {e}
  BY CopyIs
<1>3. /\ a \in Nat /\ AllocationSize(m, a) \in {2, 3} /\ a + AllocationSize(m, a) <= MaxSize
      /\ x \in Nat /\ m[a].k = "hdr"
  BY <1>1, ObjectIs
<1>4. CASE a = x
  <2>1. AllocationSize(w, e) = AllocationSize(m, x)
    BY <1>2 DEF AllocationSize
  <2>2. Res(w, s, x) = e
    <3>1. w[x].k = "ref" /\ w[x].v = e
      BY <1>2, RefIs
    <3> QED BY <1>1, <3>1 DEF Res
  <2>3. w[e + 1] = m[x + 1]
    BY <1>2
  <2> QED BY <1>1, <1>2, <1>3, <1>4, <2>1, <2>2, <2>3
<1>5. CASE a # x
  <2>1. ASSUME NEW i \in 0 .. AllocationSize(m, a) - 1 PROVE w[a + i] = m[a + i]
    <3>1. a + i \in Cells
      BY <1>1, <1>3 DEF Cells
    <3>2. a + i # x
      <4> SUFFICES ASSUME a + i = x PROVE FALSE
        OBVIOUS
      <4>1. a < x
        BY <1>3, <1>5
      <4> QED BY <1>1, <1>3, <4>1 DEF Layout
    <3>3. a + i < e \/ e + n <= a + i
      <4>1. (a < e => a + AllocationSize(m, a) <= e) /\ (a < e \/ s <= a)
        BY DEF Layout, Objs
      <4> QED BY <1>1, <1>2, <1>3, <4>1
    <3> QED BY <1>2, <3>1, <3>2, <3>3
  <2>2. w[a] = m[a] /\ w[a + 1] = m[a + 1]
    <3>1. 0 \in 0 .. AllocationSize(m, a) - 1 /\ 1 \in 0 .. AllocationSize(m, a) - 1 /\ a + 0 = a
      BY <1>3
    <3> QED BY <2>1, <3>1
  <2>3. AllocationSize(w, a) = AllocationSize(m, a)
    BY <2>2 DEF AllocationSize
  <2>4. Res(w, s, a) = a
    BY <1>3, <2>2 DEF Res
  <2>5. a \in Objs(w, e + n, s, z)
    BY <1>2, <1>5
  <2>6. a < e + n <=> a < e
    BY <1>1, <1>2, <1>3 DEF Objs
  <2> QED BY <1>5, <2>1, <2>2, <2>3, <2>4, <2>5, <2>6
<1> QED BY <1>4, <1>5

(* So everything that led to an object still does, ...                      *)
LEMMA CopyTargets ==
  ASSUME NEW m, NEW e, NEW s, NEW z, Layout(m, e, s, z), Room(m, e, s, z),
         NEW x \in Above(m, e, s, z), NEW n, n = AllocationSize(m, x),
         NEW w, w = CopyOf(m, e, x), NEW a \in Tgt(m, e, s, z)
  PROVE  /\ a \in Tgt(w, e + n, s, z)
         /\ Res(w, s, a) = IF Res(m, s, a) = x THEN e ELSE Res(m, s, a)
<1> DEFINE o == Res(m, s, a)
           b == IF o = x THEN e ELSE o
<1>1. a \in Cells /\ (a < e \/ (s <= a /\ a < z)) /\ o \in Objs(m, e, s, z) /\ (o # a => o < e)
  BY DEF Tgt
<1>2. /\ n \in {2, 3} /\ e + n <= s /\ e < x /\ w[x] = Ref(e)
      /\ \A c \in Cells : (c < e \/ e + n <= c) /\ c # x => w[c] = m[c]
  BY CopyIs
<1>3. /\ b \in Objs(w, e + n, s, z) /\ Res(w, s, o) = b /\ w[b] = m[o]
      /\ (b < e + n <=> b < e \/ o = x)
  BY <1>1, CopyObjectsAre
<1>4. e \in Nat /\ s \in Nat /\ e <= s /\ x \in Nat /\ s <= x /\ x \in Objs(m, e, s, z) /\ m[x].k = "hdr"
  BY ObjectIs DEF Layout, Above
<1>5. Res(w, s, a) = b
  <2>1. CASE o = a
    BY <1>3, <2>1
  <2>2. CASE o # a
    <3>1. s <= a /\ m[a].k = "ref" /\ a # x
      BY <1>4, <2>2 DEF Res
    <3>2. w[a] = m[a]
      BY <1>1, <1>2, <1>4, <3>1 DEF Cells
    <3>3. o < e /\ o # x
      BY <1>1, <1>4, <2>2 DEF Cells, Objs
    <3>4. Res(w, s, a) = o
      BY <3>1, <3>2 DEF Res
    <3> QED BY <3>3, <3>4
  <2> QED BY <2>1, <2>2
<1>6. b # a => b < e + n
  BY <1>1, <1>2, <1>3, <1>4 DEF Objs, Cells
<1>7. a < e + n \/ (s <= a /\ a < z)
  BY <1>1, <1>2, <1>4 DEF Cells
<1> HIDE DEF b
<1>8. a \in Tgt(w, e + n, s, z)
  BY <1>1, <1>3, <1>5, <1>6, <1>7 DEF Tgt
<1> QED BY <1>5, <1>8 DEF b

(* ... and to the same object, whose layout is as it was ...                *)
LEMMA CopyMoves ==
  ASSUME NEW m, NEW e, NEW s, NEW z, Layout(m, e, s, z), Room(m, e, s, z),
         NEW x \in Above(m, e, s, z), NEW n, n = AllocationSize(m, x),
         NEW w, w = CopyOf(m, e, x)
  PROVE  Moved(m, e, w, e + n, s, z)
<1>1. /\ n \in {2, 3} /\ e \in Nat /\ Objs(w, e + n, s, z) = (Objs(m, e, s, z) \ {x}) \cup {e}
      /\ x \in Objs(m, e, s, z) /\ s <= x /\ s \in Nat /\ e + n <= s
  BY CopyIs DEF Layout, Above
<1>2. ASSUME NEW a \in Tgt(m, e, s, z)
      PROVE  /\ a \in Tgt(w, e + n, s, z)
             /\ SameObject(m, Res(m, s, a), w, Res(w, s, a))
             /\ Res(m, s, a) < e => Res(w, s, a) = Res(m, s, a)
  <2>1. a \in Tgt(w, e + n, s, z) /\ Res(w, s, a) = IF Res(m, s, a) = x THEN e ELSE Res(m, s, a)
    BY CopyTargets
  <2>2. Res(m, s, a) \in Objs(m, e, s, z)
    BY DEF Tgt
  <2>3. w[Res(w, s, a)] = m[Res(m, s, a)] /\ w[Res(w, s, a) + 1] = m[Res(m, s, a) + 1]
    BY <2>1, <2>2, CopyObjectsAre
  <2>4. x \in Nat /\ ~(x < e)
    BY <1>1, ObjectIs
  <2> QED BY <2>1, <2>3, <2>4 DEF SameObject
<1>3. ASSUME NEW b \in Objs(w, e + n, s, z) PROVE \E a \in Objs(m, e, s, z) : SameObject(m, a, w, b)
  <2>1. CASE b = e
    <3>1. SameObject(m, x, w, e)
      BY <1>1, CopyObjectsAre DEF SameObject
    <3> QED BY <1>1, <2>1, <3>1
  <2>2. CASE b # e
    <3>1. b \in Objs(m, e, s, z) /\ b # x
      BY <1>1, <2>2
    <3>2. SameObject(m, b, w, b)
      BY <3>1, CopyObjectsAre DEF SameObject
    <3> QED BY <3>1, <3>2
  <2> QED BY <2>1, <2>2
<1>4. e <= e + n
  BY <1>1
<1> QED BY <1>2, <1>3, <1>4 DEF Moved

(* ... so that the heap is laid out as before ...                          *)
LEMMA CopyLayout ==
  ASSUME NEW m, NEW e, NEW s, NEW z, Layout(m, e, s, z), Room(m, e, s, z),
         NEW x \in Above(m, e, s, z), NEW n, n = AllocationSize(m, x),
         NEW w, w = CopyOf(m, e, x)
  PROVE  Layout(w, e + n, s, z)
<1>1. /\ n \in {2, 3} /\ e + n <= s /\ e < x /\ w \in Memory
      /\ Objs(w, e + n, s, z) = (Objs(m, e, s, z) \ {x}) \cup {e}
      /\ e \notin Objs(m, e, s, z)
  BY CopyIs
<1>2. /\ e \in Nat /\ s \in Nat /\ z \in Nat /\ e <= s /\ z <= MaxSize /\ s <= z
      /\ x \in Objs(m, e, s, z) /\ s <= x
  BY DEF Layout, Above
<1> DEFINE O == Objs(m, e, s, z)
           New(a) == IF a = x THEN e ELSE a
<1>3. \A a \in O : /\ New(a) \in Objs(w, e + n, s, z)
                   /\ AllocationSize(w, New(a)) = AllocationSize(m, a)
                   /\ w[New(a)] = m[a]
                   /\ a \in Nat /\ AllocationSize(m, a) \in {2, 3}
                   /\ m[a].t \in AllTypes /\ m[a].v \in 1 .. allocated
                   /\ a < e => a + AllocationSize(m, a) <= e
                   /\ s <= a => a + AllocationSize(m, a) <= z
                   /\ a < e \/ s <= a
  <2> SUFFICES ASSUME NEW a \in O
               PROVE  /\ New(a) \in Objs(w, e + n, s, z)
                      /\ AllocationSize(w, New(a)) = AllocationSize(m, a)
                      /\ w[New(a)] = m[a]
                      /\ a \in Nat /\ AllocationSize(m, a) \in {2, 3}
                      /\ m[a].t \in AllTypes /\ m[a].v \in 1 .. allocated
                      /\ a < e => a + AllocationSize(m, a) <= e
                      /\ s <= a => a + AllocationSize(m, a) <= z
                      /\ a < e \/ s <= a
    OBVIOUS
  <2>1. /\ New(a) \in Objs(w, e + n, s, z)
        /\ AllocationSize(w, New(a)) = AllocationSize(m, a)
        /\ w[New(a)] = m[a]
    BY CopyObjectsAre
  <2>2. a \in Nat /\ AllocationSize(m, a) \in {2, 3}
    BY ObjectIs
  <2>3. /\ m[a].t \in AllTypes /\ m[a].v \in 1 .. allocated
        /\ a < e => a + AllocationSize(m, a) <= e
        /\ s <= a => a + AllocationSize(m, a) <= z
    BY DEF Layout
  <2>4. a < e \/ s <= a
    BY DEF Objs
  <2> QED BY <2>1, <2>2, <2>3, <2>4
<1>4. \A b \in Objs(w, e + n, s, z) : \E a \in O : b = New(a)
  BY <1>1, <1>2
<1>5. AllocationSize(m, x) = n
  OBVIOUS
<1>6. ASSUME NEW b \in Objs(w, e + n, s, z)
      PROVE  /\ w[b].t \in AllTypes /\ w[b].v \in 1 .. allocated
             /\ b < e + n => b + AllocationSize(w, b) <= e + n
             /\ s <= b => b + AllocationSize(w, b) <= z
  <2>1. PICK a \in O : b = New(a)
    BY <1>4
  <2>2. w[b] = m[a] /\ AllocationSize(w, b) = AllocationSize(m, a)
    BY <1>3, <2>1
  <2>3. w[b].t \in AllTypes /\ w[b].v \in 1 .. allocated
    BY <1>3, <2>2
  <2>4. /\ b < e + n => b + AllocationSize(w, b) <= e + n
        /\ s <= b => b + AllocationSize(w, b) <= z
    <3>1. CASE a = x
      BY <1>1, <1>2, <1>3, <1>5, <2>1, <2>2, <3>1
    <3>2. CASE a # x
      BY <1>1, <1>2, <1>3, <2>1, <2>2, <3>2
    <3> QED BY <3>1, <3>2
  <2> QED BY <2>3, <2>4
<1>7. ASSUME NEW b1 \in Objs(w, e + n, s, z), NEW b2 \in Objs(w, e + n, s, z), b1 < b2
      PROVE  b1 + AllocationSize(w, b1) <= b2
  <2>1. PICK a1 \in O : b1 = New(a1)
    BY <1>4
  <2>2. PICK a2 \in O : b2 = New(a2)
    BY <1>4
  <2>3. AllocationSize(w, b1) = AllocationSize(m, a1)
    BY <1>3, <2>1
  <2>4. CASE a1 = x
    <3>1. a2 # x /\ b1 = e /\ b2 = a2
      BY <1>7, <2>1, <2>2, <2>4, <1>1, <1>2, <1>3
    <3> QED BY <1>1, <1>2, <1>3, <1>5, <1>7, <2>3, <2>4, <3>1
  <2>5. CASE a2 = x /\ a1 # x
    <3>1. b1 = a1 /\ b2 = e
      BY <2>1, <2>2, <2>5
    <3> QED BY <1>1, <1>2, <1>3, <1>7, <2>3, <3>1
  <2>6. CASE a1 # x /\ a2 # x
    <3>1. b1 = a1 /\ b2 = a2
      BY <2>1, <2>2, <2>6
    <3> QED BY <1>7, <2>3, <3>1 DEF Layout
  <2> QED BY <2>4, <2>5, <2>6
<1>8. ASSUME NEW b1 \in Objs(w, e + n, s, z), NEW b2 \in Objs(w, e + n, s, z), w[b1].v = w[b2].v
      PROVE  b1 = b2
  <2>1. PICK a1 \in O : b1 = New(a1)
    BY <1>4
  <2>2. PICK a2 \in O : b2 = New(a2)
    BY <1>4
  <2>3. m[a1].v = m[a2].v
    BY <1>3, <1>8, <2>1, <2>2
  <2>4. a1 = a2
    BY <2>3 DEF Layout
  <2> QED BY <2>1, <2>2, <2>4
<1>9. e + n \in Nat
  BY <1>1, <1>2
<1> QED BY <1>1, <1>2, <1>6, <1>7, <1>8, <1>9 DEF Layout

(* ... its fields lead to objects ...                                      *)
LEMMA CopyFields ==
  ASSUME NEW m, NEW e, NEW s, NEW z, Layout(m, e, s, z), Room(m, e, s, z),
         Fields(m, e, s, z, Tgt(m, e, s, z)),
         NEW x \in Above(m, e, s, z), NEW n, n = AllocationSize(m, x),
         NEW w, w = CopyOf(m, e, x)
  PROVE  Fields(w, e + n, s, z, Tgt(w, e + n, s, z))
<1> DEFINE O == Objs(m, e, s, z)
           New(a) == IF a = x THEN e ELSE a
<1>1. Layout(w, e + n, s, z) /\ Objs(w, e + n, s, z) = (O \ {x}) \cup {e} /\ x \in O
  BY CopyLayout, CopyIs DEF Above
<1>2. Tgt(m, e, s, z) \subseteq Tgt(w, e + n, s, z)
  BY CopyTargets
<1> SUFFICES ASSUME NEW b \in Objs(w, e + n, s, z)
             PROVE  /\ \A c \in Range(Slots(w, b)) : Value(w[c], Tgt(w, e + n, s, z))
                    /\ w[b].t = "tracker" => WeakValue(w[b + 1], Tgt(w, e + n, s, z))
  BY DEF Fields
<1>3. PICK a \in O : b = New(a)
  BY <1>1
<1>4. /\ w[b] = m[a] /\ w[b + 1] = m[a + 1] /\ AllocationSize(w, b) = AllocationSize(m, a)
      /\ \A i \in 0 .. AllocationSize(m, a) - 1 : w[b + i] = m[a + i]
  BY <1>3, CopyObjectsAre
<1>5. /\ a \in Nat /\ AllocationSize(m, a) = IF m[a].t = "box" THEN 3 ELSE 2
      /\ Range(Slots(m, a)) = IF m[a].t = "cell" THEN {a + 1} ELSE IF m[a].t = "box" THEN {a + 2} ELSE {}
  BY ObjectIs
<1>6. /\ b \in Nat
      /\ Range(Slots(w, b)) = IF w[b].t = "cell" THEN {b + 1} ELSE IF w[b].t = "box" THEN {b + 2} ELSE {}
  BY <1>1, ObjectIs
<1> HIDE DEF New
<1>7. ASSUME NEW c \in Range(Slots(w, b)) PROVE Value(w[c], Tgt(w, e + n, s, z))
  <2>1. CASE m[a].t = "cell"
    <3>1. c = b + 1 /\ a + 1 \in Range(Slots(m, a))
      BY <1>4, <1>5, <1>6, <2>1
    <3>2. Value(m[a + 1], Tgt(m, e, s, z))
      BY <3>1 DEF Fields
    <3> QED BY <1>2, <1>4, <3>1, <3>2 DEF Value
  <2>2. CASE m[a].t = "box"
    <3>1. c = b + 2 /\ a + 2 \in Range(Slots(m, a)) /\ 2 \in 0 .. AllocationSize(m, a) - 1
      BY <1>4, <1>5, <1>6, <2>2
    <3>2. Value(m[a + 2], Tgt(m, e, s, z))
      BY <3>1 DEF Fields
    <3>3. w[b + 2] = m[a + 2]
      BY <1>4, <3>1
    <3> QED BY <1>2, <3>1, <3>2, <3>3 DEF Value
  <2> QED BY <1>4, <1>6, <2>1, <2>2
<1>8. ASSUME w[b].t = "tracker" PROVE WeakValue(w[b + 1], Tgt(w, e + n, s, z))
  <2>1. WeakValue(m[a + 1], Tgt(m, e, s, z))
    BY <1>4, <1>8 DEF Fields
  <2> QED BY <1>2, <1>4, <2>1 DEF WeakValue
<1> QED BY <1>7, <1>8

(* ... the room below the nursery suffices for the objects not yet copied  *)
(* ...                                                                     *)
LEMMA CopyRoom ==
  ASSUME NEW m, NEW e, NEW s, NEW z, Layout(m, e, s, z), Room(m, e, s, z),
         NEW x \in Above(m, e, s, z), NEW n, n = AllocationSize(m, x),
         NEW w, w = CopyOf(m, e, x)
  PROVE  Room(w, e + n, s, z)
<1>1. /\ Objs(w, e + n, s, z) = (Objs(m, e, s, z) \ {x}) \cup {e}
      /\ s \in Nat /\ e \in Nat /\ e < x /\ e + n <= s /\ n \in {2, 3} /\ x \in Objs(m, e, s, z)
  BY CopyIs DEF Layout, Above
<1>2. Above(w, e + n, s, z) = Above(m, e, s, z) \ {x}
  BY <1>1 DEF Above
<1>3. ASSUME NEW a \in Above(m, e, s, z) \ {x} PROVE AllocationSize(w, a) = AllocationSize(m, a)
  <2>1. a \in Objs(m, e, s, z) /\ a # x
    BY DEF Above
  <2> QED BY <2>1, CopyObjectsAre
<1>4. Cover(w, Above(m, e, s, z) \ {x}) = Cover(m, Above(m, e, s, z) \ {x})
  BY <1>3 DEF Cover
<1>5. Cardinality(Cover(m, Above(m, e, s, z) \ {x})) <= s - (e + n)
  BY ObjectFits
<1> QED BY <1>2, <1>4, <1>5 DEF Room

(* ... the copies lie one behind the other ...                             *)
LEMMA CopyTiles ==
  ASSUME NEW m, NEW e, NEW s, NEW z, Layout(m, e, s, z), Room(m, e, s, z),
         NEW lo, Tiles(m, e, s, z, lo),
         NEW x \in Above(m, e, s, z), NEW n, n = AllocationSize(m, x),
         NEW w, w = CopyOf(m, e, x)
  PROVE  Tiles(w, e + n, s, z, lo)
<1> DEFINE O == Objs(m, e, s, z)
           P == Objs(w, e + n, s, z)
<1>1. /\ P = (O \ {x}) \cup {e}
      /\ s \in Nat /\ e \in Nat /\ e < x /\ e + n <= s /\ n \in {2, 3} /\ x \in O /\ s <= x
      /\ \A a \in O : a \in Nat
  BY CopyIs, ObjectIs DEF Layout, Above
<1>2. lo \in Nat /\ lo <= e /\ (lo = e \/ lo \in O)
  BY DEF Tiles
<1>3. lo <= e + n /\ lo \in P
  BY <1>1, <1>2
<1>4. ASSUME NEW a \in P, lo <= a, a < e + n
      PROVE  a + AllocationSize(w, a) = e + n \/ a + AllocationSize(w, a) \in P
  <2>1. CASE a = e
    <3>1. AllocationSize(w, e) = AllocationSize(m, x)
      BY <1>1, CopyObjectsAre
    <3> QED BY <2>1, <3>1
  <2>2. CASE a # e
    <3>1. a \in O /\ a # x /\ a < e
      BY <1>1, <1>4, <2>2 DEF Objs
    <3>2. AllocationSize(w, a) = AllocationSize(m, a)
      BY <3>1, CopyObjectsAre
    <3>3. a + AllocationSize(m, a) = e \/ a + AllocationSize(m, a) \in O
      BY <1>4, <3>1 DEF Tiles
    <3>4. AllocationSize(m, a) \in {2, 3} /\ a + AllocationSize(m, a) <= e
      BY <3>1, ObjectIs DEF Layout
    <3> QED BY <1>1, <3>1, <3>2, <3>3, <3>4
  <2> QED BY <2>1, <2>2
<1> QED BY <1>3, <1>4 DEF Tiles

(* ... and copying goes on from there.                                      *)
LEMMA CopyKeepsState ==
  ASSUME NEW m, NEW e, NEW s, NEW z, NEW lo, CopyState(m, e, s, z, lo),
         NEW x \in Above(m, e, s, z), NEW n, n = AllocationSize(m, x),
         NEW w, w = CopyOf(m, e, x)
  PROVE  CopyState(w, e + n, s, z, lo)
<1>1. Layout(m, e, s, z) /\ Room(m, e, s, z) /\ Fields(m, e, s, z, Tgt(m, e, s, z)) /\ Tiles(m, e, s, z, lo)
  BY DEF CopyState
<1>2. Layout(w, e + n, s, z)
  BY <1>1, CopyLayout
<1>3. Fields(w, e + n, s, z, Tgt(w, e + n, s, z))
  BY <1>1, CopyFields
<1>4. Room(w, e + n, s, z)
  BY <1>1, CopyRoom
<1>5. Tiles(w, e + n, s, z, lo)
  BY <1>1, CopyTiles
<1> QED BY <1>2, <1>3, <1>4, <1>5 DEF CopyState
-----------------------------------------------------------------------------
(* Copying nothing, and copying twice.                                      *)
LEMMA MovedNot ==
  ASSUME NEW m, NEW e \in Nat, NEW s, NEW z
  PROVE  Moved(m, e, m, e, s, z)
BY DEF Moved, SameObject

(* What has moved twice has moved.                                         *)
LEMMA MovedTwice ==
  ASSUME NEW m1, NEW e1 \in Nat, NEW m2, NEW e2 \in Nat, NEW m3, NEW e3 \in Nat, NEW s, NEW z,
         Moved(m1, e1, m2, e2, s, z), Moved(m2, e2, m3, e3, s, z),
         \A a \in Objs(m1, e1, s, z) : a \in Nat
  PROVE  Moved(m1, e1, m3, e3, s, z)
<1>1. e1 <= e3
  BY DEF Moved
<1>2. ASSUME NEW a \in Tgt(m1, e1, s, z)
      PROVE  /\ a \in Tgt(m3, e3, s, z)
             /\ SameObject(m1, Res(m1, s, a), m3, Res(m3, s, a))
             /\ Res(m1, s, a) < e1 => Res(m3, s, a) = Res(m1, s, a)
  <2>1. /\ a \in Tgt(m2, e2, s, z)
        /\ SameObject(m1, Res(m1, s, a), m2, Res(m2, s, a))
        /\ Res(m1, s, a) < e1 => Res(m2, s, a) = Res(m1, s, a)
    BY DEF Moved
  <2>2. /\ a \in Tgt(m3, e3, s, z)
        /\ SameObject(m2, Res(m2, s, a), m3, Res(m3, s, a))
        /\ Res(m2, s, a) < e2 => Res(m3, s, a) = Res(m2, s, a)
    BY <2>1 DEF Moved
  <2>3. Res(m1, s, a) < e1 => Res(m1, s, a) < e2
    <3>1. Res(m1, s, a) \in Nat
      BY DEF Tgt
    <3> QED BY <3>1 DEF Moved
  <2> QED BY <2>1, <2>2, <2>3 DEF SameObject
<1>3. ASSUME NEW b \in Objs(m3, e3, s, z) PROVE \E a \in Objs(m1, e1, s, z) : SameObject(m1, a, m3, b)
  <2>1. PICK c \in Objs(m2, e2, s, z) : SameObject(m2, c, m3, b)
    BY DEF Moved
  <2>2. PICK a \in Objs(m1, e1, s, z) : SameObject(m1, a, m2, c)
    BY DEF Moved
  <2>3. SameObject(m1, a, m3, b)
    BY <2>1, <2>2 DEF SameObject
  <2> QED BY <2>3
<1> QED BY <1>1, <1>2, <1>3 DEF Moved

(* A word leads below e, if it leads anywhere.                              *)
Clean(w, e) == w.k = "ref" => w.v < e

(* copy-object: the word it returns leads to where the object is now.       *)
Reached(w, u, m, e, s, z) ==
  /\ u \in WordType /\ Clean(u, e)
  /\ u.k = w.k
  /\ w.k = "ref" => u.v \in Objs(m, e, s, z) /\ u.v = Res(m, s, w.v)
  /\ w.k # "ref" => u = w

(* copy-object (core.stanza:2317), whether it copies, forwards or does     *)
(* nothing: the heap is one that copying goes on from, the words below its *)
(* end are as before and the word leads below that end.                    *)
LEMMA CopyObjectStep ==
  ASSUME NEW h, NEW s, NEW z, NEW lo, CopyState(h.mem, h.top, s, z, lo),
         NEW w \in WordType, Value(w, Tgt(h.mem, h.top, s, z)), NEW r, r = CopyObject(h, w)
  PROVE  /\ CopyState(r.mem, r.top, s, z, lo)
         /\ Moved(h.mem, h.top, r.mem, r.top, s, z)
         /\ \A c \in Cells : c < h.top => r.mem[c] = h.mem[c]
         /\ Reached(w, r.word, r.mem, r.top, s, z)
         /\ w.k = "ref" /\ ~(w.v < h.top) => ~(w.v < r.top)
<1> DEFINE m == h.mem
           e == h.top
<1>1. e \in Nat /\ s \in Nat /\ e <= s /\ m \in Memory
  BY DEF CopyState, Layout
<1>2. w.v \in Nat
  BY DEF WordType
<1>3. CASE w.k # "ref" \/ w.v < e
  <2>1. r = [mem |-> m, top |-> e, word |-> w]
    BY <1>3 DEF CopyObject
  <2>2. r.mem = m /\ r.top = e /\ r.word = w
    BY <2>1
  <2>3. Reached(w, w, m, e, s, z)
    <3>1. CASE w.k = "ref"
      <4>1. w.v \in Tgt(m, e, s, z) /\ w.v < e
        BY <1>3, <3>1 DEF Value
      <4>2. Res(m, s, w.v) = w.v
        BY <1>1, <1>2, <4>1 DEF Res
      <4>3. w.v \in Objs(m, e, s, z)
        BY <4>1, <4>2 DEF Tgt
      <4> QED BY <3>1, <4>1, <4>2, <4>3 DEF Reached, Clean
    <3> QED BY <1>3, <3>1 DEF Reached, Clean
  <2> QED BY <1>1, <1>3, <2>2, <2>3, MovedNot
<1>4. ASSUME w.k = "ref", ~(w.v < e)
      PROVE  /\ w.v \in Tgt(m, e, s, z) /\ s <= w.v /\ w.v < z /\ w.v \in Cells
             /\ Res(m, s, w.v) \in Objs(m, e, s, z)
  BY <1>4 DEF Value, Tgt
<1>5. CASE w.k = "ref" /\ ~(w.v < e) /\ Forwarded(m, w.v)
  <2>1. r = [mem |-> m, top |-> e, word |-> m[w.v]]
    BY <1>5 DEF CopyObject, Updated
  <2>2. r.mem = m /\ r.top = e /\ r.word = m[w.v]
    BY <2>1
  <2>3. m[w.v].k = "ref" /\ m[w.v].v = Res(m, s, w.v)
    BY <1>4, <1>5 DEF Forwarded, Res
  <2>4. m[w.v].v < e
    <3>1. Res(m, s, w.v) # w.v
      BY <1>4, <1>5, <2>3 DEF Objs
    <3> QED BY <1>4, <1>5, <2>3, <3>1 DEF Tgt
  <2>5. m[w.v] \in WordType
    BY <1>1, <1>4, <1>5 DEF Memory
  <2>6. Reached(w, m[w.v], m, e, s, z)
    BY <1>4, <1>5, <2>3, <2>4, <2>5 DEF Reached, Clean
  <2> QED BY <1>1, <1>5, <2>2, <2>6, MovedNot
<1>6. CASE w.k = "ref" /\ ~(w.v < e) /\ ~Forwarded(m, w.v)
  <2> DEFINE x == w.v
             n == AllocationSize(m, x)
             copy == CopyOf(m, e, x)
  <2>1. r = [mem |-> copy, top |-> e + n, word |-> Ref(e)]
    BY <1>6 DEF CopyObject, CopyOf
  <2>2. r.mem = copy /\ r.top = e + n /\ r.word = Ref(e)
    BY <2>1
  <2>3. Res(m, s, x) = x /\ x \in Above(m, e, s, z)
    <3>1. Res(m, s, x) = x
      BY <1>6 DEF Forwarded, Res
    <3> QED BY <1>4, <1>6, <3>1 DEF Above
  <2>4. Layout(m, e, s, z) /\ Room(m, e, s, z)
    BY DEF CopyState
  <2>5. /\ n \in {2, 3} /\ e < x /\ e + n <= s /\ copy[x] = Ref(e)
        /\ \A c \in Cells : (c < e \/ e + n <= c) /\ c # x => copy[c] = m[c]
    BY <2>3, <2>4, CopyIs
  <2>6. CopyState(copy, e + n, s, z, lo)
    BY <2>3, CopyKeepsState
  <2>7. Moved(m, e, copy, e + n, s, z)
    BY <2>3, <2>4, CopyMoves
  <2>8. Res(copy, s, x) = e /\ e \in Objs(copy, e + n, s, z)
    <3>1. x \in Objs(m, e, s, z)
      BY <2>3 DEF Above
    <3> QED BY <2>3, <2>4, <3>1, CopyObjectsAre
  <2>9. Reached(w, Ref(e), copy, e + n, s, z)
    <3>1. Ref(e) \in WordType
      BY <1>1 DEF Ref, WordType
    <3>2. e < e + n
      BY <1>1, <2>5
    <3> HIDE DEF n, copy
    <3> QED BY <1>6, <2>8, <3>1, <3>2, RefIs DEF Reached, Clean
  <2>10. \A c \in Cells : c < e => copy[c] = m[c]
    BY <1>1, <2>5 DEF Cells
  <2>11. ~(x < e + n)
    BY <1>1, <1>2, <1>4, <1>6, <2>5
  <2> HIDE DEF n, copy
  <2> QED BY <2>2, <2>6, <2>7, <2>9, <2>10, <2>11
<1> QED BY <1>3, <1>5, <1>6
-----------------------------------------------------------------------------
(* An assignment to a slot of an object changes that word, no object.       *)
SlotSet(m, e, s, z, T, a, c, u, w) ==
  /\ Layout(w, e, s, z) /\ Fields(w, e, s, z, T)
  /\ Objs(w, e, s, z) = Objs(m, e, s, z)
  /\ \A b \in Objs(m, e, s, z) :
       w[b] = m[b] /\ AllocationSize(w, b) = AllocationSize(m, b) /\ Slots(w, b) = Slots(m, b)
       /\ (m[b].t = "tracker" => w[b + 1] = m[b + 1])
  /\ c \in Cells /\ w[c] = u /\ \A x \in Cells : x # c => w[x] = m[x]
  /\ m[c].k # "hdr" /\ (a < e => c < e)

(* A slot of an object is given another word that leads to an object.      *)
LEMMA SetSlot ==
  ASSUME NEW m, NEW e, NEW s, NEW z, Layout(m, e, s, z), NEW a \in Objs(m, e, s, z),
         NEW c \in Range(Slots(m, a)), NEW T, Fields(m, e, s, z, T),
         NEW u \in WordType, Value(u, T), NEW w, w = [m EXCEPT ![c] = u]
  PROVE  SlotSet(m, e, s, z, T, a, c, u, w)
<1> DEFINE O == Objs(m, e, s, z)
<1>1. /\ e \in Nat /\ s \in Nat /\ z \in Nat /\ m \in Memory
  BY DEF Layout
<1>2. /\ c \in Cells /\ a < c /\ c < a + AllocationSize(m, a) /\ a \in Nat /\ AllocationSize(m, a) \in {2, 3}
      /\ m[a].t \in {"cell", "box"}
  BY ObjectIs DEF AllTypes
<1>3. c \notin O /\ m[c].k # "hdr" /\ (a < e <=> c < e)
  <2>1. c \in Nat
    BY <1>2 DEF Cells
  <2> QED BY <1>2, <2>1, NoneInside
<1>4. w[c] = u /\ \A x \in Cells : x # c => w[x] = m[x]
  BY <1>1, <1>2 DEF Memory
<1>5. w \in Memory
  BY <1>1 DEF Memory
<1>6. u.k # "hdr"
  BY DEF Value
<1>7. Objs(w, e, s, z) = O
  BY <1>3, <1>4, <1>6 DEF Objs
<1>8. ASSUME NEW b \in O
      PROVE  /\ w[b] = m[b] /\ AllocationSize(w, b) = AllocationSize(m, b) /\ Slots(w, b) = Slots(m, b)
             /\ (m[b].t = "tracker" => w[b + 1] = m[b + 1])
  <2>1. w[b] = m[b]
    BY <1>3, <1>4 DEF Objs
  <2>2. m[b].t = "tracker" => w[b + 1] = m[b + 1]
    <3> SUFFICES ASSUME m[b].t = "tracker" PROVE b + 1 \in Cells /\ b + 1 # c
      BY <1>4
    <3>1. b \in Nat /\ AllocationSize(m, b) \in {2, 3} /\ b + 1 \in Cells /\ a # b
      BY <1>2, ObjectIs
    <3>2. a + AllocationSize(m, a) <= b \/ b + AllocationSize(m, b) <= a
      BY <1>2, <3>1 DEF Layout
    <3> QED BY <1>2, <3>1, <3>2
  <2> QED BY <2>1, <2>2 DEF AllocationSize, Slots
<1>9. Layout(w, e, s, z)
  BY <1>5, <1>7, <1>8 DEF Layout
<1>10. Fields(w, e, s, z, T)
  <2> SUFFICES ASSUME NEW b \in O
               PROVE  /\ \A x \in Range(Slots(w, b)) : Value(w[x], T)
                      /\ w[b].t = "tracker" => WeakValue(w[b + 1], T)
    BY <1>7 DEF Fields
  <2>1. \A x \in Range(Slots(m, b)) : Value(m[x], T) /\ x \in Cells
    BY ObjectIs DEF Fields
  <2>2. m[b].t = "tracker" => WeakValue(m[b + 1], T)
    BY DEF Fields
  <2> QED BY <1>4, <1>8, <2>1, <2>2
<1> QED BY <1>2, <1>3, <1>4, <1>7, <1>8, <1>9, <1>10 DEF SlotSet

(* While objects are copied the slots below e can be assigned to.           *)
CopiedSlotSet(m, e, s, z, lo, c, u, w) ==
  /\ CopyState(w, e, s, z, lo)
  /\ Moved(m, e, w, e, s, z)
  /\ c < e /\ c \in Cells /\ w[c] = u /\ \A x \in Cells : x # c => w[x] = m[x]
  /\ Tgt(w, e, s, z) = Tgt(m, e, s, z)

(* The same when objects have been copied, and the slot is that of a copy  *)
(* or an old object.                                                       *)
LEMMA SetCopiedSlot ==
  ASSUME NEW m, NEW e, NEW s, NEW z, NEW lo, CopyState(m, e, s, z, lo),
         NEW a \in Objs(m, e, s, z), a < e,
         NEW c \in Range(Slots(m, a)),
         NEW u \in WordType, Value(u, Tgt(m, e, s, z)), NEW w, w = [m EXCEPT ![c] = u]
  PROVE  CopiedSlotSet(m, e, s, z, lo, c, u, w)
<1>1. /\ Layout(m, e, s, z) /\ Fields(m, e, s, z, Tgt(m, e, s, z))
      /\ Room(m, e, s, z) /\ Tiles(m, e, s, z, lo)
  BY DEF CopyState
<1> DEFINE T == Tgt(m, e, s, z)
<1> HIDE DEF T
<1>21. Fields(m, e, s, z, T) /\ Value(u, T)
  BY <1>1 DEF T
<1>22. SlotSet(m, e, s, z, T, a, c, u, w)
  BY <1>1, <1>21, SetSlot
<1>2. /\ Layout(w, e, s, z) /\ Fields(w, e, s, z, Tgt(m, e, s, z))
      /\ Objs(w, e, s, z) = Objs(m, e, s, z)
      /\ \A b \in Objs(m, e, s, z) :
              w[b] = m[b] /\ AllocationSize(w, b) = AllocationSize(m, b) /\ Slots(w, b) = Slots(m, b)
              /\ (m[b].t = "tracker" => w[b + 1] = m[b + 1])
      /\ c \in Cells /\ w[c] = u /\ \A x \in Cells : x # c => w[x] = m[x]
      /\ (a < e => c < e)
  BY <1>22 DEF T, SlotSet
<1>9. c < e
  BY <1>2
<1>3. \A x \in Cells : Res(w, s, x) = Res(m, s, x)
  <2>1. e \in Nat /\ s \in Nat /\ e <= s
    BY <1>1 DEF Layout
  <2>2. ASSUME NEW x \in Cells, s <= x PROVE w[x] = m[x]
    <3>1. x # c
      BY <1>2, <1>9, <2>1, <2>2 DEF Cells
    <3> QED BY <1>2, <3>1
  <2> QED BY <2>2 DEF Res
<1>4. Tgt(w, e, s, z) = Tgt(m, e, s, z)
  BY <1>2, <1>3 DEF Tgt
<1>5. Room(w, e, s, z)
  <2>1. Above(w, e, s, z) = Above(m, e, s, z) /\ Above(m, e, s, z) \subseteq Objs(m, e, s, z)
    BY <1>2 DEF Above
  <2>2. Cover(w, Above(m, e, s, z)) = Cover(m, Above(m, e, s, z))
    BY <1>2, <2>1 DEF Cover
  <2> QED BY <1>1, <2>1, <2>2 DEF Room
<1>6. Tiles(w, e, s, z, lo)
  BY <1>1, <1>2 DEF Tiles
<1>7. Moved(m, e, w, e, s, z)
  <2>1. e <= e
    BY <1>1 DEF Layout
  <2>2. ASSUME NEW x \in Tgt(m, e, s, z)
        PROVE  Res(m, s, x) \in Objs(m, e, s, z) /\ Res(w, s, x) = Res(m, s, x)
    BY <1>3 DEF Tgt
  <2>3. \A b \in Objs(m, e, s, z) : SameObject(m, b, w, b)
    BY <1>2 DEF SameObject
  <2> QED BY <1>2, <1>4, <2>1, <2>2, <2>3 DEF Moved
<1>8. CopyState(w, e, s, z, lo)
  BY <1>2, <1>4, <1>5, <1>6 DEF CopyState
<1> QED BY <1>2, <1>3, <1>4, <1>7, <1>8, <1>9 DEF CopiedSlotSet

(* An object below e stays where it is.                                     *)
LEMMA MovedBelow ==
  ASSUME NEW m, NEW e, NEW n, NEW f, NEW s, NEW z, Layout(m, e, s, z), Moved(m, e, n, f, s, z),
         NEW a \in Objs(m, e, s, z), a < e
  PROVE  /\ a \in Tgt(m, e, s, z) /\ Res(m, s, a) = a /\ Res(n, s, a) = a /\ a \in Objs(n, f, s, z)
         /\ n[a] = m[a] /\ AllocationSize(n, a) = AllocationSize(m, a) /\ Slots(n, a) = Slots(m, a)
         /\ m[a].t = "tracker" => n[a + 1] = m[a + 1]
         /\ a < f
<1>1. a \in Nat /\ a \in Cells /\ e \in Nat /\ s \in Nat /\ e <= s
  BY ObjectIs DEF Layout
<1>2. Res(m, s, a) = a /\ a \in Tgt(m, e, s, z)
  <2>1. Res(m, s, a) = a
    BY <1>1 DEF Res
  <2> QED BY <1>1, <2>1 DEF Tgt
<1>3. Res(n, s, a) = a /\ a \in Tgt(n, f, s, z) /\ SameObject(m, a, n, a)
  BY <1>2 DEF Moved
<1>4. a \in Objs(n, f, s, z)
  BY <1>3 DEF Tgt
<1>5. a < f
  BY <1>1, <1>3, <1>4 DEF Objs, Tgt
<1> QED BY <1>2, <1>3, <1>4, <1>5 DEF SameObject, AllocationSize, Slots
-----------------------------------------------------------------------------
(* The heap while the program runs, and before and after a collection.      *)
Lists(list, A, s) ==
  /\ list \in Seq(Cells) /\ Range(list) = A
  /\ \A i, j \in DOMAIN list : i < j => list[i] # list[j] /\ (s <= list[j] => s <= list[i])

StacksIn(m, e, s, z) == {a \in Objs(m, e, s, z) : m[a].t = "stack"}
WeakIn(m, e, s, z) == {a \in Objs(m, e, s, z) : m[a].t = "tracker" /\ m[a + 1].k = "weak"}
NamesOf(m, A) == {m[a].v : a \in A}

Heap1(m, e, s, z) == Layout(m, e, s, z) /\ Fields(m, e, s, z, Objs(m, e, s, z))
WordsIn(w, D, T) ==
  /\ w = [x \in D |-> w[x]]
  /\ \A x \in D : w[x] \in WordType /\ Value(w[x], T)
OldTrackers(m, e, s, z) == \A a \in WeakIn(m, e, s, z) : a < e => m[a + 1].v < e
BitsIn(B, m, A) == \A c \in B : \E a \in A : c \in Range(Slots(m, a))
Barriers(B, m, e, s, z) ==
  \A a \in Objs(m, e, s, z) : a < e => \A c \in Range(Slots(m, a)) :
     m[c].k = "ref" /\ e <= m[c].v => c \in B

Program1(m, e, s, z, v, f, st, tr, B) ==
  /\ Heap1(m, e, s, z)
  /\ WordsIn(v, Roots, Objs(m, e, s, z)) /\ v[CurrentStack].k = "ref" /\ m[v[CurrentStack].v].t = "stack"
  /\ WordsIn(f, NamesOf(m, StacksIn(m, e, s, z)), Objs(m, e, s, z))
  /\ Lists(st, StacksIn(m, e, s, z), s)
  /\ Lists(tr, WeakIn(m, e, s, z), s)
  /\ OldTrackers(m, e, s, z)
  /\ BitsIn(B, m, Objs(m, e, s, z))

Copying == {"remembered", "roots", "oldStacks", "scan", "unreachable"}
Start1 == IF phase = "evacuated" THEN limit ELSE NurseryStart(limit, oldEnd)

Numbers ==
  /\ size \in 1 .. MaxSize /\ sizeLimit \in 0 .. MaxSize /\ limit \in 0 .. size
  /\ oldEnd \in 0 .. limit /\ top \in 0 .. limit
  /\ p \in 0 .. MaxSize /\ from \in 0 .. MaxSize
  /\ allocated \in 1 .. MaxObjects
  /\ request.size \in Nat

(* What a collection leaves its request with: room, or a heap that has no   *)
(* more to give.                                                            *)
Served == Enough(request.size)
Beyond == size >= sizeLimit \/ request.size >= MaxSize

RunInv ==
  /\ liveStacks = << >>
  /\ Program1(mem, oldEnd, Start1, limit, var, frame, stacks, trackers, bits)
  /\ phase # "evacuated" =>
       /\ Start1 <= top
       /\ \A a \in Objs(mem, oldEnd, Start1, limit) : Start1 <= a => a + AllocationSize(mem, a) <= top
  /\ phase = "evacuated" => top = oldEnd /\ oldEnd <= from
  /\ phase \in {"run", "collected"} => Barriers(bits, mem, oldEnd, Start1, limit)
  /\ phase = "collected" => Served \/ Beyond
  /\ phase = "fatal" => Beyond
-----------------------------------------------------------------------------
(* The heap while the nursery is evacuated.                                 *)
NameOf(m, s, a) == m[Res(m, s, a)].v
Listed(m, e, s, z, list) ==
  /\ list \in Seq(Cells)
  /\ \A i \in DOMAIN list : list[i] \in Tgt(m, e, s, z)
  /\ \A i, j \in DOMAIN list : i # j => NameOf(m, s, list[i]) # NameOf(m, s, list[j])
YoungFirst(list, s) == \A i, j \in DOMAIN list : i < j /\ s <= list[j] => s <= list[i]

StacksListed(m, e, s, z, st, ls) ==
  /\ Listed(m, e, s, z, st) /\ Listed(m, e, s, z, ls)
  /\ \A i \in DOMAIN st, j \in DOMAIN ls : NameOf(m, s, st[i]) # NameOf(m, s, ls[j])
  /\ \A a \in Range(st) \cup Range(ls) : m[Res(m, s, a)].t = "stack"
  /\ \A b \in StacksIn(m, e, s, z) : \E a \in Range(st) \cup Range(ls) : NameOf(m, s, a) = m[b].v

TrackersListed(m, e, s, z, tr) ==
  /\ Listed(m, e, s, z, tr) /\ YoungFirst(tr, s)
  /\ \A a \in Range(tr) : /\ m[Res(m, s, a)].t = "tracker" /\ m[Res(m, s, a) + 1].k = "weak"
                          /\ a < s => m[a + 1].v < s
  /\ \A b \in WeakIn(m, e, s, z) : \E a \in Range(tr) : NameOf(m, s, a) = m[b].v

CleanTo(m, e, s, z, q, B) ==
  \A a \in Objs(m, e, s, z) : a < q => \A c \in Range(Slots(m, a)) : Clean(m[c], e) \/ c \in B

CopyInv ==
  /\ CopyState(mem, top, from, limit, oldEnd) /\ from <= limit
  /\ WordsIn(var, Roots, Tgt(mem, top, from, limit))
  /\ var[CurrentStack].k = "ref" /\ mem[Res(mem, from, var[CurrentStack].v)].t = "stack"
  /\ WordsIn(frame, NamesOf(mem, StacksIn(mem, top, from, limit)), Tgt(mem, top, from, limit))
  /\ StacksListed(mem, top, from, limit, stacks, liveStacks)
  /\ TrackersListed(mem, top, from, limit, trackers)
  /\ BitsIn(bits, mem, {a \in Objs(mem, top, from, limit) : a < oldEnd})
  /\ CleanTo(mem, top, from, limit, IF phase = "scan" THEN p ELSE oldEnd,
             IF phase = "remembered" THEN {c \in bits : p <= c} ELSE {})
  /\ phase \in {"remembered", "roots", "oldStacks"} => liveStacks = << >> /\ YoungFirst(stacks, from)
  /\ phase \notin {"remembered", "roots"} => \A r \in Roots : Clean(var[r], top)
  /\ phase \in {"scan", "unreachable"} =>
       /\ \A i \in DOMAIN stacks : from <= stacks[i]
       /\ \A i \in DOMAIN liveStacks : liveStacks[i] < top /\ Clean(frame[mem[liveStacks[i]].v], top)
  /\ phase = "scan" => oldEnd <= p /\ (p = top \/ (p < top /\ p \in Objs(mem, top, from, limit)))
  /\ phase = "unreachable" => oldEnd = top /\ \A i \in DOMAIN stacks : ~Forwarded(mem, stacks[i])

Inv ==
  /\ Numbers /\ phase \in Copying \cup {"run", "full", "collected", "fatal", "evacuated"}
  /\ IF phase \in Copying THEN CopyInv ELSE RunInv

(* The requests that wait for their notifiers.                              *)
PendingOK == pending \in Seq(Nat)
-----------------------------------------------------------------------------
(* A word below e changes to one that leads below f, if it does; no object  *)
(* begins in it.                                                            *)
Rewritten(m, e, n, f) ==
  \A c \in Cells : c < e =>
    n[c] = m[c] \/ (Clean(n[c], f) /\ n[c].k # "hdr" /\ m[c].k # "hdr")
Step(m, e, n, f, s, z, lo) ==
  CopyState(n, f, s, z, lo) /\ Moved(m, e, n, f, s, z) /\ Rewritten(m, e, n, f)

(* What a copied heap is.                                                   *)
LEMMA CopyStateIs ==
  ASSUME NEW m, NEW e, NEW s, NEW z, NEW lo, CopyState(m, e, s, z, lo)
  PROVE  /\ Layout(m, e, s, z) /\ e \in Nat /\ s \in Nat /\ z \in Nat /\ lo \in Nat
         /\ lo <= e /\ e <= s /\ s <= z /\ z <= MaxSize /\ m \in Memory
         /\ \A a \in Objs(m, e, s, z) : a \in Nat
BY ObjectIs DEF CopyState, Layout, Tiles

(* No copying, and copying after copying.                                   *)
LEMMA StepNot ==
  ASSUME NEW m, NEW e, NEW s, NEW z, NEW lo, CopyState(m, e, s, z, lo)
  PROVE  Step(m, e, m, e, s, z, lo)
BY CopyStateIs, MovedNot DEF Step, Rewritten

(* Copying after copying is copying.                                       *)
LEMMA StepTwice ==
  ASSUME NEW m1, NEW e1, NEW m2, NEW e2, NEW m3, NEW e3, NEW s, NEW z, NEW lo,
         CopyState(m1, e1, s, z, lo),
         Step(m1, e1, m2, e2, s, z, lo), Step(m2, e2, m3, e3, s, z, lo)
  PROVE  Step(m1, e1, m3, e3, s, z, lo)
<1>1. e1 \in Nat /\ e2 \in Nat /\ e3 \in Nat /\ e1 <= e2 /\ e2 <= e3 /\ \A a \in Objs(m1, e1, s, z) : a \in Nat
  BY CopyStateIs DEF Step, Moved
<1>2. Moved(m1, e1, m3, e3, s, z)
  BY <1>1, MovedTwice DEF Step
<1>3. ASSUME NEW c \in Cells, c < e1
      PROVE  m3[c] = m1[c] \/ (Clean(m3[c], e3) /\ m3[c].k # "hdr" /\ m1[c].k # "hdr")
  <2>1. c < e2 /\ c \in Nat
    BY <1>1, <1>3 DEF Cells
  <2>2. m2[c] = m1[c] \/ (Clean(m2[c], e2) /\ m2[c].k # "hdr" /\ m1[c].k # "hdr")
    BY <1>3 DEF Step, Rewritten
  <2>3. m3[c] = m2[c] \/ (Clean(m3[c], e3) /\ m3[c].k # "hdr" /\ m2[c].k # "hdr")
    BY <2>1 DEF Step, Rewritten
  <2>4. CASE m3[c] = m2[c] /\ m2[c] # m1[c]
    <3>1. Clean(m2[c], e2) /\ m2[c].k # "hdr" /\ m1[c].k # "hdr"
      BY <2>2, <2>4
    <3>2. m2[c].k = "ref" => m2[c].v \in Nat
      <4>1. m2[c] \in WordType
        BY CopyStateIs DEF Step, Memory
      <4> QED BY <4>1 DEF WordType
    <3> QED BY <1>1, <2>4, <3>1, <3>2 DEF Clean
  <2> QED BY <2>2, <2>3, <2>4
<1> QED BY <1>2, <1>3 DEF Step, Rewritten

(* What led to an object does so afterwards.                                *)
LEMMA MovedWords ==
  ASSUME NEW m, NEW e, NEW n, NEW f, NEW s, NEW z, Moved(m, e, n, f, s, z),
         NEW w, NEW D, WordsIn(w, D, Tgt(m, e, s, z))
  PROVE  WordsIn(w, D, Tgt(n, f, s, z))
<1>1. Tgt(m, e, s, z) \subseteq Tgt(n, f, s, z)
  BY DEF Moved
<1> QED BY <1>1 DEF WordsIn, Value

(* The lists.                                                               *)
LEMMA MovedListed ==
  ASSUME NEW m, NEW e, NEW n, NEW f, NEW s, NEW z, Moved(m, e, n, f, s, z),
         NEW list, Listed(m, e, s, z, list)
  PROVE  /\ Listed(n, f, s, z, list)
         /\ \A i \in DOMAIN list : /\ NameOf(n, s, list[i]) = NameOf(m, s, list[i])
                                   /\ n[Res(n, s, list[i])] = m[Res(m, s, list[i])]
<1>1. ASSUME NEW i \in DOMAIN list
      PROVE  list[i] \in Tgt(n, f, s, z) /\ n[Res(n, s, list[i])] = m[Res(m, s, list[i])]
  <2>1. list[i] \in Tgt(m, e, s, z)
    BY DEF Listed
  <2> QED BY <2>1 DEF Moved, SameObject
<1>2. \A i \in DOMAIN list : NameOf(n, s, list[i]) = NameOf(m, s, list[i])
  BY <1>1 DEF NameOf
<1>3. Listed(n, f, s, z, list)
  BY <1>1, <1>2 DEF Listed
<1> QED BY <1>1, <1>2, <1>3

(* The stacks and their names.                                              *)
LEMMA MovedStacks ==
  ASSUME NEW m, NEW e, NEW n, NEW f, NEW s, NEW z, Moved(m, e, n, f, s, z),
         NEW st, NEW ls, StacksListed(m, e, s, z, st, ls)
  PROVE  StacksListed(n, f, s, z, st, ls)
<1>1. /\ Listed(n, f, s, z, st) /\ Listed(n, f, s, z, ls)
      /\ \A i \in DOMAIN st : /\ NameOf(n, s, st[i]) = NameOf(m, s, st[i])
                              /\ n[Res(n, s, st[i])] = m[Res(m, s, st[i])]
      /\ \A i \in DOMAIN ls : /\ NameOf(n, s, ls[i]) = NameOf(m, s, ls[i])
                              /\ n[Res(n, s, ls[i])] = m[Res(m, s, ls[i])]
  BY MovedListed DEF StacksListed
<1>2. \A a \in Range(st) \cup Range(ls) :
        /\ NameOf(n, s, a) = NameOf(m, s, a) /\ n[Res(n, s, a)] = m[Res(m, s, a)]
  BY <1>1 DEF Range
<1>3. ASSUME NEW b \in StacksIn(n, f, s, z)
      PROVE  \E a \in Range(st) \cup Range(ls) : NameOf(n, s, a) = n[b].v
  <2>1. b \in Objs(n, f, s, z) /\ n[b].t = "stack"
    BY DEF StacksIn
  <2>2. PICK c \in Objs(m, e, s, z) : SameObject(m, c, n, b)
    BY <2>1 DEF Moved
  <2>3. n[b] = m[c] /\ c \in StacksIn(m, e, s, z)
    BY <2>1, <2>2 DEF SameObject, StacksIn
  <2>4. PICK a \in Range(st) \cup Range(ls) : NameOf(m, s, a) = m[c].v
    BY <2>3 DEF StacksListed
  <2> QED BY <1>2, <2>3, <2>4
<1>4. \A i \in DOMAIN st, j \in DOMAIN ls : NameOf(n, s, st[i]) # NameOf(n, s, ls[j])
  BY <1>1 DEF StacksListed
<1>5. \A a \in Range(st) \cup Range(ls) : n[Res(n, s, a)].t = "stack"
  BY <1>2 DEF StacksListed
<1> QED BY <1>1, <1>3, <1>4, <1>5 DEF StacksListed

(* No stack gains or loses its name.                                       *)
LEMMA MovedNames ==
  ASSUME NEW m, NEW e, NEW n, NEW f, NEW s, NEW z, Moved(m, e, n, f, s, z), Layout(m, e, s, z)
  PROVE  NamesOf(n, StacksIn(n, f, s, z)) = NamesOf(m, StacksIn(m, e, s, z))
<1>1. ASSUME NEW b \in StacksIn(n, f, s, z) PROVE n[b].v \in NamesOf(m, StacksIn(m, e, s, z))
  <2>1. PICK c \in Objs(m, e, s, z) : SameObject(m, c, n, b)
    BY DEF Moved, StacksIn
  <2> QED BY <2>1 DEF SameObject, StacksIn, NamesOf
<1>2. ASSUME NEW a \in StacksIn(m, e, s, z) PROVE m[a].v \in NamesOf(n, StacksIn(n, f, s, z))
  <2>1. a \in Objs(m, e, s, z)
    BY DEF StacksIn
  <2>2. a \in Tgt(m, e, s, z) /\ Res(m, s, a) = a
    <3>1. Res(m, s, a) = a
      BY <2>1 DEF Res, Objs
    <3> QED BY <2>1, <3>1 DEF Tgt, Objs
  <2>3. Res(n, s, a) \in Objs(n, f, s, z) /\ n[Res(n, s, a)] = m[a]
    BY <2>2 DEF Moved, SameObject, Tgt
  <2> QED BY <2>3 DEF StacksIn, NamesOf
<1> QED BY <1>1, <1>2 DEF NamesOf

(* The trackers, and the values of the old ones.                            *)
LEMMA MovedTrackers ==
  ASSUME NEW m, NEW e, NEW n, NEW f, NEW s, NEW z, Moved(m, e, n, f, s, z), Layout(m, e, s, z),
         NEW tr, TrackersListed(m, e, s, z, tr)
  PROVE  TrackersListed(n, f, s, z, tr)
<1>1. /\ Listed(m, e, s, z, tr) /\ Listed(n, f, s, z, tr)
      /\ \A i \in DOMAIN tr : /\ NameOf(n, s, tr[i]) = NameOf(m, s, tr[i])
                              /\ n[Res(n, s, tr[i])] = m[Res(m, s, tr[i])]
  BY MovedListed DEF TrackersListed
<1>2. \A a \in Range(tr) : /\ a \in Tgt(m, e, s, z) /\ NameOf(n, s, a) = NameOf(m, s, a)
                           /\ n[Res(n, s, a)] = m[Res(m, s, a)]
  BY <1>1 DEF Range, Listed
<1>3. ASSUME NEW a \in Range(tr)
      PROVE  /\ n[Res(n, s, a)].t = "tracker" /\ n[Res(n, s, a) + 1].k = "weak"
             /\ a < s => n[a + 1].v < s
  <2>1. /\ m[Res(m, s, a)].t = "tracker" /\ m[Res(m, s, a) + 1].k = "weak"
        /\ a < s => m[a + 1].v < s
    BY DEF TrackersListed
  <2>2. SameObject(m, Res(m, s, a), n, Res(n, s, a))
    BY <1>2 DEF Moved
  <2>3. n[Res(n, s, a)].t = "tracker" /\ n[Res(n, s, a) + 1].k = "weak"
    BY <2>1, <2>2 DEF SameObject
  <2>4. ASSUME a < s PROVE n[a + 1].v < s
    <3>1. a \in Cells /\ e \in Nat /\ s \in Nat /\ e <= s
      BY <1>2 DEF Tgt, Layout
    <3>2. a < e /\ Res(m, s, a) = a /\ Res(n, s, a) = a
      BY <1>2, <2>4, <3>1 DEF Tgt, Res, Cells
    <3> QED BY <2>1, <2>2, <2>4, <3>2 DEF SameObject
  <2> QED BY <2>3, <2>4
<1>4. ASSUME NEW b \in WeakIn(n, f, s, z) PROVE \E a \in Range(tr) : NameOf(n, s, a) = n[b].v
  <2>1. b \in Objs(n, f, s, z) /\ n[b].t = "tracker" /\ n[b + 1].k = "weak"
    BY DEF WeakIn
  <2>2. PICK c \in Objs(m, e, s, z) : SameObject(m, c, n, b)
    BY <2>1 DEF Moved
  <2>3. n[b] = m[c] /\ c \in WeakIn(m, e, s, z)
    BY <2>1, <2>2 DEF SameObject, WeakIn
  <2>4. PICK a \in Range(tr) : NameOf(m, s, a) = m[c].v
    BY <2>3 DEF TrackersListed
  <2> QED BY <1>2, <2>3, <2>4
<1>5. YoungFirst(tr, s)
  BY DEF TrackersListed
<1> QED BY <1>1, <1>3, <1>4, <1>5 DEF TrackersListed

(* The remembered slots, and the slots that lead below e.                   *)
LEMMA MovedBits ==
  ASSUME NEW m, NEW e, NEW n, NEW f, NEW s, NEW z, Moved(m, e, n, f, s, z), Layout(m, e, s, z),
         NEW q \in Nat, q <= e, NEW B,
         BitsIn(B, m, {a \in Objs(m, e, s, z) : a < q})
  PROVE  BitsIn(B, n, {a \in Objs(n, f, s, z) : a < q})
<1> SUFFICES ASSUME NEW c \in B PROVE \E a \in {a \in Objs(n, f, s, z) : a < q} : c \in Range(Slots(n, a))
  BY DEF BitsIn
<1>1. PICK a \in Objs(m, e, s, z) : a < q /\ c \in Range(Slots(m, a))
  BY DEF BitsIn
<1>2. a < e
  BY <1>1, ObjectIs DEF Layout
<1>3. a \in Objs(n, f, s, z) /\ Slots(n, a) = Slots(m, a)
  BY <1>2, MovedBelow
<1> QED BY <1>1, <1>3

(* Slots that have been rewritten lead below e as they did.                *)
LEMMA RewrittenClean ==
  ASSUME NEW m, NEW e, NEW n, NEW f, NEW s, NEW z, NEW lo, CopyState(m, e, s, z, lo),
         Step(m, e, n, f, s, z, lo),
         NEW q \in Nat, q <= e, NEW B, CleanTo(m, e, s, z, q, B)
  PROVE  CleanTo(n, f, s, z, q, B)
<1>0. /\ Layout(m, e, s, z) /\ e \in Nat /\ f \in Nat /\ e <= f /\ s \in Nat /\ e <= s
      /\ \A a \in Objs(m, e, s, z) : a \in Nat
      /\ \A a \in Objs(n, f, s, z) : a \in Nat
      /\ m \in Memory
  BY CopyStateIs DEF Step, Moved
<1> SUFFICES ASSUME NEW a \in Objs(n, f, s, z), a < q, NEW c \in Range(Slots(n, a))
             PROVE  Clean(n[c], f) \/ c \in B
  BY DEF CleanTo
<1>1. a \in Objs(m, e, s, z) /\ a < e
  <2>1. a \in Cells /\ n[a].k = "hdr" /\ a < e
    BY <1>0 DEF Objs
  <2>2. n[a] = m[a]
    BY <2>1 DEF Step, Rewritten
  <2> QED BY <2>1, <2>2 DEF Objs
<1>2. Slots(n, a) = Slots(m, a)
  BY <1>0, <1>1, MovedBelow DEF Step
<1>3. c \in Cells /\ c < e
  <2>1. c \in Cells /\ c < a + AllocationSize(m, a) /\ AllocationSize(m, a) \in {2, 3}
    BY <1>0, <1>1, <1>2, ObjectIs
  <2>2. a + AllocationSize(m, a) <= e
    BY <1>0, <1>1 DEF Layout
  <2> QED BY <1>0, <2>1, <2>2 DEF Cells
<1>4. Clean(m[c], e) \/ c \in B
  BY <1>1, <1>2 DEF CleanTo
<1>5. n[c] = m[c] \/ Clean(n[c], f)
  BY <1>3 DEF Step, Rewritten
<1>6. ASSUME n[c] = m[c], Clean(m[c], e) PROVE Clean(n[c], f)
  <2>1. m[c] \in WordType
    BY <1>0, <1>3 DEF Memory
  <2>2. m[c].v \in Nat
    BY <2>1 DEF WordType
  <2> QED BY <1>0, <1>6, <2>2 DEF Clean
<1> QED BY <1>4, <1>5, <1>6
-----------------------------------------------------------------------------
(* An updated word leads to the same object as before.                      *)
Follows(m, w, n, u, s) ==
  /\ u.k = w.k
  /\ w.k = "ref" => n[Res(n, s, u.v)] = m[Res(m, s, w.v)]

(* copy-object on a word of w.                                              *)
WordDone(h, r, s, z, lo, D, x) ==
  /\ Step(h.mem, h.top, r.mem, r.top, s, z, lo)
  /\ WordsIn(r.words, D, Tgt(r.mem, r.top, s, z))
  /\ Clean(r.words[x], r.top)
  /\ Follows(h.mem, h.words[x], r.mem, r.words[x], s)
  /\ \A y \in D : y # x => r.words[y] = h.words[y]

(* copy-object as a step of the copying, and what its word is afterwards.  *)
LEMMA CopyObjectIs ==
  ASSUME NEW h, NEW s, NEW z, NEW lo, CopyState(h.mem, h.top, s, z, lo),
         NEW w \in WordType, Value(w, Tgt(h.mem, h.top, s, z)), NEW r, r = CopyObject(h, w)
  PROVE  /\ Step(h.mem, h.top, r.mem, r.top, s, z, lo)
         /\ r.word \in WordType /\ Value(r.word, Tgt(r.mem, r.top, s, z))
         /\ Clean(r.word, r.top) /\ Follows(h.mem, w, r.mem, r.word, s)
         /\ \A c \in Cells : c < h.top => r.mem[c] = h.mem[c]
<1>1. /\ CopyState(r.mem, r.top, s, z, lo)
      /\ Moved(h.mem, h.top, r.mem, r.top, s, z)
      /\ \A c \in Cells : c < h.top => r.mem[c] = h.mem[c]
      /\ Reached(w, r.word, r.mem, r.top, s, z)
  BY CopyObjectStep
<1>2. Step(h.mem, h.top, r.mem, r.top, s, z, lo)
  BY <1>1 DEF Step, Rewritten
<1>3. /\ r.word \in WordType /\ Clean(r.word, r.top) /\ r.word.k = w.k
      /\ w.k = "ref" => r.word.v \in Objs(r.mem, r.top, s, z) /\ r.word.v = Res(r.mem, s, w.v)
      /\ w.k # "ref" => r.word = w
  BY <1>1 DEF Reached
<1>4. \A a \in Objs(r.mem, r.top, s, z) : Res(r.mem, s, a) = a /\ a \in Tgt(r.mem, r.top, s, z)
  <2> SUFFICES ASSUME NEW a \in Objs(r.mem, r.top, s, z)
               PROVE  Res(r.mem, s, a) = a /\ a \in Tgt(r.mem, r.top, s, z)
    OBVIOUS
  <2>1. Res(r.mem, s, a) = a
    BY DEF Res, Objs
  <2> QED BY <2>1 DEF Tgt, Objs
<1>5. Value(r.word, Tgt(r.mem, r.top, s, z))
  BY <1>3, <1>4 DEF Value
<1>6. Follows(h.mem, w, r.mem, r.word, s)
  <2> SUFFICES ASSUME w.k = "ref" PROVE r.mem[Res(r.mem, s, r.word.v)] = h.mem[Res(h.mem, s, w.v)]
    BY <1>3 DEF Follows
  <2>1. w.v \in Tgt(h.mem, h.top, s, z)
    BY DEF Value
  <2>2. r.mem[Res(r.mem, s, w.v)] = h.mem[Res(h.mem, s, w.v)]
    BY <1>1, <2>1 DEF Moved, SameObject
  <2> QED BY <1>3, <1>4, <2>2
<1> QED BY <1>1, <1>2, <1>3, <1>5, <1>6

(* copy-object on the word of a root or a frame: this word follows its     *)
(* object, the others are as they were.                                    *)
LEMMA CopyWordStep ==
  ASSUME NEW h, NEW s, NEW z, NEW lo, CopyState(h.mem, h.top, s, z, lo),
         NEW D, WordsIn(h.words, D, Tgt(h.mem, h.top, s, z)),
         NEW x \in D, NEW r, r = CopyWord(h, x)
  PROVE  WordDone(h, r, s, z, lo, D, x)
<1> DEFINE w == h.words[x]
           o == CopyObject(h, w)
<1>1. w \in WordType /\ Value(w, Tgt(h.mem, h.top, s, z))
  BY DEF WordsIn
<1>2. /\ Step(h.mem, h.top, o.mem, o.top, s, z, lo)
      /\ o.word \in WordType /\ Value(o.word, Tgt(o.mem, o.top, s, z))
      /\ Clean(o.word, o.top) /\ Follows(h.mem, w, o.mem, o.word, s)
  BY <1>1, CopyObjectIs
<1>3. r.mem = o.mem /\ r.top = o.top /\ r.words = [h.words EXCEPT ![x] = o.word]
  BY DEF CopyWord
<1> HIDE DEF o
<1>4. h.words = [y \in D |-> h.words[y]]
  BY DEF WordsIn
<1>5. r.words = [y \in D |-> r.words[y]] /\ r.words[x] = o.word /\ \A y \in D : y # x => r.words[y] = h.words[y]
  BY <1>3, <1>4
<1>6. WordsIn(h.words, D, Tgt(o.mem, o.top, s, z))
  BY <1>2, MovedWords DEF Step
<1>7. WordsIn(r.words, D, Tgt(o.mem, o.top, s, z))
  BY <1>2, <1>5, <1>6 DEF WordsIn
<1> QED BY <1>2, <1>3, <1>5, <1>7 DEF WordDone

(* copy-object on a slot of an object below e.                              *)
LEMMA CopySlotStep ==
  ASSUME NEW h, NEW s, NEW z, NEW lo, CopyState(h.mem, h.top, s, z, lo),
         NEW a \in Objs(h.mem, h.top, s, z), a < h.top, NEW c \in Range(Slots(h.mem, a)),
         NEW r, r = CopySlot(h, c)
  PROVE  /\ Step(h.mem, h.top, r.mem, r.top, s, z, lo)
         /\ c \in Cells /\ Clean(r.mem[c], r.top)
<1> DEFINE w == h.mem[c]
           o == CopyObject(h, w)
<1>0. Layout(h.mem, h.top, s, z) /\ h.top \in Nat
  BY CopyStateIs
<1>1. c \in Cells /\ w \in WordType /\ Value(w, Tgt(h.mem, h.top, s, z))
  <2>1. c \in Cells /\ w \in WordType
    BY <1>0, ObjectIs DEF Layout, Memory
  <2> QED BY <2>1 DEF CopyState, Fields
<1>2. /\ Step(h.mem, h.top, o.mem, o.top, s, z, lo)
      /\ o.word \in WordType /\ Value(o.word, Tgt(o.mem, o.top, s, z))
      /\ Clean(o.word, o.top)
      /\ \A x \in Cells : x < h.top => o.mem[x] = h.mem[x]
  BY <1>1, CopyObjectIs
<1>3. r.mem = [o.mem EXCEPT ![c] = o.word] /\ r.top = o.top
  BY DEF CopySlot
<1> HIDE DEF o
<1>4. a \in Objs(o.mem, o.top, s, z) /\ a < o.top /\ Slots(o.mem, a) = Slots(h.mem, a)
  BY <1>0, <1>2, MovedBelow DEF Step
<1> DEFINE n == r.mem
<1>5. /\ CopyState(n, o.top, s, z, lo) /\ Moved(o.mem, o.top, n, o.top, s, z)
      /\ n[c] = o.word /\ \A x \in Cells : x # c => n[x] = o.mem[x]
  <2>1. CopyState(o.mem, o.top, s, z, lo) /\ c \in Range(Slots(o.mem, a))
    BY <1>2, <1>4 DEF Step
  <2>2. CopiedSlotSet(o.mem, o.top, s, z, lo, c, o.word, n)
    BY <1>2, <1>3, <1>4, <2>1, SetCopiedSlot
  <2> QED BY <2>2 DEF CopiedSlotSet
<1>6. o.mem[c].k # "hdr" /\ n[c].k # "hdr"
  <2>1. c \in Nat /\ a < c /\ c < a + AllocationSize(o.mem, a)
    <3>1. Layout(o.mem, o.top, s, z)
      BY <1>2, CopyStateIs DEF Step
    <3> QED BY <1>4, <3>1, ObjectIs DEF Cells
  <2>2. o.mem[c].k # "hdr"
    BY <1>2, <1>4, <2>1, NoneInside, CopyStateIs DEF Step
  <2> QED BY <1>2, <1>5, <2>2 DEF Value
<1>7. Step(o.mem, o.top, n, o.top, s, z, lo)
  BY <1>2, <1>5, <1>6 DEF Step, Rewritten
<1>8. Step(h.mem, h.top, n, o.top, s, z, lo)
  BY <1>2, <1>7, StepTwice
<1> QED BY <1>1, <1>2, <1>3, <1>5, <1>8
-----------------------------------------------------------------------------
(* CopyWords on the words whose names are in X.                             *)
WordsDone(h, r, s, z, lo, D, X) ==
  /\ Step(h.mem, h.top, r.mem, r.top, s, z, lo)
  /\ WordsIn(r.words, D, Tgt(r.mem, r.top, s, z))
  /\ \A y \in D : /\ Follows(h.mem, h.words[y], r.mem, r.words[y], s)
                  /\ y \in X \/ Clean(h.words[y], h.top) => Clean(r.words[y], r.top)

(* Before the first word is copied.                                        *)
LEMMA WordsDoneNone ==
  ASSUME NEW h, NEW s, NEW z, NEW lo, CopyState(h.mem, h.top, s, z, lo),
         NEW D, WordsIn(h.words, D, Tgt(h.mem, h.top, s, z))
  PROVE  WordsDone(h, h, s, z, lo, D, {})
BY StepNot DEF WordsDone, Follows

(* After one word more.                                                    *)
LEMMA WordsDoneOne ==
  ASSUME NEW h, NEW s, NEW z, NEW lo, CopyState(h.mem, h.top, s, z, lo),
         NEW D, WordsIn(h.words, D, Tgt(h.mem, h.top, s, z)),
         NEW X, NEW q, WordsDone(h, q, s, z, lo, D, X), NEW x \in D,
         NEW r, r = CopyWord(q, x)
  PROVE  WordsDone(h, r, s, z, lo, D, X \cup {x})
<1>1. /\ Step(h.mem, h.top, q.mem, q.top, s, z, lo)
      /\ WordsIn(q.words, D, Tgt(q.mem, q.top, s, z))
      /\ \A y \in D : /\ Follows(h.mem, h.words[y], q.mem, q.words[y], s)
                      /\ y \in X \/ Clean(h.words[y], h.top) => Clean(q.words[y], q.top)
  BY DEF WordsDone
<1>2. CopyState(q.mem, q.top, s, z, lo)
  BY <1>1 DEF Step
<1>3. WordDone(q, r, s, z, lo, D, x)
  BY <1>1, <1>2, CopyWordStep
<1>4. /\ Step(q.mem, q.top, r.mem, r.top, s, z, lo)
      /\ WordsIn(r.words, D, Tgt(r.mem, r.top, s, z))
      /\ Clean(r.words[x], r.top)
      /\ Follows(q.mem, q.words[x], r.mem, r.words[x], s)
      /\ \A y \in D : y # x => r.words[y] = q.words[y]
  BY <1>3 DEF WordDone
<1>5. Step(h.mem, h.top, r.mem, r.top, s, z, lo)
  BY <1>1, <1>4, StepTwice
<1>6. q.top \in Nat /\ r.top \in Nat /\ q.top <= r.top
  BY <1>1, <1>4, CopyStateIs DEF Step, Moved
<1>7. ASSUME NEW y \in D PROVE Follows(q.mem, q.words[y], r.mem, r.words[y], s)
  <2>1. CASE y = x
    BY <1>4, <2>1
  <2>2. CASE y # x
    <3>1. r.words[y] = q.words[y]
      BY <1>4, <2>2
    <3>2. q.words[y].k = "ref" => q.words[y].v \in Tgt(q.mem, q.top, s, z)
      BY <1>1 DEF WordsIn, Value
    <3>3. \A a \in Tgt(q.mem, q.top, s, z) : r.mem[Res(r.mem, s, a)] = q.mem[Res(q.mem, s, a)]
      BY <1>4 DEF Step, Moved, SameObject
    <3> QED BY <3>1, <3>2, <3>3 DEF Follows
  <2> QED BY <2>1, <2>2
<1>8. ASSUME NEW y \in D
      PROVE  /\ Follows(h.mem, h.words[y], r.mem, r.words[y], s)
             /\ y \in X \cup {x} \/ Clean(h.words[y], h.top) => Clean(r.words[y], r.top)
  <2>1. Follows(h.mem, h.words[y], r.mem, r.words[y], s)
    BY <1>1, <1>7 DEF Follows
  <2>2. CASE y = x
    BY <1>4, <2>1, <2>2
  <2>3. CASE y # x
    <3>1. r.words[y] = q.words[y]
      BY <1>4, <2>3
    <3>2. q.words[y].v \in Nat
      BY <1>1 DEF WordsIn, WordType
    <3>3. Clean(q.words[y], q.top) => Clean(r.words[y], r.top)
      BY <1>6, <3>1, <3>2 DEF Clean
    <3> QED BY <1>1, <2>1, <2>3, <3>3
  <2> QED BY <2>2, <2>3
<1> QED BY <1>4, <1>5, <1>8 DEF WordsDone

(* So after all words of a sequence: copy-roots, and the frames of a       *)
(* stack.                                                                  *)
LEMMA CopyWordsDone ==
  ASSUME NEW h, NEW s, NEW z, NEW lo, CopyState(h.mem, h.top, s, z, lo),
         NEW D, WordsIn(h.words, D, Tgt(h.mem, h.top, s, z)),
         NEW xs, NEW n \in Nat, DOMAIN xs = 1 .. n, \A i \in 1 .. n : xs[i] \in D
  PROVE  WordsDone(h, CopyWords(h, xs), s, z, lo, D, Range(xs))
<1>0. PICK r : WordsTrace(r, h, xs, n)
  BY WordsFold, Zenon
<1>1. /\ r[0] = h
      /\ \A k \in 1 .. n : r[k] = CopyWord(r[k-1], xs[k])
      /\ CopyWords(h, xs) = r[n]
  BY <1>0 DEF WordsTrace
<1> DEFINE X(k) == {xs[i] : i \in 1 .. k}
           Good(k) == WordsDone(h, r[k], s, z, lo, D, X(k))
           Bad == {k \in Nat : k <= n /\ ~Good(k)}
<1>2. Good(0)
  <2>1. X(0) = {}
    OBVIOUS
  <2> QED BY <1>1, <2>1, WordsDoneNone
<1>3. ASSUME NEW k \in 1 .. n, Good(k - 1) PROVE Good(k)
  <2>1. X(k) = X(k - 1) \cup {xs[k]}
    OBVIOUS
  <2>2. xs[k] \in D /\ r[k] = CopyWord(r[k-1], xs[k])
    BY <1>1
  <2> HIDE DEF X
  <2> QED BY <1>3, <2>1, <2>2, WordsDoneOne
<1>4. Bad = {}
  <2> HIDE DEF Good
  <2> SUFFICES ASSUME Bad # {} PROVE FALSE
    OBVIOUS
  <2>1. PICK k \in Bad : \A j \in Bad : k <= j
    BY LeastOf
  <2>2. k # 0 /\ k \in Nat /\ k <= n
    BY <1>2, <2>1
  <2>3. k \in 1 .. n /\ k - 1 \in Nat /\ k - 1 <= n /\ k - 1 \notin Bad
    BY <2>1, <2>2
  <2> QED BY <1>3, <2>1, <2>3
<1>5. Good(n)
  <2> HIDE DEF Good
  <2> QED BY <1>4
<1>6. X(n) = Range(xs)
  BY DEF Range
<1> QED BY <1>1, <1>5, <1>6

(* What the rest of the collector goes by.                                  *)
LEMMA StepKeeps ==
  ASSUME NEW m, NEW e, NEW n, NEW f, NEW s, NEW z, NEW lo,
         CopyState(m, e, s, z, lo), Step(m, e, n, f, s, z, lo)
  PROVE  /\ CopyState(n, f, s, z, lo) /\ Moved(m, e, n, f, s, z)
         /\ e \in Nat /\ f \in Nat /\ e <= f /\ f <= s /\ lo \in Nat /\ lo <= e
         /\ Tgt(m, e, s, z) \subseteq Tgt(n, f, s, z)
         /\ NamesOf(n, StacksIn(n, f, s, z)) = NamesOf(m, StacksIn(m, e, s, z))
         /\ \A q \in Nat : q <= e => \A B :
              /\ CleanTo(m, e, s, z, q, B) => CleanTo(n, f, s, z, q, B)
              /\ BitsIn(B, m, {a \in Objs(m, e, s, z) : a < q}) =>
                   BitsIn(B, n, {a \in Objs(n, f, s, z) : a < q})
         /\ \A st, ls : StacksListed(m, e, s, z, st, ls) => StacksListed(n, f, s, z, st, ls)
         /\ \A tr : TrackersListed(m, e, s, z, tr) => TrackersListed(n, f, s, z, tr)
<1>1. CopyState(n, f, s, z, lo) /\ Moved(m, e, n, f, s, z) /\ Layout(m, e, s, z)
  BY CopyStateIs DEF Step
<1>2. e \in Nat /\ f \in Nat /\ e <= f /\ f <= s /\ lo \in Nat /\ lo <= e
  BY <1>1, CopyStateIs DEF Moved
<1>3. Tgt(m, e, s, z) \subseteq Tgt(n, f, s, z)
  BY <1>1 DEF Moved
<1>4. ASSUME NEW q \in Nat, q <= e, NEW B
      PROVE  /\ CleanTo(m, e, s, z, q, B) => CleanTo(n, f, s, z, q, B)
             /\ BitsIn(B, m, {a \in Objs(m, e, s, z) : a < q}) =>
                  BitsIn(B, n, {a \in Objs(n, f, s, z) : a < q})
  BY <1>1, <1>4, RewrittenClean, MovedBits
<1>5. ASSUME NEW st, NEW ls, StacksListed(m, e, s, z, st, ls) PROVE StacksListed(n, f, s, z, st, ls)
  BY <1>1, <1>5, MovedStacks
<1>6. ASSUME NEW tr, TrackersListed(m, e, s, z, tr) PROVE TrackersListed(n, f, s, z, tr)
  BY <1>1, <1>6, MovedTrackers
<1>7. NamesOf(n, StacksIn(n, f, s, z)) = NamesOf(m, StacksIn(m, e, s, z))
  BY <1>1, MovedNames
<1> QED BY <1>1, <1>2, <1>3, <1>4, <1>5, <1>6, <1>7
-----------------------------------------------------------------------------
(* A sequence and one element more, at its end or its beginning.            *)
LEMMA OneMore ==
  ASSUME NEW list \in Seq(Cells), NEW a \in Cells
  PROVE  /\ Append(list, a) \in Seq(Cells) /\ <<a>> \o list \in Seq(Cells)
         /\ DOMAIN Append(list, a) = 1 .. Len(list) + 1 /\ DOMAIN (<<a>> \o list) = 1 .. Len(list) + 1
         /\ DOMAIN list = 1 .. Len(list) /\ Len(list) \in Nat
         /\ \A i \in 1 .. Len(list) : Append(list, a)[i] = list[i] /\ (<<a>> \o list)[i + 1] = list[i]
         /\ Append(list, a)[Len(list) + 1] = a /\ (<<a>> \o list)[1] = a
OBVIOUS

(* A list with one more object of a name that was not in it.               *)
LEMMA ListedMore ==
  ASSUME NEW m, NEW e, NEW s, NEW z, NEW list, Listed(m, e, s, z, list), NEW a \in Tgt(m, e, s, z),
         \A i \in DOMAIN list : NameOf(m, s, list[i]) # NameOf(m, s, a)
  PROVE  /\ Listed(m, e, s, z, Append(list, a)) /\ Listed(m, e, s, z, <<a>> \o list)
         /\ Range(Append(list, a)) = Range(list) \cup {a} /\ Range(<<a>> \o list) = Range(list) \cup {a}
<1>1. a \in Cells /\ list \in Seq(Cells)
  BY DEF Tgt, Listed
<1> DEFINE k == Len(list)
           l1 == Append(list, a)
           l2 == <<a>> \o list
<1>2. /\ l1 \in Seq(Cells) /\ l2 \in Seq(Cells) /\ k \in Nat
      /\ DOMAIN l1 = 1 .. k + 1 /\ DOMAIN l2 = 1 .. k + 1 /\ DOMAIN list = 1 .. k
      /\ \A i \in 1 .. k : l1[i] = list[i] /\ l2[i + 1] = list[i]
      /\ l1[k + 1] = a /\ l2[1] = a
  BY <1>1, OneMore
<1> HIDE DEF k, l1, l2
<1>3. \A i \in DOMAIN l1 : i = k + 1 \/ i \in DOMAIN list
  BY <1>2
<1>4. \A i \in DOMAIN l2 : i = 1 \/ (i - 1 \in DOMAIN list /\ l2[i] = list[i - 1])
  <2>1. ASSUME NEW i \in DOMAIN l2, i # 1 PROVE i - 1 \in DOMAIN list /\ l2[i] = list[i - 1]
    <3>1. i - 1 \in 1 .. k /\ (i - 1) + 1 = i
      BY <1>2, <2>1
    <3>2. l2[(i - 1) + 1] = list[i - 1]
      BY <1>2, <3>1
    <3> QED BY <1>2, <3>1, <3>2
  <2> QED BY <2>1
<1>5. Listed(m, e, s, z, l1)
  BY <1>2, <1>3 DEF Listed
<1>6. Listed(m, e, s, z, l2)
  <2>1. \A i \in DOMAIN l2 : l2[i] \in Tgt(m, e, s, z)
    BY <1>2, <1>4 DEF Listed
  <2>2. ASSUME NEW i \in DOMAIN l2, NEW j \in DOMAIN l2, i # j
        PROVE  NameOf(m, s, l2[i]) # NameOf(m, s, l2[j])
    <3>1. i - 1 # j - 1
      BY <1>2, <2>2
    <3> QED BY <1>2, <1>4, <2>2, <3>1 DEF Listed
  <2> QED BY <1>2, <2>1, <2>2 DEF Listed
<1>7. Range(l1) = Range(list) \cup {a}
  BY <1>2, <1>3 DEF Range
<1>8. Range(l2) = Range(list) \cup {a}
  <2>1. ASSUME NEW i \in DOMAIN list PROVE list[i] \in Range(l2)
    <3>1. i + 1 \in DOMAIN l2 /\ l2[i + 1] = list[i]
      BY <1>2
    <3> QED BY <3>1 DEF Range
  <2>2. a \in Range(l2)
    <3>1. 1 \in DOMAIN l2
      BY <1>2
    <3> QED BY <1>2, <3>1 DEF Range
  <2>3. ASSUME NEW i \in DOMAIN l2 PROVE l2[i] \in Range(list) \cup {a}
    BY <1>2, <1>4 DEF Range
  <2> QED BY <2>1, <2>2, <2>3 DEF Range
<1> QED BY <1>5, <1>6, <1>7, <1>8 DEF l1, l2

(* A new stack that was not copied, one that was.                           *)
LEMMA PassOverIs ==
  ASSUME NEW h, NEW a
  PROVE  /\ ~Forwarded(h.mem, a) /\ h = [mem |-> h.mem, top |-> h.top, words |-> h.words, dead |-> h.dead, live |-> h.live] =>
              PassOver(h, a) = [mem |-> h.mem, top |-> h.top, words |-> h.words,
                                dead |-> Append(h.dead, a), live |-> h.live]
         /\ Forwarded(h.mem, a) =>
              LET g == CopyWords([mem |-> h.mem, top |-> h.top, words |-> h.words], <<h.mem[h.mem[a].v].v>>) IN
              PassOver(h, a) = [mem |-> g.mem, top |-> g.top, words |-> g.words,
                                dead |-> h.dead, live |-> <<h.mem[a].v>> \o h.live]
<1>1. ASSUME ~Forwarded(h.mem, a),
             h = [mem |-> h.mem, top |-> h.top, words |-> h.words, dead |-> h.dead, live |-> h.live]
      PROVE  PassOver(h, a) = [mem |-> h.mem, top |-> h.top, words |-> h.words,
                                dead |-> Append(h.dead, a), live |-> h.live]
  <2>1. PassOver(h, a) = [h EXCEPT !.dead = Append(@, a)]
    BY <1>1 DEF PassOver
  <2> DEFINE m == h.mem
             e == h.top
             w == h.words
             d == h.dead
             l == h.live
  <2>2. h = [mem |-> m, top |-> e, words |-> w, dead |-> d, live |-> l]
    BY <1>1
  <2> HIDE DEF m, e, w, d, l
  <2>3. PassOver(h, a) = [mem |-> m, top |-> e, words |-> w, dead |-> Append(d, a), live |-> l]
    BY <2>1, <2>2
  <2> QED BY <2>3 DEF m, e, w, d, l
<1>2. ASSUME Forwarded(h.mem, a)
      PROVE  LET g == CopyWords([mem |-> h.mem, top |-> h.top, words |-> h.words], <<h.mem[h.mem[a].v].v>>) IN
              PassOver(h, a) = [mem |-> g.mem, top |-> g.top, words |-> g.words,
                                dead |-> h.dead, live |-> <<h.mem[a].v>> \o h.live]
  BY <1>2, Zenon DEF PassOver, NameAt
<1> QED BY <1>1, <1>2
-----------------------------------------------------------------------------
(* The pass over the new stacks: the stacks of X were looked at, those of A *)
(* are on the lists.                                                        *)
PassLists(m, e, w, d, l, s, z, A, X) ==
  /\ Listed(m, e, s, z, d) /\ Listed(m, e, s, z, l)
  /\ Range(d) \subseteq X
  /\ \A a \in Range(l) : /\ a < e /\ m[a].t = "stack" /\ Clean(w[m[a].v], e)
                         /\ \E c \in A : NameOf(m, s, a) = NameOf(m, s, c)
  /\ \A a \in Range(d), b \in Range(l) : NameOf(m, s, a) # NameOf(m, s, b)
  /\ \A c \in A : \E a \in Range(d) \cup Range(l) : NameOf(m, s, a) = NameOf(m, s, c)

(* The lists of a pass, after more objects have been copied.               *)
LEMMA PassMoved ==
  ASSUME NEW h, NEW r, NEW s, NEW z, NEW lo, CopyState(h.mem, h.top, s, z, lo),
         NEW d, NEW l, NEW A, NEW X, PassLists(h.mem, h.top, h.words, d, l, s, z, A, X),
         A \subseteq Tgt(h.mem, h.top, s, z), X \subseteq A,
         NEW Y, WordsDone(h, r, s, z, lo, NamesOf(h.mem, StacksIn(h.mem, h.top, s, z)), Y)
  PROVE  PassLists(r.mem, r.top, r.words, d, l, s, z, A, X)
<1> DEFINE m == h.mem
           e == h.top
           n == r.mem
           f == r.top
<1>1. /\ Listed(m, e, s, z, d) /\ Listed(m, e, s, z, l)
      /\ Range(d) \subseteq X
      /\ \A a \in Range(l) : /\ a < e /\ m[a].t = "stack" /\ Clean(h.words[m[a].v], e)
                             /\ \E c \in A : NameOf(m, s, a) = NameOf(m, s, c)
      /\ \A a \in Range(d), b \in Range(l) : NameOf(m, s, a) # NameOf(m, s, b)
      /\ \A c \in A : \E a \in Range(d) \cup Range(l) : NameOf(m, s, a) = NameOf(m, s, c)
  BY DEF PassLists
<1>2. Moved(m, e, n, f, s, z) /\ e \in Nat /\ f \in Nat /\ e <= f /\ e <= s /\ s \in Nat
  BY CopyStateIs DEF WordsDone, Step, Moved
<1>3. Listed(n, f, s, z, d) /\ Listed(n, f, s, z, l)
  BY <1>1, <1>2, MovedListed
<1>4. \A a \in Tgt(m, e, s, z) : NameOf(n, s, a) = NameOf(m, s, a)
  BY <1>2 DEF Moved, SameObject, NameOf
<1>5. Range(d) \subseteq Tgt(m, e, s, z) /\ Range(l) \subseteq Tgt(m, e, s, z)
  BY <1>1 DEF Listed, Range
<1>6. ASSUME NEW a \in Range(l) PROVE a < f /\ n[a].t = "stack" /\ Clean(r.words[n[a].v], f)
  <2>1. a \in Tgt(m, e, s, z) /\ a < e /\ m[a].t = "stack" /\ Clean(h.words[m[a].v], e) /\ a \in Nat
    BY <1>1, <1>5 DEF Tgt, Cells
  <2>2. Res(m, s, a) = a /\ a \in Objs(m, e, s, z)
    <3>1. Res(m, s, a) = a
      BY <1>2, <2>1 DEF Res
    <3> QED BY <2>1, <3>1 DEF Tgt
  <2>3. n[a] = m[a]
    BY <1>2, <2>1, <2>2 DEF Moved, SameObject
  <2>4. m[a].v \in NamesOf(m, StacksIn(m, e, s, z))
    BY <2>1, <2>2 DEF NamesOf, StacksIn
  <2>5. Clean(r.words[m[a].v], f)
    BY <2>1, <2>4 DEF WordsDone
  <2> QED BY <1>2, <2>1, <2>3, <2>5
<1>7. ASSUME NEW a \in Range(l) PROVE \E c \in A : NameOf(n, s, a) = NameOf(n, s, c)
  BY <1>1, <1>4, <1>5
<1>8. \A a \in Range(d), b \in Range(l) : NameOf(n, s, a) # NameOf(n, s, b)
  BY <1>1, <1>4, <1>5
<1>9. \A c \in A : \E a \in Range(d) \cup Range(l) : NameOf(n, s, a) = NameOf(n, s, c)
  BY <1>1, <1>4, <1>5
<1> QED BY <1>1, <1>3, <1>6, <1>7, <1>8, <1>9 DEF PassLists

(* A stack that was not copied goes to the dead ones.                       *)
LEMMA PassDead ==
  ASSUME NEW m, NEW e, NEW w, NEW d, NEW l, NEW s, NEW z, NEW A, NEW X,
         PassLists(m, e, w, d, l, s, z, A, X), X \subseteq A,
         NEW a \in Tgt(m, e, s, z), \A c \in A : NameOf(m, s, c) # NameOf(m, s, a)
  PROVE  PassLists(m, e, w, Append(d, a), l, s, z, A \cup {a}, X \cup {a})
<1>1. /\ Listed(m, e, s, z, d) /\ Listed(m, e, s, z, l)
      /\ Range(d) \subseteq X
      /\ \A b \in Range(l) : /\ b < e /\ m[b].t = "stack" /\ Clean(w[m[b].v], e)
                             /\ \E c \in A : NameOf(m, s, b) = NameOf(m, s, c)
      /\ \A b \in Range(d), c \in Range(l) : NameOf(m, s, b) # NameOf(m, s, c)
      /\ \A c \in A : \E b \in Range(d) \cup Range(l) : NameOf(m, s, b) = NameOf(m, s, c)
  BY DEF PassLists
<1>2. \A i \in DOMAIN d : NameOf(m, s, d[i]) # NameOf(m, s, a)
  BY <1>1 DEF Range
<1>3. /\ Listed(m, e, s, z, Append(d, a)) /\ Listed(m, e, s, z, <<a>> \o d)
      /\ Range(Append(d, a)) = Range(d) \cup {a} /\ Range(<<a>> \o d) = Range(d) \cup {a}
  BY <1>1, <1>2, ListedMore
<1> QED BY <1>1, <1>3 DEF PassLists

(* One that was copied becomes the first of the live ones.                  *)
LEMMA PassLive ==
  ASSUME NEW m, NEW e, NEW w, NEW d, NEW l, NEW s, NEW z, NEW A, NEW X,
         PassLists(m, e, w, d, l, s, z, A, X), X \subseteq A,
         NEW a \in Tgt(m, e, s, z), \A c \in A : NameOf(m, s, c) # NameOf(m, s, a),
         NEW b \in Tgt(m, e, s, z), NameOf(m, s, b) = NameOf(m, s, a),
         b < e, m[b].t = "stack", Clean(w[m[b].v], e)
  PROVE  PassLists(m, e, w, d, <<b>> \o l, s, z, A \cup {a}, X \cup {a})
<1>1. /\ Listed(m, e, s, z, d) /\ Listed(m, e, s, z, l)
      /\ Range(d) \subseteq X
      /\ \A x \in Range(l) : /\ x < e /\ m[x].t = "stack" /\ Clean(w[m[x].v], e)
                             /\ \E c \in A : NameOf(m, s, x) = NameOf(m, s, c)
      /\ \A x \in Range(d), c \in Range(l) : NameOf(m, s, x) # NameOf(m, s, c)
      /\ \A c \in A : \E x \in Range(d) \cup Range(l) : NameOf(m, s, x) = NameOf(m, s, c)
  BY DEF PassLists
<1>2. \A i \in DOMAIN l : NameOf(m, s, l[i]) # NameOf(m, s, b)
  BY <1>1 DEF Range
<1>3. Listed(m, e, s, z, <<b>> \o l) /\ Range(<<b>> \o l) = Range(l) \cup {b}
  BY <1>1, <1>2, ListedMore
<1>4. ASSUME NEW x \in Range(d), NEW y \in Range(l) \cup {b} PROVE NameOf(m, s, x) # NameOf(m, s, y)
  BY <1>1
<1>5. ASSUME NEW c \in A \cup {a} PROVE \E x \in Range(d) \cup (Range(l) \cup {b}) : NameOf(m, s, x) = NameOf(m, s, c)
  BY <1>1
<1>6. ASSUME NEW x \in Range(l) \cup {b}
      PROVE  /\ x < e /\ m[x].t = "stack" /\ Clean(w[m[x].v], e)
             /\ \E c \in A \cup {a} : NameOf(m, s, x) = NameOf(m, s, c)
  BY <1>1
<1>7. Range(d) \subseteq X \cup {a}
  BY <1>1
<1> HIDE DEF Listed
<1> QED BY <1>1, <1>3, <1>4, <1>5, <1>6, <1>7 DEF PassLists
-----------------------------------------------------------------------------
(* The pass, from the state b over the stacks xs; ls are live already.      *)
PassBase(b, s, z, lo, D, xs, ls) ==
  /\ CopyState(b.mem, b.top, s, z, lo)
  /\ WordsIn(b.words, D, Tgt(b.mem, b.top, s, z))
  /\ D = NamesOf(b.mem, StacksIn(b.mem, b.top, s, z))
  /\ StacksListed(b.mem, b.top, s, z, xs, ls)
  /\ \A i \in DOMAIN xs : s <= xs[i]
  /\ \A i \in DOMAIN ls : ls[i] < b.top /\ Clean(b.words[b.mem[ls[i]].v], b.top)

Seen(xs, k) == {xs[j] : j \in 1 .. k}
Same(h, b, ls) ==
  /\ h.live = ls /\ h.mem = b.mem /\ h.top = b.top /\ h.words = b.words
  /\ \A a \in Range(h.dead) : ~Forwarded(b.mem, a)
Found(h, s, X) ==
  /\ 1 \in DOMAIN h.live
  /\ \E c \in X : NameOf(h.mem, s, h.live[1]) = NameOf(h.mem, s, c)
PassState(h, b, s, z, lo, D, xs, ls, k) ==
  /\ h = [mem |-> h.mem, top |-> h.top, words |-> h.words, dead |-> h.dead, live |-> h.live]
  /\ Step(b.mem, b.top, h.mem, h.top, s, z, lo)
  /\ WordsIn(h.words, D, Tgt(h.mem, h.top, s, z))
  /\ PassLists(h.mem, h.top, h.words, h.dead, h.live, s, z, Range(ls) \cup Seen(xs, k), Seen(xs, k))
  /\ Same(h, b, ls) \/ Found(h, s, Seen(xs, k))

(* Before the first stack of a pass.                                       *)
LEMMA PassFirst ==
  ASSUME NEW b, NEW s, NEW z, NEW lo, NEW D, NEW xs, NEW ls, PassBase(b, s, z, lo, D, xs, ls),
         NEW h, h = [mem |-> b.mem, top |-> b.top, words |-> b.words, dead |-> << >>, live |-> ls]
  PROVE  PassState(h, b, s, z, lo, D, xs, ls, 0)
<1>1. h.mem = b.mem /\ h.top = b.top /\ h.words = b.words /\ h.dead = << >> /\ h.live = ls
  OBVIOUS
<1>2. Step(b.mem, b.top, b.mem, b.top, s, z, lo) /\ CopyState(b.mem, b.top, s, z, lo)
  BY StepNot DEF PassBase
<1>3. Seen(xs, 0) = {} /\ Range(<< >>) = {}
  BY DEF Seen, Range
<1>4. PassLists(b.mem, b.top, b.words, << >>, ls, s, z, Range(ls), {})
  <2>1. Listed(b.mem, b.top, s, z, << >>)
    BY DEF Listed
  <2>2. Listed(b.mem, b.top, s, z, ls) /\ \A a \in Range(ls) : b.mem[Res(b.mem, s, a)].t = "stack"
    BY DEF PassBase, StacksListed
  <2>3. ASSUME NEW a \in Range(ls)
        PROVE  a < b.top /\ b.mem[a].t = "stack" /\ Clean(b.words[b.mem[a].v], b.top)
    <3>1. a < b.top /\ Clean(b.words[b.mem[a].v], b.top) /\ a \in Tgt(b.mem, b.top, s, z)
      BY <2>2 DEF PassBase, Range, Listed
    <3>2. Res(b.mem, s, a) = a
      <4>1. a \in Nat /\ b.top \in Nat /\ s \in Nat /\ b.top <= s
        BY <1>2, <3>1, CopyStateIs DEF Tgt, Cells
      <4> QED BY <3>1, <4>1 DEF Res
    <3> QED BY <2>2, <3>1, <3>2
  <2> QED BY <1>3, <2>1, <2>2, <2>3 DEF PassLists
<1>5. Same(h, b, ls)
  BY <1>1, <1>3 DEF Same
<1>6. WordsIn(h.words, D, Tgt(h.mem, h.top, s, z))
  BY <1>1 DEF PassBase
<1>7. Range(ls) \cup Seen(xs, 0) = Range(ls)
  BY <1>3
<1> QED BY <1>1, <1>2, <1>3, <1>4, <1>5, <1>6, <1>7 DEF PassState

(* The stack that the pass comes to.                                        *)
LEMMA PassComesTo ==
  ASSUME NEW b, NEW s, NEW z, NEW lo, NEW D, NEW xs, NEW ls, PassBase(b, s, z, lo, D, xs, ls),
         NEW k \in Nat, NEW q, Step(b.mem, b.top, q.mem, q.top, s, z, lo),
         k + 1 \in DOMAIN xs
  PROVE  LET a == xs[k + 1]
             A == Range(ls) \cup Seen(xs, k) IN
         /\ CopyState(q.mem, q.top, s, z, lo)
         /\ a \in Tgt(q.mem, q.top, s, z) /\ A \subseteq Tgt(q.mem, q.top, s, z) /\ s <= a
         /\ q.mem[Res(q.mem, s, a)].t = "stack"
         /\ \A c \in A : NameOf(q.mem, s, c) # NameOf(q.mem, s, a)
         /\ D = NamesOf(q.mem, StacksIn(q.mem, q.top, s, z))
<1> DEFINE a == xs[k + 1]
           A == Range(ls) \cup Seen(xs, k)
<1>1. /\ CopyState(b.mem, b.top, s, z, lo) /\ CopyState(q.mem, q.top, s, z, lo)
      /\ Moved(b.mem, b.top, q.mem, q.top, s, z) /\ Layout(b.mem, b.top, s, z)
      /\ StacksListed(b.mem, b.top, s, z, xs, ls)
  BY CopyStateIs DEF PassBase, Step
<1>2. StacksListed(q.mem, q.top, s, z, xs, ls)
  BY <1>1, MovedStacks
<1>3. /\ Listed(q.mem, q.top, s, z, xs) /\ Listed(q.mem, q.top, s, z, ls)
      /\ \A i \in DOMAIN xs, j \in DOMAIN ls : NameOf(q.mem, s, xs[i]) # NameOf(q.mem, s, ls[j])
      /\ \A c \in Range(xs) \cup Range(ls) : q.mem[Res(q.mem, s, c)].t = "stack"
  BY <1>2 DEF StacksListed
<1>4. a \in Tgt(q.mem, q.top, s, z) /\ a \in Range(xs) /\ s <= a
  BY <1>3 DEF Listed, Range, PassBase
<1>5. \A j \in 1 .. k : j \in DOMAIN xs /\ j # k + 1
  <2>1. xs \in Seq(Cells)
    BY <1>3 DEF Listed
  <2>2. DOMAIN xs = 1 .. Len(xs) /\ Len(xs) \in Nat
    BY <2>1
  <2> QED BY <2>2
<1>6. A \subseteq Tgt(q.mem, q.top, s, z)
  BY <1>3, <1>5 DEF Seen, Listed, Range
<1>7. ASSUME NEW c \in A PROVE NameOf(q.mem, s, c) # NameOf(q.mem, s, a)
  <2>1. CASE c \in Range(ls)
    BY <1>3, <2>1 DEF Range
  <2>2. CASE c \in Seen(xs, k)
    <3>1. PICK j \in 1 .. k : c = xs[j]
      BY <2>2 DEF Seen
    <3> QED BY <1>3, <1>5, <3>1 DEF Listed
  <2> QED BY <2>1, <2>2
<1>8. D = NamesOf(q.mem, StacksIn(q.mem, q.top, s, z))
  BY <1>1, MovedNames DEF PassBase
<1> QED BY <1>1, <1>3, <1>4, <1>6, <1>7, <1>8

(* After one stack more, dead or live.                                     *)
LEMMA PassNext ==
  ASSUME NEW b, NEW s, NEW z, NEW lo, NEW D, NEW xs, NEW ls, PassBase(b, s, z, lo, D, xs, ls),
         NEW k \in Nat, NEW q, PassState(q, b, s, z, lo, D, xs, ls, k),
         k + 1 \in DOMAIN xs, NEW r, r = PassOver(q, xs[k + 1])
  PROVE  PassState(r, b, s, z, lo, D, xs, ls, k + 1)
<1> DEFINE a == xs[k + 1]
           X == Seen(xs, k)
           A == Range(ls) \cup X
<1>1. /\ Step(b.mem, b.top, q.mem, q.top, s, z, lo)
      /\ WordsIn(q.words, D, Tgt(q.mem, q.top, s, z))
      /\ PassLists(q.mem, q.top, q.words, q.dead, q.live, s, z, A, X)
      /\ Same(q, b, ls) \/ Found(q, s, X)
      /\ q = [mem |-> q.mem, top |-> q.top, words |-> q.words, dead |-> q.dead, live |-> q.live]
  BY DEF PassState
<1>2. /\ CopyState(q.mem, q.top, s, z, lo)
      /\ a \in Tgt(q.mem, q.top, s, z) /\ A \subseteq Tgt(q.mem, q.top, s, z) /\ s <= a
      /\ q.mem[Res(q.mem, s, a)].t = "stack"
      /\ \A c \in A : NameOf(q.mem, s, c) # NameOf(q.mem, s, a)
      /\ D = NamesOf(q.mem, StacksIn(q.mem, q.top, s, z))
  BY <1>1, PassComesTo
<1>3. Seen(xs, k + 1) = X \cup {a}
  BY DEF Seen
<1>4. X \subseteq A /\ Range(ls) \cup Seen(xs, k + 1) = A \cup {a}
  BY <1>3
<1>5. CopyState(b.mem, b.top, s, z, lo)
  BY DEF PassBase
<1> HIDE DEF a, X, A
<1>6. CASE ~Forwarded(q.mem, a)
  <2>1. r = [mem |-> q.mem, top |-> q.top, words |-> q.words, dead |-> Append(q.dead, a), live |-> q.live]
    BY <1>1, <1>6, PassOverIs DEF a
  <2>2. r.mem = q.mem /\ r.top = q.top /\ r.words = q.words /\ r.dead = Append(q.dead, a) /\ r.live = q.live
    BY <2>1
  <2>3. r = [mem |-> r.mem, top |-> r.top, words |-> r.words, dead |-> r.dead, live |-> r.live]
    BY <2>1
  <2>4. PassLists(q.mem, q.top, q.words, Append(q.dead, a), q.live, s, z, A \cup {a}, X \cup {a})
    BY <1>1, <1>2, <1>4, PassDead
  <2>5. Same(r, b, ls) \/ Found(r, s, X \cup {a})
    <3>1. CASE Same(q, b, ls)
      <4>1. Range(Append(q.dead, a)) = Range(q.dead) \cup {a}
        <5>1. Listed(q.mem, q.top, s, z, q.dead) /\ \A i \in DOMAIN q.dead : NameOf(q.mem, s, q.dead[i]) # NameOf(q.mem, s, a)
          BY <1>1, <1>2, <1>4 DEF PassLists, Range
        <5>2. Range(Append(q.dead, a)) = Range(q.dead) \cup {a} /\ Listed(q.mem, q.top, s, z, <<a>> \o q.dead)
          BY <1>2, <5>1, ListedMore
        <5> QED BY <5>2
      <4> QED BY <1>6, <2>2, <3>1, <4>1 DEF Same
    <3>2. CASE Found(q, s, X)
      BY <2>2, <3>2 DEF Found
    <3> QED BY <1>1, <3>1, <3>2
  <2> QED BY <1>1, <1>3, <1>4, <2>2, <2>3, <2>4, <2>5 DEF PassState
<1>7. CASE Forwarded(q.mem, a)
  <2> DEFINE o == q.mem[a].v
             name == q.mem[o].v
             h == [mem |-> q.mem, top |-> q.top, words |-> q.words]
             g == CopyWords(h, <<name>>)
  <2>1. r = [mem |-> g.mem, top |-> g.top, words |-> g.words, dead |-> q.dead, live |-> <<o>> \o q.live]
    BY <1>7, PassOverIs DEF a
  <2>2. r.mem = g.mem /\ r.top = g.top /\ r.words = g.words /\ r.dead = q.dead /\ r.live = <<o>> \o q.live
    BY <2>1
  <2>3. h.mem = q.mem /\ h.top = q.top /\ h.words = q.words
    OBVIOUS
  <2>4. /\ Res(q.mem, s, a) = o /\ o \in Objs(q.mem, q.top, s, z) /\ o < q.top
        /\ q.mem[o].t = "stack" /\ o \in Nat /\ q.top \in Nat /\ q.top <= s /\ s \in Nat
    <3>1. Res(q.mem, s, a) = o
      BY <1>2, <1>7 DEF Forwarded, Res
    <3>2. o \in Objs(q.mem, q.top, s, z) /\ (o # a => o < q.top)
      BY <1>2, <3>1 DEF Tgt
    <3>3. o # a
      BY <1>7, <3>2 DEF Forwarded, Objs
    <3> QED BY <1>2, <3>1, <3>2, <3>3, CopyStateIs
  <2>5. name \in D
    BY <1>2, <2>4 DEF NamesOf, StacksIn
  <2>6. WordsDone(h, g, s, z, lo, D, {name})
    <3>1. DOMAIN <<name>> = 1 .. 1 /\ 1 \in Nat /\ (\A i \in 1 .. 1 : <<name>>[i] \in D) /\ Range(<<name>>) = {name}
      BY <2>5 DEF Range
    <3>2. CopyState(h.mem, h.top, s, z, lo) /\ WordsIn(h.words, D, Tgt(h.mem, h.top, s, z))
      BY <1>1, <1>2, <2>3
    <3> HIDE DEF h, name
    <3>3. WordsDone(h, CopyWords(h, <<name>>), s, z, lo, D, Range(<<name>>))
      BY <3>1, <3>2, CopyWordsDone
    <3> QED BY <3>1, <3>3
  <2> HIDE DEF h, g
  <2>7. /\ Step(q.mem, q.top, g.mem, g.top, s, z, lo) /\ WordsIn(g.words, D, Tgt(g.mem, g.top, s, z))
        /\ Clean(g.words[name], g.top)
    BY <2>3, <2>5, <2>6 DEF WordsDone
  <2>8. PassLists(g.mem, g.top, g.words, q.dead, q.live, s, z, A, X)
    <3>1. PassLists(h.mem, h.top, h.words, q.dead, q.live, s, z, A, X) /\ A \subseteq Tgt(h.mem, h.top, s, z)
          /\ CopyState(h.mem, h.top, s, z, lo)
          /\ WordsDone(h, g, s, z, lo, NamesOf(h.mem, StacksIn(h.mem, h.top, s, z)), {name})
      BY <1>1, <1>2, <2>3, <2>6
    <3> QED BY <1>4, <3>1, PassMoved
  <2>9. /\ a \in Tgt(g.mem, g.top, s, z) /\ \A c \in A : NameOf(g.mem, s, c) # NameOf(g.mem, s, a)
    <3>1. Moved(q.mem, q.top, g.mem, g.top, s, z)
      BY <2>7 DEF Step
    <3>2. \A c \in Tgt(q.mem, q.top, s, z) : c \in Tgt(g.mem, g.top, s, z) /\ NameOf(g.mem, s, c) = NameOf(q.mem, s, c)
      BY <3>1 DEF Moved, SameObject, NameOf
    <3> QED BY <1>2, <3>2
  <2>10. /\ o \in Tgt(g.mem, g.top, s, z) /\ o < g.top /\ g.mem[o] = q.mem[o]
         /\ NameOf(g.mem, s, o) = name /\ NameOf(g.mem, s, a) = name
    <3>1. Moved(q.mem, q.top, g.mem, g.top, s, z) /\ Layout(q.mem, q.top, s, z)
      BY <1>2, <2>7, CopyStateIs DEF Step
    <3>2. /\ Res(g.mem, s, o) = o /\ g.mem[o] = q.mem[o] /\ o < g.top
          /\ o \in Objs(g.mem, g.top, s, z)
      BY <2>4, <3>1, MovedBelow
    <3>3. o \in Tgt(g.mem, g.top, s, z)
      BY <3>2 DEF Tgt, Objs
    <3>4. g.mem[Res(g.mem, s, a)] = q.mem[o]
      BY <1>2, <2>4, <3>1 DEF Moved, SameObject
    <3> QED BY <3>2, <3>3, <3>4 DEF NameOf
  <2>11. PassLists(g.mem, g.top, g.words, q.dead, <<o>> \o q.live, s, z, A \cup {a}, X \cup {a})
    <3>1. g.mem[o].t = "stack" /\ g.mem[o].v = name /\ NameOf(g.mem, s, o) = NameOf(g.mem, s, a)
      BY <2>4, <2>10
    <3> HIDE DEF o, name
    <3> QED BY <1>4, <2>7, <2>8, <2>9, <2>10, <3>1, PassLive
  <2>12. Found(r, s, X \cup {a})
    <3>1. o \in Cells /\ q.live \in Seq(Cells)
      BY <1>1, <2>4 DEF PassLists, Listed, Objs
    <3>2. 1 \in DOMAIN (<<o>> \o q.live) /\ (<<o>> \o q.live)[1] = o
      <4>1. DOMAIN (<<o>> \o q.live) = 1 .. Len(q.live) + 1 /\ Len(q.live) \in Nat /\ (<<o>> \o q.live)[1] = o
        BY <3>1, OneMore
      <4> QED BY <4>1
    <3>3. NameOf(r.mem, s, r.live[1]) = NameOf(r.mem, s, a) /\ 1 \in DOMAIN r.live
      BY <2>2, <2>10, <3>2
    <3> QED BY <3>3 DEF Found
  <2>13. r = [mem |-> r.mem, top |-> r.top, words |-> r.words, dead |-> r.dead, live |-> r.live]
    BY <2>1
  <2>14. Step(b.mem, b.top, g.mem, g.top, s, z, lo)
    BY <1>1, <1>5, <2>7, StepTwice
  <2> HIDE DEF o, name
  <2> QED BY <1>3, <1>4, <2>2, <2>7, <2>11, <2>12, <2>13, <2>14 DEF PassState
<1> QED BY <1>6, <1>7

(* So after all of them.                                                   *)
LEMMA PassDone ==
  ASSUME NEW b, NEW s, NEW z, NEW lo, NEW D, NEW xs, NEW ls, PassBase(b, s, z, lo, D, xs, ls),
         NEW h, h = [mem |-> b.mem, top |-> b.top, words |-> b.words, dead |-> << >>, live |-> ls]
  PROVE  PassState(FoldLeft(PassOver, h, xs), b, s, z, lo, D, xs, ls, Len(xs))
<1> DEFINE n == Len(xs)
           Good(r, k) == PassState(r[k], b, s, z, lo, D, xs, ls, k)
<1>1. xs \in Seq(Cells)
  BY DEF PassBase, StacksListed, Listed
<1>2. n \in Nat /\ DOMAIN xs = 1 .. n
  BY <1>1
<1>3. PICK r : PassTrace(r, h, xs, n)
  BY <1>2, PassFold, Zenon
<1>4. /\ r[0] = h
      /\ \A k \in 1 .. n : r[k] = PassOver(r[k-1], xs[k])
      /\ FoldLeft(PassOver, h, xs) = r[n]
  BY <1>3 DEF PassTrace
<1> HIDE DEF n
<1>5. Good(r, 0)
  BY <1>4, PassFirst
<1>6. ASSUME NEW k \in 1 .. n, Good(r, k - 1) PROVE Good(r, k)
  <2>1. k - 1 \in Nat /\ (k - 1) + 1 = k /\ k \in DOMAIN xs
    BY <1>2
  <2>2. r[k] = PassOver(r[k - 1], xs[(k - 1) + 1]) /\ (k - 1) + 1 \in DOMAIN xs
    BY <1>4, <2>1
  <2>3. PassState(r[k], b, s, z, lo, D, xs, ls, (k - 1) + 1)
    BY <1>6, <2>1, <2>2, PassNext
  <2> QED BY <2>1, <2>3
<1> HIDE DEF Good
<1> DEFINE Bad == {k \in Nat : k <= n /\ ~Good(r, k)}
<1>7. Bad = {}
  <2> SUFFICES ASSUME Bad # {} PROVE FALSE
    OBVIOUS
  <2>1. PICK k \in Bad : \A j \in Bad : k <= j
    BY LeastOf
  <2>2. k # 0 /\ k \in Nat /\ k <= n
    BY <1>5, <2>1
  <2>3. k \in 1 .. n /\ k - 1 \in Nat /\ k - 1 <= n /\ k - 1 \notin Bad
    BY <1>2, <2>1, <2>2
  <2> QED BY <1>6, <2>1, <2>3
<1>8. Good(r, n)
  BY <1>2, <1>7
<1> QED BY <1>4, <1>8 DEF Good, n
-----------------------------------------------------------------------------
(* What is left as it was when a step of the evacuation copies objects.     *)
LEMMA CopyOn ==
  ASSUME Numbers, CopyInv, Step(mem, top, mem', top', from, limit, oldEnd),
         limit' = limit, from' = from, oldEnd' = oldEnd, allocated' = allocated
  PROVE  /\ CopyState(mem', top', from', limit', oldEnd') /\ CopyState(mem, top, from, limit, oldEnd)'
         /\ top \in Nat /\ top' \in Nat /\ top <= top' /\ top' <= from' /\ from' <= limit' /\ oldEnd <= top
         /\ NamesOf(mem', StacksIn(mem', top', from', limit')) = NamesOf(mem, StacksIn(mem, top, from, limit))
         /\ \A w, D : WordsIn(w, D, Tgt(mem, top, from, limit)) => WordsIn(w, D, Tgt(mem', top', from', limit'))
         /\ \A a \in Tgt(mem, top, from, limit) : mem'[Res(mem', from', a)] = mem[Res(mem, from, a)]
         /\ TrackersListed(mem', top', from', limit', trackers)
         /\ \A st, ls : StacksListed(mem, top, from, limit, st, ls) => StacksListed(mem', top', from', limit', st, ls)
         /\ BitsIn(bits, mem', {a \in Objs(mem', top', from', limit') : a < oldEnd'})
         /\ \A q \in Nat : q <= top => \A B :
              CleanTo(mem, top, from, limit, q, B) => CleanTo(mem', top', from', limit', q, B)
<1> DEFINE m == mem
           e == top
           n == mem'
           f == top'
           s == from
           z == limit
<1>1. CopyState(m, e, s, z, oldEnd) /\ s <= z /\ TrackersListed(m, e, s, z, trackers)
      /\ BitsIn(bits, m, {a \in Objs(m, e, s, z) : a < oldEnd})
  BY DEF CopyInv
<1>2. Step(m, e, n, f, s, z, oldEnd)
  OBVIOUS
<1> HIDE DEF m, e, n, f, s, z
<1>3. /\ CopyState(n, f, s, z, oldEnd) /\ Moved(m, e, n, f, s, z)
      /\ e \in Nat /\ f \in Nat /\ e <= f /\ f <= s /\ oldEnd \in Nat /\ oldEnd <= e
      /\ NamesOf(n, StacksIn(n, f, s, z)) = NamesOf(m, StacksIn(m, e, s, z))
  BY <1>1, <1>2, StepKeeps
<1>4. /\ TrackersListed(n, f, s, z, trackers)
      /\ \A st, ls : StacksListed(m, e, s, z, st, ls) => StacksListed(n, f, s, z, st, ls)
      /\ BitsIn(bits, n, {a \in Objs(n, f, s, z) : a < oldEnd})
  BY <1>1, <1>2, <1>3, StepKeeps
<1>5. \A q \in Nat : q <= e => \A B : CleanTo(m, e, s, z, q, B) => CleanTo(n, f, s, z, q, B)
  BY <1>1, <1>2, StepKeeps
<1>6. \A w, D : WordsIn(w, D, Tgt(m, e, s, z)) => WordsIn(w, D, Tgt(n, f, s, z))
  BY <1>3, MovedWords
<1>7. \A a \in Tgt(m, e, s, z) : n[Res(n, s, a)] = m[Res(m, s, a)]
  BY <1>3 DEF Moved, SameObject
<1>8. CopyState(n, f, s, z, oldEnd)
  BY <1>3
<1> USE DEF m, e, n, f, s, z
<1>9. CopyState(mem, top, from, limit, oldEnd)'
  BY <1>8 DEF CopyState, Layout
<1> QED BY <1>1, <1>3, <1>4, <1>5, <1>6, <1>7, <1>8, <1>9

(* The first of the remembered slots.                                       *)
LEMMA FirstMarked ==
  ASSUME NEW marked, marked \subseteq Nat, marked # {}
  PROVE  Min(marked) \in marked /\ \A x \in marked : Min(marked) <= x
<1>1. \E x \in marked : \A y \in marked : x <= y
  BY LeastOf
<1> QED BY <1>1, Zenon DEF Min

(* A slot of an object below oldEnd is below it.                            *)
LEMMA SlotBelow ==
  ASSUME NEW m, NEW e, NEW s, NEW z, NEW lo, CopyState(m, e, s, z, lo),
         NEW a \in Objs(m, e, s, z), a < lo, NEW c \in Range(Slots(m, a))
  PROVE  c \in Cells /\ c \in Nat /\ c < lo /\ a < e /\ a \in Nat
<1>1. Layout(m, e, s, z) /\ lo \in Nat /\ lo <= e /\ e \in Nat
  BY CopyStateIs
<1>2. c \in Cells /\ a \in Nat /\ AllocationSize(m, a) \in Nat /\ c < a + AllocationSize(m, a)
  BY <1>1, ObjectIs
<1>3. a < e
  BY <1>1, <1>2
<1>4. lo = e \/ lo \in Objs(m, e, s, z)
  BY DEF CopyState, Tiles
<1>5. a + AllocationSize(m, a) <= lo
  BY <1>1, <1>3, <1>4 DEF Layout
<1>6. c \in Nat
  BY <1>2 DEF Cells
<1> QED BY <1>1, <1>2, <1>3, <1>5, <1>6

(* iterate-marked keeps the invariant.                                      *)
LEMMA IterateMarkedKeeps ==
  ASSUME Inv, IterateMarked
  PROVE  Inv'
<1> DEFINE marked == {c \in bits : p <= c /\ c < oldEnd}
           O == Objs(mem, top, from, limit)
<1>1. Numbers /\ CopyInv /\ phase = "remembered"
  BY DEF Inv, Copying, IterateMarked
<1>2. /\ size' = size /\ sizeLimit' = sizeLimit /\ limit' = limit /\ from' = from /\ oldEnd' = oldEnd
      /\ allocated' = allocated /\ bits' = bits /\ var' = var /\ frame' = frame /\ request' = request
      /\ stacks' = stacks /\ trackers' = trackers /\ liveStacks' = liveStacks
  BY DEF IterateMarked, heapVars, lists
<1>3. /\ CopyState(mem, top, from, limit, oldEnd)
      /\ BitsIn(bits, mem, {a \in O : a < oldEnd})
      /\ CleanTo(mem, top, from, limit, oldEnd, {c \in bits : p <= c})
  BY <1>1 DEF CopyInv
<1>4. /\ oldEnd \in Nat /\ oldEnd <= MaxSize /\ top \in Nat /\ oldEnd <= top /\ p \in Nat
  BY <1>1, <1>3, CopyStateIs, Sizes DEF Numbers
<1>5. \A c \in bits : \E a \in O : a < oldEnd /\ c \in Range(Slots(mem, a))
  BY <1>3 DEF BitsIn
<1>6. marked \subseteq Nat
  BY <1>3, <1>5, SlotBelow
<1>7. /\ Step(mem, top, mem', top', from, limit, oldEnd)
      /\ CleanTo(mem', top', from', limit', oldEnd', IF phase' = "remembered" THEN {c \in bits : p' <= c} ELSE {})
      /\ phase' \in {"remembered", "roots"} /\ p' \in 0 .. MaxSize
  <2>1. CASE marked # {}
    <3> DEFINE c == Min(marked)
               h == CopySlot(Heap(frame), c)
    <3>1. c \in marked /\ \A x \in marked : c <= x
      BY <1>6, <2>1, FirstMarked
    <3>2. mem' = h.mem /\ top' = h.top /\ p' = c + 1 /\ phase' = "remembered"
      BY <1>1, <2>1 DEF IterateMarked
    <3>3. PICK a \in O : a < oldEnd /\ c \in Range(Slots(mem, a))
      BY <1>5, <3>1
    <3>4. a < top
      BY <1>3, <3>3, SlotBelow
    <3>5. Heap(frame).mem = mem /\ Heap(frame).top = top
      BY DEF Heap
    <3>6. Step(mem, top, h.mem, h.top, from, limit, oldEnd) /\ c \in Cells /\ Clean(h.mem[c], h.top)
      <4> DEFINE g == Heap(frame)
      <4>1. CopyState(g.mem, g.top, from, limit, oldEnd) /\ a \in Objs(g.mem, g.top, from, limit)
            /\ a < g.top /\ c \in Range(Slots(g.mem, a))
        BY <1>3, <3>3, <3>4, <3>5
      <4> HIDE DEF g, c
      <4>2. LET r == CopySlot(g, c) IN
            Step(g.mem, g.top, r.mem, r.top, from, limit, oldEnd) /\ c \in Cells /\ Clean(r.mem[c], r.top)
        BY <4>1, CopySlotStep
      <4> USE DEF g
      <4> QED BY <3>5, <4>2
    <3> HIDE DEF c, h
    <3>7. Step(mem, top, mem', top', from, limit, oldEnd)
      BY <3>2, <3>6
    <3>8. CleanTo(mem', top', from', limit', oldEnd, {x \in bits : p <= x})
      BY <1>1, <1>2, <1>3, <1>4, <3>7, CopyOn
    <3>9. CopyState(mem', top', from', limit', oldEnd)
      BY <1>1, <1>2, <3>7, CopyOn
    <3>10. CleanTo(mem', top', from', limit', oldEnd, {x \in bits : p' <= x})
      <4> SUFFICES ASSUME NEW b \in Objs(mem', top', from', limit'), b < oldEnd, NEW x \in Range(Slots(mem', b))
                   PROVE  Clean(mem'[x], top') \/ x \in {y \in bits : p' <= y}
        BY DEF CleanTo
      <4>1. Clean(mem'[x], top') \/ x \in {y \in bits : p <= y}
        BY <3>8 DEF CleanTo
      <4>2. x \in Nat /\ x < oldEnd
        BY <3>9, SlotBelow
      <4>3. x \in bits /\ p <= x => c = x \/ c + 1 <= x
        BY <1>6, <3>1, <4>2
      <4> QED BY <3>2, <3>6, <4>1, <4>3
    <3>11. p' \in 0 .. MaxSize
      BY <1>4, <1>6, <3>1, <3>2, Sizes
    <3> QED BY <1>2, <3>2, <3>7, <3>10, <3>11
  <2>2. CASE marked = {}
    <3>1. mem' = mem /\ top' = top /\ p' = p /\ phase' = "roots"
      BY <1>1, <2>2 DEF IterateMarked
    <3>2. Step(mem, top, mem', top', from, limit, oldEnd)
      BY <1>3, <3>1, StepNot
    <3>3. CleanTo(mem, top, from, limit, oldEnd, {})
      <4> SUFFICES ASSUME NEW b \in O, b < oldEnd, NEW x \in Range(Slots(mem, b))
                   PROVE  Clean(mem[x], top)
        BY DEF CleanTo
      <4>1. Clean(mem[x], top) \/ x \in {y \in bits : p <= y}
        BY <1>3 DEF CleanTo
      <4>2. x < oldEnd
        BY <1>3, SlotBelow
      <4> QED BY <2>2, <4>1, <4>2
    <3> QED BY <1>1, <1>2, <3>1, <3>2, <3>3 DEF Numbers
  <2> QED BY <2>1, <2>2
<1>8. /\ CopyState(mem, top, from, limit, oldEnd)' /\ from' <= limit'
      /\ top' \in Nat /\ top' <= from' /\ from' \in Nat
      /\ TrackersListed(mem', top', from', limit', trackers)
      /\ BitsIn(bits, mem', {a \in Objs(mem', top', from', limit') : a < oldEnd'})
  BY <1>1, <1>2, <1>7, CopyOn DEF Numbers
<1>9. WordsIn(var, Roots, Tgt(mem', top', from', limit'))
  BY <1>1, <1>2, <1>7, CopyOn DEF CopyInv
<1>10. WordsIn(frame, NamesOf(mem', StacksIn(mem', top', from', limit')), Tgt(mem', top', from', limit'))
  BY <1>1, <1>2, <1>7, CopyOn DEF CopyInv
<1>11. StacksListed(mem', top', from', limit', stacks, liveStacks)
  BY <1>1, <1>2, <1>7, CopyOn DEF CopyInv
<1>12. var[CurrentStack].k = "ref" /\ mem'[Res(mem', from', var[CurrentStack].v)].t = "stack"
  BY <1>1, <1>2, <1>7, CopyOn DEF CopyInv, WordsIn, Value, Roots
<1>13. liveStacks = << >> /\ YoungFirst(stacks, from)
  BY <1>1 DEF CopyInv
<1>14. CopyInv'
  BY <1>2, <1>7, <1>8, <1>9, <1>10, <1>11, <1>12, <1>13 DEF CopyInv
<1>15. Numbers'
  BY <1>1, <1>2, <1>7, <1>8 DEF Numbers
<1> QED BY <1>7, <1>14, <1>15 DEF Inv, Copying
-----------------------------------------------------------------------------
(* All roots are in the sequence that copy-roots goes through.              *)
LEMMA RootsInSequence ==
  \E n \in Nat : /\ DOMAIN SetToSeq(Roots) = 1 .. n
                 /\ \A i \in 1 .. n : SetToSeq(Roots)[i] \in Roots
                 /\ Range(SetToSeq(Roots)) = Roots
<1> DEFINE n == Cardinality(Roots)
<1>1. IsFiniteSet(Roots)
  BY RootsFinite, FS_AddElement DEF Roots
<1>2. n \in Nat /\ ExistsBijection(1 .. n, Roots)
  BY <1>1, FS_CardinalityType
<1>3. \E f \in [1 .. n -> Roots] : IsInjective(f)
  BY <1>2, Zenon DEF ExistsBijection, Bijection, Injection
<1>4. SetToSeq(Roots) \in [1 .. n -> Roots] /\ IsInjective(SetToSeq(Roots))
  BY <1>3, Zenon DEF SetToSeq
<1>5. SetToSeq(Roots) \in Injection(1 .. n, Roots)
  BY <1>4, Zenon DEF Injection
<1>6. Cardinality(1 .. n) = n
  BY <1>2, FS_Interval
<1>7. SetToSeq(Roots) \in Surjection(1 .. n, Roots)
  BY <1>1, <1>5, <1>6, FS_Injection
<1> HIDE DEF n
<1>8. Range(SetToSeq(Roots)) = Roots
  BY <1>4, <1>7 DEF Surjection, Range
<1> QED BY <1>2, <1>4, <1>8

(* copy-roots keeps the invariant.                                          *)
LEMMA CopyRootsKeeps ==
  ASSUME Inv, CopyRoots
  PROVE  Inv'
<1> DEFINE b == Heap(var)
           h == CopyWords(b, SetToSeq(Roots))
           T == Tgt(mem, top, from, limit)
<1>1. Numbers /\ CopyInv /\ phase = "roots"
  BY DEF Inv, Copying, CopyRoots
<1>2. /\ size' = size /\ sizeLimit' = sizeLimit /\ limit' = limit /\ from' = from /\ oldEnd' = oldEnd
      /\ allocated' = allocated /\ bits' = bits /\ frame' = frame /\ request' = request /\ p' = p
      /\ stacks' = stacks /\ trackers' = trackers /\ liveStacks' = liveStacks /\ phase' = "oldStacks"
      /\ mem' = h.mem /\ top' = h.top /\ var' = h.words
  BY DEF CopyRoots, heapVars, lists
<1>3. b.mem = mem /\ b.top = top /\ b.words = var
  BY DEF Heap
<1>4. CopyState(mem, top, from, limit, oldEnd) /\ WordsIn(var, Roots, T)
  BY <1>1 DEF CopyInv
<1>5. WordsDone(b, h, from, limit, oldEnd, Roots, Roots)
  <2>1. PICK n \in Nat : /\ DOMAIN SetToSeq(Roots) = 1 .. n
                         /\ \A i \in 1 .. n : SetToSeq(Roots)[i] \in Roots
                         /\ Range(SetToSeq(Roots)) = Roots
    BY RootsInSequence
  <2>2. CopyState(b.mem, b.top, from, limit, oldEnd) /\ WordsIn(b.words, Roots, Tgt(b.mem, b.top, from, limit))
    BY <1>3, <1>4
  <2> HIDE DEF b
  <2> DEFINE xs == SetToSeq(Roots)
  <2>3. DOMAIN xs = 1 .. n /\ \A i \in 1 .. n : xs[i] \in Roots
    BY <2>1
  <2> HIDE DEF xs
  <2>4. WordsDone(b, CopyWords(b, xs), from, limit, oldEnd, Roots, Range(xs))
    BY <2>2, <2>3, CopyWordsDone
  <2> QED BY <2>1, <2>4 DEF xs
<1> HIDE DEF b, h
<1>6. /\ Step(mem, top, mem', top', from, limit, oldEnd)
      /\ WordsIn(var', Roots, Tgt(mem', top', from, limit))
      /\ \A r \in Roots : Follows(mem, var[r], mem', var'[r], from) /\ Clean(var'[r], top')
  BY <1>2, <1>3, <1>5 DEF WordsDone
<1>7. /\ CopyState(mem, top, from, limit, oldEnd)' /\ from' <= limit'
      /\ top' \in Nat /\ top' <= from' /\ from' \in Nat
      /\ TrackersListed(mem', top', from', limit', trackers)
      /\ BitsIn(bits, mem', {a \in Objs(mem', top', from', limit') : a < oldEnd'})
  BY <1>1, <1>2, <1>6, CopyOn DEF Numbers
<1>8. WordsIn(frame, NamesOf(mem', StacksIn(mem', top', from', limit')), Tgt(mem', top', from', limit'))
  BY <1>1, <1>2, <1>6, CopyOn DEF CopyInv
<1>9. StacksListed(mem', top', from', limit', stacks, liveStacks)
  BY <1>1, <1>2, <1>6, CopyOn DEF CopyInv
<1>10. var'[CurrentStack].k = "ref" /\ mem'[Res(mem', from, var'[CurrentStack].v)].t = "stack"
  <2>1. CurrentStack \in Roots
    BY DEF Roots
  <2> QED BY <1>1, <1>6, <2>1 DEF CopyInv, Follows
<1>11. CleanTo(mem', top', from', limit', oldEnd', {})
  <2>1. CleanTo(mem, top, from, limit, oldEnd, {}) /\ oldEnd \in Nat /\ oldEnd <= top
    BY <1>1, <1>4, CopyStateIs DEF CopyInv
  <2> QED BY <1>1, <1>2, <1>6, <2>1, CopyOn
<1>12. liveStacks = << >> /\ YoungFirst(stacks, from)
  BY <1>1 DEF CopyInv
<1>13. CopyInv'
  BY <1>2, <1>6, <1>7, <1>8, <1>9, <1>10, <1>11, <1>12 DEF CopyInv
<1>14. Numbers'
  BY <1>1, <1>2, <1>7 DEF Numbers
<1> QED BY <1>2, <1>13, <1>14 DEF Inv, Copying
-----------------------------------------------------------------------------
(* Where the first old element of a list is.                                *)
LEMMA FirstOldIs ==
  ASSUME top \in Nat, NEW list \in Seq(Cells)
  PROVE  \E k \in 0 .. Len(list) : /\ FirstOld(list) = k + 1
                                   /\ \A i \in 1 .. k : list[i] >= top
                                   /\ k < Len(list) => list[k + 1] < top
<1> DEFINE old == {i \in DOMAIN list : list[i] < top}
           new == {i \in DOMAIN list : \A j \in 1 .. i : list[j] >= top}
<1>1. DOMAIN list = 1 .. Len(list) /\ Len(list) \in Nat /\ \A i \in DOMAIN list : list[i] \in Nat
  <2>1. DOMAIN list = 1 .. Len(list) /\ Len(list) \in Nat /\ \A i \in DOMAIN list : list[i] \in Cells
    OBVIOUS
  <2>2. \A c \in Cells : c \in Nat
    BY DEF Cells
  <2> QED BY <2>1, <2>2
<1>2. \E k \in 0 .. Len(list) : /\ \A i \in 1 .. k : list[i] >= top
                                /\ k < Len(list) => list[k + 1] < top
  <2>1. CASE old = {}
    <3>1. \A i \in DOMAIN list : list[i] >= top
      BY <1>1, <2>1
    <3> QED BY <1>1, <3>1
  <2>2. CASE old # {}
    <3>1. old \subseteq Nat
      BY <1>1
    <3>2. PICK j \in old : \A i \in old : j <= i
      BY <2>2, <3>1, LeastOf
    <3>3. j \in 1 .. Len(list) /\ list[j] < top
      BY <1>1, <3>2
    <3>4. \A i \in 1 .. j - 1 : list[i] >= top
      BY <1>1, <3>2, <3>3
    <3>5. j - 1 \in 0 .. Len(list) /\ (j - 1) + 1 = j
      BY <1>1, <3>3
    <3> QED BY <3>3, <3>4, <3>5
  <2> QED BY <2>1, <2>2
<1>3. PICK k \in 0 .. Len(list) : /\ \A i \in 1 .. k : list[i] >= top
                                  /\ k < Len(list) => list[k + 1] < top
  BY <1>2
<1>4. new = 1 .. k
  <2> SUFFICES ASSUME NEW i PROVE i \in new <=> i \in 1 .. k
    BY Zenon
  <2>1. ASSUME i \in new PROVE i \in 1 .. k
    <3>1. i \in 1 .. Len(list) /\ \A j \in 1 .. i : list[j] >= top
      BY <1>1, <2>1
    <3>2. ASSUME k < i PROVE FALSE
      <4>1. k + 1 \in 1 .. i /\ k < Len(list) /\ k + 1 \in DOMAIN list
        BY <1>1, <3>1, <3>2
      <4>2. list[k + 1] >= top /\ list[k + 1] < top
        BY <1>3, <3>1, <4>1
      <4> QED BY <1>1, <4>1, <4>2
    <3> QED BY <3>1, <3>2
  <2>2. ASSUME i \in 1 .. k PROVE i \in new
    BY <1>1, <1>3, <2>2
  <2> QED BY <2>1, <2>2
<1>5. Cardinality(new) = k
  <2>1. 1 \in Int /\ k \in Int /\ k \in Nat
    BY <1>1
  <2>2. Cardinality(1 .. k) = IF 1 > k THEN 0 ELSE k - 1 + 1
    BY <2>1, FS_Interval
  <2> HIDE DEF new
  <2> QED BY <1>4, <2>1, <2>2
<1> HIDE DEF new
<1>6. FirstOld(list) = k + 1
  BY <1>5 DEF FirstOld, new
<1> QED BY <1>3, <1>6

(* The new elements of a list come first.                                   *)
Split(list, s) ==
  /\ NewPrefix(list) \in Seq(Cells) /\ OldSuffix(list) \in Seq(Cells)
  /\ \E k \in 0 .. Len(list) :
       /\ DOMAIN NewPrefix(list) = 1 .. k /\ DOMAIN OldSuffix(list) = 1 .. Len(list) - k
       /\ \A i \in 1 .. k : NewPrefix(list)[i] = list[i] /\ s <= list[i]
       /\ \A i \in 1 .. Len(list) - k : OldSuffix(list)[i] = list[k + i] /\ list[k + i] < top

(* copy-stacks splits heap.stacks where the old stacks begin.              *)
LEMMA SplitIs ==
  ASSUME top \in Nat, NEW s \in Nat, top <= s, NEW list \in Seq(Cells), YoungFirst(list, s),
         \A i \in DOMAIN list : list[i] < top \/ s <= list[i]
  PROVE  Split(list, s)
<1>1. DOMAIN list = 1 .. Len(list) /\ Len(list) \in Nat /\ \A i \in DOMAIN list : list[i] \in Nat /\ list[i] \in Cells
  <2>1. DOMAIN list = 1 .. Len(list) /\ Len(list) \in Nat /\ \A i \in DOMAIN list : list[i] \in Cells
    OBVIOUS
  <2>2. \A c \in Cells : c \in Nat
    BY DEF Cells
  <2> QED BY <2>1, <2>2
<1>2. PICK k \in 0 .. Len(list) : /\ FirstOld(list) = k + 1
                                  /\ \A i \in 1 .. k : list[i] >= top
                                  /\ k < Len(list) => list[k + 1] < top
  BY FirstOldIs
<1>3. \A i \in 1 .. k : s <= list[i]
  BY <1>1, <1>2
<1>4. ASSUME NEW i \in 1 .. Len(list) - k PROVE list[k + i] < top
  <2>1. k + i \in DOMAIN list /\ k < Len(list) /\ k + 1 \in DOMAIN list /\ k \in Nat
    BY <1>1
  <2>2. list[k + 1] < top
    BY <1>2, <2>1
  <2>3. k + 1 = k + i \/ k + 1 < k + i
    BY <1>1
  <2>4. ASSUME k + 1 < k + i, s <= list[k + i] PROVE FALSE
    <3>1. s <= list[k + 1]
      BY <2>1, <2>4 DEF YoungFirst
    <3> QED BY <1>1, <2>1, <2>2, <3>1
  <2> QED BY <1>1, <2>1, <2>2, <2>3, <2>4
<1>5. NewPrefix(list) = SubSeq(list, 1, k) /\ OldSuffix(list) = SubSeq(list, k + 1, Len(list))
  BY <1>2 DEF NewPrefix, OldSuffix
<1>6. /\ SubSeq(list, 1, k) \in Seq(Cells) /\ DOMAIN SubSeq(list, 1, k) = 1 .. k
      /\ \A i \in 1 .. k : SubSeq(list, 1, k)[i] = list[i]
  BY <1>1
<1>7. /\ SubSeq(list, k + 1, Len(list)) \in Seq(Cells)
      /\ DOMAIN SubSeq(list, k + 1, Len(list)) = 1 .. Len(list) - k
      /\ \A i \in 1 .. Len(list) - k : SubSeq(list, k + 1, Len(list))[i] = list[k + i]
  BY <1>1
<1> QED BY <1>3, <1>4, <1>5, <1>6, <1>7 DEF Split

(* The two parts of a list of objects.                                      *)
SplitParts(m, e, s, z, list) ==
  /\ Listed(m, e, s, z, NewPrefix(list)) /\ Listed(m, e, s, z, OldSuffix(list))
  /\ Range(list) = Range(NewPrefix(list)) \cup Range(OldSuffix(list))
  /\ \A a \in Range(NewPrefix(list)) : s <= a
  /\ \A a \in Range(OldSuffix(list)) : a < top
  /\ \A i \in DOMAIN NewPrefix(list), j \in DOMAIN OldSuffix(list) :
       NameOf(m, s, NewPrefix(list)[i]) # NameOf(m, s, OldSuffix(list)[j])

(* Both parts are lists of objects, the new ones all from the nursery.     *)
LEMMA SplitListed ==
  ASSUME NEW m, NEW s \in Nat, NEW z, top \in Nat, top <= s,
         NEW list, Listed(m, top, s, z, list), YoungFirst(list, s)
  PROVE  SplitParts(m, top, s, z, list)
<1> DEFINE np == NewPrefix(list)
           os == OldSuffix(list)
<1>1. /\ list \in Seq(Cells) /\ DOMAIN list = 1 .. Len(list) /\ Len(list) \in Nat
      /\ \A i \in DOMAIN list : list[i] \in Tgt(m, top, s, z)
      /\ \A i, j \in DOMAIN list : i # j => NameOf(m, s, list[i]) # NameOf(m, s, list[j])
  BY DEF Listed
<1>2. \A i \in DOMAIN list : list[i] < top \/ s <= list[i]
  BY <1>1 DEF Tgt
<1>3. Split(list, s)
  BY <1>1, <1>2, SplitIs
<1>4. PICK k \in 0 .. Len(list) :
       /\ DOMAIN np = 1 .. k /\ DOMAIN os = 1 .. Len(list) - k
       /\ \A i \in 1 .. k : np[i] = list[i] /\ s <= list[i]
       /\ \A i \in 1 .. Len(list) - k : os[i] = list[k + i] /\ list[k + i] < top
  BY <1>3 DEF Split
<1>5. np \in Seq(Cells) /\ os \in Seq(Cells)
  BY <1>3 DEF Split
<1> HIDE DEF np, os
<1>6. k \in Nat /\ \A i \in 1 .. k : i \in DOMAIN list
  BY <1>1
<1>7. \A i \in 1 .. Len(list) - k : k + i \in DOMAIN list /\ i \in Nat /\ k < k + i
  BY <1>1
<1>8. Listed(m, top, s, z, np)
  BY <1>1, <1>4, <1>5, <1>6 DEF Listed
<1>9. Listed(m, top, s, z, os)
  <2>1. \A i, j \in DOMAIN os : i # j => NameOf(m, s, os[i]) # NameOf(m, s, os[j])
    <3> SUFFICES ASSUME NEW i \in DOMAIN os, NEW j \in DOMAIN os, i # j
                 PROVE  NameOf(m, s, os[i]) # NameOf(m, s, os[j])
      OBVIOUS
    <3>1. k + i \in DOMAIN list /\ k + j \in DOMAIN list /\ k + i # k + j
      BY <1>4, <1>6, <1>7
    <3> QED BY <1>1, <1>4, <3>1
  <2> QED BY <1>1, <1>4, <1>5, <1>7, <2>1 DEF Listed
<1>10. Range(list) = Range(np) \cup Range(os)
  <2> SUFFICES ASSUME NEW a PROVE a \in Range(list) <=> a \in Range(np) \/ a \in Range(os)
    BY Zenon
  <2>1. ASSUME a \in Range(list) PROVE a \in Range(np) \/ a \in Range(os)
    <3>1. PICK i \in DOMAIN list : a = list[i]
      BY <2>1 DEF Range
    <3>2. i \in 1 .. k \/ (i - k \in 1 .. Len(list) - k /\ k + (i - k) = i)
      BY <1>1, <1>6
    <3>3. CASE i \in 1 .. k
      BY <1>4, <3>1, <3>3 DEF Range
    <3>4. CASE i - k \in 1 .. Len(list) - k /\ k + (i - k) = i
      BY <1>4, <3>1, <3>4 DEF Range
    <3> QED BY <3>2, <3>3, <3>4
  <2>2. ASSUME a \in Range(np) PROVE a \in Range(list)
    BY <1>4, <1>6, <2>2 DEF Range
  <2>3. ASSUME a \in Range(os) PROVE a \in Range(list)
    BY <1>4, <1>7, <2>3 DEF Range
  <2> QED BY <2>1, <2>2, <2>3
<1>11. \A a \in Range(np) : s <= a
  BY <1>4 DEF Range
<1>12. \A a \in Range(os) : a < top
  BY <1>4 DEF Range
<1>13. ASSUME NEW i \in DOMAIN np, NEW j \in DOMAIN os PROVE NameOf(m, s, np[i]) # NameOf(m, s, os[j])
  <2>1. i \in DOMAIN list /\ k + j \in DOMAIN list /\ i # k + j
    BY <1>4, <1>6, <1>7
  <2> QED BY <1>1, <1>4, <2>1
<1> QED BY <1>8, <1>9, <1>10, <1>11, <1>12, <1>13 DEF SplitParts, np, os
-----------------------------------------------------------------------------
(* A place below the to-space's end is the object itself.                   *)
LEMMA BelowIs ==
  ASSUME NEW m, NEW e \in Nat, NEW s \in Nat, NEW z, e <= s, NEW a \in Tgt(m, e, s, z), a < e
  PROVE  Res(m, s, a) = a /\ a \in Objs(m, e, s, z)
<1>1. a \in Nat
  BY DEF Tgt, Cells
<1>2. Res(m, s, a) = a
  BY <1>1 DEF Res
<1> QED BY <1>2 DEF Tgt

(* copy-stacks, on the stacks that were old already.                        *)
LEMMA CopyOldStacksKeeps ==
  ASSUME Inv, CopyOldStacks
  PROVE  Inv'
<1> DEFINE b == Heap(frame)
           xs == [i \in DOMAIN liveStacks' |-> NameAt(mem, liveStacks'[i])]
           h == CopyWords(b, xs)
           T == Tgt(mem, top, from, limit)
           D == NamesOf(mem, StacksIn(mem, top, from, limit))
<1>1. Numbers /\ CopyInv /\ phase = "oldStacks"
  BY DEF Inv, Copying, CopyOldStacks
<1>2. /\ size' = size /\ sizeLimit' = sizeLimit /\ limit' = limit /\ from' = from /\ oldEnd' = oldEnd
      /\ allocated' = allocated /\ bits' = bits /\ var' = var /\ request' = request
      /\ trackers' = trackers /\ p' = oldEnd
      /\ mem' = h.mem /\ top' = h.top /\ frame' = h.words
      /\ liveStacks' = OldSuffix(stacks) /\ stacks' = NewPrefix(stacks)
  BY DEF CopyOldStacks, heapVars
<1>3. b.mem = mem /\ b.top = top /\ b.words = frame
  BY DEF Heap
<1>4. CopyState(mem, top, from, limit, oldEnd) /\ WordsIn(frame, D, T) /\ YoungFirst(stacks, from)
      /\ StacksListed(mem, top, from, limit, stacks, << >>)
  BY <1>1 DEF CopyInv
<1>5. top \in Nat /\ from \in Nat /\ limit \in Nat /\ top <= from /\ oldEnd \in Nat /\ oldEnd <= top
  BY <1>4, CopyStateIs
<1>6. SplitParts(mem, top, from, limit, stacks)
  <2>1. Listed(mem, top, from, limit, stacks)
    BY <1>4 DEF StacksListed
  <2> QED BY <1>4, <1>5, <2>1, SplitListed
<1>7. \A a \in Range(liveStacks') : a < top /\ a \in T /\ mem[a].v \in D /\ Res(mem, from, a) = a
  <2> SUFFICES ASSUME NEW a \in Range(liveStacks') PROVE a < top /\ a \in T /\ mem[a].v \in D /\ Res(mem, from, a) = a
    OBVIOUS
  <2>1. a < top /\ a \in T /\ a \in Range(stacks)
    BY <1>2, <1>6 DEF SplitParts, Listed, Range
  <2>2. Res(mem, from, a) = a /\ a \in Objs(mem, top, from, limit)
    <3>1. a \in Tgt(mem, top, from, limit) /\ a < top
      BY <2>1
    <3>2. Res(mem, from, a) = a /\ a \in Objs(mem, top, from, limit)
      BY <1>5, <3>1, BelowIs
    <3> QED BY <3>2
  <2>3. mem[a].t = "stack"
    BY <1>4, <2>1, <2>2 DEF StacksListed
  <2> QED BY <2>1, <2>2, <2>3 DEF NamesOf, StacksIn
<1>8. WordsDone(b, h, from, limit, oldEnd, D, Range(xs))
  <2>1. CopyState(b.mem, b.top, from, limit, oldEnd) /\ WordsIn(b.words, D, Tgt(b.mem, b.top, from, limit))
    BY <1>3, <1>4
  <2>2. DOMAIN xs = 1 .. Len(liveStacks') /\ Len(liveStacks') \in Nat
    BY <1>2, <1>6 DEF SplitParts, Listed
  <2>3. \A i \in DOMAIN xs : xs[i] \in D
    BY <1>7 DEF Range, NameAt
  <2> HIDE DEF b, xs, D
  <2> QED BY <2>1, <2>2, <2>3, CopyWordsDone
<1>9. \A a \in Range(liveStacks') : mem[a].v \in Range(xs)
  BY DEF Range, NameAt
<1> HIDE DEF b, h, xs
<1>10. /\ Step(mem, top, mem', top', from, limit, oldEnd)
       /\ WordsIn(frame', D, Tgt(mem', top', from, limit))
       /\ \A a \in Range(liveStacks') : Clean(frame'[mem[a].v], top')
  BY <1>2, <1>3, <1>7, <1>8, <1>9 DEF WordsDone
<1>11. /\ CopyState(mem, top, from, limit, oldEnd)' /\ CopyState(mem', top', from', limit', oldEnd')
       /\ from' <= limit'
       /\ top' \in Nat /\ top' <= from' /\ from' \in Nat /\ top <= top'
       /\ TrackersListed(mem', top', from', limit', trackers)
       /\ BitsIn(bits, mem', {a \in Objs(mem', top', from', limit') : a < oldEnd'})
       /\ NamesOf(mem', StacksIn(mem', top', from', limit')) = D
  BY <1>1, <1>2, <1>10, CopyOn DEF Numbers
<1>12. WordsIn(var, Roots, Tgt(mem', top', from', limit'))
  BY <1>1, <1>2, <1>10, CopyOn DEF CopyInv
<1>13. StacksListed(mem, top, from, limit, stacks', liveStacks')
  <2>1. Listed(mem, top, from, limit, stacks') /\ Listed(mem, top, from, limit, liveStacks')
    BY <1>2, <1>6 DEF SplitParts
  <2>2. Range(stacks) = Range(stacks') \cup Range(liveStacks')
    BY <1>2, <1>6 DEF SplitParts
  <2>3. \A i \in DOMAIN stacks', j \in DOMAIN liveStacks' :
          NameOf(mem, from, stacks'[i]) # NameOf(mem, from, liveStacks'[j])
    BY <1>2, <1>6 DEF SplitParts
  <2>4. Range(<< >>) = {}
    BY DEF Range
  <2>5. /\ \A a \in Range(stacks) : mem[Res(mem, from, a)].t = "stack"
        /\ \A c \in StacksIn(mem, top, from, limit) : \E a \in Range(stacks) : NameOf(mem, from, a) = mem[c].v
    BY <1>4, <2>4 DEF StacksListed
  <2> QED BY <2>1, <2>2, <2>3, <2>5 DEF StacksListed
<1>14. StacksListed(mem', top', from', limit', stacks', liveStacks')
  BY <1>1, <1>2, <1>10, <1>13, CopyOn
<1>15. var[CurrentStack].k = "ref" /\ mem'[Res(mem', from', var[CurrentStack].v)].t = "stack"
  BY <1>1, <1>2, <1>10, CopyOn DEF CopyInv, WordsIn, Value, Roots
<1>16. CleanTo(mem', top', from', limit', oldEnd', {})
  <2>1. CleanTo(mem, top, from, limit, oldEnd, {})
    BY <1>1 DEF CopyInv
  <2> QED BY <1>1, <1>2, <1>5, <1>10, <2>1, CopyOn
<1>17. \A r \in Roots : Clean(var[r], top')
  <2> SUFFICES ASSUME NEW r \in Roots, var[r].k = "ref" PROVE var[r].v < top'
    BY DEF Clean
  <2>1. var[r].v < top /\ var[r] \in WordType
    BY <1>1 DEF CopyInv, Clean, WordsIn
  <2>2. var[r].v \in Nat
    BY <2>1 DEF WordType
  <2> QED BY <1>5, <1>11, <2>1, <2>2
<1>18. \A i \in DOMAIN stacks' : from <= stacks'[i]
  BY <1>2, <1>6 DEF SplitParts, Range
<1>19. \A i \in DOMAIN liveStacks' : liveStacks'[i] < top' /\ Clean(frame'[mem'[liveStacks'[i]].v], top')
  <2> SUFFICES ASSUME NEW a \in Range(liveStacks') PROVE a < top' /\ Clean(frame'[mem'[a].v], top')
    BY DEF Range
  <2>1. a < top /\ a \in T /\ Res(mem, from, a) = a
    BY <1>7
  <2>2. a \in Nat
    BY <2>1 DEF Tgt, Cells
  <2>3. mem'[Res(mem', from', a)] = mem[Res(mem, from, a)]
    BY <1>1, <1>2, <1>10, <2>1, CopyOn
  <2>4. Res(mem', from', a) = a
    BY <1>2, <1>5, <2>1, <2>2 DEF Res
  <2> QED BY <1>5, <1>10, <1>11, <2>1, <2>2, <2>3, <2>4
<1>20. p' = top' \/ (p' < top' /\ p' \in Objs(mem', top', from', limit'))
  <2>1. oldEnd = top' \/ oldEnd \in Objs(mem', top', from', limit')
    BY <1>2, <1>11 DEF CopyState, Tiles
  <2> QED BY <1>2, <1>5, <1>11, <2>1
<1>21. phase' = "scan"
  <2>1. PICK a \in Range(stacks') \cup Range(liveStacks') : TRUE
    <3> DEFINE c == Res(mem, from, var[CurrentStack].v)
    <3>1. CurrentStack \in Roots
      BY DEF Roots
    <3>2. c \in StacksIn(mem, top, from, limit)
      BY <1>1, <3>1 DEF CopyInv, WordsIn, Value, Tgt, StacksIn
    <3> QED BY <1>13, <3>2 DEF StacksListed
  <2>2. HeadOf(liveStacks') # HeadOf(stacks')
    <3>1. stacks' \in Seq(Cells) /\ liveStacks' \in Seq(Cells)
      BY <1>13 DEF StacksListed, Listed
    <3>2. \A q \in Seq(Cells) : q # << >> => Head(q) \in Cells /\ Head(q) = q[1] /\ 1 \in DOMAIN q
      OBVIOUS
    <3>3. stacks' # << >> \/ liveStacks' # << >>
      BY <2>1 DEF Range
    <3>4. \A c \in Cells : c \in Nat /\ c # -1
      BY DEF Cells
    <3>5. ASSUME stacks' # << >>, liveStacks' # << >> PROVE Head(liveStacks') # Head(stacks')
      <4>1. Head(stacks') \in Nat /\ from <= Head(stacks')
        BY <1>18, <3>1, <3>2, <3>4, <3>5
      <4>2. Head(liveStacks') \in Range(liveStacks')
        BY <3>1, <3>2, <3>5 DEF Range
      <4>3. Head(liveStacks') \in Nat /\ Head(liveStacks') < top
        BY <1>7, <3>1, <3>2, <3>4, <3>5, <4>2
      <4> QED BY <1>5, <4>1, <4>3
    <3> QED BY <3>1, <3>2, <3>3, <3>4, <3>5 DEF HeadOf
  <2> QED BY <2>2 DEF CopyOldStacks
<1> HIDE DEF T, D
<1>22. CopyInv'
  <2>1. WordsIn(frame', NamesOf(mem', StacksIn(mem', top', from', limit')), Tgt(mem', top', from', limit'))
    BY <1>2, <1>10, <1>11
  <2>2. CleanTo(mem', top', from', limit', p', {})
    BY <1>2, <1>16
  <2>3. oldEnd' <= p'
    BY <1>2, <1>5
  <2> QED BY <1>2, <1>11, <1>12, <1>14, <1>15, <1>17, <1>18, <1>19, <1>20, <1>21, <2>1, <2>2, <2>3 DEF CopyInv
<1>23. Numbers'
  <2>1. p' \in 0 .. MaxSize
    BY <1>1, <1>2, Sizes DEF Numbers
  <2> QED BY <1>1, <1>2, <1>11, <2>1 DEF Numbers
<1> QED BY <1>21, <1>22, <1>23 DEF Inv, Copying
-----------------------------------------------------------------------------
(* An object has at most one slot.                                          *)
LEMMA OneSlot ==
  ASSUME NEW h, NEW xs, NEW R,
         (xs = << >> /\ R = {}) \/ (\E c : xs = <<c>> /\ R = {c})
  PROVE  \/ (R = {} /\ FoldLeft(CopySlot, h, xs) = h)
         \/ (\E c : R = {c} /\ FoldLeft(CopySlot, h, xs) = CopySlot(h, c))
<1>1. CASE xs = << >> /\ R = {}
  <2>1. DOMAIN xs = 1 .. 0
    BY <1>1
  <2>2. PICK r : SlotsTrace(r, h, xs, 0)
    BY <2>1, SlotsFold, Zenon
  <2> QED BY <1>1, <2>2 DEF SlotsTrace
<1>2. CASE \E c : xs = <<c>> /\ R = {c}
  <2>1. PICK c : xs = <<c>> /\ R = {c}
    BY <1>2
  <2>2. DOMAIN xs = 1 .. 1 /\ xs[1] = c
    BY <2>1
  <2>3. PICK r : SlotsTrace(r, h, xs, 1)
    <3>1. 1 \in Nat
      OBVIOUS
    <3> QED BY <2>2, <3>1, SlotsFold, Zenon
  <2>4. r[0] = h /\ r[1] = CopySlot(r[1 - 1], xs[1]) /\ FoldLeft(CopySlot, h, xs) = r[1]
    BY <2>3 DEF SlotsTrace
  <2>5. FoldLeft(CopySlot, h, xs) = CopySlot(h, c)
    <3>1. 1 - 1 = 0
      OBVIOUS
    <3> QED BY <2>2, <2>4, <3>1
  <2> QED BY <2>1, <2>5
<1> QED BY <1>1, <1>2

(* complete-copying, of one object.                                         *)
LEMMA CompleteCopyingKeeps ==
  ASSUME Inv, CompleteCopying
  PROVE  Inv'
<1> DEFINE b == Heap(frame)
           h == FoldLeft(CopySlot, b, Slots(mem, p))
           O == Objs(mem, top, from, limit)
           D == NamesOf(mem, StacksIn(mem, top, from, limit))
<1>1. Numbers /\ CopyInv /\ phase = "scan" /\ p < top
  BY DEF Inv, Copying, CompleteCopying
<1>2. /\ size' = size /\ sizeLimit' = sizeLimit /\ limit' = limit /\ from' = from /\ oldEnd' = oldEnd
      /\ allocated' = allocated /\ bits' = bits /\ var' = var /\ request' = request
      /\ trackers' = trackers /\ stacks' = stacks /\ liveStacks' = liveStacks /\ frame' = frame
      /\ mem' = h.mem /\ top' = h.top /\ p' = p + AllocationSize(mem, p) /\ phase' = "scan"
  BY DEF CompleteCopying, heapVars, lists
<1>3. b.mem = mem /\ b.top = top
  BY DEF Heap
<1>4. /\ CopyState(mem, top, from, limit, oldEnd)
      /\ CleanTo(mem, top, from, limit, p, {})
      /\ oldEnd <= p
  BY <1>1 DEF CopyInv
<1>5. Layout(mem, top, from, limit)
      /\ top \in Nat /\ from \in Nat /\ limit \in Nat /\ top <= from /\ oldEnd \in Nat /\ oldEnd <= top /\ p \in Nat
  BY <1>1, <1>4, CopyStateIs DEF Numbers
<1>6. p \in O
  BY <1>1, <1>5 DEF CopyInv
<1>7. /\ mem[p].t \in AllTypes /\ AllocationSize(mem, p) \in {2, 3}
      /\ Range(Slots(mem, p)) = IF mem[p].t = "cell" THEN {p + 1} ELSE IF mem[p].t = "box" THEN {p + 2} ELSE {}
      /\ Slots(mem, p) = IF mem[p].t = "cell" THEN <<p + 1>> ELSE IF mem[p].t = "box" THEN <<p + 2>> ELSE << >>
  <2>1. mem[p].t \in AllTypes
    BY <1>5, <1>6, ObjectIs
  <2> QED BY <1>5, <2>1, SizesAre
<1>8. \/ Range(Slots(mem, p)) = {} /\ h = b
      \/ \E c : Range(Slots(mem, p)) = {c} /\ h = CopySlot(b, c)
  <2>1. \/ Slots(mem, p) = << >> /\ Range(Slots(mem, p)) = {}
        \/ \E c : Slots(mem, p) = <<c>> /\ Range(Slots(mem, p)) = {c}
    BY <1>7
  <2> HIDE DEF b
  <2> QED BY <2>1, OneSlot
<1>9. /\ Step(mem, top, mem', top', from, limit, oldEnd)
      /\ \A c \in Range(Slots(mem, p)) : Clean(mem'[c], top')
  <2>1. CASE Range(Slots(mem, p)) = {} /\ h = b
    <3>1. mem' = mem /\ top' = top
      BY <1>2, <1>3, <2>1
    <3> QED BY <1>4, <2>1, <3>1, StepNot
  <2>2. CASE \E c : Range(Slots(mem, p)) = {c} /\ h = CopySlot(b, c)
    <3>1. PICK c : Range(Slots(mem, p)) = {c} /\ h = CopySlot(b, c)
      BY <2>2
    <3>2. CopyState(b.mem, b.top, from, limit, oldEnd) /\ p \in Objs(b.mem, b.top, from, limit)
          /\ p < b.top /\ c \in Range(Slots(b.mem, p))
      BY <1>1, <1>3, <1>4, <1>6, <3>1
    <3> HIDE DEF b, h
    <3>3. Step(b.mem, b.top, h.mem, h.top, from, limit, oldEnd) /\ c \in Cells /\ Clean(h.mem[c], h.top)
      BY <3>1, <3>2, CopySlotStep
    <3> QED BY <1>2, <1>3, <3>1, <3>3
  <2> QED BY <1>8, <2>1, <2>2
<1> HIDE DEF b, h
<1>10. /\ CopyState(mem, top, from, limit, oldEnd)' /\ CopyState(mem', top', from', limit', oldEnd')
       /\ from' <= limit'
       /\ top' \in Nat /\ top' <= from' /\ from' \in Nat /\ top <= top'
       /\ TrackersListed(mem', top', from', limit', trackers)
       /\ BitsIn(bits, mem', {a \in Objs(mem', top', from', limit') : a < oldEnd'})
       /\ NamesOf(mem', StacksIn(mem', top', from', limit')) = D
  BY <1>1, <1>2, <1>9, CopyOn DEF Numbers
<1>11. WordsIn(var, Roots, Tgt(mem', top', from', limit'))
  BY <1>1, <1>2, <1>9, CopyOn DEF CopyInv
<1>12. WordsIn(frame, D, Tgt(mem', top', from', limit'))
  BY <1>1, <1>2, <1>9, CopyOn DEF CopyInv
<1>13. StacksListed(mem', top', from', limit', stacks, liveStacks)
  BY <1>1, <1>2, <1>9, CopyOn DEF CopyInv
<1>14. var[CurrentStack].k = "ref" /\ mem'[Res(mem', from', var[CurrentStack].v)].t = "stack"
  BY <1>1, <1>2, <1>9, CopyOn DEF CopyInv, WordsIn, Value, Roots
<1>15. \A w \in WordType : Clean(w, top) => Clean(w, top')
  <2>1. \A w \in WordType : w.v \in Nat
    BY DEF WordType
  <2> QED BY <1>5, <1>10, <2>1 DEF Clean
<1>16. \A r \in Roots : Clean(var[r], top')
  BY <1>1, <1>15 DEF CopyInv, WordsIn
<1>17. \A i \in DOMAIN stacks : from <= stacks[i]
  BY <1>1 DEF CopyInv
<1>18. \A i \in DOMAIN liveStacks : liveStacks[i] < top' /\ Clean(frame[mem'[liveStacks[i]].v], top')
  <2> SUFFICES ASSUME NEW i \in DOMAIN liveStacks
               PROVE  liveStacks[i] < top' /\ Clean(frame[mem'[liveStacks[i]].v], top')
    OBVIOUS
  <2> DEFINE a == liveStacks[i]
  <2>1. a < top /\ Clean(frame[mem[a].v], top) /\ a \in Tgt(mem, top, from, limit)
    BY <1>1 DEF CopyInv, StacksListed, Listed
  <2>2. a \in Nat
    BY <2>1 DEF Tgt, Cells
  <2> HIDE DEF a
  <2>3. Res(mem, from, a) = a /\ a \in O
    BY <1>5, <2>1, BelowIs
  <2>4. mem'[Res(mem', from', a)] = mem[Res(mem, from, a)]
    BY <1>1, <1>2, <1>9, <2>1, CopyOn
  <2>5. Res(mem', from', a) = a
    BY <1>2, <1>5, <2>1, <2>2 DEF Res
  <2>6. mem[a].v \in D
    <3>1. a \in Range(liveStacks)
      BY DEF a, Range
    <3>2. mem[Res(mem, from, a)].t = "stack"
      BY <1>1, <3>1 DEF CopyInv, StacksListed
    <3> QED BY <2>3, <3>2 DEF NamesOf, StacksIn
  <2>7. frame[mem[a].v] \in WordType
    BY <1>1, <2>6 DEF CopyInv, WordsIn
  <2>8. Clean(frame[mem'[a].v], top')
    BY <1>15, <2>1, <2>3, <2>4, <2>5, <2>7
  <2>9. a < top'
    BY <1>5, <1>10, <2>1, <2>2
  <2> QED BY <2>8, <2>9 DEF a
<1>19. /\ mem'[p] = mem[p] /\ AllocationSize(mem', p) = AllocationSize(mem, p) /\ p \in Objs(mem', top', from', limit')
       /\ p \in Nat /\ p < top'
  <2>1. Moved(mem, top, mem', top', from, limit)
    BY <1>9 DEF Step
  <2>2. /\ p \in Objs(mem', top', from, limit)
        /\ mem'[p] = mem[p] /\ AllocationSize(mem', p) = AllocationSize(mem, p)
    BY <1>1, <1>5, <1>6, <2>1, MovedBelow
  <2> QED BY <1>1, <1>2, <1>5, <1>10, <2>2
<1>20. p' = top' \/ (p' < top' /\ p' \in Objs(mem', top', from', limit'))
  <2>1. Layout(mem', top', from', limit')
    BY <1>10 DEF CopyState
  <2>2. p' <= top'
    BY <1>2, <1>19, <2>1 DEF Layout
  <2>3. p' = top' \/ p' \in Objs(mem', top', from', limit')
    BY <1>2, <1>4, <1>10, <1>19 DEF CopyState, Tiles
  <2> QED BY <1>2, <1>7, <1>10, <1>19, <2>2, <2>3
<1>21. CleanTo(mem', top', from', limit', p', {})
  <2>1. CleanTo(mem', top', from', limit', p, {})
    BY <1>1, <1>2, <1>4, <1>5, <1>9, CopyOn
  <2>2. Slots(mem', p) = Slots(mem, p)
    BY <1>19 DEF Slots
  <2>3. ASSUME NEW a \in Objs(mem', top', from', limit'), a < p' PROVE a < p \/ a = p
    <3>1. a \in Nat /\ Layout(mem', top', from', limit')
      BY <1>10, CopyStateIs
    <3>2. p < a => p + AllocationSize(mem', p) <= a
      BY <1>19, <3>1 DEF Layout
    <3> QED BY <1>2, <1>7, <1>19, <2>3, <3>1, <3>2
  <2> QED BY <1>9, <2>1, <2>2, <2>3 DEF CleanTo
<1>22. oldEnd <= p' /\ p' \in 0 .. MaxSize
  <2>1. p' \in Nat /\ p <= p' /\ p' <= top'
    BY <1>2, <1>5, <1>7, <1>10, <1>19, <1>20
  <2>2. from' <= MaxSize /\ MaxSize \in Nat
    BY <1>1, <1>2, Sizes DEF Numbers
  <2> QED BY <1>4, <1>5, <1>10, <2>1, <2>2
<1> HIDE DEF D
<1>23. CopyInv'
  <2>1. WordsIn(frame', NamesOf(mem', StacksIn(mem', top', from', limit')), Tgt(mem', top', from', limit'))
    BY <1>2, <1>10, <1>12
  <2> QED BY <1>2, <1>10, <1>11, <1>13, <1>14, <1>16, <1>17, <1>18, <1>20, <1>21, <1>22, <2>1 DEF CopyInv
<1>24. Numbers'
  BY <1>1, <1>2, <1>10, <1>22 DEF Numbers
<1> QED BY <1>2, <1>23, <1>24 DEF Inv, Copying
-----------------------------------------------------------------------------
(* copy-stacks, one pass over the stacks that are not live yet.             *)
LEMMA CopyNewStacksKeeps ==
  ASSUME Inv, CopyNewStacks
  PROVE  Inv'
<1> DEFINE b == Heap(frame)
           h0 == [mem |-> mem, top |-> top, words |-> frame, dead |-> << >>, live |-> liveStacks]
           h == FoldLeft(PassOver, h0, stacks)
           D == NamesOf(mem, StacksIn(mem, top, from, limit))
           X == Seen(stacks, Len(stacks))
           A == Range(liveStacks) \cup X
<1>1. Numbers /\ CopyInv /\ phase = "scan" /\ p >= top
  BY DEF Inv, Copying, CopyNewStacks
<1>2. /\ size' = size /\ sizeLimit' = sizeLimit /\ limit' = limit /\ from' = from /\ oldEnd' = p
      /\ allocated' = allocated /\ bits' = bits /\ var' = var /\ request' = request
      /\ trackers' = trackers /\ p' = p
      /\ mem' = h.mem /\ top' = h.top /\ frame' = h.words
      /\ stacks' = h.dead /\ liveStacks' = h.live
      /\ phase' = IF AnotherPass(liveStacks') THEN "scan" ELSE "unreachable"
  BY DEF CopyNewStacks, heapVars
<1>3. b.mem = mem /\ b.top = top /\ b.words = frame
  BY DEF Heap
<1>4. /\ CopyState(mem, top, from, limit, oldEnd) /\ from <= limit
      /\ WordsIn(frame, D, Tgt(mem, top, from, limit))
      /\ StacksListed(mem, top, from, limit, stacks, liveStacks)
      /\ \A i \in DOMAIN stacks : from <= stacks[i]
      /\ \A i \in DOMAIN liveStacks : liveStacks[i] < top /\ Clean(frame[mem[liveStacks[i]].v], top)
      /\ CleanTo(mem, top, from, limit, p, {})
      /\ oldEnd <= p /\ (p = top \/ p < top)
  BY <1>1 DEF CopyInv
<1>5. /\ top \in Nat /\ from \in Nat /\ limit \in Nat /\ top <= from /\ oldEnd \in Nat /\ oldEnd <= top
      /\ p = top /\ from <= MaxSize
  BY <1>1, <1>4, CopyStateIs DEF Numbers
<1>6. CopyState(mem, top, from, limit, top)
  <2>1. \A a \in Objs(mem, top, from, limit) : a \in Nat
    BY <1>4, CopyStateIs
  <2>2. Tiles(mem, top, from, limit, top)
    BY <1>5, <2>1 DEF Tiles
  <2> QED BY <1>4, <2>2 DEF CopyState
<1>7. PassState(h, b, from, limit, top, D, stacks, liveStacks, Len(stacks))
  <2>1. PassBase(b, from, limit, top, D, stacks, liveStacks)
    BY <1>3, <1>4, <1>6 DEF PassBase
  <2>2. h0 = [mem |-> b.mem, top |-> b.top, words |-> b.words, dead |-> << >>, live |-> liveStacks]
    BY <1>3
  <2> HIDE DEF b, D, h0
  <2> QED BY <2>1, <2>2, PassDone
<1> HIDE DEF b, h, h0
<1>8. /\ Step(mem, top, mem', top', from, limit, top)
      /\ WordsIn(frame', D, Tgt(mem', top', from, limit))
      /\ PassLists(mem', top', frame', stacks', liveStacks', from, limit, A, X)
      /\ Same(h, b, liveStacks) \/ Found(h, from, X)
  BY <1>2, <1>3, <1>7 DEF PassState
<1>9. /\ CopyState(mem', top', from, limit, top) /\ Moved(mem, top, mem', top', from, limit)
      /\ top' \in Nat /\ top <= top' /\ top' <= from
      /\ NamesOf(mem', StacksIn(mem', top', from, limit)) = D
  BY <1>6, <1>8, StepKeeps
<1>10. /\ BitsIn(bits, mem', {a \in Objs(mem', top', from, limit) : a < top})
       /\ StacksListed(mem', top', from, limit, stacks, liveStacks)
       /\ TrackersListed(mem', top', from, limit, trackers)
       /\ CleanTo(mem', top', from, limit, top, {})
  <2>1. BitsIn(bits, mem, {a \in Objs(mem, top, from, limit) : a < top})
    <3>1. \A a \in Objs(mem, top, from, limit) : a < oldEnd => a < top
      <4>1. \A a \in Objs(mem, top, from, limit) : a \in Nat
        BY <1>4, CopyStateIs
      <4> QED BY <1>5, <4>1
    <3> QED BY <1>1, <3>1 DEF CopyInv, BitsIn
  <2>2. TrackersListed(mem, top, from, limit, trackers)
    BY <1>1 DEF CopyInv
  <2>3. top <= top
    BY <1>5
  <2>4. StacksListed(mem', top', from, limit, stacks, liveStacks) /\ TrackersListed(mem', top', from, limit, trackers)
    BY <1>4, <1>6, <1>8, <2>2, StepKeeps
  <2>5. BitsIn(bits, mem', {a \in Objs(mem', top', from, limit) : a < top})
    BY <1>5, <1>6, <1>8, <2>1, <2>3, StepKeeps
  <2>6. CleanTo(mem', top', from, limit, top, {})
    <3>1. CleanTo(mem, top, from, limit, top, {})
      BY <1>4, <1>5
    <3> QED BY <1>5, <1>6, <1>8, <2>3, <3>1, StepKeeps
  <2> QED BY <2>4, <2>5, <2>6
<1>11. WordsIn(var, Roots, Tgt(mem', top', from, limit))
  BY <1>1, <1>9, MovedWords DEF CopyInv
<1>12. var[CurrentStack].k = "ref" /\ mem'[Res(mem', from, var[CurrentStack].v)].t = "stack"
  <2>1. var[CurrentStack].v \in Tgt(mem, top, from, limit)
    BY <1>1 DEF CopyInv, WordsIn, Value, Roots
  <2> QED BY <1>1, <1>9, <2>1 DEF CopyInv, Moved, SameObject
<1>13. \A r \in Roots : Clean(var[r], top')
  <2> SUFFICES ASSUME NEW r \in Roots, var[r].k = "ref" PROVE var[r].v < top'
    BY DEF Clean
  <2>1. var[r].v < top /\ var[r] \in WordType
    BY <1>1 DEF CopyInv, Clean, WordsIn
  <2>2. var[r].v \in Nat
    BY <2>1 DEF WordType
  <2> QED BY <1>5, <1>9, <2>1, <2>2
<1>14. X = Range(stacks)
  <2>1. DOMAIN stacks = 1 .. Len(stacks)
    BY <1>4 DEF StacksListed, Listed
  <2> QED BY <2>1 DEF Seen, Range
<1> HIDE DEF X
<1>15. StacksListed(mem', top', from, limit, stacks', liveStacks')
  <2>1. \A a \in A : mem'[Res(mem', from, a)].t = "stack"
    BY <1>10, <1>14 DEF StacksListed
  <2>2. \A c \in StacksIn(mem', top', from, limit) : \E a \in A : NameOf(mem', from, a) = mem'[c].v
    BY <1>10, <1>14 DEF StacksListed
  <2> HIDE DEF A
  <2>3. \A i \in DOMAIN stacks', j \in DOMAIN liveStacks' :
          NameOf(mem', from, stacks'[i]) # NameOf(mem', from, liveStacks'[j])
    BY <1>8 DEF PassLists, Range
  <2>4. Range(stacks') \subseteq A
    BY <1>8 DEF PassLists, A
  <2>5. ASSUME NEW a \in Range(liveStacks') PROVE mem'[Res(mem', from, a)].t = "stack"
    <3>1. a < top' /\ a \in Tgt(mem', top', from, limit) /\ mem'[a].t = "stack"
      BY <1>8 DEF PassLists, Listed, Range
    <3>2. Res(mem', from, a) = a
      BY <1>5, <1>9, <3>1, BelowIs
    <3> QED BY <3>1, <3>2
  <2>6. \A a \in Range(stacks') : mem'[Res(mem', from, a)].t = "stack"
    BY <2>1, <2>4
  <2>7. \A c \in StacksIn(mem', top', from, limit) :
          \E a \in Range(stacks') \cup Range(liveStacks') : NameOf(mem', from, a) = mem'[c].v
    <3> SUFFICES ASSUME NEW c \in StacksIn(mem', top', from, limit)
                 PROVE  \E a \in Range(stacks') \cup Range(liveStacks') : NameOf(mem', from, a) = mem'[c].v
      OBVIOUS
    <3>1. PICK d \in A : NameOf(mem', from, d) = mem'[c].v
      BY <2>2
    <3>2. PICK a \in Range(stacks') \cup Range(liveStacks') : NameOf(mem', from, a) = NameOf(mem', from, d)
      BY <1>8 DEF PassLists
    <3> QED BY <3>1, <3>2
  <2>8. Listed(mem', top', from, limit, stacks') /\ Listed(mem', top', from, limit, liveStacks')
    BY <1>8 DEF PassLists
  <2> QED BY <2>3, <2>5, <2>6, <2>7, <2>8 DEF StacksListed
<1>16. \A i \in DOMAIN stacks' : from <= stacks'[i]
  <2>1. \A a \in Range(stacks) : from <= a
    BY <1>4 DEF Range
  <2>2. Range(stacks') \subseteq Range(stacks)
    BY <1>8, <1>14 DEF PassLists
  <2> QED BY <2>1, <2>2 DEF Range
<1>17. \A i \in DOMAIN liveStacks' : liveStacks'[i] < top' /\ Clean(frame'[mem'[liveStacks'[i]].v], top')
  BY <1>8 DEF PassLists, Range
<1>18. Found(h, from, X) => phase' = "scan"
  <2> SUFFICES ASSUME Found(h, from, X), ~AnotherPass(liveStacks') PROVE FALSE
    BY <1>2
  <2>1. 1 \in DOMAIN liveStacks' /\ \E c \in X : NameOf(mem', from, liveStacks'[1]) = NameOf(mem', from, c)
    BY <1>2 DEF Found
  <2>2. liveStacks' \in Seq(Cells) /\ liveStacks \in Seq(Cells)
    BY <1>8, <1>10 DEF PassLists, Listed, StacksListed
  <2>3. \A q \in Seq(Cells) : q # << >> => Head(q) \in Cells /\ Head(q) = q[1] /\ 1 \in DOMAIN q
    OBVIOUS
  <2>4. liveStacks' # << >>
    BY <2>1
  <2>5. \A c \in Cells : c # -1
    BY DEF Cells
  <2>6. HeadOf(liveStacks') = liveStacks'[1] /\ HeadOf(liveStacks') # -1
    BY <2>2, <2>3, <2>4, <2>5 DEF HeadOf
  <2>7. HeadOf(liveStacks) = HeadOf(liveStacks')
    BY DEF AnotherPass
  <2>8. liveStacks # << >> /\ liveStacks[1] = liveStacks'[1] /\ 1 \in DOMAIN liveStacks
    BY <2>2, <2>3, <2>6, <2>7 DEF HeadOf
  <2>9. PICK i \in DOMAIN stacks : NameOf(mem', from, liveStacks[1]) = NameOf(mem', from, stacks[i])
    BY <1>14, <2>1, <2>8 DEF Range
  <2> QED BY <1>10, <2>8, <2>9 DEF StacksListed
<1>19. CASE Found(h, from, X)
  <2>1. CopyState(mem, top, from, limit, oldEnd)'
    BY <1>2, <1>5, <1>9 DEF CopyState, Layout
  <2>2. p' = top' \/ (p' < top' /\ p' \in Objs(mem', top', from', limit'))
    BY <1>2, <1>5, <1>9 DEF CopyState, Tiles
  <2>3. phase' = "scan"
    BY <1>18, <1>19
  <2> HIDE DEF D, A
  <2>4. WordsIn(frame', NamesOf(mem', StacksIn(mem', top', from', limit')), Tgt(mem', top', from', limit'))
    BY <1>2, <1>8, <1>9
  <2>5. oldEnd' <= p' /\ from' <= limit'
    BY <1>2, <1>4, <1>5
  <2>6. CleanTo(mem', top', from', limit', p', {}) /\ BitsIn(bits', mem', {a \in Objs(mem', top', from', limit') : a < oldEnd'})
        /\ TrackersListed(mem', top', from', limit', trackers')
    BY <1>2, <1>5, <1>10
  <2>7. CopyInv'
    BY <1>2, <1>11, <1>12, <1>13, <1>15, <1>16, <1>17, <2>1, <2>2, <2>3, <2>4, <2>5, <2>6 DEF CopyInv
  <2>8. Numbers'
    BY <1>1, <1>2, <1>4, <1>5, <1>9 DEF Numbers
  <2> QED BY <2>3, <2>7, <2>8 DEF Inv, Copying
<1>20. CASE Same(h, b, liveStacks)
  <2>1. CopyState(mem, top, from, limit, oldEnd)'
    BY <1>2, <1>5, <1>9 DEF CopyState, Layout
  <2>2. mem' = mem /\ top' = top /\ liveStacks' = liveStacks /\ \A a \in Range(stacks') : ~Forwarded(mem', a)
    BY <1>2, <1>3, <1>20 DEF Same
  <2>3. phase' = "unreachable"
    BY <1>2, <2>2 DEF AnotherPass
  <2> HIDE DEF D, A
  <2>4. WordsIn(frame', NamesOf(mem', StacksIn(mem', top', from', limit')), Tgt(mem', top', from', limit'))
    BY <1>2, <1>8, <1>9
  <2>5. from' <= limit' /\ oldEnd' = top' /\ \A i \in DOMAIN stacks' : ~Forwarded(mem', stacks'[i])
    BY <1>2, <1>4, <1>5, <2>2 DEF Range
  <2>6. CleanTo(mem', top', from', limit', oldEnd', {}) /\ BitsIn(bits', mem', {a \in Objs(mem', top', from', limit') : a < oldEnd'})
        /\ TrackersListed(mem', top', from', limit', trackers')
    BY <1>2, <1>5, <1>10
  <2>7. CopyInv'
    BY <1>2, <1>11, <1>12, <1>13, <1>15, <1>16, <1>17, <2>1, <2>3, <2>4, <2>5, <2>6 DEF CopyInv
  <2>8. Numbers'
    BY <1>1, <1>2, <1>4, <1>5, <1>9 DEF Numbers
  <2> QED BY <2>3, <2>7, <2>8 DEF Inv, Copying
<1> QED BY <1>8, <1>19, <1>20
-----------------------------------------------------------------------------
(* update-liveness-trackers, after the first k of the new trackers xs.      *)
Low(m, s, z) == {a \in Objs(m, top, s, z) : a < top}
UpdateBase(m, s, z, lo, xs) ==
  /\ CopyState(m, top, s, z, lo)
  /\ Listed(m, top, s, z, xs)
  /\ \A a \in Range(xs) : /\ s <= a
                          /\ m[Res(m, s, a)].t = "tracker" /\ m[Res(m, s, a) + 1].k = "weak"
Copied(m, xs, k, b) == \E j \in 1 .. k : Forwarded(m, xs[j]) /\ b = m[xs[j]].v
UpdateState(h, m, s, z, xs, k) ==
  /\ h = [mem |-> h.mem, list |-> h.list]
  /\ h.mem \in Memory /\ h.list \in Seq(Cells)
  /\ \A c \in Cells : h.mem[c] = m[c] \/ \E b \in Nat : Copied(m, xs, k, b) /\ c = b + 1
  /\ \A b \in Cells : Copied(m, xs, k, b) =>
       \/ h.mem[b + 1] = Plain
       \/ h.mem[b + 1].k = "weak" /\ h.mem[b + 1].v \in Low(m, s, z) /\ b \in Range(h.list)
  /\ \A b \in Range(h.list) : Copied(m, xs, k, b) /\ h.mem[b + 1].k = "weak"
  /\ \A i, j \in DOMAIN h.list : i # j => h.list[i] # h.list[j]

(* The copy of a new tracker, and that no two trackers have the same one.   *)
CopiedIs(m, s, z, xs, k, b) ==
  /\ b \in Objs(m, top, s, z) /\ b < top /\ b \in Nat /\ b + 1 < top /\ b + 1 \in Cells
  /\ m[b].t = "tracker" /\ m[b + 1].k = "weak"

(* The trackers of the list that were copied, at their new places.         *)
LEMMA CopiesAre ==
  ASSUME NEW m, NEW s, NEW z, NEW lo, NEW xs, UpdateBase(m, s, z, lo, xs),
         NEW k \in 0 .. Len(xs), NEW b, Copied(m, xs, k, b)
  PROVE  CopiedIs(m, s, z, xs, k, b)
<1>1. /\ Layout(m, top, s, z) /\ top \in Nat /\ s \in Nat /\ z \in Nat /\ top <= s
      /\ xs \in Seq(Cells) /\ DOMAIN xs = 1 .. Len(xs) /\ Len(xs) \in Nat
  BY CopyStateIs DEF UpdateBase, Listed
<1>2. PICK j \in 1 .. k : Forwarded(m, xs[j]) /\ b = m[xs[j]].v
  BY DEF Copied
<1> DEFINE a == xs[j]
<1>3. a \in Tgt(m, top, s, z) /\ s <= a /\ m[a].k = "ref" /\ m[Res(m, s, a)].t = "tracker" /\ m[Res(m, s, a) + 1].k = "weak"
  <2>1. j \in DOMAIN xs
    BY <1>1
  <2> QED BY <1>2, <2>1 DEF UpdateBase, Listed, Range, Forwarded
<1> HIDE DEF a
<1>4. Res(m, s, a) = b
  BY <1>2, <1>3 DEF Res, a
<1>5. b \in Objs(m, top, s, z) /\ b < top
  <2>1. b # a
    BY <1>3, <1>4 DEF Tgt, Objs
  <2> QED BY <1>3, <1>4, <2>1 DEF Tgt
<1>6. b \in Nat /\ b + 1 \in Cells /\ AllocationSize(m, b) \in {2, 3}
  BY <1>1, <1>5, ObjectIs
<1>7. b + AllocationSize(m, b) <= top
  BY <1>1, <1>5 DEF Layout
<1>8. b + 1 < top
  BY <1>1, <1>6, <1>7
<1> QED BY <1>3, <1>4, <1>5, <1>6, <1>8 DEF CopiedIs

(* The trackers of the list are different ones.                             *)
LEMMA NotCopiedTwice ==
  ASSUME NEW m, NEW s, NEW z, NEW lo, NEW xs, UpdateBase(m, s, z, lo, xs),
         NEW k \in Nat, k + 1 \in 1 .. Len(xs), Forwarded(m, xs[k + 1])
  PROVE  ~Copied(m, xs, k, m[xs[k + 1]].v)
<1> SUFFICES ASSUME Copied(m, xs, k, m[xs[k + 1]].v) PROVE FALSE
  OBVIOUS
<1>1. /\ DOMAIN xs = 1 .. Len(xs) /\ Len(xs) \in Nat
  BY DEF UpdateBase, Listed
<1>2. PICK j \in 1 .. k : Forwarded(m, xs[j]) /\ m[xs[k + 1]].v = m[xs[j]].v
  BY DEF Copied
<1>3. j \in DOMAIN xs /\ k + 1 \in DOMAIN xs /\ j # k + 1
  BY <1>1
<1>4. NameOf(m, s, xs[j]) # NameOf(m, s, xs[k + 1])
  BY <1>3 DEF UpdateBase, Listed
<1>5. s <= xs[j] /\ s <= xs[k + 1]
  BY <1>3 DEF UpdateBase, Range
<1> QED BY <1>2, <1>4, <1>5 DEF NameOf, Res, Forwarded

(* What UpdateTracker does.                                                 *)
LEMMA UpdateIs ==
  ASSUME NEW h, NEW a, NEW b, h.mem[a].v = b,
         h = [mem |-> h.mem, list |-> h.list]
  PROVE  /\ ~Forwarded(h.mem, a) => UpdateTracker(h, a) = h
         /\ Forwarded(h.mem, a) /\ ExpiredValue(h.mem, b + 1) =>
              UpdateTracker(h, a) = [mem |-> [h.mem EXCEPT ![b + 1] = Plain], list |-> h.list]
         /\ Forwarded(h.mem, a) /\ ~ExpiredValue(h.mem, b + 1) =>
              UpdateTracker(h, a) = [mem |-> [h.mem EXCEPT ![b + 1] =
                                       IF h.mem[b + 1].v >= top THEN Weak(h.mem[h.mem[b + 1].v].v) ELSE h.mem[b + 1]],
                                     list |-> Append(h.list, b)]
<1>1. ~Forwarded(h.mem, a) => UpdateTracker(h, a) = h
  BY DEF UpdateTracker
<1>2. ASSUME Forwarded(h.mem, a), ExpiredValue(h.mem, b + 1)
      PROVE  UpdateTracker(h, a) = [mem |-> [h.mem EXCEPT ![b + 1] = Plain], list |-> h.list]
  <2>1. UpdateTracker(h, a) = [h EXCEPT !.mem[b + 1] = Plain]
    BY <1>2 DEF UpdateTracker
  <2> QED BY <2>1
<1>3. ASSUME Forwarded(h.mem, a), ~ExpiredValue(h.mem, b + 1)
      PROVE  UpdateTracker(h, a) = [mem |-> [h.mem EXCEPT ![b + 1] =
                                       IF h.mem[b + 1].v >= top THEN Weak(h.mem[h.mem[b + 1].v].v) ELSE h.mem[b + 1]],
                                    list |-> Append(h.list, b)]
  BY <1>3 DEF UpdateTracker
<1> QED BY <1>1, <1>2, <1>3
-----------------------------------------------------------------------------
(* A plain word and a weak one are words.                                   *)
LEMMA WordIs ==
  ASSUME NEW a \in Nat
  PROVE  Plain \in WordType /\ Weak(a) \in WordType /\ Ref(a) \in WordType /\ Junk \in WordType
BY DEF Plain, Weak, Ref, Junk, WordType

(* The word and the list after one tracker.                                 *)
Updating(q, r, m, s, z, b, u) ==
  /\ u \in WordType
  /\ r = [mem |-> [q.mem EXCEPT ![b + 1] = u], list |-> r.list]
  /\ \/ u = Plain /\ r.list = q.list
     \/ u.k = "weak" /\ u.v \in Low(m, s, z) /\ r.list = Append(q.list, b)

(* One tracker of the list: it is dropped, or its value follows the object *)
(* or becomes void.                                                        *)
LEMMA UpdateOne ==
  ASSUME NEW m, NEW s, NEW z, NEW lo, NEW xs, UpdateBase(m, s, z, lo, xs),
         NEW k \in Nat, k + 1 \in 1 .. Len(xs), NEW q, UpdateState(q, m, s, z, xs, k),
         NEW r, r = UpdateTracker(q, xs[k + 1])
  PROVE  \/ ~Forwarded(m, xs[k + 1]) /\ r = q
         \/ Forwarded(m, xs[k + 1]) /\ \E u : Updating(q, r, m, s, z, m[xs[k + 1]].v, u)
<1> DEFINE a == xs[k + 1]
           b == m[a].v
           w == m[b + 1]
<1>1. /\ Layout(m, top, s, z) /\ top \in Nat /\ s \in Nat /\ top <= s /\ m \in Memory
  BY CopyStateIs DEF UpdateBase
<1>2. a \in Tgt(m, top, s, z) /\ s <= a /\ a \in Cells /\ a \in Nat
  <2>1. k + 1 \in DOMAIN xs
    BY DEF UpdateBase, Listed
  <2>2. a \in Tgt(m, top, s, z) /\ s <= a
    BY <2>1 DEF UpdateBase, Listed, Range
  <2> QED BY <2>2 DEF Tgt, Cells
<1>3. \A c \in Cells : top <= c => q.mem[c] = m[c]
  <2> SUFFICES ASSUME NEW c \in Cells, top <= c, q.mem[c] # m[c] PROVE FALSE
    OBVIOUS
  <2>1. PICK d \in Nat : Copied(m, xs, k, d) /\ c = d + 1
    BY DEF UpdateState
  <2>2. CopiedIs(m, s, z, xs, k, d)
    <3>1. k \in 0 .. Len(xs)
      BY DEF UpdateBase, Listed
    <3> QED BY <2>1, <3>1, CopiesAre
  <2> QED BY <1>1, <2>1, <2>2 DEF CopiedIs
<1>4. q.mem[a] = m[a] /\ (Forwarded(q.mem, a) <=> Forwarded(m, a))
  BY <1>1, <1>2, <1>3 DEF Forwarded
<1>5. q = [mem |-> q.mem, list |-> q.list] /\ q.mem[a].v = b
  BY <1>4 DEF UpdateState
<1>6. CASE ~Forwarded(m, a)
  <2>1. ~Forwarded(q.mem, a)
    BY <1>4, <1>6
  <2>2. UpdateTracker(q, a) = q
    BY <1>5, <2>1, UpdateIs
  <2> QED BY <1>6, <2>2
<1>7. CASE Forwarded(m, a)
  <2>1. CopiedIs(m, s, z, xs, k + 1, b)
    <3>1. k + 1 \in 0 .. Len(xs) /\ Copied(m, xs, k + 1, b)
      BY <1>7 DEF Copied, UpdateBase, Listed
    <3> QED BY <3>1, CopiesAre
  <2>2. b \in Nat /\ b + 1 \in Cells /\ w.k = "weak" /\ b \in Objs(m, top, s, z) /\ m[b].t = "tracker"
    BY <2>1 DEF CopiedIs
  <2>3. q.mem[b + 1] = w
    <3> SUFFICES ASSUME q.mem[b + 1] # w PROVE FALSE
      OBVIOUS
    <3>1. PICK d \in Nat : Copied(m, xs, k, d) /\ b + 1 = d + 1
      BY <2>2 DEF UpdateState
    <3>2. d = b
      BY <2>2, <3>1
    <3> QED BY <1>7, <3>1, <3>2, NotCopiedTwice
  <2>4. w \in WordType /\ w.v \in Tgt(m, top, s, z)
    <3>1. WeakValue(w, Tgt(m, top, s, z))
      BY <2>2 DEF UpdateBase, CopyState, Fields
    <3> QED BY <1>1, <2>2, <3>1 DEF WeakValue, Memory
  <2>5. w.v \in Nat /\ w.v \in Cells /\ (w.v < top \/ s <= w.v)
    BY <2>4 DEF Tgt, Cells
  <2> DEFINE v == w.v
  <2> HIDE DEF a, b, w
  <2>6. q.mem[a].v = b /\ Forwarded(q.mem, a) /\ UpdateTracker(q, a) = r
    BY <1>4, <1>5, <1>7 DEF a
  <2>7. CASE ExpiredValue(q.mem, b + 1)
    <3>1. r = [mem |-> [q.mem EXCEPT ![b + 1] = Plain], list |-> q.list]
      BY <1>5, <2>6, <2>7, UpdateIs
    <3>2. Plain \in WordType
      BY <1>1, WordIs
    <3>3. Updating(q, r, m, s, z, b, Plain)
      BY <3>1, <3>2 DEF Updating
    <3> QED BY <1>7, <3>3 DEF a, b
  <2>8. CASE ~ExpiredValue(q.mem, b + 1)
    <3> DEFINE u == IF q.mem[b + 1].v >= top THEN Weak(q.mem[q.mem[b + 1].v].v) ELSE q.mem[b + 1]
    <3>1. r = [mem |-> [q.mem EXCEPT ![b + 1] = u], list |-> Append(q.list, b)]
      BY <1>5, <2>6, <2>8, UpdateIs
    <3>2. u = IF v >= top THEN Weak(q.mem[v].v) ELSE w
      BY <2>3
    <3> HIDE DEF u
    <3>3. u \in WordType /\ u.k = "weak" /\ u.v \in Low(m, s, z)
      <4>1. CASE v < top
        <5>1. u = w
          BY <1>1, <2>5, <3>2, <4>1
        <5>2. v \in Objs(m, top, s, z)
          BY <1>1, <2>4, <4>1, BelowIs
        <5>3. v \in Low(m, s, z)
          BY <4>1, <5>2 DEF Low
        <5> QED BY <2>2, <2>4, <5>1, <5>3 DEF w
      <4>2. CASE ~(v < top)
        <5>1. v >= top /\ top <= v /\ s <= v /\ u = Weak(q.mem[v].v)
          BY <1>1, <2>5, <3>2, <4>2
        <5>2. q.mem[v] = m[v]
          BY <1>3, <2>5, <5>1
        <5>3. m[v].k = "ref"
          <6>1. q.mem[b + 1].k = "weak" /\ q.mem[b + 1].v >= top
            BY <2>2, <2>3, <5>1 DEF w
          <6>2. Forwarded(q.mem, v)
            BY <2>3, <2>8, <6>1 DEF ExpiredValue
          <6> QED BY <5>2, <6>2 DEF Forwarded
        <5>4. Res(m, s, v) = m[v].v
          BY <5>1, <5>3 DEF Res
        <5>5. m[v].v \in Objs(m, top, s, z) /\ m[v].v < top
          <6>1. m[v].v # v
            BY <2>4, <5>3, <5>4 DEF Tgt, Objs
          <6> QED BY <2>4, <5>4, <6>1 DEF Tgt
        <5>6. u.k = "weak" /\ u.v = m[v].v
          BY <5>1, <5>2, RefIs
        <5>7. m[v].v \in Nat
          BY <1>1, <5>5, ObjectIs
        <5>8. u \in WordType
          BY <5>1, <5>2, <5>7, WordIs
        <5> QED BY <5>5, <5>6, <5>8 DEF Low
      <4> QED BY <4>1, <4>2
    <3>4. Updating(q, r, m, s, z, b, u)
      BY <3>1, <3>3 DEF Updating
    <3> QED BY <1>7, <3>4 DEF a, b
  <2> QED BY <2>7, <2>8
<1> QED BY <1>6, <1>7

(* After one tracker more.                                                 *)
LEMMA UpdateNext ==
  ASSUME NEW m, NEW s, NEW z, NEW lo, NEW xs, UpdateBase(m, s, z, lo, xs),
         NEW k \in Nat, k + 1 \in 1 .. Len(xs), NEW q, UpdateState(q, m, s, z, xs, k),
         NEW r, r = UpdateTracker(q, xs[k + 1])
  PROVE  UpdateState(r, m, s, z, xs, k + 1)
<1> DEFINE a == xs[k + 1]
           b == m[a].v
<1>1. \/ ~Forwarded(m, a) /\ r = q
      \/ Forwarded(m, a) /\ \E u : Updating(q, r, m, s, z, b, u)
  BY UpdateOne
<1>2. ASSUME NEW d PROVE Copied(m, xs, k + 1, d) <=> (Copied(m, xs, k, d) \/ (Forwarded(m, a) /\ d = b))
  <2>1. \A j : j \in 1 .. (k + 1) <=> j \in 1 .. k \/ j = k + 1
    OBVIOUS
  <2> QED BY <2>1 DEF Copied
<1>3. CASE ~Forwarded(m, a) /\ r = q
  BY <1>2, <1>3 DEF UpdateState
<1>4. CASE Forwarded(m, a) /\ \E u : Updating(q, r, m, s, z, b, u)
  <2>1. PICK u : Updating(q, r, m, s, z, b, u)
    BY <1>4
  <2>2. b \in Nat /\ b \in Cells /\ b + 1 \in Cells
    <3>1. k + 1 \in 0 .. Len(xs) /\ Copied(m, xs, k + 1, b)
      BY <1>4 DEF Copied, UpdateBase, Listed
    <3>2. CopiedIs(m, s, z, xs, k + 1, b)
      BY <3>1, CopiesAre
    <3> QED BY <3>2 DEF CopiedIs, Objs
  <2>3. ~Copied(m, xs, k, b)
    BY <1>4, NotCopiedTwice
  <2> HIDE DEF a, b
  <2>4. /\ q.mem \in Memory /\ q.list \in Seq(Cells)
        /\ \A c \in Cells : q.mem[c] = m[c] \/ \E d \in Nat : Copied(m, xs, k, d) /\ c = d + 1
        /\ \A d \in Cells : Copied(m, xs, k, d) =>
             \/ q.mem[d + 1] = Plain
             \/ q.mem[d + 1].k = "weak" /\ q.mem[d + 1].v \in Low(m, s, z) /\ d \in Range(q.list)
        /\ \A d \in Range(q.list) : Copied(m, xs, k, d) /\ q.mem[d + 1].k = "weak"
        /\ \A i, j \in DOMAIN q.list : i # j => q.list[i] # q.list[j]
    BY DEF UpdateState
  <2>5. /\ r.mem = [q.mem EXCEPT ![b + 1] = u] /\ u \in WordType
        /\ r = [mem |-> r.mem, list |-> r.list]
        /\ (u = Plain /\ r.list = q.list) \/ (u.k = "weak" /\ u.v \in Low(m, s, z) /\ r.list = Append(q.list, b))
    BY <2>1 DEF Updating
  <2>6. r.mem \in Memory /\ r.mem[b + 1] = u /\ \A c \in Cells : c # b + 1 => r.mem[c] = q.mem[c]
    BY <2>2, <2>4, <2>5 DEF Memory
  <2>7. /\ r.list \in Seq(Cells)
        /\ \A d : d \in Range(r.list) <=> d \in Range(q.list) \/ (u # Plain /\ d = b)
        /\ \A i, j \in DOMAIN r.list : i # j => r.list[i] # r.list[j]
    <3>1. CASE u = Plain /\ r.list = q.list
      BY <2>4, <3>1
    <3>2. CASE u.k = "weak" /\ u.v \in Low(m, s, z) /\ r.list = Append(q.list, b)
      <4>1. u # Plain
        BY <3>2, RefIs
      <4>2. /\ Append(q.list, b) \in Seq(Cells)
            /\ DOMAIN Append(q.list, b) = 1 .. Len(q.list) + 1
            /\ DOMAIN q.list = 1 .. Len(q.list) /\ Len(q.list) \in Nat
            /\ \A i \in 1 .. Len(q.list) : Append(q.list, b)[i] = q.list[i]
            /\ Append(q.list, b)[Len(q.list) + 1] = b
        BY <2>2, <2>4, OneMore
      <4>3. \A i \in DOMAIN q.list : q.list[i] # b
        BY <2>3, <2>4 DEF Range
      <4>4. \A i : i \in 1 .. Len(q.list) + 1 <=> i \in 1 .. Len(q.list) \/ i = Len(q.list) + 1
        BY <4>2
      <4>5. \A d : d \in Range(r.list) <=> d \in Range(q.list) \/ d = b
        BY <3>2, <4>2, <4>4 DEF Range
      <4>6. \A i, j \in DOMAIN r.list : i # j => r.list[i] # r.list[j]
        BY <2>4, <3>2, <4>2, <4>3, <4>4
      <4> QED BY <3>2, <4>1, <4>2, <4>5, <4>6
    <3> QED BY <2>5, <3>1, <3>2
  <2>8. \A c \in Cells : r.mem[c] = m[c] \/ \E d \in Nat : Copied(m, xs, k + 1, d) /\ c = d + 1
    <3> SUFFICES ASSUME NEW c \in Cells PROVE r.mem[c] = m[c] \/ \E d \in Nat : Copied(m, xs, k + 1, d) /\ c = d + 1
      OBVIOUS
    <3>1. CASE c = b + 1
      BY <1>2, <1>4, <2>2, <3>1
    <3>2. CASE c # b + 1
      BY <1>2, <2>4, <2>6, <3>2
    <3> QED BY <3>1, <3>2
  <2>9. \A d \in Cells : Copied(m, xs, k + 1, d) =>
             \/ r.mem[d + 1] = Plain
             \/ r.mem[d + 1].k = "weak" /\ r.mem[d + 1].v \in Low(m, s, z) /\ d \in Range(r.list)
    <3> SUFFICES ASSUME NEW d \in Cells, Copied(m, xs, k + 1, d)
                 PROVE  \/ r.mem[d + 1] = Plain
                        \/ r.mem[d + 1].k = "weak" /\ r.mem[d + 1].v \in Low(m, s, z) /\ d \in Range(r.list)
      OBVIOUS
    <3>1. CASE d = b
      <4>1. u = Plain \/ (u.k = "weak" /\ u.v \in Low(m, s, z) /\ u # Plain)
        BY <2>5, RefIs
      <4> QED BY <2>6, <2>7, <3>1, <4>1
    <3>2. CASE d # b
      <4>1. Copied(m, xs, k, d)
        BY <1>2, <3>2
      <4>2. CopiedIs(m, s, z, xs, k, d)
        <5>1. k \in 0 .. Len(xs)
          BY DEF UpdateBase, Listed
        <5> QED BY <4>1, <5>1, CopiesAre
      <4>3. d + 1 \in Cells /\ d + 1 # b + 1
        BY <2>2, <3>2, <4>2 DEF CopiedIs
      <4> QED BY <2>4, <2>6, <2>7, <4>1, <4>3
    <3> QED BY <3>1, <3>2
  <2>10. \A d \in Range(r.list) : Copied(m, xs, k + 1, d) /\ r.mem[d + 1].k = "weak"
    <3> SUFFICES ASSUME NEW d \in Range(r.list) PROVE Copied(m, xs, k + 1, d) /\ r.mem[d + 1].k = "weak"
      OBVIOUS
    <3>1. CASE d \in Range(q.list)
      <4>1. Copied(m, xs, k, d) /\ q.mem[d + 1].k = "weak" /\ d # b
        BY <2>3, <2>4, <3>1
      <4>2. CopiedIs(m, s, z, xs, k, d)
        <5>1. k \in 0 .. Len(xs)
          BY DEF UpdateBase, Listed
        <5> QED BY <4>1, <5>1, CopiesAre
      <4>3. d + 1 \in Cells /\ d + 1 # b + 1
        BY <2>2, <4>1, <4>2 DEF CopiedIs
      <4> QED BY <1>2, <2>6, <4>1, <4>3
    <3>2. CASE u # Plain /\ d = b
      BY <1>2, <1>4, <2>5, <2>6, <3>2
    <3> QED BY <2>7, <3>1, <3>2
  <2> QED BY <2>5, <2>6, <2>7, <2>8, <2>9, <2>10 DEF UpdateState
<1> QED BY <1>1, <1>3, <1>4

(* So after all trackers of the list (core.stanza:2398).                   *)
LEMMA UpdateDone ==
  ASSUME NEW m, NEW s, NEW z, NEW lo, NEW xs, UpdateBase(m, s, z, lo, xs)
  PROVE  UpdateState(FoldLeft(UpdateTracker, [mem |-> m, list |-> << >>], xs), m, s, z, xs, Len(xs))
<1> DEFINE h == [mem |-> m, list |-> << >>]
           n == Len(xs)
<1>1. n \in Nat /\ DOMAIN xs = 1 .. n /\ m \in Memory
  BY CopyStateIs DEF UpdateBase, Listed
<1>2. UpdateState(h, m, s, z, xs, 0)
  <2>1. \A b : ~Copied(m, xs, 0, b)
    BY DEF Copied
  <2>2. h.mem = m /\ h.list = << >> /\ << >> \in Seq(Cells) /\ Range(<< >>) = {} /\ DOMAIN << >> = {}
    BY DEF Range
  <2> HIDE DEF h
  <2>3. h = [mem |-> h.mem, list |-> h.list]
    BY DEF h
  <2> QED BY <1>1, <2>1, <2>2, <2>3 DEF UpdateState
<1> HIDE DEF h, n
<1>3. PICK r : TrackersTrace(r, h, xs, n)
  BY <1>1, TrackersFold, Zenon
<1>4. /\ r[0] = h
      /\ \A k \in 1 .. n : r[k] = UpdateTracker(r[k-1], xs[k])
      /\ FoldLeft(UpdateTracker, h, xs) = r[n]
  BY <1>3 DEF TrackersTrace
<1> DEFINE bad == {k \in 0 .. n : ~UpdateState(r[k], m, s, z, xs, k)}
<1>5. bad = {}
  <2> SUFFICES ASSUME bad # {} PROVE FALSE
    OBVIOUS
  <2>1. bad \subseteq Nat
    OBVIOUS
  <2>2. PICK k \in bad : \A j \in bad : k <= j
    BY <2>1, LeastOf
  <2>3. k # 0 /\ k \in 1 .. n
    BY <1>1, <1>2, <1>4, <2>2
  <2>4. k - 1 \in 0 .. n /\ k - 1 \in Nat /\ k - 1 \notin bad
    BY <1>1, <2>2, <2>3
  <2>5. UpdateState(r[k-1], m, s, z, xs, k - 1)
    BY <2>4
  <2>6. (k - 1) + 1 = k /\ (k - 1) + 1 \in 1 .. Len(xs)
    BY <1>1, <2>3 DEF n
  <2>7. r[k] = UpdateTracker(r[k-1], xs[(k - 1) + 1])
    BY <1>4, <2>3, <2>6
  <2>8. UpdateState(r[k], m, s, z, xs, (k - 1) + 1)
    BY <2>4, <2>5, <2>6, <2>7, UpdateNext
  <2> QED BY <2>2, <2>6, <2>8
<1> QED BY <1>1, <1>4, <1>5 DEF h, n
-----------------------------------------------------------------------------
(* The heap when everything that is reached was copied: what is below top.  *)
AllCopied(m, s, z, lo, xs, h) ==
  /\ UpdateBase(m, s, z, lo, xs) /\ xs = NewPrefix(trackers)
  /\ TrackersListed(m, top, s, z, trackers)
  /\ CleanTo(m, top, s, z, top, {})
  /\ UpdateState(h, m, s, z, xs, Len(xs))

(* The words that do not change, and that do.                               *)
LEMMA CopiedWords ==
  ASSUME NEW m, NEW s, NEW z, NEW lo, NEW xs, NEW h, AllCopied(m, s, z, lo, xs, h)
  PROVE  /\ \A a \in Objs(m, top, s, z) :
              /\ h.mem[a] = m[a]
              /\ \A c \in Range(Slots(m, a)) : h.mem[c] = m[c]
              /\ ~Copied(m, xs, Len(xs), a) => h.mem[a + 1] = m[a + 1]
         /\ \A b : Copied(m, xs, Len(xs), b) =>
              /\ CopiedIs(m, s, z, xs, Len(xs), b)
              /\ WeakValue(h.mem[b + 1], Low(m, s, z))
              /\ h.mem[b + 1].k = "weak" => b \in Range(h.list)
         /\ \A c \in Cells : h.mem[c].k = "hdr" => h.mem[c] = m[c]
<1> DEFINE n == Len(xs)
<1>1. /\ Layout(m, top, s, z) /\ top \in Nat /\ s \in Nat /\ top <= s /\ m \in Memory
      /\ UpdateBase(m, s, z, lo, xs) /\ n \in 0 .. Len(xs) /\ UpdateState(h, m, s, z, xs, n)
  BY CopyStateIs DEF UpdateBase, AllCopied, Listed
<1>2. \A b : Copied(m, xs, n, b) => CopiedIs(m, s, z, xs, n, b)
  BY <1>1, CopiesAre
<1>3. \A c \in Cells : h.mem[c] = m[c] \/ \E b \in Nat : Copied(m, xs, n, b) /\ c = b + 1
  BY <1>1 DEF UpdateState
<1>4. ASSUME NEW b, Copied(m, xs, n, b)
      PROVE  /\ WeakValue(h.mem[b + 1], Low(m, s, z))
             /\ h.mem[b + 1].k = "weak" => b \in Range(h.list)
  <2>1. b \in Cells
    BY <1>2, <1>4 DEF CopiedIs, Objs
  <2>2. \/ h.mem[b + 1] = Plain
        \/ h.mem[b + 1].k = "weak" /\ h.mem[b + 1].v \in Low(m, s, z) /\ b \in Range(h.list)
    BY <1>1, <1>4, <2>1 DEF UpdateState
  <2> QED BY <2>2, RefIs DEF WeakValue
<1>5. ASSUME NEW c \in Cells, h.mem[c].k = "hdr" PROVE h.mem[c] = m[c]
  <2> SUFFICES ASSUME NEW b \in Nat, Copied(m, xs, n, b), c = b + 1 PROVE FALSE
    BY <1>3
  <2> QED BY <1>4, <1>5 DEF WeakValue
<1> HIDE DEF n
<1>6. ASSUME NEW a \in Objs(m, top, s, z)
      PROVE  /\ h.mem[a] = m[a]
             /\ \A c \in Range(Slots(m, a)) : h.mem[c] = m[c]
             /\ ~Copied(m, xs, n, a) => h.mem[a + 1] = m[a + 1]
  <2>1. /\ a \in Nat /\ a \in Cells /\ a + 1 \in Cells /\ AllocationSize(m, a) \in {2, 3} /\ m[a].k = "hdr"
        /\ \A c \in Range(Slots(m, a)) : c \in Cells /\ a < c /\ c < a + AllocationSize(m, a)
        /\ m[a].t = "tracker" => Range(Slots(m, a)) = {}
    BY <1>1, ObjectIs
  <2>2. ASSUME NEW b \in Nat, Copied(m, xs, n, b)
        PROVE  /\ m[b].t = "tracker" /\ (b # a => b + 1 # a /\ b + 1 # a + 1)
               /\ b # a => ~(a < b + 1 /\ b + 1 < a + AllocationSize(m, a))
    <3>1. b \in Objs(m, top, s, z) /\ m[b].t = "tracker"
      BY <1>2, <2>2 DEF CopiedIs
    <3>2. AllocationSize(m, b) \in {2, 3}
      BY <1>1, <3>1, ObjectIs
    <3>3. b < a => b + AllocationSize(m, b) <= a
      BY <1>1, <3>1 DEF Layout
    <3>4. a < b => a + AllocationSize(m, a) <= b
      BY <1>1, <3>1 DEF Layout
    <3> QED BY <2>1, <3>1, <3>2, <3>3, <3>4
  <2>3. h.mem[a] = m[a]
    <3> SUFFICES ASSUME h.mem[a] # m[a] PROVE FALSE
      OBVIOUS
    <3>1. PICK b \in Nat : Copied(m, xs, n, b) /\ a = b + 1
      BY <1>3, <2>1
    <3>2. b # a
      BY <3>1
    <3> QED BY <2>2, <3>1, <3>2
  <2>4. ASSUME NEW c \in Range(Slots(m, a)) PROVE h.mem[c] = m[c]
    <3> SUFFICES ASSUME h.mem[c] # m[c] PROVE FALSE
      OBVIOUS
    <3>1. PICK b \in Nat : Copied(m, xs, n, b) /\ c = b + 1
      BY <1>3, <2>1
    <3>2. b # a
      BY <2>1, <2>2, <3>1
    <3> QED BY <2>1, <2>2, <3>1, <3>2
  <2>5. ASSUME ~Copied(m, xs, n, a) PROVE h.mem[a + 1] = m[a + 1]
    <3> SUFFICES ASSUME h.mem[a + 1] # m[a + 1] PROVE FALSE
      OBVIOUS
    <3>1. PICK b \in Nat : Copied(m, xs, n, b) /\ a + 1 = b + 1
      BY <1>3, <2>1
    <3>2. b # a
      BY <2>5, <3>1
    <3> QED BY <2>2, <3>1, <3>2
  <2> QED BY <2>3, <2>4, <2>5
<1> QED BY <1>2, <1>4, <1>5, <1>6 DEF n

(* The trackers of the old objects.                                         *)
LEMMA OldTrackerIs ==
  ASSUME NEW m, NEW s, NEW z, NEW lo, NEW xs, NEW h, AllCopied(m, s, z, lo, xs, h),
         SplitParts(m, top, s, z, trackers),
         NEW b \in Low(m, s, z), m[b].t = "tracker", m[b + 1].k = "weak",
         ~Copied(m, xs, Len(xs), b)
  PROVE  b \in Range(OldSuffix(trackers)) /\ m[b + 1].v \in Low(m, s, z)
<1>1. /\ Layout(m, top, s, z) /\ top \in Nat /\ s \in Nat /\ top <= s /\ m \in Memory
      /\ Fields(m, top, s, z, Tgt(m, top, s, z))
      /\ UpdateBase(m, s, z, lo, xs) /\ xs \in Seq(Cells) /\ xs = NewPrefix(trackers)
  BY CopyStateIs DEF UpdateBase, AllCopied, Listed, CopyState
<1>2. b \in Objs(m, top, s, z) /\ b < top /\ b \in WeakIn(m, top, s, z)
  BY DEF Low, WeakIn
<1>3. b \in Nat /\ b + 1 \in Cells
  BY <1>1, <1>2, ObjectIs
<1>4. PICK a \in Range(trackers) : NameOf(m, s, a) = m[b].v
  BY <1>2 DEF AllCopied, TrackersListed
<1>5. a \in Range(NewPrefix(trackers)) \/ a \in Range(OldSuffix(trackers))
  BY DEF SplitParts
<1>6. a \in Tgt(m, top, s, z) /\ (a < s => m[a + 1].v < s)
  BY DEF AllCopied, TrackersListed, Listed, Range
<1>7. Res(m, s, a) = b
  <2>1. Res(m, s, a) \in Objs(m, top, s, z) /\ m[Res(m, s, a)].v = m[b].v
    BY <1>4, <1>6 DEF Tgt, NameOf
  <2> QED BY <1>1, <1>2, <2>1 DEF Layout
<1>8. a \notin Range(NewPrefix(trackers))
  <2> SUFFICES ASSUME a \in Range(NewPrefix(trackers)) PROVE FALSE
    OBVIOUS
  <2>1. a \in Range(xs) /\ s <= a /\ a \in Nat
    BY <1>1, <1>6 DEF SplitParts, Tgt, Cells
  <2>2. PICK j \in DOMAIN xs : a = xs[j]
    BY <2>1 DEF Range
  <2>3. DOMAIN xs = 1 .. Len(xs)
    BY <1>1
  <2>4. Forwarded(m, a) /\ b = m[a].v
    BY <1>1, <1>2, <1>3, <1>7, <2>1 DEF Res, Forwarded
  <2> QED BY <2>2, <2>3, <2>4 DEF Copied
<1>9. a < top /\ a \in Nat
  BY <1>5, <1>6, <1>8 DEF SplitParts, Tgt, Cells
<1>10. a = b
  BY <1>1, <1>6, <1>7, <1>9, BelowIs
<1>11. m[b + 1].v < s /\ m[b + 1].v \in Tgt(m, top, s, z)
  <2>1. WeakValue(m[b + 1], Tgt(m, top, s, z))
    BY <1>1, <1>2 DEF Fields
  <2> QED BY <1>1, <1>6, <1>9, <1>10, <2>1 DEF WeakValue
<1>12. m[b + 1].v < top
  <2>1. m[b + 1].v \in Nat
    BY <1>11 DEF Tgt, Cells
  <2> QED BY <1>1, <1>11, <2>1 DEF Tgt
<1>13. m[b + 1].v \in Objs(m, top, s, z)
  BY <1>1, <1>11, <1>12, BelowIs
<1> QED BY <1>5, <1>8, <1>10, <1>12, <1>13 DEF Low

(* So the old objects are a heap of their own.                              *)
LEMMA EvacuatedHeap ==
  ASSUME NEW m, NEW s, NEW z, NEW lo, NEW xs, NEW h, AllCopied(m, s, z, lo, xs, h),
         SplitParts(m, top, s, z, trackers), s <= z, z <= MaxSize
  PROVE  /\ Objs(h.mem, top, z, z) = Low(m, s, z)
         /\ \A a \in Low(m, s, z) : h.mem[a] = m[a] /\ Slots(h.mem, a) = Slots(m, a)
         /\ Heap1(h.mem, top, z, z)
         /\ OldTrackers(h.mem, top, z, z)
<1> DEFINE n == h.mem
<1>1. /\ Layout(m, top, s, z) /\ top \in Nat /\ s \in Nat /\ z \in Nat /\ top <= s /\ m \in Memory
      /\ Fields(m, top, s, z, Tgt(m, top, s, z)) /\ n \in Memory
      /\ CleanTo(m, top, s, z, top, {})
  BY CopyStateIs DEF UpdateBase, AllCopied, CopyState, UpdateState
<1>2. \A a \in Low(m, s, z) : a \in Nat /\ a \in Objs(m, top, s, z) /\ a < top
  BY <1>1, ObjectIs DEF Low
<1>3. \A a \in Low(m, s, z) : n[a] = m[a] /\ \A c \in Range(Slots(m, a)) : n[c] = m[c]
  BY <1>2, CopiedWords
<1>4. \A a \in Low(m, s, z) : AllocationSize(n, a) = AllocationSize(m, a) /\ Slots(n, a) = Slots(m, a)
  BY <1>3 DEF AllocationSize, Slots
<1>5. Objs(n, top, z, z) = Low(m, s, z)
  <2>1. ASSUME NEW a \in Objs(n, top, z, z) PROVE a \in Low(m, s, z)
    <3>1. a \in Cells /\ a \in Nat /\ n[a].k = "hdr" /\ a < top
      BY <1>1 DEF Objs, Cells
    <3>2. n[a] = m[a]
      BY <3>1, CopiedWords
    <3> QED BY <3>1, <3>2 DEF Low, Objs
  <2>2. ASSUME NEW a \in Low(m, s, z) PROVE a \in Objs(n, top, z, z)
    BY <1>2, <1>3, <2>2 DEF Objs
  <2> QED BY <2>1, <2>2
<1> HIDE DEF n
<1>6. Layout(n, top, z, z)
  <2>1. \A a \in Objs(n, top, z, z) : ~(z <= a)
    BY <1>1, <1>2, <1>5
  <2>2. top <= z
    BY <1>1
  <2> QED BY <1>1, <1>2, <1>3, <1>4, <1>5, <2>1, <2>2 DEF Layout
<1>7. \A v \in Tgt(m, top, s, z) : v < top => v \in Low(m, s, z)
  BY <1>1, BelowIs DEF Low
<1>8. ASSUME NEW a \in Low(m, s, z), m[a].t = "tracker" PROVE WeakValue(n[a + 1], Low(m, s, z))
  <2>1. CASE Copied(m, xs, Len(xs), a)
    BY <2>1, CopiedWords DEF n
  <2>2. CASE ~Copied(m, xs, Len(xs), a)
    <3>1. n[a + 1] = m[a + 1]
      BY <1>2, <2>2, CopiedWords DEF n
    <3>2. WeakValue(m[a + 1], Tgt(m, top, s, z))
      BY <1>1, <1>2, <1>8 DEF Fields
    <3>3. m[a + 1].k = "weak" => m[a + 1].v \in Low(m, s, z)
      BY <1>8, <2>2, OldTrackerIs
    <3> QED BY <3>1, <3>2, <3>3 DEF WeakValue
  <2> QED BY <2>1, <2>2
<1>9. Fields(n, top, z, z, Low(m, s, z))
  <2>1. ASSUME NEW a \in Low(m, s, z), NEW c \in Range(Slots(m, a)) PROVE Value(n[c], Low(m, s, z))
    <3>1. Value(m[c], Tgt(m, top, s, z)) /\ Clean(m[c], top)
      BY <1>1, <1>2 DEF Fields, CleanTo
    <3> QED BY <1>3, <1>7, <3>1 DEF Value, Clean
  <2> QED BY <1>3, <1>4, <1>5, <1>8, <2>1 DEF Fields
<1>10. OldTrackers(n, top, z, z)
  BY <1>2, <1>3, <1>5, <1>8 DEF OldTrackers, WeakIn, WeakValue
<1> QED BY <1>3, <1>4, <1>5, <1>6, <1>9, <1>10 DEF Heap1, n
-----------------------------------------------------------------------------
(* Two lists one after the other.                                           *)
LEMMA TwoLists ==
  ASSUME NEW a \in Seq(Cells), NEW b \in Seq(Cells), NEW z \in Nat,
         \A i, j \in DOMAIN a : i # j => a[i] # a[j],
         \A i, j \in DOMAIN b : i # j => b[i] # b[j],
         \A c \in Range(a) : c < z /\ c \notin Range(b),
         \A c \in Range(b) : c < z
  PROVE  Lists(a \o b, Range(a) \cup Range(b), z)
<1> DEFINE l == a \o b
<1>1. /\ l \in Seq(Cells) /\ DOMAIN l = 1 .. Len(a) + Len(b) /\ DOMAIN a = 1 .. Len(a) /\ DOMAIN b = 1 .. Len(b)
      /\ Len(a) \in Nat /\ Len(b) \in Nat
      /\ \A i \in DOMAIN a : l[i] = a[i]
      /\ \A i \in DOMAIN b : l[Len(a) + i] = b[i]
  OBVIOUS
<1> HIDE DEF l
<1>2. \A i \in DOMAIN l : i \in DOMAIN a \/ (i - Len(a) \in DOMAIN b /\ Len(a) + (i - Len(a)) = i /\ i \notin DOMAIN a)
  BY <1>1
<1>3. \A i \in DOMAIN a : a[i] \in Range(a)
  BY DEF Range
<1>4. \A i \in DOMAIN b : b[i] \in Range(b)
  BY DEF Range
<1>5. Range(l) = Range(a) \cup Range(b)
  <2>1. ASSUME NEW c \in Range(l) PROVE c \in Range(a) \cup Range(b)
    <3>1. PICK i \in DOMAIN l : c = l[i]
      BY DEF Range
    <3>2. CASE i \in DOMAIN a
      BY <1>1, <1>3, <3>1, <3>2
    <3>3. CASE i - Len(a) \in DOMAIN b /\ Len(a) + (i - Len(a)) = i
      <4>1. l[Len(a) + (i - Len(a))] = b[i - Len(a)]
        BY <1>1, <3>3
      <4> QED BY <1>4, <3>1, <3>3, <4>1
    <3> QED BY <1>2, <3>2, <3>3
  <2>2. ASSUME NEW c \in Range(a) PROVE c \in Range(l)
    <3>1. PICK i \in DOMAIN a : c = a[i]
      BY DEF Range
    <3>2. i \in DOMAIN l /\ l[i] = c
      BY <1>1, <3>1
    <3> QED BY <3>2 DEF Range
  <2>3. ASSUME NEW c \in Range(b) PROVE c \in Range(l)
    <3>1. PICK i \in DOMAIN b : c = b[i]
      BY DEF Range
    <3>2. Len(a) + i \in DOMAIN l /\ l[Len(a) + i] = c
      BY <1>1, <3>1
    <3> QED BY <3>2 DEF Range
  <2> QED BY <2>1, <2>2, <2>3
<1>6. \A i \in DOMAIN l : l[i] < z /\ l[i] \in Nat
  <2>1. \A c \in Cells : c \in Nat
    BY DEF Cells
  <2>2. \A i \in DOMAIN l : l[i] \in Range(l)
    BY DEF Range
  <2>3. \A i \in DOMAIN l : l[i] \in Cells
    BY <1>1
  <2> QED BY <1>5, <2>1, <2>2, <2>3
<1>7. ASSUME NEW i \in DOMAIN l, NEW j \in DOMAIN l, i < j PROVE l[i] # l[j]
  <2>1. CASE i \in DOMAIN a /\ j \in DOMAIN a
    <3>1. i # j
      BY <1>1, <1>7
    <3> QED BY <1>1, <2>1, <3>1
  <2>2. CASE i \in DOMAIN a /\ j \notin DOMAIN a
    <3>1. l[i] = a[i] /\ a[i] \in Range(a)
      BY <1>1, <1>3, <2>2
    <3>2. j - Len(a) \in DOMAIN b /\ l[Len(a) + (j - Len(a))] = b[j - Len(a)] /\ Len(a) + (j - Len(a)) = j
      BY <1>1, <1>2, <2>2
    <3>3. l[j] \in Range(b)
      BY <1>4, <3>2
    <3> QED BY <3>1, <3>3
  <2>3. CASE i \notin DOMAIN a
    <3>1. j \notin DOMAIN a
      BY <1>1, <1>7, <2>3
    <3>2. j - Len(a) \in DOMAIN b /\ l[Len(a) + (j - Len(a))] = b[j - Len(a)] /\ Len(a) + (j - Len(a)) = j
      BY <1>1, <1>2, <3>1
    <3>3. i - Len(a) \in DOMAIN b /\ l[Len(a) + (i - Len(a))] = b[i - Len(a)] /\ Len(a) + (i - Len(a)) = i
      BY <1>1, <1>2, <2>3
    <3>4. i - Len(a) # j - Len(a)
      BY <1>1, <1>7
    <3>5. b[i - Len(a)] # b[j - Len(a)]
      BY <3>2, <3>3, <3>4
    <3> QED BY <3>2, <3>3, <3>5
  <2> QED BY <2>1, <2>2, <2>3
<1> QED BY <1>1, <1>5, <1>6, <1>7 DEF Lists, l

(* The trackers of the old objects are on the list.                         *)
LEMMA EvacuatedTrackers ==
  ASSUME NEW m, NEW s, NEW z, NEW lo, NEW xs, NEW h, AllCopied(m, s, z, lo, xs, h),
         SplitParts(m, top, s, z, trackers), s <= z, z <= MaxSize
  PROVE  Lists(h.list \o OldSuffix(trackers), WeakIn(h.mem, top, z, z), z)
<1> DEFINE n == h.mem
           os == OldSuffix(trackers)
           W == WeakIn(n, top, z, z)
<1>1. /\ Layout(m, top, s, z) /\ top \in Nat /\ s \in Nat /\ z \in Nat /\ top <= s
      /\ UpdateState(h, m, s, z, xs, Len(xs)) /\ UpdateBase(m, s, z, lo, xs)
      /\ xs = NewPrefix(trackers) /\ xs \in Seq(Cells) /\ DOMAIN xs = 1 .. Len(xs)
      /\ Listed(m, top, s, z, os)
  BY CopyStateIs DEF UpdateBase, AllCopied, SplitParts, Listed
<1>2. /\ Objs(n, top, z, z) = Low(m, s, z)
      /\ \A a \in Low(m, s, z) : n[a] = m[a] /\ a \in Nat /\ a < top /\ a \in Objs(m, top, s, z)
  <2>1. \A a \in Low(m, s, z) : a \in Nat /\ a < top /\ a \in Objs(m, top, s, z)
    BY <1>1, ObjectIs DEF Low
  <2> QED BY <2>1, EvacuatedHeap
<1>3. /\ h.list \in Seq(Cells)
      /\ \A b \in Range(h.list) : Copied(m, xs, Len(xs), b) /\ n[b + 1].k = "weak"
      /\ \A i, j \in DOMAIN h.list : i # j => h.list[i] # h.list[j]
  BY <1>1 DEF UpdateState
<1>4. /\ os \in Seq(Cells)
      /\ \A i, j \in DOMAIN os : i # j => os[i] # os[j]
  BY <1>1 DEF Listed
<1>5. ASSUME NEW b, Copied(m, xs, Len(xs), b)
      PROVE  b \in Low(m, s, z) /\ m[b].t = "tracker" /\ b \notin Range(os)
  <2>1. CopiedIs(m, s, z, xs, Len(xs), b)
    BY <1>5, CopiedWords DEF AllCopied
  <2>2. b \in Low(m, s, z) /\ m[b].t = "tracker"
    BY <2>1 DEF CopiedIs, Low
  <2>3. ASSUME b \in Range(os) PROVE FALSE
    <3>1. PICK j \in 1 .. Len(xs) : Forwarded(m, xs[j]) /\ b = m[xs[j]].v
      BY <1>5 DEF Copied
    <3>2. PICK i \in DOMAIN os : b = os[i]
      BY <2>3 DEF Range
    <3>3. NameOf(m, s, xs[j]) # NameOf(m, s, os[i])
      BY <1>1, <3>1, <3>2 DEF SplitParts
    <3>4. s <= xs[j]
      BY <1>1 DEF UpdateBase, Range
    <3>5. Res(m, s, xs[j]) = b
      BY <3>1, <3>4 DEF Res, Forwarded
    <3>6. Res(m, s, b) = b
      BY <1>1, <1>2, <2>2 DEF Res
    <3> QED BY <3>2, <3>3, <3>5, <3>6 DEF NameOf
  <2> QED BY <2>2, <2>3
<1>6. ASSUME NEW b \in Range(os) PROVE b \in Low(m, s, z) /\ m[b].t = "tracker" /\ n[b + 1].k = "weak"
  <2>1. b < top /\ b \in Tgt(m, top, s, z) /\ b \in Range(trackers)
    BY <1>1 DEF SplitParts, Listed, Range
  <2>2. b \in Objs(m, top, s, z) /\ Res(m, s, b) = b
    BY <1>1, <2>1, BelowIs
  <2>3. m[b].t = "tracker" /\ m[b + 1].k = "weak"
    BY <2>1, <2>2 DEF AllCopied, TrackersListed
  <2>4. ~Copied(m, xs, Len(xs), b)
    BY <1>5
  <2>5. n[b + 1] = m[b + 1]
    BY <2>2, <2>4, CopiedWords
  <2> QED BY <2>1, <2>2, <2>3, <2>5 DEF Low
<1>7. W = Range(h.list) \cup Range(os)
  <2>1. ASSUME NEW b \in W PROVE b \in Range(h.list) \cup Range(os)
    <3>1. b \in Low(m, s, z) /\ m[b].t = "tracker" /\ n[b + 1].k = "weak"
      BY <1>2 DEF WeakIn
    <3>2. CASE Copied(m, xs, Len(xs), b)
      BY <3>1, <3>2, CopiedWords
    <3>3. CASE ~Copied(m, xs, Len(xs), b)
      <4>1. n[b + 1] = m[b + 1]
        BY <1>2, <3>1, <3>3, CopiedWords
      <4> QED BY <3>1, <3>3, <4>1, OldTrackerIs
    <3> QED BY <3>2, <3>3
  <2>2. ASSUME NEW b \in Range(h.list) PROVE b \in W
    BY <1>2, <1>3, <1>5 DEF WeakIn
  <2>3. ASSUME NEW b \in Range(os) PROVE b \in W
    BY <1>2, <1>6 DEF WeakIn
  <2> QED BY <2>1, <2>2, <2>3
<1>8. \A c \in Range(h.list) : c < z /\ c \notin Range(os)
  BY <1>1, <1>2, <1>3, <1>5
<1>9. \A c \in Range(os) : c < z
  BY <1>1, <1>2, <1>6
<1> HIDE DEF n, os, W
<1>10. Lists(h.list \o os, Range(h.list) \cup Range(os), z)
  BY <1>1, <1>3, <1>4, <1>8, <1>9, TwoLists
<1> QED BY <1>7, <1>10 DEF n, os, W
-----------------------------------------------------------------------------
(* update-liveness-trackers, and the release of the stacks not copied.      *)
LEMMA DropUnreachableKeeps ==
  ASSUME Inv, DropUnreachable
  PROVE  Inv'
<1> DEFINE m == mem
           s == from
           z == limit
           xs == NewPrefix(trackers)
           h == FoldLeft(UpdateTracker, [mem |-> m, list |-> << >>], xs)
           L == Low(m, s, z)
           D == NamesOf(m, StacksIn(m, top, s, z))
<1>1. Numbers /\ CopyInv /\ phase = "unreachable"
  BY DEF Inv, Copying, DropUnreachable
<1>2. /\ size' = size /\ sizeLimit' = sizeLimit /\ limit' = limit /\ from' = from /\ oldEnd' = oldEnd
      /\ allocated' = allocated /\ bits' = bits /\ var' = var /\ request' = request /\ top' = top
      /\ p' = p /\ phase' = "evacuated" /\ mem' = h.mem /\ trackers' = h.list \o OldSuffix(trackers)
      /\ stacks' = liveStacks /\ liveStacks' = << >>
      /\ frame' = Restrict(frame, DOMAIN frame \ {NameAt(m, a) : a \in Range(stacks)})
  BY DEF DropUnreachable, heapVars
<1>3. /\ CopyState(m, top, s, z, oldEnd) /\ s <= z
      /\ WordsIn(var, Roots, Tgt(m, top, s, z))
      /\ WordsIn(frame, D, Tgt(m, top, s, z))
      /\ StacksListed(m, top, s, z, stacks, liveStacks)
      /\ TrackersListed(m, top, s, z, trackers)
      /\ BitsIn(bits, m, {a \in Objs(m, top, s, z) : a < oldEnd})
      /\ CleanTo(m, top, s, z, top, {})
      /\ oldEnd = top
  BY <1>1 DEF CopyInv
<1>4. /\ \A r \in Roots : Clean(var[r], top)
      /\ \A i \in DOMAIN stacks : s <= stacks[i] /\ ~Forwarded(m, stacks[i])
      /\ \A i \in DOMAIN liveStacks : liveStacks[i] < top /\ Clean(frame[m[liveStacks[i]].v], top)
  BY <1>1 DEF CopyInv
<1>5. /\ Layout(m, top, s, z) /\ top \in Nat /\ s \in Nat /\ z \in Nat /\ top <= s /\ z <= MaxSize
  BY <1>3, CopyStateIs
<1>6. SplitParts(m, top, s, z, trackers)
  <2>1. Listed(m, top, s, z, trackers) /\ YoungFirst(trackers, s)
    BY <1>3 DEF TrackersListed
  <2> QED BY <1>5, <2>1, SplitListed
<1>7. AllCopied(m, s, z, oldEnd, xs, h)
  <2>1. \A a \in Range(xs) : s <= a /\ a \in Range(trackers)
    BY <1>6 DEF SplitParts
  <2>2. \A a \in Range(xs) : m[Res(m, s, a)].t = "tracker" /\ m[Res(m, s, a) + 1].k = "weak"
    BY <1>3, <2>1 DEF TrackersListed
  <2>3. UpdateBase(m, s, z, oldEnd, xs)
    BY <1>3, <1>6, <2>1, <2>2 DEF UpdateBase, SplitParts
  <2> HIDE DEF m, s, z, xs
  <2>4. UpdateState(h, m, s, z, xs, Len(xs))
    BY <2>3, UpdateDone
  <2> HIDE DEF h
  <2>5. xs = NewPrefix(trackers)
    BY DEF xs
  <2> QED BY <1>3, <2>3, <2>4, <2>5 DEF AllCopied
<1> HIDE DEF m, s, z, xs, h
<1>8. /\ Objs(h.mem, top, z, z) = L
      /\ \A a \in L : h.mem[a] = m[a] /\ Slots(h.mem, a) = Slots(m, a)
      /\ Heap1(h.mem, top, z, z)
      /\ OldTrackers(h.mem, top, z, z)
  BY <1>3, <1>5, <1>6, <1>7, EvacuatedHeap
<1>9. Lists(h.list \o OldSuffix(trackers), WeakIn(h.mem, top, z, z), z)
  BY <1>3, <1>5, <1>6, <1>7, EvacuatedTrackers
<1>10. \A a \in L : a \in Nat /\ a < top /\ a \in Objs(m, top, s, z)
  BY <1>5, ObjectIs DEF Low
<1>11. \A v \in Tgt(m, top, s, z) : v < top => v \in L
  BY <1>5, BelowIs DEF Low
<1>12. WordsIn(var, Roots, L)
  BY <1>3, <1>4, <1>11 DEF WordsIn, Value, Clean
<1>13. var[CurrentStack].k = "ref" /\ h.mem[var[CurrentStack].v].t = "stack"
  <2>1. var[CurrentStack].k = "ref" /\ m[Res(m, s, var[CurrentStack].v)].t = "stack"
    BY <1>1 DEF CopyInv, m, s
  <2>2. CurrentStack \in Roots
    BY DEF Roots
  <2>3. var[CurrentStack].v \in L
    BY <1>12, <2>1, <2>2 DEF WordsIn, Value
  <2>4. Res(m, s, var[CurrentStack].v) = var[CurrentStack].v
    BY <1>5, <1>10, <2>3 DEF Res
  <2> QED BY <1>8, <2>1, <2>3, <2>4
<1>14. BitsIn(bits, h.mem, L)
  BY <1>3, <1>8 DEF BitsIn, Low
<1> DEFINE ST == StacksIn(h.mem, top, z, z)
<1>15. \A b : b \in ST <=> b \in L /\ m[b].t = "stack"
  BY <1>8 DEF StacksIn
<1>16. Range(liveStacks) = ST
  <2>1. ASSUME NEW a \in Range(liveStacks) PROVE a \in ST
    <3>1. a < top /\ a \in Tgt(m, top, s, z) /\ m[Res(m, s, a)].t = "stack"
      BY <1>3, <1>4 DEF StacksListed, Listed, Range
    <3>2. Res(m, s, a) = a
      BY <1>5, <3>1, BelowIs
    <3> QED BY <1>11, <1>15, <3>1, <3>2
  <2>2. ASSUME NEW b \in ST PROVE b \in Range(liveStacks)
    <3>1. b \in L /\ b \in StacksIn(m, top, s, z) /\ b \in Nat /\ b < top /\ b \in Objs(m, top, s, z)
      BY <1>10, <1>15 DEF StacksIn
    <3>2. PICK a \in Range(stacks) \cup Range(liveStacks) : NameOf(m, s, a) = m[b].v
      BY <1>3, <3>1 DEF StacksListed
    <3>3. a \in Tgt(m, top, s, z)
      BY <1>3 DEF StacksListed, Listed, Range
    <3>4. Res(m, s, a) = b
      BY <1>5, <3>1, <3>2, <3>3 DEF Tgt, NameOf, Layout
    <3>5. a \notin Range(stacks)
      <4> SUFFICES ASSUME a \in Range(stacks) PROVE FALSE
        OBVIOUS
      <4>1. s <= a /\ ~Forwarded(m, a) /\ a \in Nat
        BY <1>4, <3>3 DEF Range, Tgt, Cells
      <4>2. Res(m, s, a) = a
        BY <4>1 DEF Res, Forwarded
      <4> QED BY <1>5, <3>1, <3>4, <4>1, <4>2
    <3>6. a < top
      BY <1>4, <3>5 DEF Range
    <3>7. Res(m, s, a) = a
      BY <1>5, <3>3, <3>6, BelowIs
    <3> QED BY <3>4, <3>5, <3>7
  <2> QED BY <2>1, <2>2
<1>17. Lists(liveStacks, ST, z)
  <2>1. liveStacks \in Seq(Cells) /\ \A i, j \in DOMAIN liveStacks : i # j => liveStacks[i] # liveStacks[j]
    BY <1>3 DEF StacksListed, Listed
  <2>2. \A i \in DOMAIN liveStacks : ~(z <= liveStacks[i]) /\ liveStacks[i] \in Nat
    BY <1>3, <1>5, <1>10, <1>15, <1>16 DEF Range
  <2>3. \A i, j \in DOMAIN liveStacks : i < j => i # j
    <3>1. DOMAIN liveStacks = 1 .. Len(liveStacks)
      BY <2>1
    <3> QED BY <3>1
  <2> QED BY <1>16, <2>1, <2>2, <2>3 DEF Lists
<1> DEFINE N == {NameAt(m, a) : a \in Range(stacks)}
           D1 == NamesOf(h.mem, ST)
<1>18. D \ N = D1
  <2>1. ASSUME NEW x \in D, x \notin N PROVE x \in D1
    <3>1. PICK b \in StacksIn(m, top, s, z) : x = m[b].v
      BY DEF NamesOf, m, s, z
    <3>2. PICK a \in Range(stacks) \cup Range(liveStacks) : NameOf(m, s, a) = m[b].v
      BY <1>3 DEF StacksListed
    <3>3. a \in Range(liveStacks)
      <4> SUFFICES ASSUME a \in Range(stacks) PROVE FALSE
        BY <3>2
      <4>1. ~Forwarded(m, a)
        BY <1>4 DEF Range
      <4>2. Res(m, s, a) = a
        BY <4>1 DEF Res, Forwarded
      <4>3. NameAt(m, a) = x
        BY <3>1, <3>2, <4>2 DEF NameOf, NameAt
      <4> QED BY <2>1, <4>3
    <3>4. a \in L /\ h.mem[a] = m[a] /\ a \in ST
      BY <1>8, <1>15, <1>16, <3>3
    <3>5. Res(m, s, a) = a
      BY <1>5, <1>10, <3>4 DEF Res
    <3> QED BY <3>1, <3>2, <3>4, <3>5 DEF NamesOf, NameOf
  <2>2. ASSUME NEW x \in D1 PROVE x \in D /\ x \notin N
    <3>1. PICK b \in ST : x = h.mem[b].v
      BY DEF NamesOf
    <3>2. b \in L /\ m[b].t = "stack" /\ h.mem[b] = m[b] /\ b \in Range(liveStacks)
      BY <1>8, <1>15, <1>16
    <3>3. x = m[b].v /\ b \in StacksIn(m, top, s, z)
      BY <1>10, <3>1, <3>2 DEF StacksIn
    <3>4. x \in D
      BY <3>3 DEF NamesOf, m, s, z
    <3>5. ASSUME NEW a \in Range(stacks), NameAt(m, a) = x PROVE FALSE
      <4>1. ~Forwarded(m, a)
        BY <1>4 DEF Range
      <4>2. Res(m, s, a) = a /\ Res(m, s, b) = b
        BY <1>5, <1>10, <3>2, <4>1 DEF Res, Forwarded
      <4>3. NameOf(m, s, a) = NameOf(m, s, b)
        BY <3>3, <3>5, <4>2 DEF NameOf, NameAt
      <4> QED BY <1>3, <3>2, <4>3 DEF StacksListed, Range
    <3> QED BY <3>4, <3>5
  <2> QED BY <2>1, <2>2
<1>19. DOMAIN frame = D
  BY <1>3 DEF WordsIn
<1>20. /\ frame' = [x \in D1 |-> frame'[x]]
       /\ \A x \in D1 : frame'[x] = frame[x]
  <2>1. frame' = [x \in D1 |-> frame[x]]
    BY <1>2, <1>18, <1>19 DEF Restrict
  <2> QED BY <2>1
<1>21. WordsIn(frame', D1, L)
  <2> SUFFICES ASSUME NEW x \in D1 PROVE frame[x] \in WordType /\ Value(frame[x], L)
    BY <1>20 DEF WordsIn
  <2>1. x \in D
    BY <1>18
  <2>2. frame[x] \in WordType /\ Value(frame[x], Tgt(m, top, s, z))
    BY <1>3, <2>1 DEF WordsIn
  <2>3. PICK b \in ST : x = h.mem[b].v
    BY DEF NamesOf
  <2>4. b \in Range(liveStacks) /\ h.mem[b] = m[b]
    BY <1>8, <1>15, <1>16
  <2>5. Clean(frame[x], top)
    BY <1>4, <2>3, <2>4 DEF Range
  <2> QED BY <1>11, <2>2, <2>5 DEF Value, Clean
<1> HIDE DEF L, D, ST, N, D1
<1>22. Program1(mem', oldEnd', limit', limit', var', frame', stacks', trackers', bits')
  BY <1>2, <1>3, <1>8, <1>9, <1>12, <1>13, <1>14, <1>17, <1>21 DEF Program1, ST, D1, z
<1>23. Program1(mem, oldEnd, limit, limit, var, frame, stacks, trackers, bits)'
  BY <1>2, <1>22 DEF Program1, Heap1, Layout
<1>24. Start1' = limit'
  BY <1>2 DEF Start1
<1>25. RunInv'
  <2>1. liveStacks' = << >> /\ top' = oldEnd' /\ oldEnd' <= from' /\ phase' = "evacuated"
    BY <1>2, <1>3, <1>5 DEF s
  <2> QED BY <1>23, <1>24, <2>1 DEF RunInv
<1>26. Numbers'
  BY <1>1, <1>2 DEF Numbers
<1> QED BY <1>2, <1>25, <1>26 DEF Inv, Copying
-----------------------------------------------------------------------------
(* The sizes of the nursery.                                                *)
LEMMA SizesOfNursery ==
  ASSUME NEW n \in Nat, NEW x \in Nat
  PROVE  /\ ComputeNurserySize(n, x) \in Nat
         /\ \E half \in Nat : n <= half /\ ComputeNurserySize(n, x) = 2 * half
<1> DEFINE q == (x + NurseryFraction - 1) \div NurseryFraction
<1>1. NurseryFraction \in Nat /\ NurseryFraction > 0
  BY Sizes
<1>2. x + NurseryFraction - 1 \in Nat
  BY <1>1
<1>3. q \in Nat
  BY <1>1, <1>2
<1> HIDE DEF q
<1>4. q + n \in Nat /\ n <= q + n /\ 2 * (q + n) \in Nat
  BY <1>3
<1>5. ComputeNurserySize(n, x) = 2 * (q + n)
  BY DEF ComputeNurserySize, q
<1> QED BY <1>4, <1>5

(* Where the nursery begins: at least half of the space is reserved for the *)
(* objects that survive.                                                    *)
LEMMA NurseryStartIs ==
  ASSUME NEW l \in Nat, NEW e \in Nat, e <= l
  PROVE  /\ NurseryStart(l, e) \in Nat /\ e <= NurseryStart(l, e) /\ NurseryStart(l, e) <= l
         /\ l - NurseryStart(l, e) <= NurseryStart(l, e) - e
         /\ \A half \in Nat : l = e + 2 * half => l - NurseryStart(l, e) = half
BY DEF NurseryStart

(* Another nursery above the same old objects.                              *)
LEMMA Relaid ==
  ASSUME NEW m, NEW e, NEW z0, NEW v, NEW f, NEW st, NEW tr, NEW B0,
         Program1(m, e, z0, z0, v, f, st, tr, B0),
         NEW s \in Nat, NEW z \in Nat, e <= s, s <= z, z <= MaxSize,
         NEW n \in Memory, \A c \in Cells : c < e => n[c] = m[c],
         \A c \in Cells : s <= c /\ c < z => n[c].k # "hdr",
         NEW B, B \subseteq B0
  PROVE  /\ Program1(n, e, s, z, v, f, st, tr, B)
         /\ \A a \in Objs(n, e, s, z) : a \in Nat /\ a < e
         /\ Barriers(B, n, e, s, z)
<1> DEFINE O == Objs(m, e, z0, z0)
<1>1. /\ Layout(m, e, z0, z0) /\ e \in Nat /\ z0 \in Nat /\ Fields(m, e, z0, z0, O) /\ m \in Memory /\ e <= z0
  BY DEF Program1, Heap1, Layout
<1>2. \A a \in O : a \in Nat /\ a < e
  BY <1>1, ObjectIs DEF Objs
<1>3. Objs(n, e, s, z) = O
  <2>1. ASSUME NEW a \in Objs(n, e, s, z) PROVE a \in O
    <3>1. a \in Cells /\ a \in Nat /\ n[a].k = "hdr" /\ a < e
      BY DEF Objs, Cells
    <3> QED BY <3>1 DEF Objs
  <2>2. ASSUME NEW a \in O PROVE a \in Objs(n, e, s, z)
    BY <1>2 DEF Objs
  <2> QED BY <2>1, <2>2
<1>4. ASSUME NEW a \in O
      PROVE  /\ n[a] = m[a] /\ AllocationSize(n, a) = AllocationSize(m, a) /\ Slots(n, a) = Slots(m, a)
             /\ n[a + 1] = m[a + 1]
             /\ \A c \in Range(Slots(m, a)) : n[c] = m[c]
  <2>1. /\ a \in Nat /\ a \in Cells /\ a + 1 \in Cells /\ AllocationSize(m, a) \in {2, 3} /\ a < e
        /\ \A c \in Range(Slots(m, a)) : c \in Cells /\ c < a + AllocationSize(m, a)
    BY <1>1, <1>2, ObjectIs
  <2>2. a + AllocationSize(m, a) <= e
    BY <1>1, <2>1 DEF Layout
  <2>3. a + 1 < e
    BY <1>1, <2>1, <2>2
  <2>4. \A c \in Range(Slots(m, a)) : c < e
    <3> SUFFICES ASSUME NEW c \in Range(Slots(m, a)) PROVE c < e
      OBVIOUS
    <3>1. c \in Nat /\ c < a + AllocationSize(m, a)
      BY <2>1 DEF Cells
    <3> QED BY <1>1, <2>1, <2>2, <3>1
  <2> QED BY <2>1, <2>3, <2>4 DEF AllocationSize, Slots
<1>5. Layout(n, e, s, z)
  BY <1>1, <1>2, <1>3, <1>4 DEF Layout
<1>6. Fields(n, e, s, z, O)
  BY <1>1, <1>3, <1>4 DEF Fields
<1>7. StacksIn(n, e, s, z) = StacksIn(m, e, z0, z0)
  BY <1>3, <1>4 DEF StacksIn
<1>8. WeakIn(n, e, s, z) = WeakIn(m, e, z0, z0)
  BY <1>3, <1>4 DEF WeakIn
<1>9. NamesOf(n, StacksIn(n, e, s, z)) = NamesOf(m, StacksIn(m, e, z0, z0))
  <2>1. \A a \in StacksIn(m, e, z0, z0) : n[a].v = m[a].v
    BY <1>4 DEF StacksIn
  <2> QED BY <1>7, <2>1 DEF NamesOf
<1>10. Lists(st, StacksIn(n, e, s, z), s) /\ Lists(tr, WeakIn(n, e, s, z), s)
  <2>1. Lists(st, StacksIn(m, e, z0, z0), z0) /\ Lists(tr, WeakIn(m, e, z0, z0), z0)
    BY DEF Program1
  <2>2. \A i \in DOMAIN st : ~(s <= st[i])
    BY <1>1, <1>2, <2>1 DEF Lists, StacksIn, Range
  <2>3. \A i \in DOMAIN tr : ~(s <= tr[i])
    BY <1>1, <1>2, <2>1 DEF Lists, WeakIn, Range
  <2> QED BY <1>7, <1>8, <2>1, <2>2, <2>3 DEF Lists
<1>11. WordsIn(v, Roots, O) /\ v[CurrentStack].k = "ref" /\ n[v[CurrentStack].v].t = "stack"
  <2>1. WordsIn(v, Roots, O) /\ v[CurrentStack].k = "ref" /\ m[v[CurrentStack].v].t = "stack"
    BY DEF Program1
  <2>2. v[CurrentStack].v \in O
    BY <2>1 DEF WordsIn, Value, Roots
  <2> QED BY <1>4, <2>1, <2>2
<1>12. WordsIn(f, NamesOf(m, StacksIn(m, e, z0, z0)), O)
  BY DEF Program1
<1>13. OldTrackers(n, e, s, z)
  BY <1>4, <1>8 DEF Program1, OldTrackers, WeakIn
<1>14. BitsIn(B, n, O)
  BY <1>4 DEF Program1, BitsIn
<1>15. Barriers(B, n, e, s, z)
  <2> SUFFICES ASSUME NEW a \in O, NEW c \in Range(Slots(n, a)), n[c].k = "ref", e <= n[c].v PROVE FALSE
    BY <1>3 DEF Barriers
  <2>1. n[c].v \in O
    BY <1>3, <1>6 DEF Fields, Value
  <2> QED BY <1>1, <1>2, <2>1
<1> HIDE DEF O
<1>16. Program1(n, e, s, z, v, f, st, tr, B)
  BY <1>3, <1>5, <1>6, <1>9, <1>10, <1>11, <1>12, <1>13, <1>14 DEF Program1, Heap1
<1> QED BY <1>2, <1>3, <1>15, <1>16
-----------------------------------------------------------------------------
(* The end of the evacuation.                                               *)
LEMMA FinishEvacuationKeeps ==
  ASSUME Inv, FinishEvacuation
  PROVE  Inv'
<1>1. Numbers /\ RunInv /\ phase = "evacuated"
  BY DEF Inv, Copying, FinishEvacuation
<1>2. /\ size' = size /\ sizeLimit' = sizeLimit /\ from' = from /\ oldEnd' = oldEnd
      /\ allocated' = allocated /\ var' = var /\ request' = request /\ frame' = frame
      /\ p' = p /\ trackers' = trackers /\ stacks' = stacks /\ liveStacks' = liveStacks
  BY DEF FinishEvacuation, lists
<1>3. Start1 = limit
  BY <1>1 DEF Start1
<1>4. /\ Program1(mem, oldEnd, limit, limit, var, frame, stacks, trackers, bits)
      /\ liveStacks = << >> /\ top = oldEnd
  BY <1>1, <1>3 DEF RunInv
<1>5. /\ oldEnd \in Nat /\ size \in Nat /\ limit \in Nat /\ oldEnd <= limit /\ limit <= size /\ size <= MaxSize
      /\ MaxSize \in Nat /\ request.size \in Nat /\ mem \in Memory
  BY <1>1, <1>4, Sizes DEF Numbers, Program1, Heap1, Layout
<1>6. BitsIn(bits, mem, Objs(mem, oldEnd, limit, limit)) /\ Layout(mem, oldEnd, limit, limit)
  BY <1>4 DEF Program1, Heap1
<1>7. CASE NurserySize <= AvailableSpace
  <2>1. /\ bits' = bits \ (0 .. oldEnd - 1) /\ limit' = oldEnd + NurserySize /\ top' = NurseryStart(limit', oldEnd)
        /\ mem' = WordsFrom(mem, oldEnd) /\ phase' = "collected"
    BY <1>7 DEF FinishEvacuation, ClearRememberedSet, ClearMark, SetLimit
  <2>2. PICK half \in Nat : request.size <= half /\ NurserySize = 2 * half
    BY <1>5, SizesOfNursery DEF NurserySize
  <2>3. limit' \in Nat /\ oldEnd <= limit' /\ limit' <= size /\ limit' = oldEnd + 2 * half
    BY <1>5, <1>7, <2>1, <2>2 DEF AvailableSpace
  <2>4. top' \in Nat /\ oldEnd <= top' /\ top' <= limit' /\ limit' - top' = half
    BY <1>5, <2>1, <2>3, NurseryStartIs
  <2>5. mem' \in Memory /\ \A c \in Cells : mem'[c] = IF c < oldEnd THEN mem[c] ELSE Junk
    BY <1>5, <2>1, WordIs DEF WordsFrom, Memory
  <2>6. /\ Program1(mem', oldEnd, top', limit', var, frame, stacks, trackers, bits')
        /\ \A a \in Objs(mem', oldEnd, top', limit') : a \in Nat /\ a < oldEnd
        /\ Barriers(bits', mem', oldEnd, top', limit')
    <3>1. bits' \subseteq bits
      BY <2>1
    <3>2. \A c \in Cells : c < oldEnd => mem'[c] = mem[c]
      BY <2>5
    <3>3. \A c \in Cells : top' <= c /\ c < limit' => mem'[c].k # "hdr"
      <4>1. \A c \in Cells : top' <= c => ~(c < oldEnd)
        BY <1>5, <2>4 DEF Cells
      <4> QED BY <2>5, <4>1, RefIs
    <3>4. limit' <= MaxSize
      BY <1>5, <2>3
    <3> QED BY <1>4, <2>3, <2>4, <2>5, <3>1, <3>2, <3>3, <3>4, Relaid
  <2>7. Start1' = top'
    BY <1>2, <2>1 DEF Start1
  <2>8. Program1(mem, oldEnd, Start1, limit, var, frame, stacks, trackers, bits)'
    BY <1>2, <2>6, <2>7 DEF Program1, Heap1, Layout
  <2>9. \A a \in Objs(mem', oldEnd', Start1', limit') : ~(Start1' <= a)
    BY <1>2, <1>5, <2>4, <2>6, <2>7
  <2>10. Barriers(bits', mem', oldEnd', Start1', limit') /\ Served' /\ Start1' <= top' /\ liveStacks' = << >>
    BY <1>2, <1>4, <1>5, <2>2, <2>4, <2>6, <2>7 DEF Served, Enough
  <2>11. RunInv'
    BY <2>1, <2>8, <2>9, <2>10 DEF RunInv
  <2>12. Numbers'
    BY <1>1, <1>2, <1>5, <2>3, <2>4 DEF Numbers
  <2> QED BY <2>1, <2>11, <2>12 DEF Inv, Copying
<1>8. CASE ~(NurserySize <= AvailableSpace)
  <2>1. limit' = oldEnd /\ phase' = "full" /\ mem' = mem /\ bits' = bits /\ top' = oldEnd
    BY <1>4, <1>8 DEF FinishEvacuation
  <2>2. NurseryStart(oldEnd, oldEnd) = oldEnd
    BY <1>5 DEF NurseryStart
  <2>3. Start1' = oldEnd
    BY <1>2, <2>1, <2>2 DEF Start1
  <2>4. /\ Program1(mem, oldEnd, oldEnd, oldEnd, var, frame, stacks, trackers, bits)
        /\ \A a \in Objs(mem, oldEnd, oldEnd, oldEnd) : a \in Nat /\ a < oldEnd
        /\ Barriers(bits, mem, oldEnd, oldEnd, oldEnd)
    <3>1. \A c \in Cells : ~(oldEnd <= c /\ c < oldEnd)
      BY <1>5 DEF Cells
    <3>2. oldEnd <= MaxSize /\ oldEnd <= oldEnd
      BY <1>5
    <3>3. /\ \A c \in Cells : c < oldEnd => mem[c] = mem[c]
          /\ \A c \in Cells : oldEnd <= c /\ c < oldEnd => mem[c].k # "hdr"
          /\ bits \subseteq bits
      BY <3>1
    <3> QED BY <1>4, <1>5, <3>2, <3>3, Relaid
  <2>5. Program1(mem, oldEnd, Start1, limit, var, frame, stacks, trackers, bits)'
    BY <1>2, <2>1, <2>3, <2>4 DEF Program1, Heap1, Layout
  <2>6. \A a \in Objs(mem', oldEnd', Start1', limit') : ~(Start1' <= a)
    BY <1>2, <1>5, <2>1, <2>3, <2>4
  <2>7. RunInv'
    BY <1>2, <1>4, <1>5, <2>1, <2>3, <2>5, <2>6 DEF RunInv
  <2>8. Numbers'
    BY <1>1, <1>2, <1>5, <2>1 DEF Numbers
  <2> QED BY <2>1, <2>7, <2>8 DEF Inv, Copying
<1> QED BY <1>7, <1>8
-----------------------------------------------------------------------------
(* The heap when the evacuation begins.                                     *)
LEMMA BeginHeap ==
  ASSUME NEW m, NEW e, NEW s, NEW z, Heap1(m, e, s, z), z - s <= s - e
  PROVE  /\ CopyState(m, e, s, z, e)
         /\ Objs(m, e, s, z) \subseteq Tgt(m, e, s, z)
         /\ \A a \in Objs(m, e, s, z) : Res(m, s, a) = a /\ NameOf(m, s, a) = m[a].v
<1> DEFINE O == Objs(m, e, s, z)
<1>1. /\ Layout(m, e, s, z) /\ e \in Nat /\ s \in Nat /\ z \in Nat /\ e <= s /\ s <= z /\ Fields(m, e, s, z, O)
  BY DEF Heap1, Layout
<1>2. \A a \in O : Res(m, s, a) = a /\ NameOf(m, s, a) = m[a].v /\ a \in Nat
  BY <1>1, ObjectIs DEF Objs, Res, NameOf
<1>3. O \subseteq Tgt(m, e, s, z)
  BY <1>2 DEF Tgt, Objs
<1>4. Fields(m, e, s, z, Tgt(m, e, s, z))
  BY <1>1, <1>3 DEF Fields, Value, WeakValue
<1>5. Room(m, e, s, z)
  <2> DEFINE C == Cover(m, Above(m, e, s, z))
  <2>1. C \subseteq s .. z - 1
    <3> SUFFICES ASSUME NEW a \in O, s <= a, NEW c \in a .. a + AllocationSize(m, a) - 1 PROVE c \in s .. z - 1
      BY DEF Cover, Above
    <3>1. a \in Nat /\ AllocationSize(m, a) \in {2, 3} /\ a + AllocationSize(m, a) <= z
      BY <1>1, ObjectIs
    <3> HIDE DEF O
    <3> QED BY <1>1, <3>1
  <2>2. s \in Int /\ z - 1 \in Int
    BY <1>1
  <2>3. IsFiniteSet(s .. z - 1) /\ Cardinality(s .. z - 1) = IF s > z - 1 THEN 0 ELSE (z - 1) - s + 1
    BY <2>2, FS_Interval
  <2>4. IsFiniteSet(C) /\ Cardinality(C) <= Cardinality(s .. z - 1)
    BY <2>1, <2>3, FS_Subset
  <2>5. Cardinality(C) \in Nat
    BY <2>4, FS_CardinalityType
  <2> HIDE DEF C
  <2>6. Cardinality(C) <= s - e
    BY <1>1, <2>3, <2>4, <2>5
  <2> QED BY <2>6 DEF Room, C
<1>6. Tiles(m, e, s, z, e)
  BY <1>1, <1>2 DEF Tiles
<1> QED BY <1>1, <1>2, <1>3, <1>4, <1>5, <1>6 DEF CopyState

(* A list of objects.                                                       *)
LEMMA BeginList ==
  ASSUME NEW m, NEW e, NEW s, NEW z, Heap1(m, e, s, z), z - s <= s - e,
         NEW A, A \subseteq Objs(m, e, s, z), NEW list, Lists(list, A, s)
  PROVE  Listed(m, e, s, z, list) /\ YoungFirst(list, s)
<1>1. /\ Objs(m, e, s, z) \subseteq Tgt(m, e, s, z)
      /\ \A a \in Objs(m, e, s, z) : Res(m, s, a) = a /\ NameOf(m, s, a) = m[a].v
  BY BeginHeap
<1>2. list \in Seq(Cells) /\ DOMAIN list = 1 .. Len(list)
  BY DEF Lists
<1>3. \A i \in DOMAIN list : list[i] \in A
  BY DEF Lists, Range
<1>4. ASSUME NEW i \in DOMAIN list, NEW j \in DOMAIN list, i # j
      PROVE  NameOf(m, s, list[i]) # NameOf(m, s, list[j])
  <2>1. list[i] # list[j]
    <3>1. i < j \/ j < i
      BY <1>2, <1>4
    <3> QED BY <3>1 DEF Lists
  <2>2. list[i] \in Objs(m, e, s, z) /\ list[j] \in Objs(m, e, s, z)
    BY <1>3
  <2> QED BY <1>1, <2>1, <2>2 DEF Heap1, Layout
<1>5. YoungFirst(list, s)
  BY DEF Lists, YoungFirst
<1> QED BY <1>1, <1>2, <1>3, <1>4, <1>5 DEF Listed

(* The program's lists and words are the ones the evacuation begins with.   *)
LEMMA BeginCollectionKeeps ==
  ASSUME Inv, phase = "run", NEW req, req.size \in Nat, BeginCollection(req)
  PROVE  Inv'
<1> DEFINE m == mem
           e == oldEnd
           s == Start1
           z == limit
           O == Objs(m, e, s, z)
           T == Tgt(m, e, s, z)
<1>1. Numbers /\ RunInv
  BY DEF Inv, Copying
<1>2. /\ size' = size /\ sizeLimit' = sizeLimit /\ limit' = limit /\ from' = NurseryStart(limit, oldEnd)
      /\ oldEnd' = oldEnd /\ allocated' = allocated /\ var' = var /\ request' = req /\ frame' = frame
      /\ trackers' = trackers /\ stacks' = stacks /\ liveStacks' = liveStacks /\ mem' = mem
  BY DEF BeginCollection, heapVars, lists
<1>3. s = NurseryStart(limit, oldEnd)
  BY DEF Start1
<1>4. /\ oldEnd \in Nat /\ limit \in Nat /\ oldEnd <= limit /\ limit <= MaxSize /\ MaxSize \in Nat /\ top \in Nat
      /\ top <= limit
  BY <1>1, Sizes DEF Numbers
<1>5. s \in Nat /\ e <= s /\ s <= z /\ z - s <= s - e
  BY <1>3, <1>4, NurseryStartIs
<1>6. /\ Program1(m, e, s, z, var, frame, stacks, trackers, bits)
      /\ liveStacks = << >> /\ s <= top
      /\ \A a \in O : s <= a => a + AllocationSize(m, a) <= top
      /\ Barriers(bits, m, e, s, z)
  BY <1>1 DEF RunInv
<1>7. CASE phase' = "remembered"
  <2>1. phase' = "remembered" /\ p' = 0 /\ bits' = bits \ (s .. top - 1) /\ top' = oldEnd
    BY <1>3, <1>7 DEF BeginCollection, ClearNurseryBits, ClearMark
  <2>2. Heap1(m, e, s, z) /\ Layout(m, e, s, z)
    BY <1>6 DEF Program1, Heap1
  <2>3. CopyState(m, e, s, z, e) /\ O \subseteq T /\ \A a \in O : Res(m, s, a) = a /\ NameOf(m, s, a) = m[a].v
    BY <1>5, <2>2, BeginHeap
  <2>4. WordsIn(var, Roots, O) /\ var[CurrentStack].k = "ref" /\ m[var[CurrentStack].v].t = "stack"
    BY <1>6 DEF Program1
  <2>5. WordsIn(var, Roots, T)
    BY <2>3, <2>4 DEF WordsIn, Value
  <2>6. m[Res(m, s, var[CurrentStack].v)].t = "stack"
    <3>1. var[CurrentStack].v \in O
      BY <2>4 DEF WordsIn, Value, Roots
    <3> QED BY <2>3, <2>4, <3>1
  <2>7. WordsIn(frame, NamesOf(m, StacksIn(m, e, s, z)), T)
    BY <1>6, <2>3 DEF Program1, WordsIn, Value
  <2>8. Listed(m, e, s, z, stacks) /\ YoungFirst(stacks, s) /\ Range(stacks) = StacksIn(m, e, s, z)
    <3>1. Lists(stacks, StacksIn(m, e, s, z), s) /\ StacksIn(m, e, s, z) \subseteq O
      BY <1>6 DEF Program1, StacksIn
    <3>2. Listed(m, e, s, z, stacks) /\ YoungFirst(stacks, s)
      BY <1>5, <2>2, <3>1, BeginList
    <3> QED BY <3>1, <3>2 DEF Lists
  <2>9. Listed(m, e, s, z, trackers) /\ YoungFirst(trackers, s) /\ Range(trackers) = WeakIn(m, e, s, z)
    <3>1. Lists(trackers, WeakIn(m, e, s, z), s) /\ WeakIn(m, e, s, z) \subseteq O
      BY <1>6 DEF Program1, WeakIn
    <3>2. Listed(m, e, s, z, trackers) /\ YoungFirst(trackers, s)
      BY <1>5, <2>2, <3>1, BeginList
    <3> QED BY <3>1, <3>2 DEF Lists
  <2>10. StacksListed(m, e, s, z, stacks, << >>)
    <3>1. Range(<< >>) = {} /\ DOMAIN << >> = {} /\ << >> \in Seq(Cells)
      BY DEF Range
    <3>2. Listed(m, e, s, z, << >>)
      BY <3>1 DEF Listed
    <3>3. \A b \in StacksIn(m, e, s, z) : b \in O /\ m[b].t = "stack"
      BY DEF StacksIn
    <3> QED BY <2>3, <2>8, <3>1, <3>2, <3>3 DEF StacksListed
  <2>11. TrackersListed(m, e, s, z, trackers)
    <3>1. \A a \in Range(trackers) : a \in O /\ m[a].t = "tracker" /\ m[a + 1].k = "weak"
      BY <2>9 DEF WeakIn
    <3>2. ASSUME NEW a \in Range(trackers), a < s PROVE m[a + 1].v < s
      <4>1. a \in WeakIn(m, e, s, z) /\ a \in O /\ m[a].t = "tracker" /\ m[a + 1].k = "weak"
        BY <2>9, <3>1
      <4>2. a \in Nat /\ a < e
        BY <1>5, <2>2, <3>2, <4>1, ObjectIs DEF Objs
      <4>3. m[a + 1].v < e
        BY <1>6, <4>1, <4>2 DEF Program1, OldTrackers
      <4>4. m[a + 1].v \in O
        BY <2>2, <4>1 DEF Heap1, Fields, WeakValue
      <4>5. m[a + 1].v \in Nat
        BY <2>2, <4>4, ObjectIs
      <4> QED BY <1>4, <1>5, <4>3, <4>5
    <3> QED BY <2>3, <2>9, <3>1, <3>2 DEF TrackersListed
  <2>12. BitsIn(bits', m, {a \in O : a < oldEnd})
    <3> SUFFICES ASSUME NEW c \in bits' PROVE \E a \in O : a < oldEnd /\ c \in Range(Slots(m, a))
      BY DEF BitsIn
    <3>1. PICK a \in O : c \in Range(Slots(m, a))
      BY <1>6, <2>1 DEF Program1, BitsIn
    <3>2. a \in Nat /\ c \in Cells /\ a < c /\ c < a + AllocationSize(m, a) /\ AllocationSize(m, a) \in {2, 3}
      BY <2>2, <3>1, ObjectIs
    <3>3. ASSUME s <= a PROVE FALSE
      <4>1. a + AllocationSize(m, a) <= top
        BY <1>6, <3>3
      <4>2. c \in Nat
        BY <3>2 DEF Cells
      <4>3. c \in s .. top - 1
        BY <1>4, <1>5, <3>2, <3>3, <4>1, <4>2
      <4> QED BY <2>1, <4>3
    <3>4. a < oldEnd
      BY <3>1, <3>3 DEF Objs
    <3> QED BY <3>1, <3>4
  <2>13. CleanTo(m, e, s, z, oldEnd, {c \in bits' : 0 <= c})
    <3> SUFFICES ASSUME NEW a \in O, a < oldEnd, NEW c \in Range(Slots(m, a)), m[c].k = "ref", ~(m[c].v < oldEnd)
                 PROVE  c \in bits' /\ 0 <= c
      BY DEF CleanTo, Clean
    <3>1. c \in Nat /\ c < oldEnd
      BY <2>3, SlotBelow
    <3>2. m[c].v \in O
      BY <2>2 DEF Heap1, Fields, Value
    <3>3. m[c].v \in Nat
      BY <2>2, <3>2, ObjectIs
    <3>4. c \in bits
      BY <1>4, <1>6, <3>3 DEF Barriers
    <3>5. c \notin s .. top - 1
      BY <1>4, <1>5, <3>1
    <3> QED BY <2>1, <3>1, <3>4, <3>5
  <2> HIDE DEF m, e, s, z, O, T
  <2>14. mem' = m /\ top' = e /\ from' = s /\ limit' = z /\ oldEnd' = e
    BY <1>2, <1>3, <2>1 DEF m, e, z
  <2>15. CopyState(mem, top, from, limit, oldEnd)'
    BY <1>2, <2>3, <2>14 DEF CopyState, Layout
  <2>16. CopyInv'
    BY <1>2, <1>5, <1>6, <2>1, <2>4, <2>5, <2>6, <2>7, <2>8, <2>10, <2>11, <2>12, <2>13, <2>14, <2>15 DEF CopyInv, O, T, e
  <2>17. Numbers'
    BY <1>1, <1>2, <1>4, <1>5, <2>1, <2>14 DEF Numbers, z
  <2> QED BY <2>1, <2>16, <2>17 DEF Inv, Copying
<1>8. CASE phase' \in {"full", "collected"}
  <2>1. bits' = bits /\ top' = top /\ p' = p /\ (phase' = "collected" => Beyond')
    <3>1. bits' = bits /\ top' = top /\ p' = p /\ (phase' = "collected" => ~CanBeHeld(req.size))
      BY <1>8 DEF BeginCollection
    <3>2. ~CanBeHeld(req.size) => req.size >= MaxSize
      BY <1>4 DEF CanBeHeld
    <3> QED BY <1>2, <3>1, <3>2 DEF Beyond
  <2>2. Start1' = s
    BY <1>2, <1>3, <1>8 DEF Start1
  <2> HIDE DEF m, e, s, z, O, T
  <2>3. mem' = m /\ limit' = z /\ oldEnd' = e
    BY <1>2 DEF m, e, z
  <2>4. Program1(mem, oldEnd, Start1, limit, var, frame, stacks, trackers, bits)'
    BY <1>2, <1>6, <2>1, <2>2, <2>3 DEF Program1, Heap1, Layout
  <2>5. RunInv'
    BY <1>2, <1>6, <1>8, <2>1, <2>2, <2>3, <2>4 DEF RunInv, O
  <2>6. Numbers'
    <3>1. from' \in 0 .. MaxSize
      BY <1>2, <1>3, <1>4, <1>5 DEF s, z, e
    <3> QED BY <1>1, <1>2, <2>1, <3>1 DEF Numbers
  <2> QED BY <1>8, <2>5, <2>6 DEF Inv, Copying
<1> QED BY <1>7, <1>8 DEF BeginCollection
-----------------------------------------------------------------------------
(* What the program leaves as it was when it takes a step.                  *)
LEMMA RunOn ==
  ASSUME Inv, Running, allocated' \in 1 .. MaxObjects, top' \in Nat, top <= top', top' <= limit,
         Program1(mem, oldEnd, Start1, limit, var, frame, stacks, trackers, bits)',
         Barriers(bits', mem', oldEnd, Start1, limit),
         \A a \in Objs(mem', oldEnd, Start1, limit) : Start1 <= a => a + AllocationSize(mem', a) <= top'
  PROVE  Inv'
<1>1. Numbers /\ RunInv /\ phase = "run"
  BY DEF Inv, Copying, Running
<1>2. /\ size' = size /\ sizeLimit' = sizeLimit /\ limit' = limit /\ oldEnd' = oldEnd /\ phase' = "run"
      /\ request' = request /\ p' = p /\ liveStacks' = liveStacks /\ from' = from
  BY <1>1 DEF Running, heapVars
<1>3. Start1' = Start1
  BY <1>1, <1>2 DEF Start1
<1>4. Start1 <= top /\ Start1 \in Nat /\ top \in Nat /\ limit \in Nat /\ liveStacks = << >>
  <2>1. Start1 = NurseryStart(limit, oldEnd) /\ oldEnd \in Nat /\ limit \in Nat /\ oldEnd <= limit /\ top \in Nat
    BY <1>1 DEF Start1, Numbers
  <2> QED BY <1>1, <2>1, NurseryStartIs DEF RunInv
<1>5. Start1 <= top'
  BY <1>4
<1>6. RunInv'
  BY <1>2, <1>3, <1>4, <1>5 DEF RunInv
<1>7. Numbers'
  BY <1>1, <1>2, <1>4 DEF Numbers
<1> QED BY <1>2, <1>6, <1>7 DEF Inv, Copying

(* The program's heap.                                                      *)
LEMMA RunIs ==
  ASSUME Inv, phase = "run"
  PROVE  /\ Program1(mem, oldEnd, Start1, limit, var, frame, stacks, trackers, bits)
         /\ Layout(mem, oldEnd, Start1, limit)
         /\ Fields(mem, oldEnd, Start1, limit, Objs(mem, oldEnd, Start1, limit))
         /\ Barriers(bits, mem, oldEnd, Start1, limit)
         /\ \A a \in Objs(mem, oldEnd, Start1, limit) : Start1 <= a => a + AllocationSize(mem, a) <= top
         /\ \A r \in Roots : var[r] \in WordType /\ Value(var[r], Objs(mem, oldEnd, Start1, limit))
         /\ allocated \in 1 .. MaxObjects /\ MaxObjects \in Nat /\ top \in Nat /\ top <= limit /\ limit \in Nat
         /\ limit <= MaxSize /\ Start1 \in Nat /\ oldEnd \in Nat /\ oldEnd <= Start1 /\ Start1 <= top
<1>1. Numbers /\ RunInv
  BY DEF Inv, Copying
<1>2. Program1(mem, oldEnd, Start1, limit, var, frame, stacks, trackers, bits)
  BY <1>1 DEF RunInv
<1>3. allocated \in 1 .. MaxObjects /\ MaxObjects \in Nat /\ top \in Nat /\ top <= limit /\ limit \in Nat /\ limit <= MaxSize
  BY <1>1, Sizes DEF Numbers
<1> QED BY <1>1, <1>2, <1>3 DEF RunInv, Program1, Heap1, Layout, WordsIn

(* A step that changes the value of a root.                                 *)
LEMMA SetRootKeeps ==
  ASSUME Inv, Running, UNCHANGED <<mem, bits, top, frame, stacks, trackers, allocated>>,
         NEW v \in Vars, NEW u \in WordType, Value(u, Objs(mem, oldEnd, Start1, limit)),
         var' = [var EXCEPT ![v] = u]
  PROVE  Inv'
<1>1. phase = "run"
  BY DEF Running
<1>2. /\ Program1(mem, oldEnd, Start1, limit, var, frame, stacks, trackers, bits)
      /\ Barriers(bits, mem, oldEnd, Start1, limit)
      /\ \A a \in Objs(mem, oldEnd, Start1, limit) : Start1 <= a => a + AllocationSize(mem, a) <= top
      /\ allocated \in 1 .. MaxObjects /\ top \in Nat /\ top <= limit
  BY <1>1, RunIs
<1>3. v \in Roots /\ v # CurrentStack /\ CurrentStack \in Roots
  BY RootsFinite DEF Roots
<1>4. WordsIn(var', Roots, Objs(mem, oldEnd, Start1, limit)) /\ var'[CurrentStack] = var[CurrentStack]
  BY <1>2, <1>3 DEF Program1, WordsIn
<1>5. Program1(mem, oldEnd, Start1, limit, var', frame, stacks, trackers, bits)
  BY <1>2, <1>4 DEF Program1
<1>6. limit' = limit /\ oldEnd' = oldEnd /\ phase' = phase /\ Start1' = Start1
  BY DEF Running, heapVars, Start1
<1>7. Program1(mem, oldEnd, Start1, limit, var, frame, stacks, trackers, bits)'
  BY <1>5, <1>6 DEF Program1, Heap1, Layout
<1>8. top <= top
  BY <1>2
<1> QED BY <1>2, <1>7, <1>8, RunOn

(* load, and the other ways a root gets a value.                            *)
LEMMA LoadKeeps ==
  ASSUME Inv, NEW v \in Vars, NEW w \in Vars, NEW i \in {1}, Load(v, w, i)
  PROVE  Inv'
<1>1. Running /\ phase = "run"
  BY DEF Load, Running
<1> DEFINE O == Objs(mem, oldEnd, Start1, limit)
           a == var[w].v
           c == Slots(mem, a)[i]
<1>2. Layout(mem, oldEnd, Start1, limit) /\ Fields(mem, oldEnd, Start1, limit, O) /\ Value(var[w], O)
  BY <1>1, RunIs DEF Roots
<1>3. a \in O /\ c \in Range(Slots(mem, a))
  BY <1>2 DEF Load, Value, Range
<1>4. c \in Cells /\ Value(mem[c], O)
  BY <1>2, <1>3, ObjectIs DEF Fields
<1>5. mem[c] \in WordType
  BY <1>2, <1>4 DEF Layout, Memory
<1>6. var' = [var EXCEPT ![v] = mem[c]] /\ UNCHANGED <<mem, bits, top, frame, stacks, trackers, allocated>>
  BY DEF Load
<1> HIDE DEF c
<1> QED BY <1>1, <1>4, <1>5, <1>6, SetRootKeeps

(* A root gets the word of a frame ...                                     *)
LEMMA LoadFrameKeeps ==
  ASSUME Inv, NEW v \in Vars, NEW w \in Roots, LoadFrame(v, w)
  PROVE  Inv'
<1>1. Running /\ phase = "run"
  BY DEF LoadFrame, Running
<1> DEFINE O == Objs(mem, oldEnd, Start1, limit)
           a == var[w].v
           x == mem[a].v
<1>2. Layout(mem, oldEnd, Start1, limit) /\ Value(var[w], O)
      /\ Program1(mem, oldEnd, Start1, limit, var, frame, stacks, trackers, bits)
  BY <1>1, RunIs
<1>3. a \in O /\ mem[a].t = "stack"
  BY <1>2 DEF LoadFrame, IsA, Value
<1>4. frame[x] \in WordType /\ Value(frame[x], O)
  BY <1>2, <1>3 DEF Program1, WordsIn, NamesOf, StacksIn
<1>5. var' = [var EXCEPT ![v] = frame[x]] /\ UNCHANGED <<mem, bits, top, frame, stacks, trackers, allocated>>
  BY DEF LoadFrame
<1> HIDE DEF x
<1> QED BY <1>1, <1>4, <1>5, SetRootKeeps

(* ... the value of a tracker, if it is alive ...                          *)
LEMMA TrackerValueKeeps ==
  ASSUME Inv, NEW v \in Vars, NEW w \in Roots, TrackerValue(v, w)
  PROVE  Inv'
<1>1. Running /\ phase = "run"
  BY DEF TrackerValue, Running
<1> DEFINE O == Objs(mem, oldEnd, Start1, limit)
           a == var[w].v
           x == mem[a + 1]
           u == IF x.k = "weak" THEN Ref(x.v) ELSE Plain
<1>2. Layout(mem, oldEnd, Start1, limit) /\ Fields(mem, oldEnd, Start1, limit, O) /\ Value(var[w], O)
  BY <1>1, RunIs
<1>3. a \in O /\ mem[a].t = "tracker"
  BY <1>2 DEF TrackerValue, IsA, Value
<1>4. WeakValue(x, O)
  BY <1>2, <1>3 DEF Fields
<1>5. x.k = "weak" => x.v \in O /\ x.v \in Nat
  BY <1>2, <1>4, ObjectIs DEF WeakValue
<1>6. u \in WordType /\ Value(u, O)
  <2>1. Plain \in WordType
    <3>1. 0 \in Nat
      OBVIOUS
    <3> QED BY <3>1, WordIs
  <2>2. x.k = "weak" => Ref(x.v) \in WordType
    BY <1>5, WordIs
  <2> HIDE DEF x, O
  <2> QED BY <1>5, <2>1, <2>2, RefIs DEF Value
<1>7. var' = [var EXCEPT ![v] = u] /\ UNCHANGED <<mem, bits, top, frame, stacks, trackers, allocated>>
  BY DEF TrackerValue
<1> HIDE DEF u
<1> QED BY <1>1, <1>6, <1>7, SetRootKeeps

(* ... or is forgotten.                                                    *)
LEMMA ForgetKeeps ==
  ASSUME Inv, NEW v \in Vars, Forget(v)
  PROVE  Inv'
<1>1. Running /\ var' = [var EXCEPT ![v] = Plain] /\ UNCHANGED <<mem, bits, top, frame, stacks, trackers, allocated>>
  BY DEF Forget
<1>2. Plain \in WordType /\ Value(Plain, Objs(mem, oldEnd, Start1, limit))
  <2>1. 0 \in Nat
    OBVIOUS
  <2> QED BY <2>1, WordIs, RefIs DEF Value
<1> QED BY <1>1, <1>2, SetRootKeeps
-----------------------------------------------------------------------------
(* A store into a slot of an object, with the bit of that slot set.         *)
LEMMA StoreKeeps ==
  ASSUME Inv, NEW v \in Vars, NEW w \in Vars, NEW i \in {1}, Store(v, i, w)
  PROVE  Inv'
<1> DEFINE m == mem
           e == oldEnd
           s == Start1
           z == limit
           O == Objs(m, e, s, z)
           a == var[v].v
           c == Slots(mem, a)[i]
           n == mem'
<1>1. Running /\ phase = "run" /\ v \in Roots /\ w \in Roots
  BY DEF Store, Running, Roots
<1>2. /\ Program1(m, e, s, z, var, frame, stacks, trackers, bits)
      /\ Layout(m, e, s, z) /\ Fields(m, e, s, z, O) /\ Barriers(bits, m, e, s, z)
      /\ \A b \in O : s <= b => b + AllocationSize(m, b) <= top
      /\ Value(var[v], O) /\ var[w] \in WordType /\ Value(var[w], O)
      /\ allocated \in 1 .. MaxObjects /\ top \in Nat /\ top <= limit
  BY <1>1, RunIs
<1>3. a \in O /\ c \in Range(Slots(m, a))
  BY <1>2 DEF Store, Value, Range
<1>4. n = [m EXCEPT ![c] = var[w]] /\ bits' = bits \cup {c} /\ UNCHANGED <<top, var, frame, stacks, trackers, allocated>>
  BY DEF Store, Barrier
<1>5. SlotSet(m, e, s, z, O, a, c, var[w], n)
  BY <1>2, <1>3, <1>4, SetSlot
<1>6. limit' = limit /\ oldEnd' = oldEnd /\ phase' = phase /\ Start1' = s
  BY <1>1 DEF Running, heapVars, Start1
<1> HIDE DEF m, e, s, z, a, c, n
<1>7. /\ Layout(n, e, s, z) /\ Fields(n, e, s, z, O) /\ Objs(n, e, s, z) = O
      /\ \A b \in O : n[b] = m[b] /\ AllocationSize(n, b) = AllocationSize(m, b) /\ Slots(n, b) = Slots(m, b)
      /\ \A b \in O : m[b].t = "tracker" => n[b + 1] = m[b + 1]
      /\ \A x \in Cells : x # c => n[x] = m[x]
  BY <1>5 DEF SlotSet
<1>8. StacksIn(n, e, s, z) = StacksIn(m, e, s, z)
  BY <1>7 DEF StacksIn
<1>9. WeakIn(n, e, s, z) = WeakIn(m, e, s, z)
  BY <1>7 DEF WeakIn
<1>10. NamesOf(n, StacksIn(n, e, s, z)) = NamesOf(m, StacksIn(m, e, s, z))
  <2>1. \A b \in StacksIn(m, e, s, z) : n[b].v = m[b].v
    BY <1>7 DEF StacksIn
  <2> QED BY <1>8, <2>1 DEF NamesOf
<1>11. WordsIn(var, Roots, O) /\ var[CurrentStack].k = "ref" /\ n[var[CurrentStack].v].t = "stack"
  <2>1. WordsIn(var, Roots, O) /\ var[CurrentStack].k = "ref" /\ m[var[CurrentStack].v].t = "stack"
    BY <1>2 DEF Program1
  <2>2. var[CurrentStack].v \in O
    BY <2>1 DEF WordsIn, Value, Roots
  <2> QED BY <1>7, <2>1, <2>2
<1>12. OldTrackers(n, e, s, z)
  <2>1. \A b \in WeakIn(m, e, s, z) : n[b + 1] = m[b + 1]
    BY <1>7 DEF WeakIn
  <2> QED BY <1>2, <1>9, <2>1 DEF Program1, OldTrackers
<1>13. BitsIn(bits', n, O)
  BY <1>2, <1>3, <1>4, <1>7 DEF Program1, BitsIn
<1>14. Barriers(bits', n, e, s, z)
  <2> SUFFICES ASSUME NEW b \in O, b < e, NEW x \in Range(Slots(m, b)), n[x].k = "ref", e <= n[x].v
               PROVE  x \in bits'
    BY <1>7 DEF Barriers
  <2>1. x \in Cells
    BY <1>2, ObjectIs
  <2>2. CASE x = c
    BY <1>4, <2>2
  <2>3. CASE x # c
    BY <1>2, <1>4, <1>7, <2>1, <2>3 DEF Barriers
  <2> QED BY <2>2, <2>3
<1>15. /\ WordsIn(frame, NamesOf(m, StacksIn(m, e, s, z)), O)
       /\ Lists(stacks, StacksIn(m, e, s, z), s) /\ Lists(trackers, WeakIn(m, e, s, z), s)
  BY <1>2 DEF Program1
<1>16. Program1(n, e, s, z, var, frame, stacks, trackers, bits')
  <2> HIDE DEF O
  <2> QED BY <1>7, <1>8, <1>9, <1>10, <1>11, <1>12, <1>13, <1>15 DEF Program1, Heap1
<1>17. Program1(mem, oldEnd, Start1, limit, var, frame, stacks, trackers, bits)'
  <2>1. /\ mem' = n /\ oldEnd' = e /\ limit' = z /\ Start1' = s /\ allocated' = allocated
        /\ var' = var /\ frame' = frame /\ stacks' = stacks /\ trackers' = trackers
    BY <1>4, <1>6 DEF n, e, z
  <2> HIDE DEF O
  <2> QED BY <1>16, <2>1 DEF Program1, Heap1, Layout
<1>18. Barriers(bits', mem', oldEnd, Start1, limit)
  BY <1>14 DEF n, e, s, z
<1>19. \A b \in Objs(mem', oldEnd, Start1, limit) : Start1 <= b => b + AllocationSize(mem', b) <= top'
  <2>1. \A b \in O : s <= b => b + AllocationSize(n, b) <= top'
    BY <1>2, <1>4, <1>7
  <2> QED BY <1>7, <2>1 DEF n, e, s, z
<1>20. allocated' \in 1 .. MaxObjects /\ top' \in Nat /\ top <= top' /\ top' <= limit
  BY <1>2, <1>4
<1> QED BY <1>1, <1>17, <1>18, <1>19, <1>20, RunOn

(* A store into the frames of a stack.                                      *)
LEMMA StoreFrameKeeps ==
  ASSUME Inv, NEW v \in Roots, NEW w \in Vars, StoreFrame(v, w)
  PROVE  Inv'
<1> DEFINE O == Objs(mem, oldEnd, Start1, limit)
           N == NamesOf(mem, StacksIn(mem, oldEnd, Start1, limit))
           x == mem[var[v].v].v
<1>1. Running /\ phase = "run" /\ w \in Roots
  BY DEF StoreFrame, Running, Roots
<1>2. /\ Program1(mem, oldEnd, Start1, limit, var, frame, stacks, trackers, bits)
      /\ Barriers(bits, mem, oldEnd, Start1, limit)
      /\ \A b \in O : Start1 <= b => b + AllocationSize(mem, b) <= top
      /\ Value(var[v], O) /\ var[w] \in WordType /\ Value(var[w], O)
      /\ allocated \in 1 .. MaxObjects /\ top \in Nat /\ top <= limit
  BY <1>1, RunIs
<1>3. x \in N
  BY <1>2 DEF StoreFrame, IsA, Value, NamesOf, StacksIn
<1>4. frame' = [frame EXCEPT ![x] = var[w]] /\ UNCHANGED <<mem, bits, top, var, stacks, trackers, allocated>>
  BY DEF StoreFrame
<1> HIDE DEF x, O, N
<1>5. WordsIn(frame, N, O)
  BY <1>2 DEF Program1, O, N
<1>6. WordsIn(frame', N, O)
  BY <1>2, <1>3, <1>4, <1>5 DEF WordsIn
<1>7. Program1(mem, oldEnd, Start1, limit, var, frame', stacks, trackers, bits)
  BY <1>2, <1>6 DEF Program1, O, N
<1>8. limit' = limit /\ oldEnd' = oldEnd /\ phase' = phase /\ Start1' = Start1
  BY <1>1 DEF Running, heapVars, Start1
<1>9. Program1(mem, oldEnd, Start1, limit, var, frame, stacks, trackers, bits)'
  BY <1>4, <1>7, <1>8 DEF Program1, Heap1, Layout
<1>10. \A b \in Objs(mem', oldEnd, Start1, limit) : Start1 <= b => b + AllocationSize(mem', b) <= top'
  BY <1>2, <1>4 DEF O
<1>11. allocated' \in 1 .. MaxObjects /\ top' \in Nat /\ top <= top' /\ top' <= limit
  BY <1>2, <1>4
<1> QED BY <1>1, <1>2, <1>4, <1>9, <1>10, <1>11, RunOn

-----------------------------------------------------------------------------
(* An address above all others at the head of a list.                       *)
LEMMA ListHeaded ==
  ASSUME NEW list, NEW A, NEW s \in Nat, Lists(list, A, s), NEW a \in Cells, s <= a,
         \A b \in A : b < a
  PROVE  Lists(<<a>> \o list, A \cup {a}, s)
<1> DEFINE l == <<a>> \o list
           k == Len(list)
<1>1. list \in Seq(Cells) /\ Range(list) = A
      /\ \A i, j \in DOMAIN list : i < j => list[i] # list[j] /\ (s <= list[j] => s <= list[i])
  BY DEF Lists
<1>2. /\ l \in Seq(Cells) /\ k \in Nat /\ DOMAIN l = 1 .. k + 1 /\ DOMAIN list = 1 .. k
      /\ \A i \in 1 .. k : l[i + 1] = list[i]
      /\ l[1] = a
  BY <1>1, OneMore
<1> HIDE DEF l, k
<1>3. \A i \in DOMAIN l : i # 1 => i - 1 \in DOMAIN list /\ l[i] = list[i - 1]
  <2>1. ASSUME NEW i \in DOMAIN l, i # 1 PROVE i - 1 \in DOMAIN list /\ l[i] = list[i - 1]
    <3>1. i - 1 \in 1 .. k /\ (i - 1) + 1 = i
      BY <1>2, <2>1
    <3>2. l[(i - 1) + 1] = list[i - 1]
      BY <1>2, <3>1
    <3> QED BY <1>2, <3>1, <3>2
  <2> QED BY <2>1
<1>4. Range(l) = A \cup {a}
  <2>1. ASSUME NEW i \in DOMAIN list PROVE list[i] \in Range(l)
    <3>1. i + 1 \in DOMAIN l /\ l[i + 1] = list[i]
      BY <1>2
    <3> QED BY <3>1 DEF Range
  <2>2. a \in Range(l)
    <3>1. 1 \in DOMAIN l
      BY <1>2
    <3> QED BY <1>2, <3>1 DEF Range
  <2>3. ASSUME NEW i \in DOMAIN l PROVE l[i] \in Range(list) \cup {a}
    BY <1>2, <1>3 DEF Range
  <2> QED BY <1>1, <2>1, <2>2, <2>3 DEF Range
<1>5. ASSUME NEW i \in DOMAIN l, NEW j \in DOMAIN l, i < j PROVE l[i] # l[j] /\ (s <= l[j] => s <= l[i])
  <2>1. j # 1 /\ i \in Nat /\ j \in Nat
    BY <1>2, <1>5
  <2>2. j - 1 \in DOMAIN list /\ l[j] = list[j - 1]
    BY <1>3, <2>1
  <2>3. CASE i = 1
    <3>1. l[j] \in A
      BY <1>1, <2>2 DEF Range
    <3>2. list[j - 1] \in Cells
      BY <1>1, <2>2
    <3>3. l[j] \in Nat /\ a \in Nat
      BY <2>2, <3>2 DEF Cells
    <3>4. l[j] < a
      BY <3>1
    <3> QED BY <1>2, <2>3, <3>3, <3>4
  <2>4. CASE i # 1
    <3>1. i - 1 \in DOMAIN list /\ l[i] = list[i - 1] /\ i - 1 < j - 1
      BY <1>3, <1>5, <2>1, <2>4
    <3> QED BY <1>1, <2>2, <3>1
  <2> QED BY <2>3, <2>4
<1> QED BY <1>2, <1>4, <1>5 DEF Lists, l

(* The heap with a new object of type t at o.                               *)
NewHeap(m, o, t, id, value) ==
  [c \in Cells |->
     IF c = o THEN Header(t, id)
     ELSE IF c \in o + 1 .. o + ObjectSize[t] - 1
          THEN IF t = "tracker" THEN Weak(value.v)
               ELSE IF c - o \in Range(RefSlots[t]) THEN value ELSE Plain
     ELSE m[c]]

(* What a new object is, and that it changes no other one.                  *)
NewObject(m, e, s, z, o, t, id, value, n) ==
  /\ n \in Memory /\ o \in Cells /\ ObjectSize[t] \in {2, 3}
  /\ n[o].k = "hdr" /\ n[o].t = t /\ n[o].v = id
  /\ \A c \in Range(Slots(n, o)) : n[c] = value
  /\ t = "tracker" => n[o + 1] = Weak(value.v)
  /\ AllocationSize(n, o) = ObjectSize[t]
  /\ Objs(n, e, s, z) = Objs(m, e, s, z) \cup {o}
  /\ \A b \in Objs(m, e, s, z) :
       /\ n[b] = m[b] /\ AllocationSize(n, b) = AllocationSize(m, b) /\ Slots(n, b) = Slots(m, b)
       /\ n[b + 1] = m[b + 1]
       /\ \A c \in Range(Slots(m, b)) : n[c] = m[c]
       /\ b \in Nat /\ b < o /\ b + AllocationSize(m, b) <= o

(* The heap with a new object at o, the end of the nursery so far.         *)
LEMMA NewObjectIs ==
  ASSUME NEW m, NEW e, NEW s, NEW z, Layout(m, e, s, z),
         NEW o \in Nat, s <= o, NEW t \in AllTypes, o + ObjectSize[t] <= z,
         \A b \in Objs(m, e, s, z) : s <= b => b + AllocationSize(m, b) <= o,
         NEW id \in Nat, NEW value \in WordType, Value(value, Objs(m, e, s, z)),
         t = "tracker" => value.k = "ref",
         NEW n, n = NewHeap(m, o, t, id, value)
  PROVE  NewObject(m, e, s, z, o, t, id, value, n)
<1> DEFINE O == Objs(m, e, s, z)
           k == ObjectSize[t]
<1>1. /\ m \in Memory /\ e \in Nat /\ s \in Nat /\ z \in Nat /\ e <= s /\ s <= z /\ z <= MaxSize /\ MaxSize \in Nat
      /\ k \in {2, 3}
  BY Sizes DEF Layout, ObjectSize, AllTypes
<1>2. o \in Cells /\ \A c \in o .. o + k - 1 : c \in Cells
  BY <1>1 DEF Cells
<1>3. ASSUME NEW b \in O
      PROVE  b \in Nat /\ b < o /\ b + AllocationSize(m, b) <= o /\ AllocationSize(m, b) \in {2, 3}
  <2>1. b \in Nat /\ AllocationSize(m, b) \in {2, 3}
    BY ObjectIs
  <2>2. b < e => b + AllocationSize(m, b) <= e
    BY DEF Layout
  <2>3. b < e \/ s <= b
    BY DEF Objs
  <2>4. s <= b => b + AllocationSize(m, b) <= o
    OBVIOUS
  <2> HIDE DEF O
  <2> QED BY <1>1, <2>1, <2>2, <2>3, <2>4
<1>4. /\ n[o] = Header(t, id)
      /\ \A c \in o + 1 .. o + k - 1 : n[c] = IF t = "tracker" THEN Weak(value.v)
                                              ELSE IF c - o \in Range(RefSlots[t]) THEN value ELSE Plain
      /\ \A c \in Cells : c < o \/ o + k <= c => n[c] = m[c]
      /\ n = [c \in Cells |-> n[c]]
  <2>1. n[o] = Header(t, id)
    BY <1>2 DEF NewHeap
  <2>2. ASSUME NEW c \in o + 1 .. o + k - 1
        PROVE  n[c] = IF t = "tracker" THEN Weak(value.v)
                      ELSE IF c - o \in Range(RefSlots[t]) THEN value ELSE Plain
    <3>1. c \in Cells /\ c # o
      BY <1>1, <1>2
    <3> QED BY <3>1 DEF NewHeap
  <2>3. ASSUME NEW c \in Cells, c < o \/ o + k <= c PROVE n[c] = m[c]
    <3>1. c # o /\ c \notin o + 1 .. o + k - 1
      BY <1>1, <2>3 DEF Cells
    <3> QED BY <3>1 DEF NewHeap
  <2>4. n = [c \in Cells |-> n[c]]
    BY DEF NewHeap
  <2> QED BY <2>1, <2>2, <2>3, <2>4
<1>5. Header(t, id) \in WordType /\ Header(t, id).k = "hdr" /\ Header(t, id).t = t /\ Header(t, id).v = id
  BY DEF Header, WordType
<1>6. t = "tracker" => value.v \in O /\ value.v \in Nat
  BY <1>3 DEF Value
<1>7. ASSUME NEW c \in o + 1 .. o + k - 1 PROVE n[c] \in WordType /\ n[c].k # "hdr"
  <2>1. Plain \in WordType /\ Plain.k # "hdr"
    <3>1. 0 \in Nat
      OBVIOUS
    <3> QED BY <3>1, WordIs, RefIs
  <2>2. t = "tracker" => Weak(value.v) \in WordType /\ Weak(value.v).k # "hdr"
    BY <1>6, WordIs, RefIs
  <2>3. value \in WordType /\ value.k # "hdr"
    BY DEF Value
  <2> QED BY <1>4, <2>1, <2>2, <2>3
<1>8. \A c \in Cells : c = o \/ c \in o + 1 .. o + k - 1 \/ c < o \/ o + k <= c
  BY <1>1 DEF Cells
<1>9. n \in Memory
  <2>1. ASSUME NEW c \in Cells PROVE n[c] \in WordType
    <3>1. m[c] \in WordType
      BY <1>1 DEF Memory
    <3> QED BY <1>4, <1>5, <1>7, <1>8, <3>1
  <2> QED BY <1>4, <2>1 DEF Memory
<1>10. Objs(n, e, s, z) = O \cup {o}
  <2>1. ASSUME NEW c \in Objs(n, e, s, z) PROVE c \in O \cup {o}
    <3>1. c \in Cells /\ n[c].k = "hdr" /\ (c < e \/ (s <= c /\ c < z))
      BY DEF Objs
    <3>2. c = o \/ c < o \/ o + k <= c
      BY <1>7, <1>8, <3>1
    <3>3. c # o => n[c] = m[c]
      BY <1>4, <3>1, <3>2
    <3> QED BY <3>1, <3>3 DEF Objs
  <2>2. o \in Objs(n, e, s, z)
    <3>1. o < z
      BY <1>1
    <3> QED BY <1>2, <1>4, <1>5, <3>1 DEF Objs
  <2>3. ASSUME NEW b \in O PROVE b \in Objs(n, e, s, z)
    <3>1. b \in Cells /\ m[b].k = "hdr" /\ (b < e \/ (s <= b /\ b < z))
      BY DEF Objs
    <3>2. n[b] = m[b]
      BY <1>3, <1>4, <3>1
    <3> QED BY <3>1, <3>2 DEF Objs
  <2> QED BY <2>1, <2>2, <2>3
<1>11. ASSUME NEW b \in O
       PROVE  /\ n[b] = m[b] /\ AllocationSize(n, b) = AllocationSize(m, b) /\ Slots(n, b) = Slots(m, b)
              /\ n[b + 1] = m[b + 1]
              /\ \A c \in Range(Slots(m, b)) : n[c] = m[c]
  <2>1. /\ b \in Cells /\ b + 1 \in Cells
        /\ \A c \in Range(Slots(m, b)) : c \in Cells /\ c < b + AllocationSize(m, b)
    BY ObjectIs
  <2>2. n[b] = m[b]
    BY <1>3, <1>4, <2>1
  <2>3. n[b + 1] = m[b + 1]
    <3>1. b + 1 < o
      BY <1>3
    <3> QED BY <1>4, <2>1, <3>1
  <2>4. ASSUME NEW c \in Range(Slots(m, b)) PROVE n[c] = m[c]
    <3>1. c \in Nat /\ c \in Cells /\ c < b + AllocationSize(m, b)
      BY <2>1 DEF Cells
    <3>2. c < o
      BY <1>3, <3>1
    <3> QED BY <1>4, <3>1, <3>2
  <2> QED BY <2>2, <2>3, <2>4 DEF AllocationSize, Slots
<1>12. AllocationSize(n, o) = k /\ n[o].t = t
  BY <1>4, <1>5 DEF AllocationSize
<1>13. t = "tracker" => n[o + 1] = Weak(value.v)
  <2>1. o + 1 \in o + 1 .. o + k - 1
    BY <1>1
  <2> QED BY <1>4, <2>1
<1>14. ASSUME NEW c \in Range(Slots(n, o)) PROVE n[c] = value
  <2>1. Range(Slots(n, o)) = IF t = "cell" THEN {o + 1} ELSE IF t = "box" THEN {o + 2} ELSE {}
    BY <1>12, SizesAre
  <2>2. CASE t = "cell"
    <3>1. c = o + 1 /\ c \in o + 1 .. o + k - 1 /\ c - o = 1
      BY <1>1, <2>1, <2>2
    <3>2. RefSlots[t] = <<1>>
      BY <2>2 DEF RefSlots, AllTypes
    <3>3. 1 \in Range(<<1>>)
      BY DEF Range
    <3> QED BY <1>4, <2>2, <3>1, <3>2, <3>3
  <2>3. CASE t = "box"
    <3>1. k = 3
      BY <2>3 DEF ObjectSize, AllTypes
    <3>2. c = o + 2 /\ c \in o + 1 .. o + k - 1 /\ c - o = 2
      BY <2>1, <2>3, <3>1
    <3>3. RefSlots[t] = <<2>>
      BY <2>3 DEF RefSlots, AllTypes
    <3>4. 2 \in Range(<<2>>)
      BY DEF Range
    <3> QED BY <1>4, <2>3, <3>2, <3>3, <3>4
  <2> QED BY <2>1, <2>2, <2>3
<1> HIDE DEF k
<1> QED BY <1>1, <1>2, <1>3, <1>4, <1>5, <1>9, <1>10, <1>11, <1>12, <1>13, <1>14 DEF NewObject, k

-----------------------------------------------------------------------------
(* What the program sees of a heap, its layout apart; the stacks with a new *)
(* object.                                                                  *)
NewStacks(st, t, o) == IF t = "stack" THEN <<o>> \o st ELSE st
NewFrame(f, t, id, value) ==
  IF t = "stack" THEN [x \in DOMAIN f \cup {id} |-> IF x = id THEN value ELSE f[x]] ELSE f

ProgramWith(n, e, s, z, v, f, st, tr, B) ==
  /\ Fields(n, e, s, z, Objs(n, e, s, z))
  /\ WordsIn(v, Roots, Objs(n, e, s, z)) /\ v[CurrentStack].k = "ref" /\ n[v[CurrentStack].v].t = "stack"
  /\ WordsIn(f, NamesOf(n, StacksIn(n, e, s, z)), Objs(n, e, s, z))
  /\ Lists(st, StacksIn(n, e, s, z), s)
  /\ Lists(tr, WeakIn(n, e, s, z), s)
  /\ OldTrackers(n, e, s, z)
  /\ BitsIn(B, n, Objs(n, e, s, z))
  /\ Barriers(B, n, e, s, z)

(* It is a heap of the program: the object is in the root it was allocated *)
(* for, a new stack or tracker at the head of its list.                    *)
LEMMA NewObjectKeeps ==
  ASSUME NEW m, NEW e, NEW s, NEW z, NEW v, NEW f, NEW st, NEW tr, NEW B,
         Program1(m, e, s, z, v, f, st, tr, B), Barriers(B, m, e, s, z),
         NEW o \in Nat, s <= o, NEW t \in AllTypes, NEW id \in Nat,
         \A b \in Objs(m, e, s, z) : m[b].v # id,
         NEW value \in WordType, Value(value, Objs(m, e, s, z)),
         t = "tracker" => value.k = "ref",
         NEW n, NewObject(m, e, s, z, o, t, id, value, n),
         NEW r \in Vars, NEW v2, v2 = [v EXCEPT ![r] = Ref(o)],
         NEW f2, f2 = NewFrame(f, t, id, value), NEW st2, st2 = NewStacks(st, t, o),
         NEW tr2, tr2 = IF t = "tracker" THEN <<o>> \o tr ELSE tr
  PROVE  ProgramWith(n, e, s, z, v2, f2, st2, tr2, B)
<1> DEFINE O == Objs(m, e, s, z)
           P == Objs(n, e, s, z)
<1>1. /\ Layout(m, e, s, z) /\ e \in Nat /\ s \in Nat /\ e <= s /\ Fields(m, e, s, z, O)
  BY DEF Program1, Heap1, Layout
<1>2. /\ n \in Memory /\ o \in Cells /\ n[o].k = "hdr" /\ n[o].t = t /\ n[o].v = id
      /\ \A c \in Range(Slots(n, o)) : n[c] = value
      /\ t = "tracker" => n[o + 1] = Weak(value.v)
      /\ P = O \cup {o}
      /\ \A b \in O : /\ n[b] = m[b] /\ Slots(n, b) = Slots(m, b) /\ n[b + 1] = m[b + 1]
                      /\ \A c \in Range(Slots(m, b)) : n[c] = m[c]
                      /\ b \in Nat /\ b < o
  BY DEF NewObject
<1> HIDE DEF P
<1>3. Value(value, P) /\ \A w : Value(w, O) => Value(w, P)
  BY <1>2 DEF Value
<1>4. \A w : WeakValue(w, O) => WeakValue(w, P)
  BY <1>2 DEF WeakValue
<1>5. o \notin O
  BY <1>2
<1>6. t = "tracker" => WeakValue(n[o + 1], P) /\ n[o + 1].k = "weak"
  BY <1>2, <1>3, RefIs DEF WeakValue, Value
<1>7. Fields(n, e, s, z, P)
  <2>1. ASSUME NEW b \in O
        PROVE  /\ \A c \in Range(Slots(n, b)) : Value(n[c], P)
               /\ n[b].t = "tracker" => WeakValue(n[b + 1], P)
    BY <1>1, <1>2, <1>3, <1>4 DEF Fields
  <2>2. /\ \A c \in Range(Slots(n, o)) : Value(n[c], P)
        /\ n[o].t = "tracker" => WeakValue(n[o + 1], P)
    BY <1>2, <1>3, <1>6
  <2> QED BY <1>2, <2>1, <2>2 DEF Fields, P
<1>8. /\ WordsIn(v, Roots, O) /\ v[CurrentStack].k = "ref" /\ m[v[CurrentStack].v].t = "stack"
      /\ WordsIn(f, NamesOf(m, StacksIn(m, e, s, z)), O)
      /\ Lists(st, StacksIn(m, e, s, z), s) /\ Lists(tr, WeakIn(m, e, s, z), s)
      /\ OldTrackers(m, e, s, z) /\ BitsIn(B, m, O)
  BY DEF Program1
<1>9. r \in Roots /\ r # CurrentStack /\ CurrentStack \in Roots
  BY RootsFinite DEF Roots
<1>10. WordsIn(v2, Roots, P) /\ v2[CurrentStack] = v[CurrentStack]
  <2>1. Ref(o) \in WordType /\ Value(Ref(o), P)
    BY <1>2, WordIs, RefIs DEF Value
  <2> QED BY <1>3, <1>8, <1>9, <2>1 DEF WordsIn
<1>11. v2[CurrentStack].k = "ref" /\ n[v2[CurrentStack].v].t = "stack"
  <2>1. v[CurrentStack].v \in O
    BY <1>8, <1>9 DEF WordsIn, Value
  <2> QED BY <1>2, <1>8, <1>10, <2>1
<1>12. StacksIn(n, e, s, z) = StacksIn(m, e, s, z) \cup (IF t = "stack" THEN {o} ELSE {})
  BY <1>2, <1>5 DEF StacksIn, P
<1>13. WeakIn(n, e, s, z) = WeakIn(m, e, s, z) \cup (IF t = "tracker" THEN {o} ELSE {})
  BY <1>2, <1>5, <1>6 DEF WeakIn, P
<1>14. NamesOf(n, StacksIn(n, e, s, z)) = NamesOf(m, StacksIn(m, e, s, z)) \cup (IF t = "stack" THEN {id} ELSE {})
  <2>1. \A b \in StacksIn(m, e, s, z) : n[b].v = m[b].v
    BY <1>2 DEF StacksIn
  <2> QED BY <1>2, <1>12, <2>1 DEF NamesOf
<1>15. WordsIn(NewFrame(f, t, id, value), NamesOf(n, StacksIn(n, e, s, z)), P)
  <2> DEFINE N == NamesOf(m, StacksIn(m, e, s, z))
             g == NewFrame(f, t, id, value)
  <2>1. f = [x \in N |-> f[x]] /\ \A x \in N : f[x] \in WordType /\ Value(f[x], P)
    BY <1>3, <1>8 DEF WordsIn
  <2>2. DOMAIN f = N
    BY <2>1
  <2> HIDE DEF N
  <2>3. CASE t = "stack"
    <3>1. g = [x \in N \cup {id} |-> IF x = id THEN value ELSE f[x]]
      BY <2>2, <2>3 DEF NewFrame
    <3> HIDE DEF g
    <3>2. g = [x \in N \cup {id} |-> g[x]] /\ \A x \in N \cup {id} : g[x] \in WordType /\ Value(g[x], P)
      BY <1>3, <2>1, <3>1
    <3> QED BY <1>14, <2>3, <3>2 DEF WordsIn, N, g
  <2>4. CASE t # "stack"
    BY <1>14, <2>1, <2>4 DEF WordsIn, N, NewFrame
  <2> QED BY <2>3, <2>4
<1>16. Lists(NewStacks(st, t, o), StacksIn(n, e, s, z), s)
  <2>1. CASE t = "stack"
    <3>1. \A b \in StacksIn(m, e, s, z) : b < o
      BY <1>2 DEF StacksIn
    <3>2. Lists(<<o>> \o st, StacksIn(m, e, s, z) \cup {o}, s)
      BY <1>1, <1>2, <1>8, <3>1, ListHeaded
    <3> QED BY <1>12, <2>1, <3>2 DEF NewStacks
  <2>2. CASE t # "stack"
    BY <1>8, <1>12, <2>2 DEF NewStacks
  <2> QED BY <2>1, <2>2
<1>17. Lists(IF t = "tracker" THEN <<o>> \o tr ELSE tr, WeakIn(n, e, s, z), s)
  <2>1. CASE t = "tracker"
    <3>1. \A b \in WeakIn(m, e, s, z) : b < o
      BY <1>2 DEF WeakIn
    <3>2. Lists(<<o>> \o tr, WeakIn(m, e, s, z) \cup {o}, s)
      BY <1>1, <1>2, <1>8, <3>1, ListHeaded
    <3> QED BY <1>13, <2>1, <3>2
  <2>2. CASE t # "tracker"
    BY <1>8, <1>13, <2>2
  <2> QED BY <2>1, <2>2
<1>18. ~(o < e)
  BY <1>1
<1>19. OldTrackers(n, e, s, z)
  <2> SUFFICES ASSUME NEW b \in WeakIn(n, e, s, z), b < e PROVE n[b + 1].v < e
    BY DEF OldTrackers
  <2>1. b \in WeakIn(m, e, s, z) /\ b \in O
    BY <1>13, <1>18 DEF WeakIn
  <2> QED BY <1>2, <1>8, <2>1 DEF OldTrackers
<1>20. BitsIn(B, n, P)
  BY <1>2, <1>8 DEF BitsIn
<1>21. Barriers(B, n, e, s, z)
  <2> SUFFICES ASSUME NEW b \in P, b < e, NEW c \in Range(Slots(n, b)), n[c].k = "ref", e <= n[c].v PROVE c \in B
    BY DEF Barriers, P
  <2>1. b \in O
    BY <1>2, <1>18
  <2> QED BY <1>2, <2>1 DEF Barriers
<1> QED BY <1>7, <1>10, <1>11, <1>15, <1>16, <1>17, <1>19, <1>20, <1>21 DEF P, ProgramWith

(* An allocation.                                                           *)
LEMMA AllocateKeeps ==
  ASSUME Inv, NEW v \in Vars, NEW t \in Types, NEW w \in Vars, Allocate(v, t, var[w])
  PROVE  Inv'
<1> DEFINE m == mem
           e == oldEnd
           s == Start1
           z == limit
           O == Objs(m, e, s, z)
           o == top
           id == allocated + 1
           value == var[w]
           n == mem'
<1>1. Running /\ phase = "run" /\ w \in Roots /\ t \in AllTypes
  BY Sizes DEF Allocate, Running, Roots
<1>2. /\ Program1(m, e, s, z, var, frame, stacks, trackers, bits)
      /\ Layout(m, e, s, z) /\ Fields(m, e, s, z, O) /\ Barriers(bits, m, e, s, z)
      /\ \A b \in O : s <= b => b + AllocationSize(m, b) <= top
      /\ value \in WordType /\ Value(value, O)
      /\ allocated \in 1 .. MaxObjects /\ MaxObjects \in Nat /\ top \in Nat /\ top <= limit /\ limit \in Nat
      /\ Start1 \in Nat /\ oldEnd \in Nat /\ oldEnd <= Start1 /\ Start1 <= top
  BY <1>1, RunIs
<1>3. /\ allocated < MaxObjects /\ top + ObjectSize[t] <= limit
      /\ t = "tracker" => value.k = "ref"
      /\ n = NewHeap(m, o, t, id, value)
      /\ var' = [var EXCEPT ![v] = Ref(o)]
      /\ frame' = NewFrame(frame, t, id, value)
      /\ stacks' = NewStacks(stacks, t, o)
      /\ trackers' = IF t = "tracker" THEN <<o>> \o trackers ELSE trackers
      /\ allocated' = id /\ top' = top + ObjectSize[t] /\ bits' = bits
  BY DEF Allocate, IsA, NewHeap, NewFrame, NewStacks, AddToList
<1>4. id \in Nat /\ id \in 1 .. MaxObjects /\ allocated < id
  BY <1>2, <1>3
<1>5. limit' = limit /\ oldEnd' = oldEnd /\ phase' = phase /\ Start1' = s
  BY <1>1 DEF Running, heapVars, Start1
<1> HIDE DEF m, e, s, z, o, id, value, n
<1>6. o \in Nat /\ s <= o /\ o + ObjectSize[t] <= z /\ \A b \in O : s <= b => b + AllocationSize(m, b) <= o
  BY <1>2, <1>3 DEF o, s, z
<1>7. NewObject(m, e, s, z, o, t, id, value, n)
  BY <1>1, <1>2, <1>3, <1>4, <1>6, NewObjectIs
<1>8. /\ n \in Memory /\ ObjectSize[t] \in {2, 3} /\ n[o].t = t /\ n[o].v = id /\ AllocationSize(n, o) = ObjectSize[t]
      /\ Objs(n, e, s, z) = O \cup {o}
      /\ \A b \in O : n[b] = m[b] /\ AllocationSize(n, b) = AllocationSize(m, b) 
      /\ \A b \in O : b \in Nat /\ b < o /\ b + AllocationSize(m, b) <= o
  BY <1>7 DEF NewObject
<1>9. mem' = n /\ oldEnd' = e /\ limit' = z /\ Start1' = s
  BY <1>5 DEF n, e, z
<1>10. /\ e \in Nat /\ s \in Nat /\ z \in Nat /\ e <= s /\ z <= MaxSize /\ s <= z
       /\ \A a \in O :
            /\ m[a].t \in AllTypes /\ m[a].v \in 1 .. allocated
            /\ a < e => a + AllocationSize(m, a) <= e
            /\ s <= a => a + AllocationSize(m, a) <= z
       /\ \A a, b \in O : a < b => a + AllocationSize(m, a) <= b
       /\ \A a, b \in O : m[a].v = m[b].v => a = b
  BY <1>2 DEF Layout
<1>11. \A a \in O : m[a].v \in 1 .. id /\ m[a].v # id
  BY <1>2, <1>4, <1>10
<1>12. Layout(mem, oldEnd, Start1, limit)'
  <2> DEFINE P == Objs(n, e, s, z)
  <2>1. ASSUME NEW a \in P
        PROVE  /\ n[a].t \in AllTypes /\ n[a].v \in 1 .. id
               /\ a < e => a + AllocationSize(n, a) <= e
               /\ s <= a => a + AllocationSize(n, a) <= z
    <3>1. CASE a \in O
      BY <1>8, <1>10, <1>11, <3>1
    <3>2. CASE a = o
      <4>1. id \in 1 .. id
        BY <1>4
      <4>2. ~(o < e)
        BY <1>6, <1>10
      <4> QED BY <1>1, <1>6, <1>8, <3>2, <4>1, <4>2
    <3> QED BY <1>8, <3>1, <3>2
  <2>2. ASSUME NEW a \in P, NEW b \in P, a < b PROVE a + AllocationSize(n, a) <= b
    <3>1. CASE a \in O /\ b \in O
      BY <1>8, <1>10, <2>2, <3>1
    <3>2. CASE a \in O /\ b = o
      BY <1>8, <3>2
    <3>3. CASE a = o
      BY <1>6, <1>8, <2>2, <3>3
    <3> QED BY <1>8, <3>1, <3>2, <3>3
  <2>3. ASSUME NEW a \in P, NEW b \in P, n[a].v = n[b].v PROVE a = b
    BY <1>8, <1>10, <1>11, <2>3
  <2> HIDE DEF O
  <2>4. allocated' = id
    BY <1>3
  <2> QED BY <1>8, <1>9, <1>10, <2>1, <2>2, <2>3, <2>4 DEF Layout
<1>13. \A b \in O : m[b].v # id
  BY <1>11
<1>14. ProgramWith(n, e, s, z, var', frame', stacks', trackers', bits)
  <2>1. /\ Program1(m, e, s, z, var, frame, stacks, trackers, bits) /\ Barriers(bits, m, e, s, z)
        /\ \A b \in Objs(m, e, s, z) : m[b].v # id
        /\ Value(value, Objs(m, e, s, z)) /\ value \in WordType /\ (t = "tracker" => value.k = "ref")
    BY <1>2, <1>3, <1>13
  <2>2. /\ var' = [var EXCEPT ![v] = Ref(o)] /\ frame' = NewFrame(frame, t, id, value)
        /\ stacks' = NewStacks(stacks, t, o)
        /\ trackers' = IF t = "tracker" THEN <<o>> \o trackers ELSE trackers
    BY <1>3
  <2> HIDE DEF O
  <2> QED BY <1>1, <1>4, <1>6, <1>7, <2>1, <2>2, NewObjectKeeps
<1>15. Program1(mem, oldEnd, Start1, limit, var, frame, stacks, trackers, bits)'
  <2> HIDE DEF O
  <2> QED BY <1>3, <1>9, <1>12, <1>14 DEF Program1, Heap1, ProgramWith
<1>16. Barriers(bits', mem', oldEnd, Start1, limit)
  BY <1>3, <1>14 DEF n, e, s, z, ProgramWith
<1>17. top' \in Nat /\ top <= top' /\ top' <= limit
  BY <1>2, <1>3, <1>8
<1>18. \A b \in Objs(mem', oldEnd, Start1, limit) : Start1 <= b => b + AllocationSize(mem', b) <= top'
  <2>1. ASSUME NEW b \in Objs(n, e, s, z), s <= b PROVE b + AllocationSize(n, b) <= top'
    <3>1. CASE b \in O
      <4>1. b + AllocationSize(m, b) <= o /\ AllocationSize(n, b) = AllocationSize(m, b) /\ b \in Nat
        BY <1>8, <3>1
      <4>2. AllocationSize(m, b) \in {2, 3}
        BY <1>2, <3>1, ObjectIs
      <4> QED BY <1>2, <1>17, <4>1, <4>2 DEF o
    <3>2. CASE b = o
      BY <1>3, <1>8, <3>2 DEF o
    <3> QED BY <1>8, <3>1, <3>2
  <2> QED BY <2>1 DEF n, e, s, z
<1>19. allocated' \in 1 .. MaxObjects
  BY <1>3, <1>4
<1> QED BY <1>1, <1>15, <1>16, <1>17, <1>18, <1>19, RunOn

-----------------------------------------------------------------------------
(* The steps of the program.                                                *)
LEMMA ProgramKeeps ==
  ASSUME Inv, Program
  PROVE  Inv'
<1>1. CASE \E v \in Vars, t \in Types, w \in Vars : Allocate(v, t, var[w])
  BY <1>1, AllocateKeeps
<1>2. CASE \E v, w \in Vars, i \in {1} : Store(v, i, w) \/ Load(v, w, i)
  BY <1>2, StoreKeeps, LoadKeeps
<1>3. CASE \E v \in Roots, w \in Vars : StoreFrame(v, w)
  BY <1>3, StoreFrameKeeps
<1>4. CASE \E v \in Vars, w \in Roots : LoadFrame(v, w) \/ TrackerValue(v, w)
  BY <1>4, LoadFrameKeeps, TrackerValueKeeps
<1>5. CASE \E v \in Vars : Forget(v)
  BY <1>5, ForgetKeeps
<1> QED BY <1>1, <1>2, <1>3, <1>4, <1>5 DEF Program

(* A step that leaves the heap as it is, between two phases without copying.*)
LEMMA SameHeapKeeps ==
  ASSUME Inv, phase \notin Copying, phase # "evacuated", phase' \in {"run", "full", "collected", "fatal"},
         UNCHANGED <<mem, bits, size, limit, top, oldEnd, var, frame, lists, allocated>>,
         sizeLimit' \in 0 .. MaxSize, p' \in 0 .. MaxSize, from' \in 0 .. MaxSize, request'.size \in Nat,
         phase' \in {"run", "collected"} => phase \in {"run", "collected"},
         phase' = "collected" => Served' \/ Beyond',
         phase' = "fatal" => Beyond'
  PROVE  Inv'
<1>1. Numbers /\ RunInv
  BY DEF Inv
<1>2. Start1' = Start1
  BY DEF Start1
<1>3. Program1(mem, oldEnd, Start1, limit, var, frame, stacks, trackers, bits)
  BY <1>1 DEF RunInv
<1>4. /\ mem' = mem /\ bits' = bits /\ size' = size /\ limit' = limit /\ top' = top /\ oldEnd' = oldEnd
      /\ var' = var /\ frame' = frame /\ stacks' = stacks /\ trackers' = trackers /\ liveStacks' = liveStacks
      /\ allocated' = allocated
  BY DEF lists
<1>5. Program1(mem, oldEnd, Start1, limit, var, frame, stacks, trackers, bits)'
  BY <1>2, <1>3, <1>4 DEF Program1, Heap1, Layout
<1>6. RunInv'
  BY <1>1, <1>2, <1>4, <1>5 DEF RunInv
<1>7. Numbers'
  BY <1>1, <1>4 DEF Numbers
<1> QED BY <1>6, <1>7 DEF Inv, Copying

(* extend-heap's steps around a collection.                                 *)
LEMMA ExtendHeapKeeps ==
  ASSUME Inv, NEW n \in Requests, ExtendHeap(n)
  PROVE  Inv'
<1>1. n \in Nat
  BY Sizes
<1> DEFINE req == [size |-> n, again |-> FALSE]
<1>2. phase = "run" /\ BeginCollection(req) /\ req.size \in Nat
  BY <1>1 DEF ExtendHeap
<1> HIDE DEF req
<1> QED BY <1>2, BeginCollectionKeeps

(* After the first collection notifiers run, ...                            *)
LEMMA NotifyKeeps ==
  ASSUME Inv, Notify
  PROVE  Inv'
<1>1. /\ phase = "collected" /\ phase' = "run" /\ request' = [size |-> 0, again |-> FALSE] /\ p' = 0 /\ from' = 0
      /\ UNCHANGED <<mem, bits, size, limit, top, oldEnd, var, frame, lists, allocated>> /\ sizeLimit' = sizeLimit
  BY DEF Notify, heapVars
<1>2. sizeLimit \in 0 .. MaxSize /\ 0 \in 0 .. MaxSize
  BY Sizes DEF Inv, Numbers
<1>3. request'.size \in Nat
  BY <1>1
<1>4. phase \notin Copying
  BY <1>1 DEF Copying
<1> QED BY <1>1, <1>2, <1>3, <1>4, SameHeapKeeps

(* ... and when they return extend-heap may try again, ...                  *)
LEMMA NotifiersReturnKeeps ==
  ASSUME Inv, PendingOK, NotifiersReturn
  PROVE  Inv'
<1>1. phase = "run" /\ pending # << >>
  BY DEF NotifiersReturn
<1>2. CASE UNCHANGED <<mem, bits, heapVars, top, oldEnd, var, frame, lists, phase, request, p, allocated, from>>
  <2>1. UNCHANGED <<mem, bits, size, limit, top, oldEnd, var, frame, lists, allocated, sizeLimit, phase, request, p, from>>
    BY <1>2 DEF heapVars
  <2>2. sizeLimit \in 0 .. MaxSize /\ p \in 0 .. MaxSize /\ from \in 0 .. MaxSize /\ request.size \in Nat
    BY DEF Inv, Numbers
  <2>3. phase \notin Copying
    BY <1>1 DEF Copying
  <2> QED BY <1>1, <2>1, <2>2, <2>3, SameHeapKeeps
<1>3. CASE BeginCollection(SecondTime(Head(pending)))
  <2>1. Head(pending) \in Nat
    BY <1>1 DEF PendingOK
  <2> DEFINE req == SecondTime(Head(pending))
  <2>2. req.size \in Nat
    BY <2>1 DEF SecondTime
  <2>3. BeginCollection(req)
    BY <1>3
  <2> HIDE DEF req
  <2> QED BY <1>1, <2>2, <2>3, BeginCollectionKeeps
<1> QED BY <1>2, <1>3 DEF NotifiersReturn

(* ... and the program goes on when there is room, ...                     *)
LEMMA ResumeKeeps ==
  ASSUME Inv, Resume
  PROVE  Inv'
<1>1. /\ phase = "collected" /\ phase' = "run" /\ request' = [size |-> 0, again |-> FALSE] /\ p' = 0 /\ from' = 0
      /\ UNCHANGED <<mem, bits, size, limit, top, oldEnd, var, frame, lists, allocated>> /\ sizeLimit' = sizeLimit
  BY DEF Resume, heapVars
<1>2. sizeLimit \in 0 .. MaxSize /\ 0 \in 0 .. MaxSize
  BY Sizes DEF Inv, Numbers
<1>3. request'.size \in Nat
  BY <1>1
<1>4. phase \notin Copying
  BY <1>1 DEF Copying
<1> QED BY <1>1, <1>2, <1>3, <1>4, SameHeapKeeps

(* ... or ends when there is none.                                         *)
LEMMA OutOfMemoryKeeps ==
  ASSUME Inv, OutOfMemory
  PROVE  Inv'
<1>1. /\ phase = "collected" /\ phase' = "fatal" /\ request' = request /\ p' = p /\ from' = from /\ ~Served
      /\ UNCHANGED <<mem, bits, size, limit, top, oldEnd, var, frame, lists, allocated>> /\ sizeLimit' = sizeLimit
  BY DEF OutOfMemory, heapVars, Served
<1>2. sizeLimit \in 0 .. MaxSize /\ p \in 0 .. MaxSize /\ from \in 0 .. MaxSize /\ request.size \in Nat
  BY DEF Inv, Numbers
<1>3. Beyond'
  BY <1>1 DEF Inv, RunInv, Copying, Beyond
<1>4. phase \notin Copying
  BY <1>1 DEF Copying
<1> QED BY <1>1, <1>2, <1>3, <1>4, SameHeapKeeps

(* Stuttering.                                                              *)
LEMMA StutterKeeps ==
  ASSUME Inv, UNCHANGED vars
  PROVE  Inv'
<1>1. /\ mem' = mem /\ bits' = bits /\ size' = size /\ limit' = limit /\ top' = top /\ oldEnd' = oldEnd
      /\ var' = var /\ frame' = frame /\ stacks' = stacks /\ trackers' = trackers /\ liveStacks' = liveStacks
      /\ allocated' = allocated /\ sizeLimit' = sizeLimit /\ phase' = phase /\ request' = request /\ p' = p
      /\ from' = from
  BY DEF vars, heapVars, lists
<1>2. Numbers'
  BY <1>1 DEF Inv, Numbers
<1>3. CASE phase \in Copying
  <2>1. CopyInv
    BY <1>3 DEF Inv
  <2>2. CopyState(mem, top, from, limit, oldEnd)'
    BY <1>1, <2>1 DEF CopyInv, CopyState, Layout
  <2>3. CopyInv'
    BY <1>1, <2>1, <2>2 DEF CopyInv
  <2> QED BY <1>1, <1>2, <1>3, <2>3 DEF Inv, Copying
<1>4. CASE phase \notin Copying
  <2>1. RunInv
    BY <1>4 DEF Inv
  <2>2. Start1' = Start1 /\ (Served' <=> Served) /\ (Beyond' <=> Beyond)
    BY <1>1 DEF Start1, Served, Enough, Beyond
  <2>3. Program1(mem, oldEnd, Start1, limit, var, frame, stacks, trackers, bits)'
    BY <1>1, <2>1, <2>2 DEF RunInv, Program1, Heap1, Layout
  <2>4. RunInv'
    BY <1>1, <2>1, <2>2, <2>3 DEF RunInv
  <2> QED BY <1>1, <1>2, <1>4, <2>4 DEF Inv
<1> QED BY <1>3, <1>4

-----------------------------------------------------------------------------
(* The multiple of n that x is rounded up to.                               *)
LEMMA RoundUpIs ==
  ASSUME NEW n \in Nat, n > 0, NEW x \in Nat
  PROVE  /\ RoundUp(x, n) \in Nat /\ x <= RoundUp(x, n)
         /\ \A y \in Nat : y % n = 0 /\ x <= y => RoundUp(x, n) <= y
<1> DEFINE q == (x + n - 1) \div n
<1>1. x + n - 1 \in Nat
  OBVIOUS
<1>2. q \in Nat /\ q * n <= x + n - 1 /\ x + n - 1 < q * n + n
  BY <1>1
<1> HIDE DEF q
<1>3. q * n \in Nat /\ x <= q * n
  BY <1>2
<1>4. ASSUME NEW y \in Nat, y % n = 0, x <= y PROVE q * n <= y
  <2> DEFINE k == y \div n
  <2>1. k \in Nat /\ y = k * n
    BY <1>4
  <2> HIDE DEF k
  <2>2. q * n <= k * n + n - 1
    BY <1>2, <1>3, <1>4, <2>1
  <2>3. q <= k
    <3> SUFFICES ASSUME k + 1 <= q PROVE FALSE
      BY <1>2, <2>1
    <3>1. PICK d \in Nat : q = k + 1 + d
      <4>1. q - (k + 1) \in Nat /\ q = k + 1 + (q - (k + 1))
        BY <1>2, <2>1
      <4> QED BY <4>1
    <3>2. (k + 1 + d) * n = k * n + n + d * n
      BY <2>1
    <3>3. d * n \in Nat /\ k * n \in Nat
      BY <2>1
    <3> QED BY <2>2, <3>1, <3>2, <3>3
  <2>4. q * n <= k * n
    BY <1>2, <2>1, <2>3
  <2> QED BY <2>1, <2>4
<1>5. RoundUp(x, n) = q * n
  BY DEF RoundUp, q
<1> QED BY <1>3, <1>4, <1>5

(* What doubling x until it is n leads to.                                  *)
Doubles(f, n) == f = [s \in 0 .. 2 * MaxSize |-> IF s >= n THEN s ELSE f[2 * s]]
Doubled(n) == CHOOSE f : Doubles(f, n)

(* The doubling that expand-heap does ends.                                *)
LEMMA DoublesExist ==
  ASSUME NEW n \in 0 .. MaxSize
  PROVE  Doubles(Doubled(n), n)
<1> DEFINE D == 0 .. 2 * MaxSize
           On(T) == \A x \in T : x < n => 2 * x \in T
           Orbit(s) == {y \in D : \A T \in SUBSET D : s \in T /\ On(T) => y \in T}
           At(s) == CHOOSE y : y \in Orbit(s) /\ y >= n
           f == [s \in D |-> At(s)]
<1>0. MaxSize \in Nat /\ n \in Nat /\ n <= MaxSize
  BY Sizes
<1>1. \A x \in D : x < n => 2 * x \in D
  BY <1>0
<1>2. ASSUME NEW s \in D, s >= n PROVE At(s) = s
  <2>1. {s} \in SUBSET D /\ On({s})
    BY <1>0, <1>2
  <2>2. \A y \in Orbit(s) : y = s
    BY <2>1
  <2>3. s \in Orbit(s)
    OBVIOUS
  <2> HIDE DEF Orbit
  <2> QED BY <1>2, <2>2, <2>3
<1>3. ASSUME NEW s \in D, s < n PROVE 2 * s \in D /\ At(s) = At(2 * s)
  <2>1. 2 * s \in D
    BY <1>1, <1>3
  <2>2. ASSUME NEW y \in Orbit(s), y >= n PROVE y \in Orbit(2 * s)
    <3> SUFFICES ASSUME NEW T \in SUBSET D, 2 * s \in T, On(T) PROVE y \in T
      OBVIOUS
    <3>1. T \cup {s} \in SUBSET D /\ s \in T \cup {s} /\ On(T \cup {s})
      OBVIOUS
    <3>2. y \in T \cup {s}
      BY <3>1
    <3>3. y # s
      BY <1>0, <1>3, <2>2
    <3> QED BY <3>2, <3>3
  <2>3. ASSUME NEW y \in Orbit(2 * s) PROVE y \in Orbit(s)
    BY <1>3
  <2> HIDE DEF Orbit
  <2>4. \A y : (y \in Orbit(s) /\ y >= n) <=> (y \in Orbit(2 * s) /\ y >= n)
    BY <2>2, <2>3
  <2> QED BY <2>1, <2>4
<1> HIDE DEF At
<1>4. f = [s \in D |-> IF s >= n THEN s ELSE f[2 * s]]
  <2>1. ASSUME NEW s \in D PROVE f[s] = IF s >= n THEN s ELSE f[2 * s]
    <3>1. CASE s >= n
      BY <1>2, <3>1
    <3>2. CASE ~(s >= n)
      <4>1. s < n
        BY <1>0, <3>2
      <4> QED BY <1>3, <3>2, <4>1
    <3> QED BY <3>1, <3>2
  <2>2. f = [s \in D |-> f[s]]
    OBVIOUS
  <2> HIDE DEF f, D
  <2> QED BY <2>1, <2>2
<1>5. Doubles(f, n)
  BY <1>4 DEF Doubles
<1> HIDE DEF f
<1>6. \E g : Doubles(g, n)
  BY <1>5
<1> QED BY <1>6, Zenon DEF Doubled

(* expand-heap arrives at a size that holds n words.                        *)
LEMMA ExpandedSizeIs ==
  ASSUME NEW n \in 0 .. MaxSize, size \in 1 .. MaxSize
  PROVE  ExpandedSize(n) \in 0 .. MaxSize /\ n <= ExpandedSize(n)
<1> DEFINE f == Doubled(n)
<1>0. MaxSize \in Nat /\ n \in Nat /\ n <= MaxSize /\ PageSize \in Nat /\ PageSize > 0 /\ MaxSize % PageSize = 0
  BY Sizes
<1>1. ExpandedSize(n) = RoundUp(Smaller(f[size], MaxSize), PageSize)
  BY Zenon DEF ExpandedSize, Doubled, Doubles
<1>2. f = [s \in 0 .. 2 * MaxSize |-> IF s >= n THEN s ELSE f[2 * s]]
  BY DoublesExist DEF Doubles
<1> HIDE DEF f
<1>3. \A s \in 1 .. 2 * MaxSize : f[s] \in Nat /\ f[s] >= n
  <2> DEFINE Left == {x \in Nat : x < 2 * MaxSize /\ ~(f[2 * MaxSize - x] \in Nat /\ f[2 * MaxSize - x] >= n)}
  <2>1. Left = {}
    <3> SUFFICES ASSUME Left # {} PROVE FALSE
      OBVIOUS
    <3>1. PICK x \in Left : \A y \in Left : x <= y
      <4>1. Left \subseteq Nat
        OBVIOUS
      <4> HIDE DEF Left
      <4> QED BY <4>1, LeastOf
    <3> DEFINE s == 2 * MaxSize - x
    <3>2. s \in 1 .. 2 * MaxSize /\ s \in 0 .. 2 * MaxSize /\ x \in Nat /\ x = 2 * MaxSize - s
      BY <1>0
    <3>3. ~(f[s] \in Nat /\ f[s] >= n)
      OBVIOUS
    <3> HIDE DEF s
    <3>4. f[s] = IF s >= n THEN s ELSE f[2 * s]
      BY <1>2, <3>2
    <3>5. s < n /\ f[s] = f[2 * s]
      BY <1>0, <3>2, <3>3, <3>4
    <3> DEFINE y == 2 * MaxSize - 2 * s
    <3>6. y \in Nat /\ y < x /\ 2 * MaxSize - y = 2 * s /\ y < 2 * MaxSize
      BY <1>0, <3>2, <3>5
    <3> HIDE DEF y
    <3>7. y \notin Left
      BY <3>1, <3>2, <3>6
    <3>8. f[2 * s] \in Nat /\ f[2 * s] >= n
      BY <3>6, <3>7
    <3> QED BY <3>3, <3>5, <3>8
  <2>2. ASSUME NEW s \in 1 .. 2 * MaxSize PROVE f[s] \in Nat /\ f[s] >= n
    <3> DEFINE x == 2 * MaxSize - s
    <3>1. x \in Nat /\ x < 2 * MaxSize /\ 2 * MaxSize - x = s
      BY <1>0
    <3> HIDE DEF x
    <3> QED BY <2>1, <3>1
  <2> QED BY <2>2
<1>4. f[size] \in Nat /\ f[size] >= n
  <2>1. size \in 1 .. 2 * MaxSize
    BY <1>0
  <2> QED BY <1>3, <2>1
<1> DEFINE x == Smaller(f[size], MaxSize)
<1>5. x \in Nat /\ x <= MaxSize /\ n <= x
  BY <1>0, <1>4 DEF Smaller
<1> HIDE DEF x
<1>6. RoundUp(x, PageSize) \in Nat /\ x <= RoundUp(x, PageSize) /\ RoundUp(x, PageSize) <= MaxSize
  BY <1>0, <1>5, RoundUpIs
<1>7. ExpandedSize(n) = RoundUp(x, PageSize)
  BY <1>1 DEF x
<1> QED BY <1>0, <1>5, <1>6, <1>7

-----------------------------------------------------------------------------
(* The words of some of the objects, and how many they are.                 *)
Below(S, a) == {b \in S : b < a}
Size(m, S) == Cardinality(Cover(m, S))

(* The words of objects are finitely many and lie below the end of the     *)
(* heap.                                                                   *)
LEMMA CoverIs ==
  ASSUME NEW m, NEW e, NEW s, NEW z, Layout(m, e, s, z), NEW S, S \subseteq Objs(m, e, s, z)
  PROVE  IsFiniteSet(Cover(m, S)) /\ Size(m, S) \in Nat /\ Size(m, S) <= z
<1>1. Cover(m, S) \subseteq 0 .. z - 1 /\ z \in Nat
  <2>1. ASSUME NEW a \in S PROVE a .. a + AllocationSize(m, a) - 1 \subseteq 0 .. z - 1
    <3>1. a \in Objs(m, e, s, z)
      OBVIOUS
    <3>2. a \in Nat /\ AllocationSize(m, a) \in {2, 3} /\ a + AllocationSize(m, a) <= z /\ z \in Nat
      BY <3>1, ObjectIs DEF Layout
    <3> QED BY <3>2
  <2> QED BY <2>1 DEF Cover, Layout
<1>2. 0 \in Int /\ z - 1 \in Int
  BY <1>1
<1>3. IsFiniteSet(0 .. z - 1) /\ Cardinality(0 .. z - 1) = IF 0 > z - 1 THEN 0 ELSE (z - 1) - 0 + 1
  BY <1>2, FS_Interval
<1>4. IsFiniteSet(Cover(m, S)) /\ Cardinality(Cover(m, S)) <= Cardinality(0 .. z - 1)
  BY <1>1, <1>3, FS_Subset
<1>5. Cardinality(Cover(m, S)) \in Nat
  BY <1>4, FS_CardinalityType
<1> QED BY <1>1, <1>3, <1>4, <1>5 DEF Size

(* One object more.                                                         *)
LEMMA SizeMore ==
  ASSUME NEW m, NEW e, NEW s, NEW z, Layout(m, e, s, z), NEW S, S \subseteq Objs(m, e, s, z),
         NEW a \in Objs(m, e, s, z), \A b \in S : b < a
  PROVE  Size(m, S \cup {a}) = Size(m, S) + AllocationSize(m, a)
<1> DEFINE k == AllocationSize(m, a)
           X == a .. a + k - 1
           C == Cover(m, S)
<1>1. a \in Nat /\ k \in {2, 3}
  BY ObjectIs
<1>2. a \in Int /\ a + k - 1 \in Int
  BY <1>1
<1>3. IsFiniteSet(X) /\ Cardinality(X) = k
  BY <1>1, <1>2, FS_Interval
<1>4. IsFiniteSet(C) /\ Cardinality(C) \in Nat
  BY CoverIs DEF Size
<1>5. Cover(m, S \cup {a}) = C \cup X
  BY DEF Cover
<1>6. C \cap X = {}
  <2>1. ASSUME NEW b \in S PROVE (b .. b + AllocationSize(m, b) - 1) \cap X = {}
    <3>1. b \in Objs(m, e, s, z) /\ b < a
      OBVIOUS
    <3>2. b \in Nat /\ AllocationSize(m, b) \in {2, 3} /\ b + AllocationSize(m, b) <= a
      BY <3>1, ObjectIs DEF Layout
    <3> HIDE DEF k
    <3> QED BY <1>1, <3>2
  <2> HIDE DEF X
  <2> QED BY <2>1 DEF Cover
<1> HIDE DEF X, C
<1>7. Cardinality(C \cup X) = Cardinality(C) + Cardinality(X) - Cardinality(C \cap X)
  BY <1>3, <1>4, FS_Union
<1>8. Cardinality({}) = 0
  BY FS_EmptySet
<1>9. Cardinality(C \cup X) = Cardinality(C) + k
  <2> HIDE DEF k
  <2>1. k \in Nat
    BY <1>1
  <2>2. Cardinality(C \cap X) = 0
    BY <1>6, <1>8
  <2> QED BY <1>3, <1>4, <1>7, <2>1, <2>2
<1> QED BY <1>5, <1>9 DEF Size, C

(* The new places of the objects in L follow on each other: each begins     *)
(* where the one before it ends.                                            *)
Places(m, L, to, end) ==
  /\ \A a \in L : to[a] \in Nat /\ to[a] + AllocationSize(m, a) <= end
  /\ \A a, b \in L : a < b => to[a] + AllocationSize(m, a) <= to[b]
  /\ \A c \in Nat : c < end => \E a \in L : to[a] <= c /\ c < to[a] + AllocationSize(m, a)

(* The places that objects get one behind the other: no object moves up,   *)
(* and none overlaps another.                                              *)
LEMMA PlacesAre ==
  ASSUME NEW m, NEW e, NEW s, NEW z, Layout(m, e, s, z), NEW L, L \subseteq Objs(m, e, s, z),
         NEW to, to = [a \in L |-> Size(m, Below(L, a))], NEW end, end = Size(m, L)
  PROVE  Places(m, L, to, end) /\ end \in Nat /\ end <= z
<1> DEFINE Upto(a) == Below(L, a) \cup {a}
<1>0. \A a \in L : a \in Objs(m, e, s, z) /\ a \in Nat /\ AllocationSize(m, a) \in {2, 3} /\ a <= MaxSize
  <2> SUFFICES ASSUME NEW a \in L
               PROVE  a \in Objs(m, e, s, z) /\ a \in Nat /\ AllocationSize(m, a) \in {2, 3} /\ a <= MaxSize
    OBVIOUS
  <2>1. a \in Objs(m, e, s, z)
    OBVIOUS
  <2>2. a \in Nat /\ AllocationSize(m, a) \in {2, 3} /\ a + AllocationSize(m, a) <= MaxSize /\ MaxSize \in Nat
    BY <2>1, ObjectIs, Sizes
  <2> QED BY <2>1, <2>2
<1>1. ASSUME NEW a \in L
      PROVE  /\ to[a] \in Nat
             /\ Size(m, Upto(a)) = to[a] + AllocationSize(m, a)
  <2>1. Below(L, a) \subseteq Objs(m, e, s, z) /\ \A b \in Below(L, a) : b < a
    BY DEF Below
  <2>2. Size(m, Below(L, a)) \in Nat
    BY <2>1, CoverIs
  <2>3. Size(m, Upto(a)) = Size(m, Below(L, a)) + AllocationSize(m, a)
    BY <1>0, <2>1, SizeMore
  <2> QED BY <2>2, <2>3
<1>2. ASSUME NEW S, S \subseteq L, NEW R, R \subseteq S
      PROVE  Size(m, R) <= Size(m, S) /\ Size(m, R) \in Nat /\ Size(m, S) \in Nat
  <2>1. S \subseteq Objs(m, e, s, z) /\ R \subseteq Objs(m, e, s, z)
    BY <1>2
  <2>2. IsFiniteSet(Cover(m, S)) /\ Size(m, S) \in Nat
    BY <2>1, CoverIs
  <2>3. Cover(m, R) \subseteq Cover(m, S)
    BY <1>2 DEF Cover
  <2>4. Cardinality(Cover(m, R)) <= Cardinality(Cover(m, S))
    BY <2>2, <2>3, FS_Subset
  <2>5. Size(m, R) \in Nat
    BY <2>1, CoverIs
  <2> QED BY <2>2, <2>4, <2>5 DEF Size
<1>3. end \in Nat /\ end <= z
  BY CoverIs
<1>4. ASSUME NEW a \in L PROVE to[a] + AllocationSize(m, a) <= end
  <2>1. Upto(a) \subseteq L /\ L \subseteq L
    BY DEF Below
  <2>2. Size(m, Upto(a)) <= Size(m, L)
    BY <1>2, <2>1
  <2> QED BY <1>1, <2>2
<1>5. ASSUME NEW a \in L, NEW b \in L, a < b PROVE to[a] + AllocationSize(m, a) <= to[b]
  <2>1. Upto(a) \subseteq Below(L, b) /\ Below(L, b) \subseteq L
    BY <1>0, <1>5 DEF Below
  <2>2. Size(m, Upto(a)) <= Size(m, Below(L, b))
    BY <1>2, <2>1
  <2> QED BY <1>1, <2>2
<1>6. ASSUME NEW c \in Nat, c < end PROVE \E a \in L : to[a] <= c /\ c < to[a] + AllocationSize(m, a)
  <2>0. \A a \in L : to[a] \in Nat /\ AllocationSize(m, a) \in {2, 3}
    BY <1>0, <1>1
  <2> HIDE DEF Upto
  <2> SUFFICES ASSUME \A a \in L : to[a] <= c => to[a] + AllocationSize(m, a) <= c PROVE FALSE
    <3> SUFFICES ASSUME NEW a \in L, to[a] <= c, ~(to[a] + AllocationSize(m, a) <= c)
                 PROVE  c < to[a] + AllocationSize(m, a)
      OBVIOUS
    <3> QED BY <1>6, <2>0
  <2> DEFINE Rest == {a \in L : c < to[a]}
             Done == L \ Rest
  <2>1. CASE Rest = {}
    <3>1. L # {}
      <4> SUFFICES ASSUME L = {} PROVE FALSE
        OBVIOUS
      <4>1. Cover(m, {}) = {}
        BY DEF Cover
      <4>2. end = 0
        BY <4>1, FS_EmptySet DEF Size
      <4> QED BY <1>6, <4>2
    <3> DEFINE Up == {MaxSize - a : a \in L}
    <3>2. Up \subseteq Nat /\ Up # {}
      BY <1>0, <3>1, Sizes
    <3>3. PICK g \in Up : \A j \in Up : g <= j
      BY <3>2, LeastOf
    <3>4. PICK a \in L : g = MaxSize - a
      BY <3>3
    <3>5. \A b \in L : b <= a
      <4> SUFFICES ASSUME NEW b \in L PROVE b <= a
        OBVIOUS
      <4>1. MaxSize - b \in Up
        OBVIOUS
      <4>2. g <= MaxSize - b
        BY <3>3, <4>1
      <4> HIDE DEF Up
      <4> QED BY <1>0, <3>4, <4>2, Sizes
    <3>6. L = Upto(a)
      BY <1>0, <3>5 DEF Below, Upto
    <3>7. end = to[a] + AllocationSize(m, a)
      BY <1>1, <3>6
    <3>8. to[a] <= c
      <4>1. ~(c < to[a]) /\ to[a] \in Nat
        BY <2>0, <2>1
      <4> QED BY <1>6, <4>1
    <3>9. to[a] + AllocationSize(m, a) <= c
      BY <3>8
    <3> QED BY <1>3, <1>6, <3>7, <3>9
  <2>2. CASE Rest # {}
    <3>1. Rest \subseteq Nat
      BY <1>0
    <3>2. PICK b \in Rest : \A j \in Rest : b <= j
      BY <2>2, <3>1, LeastOf
    <3>3. b \in L /\ c < to[b]
      OBVIOUS
    <3>4. Below(L, b) \cap Rest = {}
      BY <1>0, <3>2 DEF Below
    <3>5. Below(L, b) # {}
      <4> SUFFICES ASSUME Below(L, b) = {} PROVE FALSE
        OBVIOUS
      <4>1. Cover(m, {}) = {}
        BY DEF Cover
      <4>2. to[b] = 0
        BY <3>3, <4>1, FS_EmptySet DEF Size
      <4> QED BY <3>3, <4>2
    <3> DEFINE Up == {MaxSize - a : a \in Below(L, b)}
    <3>6. Up \subseteq Nat /\ Up # {}
      BY <1>0, <3>5, Sizes DEF Below
    <3>7. PICK g \in Up : \A j \in Up : g <= j
      BY <3>6, LeastOf
    <3>8. PICK a \in Below(L, b) : g = MaxSize - a
      BY <3>7
    <3>9. a \in L /\ a < b /\ a \notin Rest
      BY <3>4 DEF Below
    <3>10. \A d \in Below(L, b) : d <= a
      <4> SUFFICES ASSUME NEW d \in Below(L, b) PROVE d <= a
        OBVIOUS
      <4>1. MaxSize - d \in Up
        OBVIOUS
      <4>2. g <= MaxSize - d /\ d \in L
        BY <3>7, <4>1 DEF Below
      <4> HIDE DEF Up
      <4> QED BY <1>0, <3>8, <3>9, <4>2, Sizes
    <3>11. Below(L, b) = Upto(a)
      BY <1>0, <3>3, <3>9, <3>10 DEF Below, Upto
    <3>12. to[b] = to[a] + AllocationSize(m, a)
      BY <1>1, <3>3, <3>9, <3>11
    <3>13. to[a] <= c
      <4>1. ~(c < to[a]) /\ to[a] \in Nat
        BY <2>0, <3>9
      <4> QED BY <1>6, <4>1
    <3>14. to[b] <= c
      BY <3>9, <3>12, <3>13
    <3> QED BY <1>6, <2>0, <3>3, <3>14
  <2> QED BY <2>1, <2>2
<1> QED BY <1>1, <1>3, <1>4, <1>5, <1>6 DEF Places

-----------------------------------------------------------------------------
(* What is left of the first k elements of a list.                          *)
KeptOf(q, list, k, S) ==
  /\ q \in Seq(Cells)
  /\ Range(q) = {list[i] : i \in 1 .. k} \cap S
  /\ \A i, j \in DOMAIN q : i < j => q[i] # q[j]

(* Filtering a list keeps its order.                                       *)
LEMMA KeptIs ==
  ASSUME NEW list \in Seq(Cells), \A i, j \in DOMAIN list : i < j => list[i] # list[j], NEW S
  PROVE  /\ Kept(list, S) \in Seq(Cells) /\ Range(Kept(list, S)) = Range(list) \cap S
         /\ \A i, j \in DOMAIN Kept(list, S) : i < j => Kept(list, S)[i] # Kept(list, S)[j]
<1> DEFINE n == Len(list)
<1>1. n \in Nat /\ DOMAIN list = 1 .. n
  OBVIOUS
<1> HIDE DEF n
<1>2. PICK r : KeptTrace(r, << >>, list, n, S)
  BY <1>1, KeptFold
<1>3. /\ r[0] = << >> /\ \A k \in 1 .. n : r[k] = KeepIn(r[k-1], list[k], S)
      /\ Kept(list, S) = r[n]
  BY <1>2 DEF KeptTrace
<1> DEFINE Bad == {k \in Nat : k <= n /\ ~KeptOf(r[k], list, k, S)}
<1>4. KeptOf(r[0], list, 0, S)
  <2>1. << >> \in Seq(Cells) /\ DOMAIN << >> = {} /\ Range(<< >>) = {} /\ 1 .. 0 = {}
    BY DEF Range
  <2> QED BY <1>3, <2>1 DEF KeptOf
<1>5. ASSUME NEW k \in 1 .. n, KeptOf(r[k-1], list, k - 1, S) PROVE KeptOf(r[k], list, k, S)
  <2> DEFINE q == r[k-1]
             a == list[k]
             old == {list[i] : i \in 1 .. k - 1}
             new == {list[i] : i \in 1 .. k}
  <2>1. q \in Seq(Cells) /\ Range(q) = old \cap S /\ \A i, j \in DOMAIN q : i < j => q[i] # q[j]
    BY <1>5 DEF KeptOf
  <2>2. r[k] = KeepIn(q, a, S)
    BY <1>3
  <2>3. a \in Cells /\ k \in Nat
    BY <1>1
  <2>4. new = old \cup {a}
    <3>1. \A i \in 1 .. k : i = k \/ i \in 1 .. k - 1
      BY <2>3
    <3>2. \A i \in 1 .. k - 1 : i \in 1 .. k
      BY <2>3
    <3>3. k \in 1 .. k
      BY <1>1
    <3> QED BY <3>1, <3>2, <3>3
  <2>5. a \notin old
    <3>1. ASSUME NEW i \in 1 .. k - 1 PROVE list[i] # a
      <4>1. i \in DOMAIN list /\ k \in DOMAIN list /\ i < k
        BY <1>1
      <4> QED BY <4>1
    <3> QED BY <3>1
  <2> HIDE DEF q, a, old, new
  <2>6. CASE a \in S
    <3> DEFINE l == Append(q, a)
    <3>1. /\ l \in Seq(Cells) /\ DOMAIN l = 1 .. Len(q) + 1 /\ DOMAIN q = 1 .. Len(q) /\ Len(q) \in Nat
          /\ \A i \in 1 .. Len(q) : l[i] = q[i]
          /\ l[Len(q) + 1] = a
      BY <2>1, <2>3, OneMore
    <3> HIDE DEF l
    <3>2. \A i \in DOMAIN l : i = Len(q) + 1 \/ i \in DOMAIN q
      BY <3>1
    <3>3. Range(l) = Range(q) \cup {a}
      BY <3>1, <3>2 DEF Range
    <3>4. \A i \in DOMAIN q : q[i] # a
      BY <2>1, <2>5 DEF Range
    <3>5. ASSUME NEW i \in DOMAIN l, NEW j \in DOMAIN l, i < j PROVE l[i] # l[j]
      <4>1. i \in DOMAIN q
        BY <3>1, <3>5
      <4> QED BY <2>1, <3>1, <3>2, <3>4, <3>5, <4>1
    <3>6. r[k] = l
      BY <2>2, <2>6 DEF KeepIn, l
    <3>7. Range(l) = new \cap S
      BY <2>1, <2>4, <2>6, <3>3
    <3> QED BY <3>1, <3>5, <3>6, <3>7 DEF KeptOf, new
  <2>7. CASE a \notin S
    <3>1. r[k] = q /\ new \cap S = old \cap S
      BY <2>2, <2>4, <2>7 DEF KeepIn
    <3> QED BY <2>1, <3>1 DEF KeptOf, new
  <2> QED BY <2>6, <2>7
<1>6. Bad = {}
  <2> SUFFICES ASSUME Bad # {} PROVE FALSE
    OBVIOUS
  <2>1. PICK k \in Bad : \A j \in Bad : k <= j
    <3>1. Bad \subseteq Nat
      OBVIOUS
    <3> HIDE DEF Bad
    <3> QED BY <3>1, LeastOf
  <2>2. k # 0 /\ k \in Nat /\ k <= n /\ ~KeptOf(r[k], list, k, S)
    BY <1>4, <2>1
  <2>3. k - 1 \in Nat /\ k - 1 <= n /\ k - 1 < k /\ k \in 1 .. n
    BY <1>1, <2>2
  <2>4. k - 1 \notin Bad
    BY <2>1, <2>2, <2>3
  <2>5. KeptOf(r[k-1], list, k - 1, S)
    BY <2>3, <2>4
  <2> QED BY <1>5, <2>2, <2>3, <2>5
<1>7. KeptOf(r[n], list, n, S)
  <2>1. n <= n
    BY <1>1
  <2> QED BY <1>1, <1>6, <2>1
<1>8. Range(list) = {list[i] : i \in 1 .. n}
  BY <1>1 DEF Range
<1> QED BY <1>3, <1>7, <1>8 DEF KeptOf

-----------------------------------------------------------------------------
(* A word after the objects in L have moved.                                *)
MovedWord(w, L, to) ==
  IF w.k \in {"ref", "weak"} THEN IF w.v \in L THEN [w EXCEPT !.v = to[w.v]] ELSE Plain ELSE w
Origin(m, L, to, c) == CHOOSE a \in L : to[a] <= c /\ c < to[a] + AllocationSize(m, a)
Compaction(m, L, to, end) ==
  [c \in Cells |-> IF c < end THEN MovedWord(m[Origin(m, L, to, c) + c - to[Origin(m, L, to, c)]], L, to)
                   ELSE Junk]

(* What a word becomes when the objects move.                              *)
LEMMA MovedWordIs ==
  ASSUME NEW w \in WordType, NEW L, NEW to, \A a \in L : to[a] \in Nat
  PROVE  /\ MovedWord(w, L, to) \in WordType
         /\ w.k = "hdr" => MovedWord(w, L, to) = w
         /\ MovedWord(w, L, to).k = "hdr" => w.k = "hdr"
         /\ w.k = "plain" => MovedWord(w, L, to) = w
         /\ w.k \in {"ref", "weak"} /\ w.v \in L => /\ MovedWord(w, L, to).k = w.k
                                                    /\ MovedWord(w, L, to).v = to[w.v]
         /\ w.k \in {"ref", "weak"} /\ w.v \notin L => MovedWord(w, L, to) = Plain
<1> DEFINE x == MovedWord(w, L, to)
<1>1. CASE w.k \in {"ref", "weak"} /\ w.v \in L
  <2>1. x = [w EXCEPT !.v = to[w.v]] /\ to[w.v] \in Nat
    BY <1>1 DEF MovedWord
  <2>2. x \in WordType /\ x.k = w.k /\ x.v = to[w.v]
    BY <2>1 DEF WordType
  <2>3. w.k # "hdr" /\ w.k # "plain"
    BY <1>1
  <2> QED BY <1>1, <2>2, <2>3
<1>2. CASE w.k \in {"ref", "weak"} /\ w.v \notin L
  <2>1. x = Plain
    BY <1>2 DEF MovedWord
  <2>2. Plain \in WordType /\ Plain.k = "plain"
    <3>1. 0 \in Nat
      OBVIOUS
    <3> QED BY <3>1, WordIs, RefIs
  <2>3. w.k # "hdr" /\ w.k # "plain"
    BY <1>2
  <2> QED BY <1>2, <2>1, <2>2, <2>3
<1>3. CASE w.k \notin {"ref", "weak"}
  BY <1>3 DEF MovedWord
<1> QED BY <1>1, <1>2, <1>3

(* The heap when they have moved: each object with the words it had.        *)
Compacted(m, L, to, end, n) ==
  /\ n \in Memory
  /\ \A a \in L : /\ \A i \in 0 .. AllocationSize(m, a) - 1 : n[to[a] + i] = MovedWord(m[a + i], L, to)
                  /\ n[to[a]] = m[a] /\ n[to[a] + 1] = MovedWord(m[a + 1], L, to)
                  /\ AllocationSize(n, to[a]) = AllocationSize(m, a)
                  /\ \A c \in Range(Slots(n, to[a])) :
                        \E d \in Range(Slots(m, a)) : n[c] = MovedWord(m[d], L, to)
  /\ \A a, b \in L : to[a] = to[b] => a = b
  /\ Objs(n, end, end, end) = {to[a] : a \in L}
  /\ \A c \in Cells : end <= c => n[c] = Junk

(* The heap after all of L have moved to their places.                     *)
LEMMA CompactedIs ==
  ASSUME NEW m, NEW e, NEW s, NEW z, Layout(m, e, s, z), NEW L, L \subseteq Objs(m, e, s, z),
         NEW to, NEW end \in Nat, end <= z, Places(m, L, to, end),
         NEW n, n = Compaction(m, L, to, end)
  PROVE  Compacted(m, L, to, end, n)
<1> DEFINE In(a, c) == to[a] <= c /\ c < to[a] + AllocationSize(m, a)
<1>1. \A a \in L : /\ a \in Objs(m, e, s, z) /\ a \in Nat /\ AllocationSize(m, a) \in {2, 3}
                   /\ a + AllocationSize(m, a) <= MaxSize /\ m[a].k = "hdr" /\ m[a] \in WordType
                   /\ m[a].t \in AllTypes
  <2> SUFFICES ASSUME NEW a \in L
               PROVE  /\ a \in Objs(m, e, s, z) /\ a \in Nat /\ AllocationSize(m, a) \in {2, 3}
                      /\ a + AllocationSize(m, a) <= MaxSize /\ m[a].k = "hdr" /\ m[a] \in WordType
                      /\ m[a].t \in AllTypes
    OBVIOUS
  <2>1. a \in Objs(m, e, s, z)
    OBVIOUS
  <2> QED BY <2>1, ObjectIs
<1>2. /\ \A a \in L : to[a] \in Nat /\ to[a] + AllocationSize(m, a) <= end
      /\ \A a, b \in L : a < b => to[a] + AllocationSize(m, a) <= to[b]
      /\ \A c \in Nat : c < end => \E a \in L : In(a, c)
  BY DEF Places
<1>3. MaxSize \in Nat /\ z \in Nat /\ z <= MaxSize /\ end <= MaxSize
  BY Sizes DEF Layout
<1>4. ASSUME NEW a \in L, NEW b \in L, NEW c \in Nat, In(a, c), In(b, c) PROVE a = b
  <2>1. a < b \/ b < a \/ a = b
    BY <1>1
  <2>2. to[a] \in Nat /\ to[b] \in Nat /\ AllocationSize(m, a) \in {2, 3} /\ AllocationSize(m, b) \in {2, 3}
    BY <1>1, <1>2
  <2>3. CASE a < b
    <3>1. to[a] + AllocationSize(m, a) <= to[b]
      BY <1>2, <2>3
    <3> QED BY <1>4, <2>2, <3>1
  <2>4. CASE b < a
    <3>1. to[b] + AllocationSize(m, b) <= to[a]
      BY <1>2, <2>4
    <3> QED BY <1>4, <2>2, <3>1
  <2> QED BY <2>1, <2>3, <2>4
<1>5. ASSUME NEW a \in L, NEW c \in Nat, In(a, c)
      PROVE  Origin(m, L, to, c) = a
  <2> DEFINE b == Origin(m, L, to, c)
  <2>1. b \in L /\ In(b, c)
    BY <1>5, Zenon DEF Origin
  <2> QED BY <1>4, <1>5, <2>1
<1> HIDE DEF In
<1>6. ASSUME NEW a \in L, NEW c \in Nat, In(a, c)
      PROVE  /\ c \in Cells /\ c < end /\ c - to[a] \in 0 .. AllocationSize(m, a) - 1
             /\ n[c] = MovedWord(m[a + (c - to[a])], L, to)
  <2>1. to[a] \in Nat /\ AllocationSize(m, a) \in {2, 3} /\ to[a] + AllocationSize(m, a) <= end /\ a \in Nat
    BY <1>1, <1>2
  <2>2. c < end /\ c - to[a] \in 0 .. AllocationSize(m, a) - 1
    BY <1>6, <2>1 DEF In
  <2>3. c \in Cells
    BY <1>3, <2>2 DEF Cells
  <2>4. Origin(m, L, to, c) = a
    BY <1>5, <1>6
  <2>5. n[c] = MovedWord(m[a + c - to[a]], L, to)
    BY <2>2, <2>3, <2>4 DEF Compaction
  <2>6. a + c - to[a] = a + (c - to[a])
    BY <2>1
  <2> QED BY <2>2, <2>3, <2>5, <2>6
<1>7. ASSUME NEW a \in L, NEW i \in 0 .. AllocationSize(m, a) - 1
      PROVE  /\ a + i \in Cells /\ m[a + i] \in WordType
             /\ to[a] + i \in Cells /\ n[to[a] + i] = MovedWord(m[a + i], L, to)
  <2>1. to[a] \in Nat /\ AllocationSize(m, a) \in {2, 3} /\ a \in Nat /\ a + AllocationSize(m, a) <= MaxSize
    BY <1>1, <1>2
  <2>2. In(a, to[a] + i) /\ to[a] + i \in Nat /\ (to[a] + i) - to[a] = i
    BY <2>1 DEF In
  <2>3. to[a] + i \in Cells /\ n[to[a] + i] = MovedWord(m[a + i], L, to)
    BY <1>6, <2>2
  <2>4. a + i \in Cells
    BY <1>3, <2>1 DEF Cells
  <2>5. m[a + i] \in WordType
    BY <2>4 DEF Layout, Memory
  <2> QED BY <2>3, <2>4, <2>5
<1>8. ASSUME NEW a \in L
      PROVE  /\ n[to[a]] = m[a] /\ n[to[a] + 1] = MovedWord(m[a + 1], L, to)
             /\ AllocationSize(n, to[a]) = AllocationSize(m, a)
             /\ \A c \in Range(Slots(n, to[a])) :
                  \E d \in Range(Slots(m, a)) : n[c] = MovedWord(m[d], L, to)
  <2>1. to[a] \in Nat /\ AllocationSize(m, a) \in {2, 3} /\ a \in Nat
    BY <1>1, <1>2
  <2>2. 0 \in 0 .. AllocationSize(m, a) - 1 /\ 1 \in 0 .. AllocationSize(m, a) - 1
    BY <2>1
  <2>3. a + 0 = a /\ to[a] + 0 = to[a]
    BY <2>1
  <2>4. n[to[a]] = MovedWord(m[a], L, to)
    BY <1>7, <2>2, <2>3
  <2>5. n[to[a]] = m[a]
    BY <1>1, <1>2, <2>4, MovedWordIs
  <2>6. n[to[a] + 1] = MovedWord(m[a + 1], L, to)
    BY <1>7, <2>2
  <2>7. AllocationSize(n, to[a]) = AllocationSize(m, a)
    BY <2>5 DEF AllocationSize
  <2>8. /\ Range(Slots(m, a)) = IF m[a].t = "cell" THEN {a + 1} ELSE IF m[a].t = "box" THEN {a + 2} ELSE {}
        /\ AllocationSize(m, a) = IF m[a].t = "box" THEN 3 ELSE 2
    BY <1>1, SizesAre
  <2>9. Range(Slots(n, to[a])) = IF m[a].t = "cell" THEN {to[a] + 1} ELSE IF m[a].t = "box" THEN {to[a] + 2} ELSE {}
    BY <1>1, <2>1, <2>5, SizesAre
  <2>10. m[a].t = "box" => n[to[a] + 2] = MovedWord(m[a + 2], L, to)
    <3>1. m[a].t = "box" => 2 \in 0 .. AllocationSize(m, a) - 1
      BY <2>8
    <3> QED BY <1>7, <3>1
  <2>11. ASSUME NEW c \in Range(Slots(n, to[a])) PROVE \E d \in Range(Slots(m, a)) : n[c] = MovedWord(m[d], L, to)
    <3>1. CASE m[a].t = "cell"
      <4>1. c = to[a] + 1 /\ a + 1 \in Range(Slots(m, a))
        BY <2>8, <2>9, <3>1
      <4> QED BY <2>6, <4>1
    <3>2. CASE m[a].t = "box"
      <4>1. c = to[a] + 2 /\ a + 2 \in Range(Slots(m, a))
        BY <2>8, <2>9, <3>2
      <4> QED BY <2>10, <3>2, <4>1
    <3> QED BY <2>9, <3>1, <3>2
  <2> QED BY <2>5, <2>6, <2>7, <2>11
<1>9. ASSUME NEW c \in Cells, end <= c PROVE n[c] = Junk
  <2>1. ~(c < end)
    BY <1>9 DEF Cells
  <2> QED BY <2>1 DEF Compaction
<1>10. ASSUME NEW c \in Cells, c < end
       PROVE  \E a \in L : \E i \in 0 .. AllocationSize(m, a) - 1 :
                /\ c = to[a] + i /\ n[c] = MovedWord(m[a + i], L, to) /\ m[a + i] \in WordType
  <2>1. c \in Nat
    BY DEF Cells
  <2>2. PICK a \in L : In(a, c)
    BY <1>2, <1>10, <2>1 DEF In
  <2>3. c - to[a] \in 0 .. AllocationSize(m, a) - 1 /\ n[c] = MovedWord(m[a + (c - to[a])], L, to)
    BY <1>6, <2>1, <2>2
  <2>4. c = to[a] + (c - to[a])
    BY <1>2, <2>1
  <2> QED BY <1>7, <2>3, <2>4
<1>11. n \in Memory
  <2>1. ASSUME NEW c \in Cells PROVE n[c] \in WordType
    <3>1. CASE c < end
      BY <1>2, <1>10, <3>1, MovedWordIs
    <3>2. CASE ~(c < end)
      <4>1. end <= c /\ 0 \in Nat
        BY <3>2 DEF Cells
      <4> QED BY <1>9, <4>1, WordIs
    <3> QED BY <3>1, <3>2
  <2>2. n = [c \in Cells |-> n[c]]
    BY DEF Compaction
  <2> QED BY <2>1, <2>2 DEF Memory
<1>12. ASSUME NEW a \in L, NEW b \in L, to[a] = to[b] PROVE a = b
  <2>1. a < b \/ b < a \/ a = b
    BY <1>1
  <2>2. to[a] \in Nat /\ to[b] \in Nat /\ AllocationSize(m, a) \in {2, 3} /\ AllocationSize(m, b) \in {2, 3}
    BY <1>1, <1>2
  <2>3. ~(a < b)
    BY <1>2, <1>12, <2>2
  <2>4. ~(b < a)
    BY <1>2, <1>12, <2>2
  <2> QED BY <2>1, <2>3, <2>4
<1>13. Objs(n, end, end, end) = {to[a] : a \in L}
  <2>1. ASSUME NEW c \in Objs(n, end, end, end) PROVE c \in {to[a] : a \in L}
    <3>1. c \in Cells /\ n[c].k = "hdr" /\ c < end
      BY DEF Objs, Cells
    <3>0. PICK a \in L : \E i \in 0 .. AllocationSize(m, a) - 1 :
            /\ c = to[a] + i /\ n[c] = MovedWord(m[a + i], L, to) /\ m[a + i] \in WordType
      BY <1>10, <3>1
    <3>2. PICK i \in 0 .. AllocationSize(m, a) - 1 :
            /\ c = to[a] + i /\ n[c] = MovedWord(m[a + i], L, to) /\ m[a + i] \in WordType
      BY <3>0
    <3>3. m[a + i].k = "hdr"
      BY <1>2, <3>1, <3>2, MovedWordIs
    <3>4. i = 0
      <4> SUFFICES ASSUME i # 0 PROVE FALSE
        OBVIOUS
      <4>1. a + i \in Nat /\ a < a + i /\ a + i < a + AllocationSize(m, a) /\ a \in Objs(m, e, s, z)
        BY <1>1
      <4> QED BY <3>3, <4>1, NoneInside
    <3>5. c = to[a]
      BY <1>2, <3>2, <3>4
    <3> QED BY <3>5
  <2>2. ASSUME NEW a \in L PROVE to[a] \in Objs(n, end, end, end)
    <3>1. to[a] \in Nat /\ to[a] + AllocationSize(m, a) <= end /\ AllocationSize(m, a) \in {2, 3}
      BY <1>1, <1>2
    <3>2. to[a] < end /\ to[a] \in Cells
      BY <1>3, <3>1 DEF Cells
    <3>3. n[to[a]].k = "hdr"
      BY <1>1, <1>8
    <3> QED BY <3>2, <3>3 DEF Objs
  <2> QED BY <2>1, <2>2
<1> QED BY <1>7, <1>8, <1>9, <1>11, <1>12, <1>13 DEF Compacted

-----------------------------------------------------------------------------
(* What roots, fields and frames of the objects in L refer to is in L.      *)
ClosedIn(m, v, f, L) ==
  /\ \A r \in Roots : v[r].k = "ref" => v[r].v \in L
  /\ \A a \in L : \A c \in Range(Slots(m, a)) : m[c].k = "ref" => m[c].v \in L
  /\ \A a \in L : m[a].t = "stack" /\ f[m[a].v].k = "ref" => f[m[a].v].v \in L

(* The elements of a list at their new places.                              *)
LEMMA RelocatedIs ==
  ASSUME NEW list, NEW A, NEW s, Lists(list, A, s), NEW S, S \subseteq A, NEW keep, A \cap keep = S,
         NEW to, \A a \in S : to[a] \in Cells, \A a, b \in S : to[a] = to[b] => a = b,
         NEW end \in Nat, \A a \in S : to[a] < end,
         NEW l, l = [i \in DOMAIN Kept(list, keep) |-> to[Kept(list, keep)[i]]]
  PROVE  Lists(l, {to[a] : a \in S}, end)
<1> DEFINE q == Kept(list, keep)
<1>1. list \in Seq(Cells) /\ Range(list) = A /\ \A i, j \in DOMAIN list : i < j => list[i] # list[j]
  BY DEF Lists
<1>2. q \in Seq(Cells) /\ Range(q) = S /\ \A i, j \in DOMAIN q : i < j => q[i] # q[j]
  BY <1>1, KeptIs
<1> HIDE DEF q
<1>3. DOMAIN q = 1 .. Len(q) /\ Len(q) \in Nat /\ \A i \in DOMAIN q : q[i] \in S
  BY <1>2 DEF Range
<1>4. DOMAIN l = DOMAIN q /\ l = [i \in DOMAIN q |-> to[q[i]]] /\ \A i \in DOMAIN q : l[i] = to[q[i]]
  BY DEF q
<1>5. l \in Seq(Cells)
  BY <1>3, <1>4
<1>6. Range(l) = {to[a] : a \in S}
  <2>1. ASSUME NEW x \in Range(l) PROVE x \in {to[a] : a \in S}
    BY <1>3, <1>4 DEF Range
  <2>2. ASSUME NEW a \in S PROVE to[a] \in Range(l)
    <3>1. PICK i \in DOMAIN q : q[i] = a
      BY <1>2 DEF Range
    <3>2. i \in DOMAIN l /\ l[i] = to[a]
      BY <1>4, <3>1
    <3> QED BY <3>2 DEF Range
  <2> QED BY <2>1, <2>2
<1>7. ASSUME NEW i \in DOMAIN l, NEW j \in DOMAIN l, i < j PROVE l[i] # l[j] /\ (end <= l[j] => end <= l[i])
  <2>1. q[i] # q[j] /\ q[i] \in S /\ q[j] \in S
    BY <1>2, <1>3, <1>4, <1>7
  <2>2. l[i] # l[j]
    BY <1>4, <2>1
  <2>3. l[j] < end /\ l[j] \in Cells
    BY <1>4, <2>1
  <2>4. l[j] \in Nat
    BY <2>3 DEF Cells
  <2>5. ~(end <= l[j])
    BY <2>3, <2>4
  <2> QED BY <2>2, <2>5
<1> QED BY <1>2, <1>5, <1>6, <1>7 DEF Lists, q

(* The program's heap after the compaction.                                 *)
LEMMA CompactedProgram ==
  ASSUME NEW m, NEW e, NEW s, NEW z, NEW v, NEW f, NEW st, NEW tr, NEW B,
         Program1(m, e, s, z, v, f, st, tr, B),
         NEW L, L \subseteq Objs(m, e, s, z), ClosedIn(m, v, f, L),
         NEW to, NEW end \in Nat, end <= z, Places(m, L, to, end),
         NEW n, Compacted(m, L, to, end, n),
         NEW v2, v2 = [r \in Roots |-> MovedWord(v[r], L, to)],
         NEW f2, f2 = [x \in {m[a].v : a \in Range(Kept(st, L))} |-> MovedWord(f[x], L, to)],
         NEW st2, st2 = [i \in DOMAIN Kept(st, L) |-> to[Kept(st, L)[i]]],
         NEW K, K = {a \in L : m[a + 1].v \in L},
         NEW tr2, tr2 = [i \in DOMAIN Kept(tr, K) |-> to[Kept(tr, K)[i]]]
  PROVE  Program1(n, end, end, end, v2, f2, st2, tr2, {}) /\ end > 0
<1> DEFINE O == Objs(m, e, s, z)
           P == Objs(n, end, end, end)
<1>1. /\ Layout(m, e, s, z) /\ Fields(m, e, s, z, O) /\ z \in Nat /\ z <= MaxSize /\ m \in Memory /\ MaxSize \in Nat
      /\ WordsIn(v, Roots, O) /\ v[CurrentStack].k = "ref" /\ m[v[CurrentStack].v].t = "stack"
      /\ WordsIn(f, NamesOf(m, StacksIn(m, e, s, z)), O)
      /\ Lists(st, StacksIn(m, e, s, z), s) /\ Lists(tr, WeakIn(m, e, s, z), s)
  BY Sizes DEF Program1, Heap1, Layout
<1>2. /\ n \in Memory
      /\ \A a \in L : /\ n[to[a]] = m[a] /\ n[to[a] + 1] = MovedWord(m[a + 1], L, to)
                      /\ AllocationSize(n, to[a]) = AllocationSize(m, a)
                      /\ \A c \in Range(Slots(n, to[a])) :
                            \E d \in Range(Slots(m, a)) : n[c] = MovedWord(m[d], L, to)
      /\ \A a, b \in L : to[a] = to[b] => a = b
      /\ P = {to[a] : a \in L}
  BY DEF Compacted
<1>3. /\ \A a \in L : to[a] \in Nat /\ to[a] + AllocationSize(m, a) <= end
      /\ \A a, b \in L : a < b => to[a] + AllocationSize(m, a) <= to[b]
  BY DEF Places
<1>4. \A a \in L : /\ a \in O /\ a \in Nat /\ AllocationSize(m, a) \in {2, 3} /\ m[a].t \in AllTypes
                   /\ m[a + 1] \in WordType
                   /\ \A d \in Range(Slots(m, a)) : m[d] \in WordType
  <2> SUFFICES ASSUME NEW a \in L
               PROVE  /\ a \in O /\ a \in Nat /\ AllocationSize(m, a) \in {2, 3} /\ m[a].t \in AllTypes
                      /\ m[a + 1] \in WordType
                      /\ \A d \in Range(Slots(m, a)) : m[d] \in WordType
    OBVIOUS
  <2>1. a \in O
    OBVIOUS
  <2>2. /\ a \in Nat /\ AllocationSize(m, a) \in {2, 3} /\ m[a].t \in AllTypes /\ a + 1 \in Cells
        /\ \A d \in Range(Slots(m, a)) : d \in Cells
    BY <1>1, <2>1, ObjectIs
  <2> QED BY <1>1, <2>1, <2>2 DEF Memory
<1> HIDE DEF P
<1>5. \A a \in L : to[a] \in P /\ to[a] < end /\ to[a] \in Cells
  <2> SUFFICES ASSUME NEW a \in L PROVE to[a] \in P /\ to[a] < end /\ to[a] \in Cells
    OBVIOUS
  <2>1. to[a] \in Nat /\ to[a] + AllocationSize(m, a) <= end /\ AllocationSize(m, a) \in {2, 3}
    BY <1>3, <1>4
  <2>2. to[a] < end
    BY <2>1
  <2> QED BY <1>1, <1>2, <2>1, <2>2 DEF Cells
<1>6. \A a \in L : to[a] \in Nat
  BY <1>3
<1>7. Layout(n, end, end, end)
  <2>1. ASSUME NEW b \in P
        PROVE  /\ n[b].t \in AllTypes /\ n[b].v \in 1 .. allocated
               /\ b < end => b + AllocationSize(n, b) <= end
               /\ end <= b => b + AllocationSize(n, b) <= end
    <3>1. PICK a \in L : b = to[a]
      BY <1>2
    <3>2. m[a].v \in 1 .. allocated
      BY <1>1, <1>4 DEF Layout
    <3> QED BY <1>2, <1>3, <1>4, <3>1, <3>2
  <2>2. ASSUME NEW b \in P, NEW c \in P, b < c PROVE b + AllocationSize(n, b) <= c
    <3>1. PICK a \in L : b = to[a]
      BY <1>2
    <3>2. PICK d \in L : c = to[d]
      BY <1>2
    <3>3. a < d \/ d < a \/ a = d
      BY <1>4
    <3>4. ~(d < a)
      <4> SUFFICES ASSUME d < a PROVE FALSE
        OBVIOUS
      <4>1. to[d] + AllocationSize(m, d) <= to[a] /\ AllocationSize(m, d) \in {2, 3} /\ to[d] \in Nat /\ to[a] \in Nat
        BY <1>3, <1>4
      <4> QED BY <2>2, <3>1, <3>2, <4>1
    <3>5. a # d
      BY <1>6, <2>2, <3>1, <3>2
    <3>6. to[a] + AllocationSize(m, a) <= to[d]
      BY <1>3, <3>3, <3>4, <3>5
    <3> QED BY <1>2, <3>1, <3>2, <3>6
  <2>3. ASSUME NEW b \in P, NEW c \in P, n[b].v = n[c].v PROVE b = c
    <3>1. PICK a \in L : b = to[a]
      BY <1>2
    <3>2. PICK d \in L : c = to[d]
      BY <1>2
    <3>3. m[a].v = m[d].v /\ a \in O /\ d \in O
      BY <1>2, <1>4, <2>3, <3>1, <3>2
    <3>4. a = d
      BY <1>1, <3>3 DEF Layout
    <3> QED BY <3>1, <3>2, <3>4
  <2>4. end <= MaxSize
    BY <1>1
  <2> HIDE DEF O
  <2>5. end <= end
    OBVIOUS
  <2> QED BY <1>2, <2>1, <2>2, <2>3, <2>4, <2>5 DEF Layout, P
<1>8. ASSUME NEW w \in WordType, Value(w, O), w.k = "ref" => w.v \in L
      PROVE  MovedWord(w, L, to) \in WordType /\ Value(MovedWord(w, L, to), P)
             /\ (w.k = "ref" => MovedWord(w, L, to).k = "ref" /\ MovedWord(w, L, to).v = to[w.v])
  BY <1>5, <1>6, <1>8, MovedWordIs DEF Value
<1>9. ASSUME NEW w \in WordType, WeakValue(w, O)
      PROVE  /\ WeakValue(MovedWord(w, L, to), P)
             /\ MovedWord(w, L, to).k = "weak" <=> w.k = "weak" /\ w.v \in L
  <2>1. CASE w.k = "weak" /\ w.v \in L
    <3>1. MovedWord(w, L, to).k = "weak" /\ MovedWord(w, L, to).v = to[w.v]
      BY <1>6, <2>1, MovedWordIs
    <3> QED BY <1>5, <2>1, <3>1 DEF WeakValue
  <2>2. CASE w.k = "weak" /\ w.v \notin L
    <3>1. MovedWord(w, L, to) = Plain
      BY <1>6, <2>2, MovedWordIs
    <3> QED BY <2>2, <3>1, RefIs DEF WeakValue
  <2>3. CASE w.k = "plain"
    <3>1. MovedWord(w, L, to) = w
      BY <1>6, <2>3, MovedWordIs
    <3> QED BY <2>3, <3>1 DEF WeakValue
  <2> QED BY <1>9, <2>1, <2>2, <2>3 DEF WeakValue
<1>10. Fields(n, end, end, end, P)
  <2> SUFFICES ASSUME NEW b \in P
               PROVE  /\ \A c \in Range(Slots(n, b)) : Value(n[c], P)
                      /\ n[b].t = "tracker" => WeakValue(n[b + 1], P)
    BY DEF Fields, P
  <2>1. PICK a \in L : b = to[a]
    BY <1>2
  <2>2. ASSUME NEW c \in Range(Slots(n, b)) PROVE Value(n[c], P)
    <3>1. PICK d \in Range(Slots(m, a)) : n[c] = MovedWord(m[d], L, to)
      BY <1>2, <2>1
    <3>2. m[d] \in WordType /\ Value(m[d], O) /\ (m[d].k = "ref" => m[d].v \in L)
      BY <1>1, <1>4 DEF Fields, ClosedIn
    <3> QED BY <1>8, <3>1, <3>2
  <2>3. ASSUME n[b].t = "tracker" PROVE WeakValue(n[b + 1], P)
    <3>1. n[b + 1] = MovedWord(m[a + 1], L, to) /\ m[a].t = "tracker" /\ m[a + 1] \in WordType
      BY <1>2, <1>4, <2>1, <2>3
    <3>2. WeakValue(m[a + 1], O)
      BY <1>1, <1>4, <3>1 DEF Fields
    <3> QED BY <1>9, <3>1, <3>2
  <2> QED BY <2>2, <2>3
<1>11. CurrentStack \in Roots /\ v[CurrentStack].v \in L
  BY <1>1 DEF Roots, ClosedIn
<1>12. WordsIn(v2, Roots, P)
  <2>1. ASSUME NEW r \in Roots PROVE v2[r] \in WordType /\ Value(v2[r], P)
    <3>1. v[r] \in WordType /\ Value(v[r], O) /\ (v[r].k = "ref" => v[r].v \in L)
      BY <1>1 DEF WordsIn, ClosedIn
    <3> QED BY <1>8, <3>1
  <2>2. v2 = [r \in Roots |-> v2[r]]
    OBVIOUS
  <2> QED BY <2>1, <2>2 DEF WordsIn
<1>13. v2[CurrentStack].k = "ref" /\ n[v2[CurrentStack].v].t = "stack"
  <2>1. v[CurrentStack] \in WordType
    BY <1>1, <1>11 DEF WordsIn
  <2>2. v2[CurrentStack].k = "ref" /\ v2[CurrentStack].v = to[v[CurrentStack].v]
    BY <1>1, <1>6, <1>11, <2>1, MovedWordIs
  <2> QED BY <1>1, <1>2, <1>11, <2>2
<1> DEFINE SL == {a \in L : m[a].t = "stack"}
           WL == {a \in L : m[a].t = "tracker" /\ m[a + 1].k = "weak" /\ m[a + 1].v \in L}
<1>14. StacksIn(m, e, s, z) \cap L = SL /\ SL \subseteq StacksIn(m, e, s, z)
  BY <1>4 DEF StacksIn
<1>15. WeakIn(m, e, s, z) \cap K = WL /\ WL \subseteq WeakIn(m, e, s, z)
  BY <1>4 DEF WeakIn
<1>16. Lists(st2, {to[a] : a \in SL}, end) /\ Range(Kept(st, L)) = SL
  <2>1. /\ \A a \in SL : to[a] \in Cells
        /\ \A a \in SL : to[a] < end
        /\ \A a, b \in SL : to[a] = to[b] => a = b
    BY <1>2, <1>5
  <2> HIDE DEF SL
  <2>2. Lists(st2, {to[a] : a \in SL}, end)
    <3>1. st2 = [i \in DOMAIN Kept(st, L) |-> to[Kept(st, L)[i]]]
      OBVIOUS
    <3> QED BY <3>1, <1>1, <1>14, <2>1, RelocatedIs
  <2>3. Range(Kept(st, L)) = SL
    BY <1>1, <1>14, KeptIs DEF Lists
  <2> QED BY <2>2, <2>3
<1>17. Lists(tr2, {to[a] : a \in WL}, end)
  <2>1. /\ \A a \in WL : to[a] \in Cells
        /\ \A a \in WL : to[a] < end
        /\ \A a, b \in WL : to[a] = to[b] => a = b
    BY <1>2, <1>5
  <2> HIDE DEF WL
  <2>2. tr2 = [i \in DOMAIN Kept(tr, K) |-> to[Kept(tr, K)[i]]]
    OBVIOUS
  <2>3. Lists(tr, WeakIn(m, e, s, z), s)
    BY <1>1
  <2> QED BY <1>15, <2>1, <2>2, <2>3, RelocatedIs
<1>18. StacksIn(n, end, end, end) = {to[a] : a \in SL}
  <2>1. \A b : b \in StacksIn(n, end, end, end) <=> b \in P /\ n[b].t = "stack"
    BY DEF StacksIn, P
  <2>2. \A a \in L : n[to[a]].t = m[a].t
    BY <1>2
  <2> QED BY <1>2, <2>1, <2>2
<1>19. \A a \in L : m[a].t = "tracker" => WeakValue(m[a + 1], O)
  BY <1>1, <1>4 DEF Fields
<1>20. \A a \in L : m[a].t = "tracker" => (n[to[a] + 1].k = "weak" <=> m[a + 1].k = "weak" /\ m[a + 1].v \in L)
  <2> SUFFICES ASSUME NEW a \in L, m[a].t = "tracker"
               PROVE  n[to[a] + 1].k = "weak" <=> m[a + 1].k = "weak" /\ m[a + 1].v \in L
    OBVIOUS
  <2> DEFINE w == m[a + 1]
  <2>1. w \in WordType /\ WeakValue(w, O) /\ n[to[a] + 1] = MovedWord(w, L, to)
    BY <1>2, <1>4, <1>19
  <2> HIDE DEF w, O
  <2>2. MovedWord(w, L, to).k = "weak" <=> w.k = "weak" /\ w.v \in L
    BY <1>9, <2>1 DEF O
  <2> QED BY <2>1, <2>2 DEF w
<1>21. WeakIn(n, end, end, end) = {to[a] : a \in WL}
  <2>1. \A b : b \in WeakIn(n, end, end, end) <=> b \in P /\ n[b].t = "tracker" /\ n[b + 1].k = "weak"
    BY DEF WeakIn, P
  <2>2. \A a \in L : n[to[a]].t = m[a].t
    BY <1>2
  <2> QED BY <1>2, <1>20, <2>1, <2>2
<1>22. WordsIn(f2, NamesOf(n, StacksIn(n, end, end, end)), P)
  <2> DEFINE N == {m[a].v : a \in SL}
  <2>1. NamesOf(n, StacksIn(n, end, end, end)) = N
    <3>1. \A a \in SL : n[to[a]].v = m[a].v
      BY <1>2
    <3> HIDE DEF SL
    <3> QED BY <1>18, <3>1 DEF NamesOf
  <2>2. f2 = [x \in N |-> MovedWord(f[x], L, to)]
    BY <1>16
  <2>3. ASSUME NEW x \in N PROVE f2[x] \in WordType /\ Value(f2[x], P)
    <3>1. PICK a \in L : m[a].t = "stack" /\ x = m[a].v
      OBVIOUS
    <3>2. x \in NamesOf(m, StacksIn(m, e, s, z))
      BY <1>4, <3>1 DEF NamesOf, StacksIn
    <3>3. f[x] \in WordType /\ Value(f[x], O) /\ (f[x].k = "ref" => f[x].v \in L)
      BY <1>1, <3>1, <3>2 DEF WordsIn, ClosedIn
    <3>4. f2[x] = MovedWord(f[x], L, to)
      BY <2>2
    <3> QED BY <1>8, <3>3, <3>4
  <2>4. f2 = [x \in N |-> f2[x]]
    BY <2>2
  <2> HIDE DEF N
  <2> QED BY <2>1, <2>3, <2>4 DEF WordsIn
<1>23. OldTrackers(n, end, end, end)
  <2> SUFFICES ASSUME NEW b \in WeakIn(n, end, end, end) PROVE n[b + 1].v < end
    BY DEF OldTrackers
  <2>1. b \in P /\ n[b].t = "tracker" /\ n[b + 1].k = "weak"
    BY DEF WeakIn, P
  <2>2. n[b + 1].v \in P
    BY <1>10, <2>1 DEF Fields, WeakValue, P
  <2> QED BY <1>2, <1>5, <2>2
<1>24. BitsIn({}, n, P)
  BY DEF BitsIn
<1>25. end > 0
  BY <1>5, <1>6, <1>11
<1> HIDE DEF O, SL, WL
<1>26. Program1(n, end, end, end, v2, f2, st2, tr2, {})
  BY <1>7, <1>10, <1>12, <1>13, <1>16, <1>17, <1>18, <1>21, <1>22, <1>23, <1>24 DEF Program1, Heap1, P
<1> QED BY <1>25, <1>26

-----------------------------------------------------------------------------
(* The objects that a full collection finds, and the ones it keeps.         *)
LEMMA ObjectsAre ==
  ASSUME Inv, phase \notin Copying, phase # "evacuated"
  PROVE  AllObjects = Objs(mem, oldEnd, Start1, limit)
<1>1. Numbers /\ RunInv
  BY DEF Inv
<1>2. Start1 = NurseryStart(limit, oldEnd)
  BY DEF Start1
<1>3. /\ oldEnd \in Nat /\ limit \in Nat /\ oldEnd <= limit /\ limit <= MaxSize /\ MaxSize \in Nat /\ top \in Nat
      /\ top <= limit
  BY <1>1, Sizes DEF Numbers
<1>4. Start1 \in Nat
  BY <1>2, <1>3, NurseryStartIs
<1>5. /\ Layout(mem, oldEnd, Start1, limit)
      /\ \A a \in Objs(mem, oldEnd, Start1, limit) : Start1 <= a => a + AllocationSize(mem, a) <= top
  BY <1>1 DEF RunInv, Program1, Heap1
<1>6. ASSUME NEW a \in AllObjects PROVE a \in Objs(mem, oldEnd, Start1, limit)
  <2>1. mem[a].k = "hdr" /\ (a \in 0 .. oldEnd - 1 \/ a \in Start1 .. top - 1)
    BY <1>2 DEF AllObjects, Objects
  <2>2. a \in Nat /\ a < MaxSize /\ (a < oldEnd \/ (Start1 <= a /\ a < limit))
    BY <1>3, <1>4, <2>1
  <2>3. a \in Cells
    BY <1>3, <2>2 DEF Cells
  <2> QED BY <2>1, <2>2, <2>3 DEF Objs
<1>7. ASSUME NEW a \in Objs(mem, oldEnd, Start1, limit) PROVE a \in AllObjects
  <2>1. a \in Nat /\ AllocationSize(mem, a) \in {2, 3} /\ mem[a].k = "hdr"
    BY <1>5, ObjectIs
  <2>2. a < oldEnd \/ Start1 <= a
    BY DEF Objs
  <2>3. a \in 0 .. oldEnd - 1 \/ a \in Start1 .. top - 1
    BY <1>3, <1>4, <1>5, <2>1, <2>2
  <2> QED BY <1>2, <2>1, <2>3 DEF AllObjects, Objects
<1> QED BY <1>6, <1>7

(* The objects kept are closed under the references of the heap, the roots *)
(* and the frames.                                                         *)
LEMMA LiveIs ==
  ASSUME Inv, phase \notin Copying, phase # "evacuated"
  PROVE  Live \subseteq Objs(mem, oldEnd, Start1, limit) /\ ClosedIn(mem, var, frame, Live)
<1> DEFINE O == Objs(mem, oldEnd, Start1, limit)
<1>1. AllObjects = O
  BY ObjectsAre
<1>2. RunInv
  BY DEF Inv
<1>3. /\ Layout(mem, oldEnd, Start1, limit) /\ Fields(mem, oldEnd, Start1, limit, O)
      /\ WordsIn(var, Roots, O)
      /\ WordsIn(frame, NamesOf(mem, StacksIn(mem, oldEnd, Start1, limit)), O)
  BY <1>2 DEF RunInv, Program1, Heap1
<1>4. Live \subseteq O /\ \A a \in O : a \in Live <=> \A S \in SUBSET O : Closed(S) => a \in S
  BY <1>1 DEF Live
<1> HIDE DEF O
<1>5. ASSUME NEW r \in Roots, var[r].k = "ref" PROVE var[r].v \in Live
  <2>1. var[r].v \in O /\ DOMAIN var = Roots
    BY <1>3, <1>5 DEF WordsIn, Value
  <2>2. var[r].v \in Targets(Range(var))
    BY <1>5, <2>1 DEF Targets, Range
  <2>3. \A S \in SUBSET O : Closed(S) => var[r].v \in S
    BY <2>2 DEF Closed
  <2> QED BY <1>4, <2>1, <2>3
<1>6. ASSUME NEW a \in Live, NEW t \in O, t \in References(a) PROVE t \in Live
  <2>1. ASSUME NEW S \in SUBSET O, Closed(S) PROVE t \in S
    <3>1. a \in S
      BY <1>4, <2>1
    <3> QED BY <1>6, <2>1, <3>1 DEF Closed
  <2> QED BY <1>4, <2>1
<1>7. ASSUME NEW a \in Live, NEW c \in Range(Slots(mem, a)), mem[c].k = "ref" PROVE mem[c].v \in Live
  <2>1. mem[c].v \in O
    BY <1>3, <1>4, <1>7 DEF Fields, Value, O
  <2>2. mem[c].v \in References(a)
    BY <1>7 DEF References, Targets
  <2> QED BY <1>6, <2>1, <2>2
<1>8. ASSUME NEW a \in Live, mem[a].t = "stack", frame[mem[a].v].k = "ref" PROVE frame[mem[a].v].v \in Live
  <2>1. mem[a].v \in NamesOf(mem, StacksIn(mem, oldEnd, Start1, limit))
    BY <1>4, <1>8 DEF NamesOf, StacksIn, O
  <2>2. frame[mem[a].v].v \in O
    BY <1>3, <1>8, <2>1 DEF WordsIn, Value
  <2>3. frame[mem[a].v].v \in References(a)
    BY <1>8 DEF References, Targets, NameAt
  <2> QED BY <1>6, <2>2, <2>3
<1> QED BY <1>4, <1>5, <1>7, <1>8 DEF ClosedIn, O

(* A full collection leaves a heap of old objects only.                     *)
LEMMA MarkCompactIs ==
  ASSUME Inv, phase \in {"run", "full"}, MarkCompact
  PROVE  /\ Program1(mem', oldEnd', oldEnd', oldEnd', var', frame', stacks', trackers', {})
         /\ bits' = {} /\ oldEnd' \in Nat /\ oldEnd' > 0 /\ oldEnd' <= limit
         /\ mem' \in Memory /\ \A c \in Cells : oldEnd' <= c => mem'[c] = Junk
<1> DEFINE L == Live
           O == Objs(mem, oldEnd, Start1, limit)
           to == [a \in L |-> Size(mem, Below(L, a))]
           end == Size(mem, L)
           K == {a \in L : mem[a + 1].v \in L}
<1>1. phase \notin Copying /\ phase # "evacuated"
  BY DEF Copying
<1>2. L \subseteq O /\ ClosedIn(mem, var, frame, L)
  BY <1>1, LiveIs
<1>3. Numbers /\ RunInv
  BY <1>1 DEF Inv
<1>4. Program1(mem, oldEnd, Start1, limit, var, frame, stacks, trackers, bits) /\ top \in Nat /\ limit \in Nat
  BY <1>3 DEF RunInv, Numbers
<1>5. Layout(mem, oldEnd, Start1, limit) /\ BitsIn(bits, mem, O)
      /\ oldEnd \in Nat /\ oldEnd <= Start1 /\ Start1 \in Nat
  BY <1>4 DEF Program1, Heap1, Layout
<1>6. Places(mem, L, to, end) /\ end \in Nat /\ end <= limit
  <2> HIDE DEF L
  <2> QED BY <1>2, <1>5, PlacesAre
<1>7. NewAddresses(L) = to /\ SumOfSizes(L) = end
  BY DEF NewAddresses, SumOfSizes, Words, Size, Cover, Below
<1> HIDE DEF L, to, end
<1>8. /\ mem' = Compaction(mem, L, to, end)
      /\ var' = [r \in Roots |-> MovedWord(var[r], L, to)]
      /\ frame' = [x \in {mem[a].v : a \in Range(Kept(stacks, L))} |-> MovedWord(frame[x], L, to)]
      /\ stacks' = [i \in DOMAIN Kept(stacks, L) |-> to[Kept(stacks, L)[i]]]
      /\ trackers' = [i \in DOMAIN Kept(trackers, K) |-> to[Kept(trackers, K)[i]]]
      /\ bits' = bits \ (0 .. top - 1)
      /\ oldEnd' = end
  BY <1>7 DEF MarkCompact, Compaction, MovedWord, Origin, NameAt, ClearMark, L
<1>9. Compacted(mem, L, to, end, mem')
  BY <1>2, <1>5, <1>6, <1>8, CompactedIs
<1>10. Program1(mem', end, end, end, var', frame', stacks', trackers', {}) /\ end > 0
  BY <1>2, <1>4, <1>6, <1>8, <1>9, CompactedProgram
<1>11. bits' = {}
  <2> SUFFICES ASSUME NEW c \in bits PROVE c \in 0 .. top - 1
    BY <1>8
  <2>1. PICK a \in O : c \in Range(Slots(mem, a))
    BY <1>5 DEF BitsIn
  <2>2. a \in Nat /\ c \in Cells /\ c < a + AllocationSize(mem, a) /\ AllocationSize(mem, a) \in {2, 3}
    BY <1>5, <2>1, ObjectIs
  <2>3. a + AllocationSize(mem, a) <= top
    <3>1. a < oldEnd \/ Start1 <= a
      BY DEF Objs
    <3>2. CASE a < oldEnd
      <4>1. a + AllocationSize(mem, a) <= oldEnd /\ Start1 <= top
        BY <1>1, <1>3, <1>5, <3>2 DEF Layout, RunInv
      <4> HIDE DEF O
      <4> QED BY <1>4, <1>5, <2>2, <4>1
    <3>3. CASE Start1 <= a
      BY <1>1, <1>3, <3>3 DEF RunInv
    <3> QED BY <3>1, <3>2, <3>3
  <2>4. c \in Nat
    BY <2>2 DEF Cells
  <2> QED BY <1>4, <2>2, <2>3, <2>4
<1>12. mem' \in Memory /\ \A c \in Cells : end <= c => mem'[c] = Junk
  BY <1>9 DEF Compacted
<1> QED BY <1>6, <1>8, <1>10, <1>11, <1>12

-----------------------------------------------------------------------------
(* With the next nursery above them the heap is the program's again.        *)
LEMMA CompactionKeeps ==
  ASSUME Inv, phase \in {"run", "full"}, MarkCompact, NEW lim \in Nat, SetLimit(oldEnd', lim),
         oldEnd' <= lim, lim <= size', size' \in 1 .. MaxSize, sizeLimit' \in 0 .. MaxSize,
         phase' \in {"run", "collected"}, UNCHANGED <<liveStacks, allocated, p, from, request>>,
         phase' = "collected" => Served' \/ size' >= sizeLimit'
  PROVE  Inv'
<1> DEFINE n == mem'
           e == oldEnd'
           s == top'
<1>1. /\ Program1(n, e, e, e, var', frame', stacks', trackers', {})
      /\ bits' = {} /\ e \in Nat
      /\ n \in Memory /\ \A c \in Cells : e <= c => n[c] = Junk
  BY MarkCompactIs
<1>2. limit' = lim /\ s = NurseryStart(lim, e)
  BY DEF SetLimit
<1>3. s \in Nat /\ e <= s /\ s <= lim
  BY <1>1, <1>2, NurseryStartIs
<1>4. lim <= MaxSize /\ MaxSize \in Nat
  BY Sizes
<1>5. /\ Program1(n, e, s, lim, var', frame', stacks', trackers', {})
      /\ \A a \in Objs(n, e, s, lim) : a \in Nat /\ a < e
      /\ Barriers({}, n, e, s, lim)
  <2>1. \A c \in Cells : c < e => n[c] = n[c]
    OBVIOUS
  <2>2. \A c \in Cells : s <= c /\ c < lim => n[c].k # "hdr"
    <3> SUFFICES ASSUME NEW c \in Cells, s <= c PROVE n[c].k # "hdr"
      OBVIOUS
    <3>1. e <= c
      BY <1>1, <1>3 DEF Cells
    <3> QED BY <1>1, <3>1, RefIs
  <2> HIDE DEF n, e, s
  <2>3. {} \subseteq {}
    OBVIOUS
  <2> QED BY <1>1, <1>3, <1>4, <2>1, <2>2, <2>3, Relaid
<1>6. Start1' = s
  BY <1>2 DEF Start1
<1>7. allocated' = allocated /\ liveStacks' = liveStacks /\ p' = p /\ from' = from /\ request' = request
  OBVIOUS
<1> HIDE DEF n, e, s
<1>8. mem' = n /\ oldEnd' = e /\ limit' = lim /\ top' = s
  BY <1>2 DEF n, e, s
<1>9. Program1(mem, oldEnd, Start1, limit, var, frame, stacks, trackers, bits)'
  BY <1>1, <1>5, <1>6, <1>7, <1>8 DEF Program1, Heap1, Layout
<1>10. Barriers(bits', mem', oldEnd', Start1', limit')
  BY <1>1, <1>5, <1>6, <1>8
<1>11. \A a \in Objs(mem', oldEnd', Start1', limit') : ~(Start1' <= a)
  BY <1>1, <1>3, <1>5, <1>6, <1>8
<1>12. liveStacks = << >>
  BY DEF Inv, RunInv, Copying
<1>13. Start1' <= top'
  BY <1>3, <1>6, <1>8
<1>14. RunInv'
  BY <1>7, <1>9, <1>10, <1>11, <1>12, <1>13 DEF RunInv, Beyond
<1>15. Numbers'
  <2>1. Numbers
    BY DEF Inv
  <2>2. lim \in 0 .. size' /\ e \in 0 .. lim /\ s \in 0 .. lim
    BY <1>1, <1>3
  <2> QED BY <1>7, <1>8, <2>1, <2>2 DEF Numbers
<1> QED BY <1>14, <1>15 DEF Inv, Copying

(* A full collection makes room for the request, or the heap is as large as *)
(* it may become.                                                           *)
LEMMA FullCollectionKeeps ==
  ASSUME Inv, FullCollection
  PROVE  Inv'
<1> DEFINE used == oldEnd' + NurserySize
           more == ExpandedSize(Smaller(sizeLimit, 2 * used))
           lim == Smaller(used, size')
<1>1. /\ phase = "full" /\ MarkCompact /\ SetLimit(oldEnd', lim) /\ phase' = "collected"
      /\ size' = IF 2 * used > size THEN Larger(size, more) ELSE size
      /\ UNCHANGED <<sizeLimit, liveStacks, request, p, allocated, from>>
  BY DEF FullCollection, InUse
<1>2. Numbers
  BY DEF Inv
<1>3. oldEnd' \in Nat /\ oldEnd' <= limit
  BY <1>1, MarkCompactIs
<1>4. /\ size \in Nat /\ size >= 1 /\ size <= MaxSize /\ MaxSize \in Nat /\ sizeLimit \in Nat /\ sizeLimit <= MaxSize
      /\ request.size \in Nat /\ limit \in Nat /\ limit <= size
  BY <1>2, Sizes DEF Numbers
<1>5. PICK half \in Nat : request.size <= half /\ NurserySize = 2 * half
  BY <1>4, SizesOfNursery DEF NurserySize
<1>6. used \in Nat /\ used = oldEnd' + 2 * half
  <2>1. used = oldEnd' + 2 * half
    BY <1>5
  <2> HIDE DEF used
  <2>2. \A x, y \in Nat : x + 2 * y \in Nat
    OBVIOUS
  <2>3. oldEnd' + 2 * half \in Nat
    BY <1>3, <2>2
  <2> QED BY <2>1, <2>3
<1> HIDE DEF used
<1> DEFINE small == Smaller(sizeLimit, 2 * used)
<1>7. small \in 0 .. MaxSize /\ (small = sizeLimit \/ small = 2 * used)
  BY <1>4, <1>6 DEF Smaller
<1>8. more \in 0 .. MaxSize /\ small <= more
  <2> HIDE DEF small
  <2>1. size \in 1 .. MaxSize
    BY <1>4
  <2>2. ExpandedSize(small) \in 0 .. MaxSize /\ small <= ExpandedSize(small)
    BY <1>7, <2>1, ExpandedSizeIs
  <2> QED BY <2>2 DEF small
<1> HIDE DEF more, small
<1>9. size' \in 1 .. MaxSize /\ size <= size' /\ (2 * used > size => more <= size')
  BY <1>1, <1>4, <1>8 DEF Larger
<1>10. lim \in Nat /\ oldEnd' <= lim /\ lim <= size' /\ (used <= size' => lim = used)
  <2>1. size' \in Nat /\ limit <= size'
    BY <1>4, <1>9
  <2>2. oldEnd' <= used
    <3>1. \A x, y \in Nat : x <= x + 2 * y
      OBVIOUS
    <3>2. oldEnd' <= oldEnd' + 2 * half
      BY <1>3, <3>1
    <3> QED BY <1>6, <3>2
  <2>3. oldEnd' <= size'
    BY <1>3, <1>4, <2>1
  <2> QED BY <1>6, <2>1, <2>2, <2>3 DEF Smaller
<1>11. Served' \/ size' >= sizeLimit'
  <2>1. CASE used <= size'
    <3>1. lim = oldEnd' + 2 * half /\ limit' = lim /\ top' = NurseryStart(lim, oldEnd')
      BY <1>1, <1>6, <1>10, <2>1 DEF SetLimit
    <3>2. lim - NurseryStart(lim, oldEnd') = half
      BY <1>3, <1>10, <3>1, NurseryStartIs
    <3> QED BY <1>1, <1>5, <3>1, <3>2 DEF Served, Enough
  <2>2. CASE ~(used <= size')
    <3>1. 2 * used > size
      BY <1>4, <1>6, <1>9, <2>2
    <3>2. more <= size'
      BY <1>9, <3>1
    <3>3. small # 2 * used
      BY <1>6, <1>8, <1>9, <2>2, <3>2
    <3> QED BY <1>1, <1>4, <1>7, <1>8, <1>9, <3>2, <3>3
  <2> QED BY <2>1, <2>2
<1>12. sizeLimit' \in 0 .. MaxSize
  BY <1>1, <1>4
<1> HIDE DEF lim
<1> QED BY <1>1, <1>9, <1>10, <1>11, <1>12, CompactionKeeps

(* full-heap-collection and set-max-heap-size.                              *)
LEMMA ConfigureKeeps ==
  ASSUME Inv, Configure
  PROVE  Inv'
<1>1. Numbers
  BY DEF Inv
<1>2. /\ size \in Nat /\ size >= 1 /\ size <= MaxSize /\ MaxSize \in Nat /\ sizeLimit \in 0 .. MaxSize
      /\ limit \in Nat /\ limit <= size /\ p \in 0 .. MaxSize /\ from \in 0 .. MaxSize /\ request.size \in Nat
      /\ PageSize \in Nat /\ PageSize > 0 /\ MaxSize % PageSize = 0
  BY <1>1, Sizes DEF Numbers
<1>3. CASE FullHeapCollection
  <2> DEFINE lim == Smaller(oldEnd' + ComputeNurserySize(0, size), size)
  <2>1. /\ phase = "run" /\ phase' = "run" /\ MarkCompact /\ SetLimit(oldEnd', lim)
        /\ UNCHANGED <<size, sizeLimit, request, p, liveStacks, from, allocated>>
    BY <1>3 DEF FullHeapCollection
  <2>2. oldEnd' \in Nat /\ oldEnd' <= limit
    BY <2>1, MarkCompactIs
  <2>3. ComputeNurserySize(0, size) \in Nat
    <3>1. 0 \in Nat
      OBVIOUS
    <3> QED BY <1>2, <3>1, SizesOfNursery
  <2>4. lim \in Nat /\ oldEnd' <= lim /\ lim <= size'
    BY <1>2, <2>1, <2>2, <2>3 DEF Smaller
  <2>5. size' \in 1 .. MaxSize /\ sizeLimit' \in 0 .. MaxSize
    BY <1>2, <2>1
  <2> HIDE DEF lim
  <2> QED BY <2>1, <2>4, <2>5, CompactionKeeps
<1>4. ASSUME NEW n \in HeapLimits, SetMaxHeapSize(n) PROVE Inv'
  <2> DEFINE wanted == Smaller(RoundUp(n, PageSize), MaxSize)
             lim == Smaller(oldEnd' + ComputeNurserySize(0, size'), size')
  <2>1. n \in Nat
    BY Sizes
  <2>2. RoundUp(n, PageSize) \in Nat
    BY <1>2, <2>1, RoundUpIs
  <2>3. wanted \in 0 .. MaxSize
    BY <1>2, <2>2 DEF Smaller
  <2>4. phase = "run" /\ phase' = "run" /\ UNCHANGED <<request, p, liveStacks, from, allocated>>
    BY <1>4 DEF SetMaxHeapSize
  <2>5. CASE /\ wanted >= size
             /\ sizeLimit' = wanted
             /\ UNCHANGED <<mem, bits, size, top, limit, oldEnd, var, frame, stacks, trackers>>
    <3>1. UNCHANGED <<mem, bits, size, limit, top, oldEnd, var, frame, lists, allocated>>
      BY <2>4, <2>5 DEF lists
    <3>2. sizeLimit' \in 0 .. MaxSize /\ p' \in 0 .. MaxSize /\ from' \in 0 .. MaxSize /\ request'.size \in Nat
      BY <1>2, <2>3, <2>4, <2>5
    <3>3. phase \notin Copying
      BY <2>4 DEF Copying
    <3> QED BY <2>4, <3>1, <3>2, <3>3, SameHeapKeeps
  <2>6. CASE /\ wanted < size
             /\ MarkCompact
             /\ sizeLimit' = Larger(wanted, RoundUp(oldEnd', PageSize))
             /\ size' = Smaller(size, sizeLimit')
             /\ SetLimit(oldEnd', lim)
    <3>1. oldEnd' \in Nat /\ oldEnd' <= limit /\ oldEnd' > 0
      BY <2>4, <2>6, MarkCompactIs
    <3> HIDE DEF wanted
    <3> DEFINE r == RoundUp(oldEnd', PageSize)
    <3>2. r \in Nat /\ oldEnd' <= r /\ r <= MaxSize
      <4>1. oldEnd' <= MaxSize
        BY <1>2, <3>1
      <4> QED BY <1>2, <3>1, <4>1, RoundUpIs
    <3> HIDE DEF r
    <3>3. sizeLimit' \in 0 .. MaxSize /\ oldEnd' <= sizeLimit'
      <4>1. sizeLimit' = Larger(wanted, r)
        BY <2>6 DEF r
      <4> QED BY <1>2, <2>3, <3>1, <3>2, <4>1 DEF Larger
    <3>4. size' \in 1 .. MaxSize /\ oldEnd' <= size'
      BY <1>2, <2>6, <3>1, <3>3 DEF Smaller
    <3>5. ComputeNurserySize(0, size') \in Nat
      <4>1. 0 \in Nat /\ size' \in Nat
        BY <1>2, <3>4
      <4> QED BY <4>1, SizesOfNursery
    <3>6. lim \in Nat /\ oldEnd' <= lim /\ lim <= size'
      BY <1>2, <3>1, <3>4, <3>5 DEF Smaller
    <3> HIDE DEF lim
    <3> QED BY <2>4, <2>6, <3>3, <3>4, <3>6, CompactionKeeps
  <2> QED BY <1>4, <2>5, <2>6 DEF SetMaxHeapSize
<1> QED BY <1>3, <1>4 DEF Configure

-----------------------------------------------------------------------------
(* The first heap: one stack, in the nursery.                               *)
LEMMA InitInv ==
  ASSUME Init
  PROVE  Inv
<1> DEFINE s == NurseryStart(InitialNursery, 0)
           z == InitialNursery
           O == Objs(mem, 0, s, z)
<1>1. /\ mem = [c \in Cells |-> IF c = s THEN Header("stack", 1) ELSE IF c = s + 1 THEN Plain ELSE Junk]
      /\ bits = {}
      /\ size = InitialSize /\ sizeLimit = MaxSize
      /\ limit = z /\ top = s + 2 /\ oldEnd = 0
      /\ var = [r \in Roots |-> IF r = CurrentStack THEN Ref(s) ELSE Plain]
      /\ frame = [n \in {1} |-> Plain]
      /\ stacks = <<s>> /\ trackers = << >> /\ liveStacks = << >>
      /\ phase = "run" /\ request = [size |-> 0, again |-> FALSE]
      /\ p = 0 /\ allocated = 1 /\ from = s
  BY DEF Init
<1>2. InitialSize \in Nat /\ InitialSize <= MaxSize /\ MaxSize \in Nat /\ InitialSize >= 4 /\ MaxObjects \in Nat
      /\ MaxObjects >= 1
  BY Sizes
<1>3. PICK half \in Nat : z = 2 * half
  <2>1. 0 \in Nat
    OBVIOUS
  <2> QED BY <1>2, <2>1, SizesOfNursery DEF InitialNursery
<1>4. z \in Nat /\ z >= 4 /\ z <= InitialSize
  BY <1>2, FirstNursery
<1>5. half >= 2
  BY <1>3, <1>4
<1>6. s \in Nat /\ z - s = half
  <2>1. \A x \in Nat : x = 2 * half => NurseryStart(x, 0) \in Nat /\ x - NurseryStart(x, 0) = half
    <3>1. \A x \in Nat : x = 2 * half => x >= 0 /\ x = 0 + 2 * half
      OBVIOUS
    <3>2. 0 \in Nat /\ half \in Nat
      BY <1>3
    <3> QED BY <3>1, <3>2, NurseryStartIs
  <2> QED BY <1>3, <1>4, <2>1
<1>7. s + 2 <= z /\ s = half
  BY <1>3, <1>4, <1>5, <1>6
<1> HIDE DEF s, z
<1>8. s \in Cells /\ s + 1 \in Cells /\ s < z /\ z <= MaxSize
  BY <1>2, <1>4, <1>6, <1>7 DEF Cells
<1>9. /\ Header("stack", 1) \in WordType /\ Header("stack", 1).k = "hdr" /\ Header("stack", 1).t = "stack"
      /\ Header("stack", 1).v = 1
  <2>1. 1 \in Nat /\ "stack" \in AllTypes
    BY DEF AllTypes
  <2> QED BY <2>1 DEF Header, WordType
<1>10. /\ Plain \in WordType /\ Junk \in WordType /\ Ref(s) \in WordType
       /\ Plain.k = "plain" /\ Junk.k = "junk" /\ Ref(s).k = "ref" /\ Ref(s).v = s
  <2>1. 0 \in Nat
    OBVIOUS
  <2> QED BY <1>6, <2>1, WordIs, RefIs
<1>11. mem \in Memory /\ mem[s] = Header("stack", 1) /\ \A c \in Cells : mem[c].k = "hdr" => c = s
  <2>1. \A c \in Cells : mem[c] = IF c = s THEN Header("stack", 1) ELSE IF c = s + 1 THEN Plain ELSE Junk
    BY <1>1
  <2>2. mem = [c \in Cells |-> mem[c]]
    BY <1>1
  <2>3. \A c \in Cells : mem[c] \in WordType
    BY <1>9, <1>10, <2>1
  <2>4. \A c \in Cells : mem[c].k = "hdr" => c = s
    BY <1>10, <2>1
  <2> QED BY <1>8, <2>1, <2>2, <2>3, <2>4 DEF Memory
<1>12. O = {s}
  <2>1. s \in O
    BY <1>6, <1>8, <1>9, <1>11 DEF Objs
  <2>2. \A c \in O : c = s
    BY <1>11 DEF Objs
  <2> QED BY <2>1, <2>2
<1>13. AllocationSize(mem, s) = 2 /\ Range(Slots(mem, s)) = {} /\ mem[s].t = "stack" /\ mem[s].v = 1
  <2>1. mem[s].t = "stack" /\ mem[s].v = 1 /\ "stack" \in AllTypes
    BY <1>9, <1>11 DEF AllTypes
  <2>2. AllocationSize(mem, s) = (IF mem[s].t = "box" THEN 3 ELSE 2)
        /\ Range(Slots(mem, s)) = IF mem[s].t = "cell" THEN {s + 1} ELSE IF mem[s].t = "box" THEN {s + 2} ELSE {}
    BY <1>6, <2>1, SizesAre
  <2> QED BY <2>1, <2>2
<1> HIDE DEF O
<1>14. Start1 = s
  BY <1>1 DEF Start1, s, z
<1>15. Layout(mem, 0, s, z)
  <2>1. /\ 0 \in Nat /\ 0 <= s /\ s <= z /\ ~(s < 0) /\ 1 \in 1 .. 1
    BY <1>4, <1>6, <1>7
  <2>2. mem[s].t \in AllTypes /\ mem[s].v \in 1 .. allocated /\ s + AllocationSize(mem, s) <= z
    BY <1>1, <1>7, <1>13, <2>1 DEF AllTypes
  <2>3. ~(s < s)
    BY <1>6
  <2> QED BY <1>4, <1>6, <1>8, <1>11, <1>12, <2>1, <2>2, <2>3 DEF Layout, O
<1>16. Fields(mem, 0, s, z, O)
  BY <1>12, <1>13 DEF Fields, O
<1>17. StacksIn(mem, 0, s, z) = {s} /\ WeakIn(mem, 0, s, z) = {} /\ NamesOf(mem, {s}) = {1}
  BY <1>12, <1>13 DEF StacksIn, WeakIn, NamesOf, O
<1>18. WordsIn(var, Roots, O)
  <2>1. \A r \in Roots : var[r] = IF r = CurrentStack THEN Ref(s) ELSE Plain
    BY <1>1
  <2>2. var = [r \in Roots |-> var[r]]
    BY <1>1
  <2>3. \A r \in Roots : var[r] \in WordType /\ Value(var[r], O)
    BY <1>10, <1>12, <2>1 DEF Value
  <2> QED BY <2>2, <2>3 DEF WordsIn
<1>19. var[CurrentStack].k = "ref" /\ mem[var[CurrentStack].v].t = "stack"
  <2>1. CurrentStack \in Roots
    BY DEF Roots
  <2> QED BY <1>1, <1>10, <1>13, <2>1
<1>20. WordsIn(frame, {1}, O)
  <2>1. frame = [n \in {1} |-> frame[n]] /\ frame[1] = Plain
    BY <1>1
  <2> QED BY <1>10, <2>1 DEF WordsIn, Value
<1>21. Lists(stacks, {s}, s)
  <2>1. stacks \in Seq(Cells) /\ DOMAIN stacks = 1 .. 1 /\ stacks[1] = s
    BY <1>1, <1>8
  <2>2. Range(stacks) = {s}
    BY <2>1 DEF Range
  <2>3. \A i, j \in DOMAIN stacks : ~(i < j)
    BY <2>1
  <2> QED BY <2>1, <2>2, <2>3 DEF Lists
<1>22. Lists(trackers, {}, s)
  <2>1. trackers \in Seq(Cells) /\ DOMAIN trackers = {} /\ Range(trackers) = {}
    BY <1>1 DEF Range
  <2> QED BY <2>1 DEF Lists
<1>23. OldTrackers(mem, 0, s, z) /\ BitsIn({}, mem, O)
  BY <1>17 DEF OldTrackers, BitsIn
<1>24. Program1(mem, 0, s, z, var, frame, stacks, trackers, {})
  BY <1>15, <1>16, <1>17, <1>18, <1>19, <1>20, <1>21, <1>22, <1>23 DEF Program1, Heap1, O
<1>25. Barriers({}, mem, 0, s, z)
  BY <1>12, <1>13 DEF Barriers, O
<1>26. RunInv
  <2>1. s <= s + 2 /\ \A a \in Objs(mem, 0, s, z) : a + AllocationSize(mem, a) <= s + 2
    BY <1>6, <1>12, <1>13 DEF O
  <2> QED BY <1>1, <1>14, <1>24, <1>25, <2>1 DEF RunInv
<1>27. Numbers
  <2>1. /\ InitialSize \in 1 .. MaxSize /\ MaxSize \in 0 .. MaxSize /\ z \in 0 .. InitialSize /\ 0 \in 0 .. z
        /\ s + 2 \in 0 .. z /\ 0 \in 0 .. MaxSize /\ s \in 0 .. MaxSize /\ 1 \in 1 .. MaxObjects
    BY <1>2, <1>4, <1>6, <1>7
  <2>2. request.size = 0 /\ 0 \in Nat
    BY <1>1
  <2> QED BY <1>1, <2>1, <2>2 DEF Numbers
<1> QED BY <1>1, <1>26, <1>27 DEF Inv, Copying

(* Every step keeps the invariant.                                          *)
LEMMA NextKeeps ==
  ASSUME Inv, PendingOK, [Next]_vars
  PROVE  Inv'
<1>1. CASE Program
  BY <1>1, ProgramKeeps
<1>2. ASSUME NEW n \in Requests, ExtendHeap(n) PROVE Inv'
  BY <1>2, ExtendHeapKeeps
<1>3. CASE Collector
  <2>1. CASE IterateMarked
    BY <2>1, IterateMarkedKeeps
  <2>2. CASE CopyRoots
    BY <2>2, CopyRootsKeeps
  <2>3. CASE CopyOldStacks
    BY <2>3, CopyOldStacksKeeps
  <2>4. CASE CompleteCopying
    BY <2>4, CompleteCopyingKeeps
  <2>5. CASE CopyNewStacks
    BY <2>5, CopyNewStacksKeeps
  <2>6. CASE DropUnreachable
    BY <2>6, DropUnreachableKeeps
  <2>7. CASE FinishEvacuation
    BY <2>7, FinishEvacuationKeeps
  <2>8. CASE FullCollection
    BY <2>8, FullCollectionKeeps
  <2>9. CASE Notify
    BY <2>9, NotifyKeeps
  <2>10. CASE Resume
    BY <2>10, ResumeKeeps
  <2>11. CASE OutOfMemory
    BY <2>11, OutOfMemoryKeeps
  <2> QED BY <1>3, <2>1, <2>2, <2>3, <2>4, <2>5, <2>6, <2>7, <2>8, <2>9, <2>10, <2>11 DEF Collector
<1>4. CASE Configure
  BY <1>4, ConfigureKeeps
<1>5. CASE UNCHANGED vars
  BY <1>5, StutterKeeps
<1>6. CASE Fatal
  BY <1>6, StutterKeeps DEF Fatal
<1>7. CASE NotifiersReturn
  BY <1>7, NotifiersReturnKeeps
<1> QED BY <1>1, <1>2, <1>3, <1>4, <1>5, <1>6, <1>7 DEF Next

(* Sizes are pushed from the request, popped, and otherwise left alone.     *)
LEMMA PendingKeeps ==
  ASSUME Inv, PendingOK, [Next]_vars
  PROVE  PendingOK'
<1>1. pending \in Seq(Nat) /\ request.size \in Nat
  BY DEF Inv, Numbers, PendingOK
<1>2. CASE pending' = pending
  BY <1>1, <1>2 DEF PendingOK
<1>3. CASE Notify
  <2>1. pending' = <<request.size>> \o pending
    BY <1>3 DEF Notify
  <2> QED BY <1>1, <2>1 DEF PendingOK
<1>4. CASE NotifiersReturn
  <2>1. pending # << >> /\ pending' = Tail(pending)
    BY <1>4 DEF NotifiersReturn
  <2> QED BY <1>1, <2>1 DEF PendingOK
<1>5. Notify \/ NotifiersReturn \/ pending' = pending
  <2>1. CASE Program
    BY <2>1 DEF Program, Allocate, Store, Load, StoreFrame, LoadFrame, TrackerValue, Forget, Running
  <2>2. CASE \E n \in Requests : ExtendHeap(n)
    BY <2>2 DEF ExtendHeap
  <2>3. CASE Collector
    BY <2>3 DEF Collector, IterateMarked, CopyRoots, CopyOldStacks, CompleteCopying, CopyNewStacks,
                DropUnreachable, FinishEvacuation, FullCollection, Resume, OutOfMemory
  <2>4. CASE Configure
    BY <2>4 DEF Configure, FullHeapCollection, SetMaxHeapSize
  <2>5. CASE Fatal \/ UNCHANGED vars
    BY <2>5 DEF Fatal, vars
  <2> QED BY <2>1, <2>2, <2>3, <2>4, <2>5 DEF Next
<1> QED BY <1>2, <1>3, <1>4, <1>5

(* The inductive invariant: the heap is laid out in whole objects that      *)
(* refer to objects, before, between and after the steps of a collection.   *)
THEOREM InvHolds == Spec => [](Inv /\ PendingOK)
<1>1. Init => Inv /\ PendingOK
  <2>1. Init => pending = << >>
    BY DEF Init
  <2>2. << >> \in Seq(Nat)
    OBVIOUS
  <2> QED BY <2>1, <2>2, InitInv DEF PendingOK
<1>2. Inv /\ PendingOK /\ [Next]_vars => Inv' /\ PendingOK'
  BY NextKeeps, PendingKeeps
<1> QED BY <1>1, <1>2, PTL DEF Spec
-----------------------------------------------------------------------------
(* What the invariant says of the lists and the words.                      *)
LEMMA InvTypeOK ==
  ASSUME Inv, PendingOK
  PROVE  TypeOK
<1>1. Numbers
  BY DEF Inv
<1>2. /\ MaxSize \in Nat
      /\ \A x \in Nat : x <= MaxSize => x \in 0 .. MaxSize
  BY Sizes
<1>3. /\ size \in 0 .. MaxSize /\ sizeLimit \in 0 .. MaxSize
      /\ {top, limit, oldEnd, p, from} \subseteq 0 .. MaxSize
      /\ allocated \in 1 .. MaxObjects
  BY <1>1, <1>2 DEF Numbers
<1> DEFINE Good(e, s, z) == /\ Layout(mem, e, s, z)
                            /\ DOMAIN frame = NamesOf(mem, StacksIn(mem, e, s, z))
                            /\ BitsIn(bits, mem, Objs(mem, e, s, z))
<1>4. ASSUME NEW e, NEW s, NEW z, Good(e, s, z)
      PROVE  mem \in Memory /\ bits \subseteq Cells /\ DOMAIN frame \subseteq 1 .. allocated
  <2>1. mem \in Memory
    BY <1>4 DEF Layout
  <2>2. ASSUME NEW c \in bits PROVE c \in Cells
    <3>1. PICK a \in Objs(mem, e, s, z) : c \in Range(Slots(mem, a))
      BY <1>4 DEF BitsIn
    <3> QED BY <1>4, <3>1, ObjectIs
  <2>3. ASSUME NEW n \in DOMAIN frame PROVE n \in 1 .. allocated
    <3>1. PICK a \in Objs(mem, e, s, z) : n = mem[a].v
      BY <1>4 DEF NamesOf, StacksIn
    <3> QED BY <1>4, <3>1 DEF Layout
  <2> QED BY <2>1, <2>2, <2>3
<1>5. mem \in Memory /\ bits \subseteq Cells /\ DOMAIN frame \subseteq 1 .. allocated
      /\ stacks \in Seq(Cells) /\ trackers \in Seq(Cells) /\ liveStacks \in Seq(Cells)
  <2>1. CASE phase \in Copying
    <3>1. CopyInv
      BY <2>1 DEF Inv
    <3>2. Layout(mem, top, from, limit)
      BY <3>1 DEF CopyInv, CopyState
    <3>3. DOMAIN frame = NamesOf(mem, StacksIn(mem, top, from, limit))
      BY <3>1 DEF CopyInv, WordsIn
    <3>4. BitsIn(bits, mem, Objs(mem, top, from, limit))
      BY <3>1 DEF CopyInv, BitsIn
    <3>5. stacks \in Seq(Cells) /\ trackers \in Seq(Cells) /\ liveStacks \in Seq(Cells)
      BY <3>1 DEF CopyInv, StacksListed, TrackersListed, Listed
    <3> QED BY <1>4, <3>2, <3>3, <3>4, <3>5
  <2>2. CASE phase \notin Copying
    <3>1. RunInv
      BY <2>2 DEF Inv
    <3>2. Layout(mem, oldEnd, Start1, limit) /\ BitsIn(bits, mem, Objs(mem, oldEnd, Start1, limit))
      BY <3>1 DEF RunInv, Program1, Heap1
    <3>3. DOMAIN frame = NamesOf(mem, StacksIn(mem, oldEnd, Start1, limit))
      BY <3>1 DEF RunInv, Program1, WordsIn
    <3>4. stacks \in Seq(Cells) /\ trackers \in Seq(Cells) /\ liveStacks \in Seq(Cells)
      BY <3>1 DEF RunInv, Program1, Lists
    <3> QED BY <1>4, <3>2, <3>3, <3>4
  <2> QED BY <2>1, <2>2
<1>6. Range(stacks) \cup Range(trackers) \cup Range(liveStacks) \subseteq Cells
  <2>1. \A q \in Seq(Cells) : Range(q) \subseteq Cells
    BY DEF Range
  <2> QED BY <1>5, <2>1
<1> QED BY <1>3, <1>5, <1>6 DEF TypeOK, Memory, WordType, PendingOK

(* The lists of a running program name each stack and tracker once, new    *)
(* ones first.                                                             *)
LEMMA InvListsInOrder ==
  ASSUME Inv, phase = "run"
  PROVE  ListsInOrder
<1> DEFINE O == Objs(mem, oldEnd, Start1, limit)
<1>1. Program1(mem, oldEnd, Start1, limit, var, frame, stacks, trackers, bits) /\ Start1 \in Nat
  BY RunIs
<1>2. Live \subseteq O
  BY LiveIs DEF Copying
<1>3. Start1 = NurseryStart(limit, oldEnd)
  BY DEF Start1
<1>4. /\ Lists(stacks, StacksIn(mem, oldEnd, Start1, limit), Start1)
      /\ Lists(trackers, WeakIn(mem, oldEnd, Start1, limit), Start1)
      /\ DOMAIN frame = NamesOf(mem, StacksIn(mem, oldEnd, Start1, limit))
  BY <1>1 DEF Program1, WordsIn
<1>5. ASSUME NEW list, NEW A, Lists(list, A, Start1) PROVE Ordered(list)
  <2> SUFFICES ASSUME NEW i \in DOMAIN list, NEW j \in DOMAIN list, i < j
               PROVE  list[i] # list[j] /\ (Young(list[j]) => Young(list[i]))
    BY DEF Ordered
  <2>1. list[i] # list[j] /\ (Start1 <= list[j] => Start1 <= list[i]) /\ list \in Seq(Cells)
    BY <1>5 DEF Lists
  <2>2. list[i] \in Cells /\ list[j] \in Cells
    BY <2>1
  <2>3. list[i] \in Nat /\ list[j] \in Nat
    BY <2>2 DEF Cells
  <2> QED BY <1>1, <1>3, <2>1, <2>3 DEF Young
<1>6. Ordered(stacks) /\ Ordered(trackers)
  BY <1>4, <1>5
<1>7. {a \in Live : mem[a].t = "stack"} \subseteq Range(stacks)
  BY <1>2, <1>4 DEF Lists, StacksIn
<1>8. {a \in Live : mem[a].t = "tracker" /\ mem[a + 1].k = "weak"} \subseteq Range(trackers)
  BY <1>2, <1>4 DEF Lists, WeakIn
<1>9. DOMAIN frame = {NameAt(mem, a) : a \in Range(stacks)}
  BY <1>4 DEF Lists, NamesOf, NameAt
<1> QED BY <1>6, <1>7, <1>8, <1>9 DEF ListsInOrder

(* The words have their types, and heap.stacks and heap.liveness-trackers   *)
(* name every stack and every tracker in use that has a value, each once,   *)
(* and those of the nursery first, as copy-stacks and                       *)
(* update-liveness-trackers expect it (core.stanza:2352, 2399).             *)
THEOREM TypesAndLists == Spec => []WellFormed
<1>1. Inv /\ PendingOK => WellFormed
  <2> SUFFICES ASSUME Inv, PendingOK PROVE TypeOK /\ ListsInOrder
    BY DEF WellFormed
  <2>1. CASE phase = "run"
    BY <2>1, InvTypeOK, InvListsInOrder
  <2>2. CASE phase # "run"
    BY <2>2, InvTypeOK DEF ListsInOrder
  <2> QED BY <2>1, <2>2
<1> QED BY <1>1, InvHolds, PTL

(* While the program runs, the remembered set has the bit of every slot of  *)
(* an old object that refers into the nursery: the write barrier misses     *)
(* none and no collection clears one that is still needed.  Nor has it the  *)
(* bit of a word that is no slot.                                           *)
THEOREM RememberedSetHolds == Spec => []RememberedSet
<1>1. Inv => RememberedSet
  <2> SUFFICES ASSUME Inv, phase = "run" PROVE RememberedSet
    BY DEF RememberedSet, WriteBarrier, BitsOnSlots
  <2> DEFINE O == Objs(mem, oldEnd, Start1, limit)
  <2>1. /\ Program1(mem, oldEnd, Start1, limit, var, frame, stacks, trackers, bits)
        /\ Layout(mem, oldEnd, Start1, limit) /\ Fields(mem, oldEnd, Start1, limit, O)
        /\ Barriers(bits, mem, oldEnd, Start1, limit) /\ oldEnd \in Nat
    BY RunIs
  <2>2. AllObjects = O
    BY ObjectsAre DEF Copying
  <2>3. BitsOnSlots
    BY <2>1, <2>2 DEF BitsOnSlots, Program1, BitsIn
  <2>4. ASSUME NEW a \in Objects(mem, 0, oldEnd), NEW c \in Range(Slots(mem, a)),
               mem[c].k = "ref", mem[c].v >= oldEnd
        PROVE  c \in bits
    <3>1. a \in O /\ a < oldEnd
      BY <2>1, <2>2 DEF AllObjects, Objects
    <3>2. mem[c].v \in O
      BY <2>1, <2>4, <3>1 DEF Fields, Value
    <3>3. mem[c].v \in Nat
      BY <2>1, <3>2, ObjectIs
    <3>4. oldEnd <= mem[c].v
      BY <2>1, <2>4, <3>3
    <3> QED BY <2>1, <2>4, <3>1, <3>4 DEF Barriers
  <2> QED BY <2>3, <2>4 DEF RememberedSet, WriteBarrier
<1> QED BY <1>1, InvHolds, PTL

(* The copies of an evacuation never reach the nursery that it copies from, *)
(* whatever survives: reserving half of the free space is enough.           *)
THEOREM ToSpaceSuffices == Spec => []ToSpaceFits
<1>1. Inv => ToSpaceFits
  <2> SUFFICES ASSUME Inv, phase \in Copying \cup {"evacuated"} PROVE top <= from
    BY DEF ToSpaceFits, Copying
  <2>1. CASE phase \in Copying
    BY <2>1 DEF Inv, CopyInv, CopyState, Layout
  <2>2. CASE phase = "evacuated"
    BY <2>2 DEF Inv, RunInv, Copying
  <2> QED BY <2>1, <2>2
<1> QED BY <1>1, InvHolds, PTL

(* extend-heap gives up only when the heap has the size it is limited to,   *)
(* or for a request that no heap can hold, also after notifiers have taken  *)
(* what the first collection freed.                                         *)
THEOREM OutOfMemoryRightly == Spec => []OutOfMemoryOnlyAtLimit
<1>1. Inv => OutOfMemoryOnlyAtLimit
  BY DEF Inv, RunInv, Copying, Beyond, OutOfMemoryOnlyAtLimit
<1> QED BY <1>1, InvHolds, PTL
=============================================================================
