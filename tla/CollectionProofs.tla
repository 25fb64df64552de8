-------------------------- MODULE CollectionProofs --------------------------
(***************************************************************************)
(* A collection: MarkCompact, and the Finalizers that its notifier runs.   *)
(*                                                                         *)
(* MarkCompact.  Whatever heap marking ends with, each phase leaves every  *)
(* word that matters with the value it had, the one it will have, or on    *)
(* the list in the header of the object it refers to; so the program finds *)
(* its objects, variables and lists as they were.  The invariant has one   *)
(* predicate for each phase; the lemmas about steps are about memories b   *)
(* (before the collection), m (before the step) and m1 (after it).         *)
(*                                                                         *)
(* Finalizers.  As long as no collection has begun inside the notifiers of *)
(* another, every handler is listed once until it is run, once, and the    *)
(* notifiers find every element they read.  Where they are nested this is  *)
(* false; only the types are claimed then.                                 *)
(***************************************************************************)
EXTENDS MarkCompact, Finalizers, FiniteSetTheorems, TLAPS

(* A set of naturals has a least element.                                   *)
LEMMA LeastNatural ==
  ASSUME NEW S, S \subseteq Nat, S # {}
  PROVE  \E m \in S : \A j \in S : m <= j
<1>1. PICK m \in S : \A j \in S : <<j, m>> \notin OpToRel(<, Nat)
  BY NatLessThanWellFounded, WFMin
<1>2. \A j \in S : ~(j < m)
  BY <1>1 DEF OpToRel
<1> QED BY <1>2
-----------------------------------------------------------------------------
(* The heap when marking ended, as a record b = [mem, marks, stacks,        *)
(* trackers]: before is one.  Its live words and where they go.             *)
Words(b, a) == AllocationSize(b.mem, a)
IsLive(b, c) == \E a \in b.marks : a <= c /\ c < a + Words(b, a)
LiveBelow(b, a) == {c \in 0 .. a - 1 : \E x \in b.marks : x <= c /\ c < x + AllocationSize(b.mem, x)}
New(b, a) == Cardinality(LiveBelow(b, a))

ObjectAt(b, a) ==
  /\ a \in Nat /\ Tag(b.mem, a) \in Tags /\ b.mem[a] = Hdr(Tag(b.mem, a), 0)
  /\ a .. a + Words(b, a) - 1 \subseteq DOMAIN b.mem
  /\ \A c \in a + 1 .. a + Words(b, a) - 1 : b.mem[c].k # "hdr"

Injective(s) == \A i, j \in DOMAIN s : s[i] = s[j] => i = j

Facts(b) ==
  /\ DOMAIN b.mem \subseteq Int /\ Cells \subseteq DOMAIN b.mem
  /\ \A c \in DOMAIN b.mem : b.mem[c] \in [k : Kinds, v : Int \cup Tags, off : {0}]
  /\ \A a \in b.marks \cup Range(b.trackers) : ObjectAt(b, a)
  /\ \A a, c \in b.marks : Tag(b.mem, a) = Tag(b.mem, c) => a = c
  /\ Closed(b.mem, b.marks)
  /\ b.stacks \in Seq(Nat) /\ Injective(b.stacks)
  /\ Range(b.stacks) = {a \in b.marks : Tag(b.mem, a) \in Stacks}
  /\ Linked(b.mem, StacksHead, 1, b.stacks, DOMAIN b.stacks)
  /\ b.trackers \in Seq(Nat) /\ Injective(b.trackers)
  /\ \A a \in Range(b.trackers) : Tag(b.mem, a) \in Trackers
  /\ Linked(b.mem, TrackersHead, 2, b.trackers, DOMAIN b.trackers)
  /\ \A i \in DOMAIN b.trackers : b.mem[b.trackers[i] + 1].k = "ref"
  /\ \A a \in b.marks : Tag(b.mem, a) \in Trackers /\ b.mem[a + 1].k = "ref" => a \in Range(b.trackers)
-----------------------------------------------------------------------------
(* A new address is a natural number.                                       *)
LEMMA NewIs ==
  ASSUME NEW b, NEW a \in Int
  PROVE  IsFiniteSet(LiveBelow(b, a)) /\ New(b, a) \in Nat
<1>1. IsFiniteSet(0 .. a - 1)
  BY FS_Interval
<1>2. IsFiniteSet(LiveBelow(b, a))
  BY <1>1, FS_Subset DEF LiveBelow
<1> QED BY <1>2, FS_CardinalityType DEF New

(* Address 0 stays where it is.                                             *)
LEMMA NewZero ==
  ASSUME NEW b
  PROVE  New(b, 0) = 0
<1>1. LiveBelow(b, 0) = {}
  BY DEF LiveBelow
<1> QED BY <1>1, FS_EmptySet DEF New

(* Between two addresses, the new one grows by the live words that lie      *)
(* between them.                                                            *)
LEMMA NewSplit ==
  ASSUME NEW b, NEW x \in Nat, NEW y \in Nat, x <= y
  PROVE  LET S == {c \in x .. y - 1 : IsLive(b, c)} IN
         /\ IsFiniteSet(S) /\ Cardinality(S) \in Nat /\ Cardinality(S) <= y - x
         /\ New(b, y) = New(b, x) + Cardinality(S)
<1> DEFINE S == {c \in x .. y - 1 : IsLive(b, c)}
<1>1. IsFiniteSet(x .. y - 1) /\ Cardinality(x .. y - 1) = y - x
  <2>1. x \in Int /\ y - 1 \in Int
    OBVIOUS
  <2>2. /\ IsFiniteSet(x .. y - 1)
        /\ Cardinality(x .. y - 1) = IF x > y - 1 THEN 0 ELSE (y - 1) - x + 1
    BY <2>1, FS_Interval
  <2> QED BY <2>2
<1>2. IsFiniteSet(S) /\ Cardinality(S) <= y - x
  <2>1. S \in SUBSET (x .. y - 1)
    OBVIOUS
  <2> HIDE DEF S
  <2> QED BY <1>1, <2>1, FS_Subset
<1>3. LiveBelow(b, y) = LiveBelow(b, x) \cup S /\ LiveBelow(b, x) \cap S = {}
  BY DEF LiveBelow, IsLive, Words
<1>4. Cardinality(S) \in Nat
  BY <1>2, FS_CardinalityType
<1> HIDE DEF S
<1>5. IsFiniteSet(LiveBelow(b, x)) /\ New(b, x) \in Nat
  BY NewIs
<1>6. Cardinality(LiveBelow(b, x) \cup S)
        = Cardinality(LiveBelow(b, x)) + Cardinality(S) - Cardinality(LiveBelow(b, x) \cap S)
  BY <1>2, <1>5, FS_Union
<1>7. Cardinality({}) = 0
  BY FS_EmptySet
<1>8. New(b, y) = New(b, x) + Cardinality(S)
  <2>1. New(b, y) = Cardinality(LiveBelow(b, x) \cup S)
    BY <1>3 DEF New
  <2>2. New(b, x) = Cardinality(LiveBelow(b, x))
    BY DEF New
  <2>3. Cardinality(LiveBelow(b, x) \cap S) = 0
    BY <1>3, <1>7
  <2> QED BY <1>4, <1>5, <1>6, <2>1, <2>2, <2>3
<1> QED BY <1>2, <1>4, <1>8 DEF S

(* Over words that are live an address and its new one move together; over  *)
(* dead ones the new address stands still.                                  *)
LEMMA NewOverLive ==
  ASSUME NEW b, NEW x \in Nat, NEW y \in Nat, x <= y, \A c \in x .. y - 1 : IsLive(b, c)
  PROVE  New(b, y) = New(b, x) + (y - x)
<1> DEFINE S == {c \in x .. y - 1 : IsLive(b, c)}
<1>1. New(b, y) = New(b, x) + Cardinality(S)
  BY NewSplit
<1>2. S = x .. y - 1
  OBVIOUS
<1>3. Cardinality(x .. y - 1) = y - x
  <2>1. x \in Int /\ y - 1 \in Int
    OBVIOUS
  <2>2. Cardinality(x .. y - 1) = IF x > y - 1 THEN 0 ELSE (y - 1) - x + 1
    BY <2>1, FS_Interval
  <2> QED BY <2>2
<1> QED BY <1>1, <1>2, <1>3

(* Over dead words the new address stands still.                            *)
LEMMA NewOverDead ==
  ASSUME NEW b, NEW x \in Nat, NEW y \in Nat, x <= y, \A c \in x .. y - 1 : ~IsLive(b, c)
  PROVE  New(b, y) = New(b, x)
<1> DEFINE S == {c \in x .. y - 1 : IsLive(b, c)}
<1>1. New(b, y) = New(b, x) + Cardinality(S)
  BY NewSplit
<1>2. S = {}
  OBVIOUS
<1>3. New(b, x) \in Nat
  BY NewIs
<1> QED BY <1>1, <1>2, <1>3, FS_EmptySet

(* New addresses keep the order of the old ones, and never grow faster.     *)
LEMMA NewMonotone ==
  ASSUME NEW b, NEW x \in Nat, NEW y \in Nat, x <= y
  PROVE  /\ New(b, x) <= New(b, y) /\ New(b, y) <= New(b, x) + (y - x)
         /\ x < y /\ IsLive(b, x) => New(b, x) < New(b, y)
         /\ x < y /\ ~IsLive(b, x) => New(b, y) < New(b, x) + (y - x)
<1>0. New(b, x) \in Nat /\ New(b, y) \in Nat /\ New(b, x + 1) \in Nat
  BY NewIs
<1>1. /\ New(b, x) <= New(b, y) /\ New(b, y) <= New(b, x) + (y - x)
  <2> DEFINE S == {c \in x .. y - 1 : IsLive(b, c)}
  <2>1. Cardinality(S) \in Nat /\ Cardinality(S) <= y - x /\ New(b, y) = New(b, x) + Cardinality(S)
    BY NewSplit
  <2> HIDE DEF S
  <2> QED BY <2>1, <1>0
<1>2. ASSUME x < y
      PROVE  New(b, x + 1) <= New(b, y) /\ New(b, y) <= New(b, x + 1) + (y - (x + 1))
  <2> DEFINE S == {c \in x + 1 .. y - 1 : IsLive(b, c)}
  <2>1. Cardinality(S) \in Nat /\ Cardinality(S) <= y - (x + 1) /\ New(b, y) = New(b, x + 1) + Cardinality(S)
    <3>1. x + 1 \in Nat /\ x + 1 <= y
      BY <1>2
    <3> QED BY <3>1, NewSplit
  <2> HIDE DEF S
  <2> QED BY <2>1, <1>0
<1>3. IsLive(b, x) => New(b, x + 1) = New(b, x) + 1
  <2> SUFFICES ASSUME IsLive(b, x) PROVE New(b, x + 1) = New(b, x) + 1
    OBVIOUS
  <2>1. \A c \in x .. (x + 1) - 1 : IsLive(b, c)
    OBVIOUS
  <2>2. New(b, x + 1) = New(b, x) + ((x + 1) - x)
    BY <2>1, NewOverLive
  <2> QED BY <2>2, <1>0
<1>4. ~IsLive(b, x) => New(b, x + 1) = New(b, x)
  <2> SUFFICES ASSUME ~IsLive(b, x) PROVE New(b, x + 1) = New(b, x)
    OBVIOUS
  <2>1. \A c \in x .. (x + 1) - 1 : ~IsLive(b, c)
    OBVIOUS
  <2> QED BY <2>1, NewOverDead
<1> QED BY <1>0, <1>1, <1>2, <1>3, <1>4

(* The new addresses of the live words below y are 0, 1, ..., New(b, y) - 1. *)
LEMMA NewOnto ==
  ASSUME NEW b, NEW y \in Nat, NEW n \in Nat, n < New(b, y)
  PROVE  \E c \in 0 .. y - 1 : IsLive(b, c) /\ New(b, c) = n
<1> DEFINE S == {a \in 0 .. y : New(b, a) > n}
<1>1. S \subseteq Nat /\ y \in S
  OBVIOUS
<1>2. PICK a \in S : \A j \in S : a <= j
  <2> HIDE DEF S
  <2> QED BY <1>1, LeastNatural
<1>3. a # 0
  BY <1>2, NewZero
<1>4. a \in 0 .. y /\ New(b, a) > n /\ a - 1 \in Nat /\ a - 1 \in 0 .. y - 1
  BY <1>2, <1>3
<1>5. New(b, a - 1) <= n
  <2>1. a - 1 \notin S
    BY <1>2, <1>4
  <2>2. New(b, a - 1) \in Nat
    BY <1>4, NewIs
  <2> QED BY <2>1, <2>2, <1>4
<1>6. New(b, a - 1) \in Nat /\ New(b, a) \in Nat
  BY <1>4, NewIs
<1>7. New(b, a) <= New(b, a - 1) + (a - (a - 1))
  BY <1>4, NewMonotone
<1>8. New(b, a - 1) = n
  BY <1>4, <1>5, <1>6, <1>7
<1>9. IsLive(b, a - 1)
  <2> SUFFICES ASSUME ~IsLive(b, a - 1) PROVE FALSE
    OBVIOUS
  <2>1. New(b, a) < New(b, a - 1) + (a - (a - 1))
    BY <1>4, NewMonotone
  <2> QED BY <2>1, <1>4, <1>6, <1>8
<1> QED BY <1>4, <1>8, <1>9
-----------------------------------------------------------------------------
(* The objects that were marked and those on the list of the trackers lie   *)
(* apart from each other.                                                   *)
LEMMA ObjectShape ==
  ASSUME NEW b, Facts(b), NEW a \in b.marks \cup Range(b.trackers)
  PROVE  /\ a \in Nat /\ Words(b, a) \in Nat /\ Words(b, a) > 0
         /\ a \in DOMAIN b.mem
         /\ Tag(b.mem, a) \in Tags
         /\ \A i \in RefSlots[Tag(b.mem, a)] : i \in Nat /\ 0 < i /\ i < Words(b, a)
         /\ Tag(b.mem, a) \in Stacks => Words(b, a) > 1 /\ 1 \notin RefSlots[Tag(b.mem, a)] /\ Tag(b.mem, a) \notin Trackers
         /\ Tag(b.mem, a) \in Trackers =>
              Words(b, a) > 2 /\ 1 \notin RefSlots[Tag(b.mem, a)] /\ 2 \notin RefSlots[Tag(b.mem, a)]
         /\ \A i \in 0 .. Words(b, a) - 1 : a + i \in DOMAIN b.mem
<1>1. ObjectAt(b, a)
  BY DEF Facts
<1>2. Words(b, a) = ObjectSize[Tag(b.mem, a)] /\ Tag(b.mem, a) \in Tags /\ a \in Nat
  BY <1>1 DEF ObjectAt, Words, AllocationSize
<1>3. Words(b, a) \in Nat /\ Words(b, a) > 0
  BY <1>2, ShapesAssumption
<1>4. \A i \in 0 .. Words(b, a) - 1 : a + i \in DOMAIN b.mem
  <2> TAKE i \in 0 .. Words(b, a) - 1
  <2>1. a + i \in a .. a + Words(b, a) - 1
    BY <1>2, <1>3
  <2> QED BY <2>1, <1>1 DEF ObjectAt
<1>5. a + 0 \in DOMAIN b.mem
  BY <1>3, <1>4
<1>6. a \in DOMAIN b.mem
  BY <1>5, <1>2
<1>7. \A i \in RefSlots[Tag(b.mem, a)] : i \in Nat /\ 0 < i /\ i < Words(b, a)
  BY <1>2, ShapesAssumption
<1>8. Tag(b.mem, a) \in Stacks => Words(b, a) > 1 /\ 1 \notin RefSlots[Tag(b.mem, a)] /\ Tag(b.mem, a) \notin Trackers
  BY <1>2, ShapesAssumption
<1>9. Tag(b.mem, a) \in Trackers =>
        Words(b, a) > 2 /\ 1 \notin RefSlots[Tag(b.mem, a)] /\ 2 \notin RefSlots[Tag(b.mem, a)]
  BY <1>2, ShapesAssumption
<1> QED BY <1>2, <1>3, <1>4, <1>6, <1>7, <1>8, <1>9

(* No word belongs to two objects.                                          *)
LEMMA ObjectsApart ==
  ASSUME NEW b, Facts(b),
         NEW a \in b.marks \cup Range(b.trackers), NEW c \in b.marks \cup Range(b.trackers),
         NEW x \in Int, a <= x, x < a + Words(b, a), c <= x, x < c + Words(b, c)
  PROVE  a = c
<1>1. ObjectAt(b, a) /\ ObjectAt(b, c)
  BY DEF Facts
<1>2. /\ a \in Nat /\ Words(b, a) \in Nat /\ c \in Nat /\ Words(b, c) \in Nat
      /\ b.mem[a].k = "hdr" /\ b.mem[c].k = "hdr"
  <2>1. a \in Nat /\ Words(b, a) \in Nat /\ c \in Nat /\ Words(b, c) \in Nat
    BY ObjectShape
  <2> QED BY <2>1, <1>1 DEF ObjectAt, Hdr
<1>3. ~(a < c)
  <2> SUFFICES ASSUME a < c PROVE FALSE
    OBVIOUS
  <2>1. c \in a + 1 .. a + Words(b, a) - 1
    BY <1>2
  <2> QED BY <2>1, <1>1, <1>2 DEF ObjectAt
<1>4. ~(c < a)
  <2> SUFFICES ASSUME c < a PROVE FALSE
    OBVIOUS
  <2>1. a \in c + 1 .. c + Words(b, c) - 1
    BY <1>2
  <2> QED BY <2>1, <1>1, <1>2 DEF ObjectAt
<1> QED BY <1>2, <1>3, <1>4

(* A live word is a word of the heap.                                       *)
LEMMA LiveWordIs ==
  ASSUME NEW b, Facts(b), NEW c, IsLive(b, c), c \in Int
  PROVE  c \in Nat /\ c \in DOMAIN b.mem
<1>1. PICK a \in b.marks : a <= c /\ c < a + Words(b, a)
  BY DEF IsLive
<1>2. a \in Nat /\ Words(b, a) \in Nat /\ \A i \in 0 .. Words(b, a) - 1 : a + i \in DOMAIN b.mem
  BY ObjectShape
<1>3. c - a \in 0 .. Words(b, a) - 1 /\ a + (c - a) = c /\ c \in Nat
  BY <1>1, <1>2
<1> QED BY <1>2, <1>3

(* The words of a marked object are live.                                   *)
LEMMA WordsLive ==
  ASSUME NEW b, Facts(b), NEW a \in b.marks, NEW i \in 0 .. Words(b, a) - 1
  PROVE  a + i \in Nat /\ IsLive(b, a + i)
<1>1. a \in Nat /\ Words(b, a) \in Nat
  BY ObjectShape
<1> QED BY <1>1 DEF IsLive

(* A live object moves as a whole.                                          *)
LEMMA NewInside ==
  ASSUME NEW b, Facts(b), NEW a \in b.marks, NEW i \in 0 .. Words(b, a)
  PROVE  New(b, a + i) = New(b, a) + i
<1>1. a \in Nat /\ Words(b, a) \in Nat
  BY ObjectShape
<1>2. \A c \in a .. (a + i) - 1 : IsLive(b, c)
  BY <1>1 DEF IsLive
<1>3. New(b, a + i) = New(b, a) + ((a + i) - a)
  <2>1. a \in Nat /\ a + i \in Nat /\ a <= a + i
    BY <1>1
  <2> QED BY <2>1, <1>2, NewOverLive
<1> QED BY <1>1, <1>3
-----------------------------------------------------------------------------
(* The trackers that stay on their list, and the cells that matter: those   *)
(* that hold a reference to relocate, those that hold a link of a list.     *)
Kept(b) == {i \in DOMAIN b.trackers :
              b.trackers[i] \in b.marks /\ b.mem[b.trackers[i] + 1].v \in b.marks}
TrackerCell(b, i) == LinkCell(TrackersHead, 2, b.trackers, i)
StackCell(b, i) == LinkCell(StacksHead, 1, b.stacks, i)
TrackerLinks(b) == {TrackerCell(b, i) : i \in Kept(b) \cup {0}}
StackLinks(b) == {StackCell(b, i) : i \in DOMAIN b.stacks \cup {0}}
KeptValues(b) == {b.trackers[i] + 1 : i \in Kept(b)}
ClearedValues(b) == {b.trackers[i] + 1 : i \in {j \in DOMAIN b.trackers \ Kept(b) : b.trackers[j] \in b.marks}}
SlotCells(b) == UNION {Slots(b.mem, a) : a \in b.marks}
FramesOf(b, i) == FrameCells[Tag(b.mem, b.stacks[i])]
VarCells(b) == RootCells \cup UNION {FramesOf(b, i) : i \in DOMAIN b.stacks}
RefCells(b) == SlotCells(b) \cup VarCells(b) \cup KeptValues(b)
LinkCells(b) == TrackerLinks(b) \cup StackLinks(b)
Settled(b) == {c \in DOMAIN b.mem : IsLive(b, c)} \cup Cells

(* A word when the trackers have been scanned, and when it is relocated.    *)
Orig(b, c) ==
  IF c \in TrackerLinks(b)
  THEN Ptr(NextLink(b.trackers, Kept(b), CHOOSE i \in Kept(b) \cup {0} : c = TrackerCell(b, i)))
  ELSE IF c \in ClearedValues(b) THEN FalseMarker ELSE b.mem[c]
NewRef(b, w) == IF w.k = "ref" THEN Ref(New(b, w.v)) ELSE w
NewPtr(b, w) == IF w.v = Null THEN w ELSE Ptr(New(b, w.v - 1) + 1)
Final(b, c) ==
  IF c \in RefCells(b) THEN NewRef(b, Orig(b, c))
  ELSE IF c \in LinkCells(b) THEN NewPtr(b, Orig(b, c))
  ELSE Orig(b, c)

(* The word of an object at distance i from its header.                     *)
LEMMA PlaceIs ==
  ASSUME NEW b, Facts(b), NEW a \in b.marks \cup Range(b.trackers), NEW c \in b.marks \cup Range(b.trackers),
         NEW i \in 0 .. Words(b, a) - 1, NEW j \in 0 .. Words(b, c) - 1, a + i = c + j
  PROVE  a = c /\ i = j
<1>1. a \in Nat /\ Words(b, a) \in Nat /\ c \in Nat /\ Words(b, c) \in Nat
  BY ObjectShape
<1>2. a = c
  <2>1. a + i \in Int /\ a <= a + i /\ a + i < a + Words(b, a) /\ c <= a + i /\ a + i < c + Words(b, c)
    BY <1>1
  <2> QED BY <2>1, ObjectsApart
<1> QED BY <1>1, <1>2

(* A slot of a reference lies in one marked object, behind its header.      *)
LEMMA SlotIs ==
  ASSUME NEW b, Facts(b), NEW c \in SlotCells(b)
  PROVE  \E a \in b.marks : \E i \in RefSlots[Tag(b.mem, a)] :
           c = a + i /\ i \in 1 .. Words(b, a) - 1
<1>1. PICK a \in b.marks : c \in Slots(b.mem, a)
  BY DEF SlotCells
<1>2. PICK i \in RefSlots[Tag(b.mem, a)] : c = a + i
  BY <1>1 DEF Slots
<1>3. i \in 1 .. Words(b, a) - 1
  BY ObjectShape
<1> QED BY <1>2, <1>3

(* The shape of a tracker on the list.                                      *)
LEMMA TrackerIs ==
  ASSUME NEW b, Facts(b), NEW i \in DOMAIN b.trackers
  PROVE  /\ b.trackers[i] \in Range(b.trackers) /\ b.trackers[i] \in Nat
         /\ i \in Nat /\ i # 0
         /\ Tag(b.mem, b.trackers[i]) \in Trackers
         /\ 1 \in 0 .. Words(b, b.trackers[i]) - 1 /\ 2 \in 0 .. Words(b, b.trackers[i]) - 1
         /\ TrackerCell(b, i) = b.trackers[i] + 2
         /\ b.mem[b.trackers[i] + 1].k = "ref"
<1>1. b.trackers[i] \in Range(b.trackers)
  BY DEF Range
<1>2. i \in Nat /\ i # 0 /\ b.trackers[i] \in Nat
  BY DEF Facts
<1>3. Tag(b.mem, b.trackers[i]) \in Trackers
  BY <1>1 DEF Facts
<1>4. Words(b, b.trackers[i]) \in Nat /\ Words(b, b.trackers[i]) > 2
  BY <1>1, <1>3, ObjectShape
<1>5. b.mem[b.trackers[i] + 1].k = "ref"
  BY DEF Facts
<1> QED BY <1>1, <1>2, <1>3, <1>4, <1>5 DEF TrackerCell, LinkCell

(* The shape of a stack on the list.                                        *)
LEMMA StackIs ==
  ASSUME NEW b, Facts(b), NEW i \in DOMAIN b.stacks
  PROVE  /\ b.stacks[i] \in b.marks /\ b.stacks[i] \in Nat
         /\ i \in Nat /\ i # 0
         /\ Tag(b.mem, b.stacks[i]) \in Stacks
         /\ 1 \in 0 .. Words(b, b.stacks[i]) - 1
         /\ StackCell(b, i) = b.stacks[i] + 1
<1>1. b.stacks[i] \in Range(b.stacks)
  BY DEF Range
<1>2. b.stacks[i] \in b.marks /\ Tag(b.mem, b.stacks[i]) \in Stacks
  BY <1>1 DEF Facts
<1>3. i \in Nat /\ i # 0 /\ b.stacks[i] \in Nat
  BY DEF Facts
<1>4. Words(b, b.stacks[i]) \in Nat /\ Words(b, b.stacks[i]) > 1
  BY <1>2, ObjectShape
<1> QED BY <1>2, <1>3, <1>4 DEF StackCell, LinkCell
-----------------------------------------------------------------------------
At(b, c, a, i) == a \in b.marks /\ i \in 0 .. Words(b, a) - 1 /\ c = a + i

(* At most one object and one distance from its header belong to a word.    *)
LEMMA AtIs ==
  ASSUME NEW b, Facts(b), NEW c, NEW a, NEW i, At(b, c, a, i)
  PROVE  c \in Nat /\ c \in Settled(b) /\ IsLive(b, c) /\ c \in DOMAIN b.mem
         /\ \A x, j : At(b, c, x, j) => x = a /\ j = i
<1>1. a \in Nat /\ Words(b, a) \in Nat /\ a + i \in DOMAIN b.mem
  BY ObjectShape DEF At
<1>2. c \in Nat /\ c \in DOMAIN b.mem /\ IsLive(b, c)
  BY <1>1, WordsLive DEF At
<1>3. c \in Settled(b)
  BY <1>2 DEF Settled
<1>4. \A x, j : At(b, c, x, j) => x = a /\ j = i
  BY PlaceIs DEF At
<1> QED BY <1>2, <1>3, <1>4

(* Where in an object each kind of cell is.                                 *)
LEMMA SetsAt ==
  ASSUME NEW b, Facts(b)
  PROVE  /\ \A c \in SlotCells(b) : \E a, i : At(b, c, a, i) /\ i \in RefSlots[Tag(b.mem, a)] /\ i # 0
         /\ \A c \in KeptValues(b) \cup ClearedValues(b) : \E a : At(b, c, a, 1) /\ Tag(b.mem, a) \in Trackers
         /\ \A c \in TrackerLinks(b) : c = TrackersHead \/ \E a : At(b, c, a, 2) /\ Tag(b.mem, a) \in Trackers
         /\ \A c \in StackLinks(b) : c = StacksHead \/ \E a : At(b, c, a, 1) /\ Tag(b.mem, a) \in Stacks
         /\ \A c \in b.marks : At(b, c, c, 0)
         /\ \A c \in VarCells(b) : c \in Int /\ c < 0 /\ c # StacksHead /\ c # TrackersHead /\ c \in Cells
<1>1. ASSUME NEW c \in SlotCells(b)
      PROVE  \E a, i : At(b, c, a, i) /\ i \in RefSlots[Tag(b.mem, a)] /\ i # 0
  <2>1. PICK a \in b.marks : \E i \in RefSlots[Tag(b.mem, a)] : c = a + i /\ i \in 1 .. Words(b, a) - 1
    BY SlotIs
  <2>2. PICK i \in RefSlots[Tag(b.mem, a)] : c = a + i /\ i \in 1 .. Words(b, a) - 1
    BY <2>1
  <2>3. Words(b, a) \in Nat
    BY ObjectShape
  <2>4. At(b, c, a, i) /\ i # 0
    BY <2>2, <2>3 DEF At
  <2> QED BY <2>2, <2>4
<1>2. ASSUME NEW c \in KeptValues(b) \cup ClearedValues(b)
      PROVE  \E a : At(b, c, a, 1) /\ Tag(b.mem, a) \in Trackers
  <2>1. PICK i \in DOMAIN b.trackers : c = b.trackers[i] + 1 /\ b.trackers[i] \in b.marks
    BY DEF KeptValues, ClearedValues, Kept
  <2>2. At(b, c, b.trackers[i], 1) /\ Tag(b.mem, b.trackers[i]) \in Trackers
    BY <2>1, TrackerIs DEF At
  <2> QED BY <2>2
<1>3. ASSUME NEW c \in TrackerLinks(b), c # TrackersHead
      PROVE  \E a : At(b, c, a, 2) /\ Tag(b.mem, a) \in Trackers
  <2>1. PICK i \in Kept(b) \cup {0} : c = TrackerCell(b, i)
    BY DEF TrackerLinks
  <2>2. i \in Kept(b)
    BY <1>3, <2>1 DEF TrackerCell, LinkCell
  <2>3. i \in DOMAIN b.trackers /\ b.trackers[i] \in b.marks
    BY <2>2 DEF Kept
  <2>4. At(b, c, b.trackers[i], 2) /\ Tag(b.mem, b.trackers[i]) \in Trackers
    BY <2>1, <2>3, TrackerIs DEF At
  <2> QED BY <2>4
<1>4. ASSUME NEW c \in StackLinks(b), c # StacksHead
      PROVE  \E a : At(b, c, a, 1) /\ Tag(b.mem, a) \in Stacks
  <2>1. PICK i \in DOMAIN b.stacks \cup {0} : c = StackCell(b, i)
    BY DEF StackLinks
  <2>2. i \in DOMAIN b.stacks
    BY <1>4, <2>1 DEF StackCell, LinkCell
  <2>4. At(b, c, b.stacks[i], 1) /\ Tag(b.mem, b.stacks[i]) \in Stacks
    BY <2>1, <2>2, StackIs DEF At
  <2> QED BY <2>4
<1>5. ASSUME NEW c \in b.marks
      PROVE  At(b, c, c, 0)
  <2>1. c \in Nat /\ Words(b, c) \in Nat /\ Words(b, c) > 0
    BY ObjectShape
  <2> QED BY <2>1 DEF At
<1>6. ASSUME NEW c \in VarCells(b)
      PROVE  c \in Int /\ c < 0 /\ c # StacksHead /\ c # TrackersHead /\ c \in Cells
  <2>1. CASE c \in RootCells
    BY <2>1, OutsideAssumption DEF Outside, Cells
  <2>2. CASE \E i \in DOMAIN b.stacks : c \in FramesOf(b, i)
    <3>1. PICK i \in DOMAIN b.stacks : c \in FramesOf(b, i)
      BY <2>2
    <3>2. Tag(b.mem, b.stacks[i]) \in Stacks
      BY StackIs
    <3> QED BY <3>1, <3>2, OutsideAssumption DEF FramesOf, Outside, Cells
  <2> QED BY <2>1, <2>2 DEF VarCells
<1> QED BY <1>1, <1>2, <1>3, <1>4, <1>5, <1>6

(* The heads of the two lists lie outside the heap.                         *)
LEMMA HeadsAre ==
  /\ StacksHead \in Int /\ StacksHead < 0 /\ TrackersHead \in Int /\ TrackersHead < 0
  /\ StacksHead # TrackersHead /\ StacksHead \in Cells /\ TrackersHead \in Cells
<1>1. {StacksHead, TrackersHead} \subseteq Outside \ RootCells /\ StacksHead # TrackersHead
  BY OutsideAssumption
<1>2. StacksHead \in Outside /\ TrackersHead \in Outside
  BY <1>1
<1>3. StacksHead \in Cells /\ TrackersHead \in Cells
  BY DEF Cells
<1> QED BY <1>1, <1>2, <1>3 DEF Outside

(* So do all variables.                                                     *)
LEMMA CellsOutside == \A c \in Cells : c \in Int /\ c < 0
<1>0. FrameCells \in [Stacks -> SUBSET Outside] /\ RootCells \subseteq Outside
  BY OutsideAssumption
<1>1. \A s \in Stacks : FrameCells[s] \in SUBSET Outside
  BY <1>0
<1>2. \A c \in Outside : c \in Int /\ c < 0
  BY DEF Outside
<1>3. ASSUME NEW c \in Cells PROVE c \in Outside
  <2>1. CASE c \in RootCells
    BY <2>1, <1>0
  <2>2. CASE \E s \in Stacks : c \in FrameCells[s]
    BY <2>2, <1>1
  <2>3. CASE c = StacksHead \/ c = TrackersHead
    BY <2>3, HeadsAre DEF Outside
  <2> QED BY <2>1, <2>2, <2>3 DEF Cells
<1> QED BY <1>2, <1>3

(* The cells that matter are settled: variables, or words of live objects.  *)
LEMMA SettledIs ==
  ASSUME NEW b, Facts(b)
  PROVE  /\ RefCells(b) \subseteq Settled(b) /\ LinkCells(b) \subseteq Settled(b) /\ b.marks \subseteq Settled(b)
         /\ ClearedValues(b) \subseteq Settled(b)
         /\ Settled(b) \subseteq DOMAIN b.mem /\ Settled(b) \subseteq Int
<1>1. \A c \in SlotCells(b) \cup KeptValues(b) \cup ClearedValues(b) \cup b.marks : c \in Settled(b)
  BY SetsAt, AtIs
<1>2. \A c \in VarCells(b) : c \in Settled(b)
  BY SetsAt DEF Settled
<1>3. \A c \in LinkCells(b) : c \in Settled(b)
  BY SetsAt, AtIs, HeadsAre DEF LinkCells, Settled
<1>4. Settled(b) \subseteq DOMAIN b.mem /\ DOMAIN b.mem \subseteq Int
  BY DEF Settled, Facts
<1> QED BY <1>1, <1>2, <1>3, <1>4 DEF RefCells

(* No cell holds two of: a reference, a link, a cleared value, a header.    *)
LEMMA RefCellsApart ==
  ASSUME NEW b, Facts(b), NEW c \in RefCells(b)
  PROVE  c \notin LinkCells(b) /\ c \notin ClearedValues(b) /\ c \notin b.marks
<1>1. CASE c \in SlotCells(b)
  <2>1. PICK a, i : At(b, c, a, i) /\ i \in RefSlots[Tag(b.mem, a)] /\ i # 0
    BY <1>1, SetsAt
  <2>2. a \in b.marks
    BY <2>1 DEF At
  <2>3. Tag(b.mem, a) \in Stacks => i # 1
    BY <2>1, <2>2, ObjectShape
  <2>4. Tag(b.mem, a) \in Trackers => i # 1 /\ i # 2
    BY <2>1, <2>2, ObjectShape
  <2>5. c \in Nat /\ \A x, j : At(b, c, x, j) => x = a /\ j = i
    BY <2>1, AtIs
  <2>6. c # StacksHead /\ c # TrackersHead
    BY <2>5, HeadsAre
  <2>7. c \notin LinkCells(b)
    BY <2>3, <2>4, <2>5, <2>6, SetsAt DEF LinkCells
  <2>8. c \notin ClearedValues(b)
    BY <2>4, <2>5, SetsAt
  <2>9. c \notin b.marks
    BY <2>1, <2>5, SetsAt
  <2> QED BY <2>7, <2>8, <2>9
<1>2. CASE c \in VarCells(b)
  <2>1. c \in Int /\ c < 0 /\ c # StacksHead /\ c # TrackersHead
    BY <1>2, SetsAt
  <2>2. \A a, i : ~At(b, c, a, i)
    BY <2>1, AtIs
  <2> QED BY <2>1, <2>2, SetsAt DEF LinkCells
<1>3. CASE c \in KeptValues(b)
  <2>1. PICK k \in Kept(b) : c = b.trackers[k] + 1
    BY <1>3 DEF KeptValues
  <2>2. PICK a : At(b, c, a, 1) /\ Tag(b.mem, a) \in Trackers
    BY <1>3, SetsAt
  <2>3. c \in Nat /\ \A x, j : At(b, c, x, j) => x = a /\ j = 1
    BY <2>2, AtIs
  <2>4. a \in b.marks
    BY <2>2 DEF At
  <2>5. Tag(b.mem, a) \notin Stacks
    BY <2>2, <2>4, ObjectShape
  <2>6. c \notin LinkCells(b)
    BY <2>3, <2>5, SetsAt, HeadsAre DEF LinkCells
  <2>7. c \notin b.marks
    BY <2>3, SetsAt
  <2>8. c \notin ClearedValues(b)
    <3> SUFFICES ASSUME c \in ClearedValues(b) PROVE FALSE
      OBVIOUS
    <3>1. PICK j \in DOMAIN b.trackers : j \notin Kept(b) /\ c = b.trackers[j] + 1
      BY DEF ClearedValues
    <3>2. k \in DOMAIN b.trackers
      BY DEF Kept
    <3>3. b.trackers[j] \in Nat /\ b.trackers[k] \in Nat
      BY <3>1, <3>2, TrackerIs
    <3>4. b.trackers[j] = b.trackers[k]
      BY <2>1, <3>1, <3>3
    <3>5. j = k
      BY <3>1, <3>2, <3>4 DEF Facts, Injective
    <3> QED BY <3>1, <3>5
  <2> QED BY <2>6, <2>7, <2>8
<1> QED BY <1>1, <1>2, <1>3 DEF RefCells

(* No link of one list is a cleared value, a header, a reference or a link  *)
(* of the other.                                                            *)
LEMMA LinkCellsApart ==
  ASSUME NEW b, Facts(b), NEW c \in LinkCells(b)
  PROVE  /\ c \notin ClearedValues(b) /\ c \notin b.marks /\ c \notin RefCells(b)
         /\ c \notin TrackerLinks(b) \/ c \notin StackLinks(b)
<1>1. c \notin RefCells(b)
  BY RefCellsApart
<1>2. CASE c \in Cells
  <2>1. c \in Int /\ c < 0
    BY <1>2, CellsOutside
  <2>2. \A a, i : ~At(b, c, a, i)
    BY <2>1, AtIs
  <2> QED BY <1>1, <2>1, <2>2, SetsAt, HeadsAre DEF LinkCells
<1>3. CASE c \notin Cells
  <2>1. PICK a, i : At(b, c, a, i) /\ ((i = 2 /\ Tag(b.mem, a) \in Trackers) \/ (i = 1 /\ Tag(b.mem, a) \in Stacks))
    BY <1>3, SetsAt, HeadsAre DEF LinkCells
  <2>2. \A x, j : At(b, c, x, j) => x = a /\ j = i
    BY <2>1, AtIs
  <2>3. a \in b.marks
    BY <2>1 DEF At
  <2>4. Tag(b.mem, a) \in Stacks => Tag(b.mem, a) \notin Trackers
    BY <2>3, ObjectShape
  <2>5. c \notin ClearedValues(b)
    BY <2>1, <2>2, <2>4, SetsAt
  <2>6. c \notin b.marks
    BY <2>1, <2>2, SetsAt
  <2>7. c \notin TrackerLinks(b) \/ c \notin StackLinks(b)
    BY <1>3, <2>1, <2>2, <2>4, SetsAt, HeadsAre
  <2> QED BY <1>1, <2>5, <2>6, <2>7
<1> QED BY <1>2, <1>3
-----------------------------------------------------------------------------
(* The words in these cells.                                                *)
LEMMA OrigRef ==
  ASSUME NEW b, Facts(b), NEW c \in RefCells(b)
  PROVE  /\ Orig(b, c) = b.mem[c] /\ Final(b, c) = NewRef(b, b.mem[c])
         /\ b.mem[c].k = "ref" => b.mem[c].v \in b.marks
<1>1. c \notin TrackerLinks(b) /\ c \notin ClearedValues(b)
  BY RefCellsApart DEF LinkCells
<1>2. Orig(b, c) = b.mem[c]
  BY <1>1 DEF Orig
<1>3. ASSUME b.mem[c].k = "ref" PROVE b.mem[c].v \in b.marks
  <2>0. Closed(b.mem, b.marks)
    BY DEF Facts
  <2>1. CASE c \in SlotCells(b)
    BY <2>0, <2>1, <1>3 DEF Closed, SlotCells
  <2>2. CASE c \in RootCells
    BY <2>0, <2>2, <1>3 DEF Closed
  <2>3. CASE \E i \in DOMAIN b.stacks : c \in FramesOf(b, i)
    <3>1. PICK i \in DOMAIN b.stacks : c \in FramesOf(b, i)
      BY <2>3
    <3>2. b.stacks[i] \in b.marks /\ Tag(b.mem, b.stacks[i]) \in Stacks
      BY StackIs
    <3> QED BY <2>0, <3>1, <3>2, <1>3 DEF Closed, FramesOf
  <2>4. CASE c \in KeptValues(b)
    BY <2>4 DEF KeptValues, Kept
  <2> QED BY <2>1, <2>2, <2>3, <2>4 DEF RefCells, VarCells
<1> QED BY <1>2, <1>3 DEF Final

(* The header of a marked object.                                           *)
LEMMA OrigHeader ==
  ASSUME NEW b, Facts(b), NEW a \in b.marks
  PROVE  /\ Orig(b, a) = Hdr(Tag(b.mem, a), 0) /\ Final(b, a) = Hdr(Tag(b.mem, a), 0)
         /\ b.mem[a] = Hdr(Tag(b.mem, a), 0)
<1>1. a \notin LinkCells(b)
  BY LinkCellsApart
<1>2. a \notin RefCells(b) /\ a \notin ClearedValues(b)
  <2>1. \A c \in ClearedValues(b) : \A x : ~At(b, c, x, 0)
    BY SetsAt, AtIs
  <2>2. At(b, a, a, 0)
    BY SetsAt
  <2> QED BY <2>1, <2>2, RefCellsApart
<1>3. ObjectAt(b, a)
  BY DEF Facts
<1> QED BY <1>1, <1>2, <1>3 DEF Final, Orig, LinkCells, ObjectAt

(* The link from i leads to the least later index, or nowhere.              *)
LEMMA NextIs ==
  ASSUME NEW s, NEW K, K \subseteq Nat, NEW i \in Nat
  PROVE  /\ (\A k \in K : k <= i) => NextLink(s, K, i) = Null
         /\ (\E k \in K : k > i) => \E k \in K : /\ k > i /\ \A j \in K : j > i => k <= j
                                                /\ NextLink(s, K, i) = s[k] + 1
<1>1. (\A k \in K : k <= i) => NextLink(s, K, i) = Null
  BY DEF NextLink
<1>2. ASSUME \E k \in K : k > i
      PROVE  \E k \in K : /\ k > i /\ \A j \in K : j > i => k <= j
                          /\ NextLink(s, K, i) = s[k] + 1
  <2> DEFINE S == {k \in K : k > i}
  <2>1. S \subseteq Nat /\ S # {}
    BY <1>2
  <2>2. \E m \in S : \A j \in S : m <= j
    <3> HIDE DEF S
    <3> QED BY <2>1, LeastNatural
  <2>3. Min(S) \in S /\ \A j \in S : Min(S) <= j
    <3> HIDE DEF S
    <3> QED BY <2>2 DEF Min
  <2>4. ~(\A k \in K : k <= i)
    <3>1. PICK k \in K : k > i
      BY <1>2
    <3> QED BY <3>1
  <2>5. NextLink(s, K, i) = s[Min(S)] + 1
    BY <2>4 DEF NextLink
  <2> QED BY <2>3, <2>5
<1> QED BY <1>1, <1>2

(* It leads nowhere exactly if there is no later index.                     *)
LEMMA NextIsNot ==
  ASSUME NEW s, NEW K, K \subseteq DOMAIN s, s \in Seq(Nat), NEW i \in Nat
  PROVE  NextLink(s, K, i) = Null <=> \A k \in K : k <= i
<1>1. K \subseteq Nat /\ \A k \in K : s[k] \in Nat
  OBVIOUS
<1>2. ASSUME NextLink(s, K, i) = Null, NEW k \in K PROVE k <= i
  <2> SUFFICES ASSUME k > i PROVE FALSE
    BY <1>1
  <2>1. PICK j \in K : NextLink(s, K, i) = s[j] + 1
    BY <1>1, NextIs
  <2> QED BY <1>1, <1>2, <2>1 DEF Null
<1> QED BY <1>1, <1>2, NextIs

(* Different trackers have different links.                                 *)
LEMMA TrackerCellsDiffer ==
  ASSUME NEW b, Facts(b), NEW i \in DOMAIN b.trackers \cup {0}, NEW j \in DOMAIN b.trackers \cup {0},
         TrackerCell(b, i) = TrackerCell(b, j)
  PROVE  i = j
<1>1. \A k \in DOMAIN b.trackers : TrackerCell(b, k) = b.trackers[k] + 2 /\ b.trackers[k] \in Nat /\ k # 0
  BY TrackerIs
<1>2. TrackerCell(b, 0) = TrackersHead /\ TrackersHead \in Int /\ TrackersHead < 0
  BY HeadsAre DEF TrackerCell, LinkCell
<1>3. CASE i \in DOMAIN b.trackers /\ j \in DOMAIN b.trackers
  <2>1. b.trackers[i] = b.trackers[j]
    BY <1>1, <1>3
  <2> QED BY <2>1, <1>3 DEF Facts, Injective
<1>4. CASE ~(i \in DOMAIN b.trackers /\ j \in DOMAIN b.trackers)
  BY <1>1, <1>2, <1>4
<1> QED BY <1>3, <1>4

(* So have different stacks.                                                *)
LEMMA StackCellsDiffer ==
  ASSUME NEW b, Facts(b), NEW i \in DOMAIN b.stacks \cup {0}, NEW j \in DOMAIN b.stacks \cup {0},
         StackCell(b, i) = StackCell(b, j)
  PROVE  i = j
<1>1. \A k \in DOMAIN b.stacks : StackCell(b, k) = b.stacks[k] + 1 /\ b.stacks[k] \in Nat /\ k # 0
  BY StackIs
<1>2. StackCell(b, 0) = StacksHead /\ StacksHead \in Int /\ StacksHead < 0
  BY HeadsAre DEF StackCell, LinkCell
<1>3. CASE i \in DOMAIN b.stacks /\ j \in DOMAIN b.stacks
  <2>1. b.stacks[i] = b.stacks[j]
    BY <1>1, <1>3
  <2> QED BY <2>1, <1>3 DEF Facts, Injective
<1>4. CASE ~(i \in DOMAIN b.stacks /\ j \in DOMAIN b.stacks)
  BY <1>1, <1>2, <1>4
<1> QED BY <1>3, <1>4

(* What is in the links of the trackers that are kept, before and after.    *)
LEMMA OrigTrackerLink ==
  ASSUME NEW b, Facts(b), NEW i \in Kept(b) \cup {0}
  PROVE  /\ TrackerCell(b, i) \in TrackerLinks(b)
         /\ Orig(b, TrackerCell(b, i)) = Ptr(NextLink(b.trackers, Kept(b), i))
         /\ Final(b, TrackerCell(b, i)) = NewPtr(b, Ptr(NextLink(b.trackers, Kept(b), i)))
<1> DEFINE c == TrackerCell(b, i)
<1>1. c \in TrackerLinks(b)
  BY DEF TrackerLinks
<1>2. (CHOOSE j \in Kept(b) \cup {0} : c = TrackerCell(b, j)) = i
  <2>1. \A j \in Kept(b) \cup {0} : c = TrackerCell(b, j) => j = i
    BY TrackerCellsDiffer DEF Kept
  <2> HIDE DEF c
  <2>2. c = TrackerCell(b, i)
    BY DEF c
  <2> QED BY <2>1, <2>2
<1>3. c \in LinkCells(b) /\ c \notin RefCells(b)
  BY <1>1, LinkCellsApart DEF LinkCells
<1> QED BY <1>1, <1>2, <1>3 DEF Orig, Final

(* And in those of the stacks.                                              *)
LEMMA OrigStackLink ==
  ASSUME NEW b, Facts(b), NEW i \in DOMAIN b.stacks \cup {0}
  PROVE  /\ StackCell(b, i) \in StackLinks(b)
         /\ Orig(b, StackCell(b, i)) = Ptr(NextLink(b.stacks, DOMAIN b.stacks, i))
         /\ Final(b, StackCell(b, i)) = NewPtr(b, Ptr(NextLink(b.stacks, DOMAIN b.stacks, i)))
<1> DEFINE c == StackCell(b, i)
<1>1. c \in StackLinks(b)
  BY DEF StackLinks
<1>2. c \in LinkCells(b) /\ c \notin RefCells(b) /\ c \notin TrackerLinks(b) /\ c \notin ClearedValues(b)
  BY <1>1, LinkCellsApart DEF LinkCells
<1>3. b.mem[c] = Ptr(NextLink(b.stacks, DOMAIN b.stacks, i))
  BY DEF Facts, Linked, StackCell
<1> QED BY <1>1, <1>2, <1>3 DEF Orig, Final
-----------------------------------------------------------------------------
(* The inductive invariant, one predicate for each phase.                   *)
EndsAt(b, q) == \A a \in b.marks : a < q => a + Words(b, a) <= q
Fits(b, t) == \A a \in b.marks : a + Words(b, a) <= t
From(b, q) == {a \in b.marks : a >= q}

(* Of the cells that matter those in D are relocated, the others are not.   *)
Keeps(b, m, D) == \A c \in Settled(b) \ b.marks : m[c] = IF c \in D THEN Final(b, c) ELSE Orig(b, c)
Offsets(b, m, cs, q) ==
  \A a \in b.marks : a < q => m[a] = Hdr(Tag(b.mem, a), IF a < cs THEN 0 ELSE New(b, a) - a)

(* j trackers have been scanned; q is the link of the last one kept.        *)
ScanState(b, m, q, j, l) ==
  /\ \A c \in Settled(b) : c \notin TrackerLinks(b) \cup ClearedValues(b) => m[c] = b.mem[c]
  /\ \A i \in DOMAIN b.trackers : i > j =>
       m[b.trackers[i] + 1] = b.mem[b.trackers[i] + 1] /\ m[b.trackers[i] + 2] = b.mem[b.trackers[i] + 2]
  /\ \A i \in DOMAIN b.trackers : i <= j /\ b.trackers[i] \in b.marks /\ i \notin Kept(b) =>
       m[b.trackers[i] + 1] = FalseMarker
  /\ \A i \in Kept(b) : i <= j => i <= l
  /\ l <= j /\ q = TrackerCell(b, l)
  /\ m[q] = Ptr(NextLink(b.trackers, DOMAIN b.trackers, j))
  /\ \A i \in Kept(b) \cup {0} : i < l => m[TrackerCell(b, i)] = Ptr(NextLink(b.trackers, Kept(b), i))
ScanInv(b, m, q) == \E j \in 0 .. Len(b.trackers), l \in Kept(b) \cup {0} : ScanState(b, m, q, j, l)

SolidInv(b, m, t, mk, q) ==
  /\ Keeps(b, m, {}) /\ \A a \in b.marks : m[a] = Hdr(Tag(b.mem, a), 0)
  /\ q \in Nat /\ q <= t /\ EndsAt(b, q)
  /\ \A c \in 0 .. q - 1 : IsLive(b, c)
  /\ mk = From(b, q)

(* The list of live ranges: the break at d holds where the next one starts  *)
(* and ends.                                                                *)
BreakAt(b, cs, d) == ~IsLive(b, d) /\ (d = cs \/ IsLive(b, d - 1))
LiveRange(b, d, l, e) ==
  /\ l \in Nat /\ e \in Nat /\ d < l /\ l < e /\ ~IsLive(b, e)
  /\ \A c \in d .. l - 1 : ~IsLive(b, c)
  /\ \A c \in l .. e - 1 : IsLive(b, c)
Encoded(m, d, l, e) ==
  IF d + 1 = l THEN m[d] = TaggedPtr(e) ELSE m[d] = Ptr(l) /\ m[d + 1] = Ptr(e)
Breaks(b, m, cs, from, to) ==
  \A d \in from .. to - 1 : BreakAt(b, cs, d) =>
    \E l, e : LiveRange(b, d, l, e) /\ e <= to /\ Encoded(m, d, l, e)

(* The compaction area starts at the first dead word.                       *)
Area(b, t, cs) ==
  /\ cs \in Nat /\ cs <= t /\ Fits(b, t)
  /\ ~IsLive(b, cs) /\ \A c \in 0 .. cs - 1 : IsLive(b, c)

(* ch[h] are the slots threaded through the header at h.  Those of the      *)
(* slots D that have been visited are on the list of their target or have   *)
(* its new address; while the list of the object at q is taken apart, only  *)
(* some of its slots are on it.                                             *)
DoneSlots(b, cs, q, td) == (UNION {Slots(b.mem, a) : a \in {x \in b.marks : cs <= x /\ x < q}}) \ td
Chain(b, m, h, s) ==
  /\ Injective(s)
  /\ \A i \in 0 .. Len(s) :
       m[IF i = 0 THEN h ELSE s[i]] = IF i < Len(s) THEN Thread(s[i + 1]) ELSE Hdr(Tag(b.mem, h), 0)
ThreadState(b, m, cs, q, D, partly, ch) ==
  /\ ch \in [b.marks -> Seq(Int)]
  /\ \A h \in From(b, q) : Chain(b, m, h, ch[h])
  /\ \A h \in From(b, q) : \A i \in DOMAIN ch[h] : ch[h][i] \in D /\ Orig(b, ch[h][i]) = Ref(h)
  /\ \A c \in D : m[c] = Final(b, c) \/ \E h \in From(b, q) : c \in Range(ch[h])
  /\ \A c \in D : \A h \in From(b, q) : Orig(b, c) = Ref(h) /\ (partly => h # q) => c \in Range(ch[h])
  /\ \A c \in Settled(b) \ b.marks : c \notin D => m[c] = Orig(b, c)
  /\ Offsets(b, m, cs, q)
Threading(b, m, cs, q, D, partly) == \E ch : ThreadState(b, m, cs, q, D, partly, ch)

GapInv(b, m, t, mk, cs, q, dd, off) ==
  /\ Area(b, t, cs) /\ cs <= dd /\ dd <= t /\ cs < t /\ q = dd
  /\ EndsAt(b, q) /\ ~IsLive(b, dd) /\ (dd = cs \/ IsLive(b, dd - 1))
  /\ mk = From(b, q) /\ off = New(b, dd) - dd
  /\ Breaks(b, m, cs, cs, dd)
  /\ Threading(b, m, cs, q, DoneSlots(b, cs, q, {}), FALSE)

LiveInv(b, m, t, mk, cs, q, td, dd, lv, off, partly) ==
  /\ Area(b, t, cs) /\ cs <= dd /\ cs < t /\ BreakAt(b, cs, dd) /\ dd < lv
  /\ lv \in b.marks /\ lv <= q /\ q \in Nat /\ q <= t /\ EndsAt(b, q)
  /\ \A c \in dd .. lv - 1 : ~IsLive(b, c)
  /\ \A c \in lv .. q - 1 : IsLive(b, c)
  /\ off = New(b, q) - q
  /\ IF partly THEN q \in b.marks /\ mk = From(b, q) \ {q} ELSE mk = From(b, q)
  /\ td = {} \/ \E a \in b.marks : cs <= a /\ a + Words(b, a) = q /\ td \subseteq Slots(b.mem, a)
  /\ Breaks(b, m, cs, cs, dd)
  /\ Threading(b, m, cs, q, DoneSlots(b, cs, q, td), partly)

(* After the area, the references from elsewhere; D have been relocated.    *)
RelocInv(b, m, t, mk, cs, dd, D) ==
  /\ Area(b, t, cs) /\ dd = t /\ mk = {}
  /\ Breaks(b, m, cs, cs, t)
  /\ Offsets(b, m, cs, t)
  /\ Keeps(b, m, D)

PrefixDone(b, cs, q, td) == (UNION {Slots(b.mem, a) : a \in {x \in b.marks : cs <= x \/ x < q}}) \ td
PrefixInv(b, cs, q, td) ==
  /\ q \in Nat /\ q <= cs /\ EndsAt(b, q)
  /\ td \subseteq UNION {Slots(b.mem, a) : a \in {x \in b.marks : x < q}}

TrackersDone(b, i) ==
  SlotCells(b) \cup {TrackerCell(b, k) : k \in {j \in Kept(b) \cup {0} : j < i}}
               \cup {b.trackers[k] + 1 : k \in {j \in Kept(b) : j <= i}}
StacksDone(b, i, td) ==
  SlotCells(b) \cup TrackerLinks(b) \cup KeptValues(b) \cup {StackCell(b, k) : k \in 0 .. i - 1}
    \cup ((UNION {FramesOf(b, k) : k \in 1 .. i}) \ td)
StacksInv(b, q, i, td) ==
  q = StackCell(b, i) /\ td \subseteq (IF i = 0 THEN {} ELSE FramesOf(b, i))
AllDone(b, td) == (RefCells(b) \cup LinkCells(b)) \ td

CompactInv(b, m, t, mk, cs, q, off) ==
  /\ Area(b, t, cs) /\ mk = {}
  /\ q \in Nat /\ cs <= q /\ q <= t /\ off = New(b, q) - q
  /\ q = t \/ BreakAt(b, cs, q)
  /\ Breaks(b, m, cs, q, t)
  /\ \A c \in Cells : m[c] = Final(b, c)
  /\ \A c \in 0 .. q - 1 : IsLive(b, c) => m[New(b, c)] = Final(b, c)
  /\ \A c \in q .. t - 1 : IsLive(b, c) =>
       m[c] = IF c \in b.marks THEN Hdr(Tag(b.mem, c), New(b, c) - c) ELSE Final(b, c)

DoneInv(b, m, t, old, mk) ==
  /\ mk = {} /\ old = t
  /\ \E e \in Nat : Fits(b, e) /\ t = New(b, e)
  /\ \A c \in Cells : m[c] = Final(b, c)
  /\ \A c \in Nat : IsLive(b, c) => m[New(b, c)] = Final(b, c)

PhaseInv ==
  /\ phase = "trackers" => marks = before.marks /\ Fits(before, top) /\ ScanInv(before, mem, p)
  /\ phase = "solid" => Fits(before, top) /\ SolidInv(before, mem, top, marks, p)
  /\ phase = "gap" => GapInv(before, mem, top, marks, compactionStart, p, dead, offset)
  /\ phase \in {"live", "object"} =>
       LiveInv(before, mem, top, marks, compactionStart, p, todo, dead, live, offset, phase = "object")
  /\ phase = "prefix" =>
       /\ PrefixInv(before, compactionStart, p, todo)
       /\ RelocInv(before, mem, top, marks, compactionStart, dead, PrefixDone(before, compactionStart, p, todo))
  /\ phase = "relocTrackers" =>
       \E i \in Kept(before) \cup {0} :
         /\ p = TrackerCell(before, i)
         /\ RelocInv(before, mem, top, marks, compactionStart, dead, TrackersDone(before, i))
  /\ phase = "relocStacks" =>
       \E i \in 0 .. Len(before.stacks) :
         /\ StacksInv(before, p, i, todo)
         /\ RelocInv(before, mem, top, marks, compactionStart, dead, StacksDone(before, i, todo))
  /\ phase = "relocRoots" =>
       /\ todo \subseteq RootCells
       /\ RelocInv(before, mem, top, marks, compactionStart, dead, AllDone(before, todo))
  /\ phase = "compact" => CompactInv(before, mem, top, marks, compactionStart, p, offset)
  /\ phase = "done" => DoneInv(before, mem, top, oldObjectsEnd, marks)

IdleInv ==
  /\ phase \notin {"live", "prefix", "relocStacks", "relocRoots"} => todo = {}
  /\ phase # "done" => oldObjectsEnd = 0
  /\ phase \in {"trackers", "solid"} => offset = 0 /\ compactionStart = 0

CollectInv == HeapTypeOK /\ Facts(before) /\ IdleInv /\ PhaseInv
-----------------------------------------------------------------------------
(* The reachable objects are closed: they are what all closed sets share.   *)
LEMMA ReachableIsClosed ==
  ASSUME NEW m, NEW t, NEW S0 \in SUBSET Objects(m, t), Closed(m, S0)
  PROVE  Closed(m, Reachable(m, t))
<1> DEFINE R == Reachable(m, t)
<1>1. \A v : v \in R <=> v \in Objects(m, t) /\ \A S \in SUBSET Objects(m, t) : Closed(m, S) => v \in S
  BY DEF Reachable
<1>2. \A v : (\A S \in SUBSET Objects(m, t) : Closed(m, S) => v \in S) => v \in R
  BY <1>1
<1>3. \A a \in R : \A S \in SUBSET Objects(m, t) : Closed(m, S) => a \in S
  BY <1>1
<1> HIDE DEF R
<1>4. ASSUME NEW c \in RootCells, m[c].k = "ref" PROVE m[c].v \in R
  <2>1. \A S \in SUBSET Objects(m, t) : Closed(m, S) => m[c].v \in S
    BY <1>4 DEF Closed
  <2> QED BY <2>1, <1>2
<1>5. ASSUME NEW a \in R, NEW c \in Slots(m, a), m[c].k = "ref" PROVE m[c].v \in R
  <2>1. \A S \in SUBSET Objects(m, t) : Closed(m, S) => m[c].v \in S
    BY <1>3, <1>5 DEF Closed
  <2> QED BY <2>1, <1>2
<1>6. ASSUME NEW a \in R, Tag(m, a) \in Stacks, NEW c \in FrameCells[Tag(m, a)], m[c].k = "ref"
      PROVE  m[c].v \in R
  <2>1. \A S \in SUBSET Objects(m, t) : Closed(m, S) => m[c].v \in S
    BY <1>3, <1>6 DEF Closed
  <2> QED BY <2>1, <1>2
<1> QED BY <1>4, <1>5, <1>6 DEF Closed, R

(* A heap that the program leaves to a collection has the facts the proofs  *)
(* rest on.                                                                 *)
LEMMA StartFacts ==
  ASSUME NEW h, ProperHeap(h), NEW b,
         b.mem = h.mem, b.marks = Reachable(h.mem, h.top),
         b.stacks = h.stacks, b.trackers = h.trackers,
         Range(h.stacks) = {a \in b.marks : Tag(h.mem, a) \in Stacks}
  PROVE  Facts(b) /\ Fits(b, h.top) /\ b.marks \subseteq Objects(h.mem, h.top)
<1> DEFINE objects == Objects(h.mem, h.top)
           tagged(T) == {a \in objects : Tag(h.mem, a) \in T}
<1>1. /\ h.top \in Nat /\ 0 .. h.top - 1 \subseteq DOMAIN h.mem
      /\ Cells \subseteq DOMAIN h.mem /\ DOMAIN h.mem \subseteq Int
      /\ \A c \in DOMAIN h.mem : h.mem[c] \in [k : Kinds, v : Int \cup Tags, off : {0}]
      /\ \A a \in objects : ProperObject(h.mem, h.top, a)
      /\ \A a, c \in objects : Tag(h.mem, a) = Tag(h.mem, c) => a = c
      /\ \E S \in SUBSET objects : Closed(h.mem, S)
  BY DEF ProperHeap
<1>2. /\ IsList(h.stacks, tagged(Stacks))
      /\ Linked(h.mem, StacksHead, 1, h.stacks, DOMAIN h.stacks)
      /\ IsList(h.trackers, tagged(Trackers))
      /\ Linked(h.mem, TrackersHead, 2, h.trackers, DOMAIN h.trackers)
      /\ \A a \in tagged(Trackers) : h.mem[a + 1].k = "ref" <=> a \in Range(h.trackers)
  BY DEF ProperHeap
<1>3. objects \subseteq 0 .. h.top - 1
  BY DEF Objects
<1>4. b.marks \subseteq objects
  BY DEF Reachable
<1>5. Closed(b.mem, b.marks)
  BY <1>1, ReachableIsClosed
<1>6. h.stacks \in Seq(Nat) /\ Injective(h.stacks)
  <2>1. h.stacks \in Seq(tagged(Stacks)) /\ \A i, j \in DOMAIN h.stacks : h.stacks[i] = h.stacks[j] => i = j
    BY <1>2 DEF IsList
  <2>2. tagged(Stacks) \subseteq Nat
    BY <1>3
  <2> HIDE DEF tagged
  <2> QED BY <2>1, <2>2 DEF Injective
<1>7. h.trackers \in Seq(Nat) /\ Injective(h.trackers) /\ Range(h.trackers) \subseteq tagged(Trackers)
  <2>1. h.trackers \in Seq(tagged(Trackers)) /\ \A i, j \in DOMAIN h.trackers : h.trackers[i] = h.trackers[j] => i = j
    BY <1>2 DEF IsList
  <2>2. tagged(Trackers) \subseteq Nat
    BY <1>3
  <2> HIDE DEF tagged
  <2>3. Range(h.trackers) \subseteq tagged(Trackers)
    BY <2>1 DEF Range
  <2> QED BY <2>1, <2>2, <2>3 DEF Injective
<1>8. ASSUME NEW a \in objects
      PROVE  /\ ObjectAt(b, a)
             /\ a \in Nat /\ a + Words(b, a) <= h.top
  <2>1. ProperObject(h.mem, h.top, a) /\ a \in 0 .. h.top - 1 /\ h.top \in Nat
    BY <1>1, <1>3
  <2>2. Words(b, a) = AllocationSize(h.mem, a) /\ Words(b, a) = ObjectSize[Tag(h.mem, a)] /\ Tag(h.mem, a) \in Tags
    BY <2>1 DEF Words, AllocationSize, ProperObject
  <2>3. Words(b, a) \in Nat
    BY <2>2, ShapesAssumption
  <2>4. a + Words(b, a) <= h.top
    BY <2>1, <2>2 DEF ProperObject
  <2>5. a .. a + Words(b, a) - 1 \subseteq 0 .. h.top - 1
    BY <2>1, <2>3, <2>4
  <2>6. a .. a + Words(b, a) - 1 \subseteq DOMAIN b.mem
    BY <2>5, <1>1
  <2>7. \A c \in a + 1 .. a + Words(b, a) - 1 : b.mem[c].k # "hdr"
    BY <2>1, <2>2 DEF ProperObject
  <2>8. b.mem[a] = Hdr(Tag(b.mem, a), 0) /\ Tag(b.mem, a) \in Tags
    BY <2>1 DEF ProperObject
  <2> QED BY <2>1, <2>4, <2>6, <2>7, <2>8 DEF ObjectAt
<1>9. \A a \in b.marks \cup Range(b.trackers) : ObjectAt(b, a)
  BY <1>4, <1>7, <1>8
<1>10. \A i \in DOMAIN b.trackers : b.mem[b.trackers[i] + 1].k = "ref"
  <2> TAKE i \in DOMAIN b.trackers
  <2>1. b.trackers[i] \in Range(h.trackers)
    BY DEF Range
  <2>2. b.trackers[i] \in tagged(Trackers)
    BY <2>1, <1>7
  <2> HIDE DEF tagged
  <2> QED BY <2>1, <2>2, <1>2
<1>11. \A a \in b.marks : Tag(b.mem, a) \in Trackers /\ b.mem[a + 1].k = "ref" => a \in Range(b.trackers)
  BY <1>2, <1>4
<1>12. \A a \in Range(b.trackers) : Tag(b.mem, a) \in Trackers
  BY <1>7
<1>13. \A a, c \in b.marks : Tag(b.mem, a) = Tag(b.mem, c) => a = c
  BY <1>1, <1>4
<1>14. Fits(b, h.top)
  BY <1>4, <1>8 DEF Fits
<1> HIDE DEF objects, tagged
<1>15. Facts(b)
  BY <1>1, <1>2, <1>5, <1>6, <1>7, <1>9, <1>10, <1>11, <1>12, <1>13 DEF Facts
<1> QED BY <1>4, <1>14, <1>15 DEF objects

(* The invariant holds when marking has ended.                              *)
LEMMA CollectInit_Inv == CollectInit => CollectInv
<1> SUFFICES ASSUME CollectInit PROVE CollectInv
  OBVIOUS
<1>1. PICK h \in InitialHeaps :
        /\ mem = h.mem /\ top = h.top
        /\ marks = Reachable(mem, top)
        /\ Range(h.stacks) = {a \in marks : Tag(mem, a) \in Stacks}
        /\ before = [mem |-> mem, marks |-> marks, stacks |-> h.stacks, trackers |-> h.trackers]
  BY DEF CollectInit
<1>2. ProperHeap(h)
  BY HeapsAssumption
<1>3. before.mem = h.mem /\ before.marks = Reachable(h.mem, h.top) /\ before.stacks = h.stacks
      /\ before.trackers = h.trackers /\ before.marks = marks
  BY <1>1
<1>4. Range(h.stacks) = {a \in before.marks : Tag(h.mem, a) \in Stacks}
  BY <1>1, <1>3
<1>5. Facts(before) /\ Fits(before, top) /\ before.marks \subseteq Objects(h.mem, h.top)
  BY <1>1, <1>2, <1>3, <1>4, StartFacts
<1>6. /\ compactionStart = 0 /\ oldObjectsEnd = 0
      /\ phase = "trackers" /\ p = TrackersHead /\ todo = {}
      /\ offset = 0 /\ dead = 0 /\ live = 0
  BY DEF CollectInit
<1>7. HeapTypeOK
  <2>1. \A c \in DOMAIN mem : mem[c] \in [k : Kinds, v : Int \cup Tags, off : Int]
    <3> TAKE c \in DOMAIN mem
    <3>1. mem[c] \in [k : Kinds, v : Int \cup Tags, off : {0}]
      BY <1>1, <1>2 DEF ProperHeap
    <3> QED BY <3>1
  <2>2. top \in Nat /\ 0 .. top - 1 \subseteq DOMAIN mem
    BY <1>1, <1>2 DEF ProperHeap
  <2> QED BY <1>1, <1>3, <1>6, <2>1, <2>2, HeadsAre DEF HeapTypeOK, CollectPhases
<1>8. ScanInv(before, mem, p)
  <2> DEFINE b == before
  <2>0. b.trackers \in Seq(Nat) /\ mem = b.mem
    BY <1>1, <1>3, <1>5 DEF Facts
  <2>1. \A i \in DOMAIN b.trackers : i \in Nat /\ i > 0
    BY <2>0
  <2>2. Kept(b) \subseteq DOMAIN b.trackers
    BY DEF Kept
  <2>3. mem[p] = Ptr(NextLink(b.trackers, DOMAIN b.trackers, 0)) /\ p = TrackerCell(b, 0)
    BY <1>5, <1>6, <2>0 DEF Facts, Linked, LinkCell, TrackerCell
  <2>4. 0 \in 0 .. Len(b.trackers) /\ 0 \in Kept(b) \cup {0}
    BY <2>0
  <2> HIDE DEF b
  <2>5. ScanState(b, mem, p, 0, 0)
    BY <2>0, <2>1, <2>2, <2>3 DEF ScanState
  <2> QED BY <2>4, <2>5 DEF ScanInv, b
<1> QED BY <1>3, <1>5, <1>6, <1>7, <1>8 DEF CollectInv, IdleInv, PhaseInv
-----------------------------------------------------------------------------
(* The scan of the trackers.                                                *)
LEMMA TrackerWordsApart ==
  ASSUME NEW b, Facts(b), NEW i \in DOMAIN b.trackers, NEW j \in DOMAIN b.trackers \cup {0}
  PROVE  /\ b.trackers[i] + 1 # TrackerCell(b, j)
         /\ j # 0 /\ b.trackers[i] + 1 = b.trackers[j] + 1 => i = j
<1>1. /\ b.trackers[i] \in Range(b.trackers) /\ b.trackers[i] \in Nat
      /\ 1 \in 0 .. Words(b, b.trackers[i]) - 1 /\ 2 \in 0 .. Words(b, b.trackers[i]) - 1
  BY TrackerIs
<1>2. TrackerCell(b, 0) = TrackersHead /\ TrackersHead \in Int /\ TrackersHead < 0
  BY HeadsAre DEF TrackerCell, LinkCell
<1>3. CASE j = 0
  BY <1>1, <1>2, <1>3
<1>4. CASE j \in DOMAIN b.trackers
  <2>1. /\ b.trackers[j] \in Range(b.trackers) /\ b.trackers[j] \in Nat
        /\ 2 \in 0 .. Words(b, b.trackers[j]) - 1 /\ TrackerCell(b, j) = b.trackers[j] + 2
    BY <1>4, TrackerIs
  <2>2. b.trackers[i] + 1 # b.trackers[j] + 2
    <3> SUFFICES ASSUME b.trackers[i] + 1 = b.trackers[j] + 2 PROVE FALSE
      OBVIOUS
    <3>1. 1 = 2
      BY <1>1, <2>1, PlaceIs
    <3> QED BY <3>1
  <2>3. b.trackers[i] + 1 = b.trackers[j] + 1 => b.trackers[i] = b.trackers[j]
    BY <1>1, <2>1
  <2> QED BY <1>4, <2>1, <2>2, <2>3 DEF Facts, Injective
<1> QED BY <1>3, <1>4

(* The words of a tracker are cells of the memory.                          *)
LEMMA TrackerCellIn ==
  ASSUME NEW b, Facts(b), NEW i \in DOMAIN b.trackers
  PROVE  b.trackers[i] + 1 \in DOMAIN b.mem /\ b.trackers[i] + 2 \in DOMAIN b.mem
<1>1. /\ b.trackers[i] \in Range(b.trackers)
      /\ 1 \in 0 .. Words(b, b.trackers[i]) - 1 /\ 2 \in 0 .. Words(b, b.trackers[i]) - 1
  BY TrackerIs
<1> QED BY <1>1, ObjectShape

(* The tracker that the link leads to is the next one in the list.          *)
NextTracker(b, m, q, j) ==
  /\ j + 1 \in DOMAIN b.trackers
  /\ m[q].v = b.trackers[j + 1] + 1
  /\ m[m[q].v] = b.mem[b.trackers[j + 1] + 1]
  /\ m[m[q].v + 1] = Ptr(NextLink(b.trackers, DOMAIN b.trackers, j + 1))

(* The link that is looked at is null at the end of the list, and leads to  *)
(* the next tracker otherwise.                                              *)
LEMMA ScanNext ==
  ASSUME NEW b, Facts(b), NEW m, NEW q, NEW j \in 0 .. Len(b.trackers), NEW l \in Kept(b) \cup {0},
         ScanState(b, m, q, j, l)
  PROVE  /\ m[q].v = Null => j = Len(b.trackers)
         /\ m[q].v # Null => NextTracker(b, m, q, j)
         /\ q \in DOMAIN b.mem /\ q \in TrackerLinks(b)
<1> DEFINE s == b.trackers
           D == DOMAIN b.trackers
<1>0. s \in Seq(Nat) /\ D = 1 .. Len(s) /\ Len(s) \in Nat
  BY DEF Facts
<1>1. m[q] = Ptr(NextLink(s, D, j)) /\ q = TrackerCell(b, l)
  BY DEF ScanState
<1>2. m[q].v = NextLink(s, D, j)
  BY <1>1 DEF Ptr
<1>3. D \subseteq Nat /\ j \in Nat
  BY <1>0
<1>4. NextLink(s, D, j) = Null <=> \A k \in D : k <= j
  BY <1>0, <1>3, NextIsNot
<1>5. ASSUME \A k \in D : k <= j PROVE j = Len(s)
  <2>1. j \in 0 .. Len(s)
    OBVIOUS
  <2>2. CASE Len(s) = 0
    BY <2>1, <2>2
  <2>3. CASE Len(s) # 0
    <3>1. Len(s) \in D
      BY <1>0, <2>3
    <3>2. Len(s) <= j
      BY <3>1, <1>5
    <3> HIDE DEF s, D
    <3> QED BY <3>2, <2>1, <1>0
  <2> QED BY <1>0, <2>2, <2>3
<1>6. ASSUME m[q].v # Null
      PROVE  j + 1 \in D /\ m[q].v = s[j + 1] + 1
  <2>1. \E k \in D : k > j
    BY <1>0, <1>2, <1>3, <1>4, <1>6
  <2>2. j + 1 \in D
    BY <1>0, <2>1
  <2>3. PICK k \in D : k > j /\ (\A i \in D : i > j => k <= i) /\ NextLink(s, D, j) = s[k] + 1
    BY <2>1, <1>3, NextIs
  <2>4. k = j + 1
    BY <2>2, <2>3, <1>0
  <2> QED BY <2>2, <2>3, <2>4, <1>2
<1>7. ASSUME m[q].v # Null
      PROVE  /\ m[m[q].v] = b.mem[b.trackers[j + 1] + 1]
             /\ m[m[q].v + 1] = Ptr(NextLink(b.trackers, DOMAIN b.trackers, j + 1))
  <2>1. j + 1 \in D /\ m[q].v = s[j + 1] + 1 /\ j + 1 > j /\ s[j + 1] \in Nat
    BY <1>0, <1>6, <1>7
  <2>2. m[s[j + 1] + 1] = b.mem[s[j + 1] + 1] /\ m[s[j + 1] + 2] = b.mem[s[j + 1] + 2]
    BY <2>1 DEF ScanState
  <2>3. b.mem[TrackerCell(b, j + 1)] = Ptr(NextLink(s, D, j + 1))
    BY <2>1 DEF Facts, Linked, TrackerCell
  <2>4. TrackerCell(b, j + 1) = s[j + 1] + 2 /\ m[q].v + 1 = s[j + 1] + 2
    BY <2>1, TrackerIs
  <2> QED BY <2>1, <2>2, <2>3, <2>4
<1>8. q \in TrackerLinks(b) /\ q \in DOMAIN b.mem
  <2>1. q \in TrackerLinks(b)
    BY <1>1 DEF TrackerLinks
  <2> QED BY <2>1, SettledIs DEF LinkCells
<1> QED BY <1>2, <1>4, <1>5, <1>6, <1>7, <1>8 DEF NextTracker

(* A tracker that is dead, or whose object is, leaves the list.             *)
LEMMA ScanDrops ==
  ASSUME NEW b, Facts(b), NEW m, NEW q, NEW j \in 0 .. Len(b.trackers), NEW l \in Kept(b) \cup {0},
         ScanState(b, m, q, j, l), DOMAIN m = DOMAIN b.mem,
         j + 1 \in DOMAIN b.trackers, j + 1 \notin Kept(b),
         NEW w, w = Ptr(NextLink(b.trackers, DOMAIN b.trackers, j + 1)),
         NEW m1,
         m1 = IF b.trackers[j + 1] \in b.marks
              THEN [m EXCEPT ![b.trackers[j + 1] + 1] = FalseMarker, ![q] = w]
              ELSE [m EXCEPT ![q] = w]
  PROVE  ScanState(b, m1, q, j + 1, l)
<1> DEFINE s == b.trackers
           D == DOMAIN b.trackers
           x == b.trackers[j + 1] + 1
<1>0. s \in Seq(Nat) /\ D = 1 .. Len(s) /\ Len(s) \in Nat /\ Kept(b) \subseteq D /\ j \in Nat /\ j + 1 \in D
  BY DEF Facts, Kept
<1>1. q \in DOMAIN m /\ q \in TrackerLinks(b) /\ q = TrackerCell(b, l) /\ l <= j /\ l \in D \cup {0}
  BY <1>0, ScanNext DEF ScanState
<1>2. x # q /\ x \in DOMAIN m
  BY <1>0, <1>1, TrackerWordsApart, TrackerCellIn
<1>3. /\ m1[q] = w
      /\ s[j + 1] \in b.marks => m1[x] = FalseMarker
      /\ \A c \in DOMAIN b.mem : c # q /\ (c # x \/ s[j + 1] \notin b.marks) => m1[c] = m[c]
  <2>0. DOMAIN m = DOMAIN b.mem
    OBVIOUS
  <2>1. CASE s[j + 1] \in b.marks
    <3>1. m1 = [m EXCEPT ![x] = FalseMarker, ![q] = w]
      BY <2>1
    <3> HIDE DEF s, D, x
    <3> QED BY <1>1, <1>2, <2>0, <2>1, <3>1
  <2>2. CASE s[j + 1] \notin b.marks
    <3>1. m1 = [m EXCEPT ![q] = w]
      BY <2>2
    <3> HIDE DEF s, D, x
    <3> QED BY <1>1, <2>0, <2>2, <3>1
  <2> QED BY <2>1, <2>2
<1>4. \A i \in D : s[i] + 1 # q /\ (s[i] + 1 = x => i = j + 1)
  BY <1>0, <1>1, TrackerWordsApart
<1>5. \A i \in D : s[i] + 2 # x /\ (s[i] + 2 = q => i = l)
  <2> TAKE i \in D
  <2>1. s[i] + 2 = TrackerCell(b, i)
    BY TrackerIs
  <2>2. x # TrackerCell(b, i)
    BY <1>0, TrackerWordsApart
  <2>3. TrackerCell(b, i) = q => i = l
    BY <1>1, TrackerCellsDiffer
  <2> QED BY <2>1, <2>2, <2>3
<1>6. \A c \in Settled(b) : c \notin TrackerLinks(b) \cup ClearedValues(b) => m1[c] = b.mem[c]
  <2> SUFFICES ASSUME NEW c \in Settled(b), c \notin TrackerLinks(b), c \notin ClearedValues(b)
               PROVE  m1[c] = b.mem[c]
    OBVIOUS
  <2>1. c # q
    BY <1>1
  <2>2. s[j + 1] \in b.marks => x \in ClearedValues(b)
    BY <1>0 DEF ClearedValues
  <2>3. m1[c] = m[c]
    BY <1>3, <2>1, <2>2, SettledIs
  <2> QED BY <2>3 DEF ScanState
<1>7. \A i \in D : i > j + 1 => m1[s[i] + 1] = b.mem[s[i] + 1] /\ m1[s[i] + 2] = b.mem[s[i] + 2]
  <2> SUFFICES ASSUME NEW i \in D, i > j + 1
               PROVE  m1[s[i] + 1] = b.mem[s[i] + 1] /\ m1[s[i] + 2] = b.mem[s[i] + 2]
    OBVIOUS
  <2>1. i > j /\ i # j + 1 /\ i # l
    BY <1>0, <1>1
  <2>2. m1[s[i] + 1] = m[s[i] + 1] /\ m1[s[i] + 2] = m[s[i] + 2]
    BY <2>1, <1>3, <1>4, <1>5, TrackerCellIn
  <2> QED BY <2>1, <2>2 DEF ScanState
<1>8. \A i \in D : i <= j + 1 /\ s[i] \in b.marks /\ i \notin Kept(b) => m1[s[i] + 1] = FalseMarker
  <2> SUFFICES ASSUME NEW i \in D, i <= j + 1, s[i] \in b.marks, i \notin Kept(b)
               PROVE  m1[s[i] + 1] = FalseMarker
    OBVIOUS
  <2>1. CASE i = j + 1
    BY <2>1, <1>3
  <2>2. CASE i # j + 1
    <3>1. i <= j
      BY <2>2, <1>0
    <3>2. m1[s[i] + 1] = m[s[i] + 1]
      BY <2>2, <1>3, <1>4, TrackerCellIn
    <3> QED BY <3>1, <3>2 DEF ScanState
  <2> QED BY <2>1, <2>2
<1>9. \A i \in Kept(b) : i <= j + 1 => i <= l
  <2> SUFFICES ASSUME NEW i \in Kept(b), i <= j + 1 PROVE i <= l
    OBVIOUS
  <2>1. i <= j
    BY <1>0
  <2> QED BY <2>1 DEF ScanState
<1>10. \A i \in Kept(b) \cup {0} : i < l => m1[TrackerCell(b, i)] = Ptr(NextLink(s, Kept(b), i))
  <2> SUFFICES ASSUME NEW i \in Kept(b) \cup {0}, i < l
               PROVE  m1[TrackerCell(b, i)] = Ptr(NextLink(s, Kept(b), i))
    OBVIOUS
  <2>1. TrackerCell(b, i) # q /\ TrackerCell(b, i) # x
    <3>1. i \in D \cup {0} /\ i # l
      BY <1>0, <1>1
    <3> QED BY <3>1, <1>0, <1>1, TrackerCellsDiffer, TrackerWordsApart
  <2>3. TrackerCell(b, i) \in DOMAIN b.mem
    BY OrigTrackerLink, SettledIs DEF LinkCells
  <2>2. m1[TrackerCell(b, i)] = m[TrackerCell(b, i)]
    BY <2>1, <2>3, <1>3
  <2> QED BY <2>2 DEF ScanState
<1>11. l <= j + 1
  BY <1>0, <1>1
<1>12. m1[q] = Ptr(NextLink(s, D, j + 1))
  BY <1>3
<1> QED BY <1>1, <1>6, <1>7, <1>8, <1>9, <1>10, <1>11, <1>12 DEF ScanState

(* A tracker that stays is the next that the links lead to.                 *)
LEMMA ScanKeeps ==
  ASSUME NEW b, Facts(b), NEW m, NEW q, NEW j \in 0 .. Len(b.trackers), NEW l \in Kept(b) \cup {0},
         ScanState(b, m, q, j, l), m[q].v # Null, j + 1 \in Kept(b)
  PROVE  ScanState(b, m, b.trackers[j + 1] + 2, j + 1, j + 1)
<1> DEFINE s == b.trackers
           D == DOMAIN b.trackers
<1>0. s \in Seq(Nat) /\ D = 1 .. Len(s) /\ Len(s) \in Nat /\ Kept(b) \subseteq D /\ j \in Nat /\ j + 1 \in D
  BY DEF Facts, Kept
<1>1. m[q].v = s[j + 1] + 1 /\ m[m[q].v + 1] = Ptr(NextLink(s, D, j + 1))
  <2>1. /\ m[q].v = b.trackers[j + 1] + 1
        /\ m[m[q].v + 1] = Ptr(NextLink(b.trackers, DOMAIN b.trackers, j + 1))
    <3> HIDE DEF s, D
    <3>1. NextTracker(b, m, q, j)
      BY ScanNext
    <3> QED BY <3>1 DEF NextTracker
  <2> QED BY <2>1
<1>2. m[s[j + 1] + 2] = Ptr(NextLink(s, D, j + 1))
  <2>1. s[j + 1] \in Nat
    BY <1>0
  <2>2. (s[j + 1] + 1) + 1 = s[j + 1] + 2
    BY <2>1
  <2> QED BY <1>1, <2>2
<1>3. TrackerCell(b, j + 1) = s[j + 1] + 2
  BY <1>0, TrackerIs
<1>4. \A i \in Kept(b) \cup {0} : i < j + 1 => m[TrackerCell(b, i)] = Ptr(NextLink(s, Kept(b), i))
  <2> SUFFICES ASSUME NEW i \in Kept(b) \cup {0}, i < j + 1
               PROVE  m[TrackerCell(b, i)] = Ptr(NextLink(s, Kept(b), i))
    OBVIOUS
  <2>1. i \in Nat /\ i <= j /\ l \in Nat
    BY <1>0
  <2>2. i <= l
    BY <2>1 DEF ScanState
  <2>3. CASE i < l
    BY <2>3 DEF ScanState
  <2>4. CASE i = l
    <3>1. m[q] = Ptr(NextLink(s, D, j)) /\ q = TrackerCell(b, l)
      BY DEF ScanState
    <3>2. NextLink(s, D, j) = s[j + 1] + 1
      BY <1>1, <3>1 DEF Ptr
    <3>3. PICK k \in Kept(b) : k > i /\ (\A y \in Kept(b) : y > i => k <= y) /\ NextLink(s, Kept(b), i) = s[k] + 1
      <4>1. Kept(b) \subseteq Nat /\ \E k \in Kept(b) : k > i
        BY <1>0, <2>1
      <4> QED BY <4>1, <2>1, NextIs
    <3>4. k <= j + 1
      BY <3>3, <1>0, <2>1
    <3>5. ~(k <= j)
      <4> SUFFICES ASSUME k <= j PROVE FALSE
        OBVIOUS
      <4>1. k <= l
        BY DEF ScanState
      <4> QED BY <4>1, <2>4, <3>3, <1>0, <2>1
    <3>6. k = j + 1
      BY <3>4, <3>5, <1>0
    <3> QED BY <2>4, <3>1, <3>2, <3>3, <3>6
  <2> QED BY <2>1, <2>2, <2>3, <2>4
<1>5. \A c \in Settled(b) : c \notin TrackerLinks(b) \cup ClearedValues(b) => m[c] = b.mem[c]
  BY DEF ScanState
<1>6. \A i \in D : i > j + 1 => m[s[i] + 1] = b.mem[s[i] + 1] /\ m[s[i] + 2] = b.mem[s[i] + 2]
  <2> SUFFICES ASSUME NEW i \in D, i > j + 1
               PROVE  m[s[i] + 1] = b.mem[s[i] + 1] /\ m[s[i] + 2] = b.mem[s[i] + 2]
    OBVIOUS
  <2>1. i > j
    BY <1>0
  <2> QED BY <2>1 DEF ScanState
<1>7. \A i \in D : i <= j + 1 /\ s[i] \in b.marks /\ i \notin Kept(b) => m[s[i] + 1] = FalseMarker
  <2> SUFFICES ASSUME NEW i \in D, i <= j + 1, s[i] \in b.marks, i \notin Kept(b)
               PROVE  m[s[i] + 1] = FalseMarker
    OBVIOUS
  <2>1. i <= j
    BY <1>0
  <2> QED BY <2>1 DEF ScanState
<1>8. \A i \in Kept(b) : i <= j + 1 => i <= j + 1
  OBVIOUS
<1>9. j + 1 <= j + 1
  BY <1>0
<1> HIDE DEF D
<1> QED BY <1>2, <1>3, <1>4, <1>5, <1>6, <1>7, <1>9 DEF ScanState, D

(* When all have been scanned, the cells hold the words of Orig.            *)
LEMMA ScanEnds ==
  ASSUME NEW b, Facts(b), NEW m, NEW q, NEW j \in 0 .. Len(b.trackers), NEW l \in Kept(b) \cup {0},
         ScanState(b, m, q, j, l), m[q].v = Null
  PROVE  \A c \in Settled(b) : m[c] = Orig(b, c)
<1> DEFINE s == b.trackers
           D == DOMAIN b.trackers
<1>0. s \in Seq(Nat) /\ D = 1 .. Len(s) /\ Len(s) \in Nat /\ Kept(b) \subseteq D /\ j = Len(s)
  <2>1. j = Len(b.trackers)
    <3> HIDE DEF s, D
    <3> QED BY ScanNext
  <2> QED BY <2>1 DEF Facts, Kept
<1>1. ASSUME NEW c \in TrackerLinks(b) PROVE m[c] = Orig(b, c)
  <2>1. PICK i \in Kept(b) \cup {0} : c = TrackerCell(b, i)
    BY DEF TrackerLinks
  <2>2. Orig(b, c) = Ptr(NextLink(s, Kept(b), i))
    BY <2>1, OrigTrackerLink
  <2>3. i \in Nat /\ l \in Nat /\ i <= j
    BY <1>0
  <2>4. i <= l
    BY <2>3 DEF ScanState
  <2>5. CASE i < l
    BY <2>1, <2>2, <2>5 DEF ScanState
  <2>6. CASE i = l
    <3>1. m[q] = Ptr(NextLink(s, D, j)) /\ q = c
      BY <2>1, <2>6 DEF ScanState
    <3>2. NextLink(s, D, j) = Null
      BY <3>1 DEF Ptr
    <3>3. \A k \in Kept(b) : k <= i
      <4> TAKE k \in Kept(b)
      <4>1. k <= j
        BY <1>0
      <4> QED BY <4>1, <2>6 DEF ScanState
    <3>4. NextLink(s, Kept(b), i) = Null
      <4>1. Kept(b) \subseteq Nat
        BY <1>0
      <4> QED BY <4>1, <2>3, <3>3, NextIs
    <3> QED BY <2>2, <3>1, <3>2, <3>4
  <2> QED BY <2>3, <2>4, <2>5, <2>6
<1>2. ASSUME NEW c \in ClearedValues(b), c \notin TrackerLinks(b) PROVE m[c] = Orig(b, c)
  <2>1. PICK i \in D : i \notin Kept(b) /\ s[i] \in b.marks /\ c = s[i] + 1
    BY DEF ClearedValues
  <2>2. i <= j
    BY <1>0
  <2>3. m[c] = FalseMarker
    BY <2>1, <2>2 DEF ScanState
  <2> QED BY <1>2, <2>3 DEF Orig
<1>3. ASSUME NEW c \in Settled(b), c \notin ClearedValues(b), c \notin TrackerLinks(b) PROVE m[c] = Orig(b, c)
  BY <1>3 DEF Orig, ScanState
<1> QED BY <1>1, <1>2, <1>3
-----------------------------------------------------------------------------
(* The types of words.                                                      *)
WordSet == [k : Kinds, v : Int \cup Tags, off : Int]
MemTyped(b, m) == DOMAIN m = DOMAIN b.mem /\ \A c \in DOMAIN m : m[c] \in WordSet

(* The words that the phases write have the type of words.                  *)
LEMMA WordTypes ==
  /\ \A a \in Int : /\ Ref(a) \in WordSet /\ Thread(a) \in WordSet /\ Ptr(a) \in WordSet
                    /\ Imm(a) \in WordSet /\ TaggedPtr(a) \in WordSet
  /\ \A t \in Tags, o \in Int : Hdr(t, o) \in WordSet
  /\ FalseMarker \in WordSet
BY DEF WordSet, Kinds, Ref, Thread, Ptr, Imm, TaggedPtr, Hdr, FalseMarker

(* Writing a word keeps the type of the memory.                             *)
LEMMA TypedUpdate ==
  ASSUME NEW b, NEW m, MemTyped(b, m), NEW c \in DOMAIN m, NEW w \in WordSet
  PROVE  MemTyped(b, [m EXCEPT ![c] = w])
<1> DEFINE m1 == [m EXCEPT ![c] = w]
<1>1. DOMAIN m1 = DOMAIN m /\ \A x \in DOMAIN m : m1[x] = IF x = c THEN w ELSE m[x]
  OBVIOUS
<1>2. DOMAIN m = DOMAIN b.mem /\ \A x \in DOMAIN m : m[x] \in WordSet
  BY DEF MemTyped
<1> HIDE DEF m1
<1>3. \A x \in DOMAIN m1 : m1[x] \in WordSet
  BY <1>1, <1>2
<1>4. MemTyped(b, m1)
  BY <1>1, <1>2, <1>3 DEF MemTyped
<1> QED BY <1>4 DEF m1

(* HeapTypeOK in these terms.                                               *)
LEMMA TypesAre ==
  HeapTypeOK <=>
    /\ MemTyped(before, mem)
    /\ top \in Nat /\ 0 .. top - 1 \subseteq DOMAIN mem
    /\ marks \subseteq before.marks
    /\ compactionStart \in 0 .. top /\ oldObjectsEnd \in 0 .. top
    /\ phase \in CollectPhases
    /\ p \in Int /\ todo \subseteq DOMAIN mem
    /\ offset \in Int /\ offset <= 0
    /\ dead \in Nat /\ live \in Nat
BY DEF HeapTypeOK, MemTyped, WordSet
-----------------------------------------------------------------------------
(* A round of scan-liveness-trackers keeps the invariant.                   *)
LEMMA ScanTracker_Inv == CollectInv /\ ScanTracker => CollectInv'
<1> SUFFICES ASSUME CollectInv, ScanTracker PROVE CollectInv'
  OBVIOUS
<1> DEFINE b == before
           s == before.trackers
           tracker == mem[p].v
<1>1. /\ phase = "trackers" /\ phase' = "trackers" /\ mem[p].v # Null
      /\ UNCHANGED <<areas, marks, phase, todo, ranges, before>>
  BY DEF ScanTracker
<1>2. /\ top' = top /\ compactionStart' = compactionStart /\ oldObjectsEnd' = oldObjectsEnd
      /\ offset' = offset /\ dead' = dead /\ live' = live
      /\ marks' = marks /\ todo' = todo /\ before' = before
  BY <1>1 DEF areas, ranges
<1>3. HeapTypeOK /\ Facts(before) /\ IdleInv /\ PhaseInv
  BY DEF CollectInv
<1>4. marks = before.marks /\ Fits(before, top) /\ ScanInv(before, mem, p)
  BY <1>1, <1>3 DEF PhaseInv
<1>5. PICK j \in 0 .. Len(before.trackers), l \in Kept(before) \cup {0} : ScanState(before, mem, p, j, l)
  BY <1>4 DEF ScanInv
<1>6. NextTracker(before, mem, p, j) /\ p \in DOMAIN before.mem
  BY <1>1, <1>3, <1>5, ScanNext
<1>7. /\ j + 1 \in DOMAIN s /\ tracker = s[j + 1] + 1 /\ s[j + 1] \in Nat /\ j \in Nat
      /\ mem[tracker] = before.mem[tracker]
      /\ mem[tracker + 1] = Ptr(NextLink(s, DOMAIN s, j + 1))
      /\ j + 1 \in 0 .. Len(s)
  <2>1. j + 1 \in DOMAIN s /\ s \in Seq(Nat)
    BY <1>3, <1>6 DEF NextTracker, Facts
  <2> QED BY <2>1, <1>6 DEF NextTracker
<1>8. /\ tracker - 1 = s[j + 1] /\ TrackerTail(tracker) = tracker + 1 /\ tracker + 1 = s[j + 1] + 2
      /\ tracker \in DOMAIN mem /\ tracker + 1 \in DOMAIN mem /\ p \in DOMAIN mem
  <2>1. s[j + 1] + 1 \in DOMAIN before.mem /\ s[j + 1] + 2 \in DOMAIN before.mem
    BY <1>3, <1>7, TrackerCellIn
  <2>2. DOMAIN mem = DOMAIN before.mem
    BY <1>3 DEF HeapTypeOK
  <2>3. s[j + 1] \in Int
    BY <1>7
  <2>4. tracker - 1 = s[j + 1] /\ tracker + 1 = s[j + 1] + 2
    BY <2>3, <1>7
  <2> HIDE DEF s, tracker
  <2> QED BY <1>6, <1>7, <2>1, <2>2, <2>4 DEF TrackerTail
<1>9. ValueIsLive(tracker) <=> before.mem[s[j + 1] + 1].v \in before.marks
  BY <1>4, <1>7 DEF ValueIsLive
<1>10. j + 1 \in Kept(before) <=> s[j + 1] \in before.marks /\ ValueIsLive(tracker)
  BY <1>7, <1>9 DEF Kept
<1>11. MemTyped(before, mem) /\ mem[tracker + 1] \in WordSet
  BY <1>3, <1>8, TypesAre DEF MemTyped
<1>12. ASSUME s[j + 1] \notin before.marks \/ ~ValueIsLive(tracker), p' = p,
              mem' = IF s[j + 1] \in before.marks
                     THEN [mem EXCEPT ![tracker] = FalseMarker, ![p] = mem[tracker + 1]]
                     ELSE [mem EXCEPT ![p] = mem[tracker + 1]]
       PROVE  ScanInv(before, mem', p') /\ MemTyped(before, mem') /\ p' \in Int
  <2>1. j + 1 \notin Kept(before)
    BY <1>10, <1>12
  <2>2. ScanState(before, mem', p, j + 1, l)
    <3>1. DOMAIN mem = DOMAIN before.mem
      BY <1>3 DEF HeapTypeOK
    <3>2. mem' = IF before.trackers[j + 1] \in before.marks
                 THEN [mem EXCEPT ![before.trackers[j + 1] + 1] = FalseMarker, ![p] = mem[tracker + 1]]
                 ELSE [mem EXCEPT ![p] = mem[tracker + 1]]
      BY <1>7, <1>12
    <3>3. mem[tracker + 1] = Ptr(NextLink(before.trackers, DOMAIN before.trackers, j + 1))
      BY <1>7
    <3>4. j + 1 \in DOMAIN before.trackers
      BY <1>7
    <3> DEFINE w == mem[tracker + 1]
               m1 == mem'
    <3>5. w = Ptr(NextLink(before.trackers, DOMAIN before.trackers, j + 1))
      BY <3>3
    <3>6. m1 = IF before.trackers[j + 1] \in before.marks
                 THEN [mem EXCEPT ![before.trackers[j + 1] + 1] = FalseMarker, ![p] = w]
                 ELSE [mem EXCEPT ![p] = w]
      BY <3>2
    <3> HIDE DEF s, tracker, w, m1
    <3>7. ScanState(before, m1, p, j + 1, l)
      BY <1>3, <1>5, <2>1, <3>1, <3>4, <3>5, <3>6, ScanDrops
    <3> QED BY <3>7 DEF m1
  <2>3. ScanInv(before, mem', p')
    BY <1>7, <1>12, <2>2 DEF ScanInv
  <2>4. MemTyped(before, [mem EXCEPT ![tracker] = FalseMarker])
    BY <1>8, <1>11, WordTypes, TypedUpdate
  <2>5. MemTyped(before, [[mem EXCEPT ![tracker] = FalseMarker] EXCEPT ![p] = mem[tracker + 1]])
    <3> DEFINE m2 == [mem EXCEPT ![tracker] = FalseMarker]
    <3>1. p \in DOMAIN m2
      BY <1>8
    <3> HIDE DEF m2, tracker
    <3>2. MemTyped(before, m2)
      BY <2>4 DEF m2
    <3>3. MemTyped(before, [m2 EXCEPT ![p] = mem[tracker + 1]])
      BY <1>11, <3>1, <3>2, TypedUpdate
    <3> QED BY <3>3 DEF m2
  <2>6. MemTyped(before, [mem EXCEPT ![p] = mem[tracker + 1]])
    <3> HIDE DEF tracker
    <3> QED BY <1>8, <1>11, TypedUpdate
  <2>7. MemTyped(before, mem')
    BY <1>12, <2>5, <2>6
  <2> QED BY <2>3, <2>7, <1>3, <1>12 DEF HeapTypeOK
<1>13. ASSUME j + 1 \in Kept(before), p' = tracker + 1, mem' = mem
       PROVE  ScanInv(before, mem', p') /\ MemTyped(before, mem') /\ p' \in Int
  <2>1. ScanState(before, mem, before.trackers[j + 1] + 2, j + 1, j + 1)
    <3> HIDE DEF s, tracker
    <3> QED BY <1>1, <1>3, <1>5, <1>13, ScanKeeps
  <2>2. p' = before.trackers[j + 1] + 2 /\ p' \in Int
    BY <1>7, <1>8, <1>13
  <2>3. j + 1 \in 0 .. Len(before.trackers) /\ j + 1 \in Kept(before) \cup {0}
    BY <1>7, <1>13
  <2>4. ScanInv(before, mem', p')
    BY <1>13, <2>1, <2>2, <2>3 DEF ScanInv
  <2> QED BY <1>11, <1>13, <2>2, <2>4
<1>14. ScanInv(before, mem', p') /\ MemTyped(before, mem') /\ p' \in Int
  <2>1. CASE s[j + 1] \notin before.marks /\ mem' = [mem EXCEPT ![p] = mem[tracker + 1]] /\ p' = p
    <3> HIDE DEF s, tracker
    <3> QED BY <2>1, <1>12
  <2>2. CASE /\ s[j + 1] \in before.marks /\ ~ValueIsLive(tracker) /\ p' = p
             /\ mem' = [mem EXCEPT ![tracker] = FalseMarker, ![p] = mem[tracker + 1]]
    <3> HIDE DEF s, tracker
    <3> QED BY <2>2, <1>12
  <2>3. CASE s[j + 1] \in before.marks /\ ValueIsLive(tracker) /\ p' = tracker + 1 /\ mem' = mem
    <3> HIDE DEF s, tracker
    <3> QED BY <2>3, <1>10, <1>13
  <2> QED BY <2>1, <2>2, <2>3, <1>1, <1>4, <1>8 DEF ScanTracker
<1>15. HeapTypeOK'
  <2>1. DOMAIN mem' = DOMAIN mem
    BY <1>11, <1>14 DEF MemTyped
  <2> QED BY <1>1, <1>2, <1>3, <1>14, <2>1 DEF HeapTypeOK, MemTyped, WordSet
<1> QED BY <1>1, <1>2, <1>3, <1>4, <1>14, <1>15 DEF CollectInv, IdleInv, PhaseInv

(* When it ends, exactly the kept trackers are on the list.                 *)
LEMMA TrackersScanned_Inv == CollectInv /\ TrackersScanned => CollectInv'
<1> SUFFICES ASSUME CollectInv, TrackersScanned PROVE CollectInv'
  OBVIOUS
<1>1. /\ phase = "trackers" /\ phase' = "solid" /\ mem[p].v = Null /\ p' = 0
      /\ top' = top /\ compactionStart' = compactionStart /\ oldObjectsEnd' = oldObjectsEnd
      /\ offset' = offset /\ dead' = dead /\ live' = live
      /\ mem' = mem /\ marks' = marks /\ todo' = todo /\ before' = before
  BY DEF TrackersScanned, areas, ranges
<1>3. HeapTypeOK /\ Facts(before) /\ IdleInv /\ PhaseInv
  BY DEF CollectInv
<1>4. marks = before.marks /\ Fits(before, top) /\ ScanInv(before, mem, p)
  BY <1>1, <1>3 DEF PhaseInv
<1>5. PICK j \in 0 .. Len(before.trackers), l \in Kept(before) \cup {0} : ScanState(before, mem, p, j, l)
  BY <1>4 DEF ScanInv
<1>6. \A c \in Settled(before) : mem[c] = Orig(before, c)
  BY <1>1, <1>3, <1>5, ScanEnds
<1>7. SolidInv(before, mem, top, marks, 0)
  <2>1. Keeps(before, mem, {})
    BY <1>6 DEF Keeps
  <2>2. \A a \in before.marks : mem[a] = Hdr(Tag(before.mem, a), 0) /\ a \in Nat
    BY <1>3, <1>6, SettledIs, OrigHeader, ObjectShape
  <2>3. top \in Nat
    BY <1>3 DEF HeapTypeOK
  <2>4. marks = From(before, 0) /\ EndsAt(before, 0)
    BY <1>4, <2>2 DEF From, EndsAt
  <2> QED BY <2>1, <2>2, <2>3, <2>4 DEF SolidInv
<1>8. HeapTypeOK'
  BY <1>1, <1>3 DEF HeapTypeOK, CollectPhases
<1> QED BY <1>1, <1>3, <1>4, <1>7, <1>8 DEF CollectInv, IdleInv, PhaseInv
-----------------------------------------------------------------------------
(* Going through the live objects from their start.                         *)
LEMMA NextObject ==
  ASSUME NEW b, Facts(b), NEW q \in b.marks, EndsAt(b, q)
  PROVE  /\ EndsAt(b, q + Words(b, q))
         /\ From(b, q + Words(b, q)) = From(b, q) \ {q}
         /\ \A c \in q .. q + Words(b, q) - 1 : IsLive(b, c)
         /\ q + Words(b, q) \in Nat
<1>1. q \in Nat /\ Words(b, q) \in Nat /\ Words(b, q) > 0
  BY ObjectShape
<1>2. ASSUME NEW a \in b.marks
      PROVE  a \in Nat /\ Words(b, a) \in Nat /\ ~(q < a /\ a < q + Words(b, q))
  <2>1. a \in Nat /\ Words(b, a) \in Nat /\ Words(b, a) > 0
    BY ObjectShape
  <2>2. ASSUME q < a, a < q + Words(b, q) PROVE FALSE
    <3>1. a \in Int /\ q <= a /\ a <= a /\ a < a + Words(b, a)
      BY <1>1, <2>1, <2>2
    <3>2. q = a
      BY <2>2, <3>1, ObjectsApart
    <3> QED BY <2>2, <3>2, <1>1
  <2> QED BY <2>1, <2>2
<1>3. EndsAt(b, q + Words(b, q))
  <2> SUFFICES ASSUME NEW a \in b.marks, a < q + Words(b, q)
               PROVE  a + Words(b, a) <= q + Words(b, q)
    BY DEF EndsAt
  <2>1. CASE a < q
    <3>1. a + Words(b, a) <= q
      BY <2>1 DEF EndsAt
    <3> QED BY <1>1, <1>2, <3>1
  <2>2. CASE a = q
    BY <1>1, <2>2
  <2> QED BY <1>1, <1>2, <2>1, <2>2
<1>4. From(b, q + Words(b, q)) = From(b, q) \ {q}
  BY <1>1, <1>2 DEF From
<1>5. \A c \in q .. q + Words(b, q) - 1 : IsLive(b, c)
  BY <1>1 DEF IsLive
<1> QED BY <1>1, <1>3, <1>4, <1>5

(* An unmarked word where an object could start is dead.                    *)
LEMMA DeadAt ==
  ASSUME NEW b, Facts(b), NEW q \in Nat, EndsAt(b, q), q \notin b.marks
  PROVE  ~IsLive(b, q)
<1> SUFFICES ASSUME NEW a \in b.marks, a <= q, q < a + Words(b, a) PROVE FALSE
  BY DEF IsLive
<1>1. a \in Nat /\ Words(b, a) \in Nat
  BY ObjectShape
<1>2. a < q
  BY <1>1
<1>3. a + Words(b, a) <= q
  BY <1>2 DEF EndsAt
<1> QED BY <1>1, <1>3

(* Above the last object every word is dead.                                *)
LEMMA DeadAbove ==
  ASSUME NEW b, Facts(b), NEW t \in Nat, Fits(b, t)
  PROVE  /\ \A c \in Int : c >= t => ~IsLive(b, c)
         /\ \A a \in b.marks : a < t
<1>1. \A a \in b.marks : a \in Nat /\ Words(b, a) \in Nat /\ Words(b, a) > 0 /\ a + Words(b, a) <= t
  BY ObjectShape DEF Fits
<1> QED BY <1>1 DEF IsLive

(* Below the first dead word nothing moves.                                 *)
LEMMA NewFixed ==
  ASSUME NEW b, NEW q \in Nat, \A c \in 0 .. q - 1 : IsLive(b, c), NEW x \in 0 .. q
  PROVE  New(b, x) = x
<1>1. x \in Nat /\ 0 \in Nat /\ 0 <= x /\ \A c \in 0 .. x - 1 : IsLive(b, c)
  OBVIOUS
<1>2. New(b, x) = New(b, 0) + (x - 0)
  BY <1>1, NewOverLive
<1> QED BY <1>1, <1>2, NewZero

(* A link leads to word 1 of a live object.                                 *)
LEMMA LinkTarget ==
  ASSUME NEW b, Facts(b), NEW c \in LinkCells(b)
  PROVE  /\ Orig(b, c) = Ptr(Orig(b, c).v)
         /\ Orig(b, c).v = Null \/ (Orig(b, c).v - 1 \in b.marks /\ Orig(b, c).v \in Nat)
<1>0. b.trackers \in Seq(Nat) /\ b.stacks \in Seq(Nat) /\ Kept(b) \subseteq DOMAIN b.trackers
  BY DEF Facts, Kept
<1>1. CASE c \in TrackerLinks(b)
  <2>1. PICK i \in Kept(b) \cup {0} : c = TrackerCell(b, i)
    BY <1>1 DEF TrackerLinks
  <2>2. Orig(b, c) = Ptr(NextLink(b.trackers, Kept(b), i))
    BY <2>1, OrigTrackerLink
  <2>3. Kept(b) \subseteq Nat /\ i \in Nat
    BY <1>0
  <2>4. NextLink(b.trackers, Kept(b), i) = Null \/ \E k \in Kept(b) : NextLink(b.trackers, Kept(b), i) = b.trackers[k] + 1
    BY <2>3, NextIs
  <2>5. \A k \in Kept(b) : b.trackers[k] \in b.marks /\ b.trackers[k] \in Nat
    BY <1>0 DEF Kept
  <2>6. Orig(b, c).v = NextLink(b.trackers, Kept(b), i)
    BY <2>2 DEF Ptr
  <2> QED BY <2>2, <2>4, <2>5, <2>6
<1>2. CASE c \in StackLinks(b)
  <2>1. PICK i \in DOMAIN b.stacks \cup {0} : c = StackCell(b, i)
    BY <1>2 DEF StackLinks
  <2>2. Orig(b, c) = Ptr(NextLink(b.stacks, DOMAIN b.stacks, i))
    BY <2>1, OrigStackLink
  <2>3. DOMAIN b.stacks \subseteq Nat /\ i \in Nat
    BY <1>0
  <2>4. \/ NextLink(b.stacks, DOMAIN b.stacks, i) = Null
        \/ \E k \in DOMAIN b.stacks : NextLink(b.stacks, DOMAIN b.stacks, i) = b.stacks[k] + 1
    BY <2>3, NextIs
  <2>5. \A k \in DOMAIN b.stacks : b.stacks[k] \in b.marks /\ b.stacks[k] \in Nat
    BY StackIs
  <2>6. Orig(b, c).v = NextLink(b.stacks, DOMAIN b.stacks, i)
    BY <2>2 DEF Ptr
  <2> QED BY <2>2, <2>4, <2>5, <2>6
<1> QED BY <1>1, <1>2 DEF LinkCells

(* A word of the heap before the collection that is a reference.            *)
LEMMA RefWord ==
  ASSUME NEW b, Facts(b), NEW c \in DOMAIN b.mem
  PROVE  b.mem[c] \in WordSet /\ (b.mem[c].k = "ref" => b.mem[c] = Ref(b.mem[c].v))
<1>1. b.mem[c] \in [k : Kinds, v : Int \cup Tags, off : {0}]
  BY DEF Facts
<1>2. b.mem[c] \in WordSet
  BY <1>1 DEF WordSet
<1>3. b.mem[c] = [k |-> b.mem[c].k, v |-> b.mem[c].v, off |-> 0]
  BY <1>1
<1> QED BY <1>2, <1>3 DEF Ref

(* Where no object moves nothing is relocated.                              *)
LEMMA FinalFixed ==
  ASSUME NEW b, Facts(b), NEW t \in Nat, Fits(b, t), \A c \in 0 .. t - 1 : IsLive(b, c),
         NEW c \in Settled(b)
  PROVE  Final(b, c) = Orig(b, c)
<1>1. \A a \in b.marks : New(b, a) = a
  <2> TAKE a \in b.marks
  <2>1. a \in Nat /\ a < t
    BY DeadAbove, ObjectShape
  <2>2. a \in 0 .. t
    BY <2>1
  <2> QED BY <2>2, NewFixed
<1>2. CASE c \in RefCells(b)
  <2>1. Orig(b, c) = b.mem[c] /\ Final(b, c) = NewRef(b, b.mem[c]) /\ (b.mem[c].k = "ref" => b.mem[c].v \in b.marks)
    BY <1>2, OrigRef
  <2>2. c \in DOMAIN b.mem
    BY SettledIs
  <2>3. b.mem[c].k = "ref" => b.mem[c] = Ref(b.mem[c].v)
    BY <2>2, RefWord
  <2> QED BY <1>1, <2>1, <2>3 DEF NewRef
<1>3. CASE c \in LinkCells(b)
  <2>1. Orig(b, c) = Ptr(Orig(b, c).v)
    BY <1>3, LinkTarget
  <2>2. Orig(b, c).v = Null \/ (Orig(b, c).v - 1 \in b.marks /\ Orig(b, c).v \in Nat)
    BY <1>3, LinkTarget
  <2>3. Final(b, c) = NewPtr(b, Orig(b, c))
    BY <1>3, LinkCellsApart DEF Final
  <2>4. Orig(b, c).v # Null => New(b, Orig(b, c).v - 1) + 1 = Orig(b, c).v
    BY <1>1, <2>2
  <2> QED BY <2>1, <2>3, <2>4 DEF NewPtr
<1> QED BY <1>2, <1>3 DEF Final
-----------------------------------------------------------------------------
(* Skipping an object of the solid prefix.                                  *)
LEMMA SkipLive_Inv == CollectInv /\ SkipLive => CollectInv'
<1> SUFFICES ASSUME CollectInv, SkipLive PROVE CollectInv'
  OBVIOUS
<1>1. /\ phase = "solid" /\ phase' = "solid" /\ p < top /\ p \in marks
      /\ top' = top /\ compactionStart' = compactionStart /\ oldObjectsEnd' = oldObjectsEnd
      /\ offset' = offset /\ dead' = dead /\ live' = live
      /\ mem' = mem /\ todo' = todo /\ before' = before
      /\ marks' = marks \ {p} /\ p' = p + AllocationSize(mem, p)
  BY DEF SkipLive, ClearMark, areas, ranges
<1>2. HeapTypeOK /\ Facts(before) /\ IdleInv /\ PhaseInv
  BY DEF CollectInv
<1>3. Fits(before, top) /\ SolidInv(before, mem, top, marks, p)
  BY <1>1, <1>2 DEF PhaseInv
<1>4. p \in before.marks /\ EndsAt(before, p) /\ p \in Nat /\ top \in Nat
  BY <1>1, <1>2, <1>3 DEF SolidInv, From, HeapTypeOK
<1> DEFINE q == p + Words(before, p)
<1>5. p' = q
  <2>1. mem[p] = Hdr(Tag(before.mem, p), 0)
    BY <1>3, <1>4 DEF SolidInv
  <2>2. AllocationSize(mem, p) = Words(before, p)
    BY <2>1 DEF AllocationSize, Words, Tag, Hdr
  <2> QED BY <1>1, <2>2
<1>6. Words(before, p) \in Nat /\ p + Words(before, p) <= top
  BY <1>2, <1>3, <1>4, ObjectShape DEF Fits
<1>7. /\ EndsAt(before, q) /\ From(before, q) = From(before, p) \ {p}
      /\ \A c \in p .. q - 1 : IsLive(before, c)
      /\ q \in Nat /\ q <= top
  <2>1. /\ EndsAt(before, p + Words(before, p)) /\ From(before, p + Words(before, p)) = From(before, p) \ {p}
        /\ \A c \in p .. p + Words(before, p) - 1 : IsLive(before, c)
        /\ p + Words(before, p) \in Nat
    BY <1>2, <1>4, NextObject
  <2>2. q <= top
    BY <1>6
  <2>3. \A c \in p .. q - 1 : IsLive(before, c)
    BY <1>4, <1>6, <2>1
  <2> QED BY <2>1, <2>2, <2>3
<1> HIDE DEF q
<1>8. SolidInv(before, mem, top, marks', q)
  <2>1. \A c \in 0 .. q - 1 : IsLive(before, c)
    <3>1. \A c \in 0 .. p - 1 : IsLive(before, c)
      BY <1>3 DEF SolidInv
    <3> QED BY <3>1, <1>4, <1>7
  <2>2. marks' = From(before, q)
    BY <1>1, <1>3, <1>7 DEF SolidInv
  <2> QED BY <1>3, <1>7, <2>1, <2>2 DEF SolidInv
<1>9. HeapTypeOK'
  BY <1>1, <1>2, <1>5, <1>7 DEF HeapTypeOK
<1> QED BY <1>1, <1>2, <1>3, <1>5, <1>8, <1>9 DEF CollectInv, IdleInv, PhaseInv

(* When the area is opened no slot is on the list of an object.             *)
LEMMA NothingThreaded ==
  ASSUME NEW b, Facts(b), NEW m, NEW q \in Nat,
         Keeps(b, m, {}), \A a \in b.marks : m[a] = Hdr(Tag(b.mem, a), 0)
  PROVE  Threading(b, m, q, q, DoneSlots(b, q, q, {}), FALSE)
<1> DEFINE ch == [h \in b.marks |-> << >>]
<1>1. DoneSlots(b, q, q, {}) = {}
  <2>1. {x \in b.marks : q <= x /\ x < q} = {}
    BY ObjectShape
  <2>2. UNION {Slots(b.mem, a) : a \in {x \in b.marks : q <= x /\ x < q}} = {}
    BY <2>1
  <2> QED BY <2>2 DEF DoneSlots
<1>2. \A h \in b.marks : Chain(b, m, h, << >>)
  BY DEF Chain, Injective
<1>3. ch \in [b.marks -> Seq(Int)] /\ \A h \in b.marks : ch[h] = << >>
  OBVIOUS
<1>4. Offsets(b, m, q, q)
  BY DEF Offsets
<1> HIDE DEF ch
<1>5. From(b, q) \subseteq b.marks
  BY DEF From
<1>6. \A h \in From(b, q) : Chain(b, m, h, ch[h])
  BY <1>2, <1>3, <1>5
<1>7. \A h \in From(b, q) : \A i \in DOMAIN ch[h] : ch[h][i] \in {} /\ Orig(b, ch[h][i]) = Ref(h)
  BY <1>3, <1>5
<1>8. \A c \in Settled(b) \ b.marks : c \notin {} => m[c] = Orig(b, c)
  BY DEF Keeps
<1>9. ThreadState(b, m, q, q, {}, FALSE, ch)
  BY <1>3, <1>4, <1>6, <1>7, <1>8 DEF ThreadState
<1> QED BY <1>1, <1>9 DEF Threading

(* A heap without a dead word is already what the collection should leave.  *)
LEMMA NothingMoves ==
  ASSUME NEW b, Facts(b), NEW m, NEW t \in Nat, Fits(b, t), SolidInv(b, m, t, {}, t)
  PROVE  DoneInv(b, m, t, t, {})
<1>1. Keeps(b, m, {}) /\ (\A a \in b.marks : m[a] = Hdr(Tag(b.mem, a), 0)) /\ \A c \in 0 .. t - 1 : IsLive(b, c)
  BY DEF SolidInv
<1>2. \A c \in Settled(b) : Final(b, c) = Orig(b, c)
  BY <1>1, FinalFixed
<1>3. \A c \in Settled(b) : m[c] = Final(b, c)
  <2> TAKE c \in Settled(b)
  <2>1. CASE c \in b.marks
    BY <1>1, <1>2, <2>1, OrigHeader
  <2>2. CASE c \notin b.marks
    BY <1>1, <1>2, <2>2 DEF Keeps
  <2> QED BY <2>1, <2>2
<1>4. \A c \in Cells : m[c] = Final(b, c)
  BY <1>3 DEF Settled
<1>5. \A c \in Nat : IsLive(b, c) => m[New(b, c)] = Final(b, c)
  <2> SUFFICES ASSUME NEW c \in Nat, IsLive(b, c) PROVE m[New(b, c)] = Final(b, c)
    OBVIOUS
  <2>1. c \in Settled(b)
    BY LiveWordIs DEF Settled
  <2>2. c \in 0 .. t
    BY DeadAbove
  <2>3. New(b, c) = c
    BY <1>1, <2>2, NewFixed
  <2> QED BY <1>3, <2>1, <2>3
<1>6. New(b, t) = t
  <2>1. t \in 0 .. t
    OBVIOUS
  <2> QED BY <1>1, <2>1, NewFixed
<1> QED BY <1>4, <1>5, <1>6 DEF DoneInv

(* The first dead word opens the area, or the collection is over.           *)
LEMMA EndOfSolidPrefix_Inv == CollectInv /\ EndOfSolidPrefix => CollectInv'
<1> SUFFICES ASSUME CollectInv, EndOfSolidPrefix PROVE CollectInv'
  OBVIOUS
<1>1. /\ phase = "solid" /\ (p >= top \/ p \notin marks)
      /\ top' = top /\ p' = p /\ offset' = offset /\ live' = live
      /\ mem' = mem /\ todo' = todo /\ before' = before /\ marks' = marks
  BY DEF EndOfSolidPrefix
<1>2. HeapTypeOK /\ Facts(before) /\ IdleInv /\ PhaseInv
  BY DEF CollectInv
<1>3. Fits(before, top) /\ SolidInv(before, mem, top, marks, p)
  BY <1>1, <1>2 DEF PhaseInv
<1>4. EndsAt(before, p) /\ p \in Nat /\ top \in Nat /\ p <= top /\ marks = From(before, p)
  BY <1>2, <1>3 DEF SolidInv, HeapTypeOK
<1>5. CASE p < top
  <2>1. phase' = "gap" /\ compactionStart' = p /\ dead' = p /\ oldObjectsEnd' = oldObjectsEnd
    BY <1>5 DEF EndOfSolidPrefix
  <2>2. p \notin before.marks
    BY <1>1, <1>4, <1>5 DEF EndOfSolidPrefix, From
  <2>3. ~IsLive(before, p)
    BY <1>2, <1>4, <2>2, DeadAt
  <2>4. \A c \in 0 .. p - 1 : IsLive(before, c)
    BY <1>3 DEF SolidInv
  <2>5. offset = New(before, p) - p
    <3>1. p \in 0 .. p
      BY <1>4
    <3>2. New(before, p) = p
      BY <1>4, <2>4, <3>1, NewFixed
    <3> QED BY <1>1, <1>2, <1>4, <3>2 DEF IdleInv
  <2>6. Threading(before, mem, p, p, DoneSlots(before, p, p, {}), FALSE)
    BY <1>2, <1>3, <1>4, NothingThreaded DEF SolidInv
  <2>7. Breaks(before, mem, p, p, p)
    BY <1>4 DEF Breaks
  <2>8. GapInv(before, mem, top, marks, p, p, p, offset)
    <3>1. Area(before, top, p)
      BY <1>3, <1>4, <1>5, <2>3, <2>4 DEF Area
    <3>2. p <= p /\ p <= top
      BY <1>4
    <3> QED BY <1>4, <1>5, <2>3, <2>5, <2>6, <2>7, <3>1, <3>2 DEF GapInv
  <2>9. HeapTypeOK'
    BY <1>1, <1>2, <1>4, <2>1 DEF HeapTypeOK, CollectPhases
  <2> QED BY <1>1, <1>2, <2>1, <2>8, <2>9 DEF CollectInv, IdleInv, PhaseInv
<1>6. CASE ~(p < top)
  <2>1. phase' = "done" /\ oldObjectsEnd' = top /\ compactionStart' = compactionStart /\ dead' = dead
    BY <1>6 DEF EndOfSolidPrefix
  <2>2. p = top
    BY <1>4, <1>6
  <2>3. marks = {}
    <3>1. \A a \in before.marks : a \in Nat /\ a < top
      BY <1>2, <1>3, <1>4, DeadAbove, ObjectShape
    <3> QED BY <1>4, <2>2, <3>1 DEF From
  <2>4. DoneInv(before, mem, top, top, {})
    BY <1>2, <1>3, <1>4, <2>2, <2>3, NothingMoves
  <2>5. HeapTypeOK'
    BY <1>1, <1>2, <1>4, <2>1 DEF HeapTypeOK, CollectPhases
  <2> QED BY <1>1, <1>2, <2>1, <2>3, <2>4, <2>5 DEF CollectInv, IdleInv, PhaseInv
<1> QED BY <1>5, <1>6
-----------------------------------------------------------------------------
(* Creating the live ranges.  Between two of them nothing happens to the    *)
(* words that matter.                                                       *)
LEMMA ThreadFrame ==
  ASSUME NEW b, Facts(b), NEW m, NEW m1, NEW cs, NEW q, NEW D, NEW partly, NEW ch,
         ThreadState(b, m, cs, q, D, partly, ch), D \subseteq Settled(b),
         \A c \in Settled(b) : m1[c] = m[c]
  PROVE  ThreadState(b, m1, cs, q, D, partly, ch)
<1>1. b.marks \subseteq Settled(b) /\ From(b, q) \subseteq b.marks
  BY SettledIs DEF From
<1>2. \A h \in From(b, q) : Chain(b, m1, h, ch[h])
  <2> TAKE h \in From(b, q)
  <2>1. Chain(b, m, h, ch[h]) /\ (\A i \in DOMAIN ch[h] : ch[h][i] \in D) /\ ch[h] \in Seq(Int)
    BY <1>1 DEF ThreadState
  <2>2. \A i \in 0 .. Len(ch[h]) : (IF i = 0 THEN h ELSE ch[h][i]) \in Settled(b)
    <3> TAKE i \in 0 .. Len(ch[h])
    <3>1. CASE i = 0
      BY <3>1, <1>1
    <3>2. CASE i # 0
      <4>1. i \in DOMAIN ch[h]
        BY <3>2, <2>1
      <4> QED BY <3>2, <4>1, <2>1
    <3> QED BY <3>1, <3>2
  <2> QED BY <2>1, <2>2 DEF Chain
<1>3. \A c \in D : m1[c] = Final(b, c) \/ \E h \in From(b, q) : c \in Range(ch[h])
  <2>1. \A c \in D : m[c] = Final(b, c) \/ \E h \in From(b, q) : c \in Range(ch[h])
    BY DEF ThreadState
  <2> QED BY <2>1
<1>4. \A c \in Settled(b) \ b.marks : c \notin D => m1[c] = Orig(b, c)
  <2>1. \A c \in Settled(b) \ b.marks : c \notin D => m[c] = Orig(b, c)
    BY DEF ThreadState
  <2> QED BY <2>1
<1>5. Offsets(b, m1, cs, q)
  <2>1. Offsets(b, m, cs, q)
    BY DEF ThreadState
  <2> QED BY <2>1, <1>1 DEF Offsets
<1>6. /\ ch \in [b.marks -> Seq(Int)]
      /\ \A h \in From(b, q) : \A i \in DOMAIN ch[h] : ch[h][i] \in D /\ Orig(b, ch[h][i]) = Ref(h)
      /\ \A c \in D : \A h \in From(b, q) : Orig(b, c) = Ref(h) /\ (partly => h # q) => c \in Range(ch[h])
  BY DEF ThreadState
<1> QED BY <1>2, <1>3, <1>4, <1>5, <1>6 DEF ThreadState

(* The slots that have been visited are slots of live objects.              *)
LEMMA DoneSlotsAre ==
  ASSUME NEW b, Facts(b), NEW cs, NEW q, NEW td
  PROVE  DoneSlots(b, cs, q, td) \subseteq SlotCells(b) /\ DoneSlots(b, cs, q, td) \subseteq Settled(b)
<1>1. DoneSlots(b, cs, q, td) \subseteq SlotCells(b)
  BY DEF DoneSlots, SlotCells
<1> QED BY <1>1, SettledIs DEF RefCells

(* The next marked object starts a live range.                              *)
LEMMA GapToLive ==
  ASSUME NEW b, Facts(b), NEW m, NEW t \in Nat, NEW mk, NEW cs \in Nat, NEW dd \in Nat, NEW off,
         GapInv(b, m, t, mk, cs, dd, dd, off),
         NEW a \in mk, a >= dd, \A x \in mk : x >= dd => a <= x
  PROVE  /\ LiveInv(b, m, t, mk, cs, a, {}, dd, a, off - (a - dd), FALSE)
         /\ a \in Nat
<1>1. a \in b.marks /\ mk = From(b, dd)
  BY DEF GapInv, From
<1>2. \A x \in b.marks : x \in Nat /\ Words(b, x) \in Nat /\ Words(b, x) > 0
  BY ObjectShape
<1>3. a \in Nat /\ \A x \in b.marks : x >= dd => a <= x
  BY <1>1, <1>2 DEF From
<1>4. \A x \in b.marks : x < dd => x + Words(b, x) <= dd
  BY DEF GapInv, EndsAt
<1>5. \A c \in dd .. a - 1 : ~IsLive(b, c)
  <2> SUFFICES ASSUME NEW c \in dd .. a - 1, NEW x \in b.marks, x <= c, c < x + Words(b, x) PROVE FALSE
    BY DEF IsLive
  <2>1. CASE x < dd
    BY <1>2, <1>3, <1>4, <2>1
  <2>2. CASE x >= dd
    BY <1>2, <1>3, <2>2
  <2> QED BY <1>2, <2>1, <2>2
<1>6. New(b, a) = New(b, dd)
  BY <1>3, <1>5, NewOverDead
<1>7. EndsAt(b, a)
  <2> SUFFICES ASSUME NEW x \in b.marks, x < a PROVE x + Words(b, x) <= a
    BY DEF EndsAt
  <2>1. x < dd
    BY <1>2, <1>3
  <2> QED BY <1>2, <1>3, <1>4, <2>1
<1>8. dd < a
  <2>1. IsLive(b, a)
    BY <1>1, <1>2 DEF IsLive
  <2>2. ~IsLive(b, dd)
    BY DEF GapInv
  <2>3. dd # a
    BY <2>1, <2>2
  <2> QED BY <2>3, <1>3
<1>9. From(b, a) = From(b, dd)
  BY <1>2, <1>3 DEF From
<1>10. \A x \in b.marks : x < a <=> x < dd
  BY <1>2, <1>3
<1>11. DoneSlots(b, cs, a, {}) = DoneSlots(b, cs, dd, {})
  <2>1. {x \in b.marks : cs <= x /\ x < a} = {x \in b.marks : cs <= x /\ x < dd}
    BY <1>10
  <2> QED BY <2>1 DEF DoneSlots
<1>12. Threading(b, m, cs, a, DoneSlots(b, cs, a, {}), FALSE)
  <2> DEFINE D == DoneSlots(b, cs, dd, {})
  <2>1. PICK ch : ThreadState(b, m, cs, dd, D, FALSE, ch)
    BY DEF GapInv, Threading
  <2> HIDE DEF D
  <2>2. Offsets(b, m, cs, a)
    <3>1. Offsets(b, m, cs, dd)
      BY <2>1 DEF ThreadState
    <3> QED BY <3>1, <1>10 DEF Offsets
  <2>3. ThreadState(b, m, cs, a, D, FALSE, ch)
    BY <2>1, <2>2, <1>9 DEF ThreadState
  <2> QED BY <2>3, <1>11 DEF Threading, D
<1>13. a <= t
  <2>1. Fits(b, t)
    BY DEF GapInv, Area
  <2>2. a < t
    BY <1>1, <2>1, DeadAbove
  <2> QED BY <2>2, <1>3
<1>14. \A c \in a .. a - 1 : IsLive(b, c)
  BY <1>3
<1>15. off - (a - dd) = New(b, a) - a
  <2>1. off = New(b, dd) - dd /\ New(b, dd) \in Nat
    BY NewIs DEF GapInv
  <2> QED BY <2>1, <1>3, <1>6
<1>16. /\ Area(b, t, cs) /\ cs <= dd /\ cs < t /\ BreakAt(b, cs, dd)
       /\ Breaks(b, m, cs, cs, dd)
  BY DEF GapInv, BreakAt
<1>17. a <= a
  BY <1>3
<1> QED BY <1>1, <1>3, <1>5, <1>7, <1>8, <1>9, <1>12, <1>13, <1>14, <1>15, <1>16, <1>17 DEF LiveInv

(* Without one all offsets and references of the area are right.            *)
LEMMA AreaDone ==
  ASSUME NEW b, Facts(b), NEW m, NEW t \in Nat, NEW mk, NEW cs \in Nat, NEW dd \in Nat, NEW off,
         GapInv(b, m, t, mk, cs, dd, dd, off), \A a \in mk : a < dd
  PROVE  /\ RelocInv(b, m, dd, mk, cs, dd, PrefixDone(b, cs, 0, {}))
         /\ PrefixInv(b, cs, 0, {})
<1>0. /\ Area(b, t, cs) /\ cs <= dd /\ EndsAt(b, dd) /\ mk = From(b, dd)
      /\ Breaks(b, m, cs, cs, dd)
  BY DEF GapInv
<1>1. \A x \in b.marks : x \in Nat /\ Words(b, x) \in Nat /\ Words(b, x) > 0
  BY ObjectShape
<1>2. \A x \in b.marks : x < dd
  BY <1>0, <1>1 DEF From
<1>3. mk = {} /\ From(b, dd) = {}
  BY <1>0, <1>1, <1>2 DEF From
<1>4. Area(b, dd, cs)
  <2>1. Fits(b, dd)
    BY <1>0, <1>2 DEF Fits, EndsAt
  <2> QED BY <1>0, <2>1 DEF Area
<1>5. PrefixDone(b, cs, 0, {}) = DoneSlots(b, cs, dd, {})
  <2>1. {x \in b.marks : cs <= x \/ x < 0} = {x \in b.marks : cs <= x /\ x < dd}
    BY <1>1, <1>2
  <2> QED BY <2>1 DEF PrefixDone, DoneSlots
<1> DEFINE D == DoneSlots(b, cs, dd, {})
<1>6. PICK ch : ThreadState(b, m, cs, dd, D, FALSE, ch)
  BY DEF GapInv, Threading
<1> HIDE DEF D
<1>7. Offsets(b, m, cs, dd)
  BY <1>6 DEF ThreadState
<1>8. Keeps(b, m, D)
  <2>1. \A c \in D : m[c] = Final(b, c)
    BY <1>3, <1>6 DEF ThreadState
  <2>2. \A c \in Settled(b) \ b.marks : c \notin D => m[c] = Orig(b, c)
    BY <1>6 DEF ThreadState
  <2> QED BY <2>1, <2>2 DEF Keeps
<1>9. PrefixInv(b, cs, 0, {})
  <2>1. EndsAt(b, 0)
    BY <1>1 DEF EndsAt
  <2> QED BY <2>1 DEF PrefixInv
<1> QED BY <1>0, <1>3, <1>4, <1>5, <1>7, <1>8, <1>9 DEF RelocInv, D

(* The step that looks for the next live range.                             *)
LEMMA FindLiveRange_Inv == CollectInv /\ FindLiveRange => CollectInv'
<1> SUFFICES ASSUME CollectInv, FindLiveRange PROVE CollectInv'
  OBVIOUS
<1>1. /\ phase = "gap" /\ dead < top
      /\ mem' = mem /\ marks' = marks /\ compactionStart' = compactionStart
      /\ oldObjectsEnd' = oldObjectsEnd /\ todo' = todo /\ dead' = dead /\ before' = before
  BY DEF FindLiveRange
<1>2. HeapTypeOK /\ Facts(before) /\ IdleInv /\ PhaseInv
  BY DEF CollectInv
<1>3. GapInv(before, mem, top, marks, compactionStart, dead, dead, offset)
  <2>1. GapInv(before, mem, top, marks, compactionStart, p, dead, offset)
    BY <1>1, <1>2 DEF PhaseInv
  <2>2. p = dead
    BY <2>1 DEF GapInv
  <2> QED BY <2>1, <2>2
<1>4. top \in Nat /\ compactionStart \in Nat /\ dead \in Nat /\ todo = {} /\ oldObjectsEnd = 0
      /\ offset \in Int /\ offset <= 0
  BY <1>1, <1>2 DEF HeapTypeOK, IdleInv
<1>5. CASE \E a \in marks :
          /\ a >= dead /\ \A b \in marks : b >= dead => a <= b
          /\ Accumulate(a - dead)
          /\ live' = a /\ p' = a
          /\ phase' = "live"
          /\ UNCHANGED top
  <2>1. PICK a \in marks :
          /\ a >= dead /\ \A b \in marks : b >= dead => a <= b
          /\ offset' = offset - (a - dead)
          /\ live' = a /\ p' = a
          /\ phase' = "live"
          /\ top' = top
    BY <1>5 DEF Accumulate
  <2>2. /\ LiveInv(before, mem, top, marks, compactionStart, a, {}, dead, a, offset - (a - dead), FALSE)
        /\ a \in Nat
    BY <1>2, <1>3, <1>4, <2>1, GapToLive
  <2>3. offset' \in Int /\ offset' <= 0
    BY <1>4, <2>1, <2>2
  <2>4. HeapTypeOK'
    BY <1>1, <1>2, <1>4, <2>1, <2>2, <2>3 DEF HeapTypeOK, CollectPhases
  <2>5. PhaseInv'
    BY <1>1, <1>4, <2>1, <2>2 DEF PhaseInv
  <2> QED BY <1>1, <1>2, <1>4, <2>1, <2>4, <2>5 DEF CollectInv, IdleInv
<1>6. CASE /\ \A a \in marks : a < dead
           /\ top' = dead /\ phase' = "prefix" /\ p' = 0
           /\ offset' = offset /\ live' = live
  <2>1. /\ RelocInv(before, mem, dead, marks, compactionStart, dead, PrefixDone(before, compactionStart, 0, {}))
        /\ PrefixInv(before, compactionStart, 0, {})
    BY <1>2, <1>3, <1>4, <1>6, AreaDone
  <2>2. compactionStart <= dead
    BY <1>3 DEF GapInv
  <2>3. HeapTypeOK'
    <3>1. 0 .. dead - 1 \subseteq DOMAIN mem
      BY <1>1, <1>2, <1>4 DEF HeapTypeOK
    <3> QED BY <1>1, <1>2, <1>4, <1>6, <2>2, <3>1 DEF HeapTypeOK, CollectPhases
  <2>4. PhaseInv'
    BY <1>1, <1>4, <1>6, <2>1 DEF PhaseInv
  <2> QED BY <1>1, <1>2, <1>4, <1>6, <2>3, <2>4 DEF CollectInv, IdleInv
<1> QED BY <1>5, <1>6 DEF FindLiveRange

(* The step that finds the end of the heap.                                 *)
LEMMA RangesDone_Inv == CollectInv /\ RangesDone => CollectInv'
<1> SUFFICES ASSUME CollectInv, RangesDone PROVE CollectInv'
  OBVIOUS
<1>1. /\ phase = "gap" /\ dead >= top /\ phase' = "prefix" /\ p' = 0
      /\ mem' = mem /\ marks' = marks /\ compactionStart' = compactionStart /\ top' = top
      /\ oldObjectsEnd' = oldObjectsEnd /\ todo' = todo /\ dead' = dead /\ before' = before
      /\ offset' = offset /\ live' = live
  BY DEF RangesDone, areas, ranges
<1>2. HeapTypeOK /\ Facts(before) /\ IdleInv /\ PhaseInv
  BY DEF CollectInv
<1>3. GapInv(before, mem, top, marks, compactionStart, dead, dead, offset)
  <2>1. GapInv(before, mem, top, marks, compactionStart, p, dead, offset)
    BY <1>1, <1>2 DEF PhaseInv
  <2>2. p = dead
    BY <2>1 DEF GapInv
  <2> QED BY <2>1, <2>2
<1>4. top \in Nat /\ compactionStart \in Nat /\ dead \in Nat /\ todo = {} /\ oldObjectsEnd = 0
      /\ offset \in Int /\ offset <= 0
  BY <1>1, <1>2 DEF HeapTypeOK, IdleInv
<1>5. dead = top
  <2>1. dead <= top
    BY <1>3 DEF GapInv
  <2> QED BY <1>1, <1>4, <2>1
<1>6. \A a \in marks : a < dead
  <2>1. Fits(before, top) /\ marks \subseteq before.marks
    BY <1>2, <1>3 DEF GapInv, Area, HeapTypeOK
  <2> QED BY <1>2, <1>4, <1>5, <2>1, DeadAbove
<1>7. /\ RelocInv(before, mem, dead, marks, compactionStart, dead, PrefixDone(before, compactionStart, 0, {}))
      /\ PrefixInv(before, compactionStart, 0, {})
  BY <1>2, <1>3, <1>4, <1>6, AreaDone
<1>8. HeapTypeOK'
  BY <1>1, <1>2, <1>4 DEF HeapTypeOK, CollectPhases
<1>9. PhaseInv'
  BY <1>1, <1>4, <1>5, <1>7 DEF PhaseInv
<1> QED BY <1>1, <1>2, <1>4, <1>8, <1>9 DEF CollectInv, IdleInv
-----------------------------------------------------------------------------
(* The words that encode the ranges are dead.                               *)
LEMMA BreaksFrame ==
  ASSUME NEW b, NEW m, NEW m1, NEW cs, NEW from \in Nat, NEW to \in Nat,
         Breaks(b, m, cs, from, to),
         \A c \in 0 .. to - 1 : ~IsLive(b, c) => m1[c] = m[c]
  PROVE  Breaks(b, m1, cs, from, to)
<1> SUFFICES ASSUME NEW d \in from .. to - 1, BreakAt(b, cs, d)
             PROVE  \E l, e : LiveRange(b, d, l, e) /\ e <= to /\ Encoded(m1, d, l, e)
  BY DEF Breaks
<1>1. PICK l, e : LiveRange(b, d, l, e) /\ e <= to /\ Encoded(m, d, l, e)
  BY DEF Breaks
<1>2. l \in Nat /\ e \in Nat /\ d < l /\ l < e /\ d \in Nat /\ ~IsLive(b, d) /\ \A c \in d .. l - 1 : ~IsLive(b, c)
  BY <1>1 DEF LiveRange, BreakAt
<1>3. m1[d] = m[d]
  BY <1>1, <1>2
<1>4. d + 1 # l => m1[d + 1] = m[d + 1]
  BY <1>1, <1>2
<1>5. Encoded(m1, d, l, e)
  BY <1>1, <1>3, <1>4 DEF Encoded
<1> QED BY <1>1, <1>5

(* A dead word is none that matters.                                        *)
LEMMA DeadUnsettled ==
  ASSUME NEW b, NEW c \in Nat, ~IsLive(b, c)
  PROVE  c \notin Settled(b)
BY CellsOutside DEF Settled

(* The live range is written into the break before it.                      *)
LEMMA LiveToGap ==
  ASSUME NEW b, Facts(b), NEW m, NEW t \in Nat, NEW mk, NEW cs \in Nat, NEW dd \in Nat, NEW lv \in Nat,
         NEW q \in Nat, NEW off,
         LiveInv(b, m, t, mk, cs, q, {}, dd, lv, off, FALSE),
         q >= t \/ q \notin mk, 0 .. t - 1 \subseteq DOMAIN m, MemTyped(b, m),
         NEW m1,
         m1 = IF dd + 1 = lv THEN [m EXCEPT ![dd] = TaggedPtr(q)]
              ELSE [m EXCEPT ![dd] = Ptr(lv), ![dd + 1] = Ptr(q)]
  PROVE  GapInv(b, m1, t, mk, cs, q, q, off) /\ MemTyped(b, m1)
<1>0. /\ Area(b, t, cs) /\ cs <= dd /\ cs < t /\ BreakAt(b, cs, dd) /\ dd < lv
      /\ lv \in b.marks /\ lv <= q /\ q <= t /\ EndsAt(b, q) /\ mk = From(b, q)
      /\ \A c \in dd .. lv - 1 : ~IsLive(b, c)
      /\ \A c \in lv .. q - 1 : IsLive(b, c)
      /\ off = New(b, q) - q
      /\ Breaks(b, m, cs, cs, dd)
      /\ Threading(b, m, cs, q, DoneSlots(b, cs, q, {}), FALSE)
  BY DEF LiveInv
<1>1. ~IsLive(b, q)
  <2>1. CASE q >= t
    BY <1>0, <2>1, DeadAbove DEF Area
  <2>2. CASE q \notin mk
    <3>1. q \notin b.marks
      BY <1>0, <2>2 DEF From
    <3> QED BY <1>0, <3>1, DeadAt
  <2> QED BY <2>1, <2>2
<1>2. lv < q
  <2>1. IsLive(b, lv)
    <3>1. Words(b, lv) \in Nat /\ Words(b, lv) > 0
      BY <1>0, ObjectShape
    <3> QED BY <1>0, <3>1 DEF IsLive
  <2>2. lv # q
    BY <1>1, <2>1
  <2> QED BY <1>0, <2>2
<1>3. dd \in DOMAIN m /\ dd + 1 \in DOMAIN m
  BY <1>0, <1>2
<1>4. /\ \A c \in DOMAIN m : c # dd /\ (dd + 1 # lv => c # dd + 1) => m1[c] = m[c]
      /\ Encoded(m1, dd, lv, q)
  <2>1. CASE dd + 1 = lv
    <3>1. m1 = [m EXCEPT ![dd] = TaggedPtr(q)]
      BY <2>1
    <3> QED BY <1>3, <2>1, <3>1 DEF Encoded
  <2>2. CASE dd + 1 # lv
    <3>1. m1 = [m EXCEPT ![dd] = Ptr(lv), ![dd + 1] = Ptr(q)]
      BY <2>2
    <3>2. dd # dd + 1
      OBVIOUS
    <3> QED BY <1>3, <2>2, <3>1, <3>2 DEF Encoded
  <2> QED BY <2>1, <2>2
<1>5. MemTyped(b, m1)
  <2>1. TaggedPtr(q) \in WordSet /\ Ptr(lv) \in WordSet /\ Ptr(q) \in WordSet
    BY WordTypes
  <2>2. MemTyped(b, [m EXCEPT ![dd] = TaggedPtr(q)])
    BY <1>3, <2>1, TypedUpdate
  <2> DEFINE m2 == [m EXCEPT ![dd] = Ptr(lv)]
  <2>3. MemTyped(b, m2) /\ dd + 1 \in DOMAIN m2
    BY <1>3, <2>1, TypedUpdate
  <2> HIDE DEF m2
  <2>4. MemTyped(b, [m2 EXCEPT ![dd + 1] = Ptr(q)])
    BY <2>1, <2>3, TypedUpdate
  <2>5. MemTyped(b, [m EXCEPT ![dd] = Ptr(lv), ![dd + 1] = Ptr(q)])
    BY <2>4 DEF m2
  <2> QED BY <2>2, <2>5
<1>6. \A c \in Settled(b) : m1[c] = m[c]
  <2> TAKE c \in Settled(b)
  <2>1. c \in DOMAIN m
    BY SettledIs DEF MemTyped
  <2>2. dd \notin Settled(b)
    BY <1>0, DeadUnsettled DEF BreakAt
  <2>3. dd + 1 # lv => dd + 1 \notin Settled(b)
    <3> SUFFICES ASSUME dd + 1 # lv PROVE dd + 1 \notin Settled(b)
      OBVIOUS
    <3>1. dd + 1 \in dd .. lv - 1 /\ dd + 1 \in Nat
      BY <1>0
    <3> QED BY <1>0, <3>1, DeadUnsettled
  <2> QED BY <1>4, <2>1, <2>2, <2>3
<1>7. Threading(b, m1, cs, q, DoneSlots(b, cs, q, {}), FALSE)
  <2> DEFINE D == DoneSlots(b, cs, q, {})
  <2>1. PICK ch : ThreadState(b, m, cs, q, D, FALSE, ch)
    BY <1>0 DEF Threading
  <2>2. D \subseteq Settled(b)
    BY DoneSlotsAre
  <2> HIDE DEF D
  <2>3. ThreadState(b, m1, cs, q, D, FALSE, ch)
    BY <1>6, <2>1, <2>2, ThreadFrame
  <2> QED BY <2>3 DEF Threading, D
<1>8. Breaks(b, m1, cs, cs, q)
  <2> SUFFICES ASSUME NEW d \in cs .. q - 1, BreakAt(b, cs, d)
               PROVE  \E l, e : LiveRange(b, d, l, e) /\ e <= q /\ Encoded(m1, d, l, e)
    BY DEF Breaks
  <2>0. d \in Nat /\ d \in Int
    OBVIOUS
  <2>1. CASE d < dd
    <3>1. PICK l, e : LiveRange(b, d, l, e) /\ e <= dd /\ Encoded(m, d, l, e)
      BY <1>0, <2>1 DEF Breaks
    <3>2. l \in Nat /\ e \in Nat /\ d < l /\ l < e
      BY <3>1 DEF LiveRange
    <3>3. d \in DOMAIN m /\ (d + 1 # l => d + 1 \in DOMAIN m)
      BY <1>0, <2>1, <3>1, <3>2
    <3>4. d # dd /\ d + 1 # dd /\ d # dd + 1 /\ d + 1 # dd + 1
      BY <2>1, <3>1, <3>2
    <3>5. m1[d] = m[d] /\ (d + 1 # l => m1[d + 1] = m[d + 1])
      BY <1>4, <3>3, <3>4
    <3>6. Encoded(m1, d, l, e)
      BY <3>1, <3>5 DEF Encoded
    <3>7. e <= q
      BY <1>0, <3>1, <3>2
    <3> QED BY <3>1, <3>6, <3>7
  <2>2. CASE d = dd
    <3>1. LiveRange(b, dd, lv, q)
      BY <1>0, <1>1, <1>2 DEF LiveRange
    <3>2. q <= q
      OBVIOUS
    <3> QED BY <1>4, <2>2, <3>1, <3>2
  <2>3. CASE d > dd
    <3>1. ~IsLive(b, d) /\ (d = cs \/ IsLive(b, d - 1))
      BY DEF BreakAt
    <3>2. d < lv
      BY <1>0, <3>1
    <3>3. d - 1 \in dd .. lv - 1 /\ d # cs
      BY <1>0, <2>3, <3>2
    <3> QED BY <1>0, <3>1, <3>3
  <2>4. d < dd \/ d = dd \/ d > dd
    BY <2>0
  <2> QED BY <2>1, <2>2, <2>3, <2>4
<1>9. q = cs \/ IsLive(b, q - 1)
  BY <1>0, <1>2
<1>10. cs <= q
  BY <1>0, <1>2
<1> QED BY <1>0, <1>1, <1>5, <1>7, <1>8, <1>9, <1>10 DEF GapInv

(* The step that ends a live range.                                         *)
LEMMA LiveRangeEnd_Inv == CollectInv /\ LiveRangeEnd => CollectInv'
<1> SUFFICES ASSUME CollectInv, LiveRangeEnd PROVE CollectInv'
  OBVIOUS
<1>1. /\ phase = "live" /\ todo = {} /\ (p >= top \/ p \notin marks)
      /\ phase' = "gap" /\ p' = p /\ dead' = p
      /\ mem' = (IF dead + 1 = live THEN [mem EXCEPT ![dead] = TaggedPtr(p)]
                 ELSE [mem EXCEPT ![dead] = Ptr(live), ![dead + 1] = Ptr(p)])
      /\ top' = top /\ compactionStart' = compactionStart /\ oldObjectsEnd' = oldObjectsEnd
      /\ marks' = marks /\ todo' = todo /\ before' = before /\ offset' = offset /\ live' = live
  BY DEF LiveRangeEnd, WriteLiveRange, areas
<1>2. HeapTypeOK /\ Facts(before) /\ IdleInv /\ PhaseInv
  BY DEF CollectInv
<1>3. LiveInv(before, mem, top, marks, compactionStart, p, {}, dead, live, offset, FALSE)
  BY <1>1, <1>2 DEF PhaseInv
<1>4. /\ top \in Nat /\ compactionStart \in Nat /\ dead \in Nat /\ live \in Nat /\ p \in Nat
      /\ 0 .. top - 1 \subseteq DOMAIN mem /\ MemTyped(before, mem)
  BY <1>2, <1>3, TypesAre DEF LiveInv, HeapTypeOK
<1> DEFINE m1 == mem'
<1>5. m1 = IF dead + 1 = live THEN [mem EXCEPT ![dead] = TaggedPtr(p)]
           ELSE [mem EXCEPT ![dead] = Ptr(live), ![dead + 1] = Ptr(p)]
  BY <1>1
<1> HIDE DEF m1
<1>6. GapInv(before, m1, top, marks, compactionStart, p, p, offset) /\ MemTyped(before, m1)
  BY <1>1, <1>2, <1>3, <1>4, <1>5, LiveToGap
<1>7. mem' = m1
  BY DEF m1
<1>8. HeapTypeOK'
  BY <1>1, <1>2, <1>4, <1>6, <1>7 DEF HeapTypeOK, MemTyped, WordSet, CollectPhases
<1> QED BY <1>1, <1>2, <1>6, <1>7, <1>8 DEF CollectInv, IdleInv, PhaseInv

(* The step that takes the next object of a range.                          *)
LEMMA LiveObject_Inv == CollectInv /\ LiveObject => CollectInv'
<1> SUFFICES ASSUME CollectInv, LiveObject PROVE CollectInv'
  OBVIOUS
<1>1. /\ phase = "live" /\ todo = {} /\ p < top /\ p \in marks
      /\ phase' = "object" /\ p' = p /\ mem' = mem /\ marks' = marks \ {p}
      /\ top' = top /\ compactionStart' = compactionStart /\ oldObjectsEnd' = oldObjectsEnd
      /\ todo' = todo /\ before' = before /\ offset' = offset /\ live' = live /\ dead' = dead
  BY DEF LiveObject, ClearMark, areas, ranges
<1>2. HeapTypeOK /\ Facts(before) /\ IdleInv /\ PhaseInv
  BY DEF CollectInv
<1>3. LiveInv(before, mem, top, marks, compactionStart, p, {}, dead, live, offset, FALSE)
  BY <1>1, <1>2 DEF PhaseInv
<1> DEFINE D == DoneSlots(before, compactionStart, p, {})
<1>4. Threading(before, mem, compactionStart, p, D, TRUE)
  <2>1. PICK ch : ThreadState(before, mem, compactionStart, p, D, FALSE, ch)
    BY <1>3 DEF LiveInv, Threading
  <2> HIDE DEF D
  <2>2. ThreadState(before, mem, compactionStart, p, D, TRUE, ch)
    BY <2>1 DEF ThreadState
  <2> QED BY <2>2 DEF Threading
<1>5. p \in before.marks /\ marks \ {p} = From(before, p) \ {p}
  BY <1>1, <1>2, <1>3 DEF LiveInv, HeapTypeOK
<1>6. LiveInv(before, mem, top, marks \ {p}, compactionStart, p, {}, dead, live, offset, TRUE)
  BY <1>3, <1>4, <1>5 DEF LiveInv
<1>7. HeapTypeOK'
  BY <1>1, <1>2 DEF HeapTypeOK, CollectPhases
<1> QED BY <1>1, <1>2, <1>6, <1>7 DEF CollectInv, IdleInv, PhaseInv
-----------------------------------------------------------------------------
(* Taking the list of an object apart.                                      *)
DeadWordsSame(b, m, m1) == \A c \in DOMAIN m : ~IsLive(b, c) => m1[c] = m[c]

(* A slot of a live object holds a reference to relocate and nothing else.  *)
LEMMA SlotCellsApart ==
  ASSUME NEW b, Facts(b), NEW c \in SlotCells(b)
  PROVE  c \in RefCells(b) /\ c \notin b.marks /\ c \in Settled(b) /\ c \in Nat /\ IsLive(b, c) /\ c \in DOMAIN b.mem
<1>1. c \in RefCells(b)
  BY DEF RefCells
<1>2. c \in Nat /\ IsLive(b, c) /\ c \in DOMAIN b.mem
  BY SetsAt, AtIs
<1> QED BY <1>1, <1>2, RefCellsApart, SettledIs

(* The elements of a sequence are its first and those of its tail.           *)
LEMMA TailIs ==
  ASSUME NEW S, NEW s \in Seq(S), Len(s) > 0
  PROVE  /\ Tail(s) \in Seq(S) /\ Len(Tail(s)) = Len(s) - 1
         /\ \A i \in 1 .. Len(Tail(s)) : Tail(s)[i] = s[i + 1] /\ i + 1 \in DOMAIN s
         /\ DOMAIN Tail(s) = 1 .. Len(Tail(s)) /\ 1 \in DOMAIN s
         /\ Range(s) = {s[1]} \cup Range(Tail(s))
<1>1. s # << >>
  OBVIOUS
<1>2. /\ Tail(s) \in Seq(S) /\ Len(Tail(s)) = Len(s) - 1
      /\ \A i \in 1 .. Len(Tail(s)) : Tail(s)[i] = s[i + 1] /\ i + 1 \in DOMAIN s
      /\ DOMAIN Tail(s) = 1 .. Len(Tail(s)) /\ 1 \in DOMAIN s
  BY <1>1
<1>3. \A i \in DOMAIN s : i = 1 \/ (i - 1 \in DOMAIN Tail(s) /\ Tail(s)[i - 1] = s[i])
  <2> TAKE i \in DOMAIN s
  <2>1. i \in 1 .. Len(s) /\ Len(s) \in Nat
    OBVIOUS
  <2>2. i # 1 => i - 1 \in 1 .. Len(Tail(s)) /\ (i - 1) + 1 = i
    BY <2>1, <1>2
  <2> QED BY <2>2, <1>2
<1> DEFINE r == Tail(s)
<1>4. DOMAIN r = 1 .. Len(r) /\ (\A i \in 1 .. Len(r) : r[i] = s[i + 1] /\ i + 1 \in DOMAIN s)
      /\ (\A i \in DOMAIN s : i = 1 \/ (i - 1 \in DOMAIN r /\ r[i - 1] = s[i])) /\ 1 \in DOMAIN s
  BY <1>2, <1>3
<1> HIDE DEF r
<1>5. Range(s) = {s[1]} \cup Range(r)
  BY <1>4 DEF Range
<1> QED BY <1>2, <1>5 DEF r

(* An element put in front of a sequence.                                   *)
LEMMA ConsIs ==
  ASSUME NEW S, NEW s \in Seq(S), NEW x \in S
  PROVE  /\ <<x>> \o s \in Seq(S) /\ Len(<<x>> \o s) = Len(s) + 1
         /\ (<<x>> \o s)[1] = x
         /\ \A i \in 1 .. Len(s) : (<<x>> \o s)[i + 1] = s[i]
         /\ DOMAIN (<<x>> \o s) = 1 .. Len(s) + 1
         /\ Range(<<x>> \o s) = {x} \cup Range(s)
<1>1. /\ <<x>> \o s \in Seq(S) /\ Len(<<x>> \o s) = Len(s) + 1
      /\ (<<x>> \o s)[1] = x
      /\ \A i \in 1 .. Len(s) : (<<x>> \o s)[i + 1] = s[i]
      /\ DOMAIN (<<x>> \o s) = 1 .. Len(s) + 1
      /\ DOMAIN s = 1 .. Len(s) /\ Len(s) \in Nat
  OBVIOUS
<1> DEFINE r == <<x>> \o s
<1>2. /\ r[1] = x /\ (\A i \in 1 .. Len(s) : r[i + 1] = s[i]) /\ DOMAIN r = 1 .. Len(s) + 1
      /\ DOMAIN s = 1 .. Len(s) /\ Len(s) \in Nat
  BY <1>1
<1> HIDE DEF r
<1>3. \A i \in DOMAIN r : i = 1 \/ (i - 1 \in DOMAIN s /\ r[i] = s[i - 1])
  <2> TAKE i \in DOMAIN r
  <2>1. i # 1 => i - 1 \in 1 .. Len(s) /\ (i - 1) + 1 = i
    BY <1>2
  <2> QED BY <1>2, <2>1
<1>4. \A i \in DOMAIN s : i + 1 \in DOMAIN r
  BY <1>2
<1>6. 1 \in DOMAIN r
  BY <1>2
<1>5. Range(r) = {x} \cup Range(s)
  <2>1. ASSUME NEW i \in DOMAIN r PROVE r[i] \in {x} \cup {s[j] : j \in DOMAIN s}
    BY <1>2, <1>3
  <2>2. ASSUME NEW i \in DOMAIN s PROVE s[i] \in {r[j] : j \in DOMAIN r}
    BY <1>2, <1>4
  <2>3. x \in {r[j] : j \in DOMAIN r}
    BY <1>2, <1>6
  <2> QED BY <2>1, <2>2, <2>3 DEF Range
<1> QED BY <1>1, <1>5 DEF r

(* The first slot on the list gets the new address of the object and leaves *)
(* the list; the others stay on it.                                         *)
LEMMA UnthreadStep ==
  ASSUME NEW b, Facts(b), NEW m, MemTyped(b, m), NEW cs, NEW q \in b.marks,
         NEW D, D \subseteq SlotCells(b), NEW ch,
         ThreadState(b, m, cs, q, D, TRUE, ch), m[q].k = "thread",
         NEW m1, m1 = [m EXCEPT ![m[q].v] = Ref(New(b, q)), ![q] = m[m[q].v]]
  PROVE  /\ Threading(b, m1, cs, q, D, TRUE) /\ m[q].v \in D
         /\ MemTyped(b, m1)
         /\ DeadWordsSame(b, m, m1)
<1> DEFINE s == ch[q]
           c1 == m[q].v
           ch1 == [ch EXCEPT ![q] = Tail(s)]
<1>1. /\ q \in Nat /\ q \in From(b, q) /\ From(b, q) \subseteq b.marks /\ q \in DOMAIN m
      /\ DOMAIN m = DOMAIN b.mem /\ b.marks \subseteq DOMAIN m
      /\ D \subseteq DOMAIN m /\ Settled(b) \subseteq DOMAIN m
  BY ObjectShape, SlotCellsApart, SettledIs DEF From, MemTyped
<1>2. s \in Seq(Int) /\ Chain(b, m, q, s) /\ \A i \in DOMAIN s : s[i] \in D /\ Orig(b, s[i]) = Ref(q)
  BY <1>1 DEF ThreadState
<1>3. Len(s) > 0
  <2> SUFFICES ASSUME Len(s) = 0 PROVE FALSE
    BY <1>2
  <2>1. m[q] = Hdr(Tag(b.mem, q), 0)
    <3>1. 0 \in 0 .. Len(s) /\ ~(0 < Len(s))
      BY <1>2
    <3> QED BY <1>2, <3>1 DEF Chain
  <2> QED BY <2>1 DEF Hdr
<1>4. 1 \in DOMAIN s /\ m[q] = Thread(s[1]) /\ c1 = s[1]
  <2>1. m[q] = Thread(s[1])
    <3>1. 0 \in 0 .. Len(s) /\ 0 < Len(s) /\ 0 + 1 = 1
      BY <1>2, <1>3
    <3> QED BY <1>2, <3>1 DEF Chain
  <2>2. m[q].v = s[1]
    BY <2>1 DEF Thread
  <2> QED BY <1>2, <1>3, <2>1, <2>2
<1>5. c1 \in D /\ Orig(b, c1) = Ref(q) /\ c1 \in SlotCells(b) /\ c1 \in DOMAIN m
      /\ c1 \notin b.marks /\ c1 # q /\ IsLive(b, c1) /\ IsLive(b, q)
  <2>1. c1 \in D /\ Orig(b, c1) = Ref(q) /\ c1 \in SlotCells(b)
    BY <1>2, <1>4
  <2>2. At(b, q, q, 0)
    BY SetsAt
  <2> HIDE DEF c1
  <2> QED BY <1>1, <2>1, <2>2, SlotCellsApart, AtIs
<1>6. /\ DOMAIN m1 = DOMAIN m
      /\ m1[c1] = Ref(New(b, q)) /\ m1[q] = m[c1]
      /\ \A c \in DOMAIN m : c # c1 /\ c # q => m1[c] = m[c]
  <2>1. m1 = [m EXCEPT ![c1] = Ref(New(b, q)), ![q] = m[c1]]
    OBVIOUS
  <2> HIDE DEF c1, s, ch1
  <2> QED BY <1>1, <1>5, <2>1
<1>7. MemTyped(b, m1)
  <2>1. Ref(New(b, q)) \in WordSet /\ m[c1] \in WordSet
    BY <1>1, <1>5, WordTypes, NewIs DEF MemTyped
  <2> HIDE DEF c1, s, ch1
  <2>2. \A c \in DOMAIN m1 : m1[c] \in WordSet
    BY <1>6, <2>1 DEF MemTyped
  <2> QED BY <1>1, <1>6, <2>2 DEF MemTyped
<1>8. m1[c1] = Final(b, c1)
  <2>1. c1 \in RefCells(b)
    BY <1>5 DEF RefCells
  <2>2. Final(b, c1) = NewRef(b, Orig(b, c1))
    BY <2>1 DEF Final
  <2> HIDE DEF c1
  <2> QED BY <1>5, <1>6, <2>2 DEF NewRef, Ref
<1>9. /\ Tail(s) \in Seq(Int) /\ Len(Tail(s)) = Len(s) - 1 /\ DOMAIN Tail(s) = 1 .. Len(Tail(s))
      /\ \A i \in 1 .. Len(Tail(s)) : Tail(s)[i] = s[i + 1] /\ i + 1 \in DOMAIN s
      /\ Range(s) = {s[1]} \cup Range(Tail(s))
  <2> HIDE DEF s
  <2> QED BY <1>2, <1>3, TailIs
<1>10. /\ ch1 \in [b.marks -> Seq(Int)] /\ ch1[q] = Tail(s)
       /\ \A h \in b.marks : h # q => ch1[h] = ch[h]
  <2>1. ch \in [b.marks -> Seq(Int)]
    BY DEF ThreadState
  <2> HIDE DEF s
  <2> QED BY <1>9, <2>1
<1>11. \A c \in D : c # q
  BY SlotCellsApart
<1>12. Chain(b, m1, q, Tail(s))
  <2>1. Injective(s) /\ \A i \in 0 .. Len(s) :
          m[IF i = 0 THEN q ELSE s[i]] = IF i < Len(s) THEN Thread(s[i + 1]) ELSE Hdr(Tag(b.mem, q), 0)
    BY <1>2 DEF Chain
  <2> DEFINE r == Tail(s)
  <2>0. /\ Len(r) = Len(s) - 1 /\ DOMAIN r = 1 .. Len(r) /\ Len(s) \in Nat /\ Len(s) > 0 /\ DOMAIN s = 1 .. Len(s)
        /\ \A i \in 1 .. Len(r) : r[i] = s[i + 1] /\ i + 1 \in DOMAIN s
    BY <1>2, <1>3, <1>9
  <2>c. c1 = s[1] /\ \A i \in DOMAIN s : s[i] # q /\ s[i] \in DOMAIN m
    BY <1>1, <1>2, <1>4, <1>11
  <2> HIDE DEF r, s, c1, ch1
  <2>2. Injective(r)
    <3> SUFFICES ASSUME NEW i \in DOMAIN r, NEW j \in DOMAIN r, r[i] = r[j] PROVE i = j
      BY DEF Injective
    <3>1. i + 1 \in DOMAIN s /\ j + 1 \in DOMAIN s /\ s[i + 1] = s[j + 1] /\ i \in Int /\ j \in Int
      BY <2>0
    <3>2. i + 1 = j + 1
      BY <2>1, <3>1 DEF Injective
    <3> QED BY <3>1, <3>2
  <2>3. ASSUME NEW i \in 0 .. Len(r)
        PROVE  m1[IF i = 0 THEN q ELSE r[i]] = IF i < Len(r) THEN Thread(r[i + 1]) ELSE Hdr(Tag(b.mem, q), 0)
    <3>1. i \in Nat /\ i + 1 \in 0 .. Len(s) /\ i + 1 \in DOMAIN s /\ i + 1 # 0 /\ (i < Len(r) <=> i + 1 < Len(s))
      BY <2>0
    <3>2. m[s[i + 1]] = IF i + 1 < Len(s) THEN Thread(s[(i + 1) + 1]) ELSE Hdr(Tag(b.mem, q), 0)
      BY <2>1, <3>1
    <3>3. i < Len(r) => r[i + 1] = s[(i + 1) + 1]
      <4> SUFFICES ASSUME i < Len(r) PROVE r[i + 1] = s[(i + 1) + 1]
        OBVIOUS
      <4>1. i + 1 \in 1 .. Len(r)
        BY <2>0, <3>1
      <4> QED BY <2>0, <4>1
    <3>4. CASE i = 0
      BY <1>6, <2>c, <3>1, <3>2, <3>3, <3>4
    <3>5. CASE i # 0
      <4>1. r[i] = s[i + 1] /\ i \in DOMAIN r
        BY <2>0, <3>5
      <4>2. s[i + 1] # s[1]
        <5>1. 1 \in DOMAIN s /\ i + 1 # 1
          BY <2>0, <3>1, <3>5
        <5> QED BY <2>1, <3>1, <5>1 DEF Injective
      <4>3. m1[s[i + 1]] = m[s[i + 1]]
        BY <1>6, <2>c, <3>1, <4>2
      <4> QED BY <3>1, <3>2, <3>3, <3>5, <4>1, <4>3
    <3> QED BY <3>4, <3>5
  <2>4. Chain(b, m1, q, r)
    BY <2>2, <2>3 DEF Chain
  <2> QED BY <2>4 DEF r
<1>13. ASSUME NEW h \in From(b, q), h # q PROVE Chain(b, m1, h, ch[h])
  <2>1. Chain(b, m, h, ch[h]) /\ ch[h] \in Seq(Int) /\ \A i \in DOMAIN ch[h] : ch[h][i] \in D /\ Orig(b, ch[h][i]) = Ref(h)
    BY <1>1 DEF ThreadState
  <2>2. \A i \in DOMAIN ch[h] : ch[h][i] # c1 /\ ch[h][i] # q /\ ch[h][i] \in DOMAIN m
    <3>1. Ref(h) # Ref(q)
      BY <1>13 DEF Ref
    <3> QED BY <1>1, <1>5, <1>11, <2>1, <3>1
  <2>3. h # c1 /\ h # q /\ h \in DOMAIN m
    BY <1>1, <1>5, <1>13
  <2> DEFINE r == ch[h]
  <2>4. r \in Seq(Int) /\ Chain(b, m, h, r) /\ \A i \in DOMAIN r : r[i] # c1 /\ r[i] # q /\ r[i] \in DOMAIN m
    BY <2>1, <2>2
  <2> HIDE DEF r, c1, s, ch1
  <2>5. \A i \in 0 .. Len(r) : m1[IF i = 0 THEN h ELSE r[i]] = m[IF i = 0 THEN h ELSE r[i]]
    <3> TAKE i \in 0 .. Len(r)
    <3>1. i # 0 => i \in DOMAIN r
      BY <2>4
    <3> QED BY <1>6, <2>3, <2>4, <3>1
  <2>6. Chain(b, m1, h, r)
    BY <2>4, <2>5 DEF Chain
  <2> QED BY <2>6 DEF r
<1>14. \A h \in From(b, q) : Chain(b, m1, h, ch1[h])
  <2> HIDE DEF s, ch1, c1
  <2> QED BY <1>1, <1>10, <1>12, <1>13
<1>15. \A h \in From(b, q) : \A i \in DOMAIN ch1[h] : ch1[h][i] \in D /\ Orig(b, ch1[h][i]) = Ref(h)
  <2> TAKE h \in From(b, q)
  <2>1. CASE h = q
    <3>1. \A i \in DOMAIN Tail(s) : Tail(s)[i] \in D /\ Orig(b, Tail(s)[i]) = Ref(q)
      <4> HIDE DEF s
      <4> QED BY <1>2, <1>9
    <3> HIDE DEF s, ch1
    <3> QED BY <1>10, <2>1, <3>1
  <2>2. CASE h # q
    <3>1. ch1[h] = ch[h]
      <4> HIDE DEF s, ch1
      <4> QED BY <1>1, <1>10, <2>2
    <3> HIDE DEF ch1
    <3> QED BY <3>1 DEF ThreadState
  <2> QED BY <2>1, <2>2
<1>16. \A c \in D : m1[c] = Final(b, c) \/ \E h \in From(b, q) : c \in Range(ch1[h])
  <2> TAKE c \in D
  <2>1. CASE c = c1
    BY <1>8, <2>1
  <2>2. CASE c # c1 /\ \E h \in From(b, q) : c \in Range(ch[h])
    <3>1. PICK h \in From(b, q) : c \in Range(ch[h])
      BY <2>2
    <3>2. c \in Range(ch1[h])
      <4>1. CASE h = q
        <5> HIDE DEF c1, s, ch1
        <5>1. c \in Range(s)
          BY <3>1, <4>1 DEF s
        <5> QED BY <1>4, <1>9, <1>10, <2>2, <4>1, <5>1
      <4>2. CASE h # q
        <5> HIDE DEF c1, s, ch1
        <5> QED BY <1>1, <1>10, <3>1, <4>2
      <4> QED BY <4>1, <4>2
    <3> QED BY <3>1, <3>2
  <2>3. CASE c # c1 /\ m[c] = Final(b, c)
    <3> HIDE DEF c1, s, ch1
    <3> QED BY <1>1, <1>6, <1>11, <2>3
  <2> HIDE DEF c1, s, ch1
  <2> QED BY <2>1, <2>2, <2>3 DEF ThreadState
<1>17. \A c \in D : \A h \in From(b, q) : Orig(b, c) = Ref(h) /\ (TRUE => h # q) => c \in Range(ch1[h])
  <2> SUFFICES ASSUME NEW c \in D, NEW h \in From(b, q), Orig(b, c) = Ref(h), h # q
               PROVE  c \in Range(ch1[h])
    OBVIOUS
  <2> HIDE DEF c1, s, ch1
  <2>1. c \in Range(ch[h])
    BY DEF ThreadState
  <2> QED BY <1>1, <1>10, <2>1
<1>18. \A c \in Settled(b) \ b.marks : c \notin D => m1[c] = Orig(b, c)
  <2> HIDE DEF c1, s, ch1
  <2>1. \A c \in Settled(b) \ b.marks : c \notin D => m[c] = Orig(b, c)
    BY DEF ThreadState
  <2> QED BY <1>1, <1>5, <1>6, <2>1
<1>19. Offsets(b, m1, cs, q)
  <2> HIDE DEF c1, s, ch1
  <2>1. Offsets(b, m, cs, q)
    BY DEF ThreadState
  <2> QED BY <1>1, <1>5, <1>6, <2>1 DEF Offsets
<1>20. Threading(b, m1, cs, q, D, TRUE)
  <2> HIDE DEF c1, s, ch1
  <2>1. ThreadState(b, m1, cs, q, D, TRUE, ch1)
    BY <1>10, <1>14, <1>15, <1>16, <1>17, <1>18, <1>19 DEF ThreadState
  <2> QED BY <2>1 DEF Threading
<1>21. \A c \in DOMAIN m : ~IsLive(b, c) => m1[c] = m[c]
  <2> HIDE DEF c1, s, ch1
  <2> QED BY <1>5, <1>6
<1> QED BY <1>5, <1>7, <1>20, <1>21 DEF DeadWordsSame

(* One round of update-references.                                          *)
LEMMA Unthread_Inv == CollectInv /\ Unthread => CollectInv'
<1> SUFFICES ASSUME CollectInv, Unthread PROVE CollectInv'
  OBVIOUS
<1>1. /\ phase = "object" /\ mem[p].k = "thread" /\ phase' = phase /\ p' = p
      /\ mem' = [mem EXCEPT ![mem[p].v] = Ref(p + offset), ![p] = mem[mem[p].v]]
      /\ top' = top /\ compactionStart' = compactionStart /\ oldObjectsEnd' = oldObjectsEnd
      /\ marks' = marks /\ todo' = todo /\ before' = before
      /\ offset' = offset /\ live' = live /\ dead' = dead
  BY DEF Unthread, areas, ranges
<1>2. HeapTypeOK /\ Facts(before) /\ IdleInv /\ PhaseInv
  BY DEF CollectInv
<1>3. LiveInv(before, mem, top, marks, compactionStart, p, todo, dead, live, offset, TRUE) /\ todo = {}
  BY <1>1, <1>2 DEF PhaseInv, IdleInv
<1> DEFINE D == DoneSlots(before, compactionStart, p, todo)
           m1 == mem'
<1>4. PICK ch : ThreadState(before, mem, compactionStart, p, D, TRUE, ch)
  BY <1>3 DEF LiveInv, Threading
<1>5. /\ p \in before.marks /\ p \in Nat /\ MemTyped(before, mem) /\ D \subseteq SlotCells(before)
      /\ top \in Nat /\ compactionStart \in Nat /\ dead \in Nat
  BY <1>2, <1>3, DoneSlotsAre, TypesAre DEF LiveInv, HeapTypeOK
<1>6. p + offset = New(before, p)
  <2>1. offset = New(before, p) - p /\ New(before, p) \in Nat
    BY <1>3, <1>5, NewIs DEF LiveInv
  <2> QED BY <1>5, <2>1
<1>7. m1 = [mem EXCEPT ![mem[p].v] = Ref(New(before, p)), ![p] = mem[mem[p].v]]
  BY <1>1, <1>6
<1> HIDE DEF D, m1
<1>8. /\ Threading(before, m1, compactionStart, p, D, TRUE) /\ MemTyped(before, m1)
      /\ DeadWordsSame(before, mem, m1)
  BY <1>1, <1>2, <1>4, <1>5, <1>7, UnthreadStep
<1>9. Breaks(before, m1, compactionStart, compactionStart, dead)
  <2>1. /\ Breaks(before, mem, compactionStart, compactionStart, dead)
        /\ dead < live /\ live <= p /\ p <= top
    BY <1>3 DEF LiveInv
  <2>2. \A c \in 0 .. dead - 1 : ~IsLive(before, c) => m1[c] = mem[c]
    <3>1. 0 .. top - 1 \subseteq DOMAIN mem /\ live \in Nat
      BY <1>2 DEF HeapTypeOK
    <3> QED BY <1>5, <1>8, <2>1, <3>1 DEF DeadWordsSame
  <2> QED BY <1>5, <2>1, <2>2, BreaksFrame
<1>10. LiveInv(before, m1, top, marks, compactionStart, p, todo, dead, live, offset, TRUE)
  BY <1>3, <1>8, <1>9 DEF LiveInv, D
<1>11. mem' = m1
  BY DEF m1
<1>12. HeapTypeOK'
  BY <1>1, <1>2, <1>8, <1>11 DEF HeapTypeOK, MemTyped, WordSet, CollectPhases
<1> QED BY <1>1, <1>2, <1>10, <1>11, <1>12 DEF CollectInv, IdleInv, PhaseInv

(* Its slots are visited next.                                              *)
LEMMA UpdateStep ==
  ASSUME NEW b, Facts(b), NEW m, MemTyped(b, m), NEW cs \in Nat, NEW q \in b.marks, cs <= q,
         EndsAt(b, q),
         Threading(b, m, cs, q, DoneSlots(b, cs, q, {}), TRUE), m[q].k = "hdr",
         NEW m1, m1 = [m EXCEPT ![q] = Hdr(m[q].v, New(b, q) - q)]
  PROVE  /\ Threading(b, m1, cs, q + Words(b, q), DoneSlots(b, cs, q + Words(b, q), Slots(b.mem, q)), FALSE)
         /\ MemTyped(b, m1) /\ m[q] = Hdr(Tag(b.mem, q), 0)
         /\ DeadWordsSame(b, m, m1)
<1> DEFINE q1 == q + Words(b, q)
           D == DoneSlots(b, cs, q, {})
<1>1. /\ q \in Nat /\ q \in From(b, q) /\ From(b, q) \subseteq b.marks /\ q \in DOMAIN m
      /\ DOMAIN m = DOMAIN b.mem /\ b.marks \subseteq DOMAIN m /\ Settled(b) \subseteq DOMAIN m
      /\ Words(b, q) \in Nat /\ Words(b, q) > 0 /\ Tag(b.mem, q) \in Tags
  BY ObjectShape, SettledIs DEF From, MemTyped
<1>2. PICK ch : ThreadState(b, m, cs, q, D, TRUE, ch)
  BY DEF Threading
<1>3. D \subseteq SlotCells(b)
  BY DoneSlotsAre
<1>4. ch[q] \in Seq(Int) /\ Chain(b, m, q, ch[q])
  <2> HIDE DEF D
  <2> QED BY <1>1, <1>2 DEF ThreadState
<1>5. Len(ch[q]) = 0 /\ m[q] = Hdr(Tag(b.mem, q), 0)
  <2>1. 0 \in 0 .. Len(ch[q]) /\ Len(ch[q]) \in Nat
    BY <1>4
  <2>2. m[q] = IF 0 < Len(ch[q]) THEN Thread(ch[q][0 + 1]) ELSE Hdr(Tag(b.mem, q), 0)
    BY <1>4, <2>1 DEF Chain
  <2>3. ~(0 < Len(ch[q]))
    BY <2>2 DEF Thread
  <2> QED BY <2>1, <2>2, <2>3
<1>6. /\ DOMAIN m1 = DOMAIN m /\ m1[q] = Hdr(Tag(b.mem, q), New(b, q) - q)
      /\ \A c \in DOMAIN m : c # q => m1[c] = m[c]
  <2>1. m[q].v = Tag(b.mem, q)
    BY <1>5 DEF Hdr
  <2> QED BY <1>1, <2>1
<1>7. MemTyped(b, m1)
  <2>1. Hdr(Tag(b.mem, q), New(b, q) - q) \in WordSet
    BY <1>1, WordTypes, NewIs
  <2>2. \A c \in DOMAIN m1 : m1[c] \in WordSet
    BY <1>6, <2>1 DEF MemTyped
  <2> QED BY <1>1, <1>6, <2>2 DEF MemTyped
<1>8. EndsAt(b, q1) /\ From(b, q1) = From(b, q) \ {q} /\ q1 \in Nat /\ q < q1
  <2>1. EndsAt(b, q + Words(b, q)) /\ From(b, q + Words(b, q)) = From(b, q) \ {q} /\ q + Words(b, q) \in Nat
    BY NextObject
  <2>2. q < q1
    BY <1>1
  <2> QED BY <2>1, <2>2
<1>9. \A x \in b.marks : x < q1 <=> (x < q \/ x = q)
  <2> TAKE x \in b.marks
  <2>1. x \in Nat
    BY ObjectShape
  <2>2. x \in From(b, q1) <=> (x \in From(b, q) /\ x # q)
    BY <1>8
  <2>3. x >= q1 <=> (x >= q /\ x # q)
    BY <2>2 DEF From
  <2> HIDE DEF q1
  <2> QED BY <1>1, <1>8, <2>1, <2>3
<1>10. DoneSlots(b, cs, q1, Slots(b.mem, q)) = D
  <2> DEFINE A == {x \in b.marks : cs <= x /\ x < q}
  <2>1. {x \in b.marks : cs <= x /\ x < q1} = A \cup {q}
    BY <1>9
  <2>2. ASSUME NEW x \in A, NEW c \in Slots(b.mem, x) PROVE c \notin Slots(b.mem, q)
    <3> SUFFICES ASSUME c \in Slots(b.mem, q) PROVE FALSE
      OBVIOUS
    <3>1. PICK i \in RefSlots[Tag(b.mem, x)] : c = x + i
      BY <2>2 DEF Slots
    <3>2. PICK j \in RefSlots[Tag(b.mem, q)] : c = q + j
      BY DEF Slots
    <3>3. x \in b.marks /\ x < q
      OBVIOUS
    <3>4. i \in 0 .. Words(b, x) - 1 /\ j \in 0 .. Words(b, q) - 1
      BY <3>3, ObjectShape
    <3>5. x = q
      BY <3>1, <3>2, <3>3, <3>4, PlaceIs
    <3> QED BY <1>1, <3>3, <3>5
  <2>3. DoneSlots(b, cs, q1, Slots(b.mem, q)) = (UNION {Slots(b.mem, x) : x \in A \cup {q}}) \ Slots(b.mem, q)
    BY <2>1 DEF DoneSlots
  <2>4. D = UNION {Slots(b.mem, x) : x \in A}
    BY DEF DoneSlots
  <2> HIDE DEF A, D, q1
  <2>5. (UNION {Slots(b.mem, x) : x \in A \cup {q}}) \ Slots(b.mem, q) = UNION {Slots(b.mem, x) : x \in A}
    BY <2>2
  <2> QED BY <2>3, <2>4, <2>5
<1> HIDE DEF q1, D
<1>11. \A c \in D : c # q /\ c \in DOMAIN m
  BY <1>1, <1>3, SlotCellsApart
<1>12. \A h \in From(b, q1) : Chain(b, m1, h, ch[h])
  <2> TAKE h \in From(b, q1)
  <2>1. h \in From(b, q) /\ h # q /\ h \in DOMAIN m /\ h \in b.marks
    BY <1>1, <1>8
  <2>2. Chain(b, m, h, ch[h]) /\ ch[h] \in Seq(Int) /\ \A i \in DOMAIN ch[h] : ch[h][i] \in D
    BY <1>2, <2>1 DEF ThreadState
  <2> DEFINE r == ch[h]
  <2>3. r \in Seq(Int) /\ Chain(b, m, h, r) /\ \A i \in DOMAIN r : r[i] # q /\ r[i] \in DOMAIN m
    BY <1>11, <2>2
  <2> HIDE DEF r
  <2>4. \A i \in 0 .. Len(r) : m1[IF i = 0 THEN h ELSE r[i]] = m[IF i = 0 THEN h ELSE r[i]]
    <3> TAKE i \in 0 .. Len(r)
    <3>1. i # 0 => i \in DOMAIN r
      BY <2>3
    <3> QED BY <1>6, <2>1, <2>3, <3>1
  <2>5. Chain(b, m1, h, r)
    BY <2>3, <2>4 DEF Chain
  <2> QED BY <2>5 DEF r
<1>13. \A c \in D : m1[c] = Final(b, c) \/ \E h \in From(b, q1) : c \in Range(ch[h])
  <2> TAKE c \in D
  <2>1. CASE m[c] = Final(b, c)
    BY <1>6, <1>11, <2>1
  <2>2. CASE \E h \in From(b, q) : c \in Range(ch[h])
    <3>1. PICK h \in From(b, q) : c \in Range(ch[h])
      BY <2>2
    <3>2. h # q
      <4> SUFFICES ASSUME h = q PROVE FALSE
        OBVIOUS
      <4>1. DOMAIN ch[q] = {}
        BY <1>4, <1>5
      <4> QED BY <3>1, <4>1 DEF Range
    <3> QED BY <1>8, <3>1, <3>2
  <2> QED BY <1>2, <2>1, <2>2 DEF ThreadState
<1>14. \A c \in D : \A h \in From(b, q1) : Orig(b, c) = Ref(h) /\ (FALSE => h # q1) => c \in Range(ch[h])
  <2> SUFFICES ASSUME NEW c \in D, NEW h \in From(b, q1), Orig(b, c) = Ref(h) PROVE c \in Range(ch[h])
    OBVIOUS
  <2>1. h \in From(b, q) /\ h # q
    BY <1>8
  <2> QED BY <1>2, <2>1 DEF ThreadState
<1>15. \A c \in Settled(b) \ b.marks : c \notin D => m1[c] = Orig(b, c)
  <2>1. \A c \in Settled(b) \ b.marks : c \notin D => m[c] = Orig(b, c)
    BY <1>2 DEF ThreadState
  <2> QED BY <1>1, <1>6, <2>1
<1>16. Offsets(b, m1, cs, q1)
  <2>1. Offsets(b, m, cs, q)
    BY <1>2 DEF ThreadState
  <2> SUFFICES ASSUME NEW a \in b.marks, a < q1
               PROVE  m1[a] = Hdr(Tag(b.mem, a), IF a < cs THEN 0 ELSE New(b, a) - a)
    BY DEF Offsets
  <2>2. CASE a < q
    <3>1. m1[a] = m[a]
      BY <1>1, <1>6, <2>2
    <3> QED BY <2>1, <2>2, <3>1 DEF Offsets
  <2>3. CASE a = q
    <3>1. ~(a < cs)
      BY <1>1, <2>3
    <3> QED BY <1>6, <2>3, <3>1
  <2> QED BY <1>9, <2>2, <2>3
<1>17. \A h \in From(b, q1) : \A i \in DOMAIN ch[h] : ch[h][i] \in D /\ Orig(b, ch[h][i]) = Ref(h)
  BY <1>2, <1>8 DEF ThreadState
<1>18. ch \in [b.marks -> Seq(Int)]
  BY <1>2 DEF ThreadState
<1>19. ThreadState(b, m1, cs, q1, D, FALSE, ch)
  BY <1>12, <1>13, <1>14, <1>15, <1>16, <1>17, <1>18 DEF ThreadState
<1>20. Threading(b, m1, cs, q1, DoneSlots(b, cs, q1, Slots(b.mem, q)), FALSE)
  BY <1>10, <1>19 DEF Threading
<1>21. \A c \in DOMAIN m : ~IsLive(b, c) => m1[c] = m[c]
  <2>1. IsLive(b, q)
    BY <1>1 DEF IsLive
  <2> QED BY <1>6, <2>1
<1> QED BY <1>5, <1>7, <1>20, <1>21 DEF q1, DeadWordsSame

(* The end of update-references: the header is back, with its offset.       *)
LEMMA UpdateReferences_Inv == CollectInv /\ UpdateReferences => CollectInv'
<1> SUFFICES ASSUME CollectInv, UpdateReferences PROVE CollectInv'
  OBVIOUS
<1>1. /\ phase = "object" /\ mem[p].k = "hdr" /\ phase' = "live" /\ p' = p + AllocationSize(mem, p)
      /\ mem' = [mem EXCEPT ![p] = Hdr(mem[p].v, offset)] /\ todo' = Slots(mem, p)
      /\ top' = top /\ compactionStart' = compactionStart /\ oldObjectsEnd' = oldObjectsEnd
      /\ marks' = marks /\ before' = before
      /\ offset' = offset /\ live' = live /\ dead' = dead
  BY DEF UpdateReferences, areas, ranges
<1>2. HeapTypeOK /\ Facts(before) /\ IdleInv /\ PhaseInv
  BY DEF CollectInv
<1> DEFINE b == before
           m1 == mem'
           q1 == p + Words(before, p)
<1>3. LiveInv(b, mem, top, marks, compactionStart, p, {}, dead, live, offset, TRUE)
  BY <1>1, <1>2 DEF PhaseInv, IdleInv
<1>4. /\ p \in b.marks /\ p \in Nat /\ MemTyped(b, mem)
      /\ top \in Nat /\ compactionStart \in Nat /\ dead \in Nat /\ live \in Nat
  BY <1>2, <1>3, TypesAre DEF LiveInv, HeapTypeOK
<1>5. /\ Area(b, top, compactionStart) /\ compactionStart <= dead /\ dead < live /\ live <= p /\ EndsAt(b, p)
      /\ Threading(b, mem, compactionStart, p, DoneSlots(b, compactionStart, p, {}), TRUE)
      /\ offset = New(b, p) - p /\ New(b, p) \in Nat
      /\ Breaks(b, mem, compactionStart, compactionStart, dead)
      /\ marks = From(b, p) \ {p} /\ p <= top
      /\ \A c \in live .. p - 1 : IsLive(b, c)
  <2>1. New(b, p) \in Nat
    <3>1. p \in Int
      BY <1>4
    <3> HIDE DEF b
    <3> QED BY <3>1, NewIs
  <2> HIDE DEF b
  <2> QED BY <1>3, <2>1 DEF LiveInv
<1>6. compactionStart <= p
  BY <1>4, <1>5
<1>7. m1 = [mem EXCEPT ![p] = Hdr(mem[p].v, New(b, p) - p)]
  BY <1>1, <1>5
<1> HIDE DEF m1, b
<1>8. /\ Threading(b, m1, compactionStart, p + Words(b, p), DoneSlots(b, compactionStart, p + Words(b, p), Slots(b.mem, p)), FALSE)
      /\ MemTyped(b, m1) /\ mem[p] = Hdr(Tag(b.mem, p), 0)
      /\ DeadWordsSame(b, mem, m1)
  <2>1. Facts(b)
    BY <1>2 DEF b
  <2> QED BY <1>1, <2>1, <1>4, <1>5, <1>6, <1>7, UpdateStep
<1>9. p' = q1 /\ todo' = Slots(b.mem, p)
  <2>1. Tag(mem, p) = Tag(b.mem, p)
    BY <1>8 DEF Tag, Hdr
  <2> QED BY <1>1, <2>1 DEF Slots, AllocationSize, Words, b
<1>10. Words(b, p) \in Nat /\ Words(b, p) > 0 /\ p + Words(b, p) <= top /\ q1 = p + Words(b, p)
  BY <1>2, <1>4, <1>5, ObjectShape DEF Area, Fits, b
<1>11. EndsAt(b, q1) /\ From(b, q1) = From(b, p) \ {p} /\ q1 \in Nat /\ \A c \in live .. q1 - 1 : IsLive(b, c)
  <2>1. /\ EndsAt(b, p + Words(b, p)) /\ From(b, p + Words(b, p)) = From(b, p) \ {p}
        /\ \A c \in p .. p + Words(b, p) - 1 : IsLive(b, c)
        /\ p + Words(b, p) \in Nat
    BY <1>2, <1>4, <1>5, NextObject DEF b
  <2>2. \A c \in live .. q1 - 1 : IsLive(b, c)
    <3> HIDE DEF q1
    <3> QED BY <1>4, <1>5, <1>10, <2>1
  <2> QED BY <1>10, <2>1, <2>2
<1>12. Breaks(b, m1, compactionStart, compactionStart, dead)
  <2>2. \A c \in 0 .. dead - 1 : ~IsLive(b, c) => m1[c] = mem[c]
    <3>1. 0 .. top - 1 \subseteq DOMAIN mem
      BY <1>2 DEF HeapTypeOK
    <3> QED BY <1>4, <1>5, <1>8, <3>1 DEF DeadWordsSame
  <2> QED BY <1>4, <1>5, <2>2, BreaksFrame
<1>13. offset = New(b, q1) - q1
  <2>1. Words(b, p) \in 0 .. Words(b, p)
    BY <1>10
  <2>2. New(b, p + Words(b, p)) = New(b, p) + Words(b, p)
    BY <1>2, <1>4, <2>1, NewInside DEF b
  <2> QED BY <1>4, <1>5, <1>10, <2>2
<1> HIDE DEF q1
<1>14. LiveInv(b, m1, top, marks, compactionStart, q1, Slots(b.mem, p), dead, live, offset, FALSE)
  <2>1. marks = From(b, q1) /\ live <= q1 /\ q1 <= top
    BY <1>4, <1>5, <1>10, <1>11
  <2>2. \E a \in b.marks : compactionStart <= a /\ a + Words(b, a) = q1 /\ Slots(b.mem, p) \subseteq Slots(b.mem, a)
    BY <1>4, <1>6, <1>10
  <2>3. Threading(b, m1, compactionStart, q1, DoneSlots(b, compactionStart, q1, Slots(b.mem, p)), FALSE)
    BY <1>8, <1>10
  <2>4. /\ compactionStart < top /\ BreakAt(b, compactionStart, dead) /\ live \in b.marks
        /\ \A c \in dead .. live - 1 : ~IsLive(b, c)
    BY <1>3 DEF LiveInv
  <2> QED BY <1>5, <1>11, <1>12, <1>13, <2>1, <2>2, <2>3, <2>4 DEF LiveInv
<1>15. mem' = m1 /\ before' = b
  BY <1>1 DEF m1, b
<1>16. todo' \subseteq DOMAIN mem
  <2>1. Slots(b.mem, p) \subseteq SlotCells(b)
    BY <1>4 DEF SlotCells
  <2> QED BY <1>2, <1>4, <1>9, <2>1, SlotCellsApart DEF MemTyped, b
<1>17. HeapTypeOK'
  BY <1>1, <1>2, <1>8, <1>9, <1>11, <1>15, <1>16 DEF HeapTypeOK, MemTyped, WordSet, CollectPhases
<1>18. PhaseInv'
  BY <1>1, <1>9, <1>14, <1>15 DEF PhaseInv
<1> QED BY <1>1, <1>2, <1>17, <1>18 DEF CollectInv, IdleInv
-----------------------------------------------------------------------------
(* Visiting a slot.  Its word gets its new value, or the slot joins the     *)
(* list of the object it refers to.                                         *)
LEMMA VisitSettles ==
  ASSUME NEW b, Facts(b), NEW m, MemTyped(b, m), NEW cs, NEW q, NEW D, D \subseteq SlotCells(b), NEW ch,
         ThreadState(b, m, cs, q, D, FALSE, ch), NEW c \in SlotCells(b), c \notin D,
         \A h \in From(b, q) : Orig(b, c) # Ref(h),
         NEW m1, DOMAIN m1 = DOMAIN m, \A x \in DOMAIN m : x # c => m1[x] = m[x], m1[c] = Final(b, c)
  PROVE  ThreadState(b, m1, cs, q, D \cup {c}, FALSE, ch)
<1>1. /\ c \notin b.marks /\ c \in DOMAIN m /\ Settled(b) \subseteq DOMAIN m /\ b.marks \subseteq DOMAIN m
      /\ D \subseteq DOMAIN m /\ From(b, q) \subseteq b.marks
  BY SlotCellsApart, SettledIs DEF MemTyped, From
<1>2. \A h \in From(b, q) : Chain(b, m1, h, ch[h])
  <2> TAKE h \in From(b, q)
  <2>1. Chain(b, m, h, ch[h]) /\ ch[h] \in Seq(Int) /\ \A i \in DOMAIN ch[h] : ch[h][i] \in D
    BY <1>1 DEF ThreadState
  <2>2. h # c /\ h \in DOMAIN m
    BY <1>1
  <2>3. \A i \in 0 .. Len(ch[h]) : m1[IF i = 0 THEN h ELSE ch[h][i]] = m[IF i = 0 THEN h ELSE ch[h][i]]
    <3> TAKE i \in 0 .. Len(ch[h])
    <3>1. i # 0 => i \in DOMAIN ch[h]
      BY <2>1
    <3> QED BY <1>1, <2>1, <2>2, <3>1
  <2> QED BY <2>1, <2>3 DEF Chain
<1>3. \A x \in D \cup {c} : m1[x] = Final(b, x) \/ \E h \in From(b, q) : x \in Range(ch[h])
  <2> TAKE x \in D \cup {c}
  <2>1. CASE x = c
    BY <2>1
  <2>2. CASE x # c
    <3>1. m[x] = Final(b, x) \/ \E h \in From(b, q) : x \in Range(ch[h])
      BY <2>2 DEF ThreadState
    <3>2. m1[x] = m[x]
      BY <1>1, <2>2
    <3> QED BY <3>1, <3>2
  <2> QED BY <2>1, <2>2
<1>4. \A x \in D \cup {c} : \A h \in From(b, q) : Orig(b, x) = Ref(h) /\ (FALSE => h # q) => x \in Range(ch[h])
  BY DEF ThreadState
<1>5. \A x \in Settled(b) \ b.marks : x \notin D \cup {c} => m1[x] = Orig(b, x)
  <2>1. \A x \in Settled(b) \ b.marks : x \notin D => m[x] = Orig(b, x)
    BY DEF ThreadState
  <2> QED BY <1>1, <2>1
<1>6. Offsets(b, m1, cs, q)
  <2>1. Offsets(b, m, cs, q)
    BY DEF ThreadState
  <2> QED BY <1>1, <2>1 DEF Offsets
<1>7. /\ ch \in [b.marks -> Seq(Int)]
      /\ \A h \in From(b, q) : \A i \in DOMAIN ch[h] : ch[h][i] \in D \cup {c} /\ Orig(b, ch[h][i]) = Ref(h)
  BY DEF ThreadState
<1> QED BY <1>2, <1>3, <1>4, <1>5, <1>6, <1>7 DEF ThreadState

(* The slot becomes the first on the list of its target.                    *)
LEMMA VisitThreads ==
  ASSUME NEW b, Facts(b), NEW m, MemTyped(b, m), NEW cs, NEW q \in Int, NEW D, D \subseteq SlotCells(b), NEW ch,
         ThreadState(b, m, cs, q, D, FALSE, ch), NEW c \in SlotCells(b), c \notin D,
         NEW v \in From(b, q), Orig(b, c) = Ref(v), v \in Int,
         NEW m1, DOMAIN m1 = DOMAIN m, \A x \in DOMAIN m : x # c /\ x # v => m1[x] = m[x],
         m1[c] = m[v], m1[v] = Thread(c)
  PROVE  ThreadState(b, m1, cs, q, D \cup {c}, FALSE, [ch EXCEPT ![v] = <<c>> \o ch[v]])
<1> DEFINE s == ch[v]
           r == <<c>> \o ch[v]
           ch1 == [ch EXCEPT ![v] = r]
<1>1. /\ c \notin b.marks /\ c \in DOMAIN m /\ Settled(b) \subseteq DOMAIN m /\ b.marks \subseteq DOMAIN m
      /\ D \subseteq DOMAIN m /\ From(b, q) \subseteq b.marks /\ c \in Int
      /\ \A x \in D : x \notin b.marks
  BY SlotCellsApart, SettledIs DEF MemTyped, From
<1>2. s \in Seq(Int) /\ Chain(b, m, v, s) /\ \A i \in DOMAIN s : s[i] \in D /\ Orig(b, s[i]) = Ref(v)
  BY <1>1 DEF ThreadState
<1>3. /\ r \in Seq(Int) /\ Len(r) = Len(s) + 1 /\ r[1] = c
      /\ \A i \in 1 .. Len(s) : r[i + 1] = s[i]
      /\ DOMAIN r = 1 .. Len(s) + 1 /\ Range(r) = {c} \cup Range(s)
  <2> HIDE DEF s
  <2> QED BY <1>1, <1>2, ConsIs DEF s
<1>4. /\ ch1 \in [b.marks -> Seq(Int)] /\ ch1[v] = r
      /\ \A h \in b.marks : h # v => ch1[h] = ch[h]
  <2>1. ch \in [b.marks -> Seq(Int)]
    BY DEF ThreadState
  <2> HIDE DEF r
  <2> QED BY <1>1, <1>3, <2>1
<1> HIDE DEF r, ch1
<1>5. Chain(b, m1, v, r)
  <2> HIDE DEF s
  <2>1. /\ Injective(s)
        /\ \A i \in 0 .. Len(s) :
             m[IF i = 0 THEN v ELSE s[i]] = IF i < Len(s) THEN Thread(s[i + 1]) ELSE Hdr(Tag(b.mem, v), 0)
    BY <1>2 DEF Chain
  <2>2. Len(s) \in Nat /\ DOMAIN s = 1 .. Len(s)
    BY <1>2
  <2>3. \A i \in DOMAIN r : i = 1 \/ (i - 1 \in DOMAIN s /\ r[i] = s[i - 1])
    <3> TAKE i \in DOMAIN r
    <3>1. i # 1 => i - 1 \in 1 .. Len(s) /\ (i - 1) + 1 = i
      BY <1>3, <2>2
    <3> QED BY <1>3, <2>2, <3>1
  <2>4. Injective(r)
    <3> SUFFICES ASSUME NEW i \in DOMAIN r, NEW j \in DOMAIN r, r[i] = r[j] PROVE i = j
      BY DEF Injective
    <3>0. i \in Int /\ j \in Int
      BY <1>3
    <3>1. CASE i = 1 /\ j # 1
      <4>1. j - 1 \in DOMAIN s /\ r[j] = s[j - 1]
        BY <2>3, <3>1
      <4>2. s[j - 1] \in D
        BY <1>2, <4>1
      <4> QED BY <1>3, <3>1, <4>1, <4>2
    <3>2. CASE i # 1 /\ j = 1
      <4>1. i - 1 \in DOMAIN s /\ r[i] = s[i - 1]
        BY <2>3, <3>2
      <4>2. s[i - 1] \in D
        BY <1>2, <4>1
      <4> QED BY <1>3, <3>2, <4>1, <4>2
    <3>3. CASE i # 1 /\ j # 1
      <4>1. /\ i - 1 \in DOMAIN s /\ r[i] = s[i - 1]
            /\ j - 1 \in DOMAIN s /\ r[j] = s[j - 1]
        BY <2>3, <3>3
      <4>2. i - 1 = j - 1
        BY <2>1, <4>1 DEF Injective
      <4> QED BY <3>0, <4>2
    <3> QED BY <3>1, <3>2, <3>3
  <2>5. ASSUME NEW i \in 0 .. Len(r)
        PROVE  m1[IF i = 0 THEN v ELSE r[i]] = IF i < Len(r) THEN Thread(r[i + 1]) ELSE Hdr(Tag(b.mem, v), 0)
    <3>0. i \in Nat
      OBVIOUS
    <3>1. CASE i = 0
      BY <1>3, <2>2, <3>1
    <3>2. CASE i = 1
      <4>1. m[v] = IF 0 < Len(s) THEN Thread(s[1]) ELSE Hdr(Tag(b.mem, v), 0)
        <5>1. 0 \in 0 .. Len(s) /\ 0 + 1 = 1
          BY <2>2
        <5> QED BY <2>1, <5>1
      <4>2. m1[r[1]] = m[v]
        BY <1>3
      <4>3. 0 < Len(s) => r[2] = s[1]
        <5> SUFFICES ASSUME 0 < Len(s) PROVE r[2] = s[1]
          OBVIOUS
        <5>1. 1 \in 1 .. Len(s) /\ 1 + 1 = 2
          BY <2>2
        <5> QED BY <1>3, <5>1
      <4>4. 1 < Len(r) <=> 0 < Len(s)
        BY <1>3, <2>2
      <4> QED BY <3>2, <4>1, <4>2, <4>3, <4>4
    <3>3. CASE i > 1
      <4>1. i - 1 \in 0 .. Len(s) /\ i - 1 # 0 /\ i - 1 \in DOMAIN s /\ i \in DOMAIN r /\ (i - 1) + 1 = i
        BY <1>3, <2>2, <3>0, <3>3
      <4>2. r[i] = s[i - 1]
        BY <2>3, <3>3, <4>1
      <4>3. m[s[i - 1]] = IF i - 1 < Len(s) THEN Thread(s[i]) ELSE Hdr(Tag(b.mem, v), 0)
        BY <2>1, <4>1
      <4>4. s[i - 1] \in D /\ s[i - 1] # c /\ s[i - 1] # v /\ s[i - 1] \in DOMAIN m
        BY <1>1, <1>2, <4>1
      <4>5. m1[s[i - 1]] = m[s[i - 1]]
        BY <4>4
      <4>6. i < Len(r) => r[i + 1] = s[i]
        <5> SUFFICES ASSUME i < Len(r) PROVE r[i + 1] = s[i]
          OBVIOUS
        <5>1. i \in 1 .. Len(s)
          BY <1>3, <2>2, <3>0, <3>3
        <5> QED BY <1>3, <5>1
      <4>7. i - 1 < Len(s) <=> i < Len(r)
        BY <1>3, <2>2, <3>0
      <4> QED BY <3>0, <3>3, <4>2, <4>3, <4>5, <4>6, <4>7
    <3> QED BY <3>0, <3>1, <3>2, <3>3
  <2> QED BY <2>4, <2>5 DEF Chain
<1>6. ASSUME NEW h \in From(b, q), h # v PROVE Chain(b, m1, h, ch[h])
  <2>1. Chain(b, m, h, ch[h]) /\ ch[h] \in Seq(Int) /\ \A i \in DOMAIN ch[h] : ch[h][i] \in D
    BY <1>1 DEF ThreadState
  <2>2. h # c /\ h # v /\ h \in DOMAIN m
    BY <1>1, <1>6
  <2>3. \A i \in 0 .. Len(ch[h]) : m1[IF i = 0 THEN h ELSE ch[h][i]] = m[IF i = 0 THEN h ELSE ch[h][i]]
    <3> TAKE i \in 0 .. Len(ch[h])
    <3>1. i # 0 => i \in DOMAIN ch[h]
      BY <2>1
    <3> QED BY <1>1, <2>1, <2>2, <3>1
  <2> QED BY <2>1, <2>3 DEF Chain
<1>7. \A h \in From(b, q) : Chain(b, m1, h, ch1[h])
  BY <1>1, <1>4, <1>5, <1>6
<1>8. \A h \in From(b, q) : \A i \in DOMAIN ch1[h] : ch1[h][i] \in D \cup {c} /\ Orig(b, ch1[h][i]) = Ref(h)
  <2> TAKE h \in From(b, q)
  <2>1. CASE h = v
    <3>1. \A i \in DOMAIN r : r[i] \in D \cup {c} /\ Orig(b, r[i]) = Ref(v)
      <4> TAKE i \in DOMAIN r
      <4>1. CASE i = 1
        BY <1>3, <4>1
      <4>2. CASE i # 1
        <5>1. i - 1 \in 1 .. Len(s) /\ (i - 1) + 1 = i /\ i - 1 \in DOMAIN s
          <6> HIDE DEF s
          <6>1. Len(s) \in Nat /\ DOMAIN s = 1 .. Len(s)
            BY <1>2
          <6> QED BY <6>1, <1>3, <4>2
        <5>2. r[i] = s[i - 1]
          BY <1>3, <5>1
        <5> QED BY <1>2, <5>1, <5>2
      <4> QED BY <4>1, <4>2
    <3> QED BY <1>4, <2>1, <3>1
  <2>2. CASE h # v
    <3>1. ch1[h] = ch[h]
      BY <1>1, <1>4, <2>2
    <3> QED BY <3>1 DEF ThreadState
  <2> QED BY <2>1, <2>2
<1>9. \A x \in D \cup {c} : m1[x] = Final(b, x) \/ \E h \in From(b, q) : x \in Range(ch1[h])
  <2> TAKE x \in D \cup {c}
  <2>1. CASE x = c
    BY <1>3, <1>4, <2>1
  <2>2. CASE x # c
    <3>1. m[x] = Final(b, x) \/ \E h \in From(b, q) : x \in Range(ch[h])
      BY <2>2 DEF ThreadState
    <3>2. m1[x] = m[x]
      BY <1>1, <2>2
    <3>3. ASSUME NEW h \in From(b, q), x \in Range(ch[h]) PROVE x \in Range(ch1[h])
      BY <1>1, <1>3, <1>4, <3>3
    <3> QED BY <3>1, <3>2, <3>3
  <2> QED BY <2>1, <2>2
<1>10. \A x \in D \cup {c} : \A h \in From(b, q) : Orig(b, x) = Ref(h) /\ (FALSE => h # q) => x \in Range(ch1[h])
  <2> SUFFICES ASSUME NEW x \in D \cup {c}, NEW h \in From(b, q), Orig(b, x) = Ref(h)
               PROVE  x \in Range(ch1[h])
    OBVIOUS
  <2>1. CASE x = c
    <3>1. h = v
      BY <2>1 DEF Ref
    <3> QED BY <1>3, <1>4, <2>1, <3>1
  <2>2. CASE x # c
    <3>1. x \in Range(ch[h])
      BY <2>2 DEF ThreadState
    <3> QED BY <1>1, <1>3, <1>4, <3>1
  <2> QED BY <2>1, <2>2
<1>11. \A x \in Settled(b) \ b.marks : x \notin D \cup {c} => m1[x] = Orig(b, x)
  <2>1. \A x \in Settled(b) \ b.marks : x \notin D => m[x] = Orig(b, x)
    BY DEF ThreadState
  <2> QED BY <1>1, <2>1
<1>12. Offsets(b, m1, cs, q)
  <2>1. Offsets(b, m, cs, q)
    BY DEF ThreadState
  <2> SUFFICES ASSUME NEW a \in b.marks, a < q PROVE m1[a] = m[a]
    BY <2>1 DEF Offsets
  <2>2. a # v
    BY <1>1, ObjectShape DEF From
  <2> QED BY <1>1, <2>2
<1>13. ThreadState(b, m1, cs, q, D \cup {c}, FALSE, ch1)
  BY <1>4, <1>7, <1>8, <1>9, <1>10, <1>11, <1>12 DEF ThreadState
<1> QED BY <1>13 DEF ch1, r

Threaded(m, m1, c, v) ==
  /\ DOMAIN m1 = DOMAIN m /\ \A x \in DOMAIN m : x # c /\ x # v => m1[x] = m[x]
  /\ m1[c] = m[v] /\ m1[v] = Thread(c)
(* The same, as Threading states it.                                        *)
LEMMA VisitThreading ==
  ASSUME NEW b, Facts(b), NEW m, MemTyped(b, m), NEW cs, NEW q \in Int, NEW D, D \subseteq SlotCells(b),
         NEW ch, ThreadState(b, m, cs, q, D, FALSE, ch), NEW c \in SlotCells(b), c \notin D,
         NEW v \in From(b, q), Orig(b, c) = Ref(v), v \in Int,
         NEW m1, Threaded(m, m1, c, v)
  PROVE  Threading(b, m1, cs, q, D \cup {c}, FALSE)
<1> DEFINE ch1 == [ch EXCEPT ![v] = <<c>> \o ch[v]]
<1>1. /\ DOMAIN m1 = DOMAIN m /\ (\A x \in DOMAIN m : x # c /\ x # v => m1[x] = m[x])
      /\ m1[c] = m[v] /\ m1[v] = Thread(c)
  BY DEF Threaded
<1>2. ThreadState(b, m1, cs, q, D \cup {c}, FALSE, [ch EXCEPT ![v] = <<c>> \o ch[v]])
  BY ONLY <1>1, VisitThreads, Facts(b), MemTyped(b, m), q \in Int, D \subseteq SlotCells(b), ThreadState(b, m, cs, q, D, FALSE, ch),
     c \in SlotCells(b), c \notin D, v \in From(b, q), Orig(b, c) = Ref(v), v \in Int
<1> QED BY <1>2 DEF Threading

(* What a reference to relocate refers to, and what becomes of it.          *)
LEMMA AreaRef ==
  ASSUME NEW b, Facts(b), NEW t, NEW cs \in Nat, ~IsLive(b, cs), \A c \in 0 .. cs - 1 : IsLive(b, c),
         NEW c \in RefCells(b), b.mem[c].k = "ref"
  PROVE  /\ b.mem[c].v \in b.marks /\ b.mem[c].v \in Nat /\ b.mem[c].v # cs
         /\ b.mem[c] = Ref(b.mem[c].v) /\ Orig(b, c) = b.mem[c]
         /\ Final(b, c) = Ref(New(b, b.mem[c].v))
         /\ b.mem[c].v < cs => Final(b, c) = b.mem[c]
<1>1. /\ Orig(b, c) = b.mem[c] /\ Final(b, c) = NewRef(b, b.mem[c]) /\ b.mem[c].v \in b.marks
  BY OrigRef
<1>2. b.mem[c] = Ref(b.mem[c].v)
  BY SettledIs, RefWord
<1>3. b.mem[c].v \in Nat /\ IsLive(b, b.mem[c].v)
  <2>1. At(b, b.mem[c].v, b.mem[c].v, 0)
    BY <1>1, SetsAt
  <2> QED BY <2>1, AtIs
<1>4. b.mem[c].v # cs
  BY <1>3
<1>5. Final(b, c) = Ref(New(b, b.mem[c].v))
  BY <1>1 DEF NewRef
<1>6. ASSUME b.mem[c].v < cs PROVE New(b, b.mem[c].v) = b.mem[c].v
  <2>1. b.mem[c].v \in 0 .. cs
    BY <1>3, <1>6
  <2> QED BY <2>1, NewFixed
<1> QED BY <1>1, <1>2, <1>3, <1>4, <1>5, <1>6

Visited(m, cs, c) ==
  IF m[c].k # "ref" \/ m[c].v <= cs THEN m
  ELSE IF m[c].v > c THEN [m EXCEPT ![c] = m[m[c].v], ![m[c].v] = Thread(c)]
  ELSE [m EXCEPT ![c] = Ref(m[c].v + RelocationOffset(m, m[c].v))]
Visiting(b, m, cs, q, td) ==
  /\ ~IsLive(b, cs) /\ \A x \in 0 .. cs - 1 : IsLive(b, x)
  /\ \E a \in b.marks : cs <= a /\ a + Words(b, a) = q /\ td \subseteq Slots(b.mem, a)
  /\ Threading(b, m, cs, q, DoneSlots(b, cs, q, td), FALSE)

(* What relocate-or-reverse-reference does to a slot is one or the other.   *)
LEMMA VisitStep ==
  ASSUME NEW b, Facts(b), NEW m, MemTyped(b, m), NEW cs \in Nat, NEW q \in Nat,
         NEW td, NEW c \in td, Visiting(b, m, cs, q, td), NEW m1, m1 = Visited(m, cs, c)
  PROVE  /\ Threading(b, m1, cs, q, DoneSlots(b, cs, q, td \ {c}), FALSE)
         /\ MemTyped(b, m1) /\ DeadWordsSame(b, m, m1)
<1> DEFINE D == DoneSlots(b, cs, q, td)
           v == m[c].v
<1>a. /\ ~IsLive(b, cs) /\ \A x \in 0 .. cs - 1 : IsLive(b, x)
      /\ Threading(b, m, cs, q, DoneSlots(b, cs, q, td), FALSE)
  BY DEF Visiting
<1>b. PICK a0 \in b.marks : cs <= a0 /\ a0 + Words(b, a0) = q /\ td \subseteq Slots(b.mem, a0)
  BY DEF Visiting
<1>c. m1 = IF m[c].k # "ref" \/ m[c].v <= cs THEN m
           ELSE IF m[c].v > c THEN [m EXCEPT ![c] = m[m[c].v], ![m[c].v] = Thread(c)]
           ELSE [m EXCEPT ![c] = Ref(m[c].v + RelocationOffset(m, m[c].v))]
  BY DEF Visited
<1>1. PICK i \in RefSlots[Tag(b.mem, a0)] : c = a0 + i
  BY <1>b DEF Slots
<1>2. /\ a0 \in Nat /\ Words(b, a0) \in Nat /\ i \in Nat /\ 0 < i /\ i < Words(b, a0)
      /\ c \in Nat /\ a0 < c /\ c < q /\ cs < q
  <2>1. a0 \in Nat /\ Words(b, a0) \in Nat /\ i \in Nat /\ 0 < i /\ i < Words(b, a0)
    BY ObjectShape
  <2> QED BY <1>1, <1>b, <2>1
<1>3. c \in SlotCells(b)
  BY <1>b DEF SlotCells
<1>4. DoneSlots(b, cs, q, td \ {c}) = D \cup {c} /\ c \notin D
  <2>1. a0 \in {x \in b.marks : cs <= x /\ x < q}
    BY <1>2, <1>b
  <2>2. c \in UNION {Slots(b.mem, a) : a \in {x \in b.marks : cs <= x /\ x < q}}
    BY <2>1, <1>b
  <2> QED BY <2>2 DEF DoneSlots
<1>5. D \subseteq SlotCells(b)
  BY DoneSlotsAre
<1>6. PICK ch : ThreadState(b, m, cs, q, D, FALSE, ch)
  BY <1>a DEF Threading, D
<1> HIDE DEF D
<1>7. /\ c \in RefCells(b) /\ c \in Settled(b) /\ c \notin b.marks /\ c \in DOMAIN m
      /\ Orig(b, c) = b.mem[c] /\ DOMAIN m = DOMAIN b.mem /\ IsLive(b, c)
  BY <1>3, SlotCellsApart, OrigRef DEF MemTyped
<1>8. m[c] = b.mem[c]
  BY <1>4, <1>6, <1>7 DEF ThreadState
<1>9. ASSUME \A h \in From(b, q) : Orig(b, c) # Ref(h),
             DOMAIN m1 = DOMAIN m, \A x \in DOMAIN m : x # c => m1[x] = m[x], m1[c] = Final(b, c)
      PROVE  Threading(b, m1, cs, q, D \cup {c}, FALSE)
  <2>1. ThreadState(b, m1, cs, q, D \cup {c}, FALSE, ch)
    BY <1>3, <1>4, <1>5, <1>6, <1>9, VisitSettles
  <2> QED BY <2>1 DEF Threading
<1>10. CASE m[c].k # "ref"
  <2>1. m1 = m
    BY <1>c, <1>10
  <2>2. Final(b, c) = m[c]
    BY <1>7, <1>8, <1>10, OrigRef DEF NewRef
  <2>3. \A h \in From(b, q) : Orig(b, c) # Ref(h)
    BY <1>7, <1>8, <1>10 DEF Ref
  <2>4. Threading(b, m1, cs, q, D \cup {c}, FALSE)
    BY <1>9, <2>1, <2>2, <2>3
  <2> QED BY <1>4, <2>1, <2>4 DEF DeadWordsSame
<1>11. ASSUME m[c].k = "ref"
       PROVE  /\ v \in b.marks /\ v \in Nat /\ v # cs /\ Orig(b, c) = Ref(v) /\ m[c] = Ref(v)
              /\ Final(b, c) = Ref(New(b, v)) /\ (v < cs => Final(b, c) = m[c])
  BY <1>a, <1>7, <1>8, <1>11, AreaRef
<1>12. CASE m[c].k = "ref" /\ v <= cs
  <2>1. m1 = m /\ v < cs
    BY <1>c, <1>11, <1>12
  <2>2. \A h \in From(b, q) : Orig(b, c) # Ref(h)
    <3> SUFFICES ASSUME NEW h \in From(b, q), Ref(v) = Ref(h) PROVE FALSE
      BY <1>11, <1>12
    <3>1. h = v /\ h >= q
      BY DEF Ref, From
    <3> HIDE DEF v
    <3> QED BY <1>2, <1>11, <1>12, <2>1, <3>1
  <2>3. Threading(b, m1, cs, q, D \cup {c}, FALSE)
    BY <1>9, <1>11, <1>12, <2>1, <2>2
  <2> QED BY <1>4, <2>1, <2>3 DEF DeadWordsSame
<1>13. CASE m[c].k = "ref" /\ v > cs /\ v > c
  <2>1. v >= q
    <3> SUFFICES ASSUME v < q PROVE FALSE
      BY <1>2, <1>11, <1>13
    <3> HIDE DEF v
    <3>1. v \in b.marks /\ v \in Nat /\ Words(b, v) \in Nat /\ Words(b, v) > 0
      BY <1>11, <1>13, ObjectShape
    <3>2. v \in Int /\ a0 <= v /\ v < a0 + Words(b, a0) /\ v <= v /\ v < v + Words(b, v)
      BY <1>2, <1>b, <1>13, <3>1
    <3>3. a0 = v
      BY <3>1, <3>2, ObjectsApart
    <3> QED BY <1>2, <1>13, <3>3
  <2>2. v \in From(b, q) /\ v \in Int /\ v \in DOMAIN m /\ IsLive(b, v)
    <3>1. At(b, v, v, 0)
      BY <1>11, <1>13, SetsAt
    <3>2. v \in DOMAIN b.mem /\ IsLive(b, v)
      BY <3>1, AtIs
    <3> QED BY <1>7, <1>11, <1>13, <2>1, <3>2 DEF From
  <2>3. m1 = [m EXCEPT ![c] = m[v], ![v] = Thread(c)]
    <3>1. ~(m[c].k # "ref" \/ m[c].v <= cs) /\ m[c].v > c
      BY <1>2, <1>11, <1>13
    <3> QED BY <1>c, <3>1
  <2>4. c # v
    BY <1>7, <1>11, <1>13
  <2> HIDE DEF v
  <2>5. /\ DOMAIN m1 = DOMAIN m /\ (\A x \in DOMAIN m : x # c /\ x # v => m1[x] = m[x])
        /\ m1[c] = m[v] /\ m1[v] = Thread(c)
    BY <1>7, <2>2, <2>3, <2>4
  <2>6. Threading(b, m1, cs, q, D \cup {c}, FALSE)
    <3>1. Orig(b, c) = Ref(v) /\ q \in Int
      BY <1>11, <1>13
    <3>2. Threaded(m, m1, c, v)
      BY <2>5 DEF Threaded
    <3> QED BY <1>3, <1>4, <1>5, <1>6, <2>2, <3>1, <3>2, VisitThreading
  <2>7. MemTyped(b, m1)
    <3>1. m[v] \in WordSet /\ Thread(c) \in WordSet
      BY <1>2, <2>2, WordTypes DEF MemTyped
    <3>2. \A x \in DOMAIN m1 : m1[x] \in WordSet
      BY <2>5, <3>1 DEF MemTyped
    <3> QED BY <1>7, <2>5, <3>2 DEF MemTyped
  <2>8. DeadWordsSame(b, m, m1)
    BY <1>7, <2>2, <2>5 DEF DeadWordsSame
  <2> QED BY <1>4, <2>6, <2>7, <2>8
<1>14. CASE m[c].k = "ref" /\ v > cs /\ ~(v > c)
  <2>1. v < q /\ v \in b.marks /\ v \in Nat /\ ~(v < cs)
    BY <1>2, <1>11, <1>14
  <2>2. m[v] = Hdr(Tag(b.mem, v), New(b, v) - v)
    <3>1. Offsets(b, m, cs, q)
      BY <1>6 DEF ThreadState
    <3> HIDE DEF v
    <3> QED BY <2>1, <3>1 DEF Offsets
  <2>3. RelocationOffset(m, v) = New(b, v) - v
    BY <2>2 DEF RelocationOffset, Hdr
  <2>4. v + RelocationOffset(m, v) = New(b, v) /\ New(b, v) \in Nat
    <3>1. New(b, v) \in Nat
      BY <2>1, NewIs
    <3> HIDE DEF v
    <3> QED BY <2>1, <2>3, <3>1
  <2>5. m1 = [m EXCEPT ![c] = Ref(New(b, v))]
    <3>1. ~(m[c].k # "ref" \/ m[c].v <= cs) /\ ~(m[c].v > c)
      BY <1>2, <1>11, <1>14
    <3> QED BY <1>c, <2>4, <3>1
  <2>6. DOMAIN m1 = DOMAIN m /\ (\A x \in DOMAIN m : x # c => m1[x] = m[x]) /\ m1[c] = Final(b, c)
    <3>1. Final(b, c) = Ref(New(b, v))
      BY <1>11, <1>14
    <3> HIDE DEF v
    <3> QED BY <1>7, <2>5, <3>1
  <2>7. \A h \in From(b, q) : Orig(b, c) # Ref(h)
    <3> SUFFICES ASSUME NEW h \in From(b, q), Ref(v) = Ref(h) PROVE FALSE
      BY <1>11, <1>14
    <3>1. h = v /\ h >= q
      BY DEF Ref, From
    <3> HIDE DEF v
    <3> QED BY <2>1, <3>1
  <2>8. Threading(b, m1, cs, q, D \cup {c}, FALSE)
    BY <1>9, <2>6, <2>7
  <2>9. MemTyped(b, m1)
    <3>1. Ref(New(b, v)) \in WordSet
      BY <2>4, WordTypes
    <3> DEFINE w == Ref(New(b, v))
    <3>2. m1 = [m EXCEPT ![c] = w] /\ w \in WordSet
      BY <2>5, <3>1
    <3> HIDE DEF v, w
    <3>3. MemTyped(b, [m EXCEPT ![c] = w])
      BY <1>7, <3>2, TypedUpdate
    <3> QED BY <3>2, <3>3
  <2>10. DeadWordsSame(b, m, m1)
    BY <1>7, <2>6 DEF DeadWordsSame
  <2> QED BY <1>4, <2>8, <2>9, <2>10
<1>15. \/ m[c].k # "ref"
       \/ m[c].k = "ref" /\ v <= cs
       \/ m[c].k = "ref" /\ v > cs /\ v > c
       \/ m[c].k = "ref" /\ v > cs /\ ~(v > c)
  <2>1. m[c].k = "ref" => v \in Nat
    BY <1>11
  <2> HIDE DEF v
  <2> QED BY <2>1
<1> QED BY <1>10, <1>12, <1>13, <1>14, <1>15

(* Visiting one slot of the object keeps the invariant.                     *)
LEMMA VisitSlot_Inv == CollectInv /\ VisitSlot => CollectInv'
<1> SUFFICES ASSUME CollectInv, VisitSlot PROVE CollectInv'
  OBVIOUS
<1>1. /\ phase = "live" /\ phase' = phase /\ p' = p
      /\ top' = top /\ compactionStart' = compactionStart /\ oldObjectsEnd' = oldObjectsEnd
      /\ marks' = marks /\ before' = before
      /\ offset' = offset /\ live' = live /\ dead' = dead
  BY DEF VisitSlot, areas, ranges
<1>2. PICK c \in todo : mem' = RelocateOrReverse(mem, c) /\ todo' = todo \ {c}
  BY DEF VisitSlot
<1>3. HeapTypeOK /\ Facts(before) /\ IdleInv /\ PhaseInv
  BY DEF CollectInv
<1> DEFINE m1 == mem'
<1>4. LiveInv(before, mem, top, marks, compactionStart, p, todo, dead, live, offset, FALSE)
  BY <1>1, <1>3 DEF PhaseInv
<1>5. /\ p \in Nat /\ MemTyped(before, mem)
      /\ top \in Nat /\ compactionStart \in Nat /\ dead \in Nat /\ live \in Nat
  BY <1>3, <1>4, TypesAre DEF LiveInv, HeapTypeOK
<1>6. /\ ~IsLive(before, compactionStart) /\ \A x \in 0 .. compactionStart - 1 : IsLive(before, x)
      /\ Threading(before, mem, compactionStart, p, DoneSlots(before, compactionStart, p, todo), FALSE)
      /\ Breaks(before, mem, compactionStart, compactionStart, dead)
      /\ dead < live /\ live <= p /\ p <= top
  BY <1>4 DEF LiveInv, Area
<1>7. PICK a \in before.marks : compactionStart <= a /\ a + Words(before, a) = p /\ todo \subseteq Slots(before.mem, a)
  BY <1>2, <1>4 DEF LiveInv
<1>8. m1 = Visited(mem, compactionStart, c)
  BY <1>2 DEF RelocateOrReverse, ReverseReference, Visited
<1>v. Visiting(before, mem, compactionStart, p, todo)
  BY <1>6, <1>7 DEF Visiting
<1> HIDE DEF m1
<1>9. /\ Threading(before, m1, compactionStart, p, DoneSlots(before, compactionStart, p, todo \ {c}), FALSE)
      /\ MemTyped(before, m1) /\ DeadWordsSame(before, mem, m1)
  BY <1>3, <1>5, <1>v, <1>8, VisitStep
<1>10. Breaks(before, m1, compactionStart, compactionStart, dead)
  <2>2. \A x \in 0 .. dead - 1 : ~IsLive(before, x) => m1[x] = mem[x]
    <3>1. 0 .. top - 1 \subseteq DOMAIN mem
      BY <1>3 DEF HeapTypeOK
    <3> QED BY <1>5, <1>6, <1>9, <3>1 DEF DeadWordsSame
  <2> QED BY <1>5, <1>6, <2>2, BreaksFrame
<1>11. \E x \in before.marks : compactionStart <= x /\ x + Words(before, x) = p /\ todo \ {c} \subseteq Slots(before.mem, x)
  BY <1>7
<1>12. LiveInv(before, m1, top, marks, compactionStart, p, todo \ {c}, dead, live, offset, FALSE)
  BY <1>4, <1>9, <1>10, <1>11 DEF LiveInv
<1>13. mem' = m1
  BY DEF m1
<1>14. HeapTypeOK'
  BY <1>1, <1>2, <1>3, <1>9, <1>13 DEF HeapTypeOK, MemTyped, WordSet, CollectPhases
<1> QED BY <1>1, <1>2, <1>3, <1>12, <1>13, <1>14 DEF CollectInv, IdleInv, PhaseInv
-----------------------------------------------------------------------------
(* The phases that relocate one cell after the other.                       *)
Becomes(m, m1, c, w) ==
  DOMAIN m1 = DOMAIN m /\ (\A x \in DOMAIN m : x # c => m1[x] = m[x]) /\ m1[c] = w
(* Writing its relocated word into a cell adds it to those that are done.   *)
LEMMA RelocFrame ==
  ASSUME NEW b, Facts(b), NEW m, MemTyped(b, m), NEW t \in Nat, NEW mk, NEW cs \in Nat, NEW dd, NEW D,
         RelocInv(b, m, t, mk, cs, dd, D), 0 .. t - 1 \subseteq DOMAIN m, NEW c \in RefCells(b) \cup LinkCells(b),
         NEW w \in WordSet, w = Final(b, c), NEW m1, Becomes(m, m1, c, w)
  PROVE  RelocInv(b, m1, t, mk, cs, dd, D \cup {c}) /\ MemTyped(b, m1)
<1>1. /\ c \in Settled(b) /\ c \notin b.marks /\ c \in DOMAIN m /\ c \in Int
      /\ DOMAIN m = DOMAIN b.mem
  BY SettledIs, RefCellsApart, LinkCellsApart DEF MemTyped
<1>3. /\ m1[c] = Final(b, c) /\ \A x \in DOMAIN m : x # c => m1[x] = m[x]
      /\ DOMAIN m1 = DOMAIN m
  BY DEF Becomes
<1>2. MemTyped(b, m1)
  BY <1>1, <1>3 DEF MemTyped
<1>4. /\ Area(b, t, cs) /\ dd = t /\ mk = {}
      /\ Breaks(b, m, cs, cs, t)
      /\ Offsets(b, m, cs, t)
      /\ Keeps(b, m, D)
  BY DEF RelocInv
<1>5. Keeps(b, m1, D \cup {c})
  <2> SUFFICES ASSUME NEW x \in Settled(b) \ b.marks
               PROVE  m1[x] = IF x \in D \cup {c} THEN Final(b, x) ELSE Orig(b, x)
    BY DEF Keeps
  <2>1. x \in DOMAIN m
    BY <1>1, SettledIs
  <2>2. m[x] = IF x \in D THEN Final(b, x) ELSE Orig(b, x)
    BY <1>4 DEF Keeps
  <2>3. CASE x = c
    BY <1>3, <2>3
  <2>4. CASE x # c
    BY <1>3, <2>1, <2>2, <2>4
  <2> QED BY <2>3, <2>4
<1>6. Offsets(b, m1, cs, t)
  <2> SUFFICES ASSUME NEW a \in b.marks, a < t
               PROVE  m1[a] = Hdr(Tag(b.mem, a), IF a < cs THEN 0 ELSE New(b, a) - a)
    BY DEF Offsets
  <2>1. a \in DOMAIN m /\ a # c
    BY <1>1, SettledIs
  <2> QED BY <1>3, <1>4, <2>1 DEF Offsets
<1>7. Breaks(b, m1, cs, cs, t)
  <2>1. \A x \in 0 .. t - 1 : ~IsLive(b, x) => m1[x] = m[x]
    <3> SUFFICES ASSUME NEW x \in 0 .. t - 1, ~IsLive(b, x) PROVE m1[x] = m[x]
      OBVIOUS
    <3>1. x # c
      BY <1>1, DeadUnsettled
    <3>2. x \in DOMAIN m
      OBVIOUS
    <3> QED BY <1>3, <3>1, <3>2
  <2> QED BY <1>4, <2>1, BreaksFrame
<1> QED BY <1>2, <1>4, <1>5, <1>6, <1>7 DEF RelocInv

Relocated(m, cs, c) ==
  IF m[c].k = "ref" /\ m[c].v > cs THEN [m EXCEPT ![c] = Ref(m[c].v + RelocationOffset(m, m[c].v))] ELSE m
RelocatedPtr(m, cs, c) ==
  IF m[c].v > cs THEN [m EXCEPT ![c] = Ptr(m[c].v + RelocationOffset(m, m[c].v - 1))] ELSE m

(* That is what relocate-reference does to a reference.                     *)
LEMMA RelocRef ==
  ASSUME NEW b, Facts(b), NEW m, MemTyped(b, m), NEW t \in Nat, NEW mk, NEW cs \in Nat, NEW dd, NEW D,
         RelocInv(b, m, t, mk, cs, dd, D), 0 .. t - 1 \subseteq DOMAIN m, NEW c \in RefCells(b), c \notin D,
         NEW m1, m1 = Relocated(m, cs, c)
  PROVE  RelocInv(b, m1, t, mk, cs, dd, D \cup {c}) /\ MemTyped(b, m1)
<1> DEFINE v == m[c].v
<1>1. /\ c \in Settled(b) /\ c \notin b.marks /\ c \in DOMAIN m
      /\ DOMAIN m = DOMAIN b.mem /\ c \in RefCells(b) \cup LinkCells(b)
  BY SettledIs, RefCellsApart DEF MemTyped
<1>2. Area(b, t, cs) /\ Offsets(b, m, cs, t) /\ Keeps(b, m, D)
  BY DEF RelocInv
<1>3. m[c] = b.mem[c] /\ Final(b, c) = NewRef(b, b.mem[c])
  BY <1>1, <1>2, OrigRef DEF Keeps
<1>4. m[c] \in WordSet
  BY <1>1 DEF MemTyped
<1>5. ASSUME m1 = m, m[c] = Final(b, c)
      PROVE  RelocInv(b, m1, t, mk, cs, dd, D \cup {c}) /\ MemTyped(b, m1)
  <2> DEFINE w == m[c]
  <2>1. w \in WordSet /\ w = Final(b, c) /\ Becomes(m, m1, c, w)
    BY <1>4, <1>5 DEF Becomes
  <2> HIDE DEF w
  <2> QED BY <1>1, <2>1, RelocFrame
<1>6. CASE m[c].k # "ref"
  BY <1>3, <1>5, <1>6 DEF NewRef, Relocated
<1>7. CASE m[c].k = "ref"
  <2>1. /\ v \in b.marks /\ v \in Nat /\ v # cs /\ m[c] = Ref(v)
        /\ Final(b, c) = Ref(New(b, v)) /\ (v < cs => Final(b, c) = m[c])
    BY <1>2, <1>3, <1>7, AreaRef DEF Area
  <2>2. v < t
    BY <1>2, <2>1, DeadAbove DEF Area
  <2>3. CASE v < cs
    <3>1. m1 = m
      <4>1. ~(v > cs)
        <5> HIDE DEF v
        <5> QED BY <2>1, <2>3
      <4> QED BY <4>1 DEF Relocated
    <3> QED BY <1>5, <2>1, <2>3, <3>1
  <2>4. CASE ~(v < cs)
    <3>1. m[v] = Hdr(Tag(b.mem, v), New(b, v) - v)
      <4> HIDE DEF v
      <4> QED BY <1>2, <2>1, <2>2, <2>4 DEF Offsets
    <3>2. RelocationOffset(m, v) = New(b, v) - v
      BY <3>1 DEF RelocationOffset, Hdr
    <3>3. v + RelocationOffset(m, v) = New(b, v) /\ New(b, v) \in Nat /\ v > cs
      <4>1. New(b, v) \in Nat
        BY <2>1, NewIs
      <4> HIDE DEF v
      <4> QED BY <2>1, <2>4, <3>2, <4>1
    <3> DEFINE w == Ref(New(b, v))
    <3>4. m1 = [m EXCEPT ![c] = w]
      BY <1>7, <3>3 DEF Relocated
    <3>5. w \in WordSet /\ w = Final(b, c)
      BY <2>1, <3>3, WordTypes
    <3>6. Becomes(m, m1, c, w)
      BY <1>1, <3>4 DEF Becomes
    <3> HIDE DEF w, v
    <3> QED BY <1>1, <3>5, <3>6, RelocFrame
  <2> QED BY <2>3, <2>4
<1> QED BY <1>6, <1>7

(* And to a link, which it leaves as it is if it is null.                   *)
LEMMA RelocPtr ==
  ASSUME NEW b, Facts(b), NEW m, MemTyped(b, m), NEW t \in Nat, NEW mk, NEW cs \in Nat, NEW dd, NEW D,
         RelocInv(b, m, t, mk, cs, dd, D), 0 .. t - 1 \subseteq DOMAIN m, NEW c \in LinkCells(b), c \notin D,
         NEW m1, m1 = RelocatedPtr(m, cs, c)
  PROVE  /\ RelocInv(b, m1, t, mk, cs, dd, D \cup {c}) /\ MemTyped(b, m1)
         /\ m[c] = Orig(b, c)
<1> DEFINE v == m[c].v
<1>1. /\ c \in Settled(b) /\ c \notin b.marks /\ c \in DOMAIN m /\ c \notin RefCells(b)
      /\ DOMAIN m = DOMAIN b.mem /\ c \in RefCells(b) \cup LinkCells(b)
  BY SettledIs, LinkCellsApart DEF MemTyped
<1>2. Area(b, t, cs) /\ Offsets(b, m, cs, t) /\ Keeps(b, m, D)
  BY DEF RelocInv
<1>3. m[c] = Orig(b, c) /\ Final(b, c) = NewPtr(b, Orig(b, c))
  BY <1>1, <1>2 DEF Keeps, Final
<1>4. m[c] \in WordSet
  BY <1>1 DEF MemTyped
<1>5. ASSUME m1 = m, m[c] = Final(b, c)
      PROVE  RelocInv(b, m1, t, mk, cs, dd, D \cup {c}) /\ MemTyped(b, m1)
  <2> DEFINE w == m[c]
  <2>1. w \in WordSet /\ w = Final(b, c) /\ Becomes(m, m1, c, w)
    BY <1>4, <1>5 DEF Becomes
  <2> HIDE DEF w
  <2> QED BY <1>1, <2>1, RelocFrame
<1>6. m[c] = Ptr(v) /\ (v = Null \/ (v - 1 \in b.marks /\ v \in Nat))
  BY <1>3, LinkTarget
<1>7. CASE v = Null
  <2>1. m1 = m
    <3>1. ~(v > cs)
      <4> HIDE DEF v
      <4> QED BY <1>7 DEF Null
    <3> QED BY <3>1 DEF RelocatedPtr
  <2>2. m[c] = Final(b, c)
    BY <1>3, <1>7 DEF NewPtr
  <2> QED BY <1>3, <1>5, <2>1, <2>2
<1>8. CASE v # Null
  <2> DEFINE a == v - 1
  <2>1. a \in b.marks /\ v \in Nat /\ Final(b, c) = Ptr(New(b, v - 1) + 1)
    BY <1>3, <1>6, <1>8 DEF NewPtr
  <2>2. a \in Nat /\ a < t /\ a # cs
    <3>1. a \in Nat
      BY <2>1, ObjectShape
    <3>2. IsLive(b, a)
      <4>1. At(b, a, a, 0)
        BY <2>1, SetsAt
      <4> QED BY <4>1, AtIs
    <3> HIDE DEF a
    <3> QED BY <1>2, <2>1, <3>1, <3>2, DeadAbove DEF Area
  <2>3. New(b, a) \in Nat
    BY <2>2, NewIs
  <2>v. v = a + 1
    <3> HIDE DEF v
    <3> QED BY <2>1
  <2>4. CASE a < cs
    <3>1. ~(v > cs)
      <4> HIDE DEF a, v
      <4> QED BY <2>1, <2>2, <2>4, <2>v
    <3>2. m1 = m
      BY <3>1 DEF RelocatedPtr
    <3>3. New(b, a) = a
      <4> HIDE DEF a, v
      <4>1. a \in 0 .. cs
        BY <2>2, <2>4
      <4> QED BY <1>2, <4>1, NewFixed DEF Area
    <3>4. m[c] = Final(b, c)
      <4> HIDE DEF v
      <4> QED BY <1>6, <2>1, <2>v, <3>3
    <3> QED BY <1>3, <1>5, <3>2, <3>4
  <2>5. CASE ~(a < cs)
    <3>1. m[a] = Hdr(Tag(b.mem, a), New(b, a) - a)
      <4> HIDE DEF a, v
      <4> QED BY <1>2, <2>1, <2>2, <2>5 DEF Offsets
    <3>2. RelocationOffset(m, a) = New(b, a) - a
      BY <3>1 DEF RelocationOffset, Hdr
    <3>3. v + RelocationOffset(m, a) = New(b, a) + 1 /\ v > cs
      <4> HIDE DEF a, v
      <4> QED BY <2>1, <2>2, <2>3, <2>5, <2>v, <3>2
    <3> DEFINE w == Ptr(New(b, a) + 1)
    <3>4. m1 = [m EXCEPT ![c] = w]
      BY <3>3 DEF RelocatedPtr
    <3>5. w \in WordSet /\ w = Final(b, c)
      BY <2>1, <2>3, WordTypes
    <3>6. Becomes(m, m1, c, w)
      BY <1>1, <3>4 DEF Becomes
    <3> HIDE DEF w, v, a
    <3> QED BY <1>1, <1>3, <3>5, <3>6, RelocFrame
  <2> QED BY <2>4, <2>5
<1> QED BY <1>7, <1>8
-----------------------------------------------------------------------------
(* The next object of the solid prefix.                                     *)
LEMMA PrefixNext ==
  ASSUME NEW b, Facts(b), NEW m, NEW t \in Nat, NEW mk, NEW cs \in Nat, NEW dd, NEW q,
         PrefixInv(b, cs, q, {}), q < cs, RelocInv(b, m, t, mk, cs, dd, PrefixDone(b, cs, q, {}))
  PROVE  /\ q \in b.marks /\ m[q] = Hdr(Tag(b.mem, q), 0)
         /\ PrefixInv(b, cs, q + Words(b, q), Slots(b.mem, q))
         /\ PrefixDone(b, cs, q + Words(b, q), Slots(b.mem, q)) = PrefixDone(b, cs, q, {})
<1>1. q \in Nat /\ EndsAt(b, q) /\ Area(b, t, cs) /\ Offsets(b, m, cs, t)
  BY DEF PrefixInv, RelocInv
<1>2. q \in b.marks
  <2>1. IsLive(b, q)
    BY <1>1 DEF Area
  <2> QED BY <1>1, <2>1, DeadAt
<1>3. /\ EndsAt(b, q + Words(b, q)) /\ From(b, q + Words(b, q)) = From(b, q) \ {q}
      /\ \A c \in q .. q + Words(b, q) - 1 : IsLive(b, c)
      /\ q + Words(b, q) \in Nat
  BY <1>1, <1>2, NextObject
<1>4. Words(b, q) \in Nat /\ Words(b, q) > 0
  BY <1>2, ObjectShape
<1>5. q + Words(b, q) <= cs
  <2> SUFFICES ASSUME ~(q + Words(b, q) <= cs) PROVE FALSE
    OBVIOUS
  <2>1. cs \in q .. q + Words(b, q) - 1
    BY <1>1, <1>4
  <2> QED BY <1>1, <1>3, <2>1 DEF Area
<1>6. m[q] = Hdr(Tag(b.mem, q), 0)
  <2>1. q < t
    BY <1>1, <1>2, DeadAbove DEF Area
  <2> QED BY <1>1, <1>2, <2>1 DEF Offsets
<1>7. \A x \in b.marks : x < q + Words(b, q) <=> x < q \/ x = q
  <2> TAKE x \in b.marks
  <2>1. x \in Nat
    BY ObjectShape
  <2>2. x \in From(b, q + Words(b, q)) <=> x \in From(b, q) /\ x # q
    BY <1>3
  <2>3. x >= q + Words(b, q) <=> x >= q /\ x # q
    BY <2>2 DEF From
  <2> QED BY <1>1, <1>3, <2>1, <2>3
<1>8. ASSUME NEW x \in b.marks, x # q
      PROVE  Slots(b.mem, x) \cap Slots(b.mem, q) = {}
  <2> SUFFICES ASSUME NEW i \in RefSlots[Tag(b.mem, x)], NEW j \in RefSlots[Tag(b.mem, q)], x + i = q + j PROVE FALSE
    BY DEF Slots
  <2>1. i \in Nat /\ 0 < i /\ i < Words(b, x) /\ j \in Nat /\ 0 < j /\ j < Words(b, q)
        /\ Words(b, x) \in Nat /\ Words(b, q) \in Nat
    BY <1>2, ObjectShape
  <2>2. i \in 0 .. Words(b, x) - 1 /\ j \in 0 .. Words(b, q) - 1
    BY <2>1
  <2> QED BY <1>2, <1>8, <2>2, PlaceIs
<1>9. PrefixDone(b, cs, q + Words(b, q), Slots(b.mem, q)) = PrefixDone(b, cs, q, {})
  <2> DEFINE before1 == {x \in b.marks : cs <= x \/ x < q + Words(b, q)}
             before0 == {x \in b.marks : cs <= x \/ x < q}
  <2>1. before1 = before0 \cup {q} /\ q \notin before0
    <3>1. ~(cs <= q) /\ ~(q < q)
      BY <1>1
    <3> QED BY <1>2, <1>7, <3>1
  <2>2. \A x \in before0 : x \in b.marks /\ x # q
    BY <2>1
  <2> HIDE DEF before0, before1
  <2>3. (UNION {Slots(b.mem, a) : a \in before1}) \ Slots(b.mem, q) = (UNION {Slots(b.mem, a) : a \in before0}) \ {}
    <3>1. \A c : c \in UNION {Slots(b.mem, a) : a \in before0} => c \notin Slots(b.mem, q)
      BY <1>8, <2>2
    <3>2. \A c : c \in UNION {Slots(b.mem, a) : a \in before1} <=>
                 c \in UNION {Slots(b.mem, a) : a \in before0} \/ c \in Slots(b.mem, q)
      BY <2>1
    <3> QED BY <3>1, <3>2
  <2> QED BY <2>3 DEF PrefixDone, before0, before1
<1>10. PrefixInv(b, cs, q + Words(b, q), Slots(b.mem, q))
  <2>1. q \in {x \in b.marks : x < q + Words(b, q)}
    BY <1>2, <1>7
  <2>2. Slots(b.mem, q) \subseteq UNION {Slots(b.mem, a) : a \in {x \in b.marks : x < q + Words(b, q)}}
    BY <2>1
  <2> QED BY <1>3, <1>5, <2>2 DEF PrefixInv
<1> QED BY <1>2, <1>6, <1>9, <1>10

(* After the prefix all slots of live objects have been relocated.          *)
LEMMA PrefixEnd ==
  ASSUME NEW b, Facts(b), NEW cs \in Nat, NEW q, PrefixInv(b, cs, q, {}), ~(q < cs)
  PROVE  PrefixDone(b, cs, q, {}) = TrackersDone(b, 0)
<1>1. q = cs
  BY DEF PrefixInv
<1>2. {x \in b.marks : cs <= x \/ x < q} = b.marks
  <2> SUFFICES ASSUME NEW x \in b.marks PROVE cs <= x \/ x < q
    OBVIOUS
  <2>1. x \in Nat
    BY ObjectShape
  <2> QED BY <1>1, <2>1
<1>3. PrefixDone(b, cs, q, {}) = SlotCells(b)
  BY <1>2 DEF PrefixDone, SlotCells
<1>4. \A k \in Kept(b) : k \in Nat /\ k # 0
  BY TrackerIs DEF Kept
<1>5. {j \in Kept(b) \cup {0} : j < 0} = {} /\ {j \in Kept(b) : j <= 0} = {}
  BY <1>4
<1> QED BY <1>3, <1>5 DEF TrackersDone

(* The step from one object of the prefix to the next.                      *)
LEMMA RelocateSolidPrefix_Inv == CollectInv /\ RelocateSolidPrefix => CollectInv'
<1> SUFFICES ASSUME CollectInv, RelocateSolidPrefix PROVE CollectInv'
  OBVIOUS
<1>1. /\ phase = "prefix" /\ todo = {} /\ mem' = mem
      /\ top' = top /\ compactionStart' = compactionStart /\ oldObjectsEnd' = oldObjectsEnd
      /\ marks' = marks /\ before' = before
      /\ offset' = offset /\ live' = live /\ dead' = dead
  BY DEF RelocateSolidPrefix, areas, ranges
<1>2. HeapTypeOK /\ Facts(before) /\ IdleInv /\ PhaseInv
  BY DEF CollectInv
<1>3. /\ PrefixInv(before, compactionStart, p, {})
      /\ RelocInv(before, mem, top, marks, compactionStart, dead, PrefixDone(before, compactionStart, p, {}))
  BY <1>1, <1>2 DEF PhaseInv
<1>4. top \in Nat /\ compactionStart \in Nat
  BY <1>2 DEF HeapTypeOK
<1>5. CASE p < compactionStart
  <2>1. todo' = Slots(mem, p) /\ p' = p + AllocationSize(mem, p) /\ phase' = "prefix"
    BY <1>1, <1>5 DEF RelocateSolidPrefix
  <2>2. /\ p \in before.marks /\ mem[p] = Hdr(Tag(before.mem, p), 0)
        /\ PrefixInv(before, compactionStart, p + Words(before, p), Slots(before.mem, p))
        /\ PrefixDone(before, compactionStart, p + Words(before, p), Slots(before.mem, p))
             = PrefixDone(before, compactionStart, p, {})
    BY <1>2, <1>3, <1>4, <1>5, PrefixNext
  <2>3. Tag(mem, p) = Tag(before.mem, p)
    BY <2>2 DEF Hdr, Tag
  <2>4. todo' = Slots(before.mem, p) /\ p' = p + Words(before, p)
    BY <2>1, <2>3 DEF Slots, Words, AllocationSize
  <2>5. p' \in Nat
    BY <2>2, <2>4 DEF PrefixInv
  <2>6. todo' \subseteq DOMAIN mem
    <3>1. todo' \subseteq SlotCells(before)
      BY <2>2, <2>4 DEF SlotCells
    <3>2. SlotCells(before) \subseteq DOMAIN before.mem
      BY <1>2, SlotCellsApart
    <3> QED BY <1>2, <3>1, <3>2 DEF HeapTypeOK
  <2>7. HeapTypeOK'
    BY <1>1, <1>2, <2>1, <2>5, <2>6 DEF HeapTypeOK, CollectPhases
  <2>8. /\ PrefixInv(before, compactionStart, p', todo')
        /\ RelocInv(before, mem, top, marks, compactionStart, dead, PrefixDone(before, compactionStart, p', todo'))
    BY <1>3, <2>2, <2>4
  <2>9. PhaseInv'
    BY <1>1, <2>1, <2>8 DEF PhaseInv
  <2> QED BY <1>1, <1>2, <2>1, <2>7, <2>9 DEF CollectInv, IdleInv
<1>6. CASE ~(p < compactionStart)
  <2>1. phase' = "relocTrackers" /\ p' = TrackersHead /\ todo' = todo
    BY <1>6 DEF RelocateSolidPrefix
  <2>2. PrefixDone(before, compactionStart, p, {}) = TrackersDone(before, 0)
    BY <1>2, <1>3, <1>4, <1>6, PrefixEnd
  <2>3. 0 \in Kept(before) \cup {0} /\ p' = TrackerCell(before, 0)
    BY <2>1 DEF TrackerCell, LinkCell
  <2>4. RelocInv(before, mem, top, marks, compactionStart, dead, TrackersDone(before, 0))
    BY <1>3, <2>2
  <2>5. PhaseInv'
    BY <1>1, <2>1, <2>3, <2>4 DEF PhaseInv
  <2>6. HeapTypeOK'
    BY <1>1, <1>2, <2>1, HeadsAre DEF HeapTypeOK, CollectPhases
  <2> QED BY <1>1, <1>2, <2>1, <2>5, <2>6 DEF CollectInv, IdleInv
<1> QED BY <1>5, <1>6
-----------------------------------------------------------------------------
(* Which cells the phases after the area have relocated.                    *)
LEMMA FramesAre ==
  ASSUME NEW b, Facts(b), NEW i \in DOMAIN b.stacks
  PROVE  /\ FramesOf(b, i) \subseteq VarCells(b) /\ FramesOf(b, i) \subseteq RefCells(b)
         /\ FramesOf(b, i) \cap RootCells = {}
         /\ \A j \in DOMAIN b.stacks : j # i => FramesOf(b, i) \cap FramesOf(b, j) = {}
<1>1. FramesOf(b, i) \subseteq VarCells(b)
  BY DEF VarCells
<1>2. FramesOf(b, i) \cap RootCells = {}
  BY StackIs, OutsideAssumption DEF FramesOf
<1>3. ASSUME NEW j \in DOMAIN b.stacks, j # i
      PROVE  FramesOf(b, i) \cap FramesOf(b, j) = {}
  <2>1. b.stacks[i] # b.stacks[j]
    BY <1>3 DEF Facts, Injective
  <2>2. b.stacks[i] \in b.marks /\ b.stacks[j] \in b.marks
    BY StackIs
  <2>3. Tag(b.mem, b.stacks[i]) # Tag(b.mem, b.stacks[j])
    BY <2>1, <2>2 DEF Facts
  <2>4. Tag(b.mem, b.stacks[i]) \in Stacks /\ Tag(b.mem, b.stacks[j]) \in Stacks
    BY StackIs
  <2> QED BY <2>3, <2>4, OutsideAssumption DEF FramesOf
<1> QED BY <1>1, <1>2, <1>3 DEF RefCells

(* A variable is no slot of an object and no link.                          *)
LEMMA VarsApart ==
  ASSUME NEW b, Facts(b), NEW c \in VarCells(b)
  PROVE  c \in RefCells(b) /\ c \notin SlotCells(b) /\ c \notin KeptValues(b) /\ c \notin LinkCells(b)
<1>1. c \in RefCells(b) /\ c \notin LinkCells(b)
  BY RefCellsApart DEF RefCells
<1>2. c \in Int /\ c < 0
  BY SetsAt
<1>3. c \notin SlotCells(b)
  <2>1. \A x \in SlotCells(b) : x \in Nat
    BY SlotCellsApart
  <2> QED BY <1>2, <2>1
<1>4. c \notin KeptValues(b)
  <2>1. \A x \in KeptValues(b) : x \in Nat
    BY SetsAt, AtIs
  <2> QED BY <1>2, <2>1
<1> QED BY <1>1, <1>3, <1>4

(* Visiting one more slot of the prefix.                                    *)
LEMMA PrefixVisit ==
  ASSUME NEW b, Facts(b), NEW cs, NEW q, NEW td, PrefixInv(b, cs, q, td), NEW c \in td
  PROVE  /\ c \in RefCells(b) /\ c \notin PrefixDone(b, cs, q, td)
         /\ PrefixDone(b, cs, q, td \ {c}) = PrefixDone(b, cs, q, td) \cup {c}
         /\ PrefixInv(b, cs, q, td \ {c})
<1>1. c \in UNION {Slots(b.mem, a) : a \in {x \in b.marks : x < q}}
  BY DEF PrefixInv
<1>2. c \in UNION {Slots(b.mem, a) : a \in {x \in b.marks : cs <= x \/ x < q}}
  BY <1>1
<1>3. c \in SlotCells(b)
  BY <1>1 DEF SlotCells
<1> QED BY <1>2, <1>3 DEF RefCells, PrefixDone, PrefixInv

(* Visiting one more slot of the frames of a stack.                         *)
LEMMA StacksVisit ==
  ASSUME NEW b, Facts(b), NEW i \in 0 .. Len(b.stacks), NEW q, NEW td, StacksInv(b, q, i, td), NEW c \in td
  PROVE  /\ c \in RefCells(b) /\ c \notin StacksDone(b, i, td)
         /\ StacksDone(b, i, td \ {c}) = StacksDone(b, i, td) \cup {c}
         /\ StacksInv(b, q, i, td \ {c})
<1>1. i # 0 /\ c \in FramesOf(b, i)
  BY DEF StacksInv
<1>0. b.stacks \in Seq(Nat)
  BY DEF Facts
<1>2. i \in DOMAIN b.stacks /\ i \in 1 .. i
  BY <1>0, <1>1
<1>3. c \in VarCells(b)
  BY <1>1, <1>2, FramesAre
<1>4. c \in RefCells(b) /\ c \notin SlotCells(b) /\ c \notin KeptValues(b) /\ c \notin LinkCells(b)
  BY <1>3, VarsApart
<1>5. \A k \in 0 .. i - 1 : StackCell(b, k) \in LinkCells(b)
  <2> TAKE k \in 0 .. i - 1
  <2>1. k \in DOMAIN b.stacks \cup {0}
    BY <1>0
  <2> QED BY <2>1 DEF LinkCells, StackLinks
<1>6. c \in UNION {FramesOf(b, k) : k \in 1 .. i}
  BY <1>1, <1>2
<1>7. c \notin {StackCell(b, k) : k \in 0 .. i - 1}
  BY <1>4, <1>5
<1>8. c \notin StacksDone(b, i, td)
  BY <1>4, <1>7 DEF StacksDone, LinkCells
<1>9. StacksDone(b, i, td \ {c}) = StacksDone(b, i, td) \cup {c}
  BY <1>6 DEF StacksDone
<1>10. StacksInv(b, q, i, td \ {c})
  BY DEF StacksInv
<1> QED BY <1>4, <1>8, <1>9, <1>10

(* Visiting one more root.                                                  *)
LEMMA RootsVisit ==
  ASSUME NEW b, Facts(b), NEW td, td \subseteq RootCells, NEW c \in td
  PROVE  /\ c \in RefCells(b) /\ c \notin AllDone(b, td)
         /\ AllDone(b, td \ {c}) = AllDone(b, td) \cup {c}
BY DEF RefCells, VarCells, AllDone

(* The step that relocates one reference from elsewhere.                    *)
LEMMA VisitReference_Inv == CollectInv /\ VisitReference => CollectInv'
<1> SUFFICES ASSUME CollectInv, VisitReference PROVE CollectInv'
  OBVIOUS
<1>1. /\ phase \in {"prefix", "relocStacks", "relocRoots"} /\ phase' = phase /\ p' = p
      /\ top' = top /\ compactionStart' = compactionStart /\ oldObjectsEnd' = oldObjectsEnd
      /\ marks' = marks /\ before' = before
      /\ offset' = offset /\ live' = live /\ dead' = dead
  BY DEF VisitReference, areas, ranges
<1>2. PICK c \in todo : mem' = RelocateReference(mem, c) /\ todo' = todo \ {c}
  BY DEF VisitReference
<1>3. HeapTypeOK /\ Facts(before) /\ IdleInv /\ PhaseInv
  BY DEF CollectInv
<1> DEFINE m1 == mem'
<1>4. MemTyped(before, mem) /\ top \in Nat /\ compactionStart \in Nat /\ 0 .. top - 1 \subseteq DOMAIN mem
  BY <1>3, TypesAre DEF HeapTypeOK
<1>5. m1 = Relocated(mem, compactionStart, c)
  BY <1>2 DEF RelocateReference, Relocated
<1>m. mem' = m1
  OBVIOUS
<1> HIDE DEF m1
<1>6. ASSUME NEW D, RelocInv(before, mem, top, marks, compactionStart, dead, D), c \in RefCells(before), c \notin D
      PROVE  RelocInv(before, m1, top, marks, compactionStart, dead, D \cup {c}) /\ MemTyped(before, m1)
  BY <1>3, <1>4, <1>5, <1>6, RelocRef
<1>7. ASSUME MemTyped(before, m1)
      PROVE  HeapTypeOK'
  <2>1. DOMAIN m1 = DOMAIN mem
    BY <1>4, <1>7 DEF MemTyped
  <2> QED BY <1>1, <1>2, <1>3, <1>7, <1>m, <2>1 DEF HeapTypeOK, MemTyped, WordSet
<1>8. IdleInv'
  BY <1>1, <1>3 DEF IdleInv
<1>9. CASE phase = "prefix"
  <2> DEFINE D == PrefixDone(before, compactionStart, p, todo)
  <2>1. /\ PrefixInv(before, compactionStart, p, todo)
        /\ RelocInv(before, mem, top, marks, compactionStart, dead, D)
    BY <1>3, <1>9 DEF PhaseInv
  <2>2. /\ c \in RefCells(before) /\ c \notin D
        /\ PrefixDone(before, compactionStart, p, todo \ {c}) = D \cup {c}
        /\ PrefixInv(before, compactionStart, p, todo \ {c})
    BY <1>3, <2>1, PrefixVisit
  <2> HIDE DEF D
  <2>3. RelocInv(before, m1, top, marks, compactionStart, dead, D \cup {c}) /\ MemTyped(before, m1)
    BY <1>6, <2>1, <2>2
  <2>4. PhaseInv'
    BY <1>1, <1>2, <1>9, <1>m, <2>2, <2>3 DEF PhaseInv
  <2> QED BY <1>1, <1>3, <1>7, <1>8, <2>3, <2>4 DEF CollectInv
<1>10. CASE phase = "relocStacks"
  <2>1. PICK i \in 0 .. Len(before.stacks) :
          /\ StacksInv(before, p, i, todo)
          /\ RelocInv(before, mem, top, marks, compactionStart, dead, StacksDone(before, i, todo))
    BY <1>3, <1>10 DEF PhaseInv
  <2> DEFINE D == StacksDone(before, i, todo)
  <2>2. /\ c \in RefCells(before) /\ c \notin D
        /\ StacksDone(before, i, todo \ {c}) = D \cup {c}
        /\ StacksInv(before, p, i, todo \ {c})
    BY <1>3, <2>1, StacksVisit
  <2>d. RelocInv(before, mem, top, marks, compactionStart, dead, D)
    BY <2>1
  <2> HIDE DEF D
  <2>3. RelocInv(before, m1, top, marks, compactionStart, dead, D \cup {c}) /\ MemTyped(before, m1)
    BY <1>6, <2>d, <2>2
  <2>4. PhaseInv'
    BY <1>1, <1>2, <1>10, <1>m, <2>2, <2>3 DEF PhaseInv
  <2> QED BY <1>1, <1>3, <1>7, <1>8, <2>3, <2>4 DEF CollectInv
<1>11. CASE phase = "relocRoots"
  <2> DEFINE D == AllDone(before, todo)
  <2>1. /\ todo \subseteq RootCells
        /\ RelocInv(before, mem, top, marks, compactionStart, dead, D)
    BY <1>3, <1>11 DEF PhaseInv
  <2>2. /\ c \in RefCells(before) /\ c \notin D
        /\ AllDone(before, todo \ {c}) = D \cup {c}
    BY <1>3, <2>1, RootsVisit
  <2> HIDE DEF D
  <2>3. RelocInv(before, m1, top, marks, compactionStart, dead, D \cup {c}) /\ MemTyped(before, m1)
    BY <1>6, <2>1, <2>2
  <2>4. PhaseInv'
    BY <1>1, <1>2, <1>11, <1>m, <2>1, <2>2, <2>3 DEF PhaseInv
  <2> QED BY <1>1, <1>3, <1>7, <1>8, <2>3, <2>4 DEF CollectInv
<1> QED BY <1>1, <1>9, <1>10, <1>11
-----------------------------------------------------------------------------
(* The list of the trackers.                                                *)
LEMMA TrackerLinkUndone ==
  ASSUME NEW b, Facts(b), NEW i \in Kept(b) \cup {0}
  PROVE  TrackerCell(b, i) \in LinkCells(b) /\ TrackerCell(b, i) \notin TrackersDone(b, i)
<1>1. TrackerCell(b, i) \in LinkCells(b)
  BY DEF LinkCells, TrackerLinks
<1>2. TrackerCell(b, i) \notin RefCells(b)
  BY <1>1, LinkCellsApart
<1>3. TrackerCell(b, i) \notin SlotCells(b) /\ TrackerCell(b, i) \notin KeptValues(b)
  BY <1>2 DEF RefCells
<1>4. Kept(b) \subseteq DOMAIN b.trackers
  BY DEF Kept
<1>5. \A k \in Kept(b) \cup {0} : k \in Nat
  BY <1>4, TrackerIs
<1>6. \A k \in {j \in Kept(b) \cup {0} : j < i} : TrackerCell(b, k) # TrackerCell(b, i)
  <2> SUFFICES ASSUME NEW k \in Kept(b) \cup {0}, k < i, TrackerCell(b, k) = TrackerCell(b, i) PROVE FALSE
    OBVIOUS
  <2>1. k = i
    BY <1>4, TrackerCellsDiffer
  <2> QED BY <1>5, <2>1
<1>7. {b.trackers[k] + 1 : k \in {j \in Kept(b) : j <= i}} \subseteq KeptValues(b)
  BY DEF KeptValues
<1> QED BY <1>1, <1>3, <1>6, <1>7 DEF TrackersDone

(* After the last tracker, its null link belongs to those that are done.    *)
LEMMA TrackersEnd ==
  ASSUME NEW b, Facts(b), NEW i \in Kept(b) \cup {0}, NextLink(b.trackers, Kept(b), i) = Null
  PROVE  TrackersDone(b, i) \cup {TrackerCell(b, i)} = StacksDone(b, 0, {})
<1>1. Kept(b) \subseteq DOMAIN b.trackers
  BY DEF Kept
<1>2. \A k \in Kept(b) \cup {0} : k \in Nat
  BY <1>1, TrackerIs
<1>3. \A k \in Kept(b) : k <= i
  <2>1. b.trackers \in Seq(Nat) /\ i \in Nat
    BY <1>2 DEF Facts
  <2> QED BY <1>1, <2>1, NextIsNot
<1>4. {j \in Kept(b) : j <= i} = Kept(b)
  BY <1>3
<1>5. {j \in Kept(b) \cup {0} : j < i} \cup {i} = Kept(b) \cup {0}
  <2> SUFFICES ASSUME NEW j \in Kept(b) \cup {0} PROVE j < i \/ j = i
    OBVIOUS
  <2>1. j <= i /\ j \in Nat /\ i \in Nat
    BY <1>2, <1>3
  <2> QED BY <2>1
<1>6. {TrackerCell(b, k) : k \in {j \in Kept(b) \cup {0} : j < i}} \cup {TrackerCell(b, i)} = TrackerLinks(b)
  <2> DEFINE K == {j \in Kept(b) \cup {0} : j < i}
  <2>1. K \cup {i} = Kept(b) \cup {0}
    BY <1>5
  <2> HIDE DEF K
  <2>2. {TrackerCell(b, k) : k \in K} \cup {TrackerCell(b, i)} = {TrackerCell(b, k) : k \in K \cup {i}}
    OBVIOUS
  <2> QED BY <2>1, <2>2 DEF TrackerLinks, K
<1>7. {b.trackers[k] + 1 : k \in {j \in Kept(b) : j <= i}} = KeptValues(b)
  BY <1>4 DEF KeptValues
<1>8. {StackCell(b, k) : k \in 0 .. 0 - 1} = {} /\ (UNION {FramesOf(b, k) : k \in 1 .. 0}) \ {} = {}
  OBVIOUS
<1> QED BY <1>6, <1>7, <1>8 DEF TrackersDone, StacksDone

(* The link and the value of the next tracker have not been relocated yet.  *)
LEMMA TrackersNext ==
  ASSUME NEW b, Facts(b), NEW i \in Kept(b) \cup {0}, NextLink(b.trackers, Kept(b), i) # Null
  PROVE  \E k \in Kept(b) :
           /\ NextLink(b.trackers, Kept(b), i) = b.trackers[k] + 1
           /\ b.trackers[k] \in Nat /\ b.trackers[k] + 2 = TrackerCell(b, k)
           /\ b.trackers[k] + 1 \in RefCells(b)
           /\ b.trackers[k] + 1 \notin TrackersDone(b, i) \cup {TrackerCell(b, i)}
           /\ TrackersDone(b, k) = TrackersDone(b, i) \cup {TrackerCell(b, i)} \cup {b.trackers[k] + 1}
<1>1. Kept(b) \subseteq DOMAIN b.trackers
  BY DEF Kept
<1>2. \A k \in Kept(b) \cup {0} : k \in Nat
  BY <1>1, TrackerIs
<1>0. Kept(b) \subseteq Nat /\ i \in Nat
  BY <1>2
<1>3. \E k \in Kept(b) : k > i
  BY <1>0, NextIs
<1>4. PICK k \in Kept(b) : /\ k > i /\ \A j \in Kept(b) : j > i => k <= j
                           /\ NextLink(b.trackers, Kept(b), i) = b.trackers[k] + 1
  BY <1>0, <1>3, NextIs
<1>5. b.trackers[k] \in Nat /\ b.trackers[k] + 2 = TrackerCell(b, k) /\ k \in DOMAIN b.trackers /\ k \in Nat
  BY <1>1, <1>2, TrackerIs
<1> DEFINE v == b.trackers[k] + 1
<1>6. v \in KeptValues(b) /\ v \in RefCells(b)
  BY DEF KeptValues, RefCells
<1>7. v \notin LinkCells(b)
  BY <1>6, RefCellsApart
<1>8. v \notin SlotCells(b)
  <2> SUFFICES ASSUME v \in SlotCells(b) PROVE FALSE
    OBVIOUS
  <2>1. PICK a, j : At(b, v, a, j) /\ j \in RefSlots[Tag(b.mem, a)] /\ j # 0
    BY SetsAt
  <2>2. PICK c : At(b, v, c, 1) /\ Tag(b.mem, c) \in Trackers
    BY <1>6, SetsAt
  <2>3. a = c /\ j = 1 /\ c \in b.marks
    BY <2>1, <2>2, AtIs DEF At
  <2> QED BY <2>1, <2>2, <2>3, ObjectShape
<1>9. \A j \in Kept(b) : j <= i => b.trackers[j] + 1 # v
  <2> SUFFICES ASSUME NEW j \in Kept(b), j <= i, b.trackers[j] + 1 = v PROVE FALSE
    OBVIOUS
  <2>1. j \in DOMAIN b.trackers /\ b.trackers[j] \in Nat /\ j \in Nat
    BY <1>1, <1>2, TrackerIs
  <2>2. b.trackers[j] = b.trackers[k]
    BY <1>5, <2>1
  <2>3. j = k
    BY <1>5, <2>1, <2>2 DEF Facts, Injective
  <2> QED BY <1>0, <1>4, <1>5, <2>1, <2>3
<1>10. {TrackerCell(b, j) : j \in {x \in Kept(b) \cup {0} : x < i}} \cup {TrackerCell(b, i)} \subseteq LinkCells(b)
  BY DEF LinkCells, TrackerLinks
<1>11. v \notin TrackersDone(b, i) \cup {TrackerCell(b, i)}
  <2>1. v \notin {b.trackers[j] + 1 : j \in {x \in Kept(b) : x <= i}}
    BY <1>9
  <2>2. v \notin {TrackerCell(b, j) : j \in {x \in Kept(b) \cup {0} : x < i}} /\ v # TrackerCell(b, i)
    BY <1>7, <1>10
  <2> HIDE DEF v
  <2> QED BY <1>8, <2>1, <2>2 DEF TrackersDone
<1>12. \A j \in Kept(b) \cup {0} : j < k <=> j < i \/ j = i
  <2> TAKE j \in Kept(b) \cup {0}
  <2>1. j \in Nat /\ (j > i => j >= k)
    <3>1. j \in Nat
      BY <1>2
    <3>2. j > i => j \in Kept(b)
      BY <1>0
    <3> QED BY <1>4, <1>5, <3>1, <3>2
  <2> QED BY <1>0, <1>4, <1>5, <2>1
<1>13. \A j \in Kept(b) : j <= k <=> j <= i \/ j = k
  <2> TAKE j \in Kept(b)
  <2>1. j \in Nat /\ (j < k <=> j < i \/ j = i)
    BY <1>2, <1>12
  <2> QED BY <1>0, <1>4, <1>5, <2>1
<1>14. TrackersDone(b, k) = TrackersDone(b, i) \cup {TrackerCell(b, i)} \cup {v}
  <2> DEFINE K0 == {j \in Kept(b) \cup {0} : j < i}
             K1 == {j \in Kept(b) \cup {0} : j < k}
             V0 == {j \in Kept(b) : j <= i}
             V1 == {j \in Kept(b) : j <= k}
  <2>1. K1 = K0 \cup {i}
    BY <1>12
  <2>2. V1 = V0 \cup {k}
    BY <1>13
  <2> HIDE DEF K0, K1, V0, V1
  <2>3. {TrackerCell(b, j) : j \in K1} = {TrackerCell(b, j) : j \in K0} \cup {TrackerCell(b, i)}
    BY <2>1
  <2>4. {b.trackers[j] + 1 : j \in V1} = {b.trackers[j] + 1 : j \in V0} \cup {v}
    BY <2>2
  <2> HIDE DEF v
  <2>5. TrackersDone(b, i) = SlotCells(b) \cup {TrackerCell(b, j) : j \in K0} \cup {b.trackers[j] + 1 : j \in V0}
    BY DEF TrackersDone, K0, V0
  <2>6. TrackersDone(b, k) = SlotCells(b) \cup {TrackerCell(b, j) : j \in K1} \cup {b.trackers[j] + 1 : j \in V1}
    BY DEF TrackersDone, K1, V1
  <2> QED BY <2>3, <2>4, <2>5, <2>6
<1> QED BY <1>4, <1>5, <1>6, <1>11, <1>14

(* The step that relocates one tracker.                                     *)
LEMMA RelocateTracker_Inv == CollectInv /\ RelocateTracker => CollectInv'
<1> SUFFICES ASSUME CollectInv, RelocateTracker PROVE CollectInv'
  OBVIOUS
<1>1. /\ phase = "relocTrackers" /\ todo' = todo
      /\ top' = top /\ compactionStart' = compactionStart /\ oldObjectsEnd' = oldObjectsEnd
      /\ marks' = marks /\ before' = before
      /\ offset' = offset /\ live' = live /\ dead' = dead
  BY DEF RelocateTracker, areas, ranges
<1>2. HeapTypeOK /\ Facts(before) /\ IdleInv /\ PhaseInv
  BY DEF CollectInv
<1>t. todo = {}
  BY <1>1, <1>2 DEF IdleInv
<1>3. PICK i \in Kept(before) \cup {0} :
        /\ p = TrackerCell(before, i)
        /\ RelocInv(before, mem, top, marks, compactionStart, dead, TrackersDone(before, i))
  BY <1>1, <1>2 DEF PhaseInv
<1>4. MemTyped(before, mem) /\ top \in Nat /\ compactionStart \in Nat /\ 0 .. top - 1 \subseteq DOMAIN mem
  BY <1>2, TypesAre DEF HeapTypeOK
<1> DEFINE b == before
           cs == compactionStart
           D == TrackersDone(before, i)
           m1 == RelocatedPtr(mem, cs, p)
<1>5. p \in LinkCells(b) /\ p \notin D
  BY <1>2, <1>3, TrackerLinkUndone
<1>d. RelocInv(b, mem, top, marks, cs, dead, D)
  BY <1>3
<1>c. Facts(b) /\ MemTyped(b, mem) /\ cs \in Nat
  BY <1>2, <1>4
<1> HIDE DEF b, cs, D
<1>6. RelocInv(b, m1, top, marks, cs, dead, D \cup {p}) /\ MemTyped(b, m1) /\ mem[p] = Orig(b, p)
  <2>1. m1 = RelocatedPtr(mem, cs, p)
    OBVIOUS
  <2> HIDE DEF m1
  <2> QED BY <1>4, <1>5, <1>d, <1>c, <2>1, RelocPtr
<1>7. mem[p].v = NextLink(b.trackers, Kept(b), i)
  <2>1. Orig(before, TrackerCell(before, i)) = Ptr(NextLink(before.trackers, Kept(before), i))
    BY <1>2, <1>3, OrigTrackerLink
  <2>2. mem[p] = Ptr(NextLink(b.trackers, Kept(b), i))
    BY <1>3, <1>6, <2>1 DEF b
  <2> QED BY <2>2 DEF Ptr
<1>8. CASE mem[p].v = Null
  <2>1. phase' = "relocStacks" /\ p' = StacksHead /\ mem' = mem
    BY <1>8 DEF RelocateTracker
  <2>2. m1 = mem
    <3>1. ~(mem[p].v > cs)
      <4>1. \A x : x = Null => ~(x > cs)
        BY <1>c DEF Null
      <4> QED BY <1>8, <4>1
    <3> QED BY <3>1 DEF RelocatedPtr
  <2>3. D \cup {p} = StacksDone(b, 0, {})
    BY <1>2, <1>3, <1>7, <1>8, TrackersEnd DEF D, b
  <2>4. StacksInv(b, p', 0, todo') /\ 0 \in 0 .. Len(before.stacks)
    <3>1. Len(before.stacks) \in Nat
      BY <1>2 DEF Facts
    <3> QED BY <1>1, <1>t, <2>1, <3>1 DEF StacksInv, StackCell, LinkCell
  <2>5. RelocInv(b, mem, top, marks, cs, dead, StacksDone(b, 0, todo'))
    BY <1>1, <1>t, <1>6, <2>2, <2>3
  <2>6. PhaseInv'
    BY <1>1, <2>1, <2>4, <2>5 DEF PhaseInv, b, cs
  <2>7. HeapTypeOK'
    BY <1>1, <1>2, <2>1, HeadsAre DEF HeapTypeOK, CollectPhases
  <2> QED BY <1>1, <1>2, <1>t, <2>1, <2>6, <2>7 DEF CollectInv, IdleInv
<1>9. CASE mem[p].v # Null
  <2>1. /\ phase' = phase /\ p' = TrackerTail(mem[p].v)
        /\ mem' = RelocateReference(RelocatePointer(mem, p), mem[p].v)
    BY <1>9 DEF RelocateTracker
  <2>2. PICK k \in Kept(b) :
           /\ NextLink(b.trackers, Kept(b), i) = b.trackers[k] + 1
           /\ b.trackers[k] \in Nat /\ b.trackers[k] + 2 = TrackerCell(b, k)
           /\ b.trackers[k] + 1 \in RefCells(b)
           /\ b.trackers[k] + 1 \notin TrackersDone(b, i) \cup {TrackerCell(b, i)}
           /\ TrackersDone(b, k) = TrackersDone(b, i) \cup {TrackerCell(b, i)} \cup {b.trackers[k] + 1}
    BY <1>2, <1>3, <1>7, <1>9, TrackersNext DEF b
  <2> DEFINE c == b.trackers[k] + 1
             m2 == Relocated(m1, cs, c)
  <2>3. mem[p].v = c /\ p' = TrackerCell(b, k) /\ p' \in Int
    <3>1. mem[p].v = c
      BY <1>7, <2>2
    <3>2. TrackerTail(c) = b.trackers[k] + 2
      BY <2>2 DEF TrackerTail
    <3> QED BY <2>1, <2>2, <3>1, <3>2
  <2>4. mem' = m2
    <3>1. RelocatePointer(mem, p) = m1
      BY DEF RelocatePointer, RelocatedPtr, cs
    <3> QED BY <2>1, <2>3, <3>1 DEF RelocateReference, Relocated, cs
  <2>5. c \in RefCells(b) /\ c \notin D \cup {p} /\ TrackersDone(b, k) = D \cup {p} \cup {c}
    BY <1>3, <2>2 DEF D, b
  <2>6. 0 .. top - 1 \subseteq DOMAIN m1 /\ m2 = Relocated(m1, cs, c)
    BY <1>4, <1>6, <1>c DEF MemTyped
  <2> HIDE DEF c, m1, m2
  <2>7. RelocInv(b, m2, top, marks, cs, dead, D \cup {p} \cup {c}) /\ MemTyped(b, m2)
    BY <1>4, <1>6, <1>c, <2>5, <2>6, RelocRef
  <2>8. PhaseInv'
    <3>1. k \in Kept(b) \cup {0} /\ RelocInv(b, m2, top, marks, cs, dead, TrackersDone(b, k))
      BY <2>5, <2>7
    <3> QED BY <1>1, <2>1, <2>3, <2>4, <3>1 DEF PhaseInv, b, cs
  <2>9. HeapTypeOK'
    <3>1. DOMAIN m2 = DOMAIN mem
      BY <1>c, <2>7 DEF MemTyped
    <3> QED BY <1>1, <1>2, <2>1, <2>3, <2>4, <2>7, <3>1 DEF HeapTypeOK, MemTyped, WordSet, b
  <2> QED BY <1>1, <1>2, <2>1, <2>8, <2>9 DEF CollectInv, IdleInv
<1> QED BY <1>8, <1>9
-----------------------------------------------------------------------------
(* The list of the stacks.                                                  *)
LEMMA StackLinkUndone ==
  ASSUME NEW b, Facts(b), NEW i \in 0 .. Len(b.stacks)
  PROVE  /\ i \in DOMAIN b.stacks \cup {0}
         /\ StackCell(b, i) \in LinkCells(b) /\ StackCell(b, i) \notin StacksDone(b, i, {})
<1>0. b.stacks \in Seq(Nat)
  BY DEF Facts
<1>1. \A k \in 0 .. i : k \in DOMAIN b.stacks \cup {0}
  BY <1>0
<1>2. i \in DOMAIN b.stacks \cup {0}
  BY <1>0
<1>3. StackCell(b, i) \in StackLinks(b) /\ StackCell(b, i) \in LinkCells(b)
  BY <1>2 DEF LinkCells, StackLinks
<1>4. StackCell(b, i) \notin RefCells(b) /\ StackCell(b, i) \notin TrackerLinks(b)
  BY <1>3, LinkCellsApart
<1>5. \A k \in 0 .. i - 1 : StackCell(b, k) # StackCell(b, i)
  <2> TAKE k \in 0 .. i - 1
  <2>1. k \in DOMAIN b.stacks \cup {0} /\ k # i
    BY <1>1
  <2> QED BY <1>2, <2>1, StackCellsDiffer
<1>6. UNION {FramesOf(b, k) : k \in 1 .. i} \subseteq RefCells(b)
  <2>1. \A k \in 1 .. i : k \in DOMAIN b.stacks
    BY <1>0
  <2> QED BY <2>1, FramesAre
<1> QED BY <1>2, <1>3, <1>4, <1>5, <1>6 DEF StacksDone, RefCells

(* After the last stack only the roots are left.                            *)
LEMMA StacksEnd ==
  ASSUME NEW b, Facts(b), NEW i \in 0 .. Len(b.stacks), NextLink(b.stacks, DOMAIN b.stacks, i) = Null
  PROVE  StacksDone(b, i, {}) \cup {StackCell(b, i)} = AllDone(b, RootCells)
<1>0. b.stacks \in Seq(Nat) /\ Len(b.stacks) \in Nat
  BY DEF Facts
<1>1. i = Len(b.stacks)
  <2>1. \A k \in DOMAIN b.stacks : k <= i
    BY <1>0, NextIsNot
  <2> SUFFICES ASSUME i < Len(b.stacks) PROVE FALSE
    BY <1>0
  <2>2. i + 1 \in DOMAIN b.stacks
    BY <1>0
  <2> QED BY <2>1, <2>2
<1>2. DOMAIN b.stacks = 1 .. i
  BY <1>0, <1>1
<1>3. UNION {FramesOf(b, k) : k \in DOMAIN b.stacks} = (UNION {FramesOf(b, k) : k \in 1 .. i}) \ {}
  BY <1>2
<1>4. {StackCell(b, k) : k \in 0 .. i - 1} \cup {StackCell(b, i)} = StackLinks(b)
  <2>1. (0 .. i - 1) \cup {i} = DOMAIN b.stacks \cup {0}
    BY <1>2
  <2>2. {StackCell(b, k) : k \in 0 .. i - 1} \cup {StackCell(b, i)} = {StackCell(b, k) : k \in (0 .. i - 1) \cup {i}}
    OBVIOUS
  <2> QED BY <2>1, <2>2 DEF StackLinks
<1>5. ASSUME NEW c, c \in RootCells
      PROVE  c \notin SlotCells(b) /\ c \notin KeptValues(b) /\ c \notin LinkCells(b)
             /\ c \notin UNION {FramesOf(b, k) : k \in DOMAIN b.stacks}
  <2>1. c \in VarCells(b)
    BY <1>5 DEF VarCells
  <2>2. \A k \in DOMAIN b.stacks : c \notin FramesOf(b, k)
    BY <1>5, FramesAre
  <2> QED BY <2>1, <2>2, VarsApart
<1> QED BY <1>3, <1>4, <1>5 DEF StacksDone, AllDone, RefCells, LinkCells, VarCells

(* The link to the next stack, and the frames of that one.                  *)
LEMMA StacksNext ==
  ASSUME NEW b, Facts(b), NEW i \in 0 .. Len(b.stacks), NextLink(b.stacks, DOMAIN b.stacks, i) # Null
  PROVE  /\ i + 1 \in DOMAIN b.stacks /\ i + 1 \in 0 .. Len(b.stacks)
         /\ NextLink(b.stacks, DOMAIN b.stacks, i) = b.stacks[i + 1] + 1
         /\ b.stacks[i + 1] \in b.marks /\ b.stacks[i + 1] \in Nat
         /\ StacksInv(b, b.stacks[i + 1] + 1, i + 1, FramesOf(b, i + 1))
         /\ StacksDone(b, i + 1, FramesOf(b, i + 1)) = StacksDone(b, i, {}) \cup {StackCell(b, i)}
<1>0. b.stacks \in Seq(Nat) /\ Len(b.stacks) \in Nat /\ i \in Nat
  BY DEF Facts
<1>1. DOMAIN b.stacks = 1 .. Len(b.stacks) /\ DOMAIN b.stacks \subseteq Nat
  BY <1>0
<1>2. \E k \in DOMAIN b.stacks : k > i
  <2>1. ~ \A k \in DOMAIN b.stacks : k <= i
    BY <1>0, <1>1, NextIs
  <2>2. PICK k \in DOMAIN b.stacks : ~(k <= i)
    BY <2>1
  <2>3. k \in Nat
    BY <1>1
  <2> QED BY <1>0, <2>2, <2>3
<1>3. PICK k \in DOMAIN b.stacks : /\ k > i /\ \A j \in DOMAIN b.stacks : j > i => k <= j
                                   /\ NextLink(b.stacks, DOMAIN b.stacks, i) = b.stacks[k] + 1
  BY <1>0, <1>1, <1>2, NextIs
<1>4. k = i + 1
  <2>1. i + 1 \in DOMAIN b.stacks /\ i + 1 > i
    BY <1>0, <1>1, <1>3
  <2>2. k <= i + 1
    BY <1>3, <2>1
  <2> QED BY <1>0, <1>1, <1>3, <2>2
<1>5. /\ i + 1 \in DOMAIN b.stacks /\ i + 1 \in 0 .. Len(b.stacks)
      /\ b.stacks[i + 1] \in b.marks /\ b.stacks[i + 1] \in Nat
      /\ StackCell(b, i + 1) = b.stacks[i + 1] + 1
  BY <1>0, <1>1, <1>3, <1>4, StackIs
<1>6. StacksInv(b, b.stacks[i + 1] + 1, i + 1, FramesOf(b, i + 1))
  BY <1>0, <1>5 DEF StacksInv
<1>7. StacksDone(b, i + 1, FramesOf(b, i + 1)) = StacksDone(b, i, {}) \cup {StackCell(b, i)}
  <2>1. {StackCell(b, k1) : k1 \in 0 .. (i + 1) - 1} = {StackCell(b, k1) : k1 \in 0 .. i - 1} \cup {StackCell(b, i)}
    <3>1. 0 .. (i + 1) - 1 = (0 .. i - 1) \cup {i}
      BY <1>0
    <3> QED BY <3>1
  <2>2. (UNION {FramesOf(b, k1) : k1 \in 1 .. i + 1}) \ FramesOf(b, i + 1) = (UNION {FramesOf(b, k1) : k1 \in 1 .. i}) \ {}
    <3>1. 1 .. i + 1 = (1 .. i) \cup {i + 1}
      BY <1>0
    <3>2. \A k1 \in 1 .. i : k1 \in DOMAIN b.stacks /\ k1 # i + 1
      BY <1>0, <1>1, <1>5
    <3>3. \A k1 \in 1 .. i : FramesOf(b, k1) \cap FramesOf(b, i + 1) = {}
      BY <1>5, <3>2, FramesAre
    <3>4. \A c : c \in UNION {FramesOf(b, k1) : k1 \in 1 .. i + 1} <=>
                 c \in UNION {FramesOf(b, k1) : k1 \in 1 .. i} \/ c \in FramesOf(b, i + 1)
      BY <3>1
    <3>5. \A c : c \in UNION {FramesOf(b, k1) : k1 \in 1 .. i} => c \notin FramesOf(b, i + 1)
      BY <3>3
    <3> QED BY <3>4, <3>5
  <2>3. StacksDone(b, i + 1, FramesOf(b, i + 1)) =
          SlotCells(b) \cup TrackerLinks(b) \cup KeptValues(b) \cup {StackCell(b, k1) : k1 \in 0 .. (i + 1) - 1}
            \cup ((UNION {FramesOf(b, k1) : k1 \in 1 .. i + 1}) \ FramesOf(b, i + 1))
    BY DEF StacksDone
  <2>4. StacksDone(b, i, {}) =
          SlotCells(b) \cup TrackerLinks(b) \cup KeptValues(b) \cup {StackCell(b, k1) : k1 \in 0 .. i - 1}
            \cup ((UNION {FramesOf(b, k1) : k1 \in 1 .. i}) \ {})
    BY DEF StacksDone
  <2> QED BY <2>1, <2>2, <2>3, <2>4
<1> QED BY <1>3, <1>4, <1>5, <1>6, <1>7

(* The step that relocates one stack.                                       *)
LEMMA RelocateStack_Inv == CollectInv /\ RelocateStack => CollectInv'
<1> SUFFICES ASSUME CollectInv, RelocateStack PROVE CollectInv'
  OBVIOUS
<1>1. /\ phase = "relocStacks" /\ todo = {}
      /\ top' = top /\ compactionStart' = compactionStart /\ oldObjectsEnd' = oldObjectsEnd
      /\ marks' = marks /\ before' = before
      /\ offset' = offset /\ live' = live /\ dead' = dead
  BY DEF RelocateStack, areas, ranges
<1>2. HeapTypeOK /\ Facts(before) /\ IdleInv /\ PhaseInv
  BY DEF CollectInv
<1>3. PICK i \in 0 .. Len(before.stacks) :
        /\ StacksInv(before, p, i, {})
        /\ RelocInv(before, mem, top, marks, compactionStart, dead, StacksDone(before, i, {}))
  BY <1>1, <1>2 DEF PhaseInv
<1>4. MemTyped(before, mem) /\ top \in Nat /\ compactionStart \in Nat /\ 0 .. top - 1 \subseteq DOMAIN mem
  BY <1>2, TypesAre DEF HeapTypeOK
<1> DEFINE b == before
           cs == compactionStart
           D == StacksDone(before, i, {})
           m1 == RelocatedPtr(mem, cs, p)
<1>5. p \in LinkCells(b) /\ p \notin D /\ p = StackCell(b, i) /\ i \in DOMAIN b.stacks \cup {0}
  BY <1>2, <1>3, StackLinkUndone DEF StacksInv
<1>d. RelocInv(b, mem, top, marks, cs, dead, D)
  BY <1>3
<1>c. Facts(b) /\ MemTyped(b, mem) /\ cs \in Nat
  BY <1>2, <1>4
<1> HIDE DEF b, cs, D
<1>6. RelocInv(b, m1, top, marks, cs, dead, D \cup {p}) /\ MemTyped(b, m1) /\ mem[p] = Orig(b, p)
  <2>1. m1 = RelocatedPtr(mem, cs, p)
    OBVIOUS
  <2> HIDE DEF m1
  <2> QED BY <1>4, <1>5, <1>d, <1>c, <2>1, RelocPtr
<1>7. mem[p].v = NextLink(b.stacks, DOMAIN b.stacks, i)
  <2>1. Orig(b, StackCell(b, i)) = Ptr(NextLink(b.stacks, DOMAIN b.stacks, i))
    BY <1>5, <1>c, OrigStackLink
  <2>2. mem[p] = Ptr(NextLink(b.stacks, DOMAIN b.stacks, i))
    BY <1>5, <1>6, <2>1
  <2> QED BY <2>2 DEF Ptr
<1>8. CASE mem[p].v = Null
  <2>1. phase' = "relocRoots" /\ todo' = RootCells /\ p' = p /\ mem' = mem
    BY <1>8 DEF RelocateStack
  <2>2. m1 = mem
    <3>1. ~(mem[p].v > cs)
      <4>1. \A x : x = Null => ~(x > cs)
        BY <1>c DEF Null
      <4> QED BY <1>8, <4>1
    <3> QED BY <3>1 DEF RelocatedPtr
  <2>3. D \cup {p} = AllDone(b, RootCells)
    BY <1>2, <1>3, <1>5, <1>7, <1>8, StacksEnd DEF D, b
  <2>5. RelocInv(b, mem, top, marks, cs, dead, AllDone(b, todo')) /\ todo' \subseteq RootCells
    BY <1>6, <2>1, <2>2, <2>3
  <2>6. PhaseInv'
    BY <1>1, <2>1, <2>5 DEF PhaseInv, b, cs
  <2>7. HeapTypeOK'
    <3>1. RootCells \subseteq DOMAIN mem
      BY <1>c DEF Facts, Cells, MemTyped
    <3> QED BY <1>1, <1>2, <2>1, <3>1 DEF HeapTypeOK, CollectPhases
  <2> QED BY <1>1, <1>2, <2>1, <2>6, <2>7 DEF CollectInv, IdleInv
<1>9. CASE mem[p].v # Null
  <2>1. /\ phase' = phase /\ p' = mem[p].v
        /\ mem' = RelocatePointer(mem, p)
        /\ todo' = FrameCells[Tag(mem, mem[p].v - 1)]
    BY <1>9 DEF RelocateStack
  <2>2. /\ i + 1 \in DOMAIN b.stacks /\ i + 1 \in 0 .. Len(b.stacks)
        /\ NextLink(b.stacks, DOMAIN b.stacks, i) = b.stacks[i + 1] + 1
        /\ b.stacks[i + 1] \in b.marks /\ b.stacks[i + 1] \in Nat
        /\ StacksInv(b, b.stacks[i + 1] + 1, i + 1, FramesOf(b, i + 1))
        /\ StacksDone(b, i + 1, FramesOf(b, i + 1)) = StacksDone(b, i, {}) \cup {StackCell(b, i)}
    BY <1>2, <1>3, <1>7, <1>9, StacksNext DEF b
  <2> DEFINE s == b.stacks[i + 1]
  <2>3. mem[p].v - 1 = s /\ p' = s + 1 /\ p' \in Int
    <3>1. mem[p].v = s + 1
      BY <1>7, <2>2
    <3>2. s \in Nat
      BY <2>2
    <3> HIDE DEF s
    <3> QED BY <2>1, <3>1, <3>2
  <2>4. Tag(mem, s) = Tag(b.mem, s)
    <3>1. Area(b, top, cs) /\ Offsets(b, mem, cs, top)
      BY <1>d DEF RelocInv
    <3>2. s < top
      BY <1>4, <1>c, <2>2, <3>1, DeadAbove DEF Area
    <3>3. mem[s] = Hdr(Tag(b.mem, s), IF s < cs THEN 0 ELSE New(b, s) - s)
      BY <2>2, <3>1, <3>2 DEF Offsets
    <3> HIDE DEF s
    <3> QED BY <3>3 DEF Hdr, Tag
  <2>5. todo' = FramesOf(b, i + 1)
    BY <2>1, <2>3, <2>4 DEF FramesOf
  <2>6. mem' = m1
    BY <2>1 DEF RelocatePointer, RelocatedPtr, cs
  <2> HIDE DEF m1
  <2>7. StacksInv(b, p', i + 1, todo') /\ RelocInv(b, m1, top, marks, cs, dead, StacksDone(b, i + 1, todo'))
    <3>1. StacksDone(b, i + 1, todo') = D \cup {p}
      BY <1>5, <2>2, <2>5 DEF D, b
    <3> QED BY <1>6, <2>2, <2>3, <2>5, <3>1
  <2>8. PhaseInv'
    BY <1>1, <2>1, <2>2, <2>6, <2>7 DEF PhaseInv, b, cs
  <2>9. HeapTypeOK'
    <3>1. DOMAIN m1 = DOMAIN mem
      BY <1>c, <1>6 DEF MemTyped
    <3>2. todo' \subseteq DOMAIN mem
      <4>1. FramesOf(b, i + 1) \subseteq RefCells(b)
        BY <1>c, <2>2, FramesAre
      <4>2. RefCells(b) \subseteq DOMAIN b.mem
        BY <1>c, SettledIs
      <4> QED BY <1>c, <2>5, <4>1, <4>2 DEF MemTyped
    <3> QED BY <1>1, <1>2, <1>6, <2>1, <2>3, <2>6, <3>1, <3>2 DEF HeapTypeOK, MemTyped, WordSet, b
  <2>10. IdleInv'
    BY <1>1, <1>2, <2>1 DEF IdleInv
  <2> QED BY <1>1, <1>2, <2>8, <2>9, <2>10 DEF CollectInv
<1> QED BY <1>8, <1>9

(* When everything is relocated compaction can start.                       *)
LEMMA RootsEnd ==
  ASSUME NEW b, Facts(b), NEW m, NEW t \in Nat, NEW mk, NEW cs \in Nat, NEW dd,
         RelocInv(b, m, t, mk, cs, dd, AllDone(b, {}))
  PROVE  CompactInv(b, m, t, mk, cs, cs, 0)
<1>1. Area(b, t, cs) /\ mk = {} /\ Breaks(b, m, cs, cs, t) /\ Offsets(b, m, cs, t) /\ Keeps(b, m, AllDone(b, {}))
  BY DEF RelocInv
<1>2. \A c \in 0 .. cs - 1 : IsLive(b, c)
  BY <1>1 DEF Area
<1>3. \A x \in 0 .. cs : New(b, x) = x
  BY <1>2, NewFixed
<1>4. cs <= t /\ BreakAt(b, cs, cs) /\ 0 = New(b, cs) - cs
  <2>1. New(b, cs) = cs
    BY <1>3
  <2> QED BY <1>1, <2>1 DEF Area, BreakAt
<1>5. \A c \in Settled(b) \ b.marks : m[c] = Final(b, c)
  <2> TAKE c \in Settled(b) \ b.marks
  <2>1. CASE c \in AllDone(b, {})
    BY <1>1, <2>1 DEF Keeps
  <2>2. CASE c \notin AllDone(b, {})
    BY <1>1, <2>2 DEF Keeps, AllDone, Final
  <2> QED BY <2>1, <2>2
<1>6. \A c \in Cells : m[c] = Final(b, c)
  <2> TAKE c \in Cells
  <2>1. c \in Settled(b)
    BY DEF Settled
  <2>2. c \notin b.marks
    <3>1. \A x \in b.marks : x \in Nat
      BY ObjectShape
    <3>2. c \in Int /\ c < 0
      BY CellsOutside
    <3> QED BY <3>1, <3>2
  <2> QED BY <1>5, <2>1, <2>2
<1>7. ASSUME NEW c \in Nat, IsLive(b, c)
      PROVE  c \in Settled(b)
  BY <1>7, LiveWordIs DEF Settled
<1>8. ASSUME NEW c \in 0 .. cs - 1, IsLive(b, c)
      PROVE  m[New(b, c)] = Final(b, c)
  <2>1. New(b, c) = c
    BY <1>3
  <2>2. CASE c \in b.marks
    <3>1. c < t /\ c < cs
      BY <1>4
    <3>2. m[c] = Hdr(Tag(b.mem, c), 0)
      BY <1>1, <2>2, <3>1 DEF Offsets
    <3> QED BY <2>1, <2>2, <3>2, OrigHeader
  <2>3. CASE c \notin b.marks
    BY <1>5, <1>7, <1>8, <2>1, <2>3
  <2> QED BY <2>2, <2>3
<1>9. ASSUME NEW c \in cs .. t - 1, IsLive(b, c)
      PROVE  m[c] = IF c \in b.marks THEN Hdr(Tag(b.mem, c), New(b, c) - c) ELSE Final(b, c)
  <2>1. c < t /\ ~(c < cs) /\ c \in Nat
    OBVIOUS
  <2>2. CASE c \in b.marks
    BY <1>1, <2>1, <2>2 DEF Offsets
  <2>3. CASE c \notin b.marks
    BY <1>5, <1>7, <1>9, <2>1, <2>3
  <2> QED BY <2>2, <2>3
<1> QED BY <1>1, <1>4, <1>6, <1>8, <1>9 DEF CompactInv

(* The step that starts it.                                                 *)
LEMMA RootsRelocated_Inv == CollectInv /\ RootsRelocated => CollectInv'
<1> SUFFICES ASSUME CollectInv, RootsRelocated PROVE CollectInv'
  OBVIOUS
<1>1. /\ phase = "relocRoots" /\ todo = {} /\ todo' = todo /\ mem' = mem
      /\ top' = top /\ compactionStart' = compactionStart /\ oldObjectsEnd' = oldObjectsEnd
      /\ marks' = marks /\ before' = before
      /\ phase' = "compact" /\ p' = compactionStart /\ offset' = 0 /\ live' = live /\ dead' = dead
  BY DEF RootsRelocated, areas
<1>2. HeapTypeOK /\ Facts(before) /\ IdleInv /\ PhaseInv
  BY DEF CollectInv
<1>3. RelocInv(before, mem, top, marks, compactionStart, dead, AllDone(before, {}))
  BY <1>1, <1>2 DEF PhaseInv
<1>4. top \in Nat /\ compactionStart \in Nat
  BY <1>2 DEF HeapTypeOK
<1>5. CompactInv(before, mem, top, marks, compactionStart, compactionStart, 0)
  BY <1>2, <1>3, <1>4, RootsEnd
<1>6. PhaseInv'
  BY <1>1, <1>5 DEF PhaseInv
<1>7. HeapTypeOK'
  BY <1>1, <1>2, <1>4 DEF HeapTypeOK, CollectPhases
<1> QED BY <1>1, <1>2, <1>6, <1>7 DEF CollectInv, IdleInv
-----------------------------------------------------------------------------
(* Compacting.  No word of a live object but its first is a header.         *)
LEMMA FinalKind ==
  ASSUME NEW b, Facts(b), NEW c \in Nat, IsLive(b, c), c \notin b.marks
  PROVE  Final(b, c).k # "hdr" /\ Final(b, c) \in WordSet
<1>1. PICK a \in b.marks : a <= c /\ c < a + Words(b, a)
  BY DEF IsLive
<1>2. ObjectAt(b, a) /\ a \in Nat /\ Words(b, a) \in Nat
  BY ObjectShape DEF Facts
<1>3. c \in DOMAIN b.mem
  BY LiveWordIs
<1>4. b.mem[c].k # "hdr"
  <2>1. c \in a + 1 .. a + Words(b, a) - 1
    BY <1>1, <1>2
  <2> QED BY <1>2, <2>1 DEF ObjectAt
<1>5. b.mem[c] \in WordSet
  BY <1>3, RefWord
<1>6. CASE c \in RefCells(b)
  <2>1. Final(b, c) = NewRef(b, b.mem[c])
    BY <1>6, OrigRef
  <2>2. CASE b.mem[c].k = "ref"
    <3>1. Final(b, c) = Ref(New(b, b.mem[c].v)) /\ b.mem[c].v \in Nat
      BY <1>6, <2>1, <2>2, OrigRef, ObjectShape DEF NewRef
    <3>2. New(b, b.mem[c].v) \in Nat
      BY <3>1, NewIs
    <3>3. Ref(New(b, b.mem[c].v)) \in WordSet
      BY <3>2, WordTypes
    <3> QED BY <3>1, <3>3 DEF Ref
  <2>3. CASE b.mem[c].k # "ref"
    BY <1>4, <1>5, <2>1, <2>3 DEF NewRef
  <2> QED BY <2>2, <2>3
<1>7. CASE c \in LinkCells(b)
  <2> DEFINE v == Orig(b, c).v
  <2>1. c \notin RefCells(b) /\ Orig(b, c) = Ptr(v) /\ (v = Null \/ (v - 1 \in b.marks /\ v \in Nat))
    BY <1>7, LinkCellsApart, LinkTarget
  <2>2. Final(b, c) = NewPtr(b, Ptr(v))
    BY <1>7, <2>1 DEF Final
  <2>3. Ptr(v).v = v
    BY DEF Ptr
  <2>4. CASE v = Null
    <3>1. Final(b, c) = Ptr(Null)
      BY <2>2, <2>3, <2>4 DEF NewPtr
    <3>2. Ptr(Null) \in WordSet
      BY WordTypes DEF Null
    <3> QED BY <3>1, <3>2 DEF Ptr
  <2>5. CASE v # Null
    <3>1. Final(b, c) = Ptr(New(b, v - 1) + 1)
      BY <2>2, <2>3, <2>5 DEF NewPtr
    <3>2. v - 1 \in Nat
      BY <2>1, <2>5, ObjectShape
    <3>3. New(b, v - 1) \in Nat
      BY <3>2, NewIs
    <3>4. Ptr(New(b, v - 1) + 1) \in WordSet
      BY <3>3, WordTypes
    <3> QED BY <3>1, <3>4 DEF Ptr
  <2> QED BY <2>4, <2>5
<1>8. CASE c \notin RefCells(b) /\ c \notin LinkCells(b)
  <2>1. Final(b, c) = Orig(b, c) /\ c \notin TrackerLinks(b)
    BY <1>8 DEF Final, LinkCells
  <2>2. Final(b, c) = FalseMarker \/ Final(b, c) = b.mem[c]
    BY <2>1 DEF Orig
  <2> QED BY <1>4, <1>5, <2>2, WordTypes DEF FalseMarker, Imm
<1> QED BY <1>6, <1>7, <1>8

(* No object moves up.                                                      *)
LEMMA NewBelow ==
  ASSUME NEW b, NEW c \in Nat
  PROVE  New(b, c) \in Nat /\ New(b, c) <= c
<1>1. New(b, 0) = 0 /\ New(b, c) \in Nat
  BY NewZero, NewIs
<1>2. New(b, c) <= New(b, 0) + (c - 0)
  BY NewMonotone
<1> QED BY <1>1, <1>2

(* The words of one range, with their offsets cleared, move down.           *)
Moved(m, m1, l, e, off) ==
  /\ DOMAIN m1 = DOMAIN m
  /\ \A c \in DOMAIN m :
       m1[c] = LET x == IF l + off <= c /\ c < e + off THEN c - off ELSE c IN
               IF l <= x /\ x < e /\ m[x].k = "hdr" THEN Hdr(m[x].v, 0) ELSE m[x]

(* The break that compaction has come to encodes the next live range.       *)
LEMMA NextRange ==
  ASSUME NEW b, Facts(b), NEW m, NEW t \in Nat, NEW mk, NEW cs \in Nat, NEW q, NEW off,
         CompactInv(b, m, t, mk, cs, q, off), q < t
  PROVE  \E l, e : /\ LiveRange(b, q, l, e) /\ e <= t /\ Encoded(m, q, l, e)
                   /\ New(b, l) = q + off /\ off - (l - q) = New(b, e) - e
                   /\ \A c \in l .. e : New(b, c) = c + (off - (l - q))
                   /\ off - (l - q) \in Int /\ off - (l - q) <= 0
<1>1. /\ q \in Nat /\ BreakAt(b, cs, q) /\ off = New(b, q) - q /\ Breaks(b, m, cs, q, t)
  BY DEF CompactInv
<1>2. PICK l, e : LiveRange(b, q, l, e) /\ e <= t /\ Encoded(m, q, l, e)
  BY <1>1 DEF Breaks
<1>3. /\ l \in Nat /\ e \in Nat /\ q < l /\ l < e
      /\ \A c \in q .. l - 1 : ~IsLive(b, c)
      /\ \A c \in l .. e - 1 : IsLive(b, c)
  BY <1>2 DEF LiveRange
<1>4. New(b, l) = New(b, q) /\ New(b, q) \in Nat /\ New(b, l) \in Nat /\ New(b, l) <= l
  BY <1>1, <1>3, NewOverDead, NewIs, NewBelow
<1>5. \A c \in l .. e : New(b, c) = New(b, l) + (c - l)
  <2> TAKE c \in l .. e
  <2>1. c \in Nat /\ l <= c /\ \A x \in l .. c - 1 : IsLive(b, x)
    BY <1>3
  <2> QED BY <1>3, <2>1, NewOverLive
<1>6. \A c \in l .. e : New(b, c) = c + (off - (l - q))
  <2> TAKE c \in l .. e
  <2> QED BY <1>1, <1>3, <1>4, <1>5
<1>7. off - (l - q) = New(b, e) - e
  <2>1. e \in l .. e
    BY <1>3
  <2>2. New(b, e) = New(b, l) + (e - l)
    BY <1>5, <2>1
  <2> QED BY <1>1, <1>3, <1>4, <2>2
<1>8. off - (l - q) \in Int /\ off - (l - q) <= 0 /\ New(b, l) = q + off
  BY <1>1, <1>3, <1>4
<1> QED BY <1>2, <1>6, <1>7, <1>8

(* Copying it down puts its words where they belong, and overwrites no live *)
(* word that is still to be copied.                                         *)
LEMMA CompactStep ==
  ASSUME NEW b, Facts(b), NEW m, MemTyped(b, m), NEW t \in Nat, NEW mk, NEW cs \in Nat, NEW q, NEW off,
         CompactInv(b, m, t, mk, cs, q, off), 0 .. t - 1 \subseteq DOMAIN m,
         NEW l, NEW e, LiveRange(b, q, l, e), e <= t,
         NEW off1 \in Int, off1 <= 0, off1 = New(b, e) - e, New(b, l) = New(b, q),
         \A c \in l .. e : New(b, c) = c + off1,
         NEW m1, Moved(m, m1, l, e, off1)
  PROVE  CompactInv(b, m1, t, mk, cs, e, off1) /\ MemTyped(b, m1)
<1>1. /\ q \in Nat /\ cs <= q /\ q <= t /\ Area(b, t, cs) /\ mk = {} /\ Breaks(b, m, cs, q, t)
      /\ \A c \in Cells : m[c] = Final(b, c)
      /\ \A c \in 0 .. q - 1 : IsLive(b, c) => m[New(b, c)] = Final(b, c)
      /\ \A c \in q .. t - 1 : IsLive(b, c) =>
           m[c] = IF c \in b.marks THEN Hdr(Tag(b.mem, c), New(b, c) - c) ELSE Final(b, c)
  BY DEF CompactInv
<1>2. /\ l \in Nat /\ e \in Nat /\ q < l /\ l < e /\ ~IsLive(b, e)
      /\ \A c \in q .. l - 1 : ~IsLive(b, c)
      /\ \A c \in l .. e - 1 : IsLive(b, c)
  BY DEF LiveRange
<1>3. /\ DOMAIN m1 = DOMAIN m /\ DOMAIN m = DOMAIN b.mem /\ DOMAIN m \subseteq Int
  BY DEF Moved, MemTyped, Facts
<1>4. /\ l \in l .. e /\ New(b, l) = l + off1 /\ l + off1 >= 0 /\ l + off1 <= l
  <2>1. New(b, l) \in Nat /\ New(b, l) <= l
    BY <1>2, NewBelow
  <2>2. l \in l .. e
    BY <1>2
  <2> QED BY <1>2, <2>1, <2>2
(* Outside both ranges nothing changes.                                     *)
<1>5. ASSUME NEW c \in DOMAIN m, ~(l + off1 <= c /\ c < e + off1), ~(l <= c /\ c < e)
      PROVE  m1[c] = m[c]
  BY <1>5 DEF Moved
<1>6. ASSUME NEW c \in l .. e - 1
      PROVE  m1[c + off1] = Final(b, c) /\ c + off1 = New(b, c)
  <2>1. c \in Nat /\ IsLive(b, c) /\ c \in l .. e /\ c \in q .. t - 1 /\ l <= c /\ c < e
    BY <1>1, <1>2
  <2>2. c + off1 = New(b, c) /\ New(b, c) \in Nat /\ New(b, c) <= c
    BY <2>1, NewBelow
  <2>3. c + off1 \in DOMAIN m
    <3>1. New(b, c) \in 0 .. t - 1
      BY <2>1, <2>2
    <3> QED BY <2>2, <3>1
  <2> DEFINE y == c + off1
  <2>4. (l + off1 <= y /\ y < e + off1) /\ y - off1 = c
    BY <1>2, <2>1
  <2>y. y \in DOMAIN m
    BY <2>3
  <2> HIDE DEF y
  <2>5. m1[y] = IF l <= c /\ c < e /\ m[c].k = "hdr" THEN Hdr(m[c].v, 0) ELSE m[c]
    BY <2>y, <2>4 DEF Moved
  <2>6. m1[y] = IF m[c].k = "hdr" THEN Hdr(m[c].v, 0) ELSE m[c]
    BY <2>1, <2>5
  <2>7. m[c] = IF c \in b.marks THEN Hdr(Tag(b.mem, c), New(b, c) - c) ELSE Final(b, c)
    BY <1>1, <2>1
  <2>8. CASE c \in b.marks
    <3>1. m[c].k = "hdr" /\ m[c].v = Tag(b.mem, c)
      BY <2>7, <2>8 DEF Hdr
    <3>2. m1[y] = Hdr(Tag(b.mem, c), 0)
      BY <2>6, <3>1
    <3> QED BY <2>2, <2>8, <3>2, OrigHeader DEF y
  <2>9. CASE c \notin b.marks
    <3>1. m[c].k # "hdr"
      BY <2>1, <2>7, <2>9, FinalKind
    <3> QED BY <2>2, <2>6, <2>7, <2>9, <3>1 DEF y
  <2> QED BY <2>8, <2>9
<1>7. ASSUME NEW c \in 0 .. e - 1, IsLive(b, c)
      PROVE  m1[New(b, c)] = Final(b, c)
  <2>1. CASE c < q
    <3>1. c \in 0 .. q - 1 /\ c \in Nat
      BY <1>1, <1>2, <2>1
    <3>2. m[New(b, c)] = Final(b, c)
      BY <1>1, <1>7, <3>1
    <3>3. New(b, c) < New(b, q) /\ New(b, c) \in Nat /\ New(b, c) <= c
      BY <1>1, <1>7, <2>1, <3>1, NewMonotone, NewBelow
    <3> DEFINE y == New(b, c)
    <3>4. y \in 0 .. t - 1 /\ y < l /\ y < l + off1
      BY <1>1, <1>2, <1>4, <2>1, <3>1, <3>3
    <3>5. ~(l + off1 <= y /\ y < e + off1) /\ ~(l <= y /\ y < e)
      BY <1>2, <3>3, <3>4
    <3>6. y \in DOMAIN m
      BY <3>4
    <3> HIDE DEF y
    <3>7. m1[y] = m[y]
      BY <1>5, <3>5, <3>6
    <3> QED BY <3>2, <3>7 DEF y
  <2>2. CASE ~(c < q)
    <3>1. c \in l .. e - 1
      <4>1. c \notin q .. l - 1
        BY <1>2, <1>7
      <4> QED BY <1>1, <1>2, <2>2, <4>1
    <3> QED BY <1>6, <3>1
  <2> QED BY <2>1, <2>2
<1>8. ASSUME NEW c \in e .. t - 1
      PROVE  m1[c] = m[c]
  <2>1. c \in 0 .. t - 1 /\ ~(l + off1 <= c /\ c < e + off1) /\ ~(l <= c /\ c < e)
    BY <1>2
  <2> QED BY <1>5, <2>1
<1>9. \A c \in Cells : m1[c] = Final(b, c)
  <2> TAKE c \in Cells
  <2>1. c \in DOMAIN m /\ c \in Int /\ c < 0
    BY <1>3, CellsOutside DEF Facts
  <2>2. ~(l + off1 <= c /\ c < e + off1) /\ ~(l <= c /\ c < e)
    BY <1>2, <1>4, <2>1
  <2> QED BY <1>1, <1>5, <2>1, <2>2
<1>10. Breaks(b, m1, cs, e, t)
  <2> SUFFICES ASSUME NEW d \in e .. t - 1, BreakAt(b, cs, d)
               PROVE  \E x, y : LiveRange(b, d, x, y) /\ y <= t /\ Encoded(m1, d, x, y)
    BY DEF Breaks
  <2>1. d \in q .. t - 1
    BY <1>1, <1>2
  <2>2. PICK x, y : LiveRange(b, d, x, y) /\ y <= t /\ Encoded(m, d, x, y)
    BY <1>1, <2>1 DEF Breaks
  <2>3. x \in Nat /\ y \in Nat /\ d < x /\ x < y
    BY <2>2 DEF LiveRange
  <2>4. m1[d] = m[d]
    BY <1>8
  <2>5. d + 1 # x => m1[d + 1] = m[d + 1]
    <3>1. d + 1 \in e .. t - 1
      BY <1>2, <2>2, <2>3
    <3> QED BY <1>8, <3>1
  <2>6. Encoded(m1, d, x, y)
    BY <2>2, <2>4, <2>5 DEF Encoded
  <2> QED BY <2>2, <2>6
<1>11. \A c \in e .. t - 1 : IsLive(b, c) =>
         m1[c] = IF c \in b.marks THEN Hdr(Tag(b.mem, c), New(b, c) - c) ELSE Final(b, c)
  <2> TAKE c \in e .. t - 1
  <2>1. c \in q .. t - 1
    BY <1>1, <1>2
  <2> QED BY <1>1, <1>8, <2>1
<1>12. BreakAt(b, cs, e)
  <2>1. e - 1 \in l .. e - 1
    BY <1>2
  <2> QED BY <1>2, <2>1 DEF BreakAt
<1>13. MemTyped(b, m1)
  <2>1. ASSUME NEW c \in DOMAIN m PROVE m1[c] \in WordSet
    <3>1. CASE l + off1 <= c /\ c < e + off1
      <4>1. c \in Int
        BY <1>3
      <4> DEFINE z == c - off1
      <4>2. z \in l .. e - 1 /\ z + off1 = c
        BY <1>2, <3>1, <4>1
      <4> HIDE DEF z
      <4>3. m1[c] = Final(b, z) /\ z \in Nat /\ IsLive(b, z)
        BY <1>2, <1>6, <4>2
      <4>4. CASE z \in b.marks
        <5>1. Final(b, z) = Hdr(Tag(b.mem, z), 0) /\ Tag(b.mem, z) \in Tags
          BY <4>4, OrigHeader, ObjectShape
        <5> QED BY <4>3, <5>1, WordTypes
      <4>5. CASE z \notin b.marks
        BY <4>3, <4>5, FinalKind
      <4> QED BY <4>4, <4>5
    <3>2. CASE ~(l + off1 <= c /\ c < e + off1) /\ ~(l <= c /\ c < e)
      BY <1>5, <3>2 DEF MemTyped
    <3>3. CASE ~(l + off1 <= c /\ c < e + off1) /\ (l <= c /\ c < e)
      <4>1. m1[c] = IF m[c].k = "hdr" THEN Hdr(m[c].v, 0) ELSE m[c]
        BY <3>3 DEF Moved
      <4>2. c \in Nat /\ c \in l .. e - 1 /\ c \in q .. t - 1
        BY <1>1, <1>2, <1>3, <3>3
      <4>3. m[c] = IF c \in b.marks THEN Hdr(Tag(b.mem, c), New(b, c) - c) ELSE Final(b, c)
        BY <1>1, <1>2, <4>2
      <4>4. CASE c \in b.marks
        <5>1. m[c].v = Tag(b.mem, c) /\ m[c].k = "hdr" /\ Tag(b.mem, c) \in Tags
          BY <4>3, <4>4, ObjectShape DEF Hdr
        <5> QED BY <4>1, <5>1, WordTypes
      <4>5. CASE c \notin b.marks
        <5>1. m[c].k # "hdr" /\ m[c] \in WordSet
          BY <1>2, <4>2, <4>3, <4>5, FinalKind
        <5> QED BY <4>1, <5>1
      <4> QED BY <4>4, <4>5
    <3> QED BY <3>1, <3>2, <3>3
  <2> QED BY <1>3, <2>1 DEF MemTyped
<1>14. e \in Nat /\ cs <= e /\ e <= t
  BY <1>1, <1>2
<1>15. \A c \in 0 .. e - 1 : IsLive(b, c) => m1[New(b, c)] = Final(b, c)
  BY <1>7
<1> QED BY <1>1, <1>9, <1>10, <1>11, <1>12, <1>13, <1>14, <1>15 DEF CompactInv
(* The step that compacts one live range.                                   *)
LEMMA CompactRange_Inv == CollectInv /\ CompactRange => CollectInv'
<1> SUFFICES ASSUME CollectInv, CompactRange PROVE CollectInv'
  OBVIOUS
<1>1. /\ phase = "compact" /\ phase' = phase /\ todo' = todo /\ p < top
      /\ top' = top /\ compactionStart' = compactionStart /\ oldObjectsEnd' = oldObjectsEnd
      /\ marks' = marks /\ before' = before /\ live' = live /\ dead' = dead
  BY DEF CompactRange, areas
<1>2. HeapTypeOK /\ Facts(before) /\ IdleInv /\ PhaseInv
  BY DEF CollectInv
<1>3. CompactInv(before, mem, top, marks, compactionStart, p, offset)
  BY <1>1, <1>2 DEF PhaseInv
<1>4. /\ MemTyped(before, mem) /\ top \in Nat /\ compactionStart \in Nat /\ 0 .. top - 1 \subseteq DOMAIN mem
      /\ offset \in Int
  BY <1>2, TypesAre DEF HeapTypeOK
<1>5. PICK l, e : /\ LiveRange(before, p, l, e) /\ e <= top /\ Encoded(mem, p, l, e)
                  /\ New(before, l) = p + offset /\ offset - (l - p) = New(before, e) - e
                  /\ \A c \in l .. e : New(before, c) = c + (offset - (l - p))
                  /\ offset - (l - p) \in Int /\ offset - (l - p) <= 0
  BY <1>1, <1>2, <1>3, <1>4, NextRange
<1>6. p \in Nat /\ l \in Nat /\ e \in Nat /\ p < l /\ l < e
  BY <1>3, <1>5 DEF CompactInv, LiveRange
<1>7. ReadLiveRange(p) = [live |-> l, dead |-> e]
  <2>1. CASE p + 1 = l
    BY <1>5, <2>1 DEF Encoded, ReadLiveRange, TaggedPtr
  <2>2. CASE p + 1 # l
    BY <1>5, <2>2 DEF Encoded, ReadLiveRange, Ptr
  <2> QED BY <2>1, <2>2
<1> DEFINE off1 == offset - (l - p)
           r == ReadLiveRange(p)
           mc == ClearRelocationOffsets(r)
<1>8. /\ mem' = [c \in DOMAIN mem |->
                    IF r.live + (offset - (r.live - p)) <= c /\ c < r.dead + (offset - (r.live - p))
                    THEN mc[c - (offset - (r.live - p))] ELSE mc[c]]
      /\ offset' = offset - (r.live - p)
      /\ p' = r.dead
  BY DEF CompactRange
<1>9. r.live = l /\ r.dead = e
  BY <1>7
<1>10. mc = [c \in DOMAIN mem |->
               IF l <= c /\ c < e /\ mem[c].k = "hdr" THEN Hdr(mem[c].v, 0) ELSE mem[c]]
  BY <1>9 DEF ClearRelocationOffsets
<1> HIDE DEF r, mc
<1>11. /\ mem' = [c \in DOMAIN mem |-> IF l + off1 <= c /\ c < e + off1 THEN mc[c - off1] ELSE mc[c]]
       /\ offset' = off1 /\ p' = e
  BY <1>8, <1>9
<1>12. off1 \in Int /\ off1 <= 0 /\ off1 = New(before, e) - e /\ New(before, l) = New(before, p)
       /\ \A c \in l .. e : New(before, c) = c + off1
  <2>1. offset = New(before, p) - p
    BY <1>3 DEF CompactInv
  <2>2. New(before, p) \in Nat
    BY <1>6, NewIs
  <2>3. New(before, l) = New(before, p)
    BY <1>4, <1>5, <1>6, <2>1, <2>2
  <2> QED BY <1>5, <2>3
<1> DEFINE m1 == mem'
<1>13. Moved(mem, m1, l, e, off1)
  <2>0. off1 \in Int /\ DOMAIN mem \subseteq Int
    BY <1>2, <1>4, <1>12 DEF MemTyped, Facts
  <2> HIDE DEF off1
  <2>1. DOMAIN m1 = DOMAIN mem
    BY <1>11
  <2>2. ASSUME NEW c \in DOMAIN mem
        PROVE  m1[c] = LET x == IF l + off1 <= c /\ c < e + off1 THEN c - off1 ELSE c IN
                       IF l <= x /\ x < e /\ mem[x].k = "hdr" THEN Hdr(mem[x].v, 0) ELSE mem[x]
    <3>1. CASE l + off1 <= c /\ c < e + off1
      <4>1. c - off1 \in 0 .. top - 1
        BY <1>4, <1>5, <1>6, <2>0, <3>1
      <4>2. c - off1 \in DOMAIN mem
        BY <1>4, <4>1
      <4> DEFINE x == c - off1
      <4>3. m1[c] = mc[x] /\ x \in DOMAIN mem
        BY <1>11, <3>1, <4>2
      <4> HIDE DEF x
      <4>4. m1[c] = IF l <= x /\ x < e /\ mem[x].k = "hdr" THEN Hdr(mem[x].v, 0) ELSE mem[x]
        BY <1>10, <4>3
      <4> QED BY <3>1, <4>4 DEF x
    <3>2. CASE ~(l + off1 <= c /\ c < e + off1)
      <4>1. m1[c] = mc[c]
        BY <1>11, <3>2
      <4> QED BY <1>10, <3>2, <4>1
    <3> QED BY <3>1, <3>2
  <2> QED BY <2>1, <2>2 DEF Moved
<1>m. mem' = m1
  OBVIOUS
<1> HIDE DEF m1, off1
<1>14. CompactInv(before, m1, top, marks, compactionStart, e, off1) /\ MemTyped(before, m1)
  BY <1>2, <1>3, <1>4, <1>5, <1>12, <1>13, CompactStep
<1>15. PhaseInv'
  BY <1>1, <1>11, <1>14, <1>m DEF PhaseInv
<1>16. HeapTypeOK'
  <2>1. DOMAIN m1 = DOMAIN mem
    BY <1>4, <1>14 DEF MemTyped
  <2> QED BY <1>1, <1>2, <1>6, <1>11, <1>12, <1>14, <1>m, <2>1 DEF HeapTypeOK, MemTyped, WordSet
<1> QED BY <1>1, <1>2, <1>15, <1>16 DEF CollectInv, IdleInv

(* The end of the collection.                                               *)
LEMMA CompactDone_Inv == CollectInv /\ CompactDone => CollectInv'
<1> SUFFICES ASSUME CollectInv, CompactDone PROVE CollectInv'
  OBVIOUS
<1>1. /\ phase = "compact" /\ phase' = "done" /\ todo' = todo /\ p >= top
      /\ mem' = mem /\ p' = p
      /\ top' = top + offset /\ compactionStart' = compactionStart /\ oldObjectsEnd' = top'
      /\ marks' = marks /\ before' = before /\ live' = live /\ dead' = dead /\ offset' = offset
  BY DEF CompactDone, NewTop, ranges
<1>2. HeapTypeOK /\ Facts(before) /\ IdleInv /\ PhaseInv
  BY DEF CollectInv
<1> DEFINE b == before
<1>3. CompactInv(b, mem, top, marks, compactionStart, p, offset)
  BY <1>1, <1>2 DEF PhaseInv
<1>4. /\ top \in Nat /\ compactionStart \in Nat /\ 0 .. top - 1 \subseteq DOMAIN mem
  BY <1>2 DEF HeapTypeOK
<1>b. Facts(b)
  BY <1>2
<1> HIDE DEF b
<1>5. /\ Area(b, top, compactionStart) /\ marks = {} /\ p = top /\ offset = New(b, p) - p
      /\ (\A c \in Cells : mem[c] = Final(b, c))
      /\ \A c \in 0 .. top - 1 : IsLive(b, c) => mem[New(b, c)] = Final(b, c)
  <2>1. p \in Nat /\ p <= top
    BY <1>3 DEF CompactInv
  <2>2. p = top
    BY <1>1, <1>4, <2>1
  <2> QED BY <1>3, <2>2 DEF CompactInv
<1>6. New(b, top) \in Nat /\ New(b, top) <= top
  BY <1>4, NewBelow
<1>7. top' = New(b, top)
  BY <1>1, <1>4, <1>5, <1>6
<1>8. compactionStart <= top'
  <2>1. compactionStart <= top /\ \A c \in 0 .. compactionStart - 1 : IsLive(b, c)
    BY <1>5 DEF Area
  <2>2. New(b, compactionStart) = compactionStart
    BY <1>4, <2>1, NewFixed
  <2>3. New(b, compactionStart) <= New(b, top)
    BY <1>4, <2>1, NewMonotone
  <2> QED BY <1>7, <2>2, <2>3
<1>9. DoneInv(b, mem, top', top', marks)
  <2>1. Fits(b, top)
    BY <1>5 DEF Area
  <2>2. \A c \in Nat : IsLive(b, c) => mem[New(b, c)] = Final(b, c)
    <3> TAKE c \in Nat
    <3>1. c >= top => ~IsLive(b, c)
      BY <1>4, <1>b, <2>1, DeadAbove
    <3> QED BY <1>4, <1>5, <3>1
  <2> QED BY <1>4, <1>5, <1>7, <2>1, <2>2 DEF DoneInv
<1>10. PhaseInv'
  BY <1>1, <1>9 DEF PhaseInv, b
<1>11. HeapTypeOK'
  <2>1. 0 .. top' - 1 \subseteq DOMAIN mem
    <3>1. 0 .. top' - 1 \subseteq 0 .. top - 1
      BY <1>4, <1>6, <1>7
    <3> QED BY <1>4, <3>1
  <2>2. compactionStart' \in 0 .. top' /\ oldObjectsEnd' \in 0 .. top' /\ top' \in Nat
    BY <1>1, <1>4, <1>6, <1>7, <1>8
  <2> QED BY <1>1, <1>2, <2>1, <2>2 DEF HeapTypeOK, CollectPhases
<1> QED BY <1>1, <1>2, <1>10, <1>11 DEF CollectInv, IdleInv

(* Every step keeps the invariant.                                          *)
LEMMA CollectNext_Inv == CollectInv /\ [CollectNext]_collectVars => CollectInv'
<1> SUFFICES ASSUME CollectInv, [CollectNext]_collectVars PROVE CollectInv'
  OBVIOUS
<1>1. CASE UNCHANGED collectVars
  BY <1>1 DEF collectVars, areas, ranges, CollectInv, HeapTypeOK, IdleInv, PhaseInv
<1>2. CASE Collected
  BY <1>1, <1>2 DEF Collected
<1>3. CASE CollectNext
  BY <1>2, <1>3, ScanTracker_Inv, TrackersScanned_Inv, SkipLive_Inv, EndOfSolidPrefix_Inv,
     FindLiveRange_Inv, RangesDone_Inv, LiveRangeEnd_Inv, LiveObject_Inv, Unthread_Inv,
     UpdateReferences_Inv, VisitSlot_Inv, RelocateSolidPrefix_Inv, RelocateTracker_Inv,
     RelocateStack_Inv, VisitReference_Inv, RootsRelocated_Inv, CompactRange_Inv, CompactDone_Inv
     DEF CollectNext
<1> QED BY <1>1, <1>3

(* The invariant that the properties of a collection follow from.           *)
THEOREM CollectionInvariant == CollectSpec => []CollectInv
<1>1. CollectInit => CollectInv
  BY CollectInit_Inv
<1>2. CollectInv /\ [CollectNext]_collectVars => CollectInv'
  BY CollectNext_Inv
<1> QED BY <1>1, <1>2, PTL DEF CollectSpec
-----------------------------------------------------------------------------
(* The properties follow from the invariant.                                *)
OnList(b, m, h, s, n) == IF n < Len(s) THEN Thread(s[n + 1]) ELSE Hdr(Tag(b.mem, h), 0)
IsWords(m, a, t, f) ==
  f = [n \in 0 .. t |-> IF n = 0 THEN m[a] ELSE LET w == f[n - 1] IN IF w.k = "thread" THEN m[w.v] ELSE w]

(* The function Threads reads the list of slots, then the header.           *)
LEMMA WordsOfChain ==
  ASSUME NEW b, NEW m, NEW h, NEW t \in Nat, NEW s \in Seq(Int), Chain(b, m, h, s)
  PROVE  /\ \E f : IsWords(m, h, t, f)
         /\ \A f : IsWords(m, h, t, f) => \A n \in 0 .. t : f[n] = OnList(b, m, h, s, n)
<1>1. \A i \in 0 .. Len(s) :
        m[IF i = 0 THEN h ELSE s[i]] = IF i < Len(s) THEN Thread(s[i + 1]) ELSE Hdr(Tag(b.mem, h), 0)
  BY DEF Chain
<1>2. Len(s) \in Nat /\ DOMAIN s = 1 .. Len(s)
  OBVIOUS
<1>3. m[h] = OnList(b, m, h, s, 0)
  <2>1. 0 \in 0 .. Len(s)
    BY <1>2
  <2> QED BY <1>1, <2>1 DEF OnList
<1>4. ASSUME NEW n \in Nat, n > 0
      PROVE  OnList(b, m, h, s, n) =
               LET w == OnList(b, m, h, s, n - 1) IN IF w.k = "thread" THEN m[w.v] ELSE w
  <2>1. CASE n - 1 < Len(s)
    <3>1. OnList(b, m, h, s, n - 1) = Thread(s[(n - 1) + 1])
      BY <2>1 DEF OnList
    <3>2. (n - 1) + 1 = n
      OBVIOUS
    <3>3. OnList(b, m, h, s, n - 1) = Thread(s[n])
      BY <3>1, <3>2
    <3>4. OnList(b, m, h, s, n - 1).k = "thread" /\ OnList(b, m, h, s, n - 1).v = s[n]
      BY <3>3 DEF Thread
    <3>5. n \in 0 .. Len(s) /\ n # 0
      BY <1>2, <1>4, <2>1
    <3>6. m[s[n]] = IF n < Len(s) THEN Thread(s[n + 1]) ELSE Hdr(Tag(b.mem, h), 0)
      BY <1>1, <3>5
    <3>7. m[s[n]] = OnList(b, m, h, s, n)
      BY <3>6 DEF OnList
    <3> QED BY <3>4, <3>7
  <2>2. CASE ~(n - 1 < Len(s))
    <3>1. ~(n < Len(s))
      BY <1>2, <2>2
    <3>2. OnList(b, m, h, s, n - 1) = Hdr(Tag(b.mem, h), 0) /\ OnList(b, m, h, s, n) = Hdr(Tag(b.mem, h), 0)
      BY <2>2, <3>1 DEF OnList
    <3>3. OnList(b, m, h, s, n - 1).k # "thread"
      BY <3>2 DEF Hdr
    <3> QED BY <3>2, <3>3
  <2> QED BY <2>1, <2>2
<1>5. \E f : IsWords(m, h, t, f)
  <2> DEFINE f == [n \in 0 .. t |-> OnList(b, m, h, s, n)]
  <2>1. ASSUME NEW n \in 0 .. t
        PROVE  f[n] = IF n = 0 THEN m[h] ELSE LET w == f[n - 1] IN IF w.k = "thread" THEN m[w.v] ELSE w
    <3>1. CASE n = 0
      BY <1>3, <3>1
    <3>2. CASE n # 0
      <4>1. n \in Nat /\ n > 0 /\ n - 1 \in 0 .. t
        BY <3>2
      <4>2. f[n] = OnList(b, m, h, s, n) /\ f[n - 1] = OnList(b, m, h, s, n - 1)
        BY <4>1
      <4> HIDE DEF f
      <4> QED BY <1>4, <3>2, <4>1, <4>2
    <3> QED BY <3>1, <3>2
  <2>2. f = [n \in 0 .. t |-> f[n]]
    OBVIOUS
  <2> HIDE DEF f
  <2>3. f = [n \in 0 .. t |-> IF n = 0 THEN m[h] ELSE LET w == f[n - 1] IN IF w.k = "thread" THEN m[w.v] ELSE w]
    BY <2>1, <2>2
  <2> QED BY <2>3 DEF IsWords
<1>6. ASSUME NEW f, IsWords(m, h, t, f)
      PROVE  \A n \in 0 .. t : f[n] = OnList(b, m, h, s, n)
  <2>1. \A n \in 0 .. t : f[n] = IF n = 0 THEN m[h] ELSE LET w == f[n - 1] IN IF w.k = "thread" THEN m[w.v] ELSE w
    BY <1>6 DEF IsWords
  <2> DEFINE Wrong == {n \in 0 .. t : f[n] # OnList(b, m, h, s, n)}
  <2> SUFFICES ASSUME Wrong # {} PROVE FALSE
    OBVIOUS
  <2>2. Wrong \subseteq Nat
    OBVIOUS
  <2>3. \E n \in Wrong : \A j \in Wrong : n <= j
    <3> HIDE DEF Wrong
    <3> QED BY <2>2, LeastNatural
  <2>4. PICK n \in Wrong : \A j \in Wrong : n <= j
    BY <2>3
  <2>5. n # 0
    BY <1>3, <2>1, <2>4
  <2>6. n \in Nat /\ n > 0 /\ n - 1 \in 0 .. t /\ n - 1 \notin Wrong
    <3>1. n \in 0 .. t
      BY <2>4
    <3>2. \A j \in Wrong : n <= j
      BY <2>4
    <3> HIDE DEF Wrong
    <3>3. n \in Nat /\ n > 0 /\ n - 1 \in 0 .. t /\ ~(n <= n - 1)
      BY <2>5, <3>1
    <3> QED BY <3>2, <3>3
  <2>7. f[n - 1] = OnList(b, m, h, s, n - 1)
    BY <2>6
  <2>8. f[n] = LET w == f[n - 1] IN IF w.k = "thread" THEN m[w.v] ELSE w
    BY <2>1, <2>4, <2>5
  <2>9. f[n] = OnList(b, m, h, s, n)
    <3> HIDE DEF Wrong
    <3> QED BY <1>4, <2>6, <2>7, <2>8
  <2> QED BY <2>4, <2>9
<1> QED BY <1>5, <1>6

(* So Threads reads the slots that the invariant has on the list.           *)
LEMMA ThreadsAre ==
  ASSUME NEW b, NEW h, top \in Nat, NEW s \in Seq(Int), Chain(b, mem, h, s)
  PROVE  \A n \in 0 .. top : Threads(h)[n] = OnList(b, mem, h, s, n)
<1> DEFINE f == CHOOSE f : IsWords(mem, h, top, f)
<1>1. Threads(h) = f
  BY DEF Threads, IsWords
<1>2. IsWords(mem, h, top, f)
  BY WordsOfChain
<1> HIDE DEF f
<1> QED BY <1>1, <1>2, WordsOfChain
(* A list of slots is no longer than the heap.                              *)
LEMMA ListFits ==
  ASSUME NEW t \in Nat, NEW s \in Seq(Int), Injective(s), \A i \in DOMAIN s : s[i] \in 0 .. t - 1
  PROVE  Len(s) <= t
<1>1. Len(s) \in Nat /\ DOMAIN s = 1 .. Len(s)
  OBVIOUS
<1>2. s \in [1 .. Len(s) -> 0 .. t - 1]
  <2>1. s = [i \in 1 .. Len(s) |-> s[i]]
    BY <1>1
  <2> QED BY <1>1, <2>1
<1>3. s \in Injection(1 .. Len(s), 0 .. t - 1)
  BY <1>1, <1>2 DEF Injection, IsInjective, Injective
<1>4. IsFiniteSet(0 .. t - 1) /\ Cardinality(0 .. t - 1) = t
  <2>1. 0 \in Int /\ t - 1 \in Int
    OBVIOUS
  <2>2. IsFiniteSet(0 .. t - 1) /\ Cardinality(0 .. t - 1) = IF 0 > t - 1 THEN 0 ELSE (t - 1) - 0 + 1
    BY <2>1, FS_Interval
  <2> QED BY <2>2
<1>5. Cardinality(1 .. Len(s)) = Len(s)
  <2>1. 1 \in Int /\ Len(s) \in Int
    BY <1>1
  <2>2. Cardinality(1 .. Len(s)) = IF 1 > Len(s) THEN 0 ELSE Len(s) - 1 + 1
    BY <2>1, FS_Interval
  <2> QED BY <1>1, <2>2
<1>6. Cardinality(1 .. Len(s)) <= Cardinality(0 .. t - 1)
  BY <1>3, <1>4, FS_Injection
<1> QED BY <1>4, <1>5, <1>6

(* What ThreadingSound asks for follows from Threading.                     *)
LEMMA ThreadingKept ==
  ASSUME Facts(before), top \in Nat, NEW cs \in Nat, cs = compactionStart, NEW q \in Nat, q = p, q <= top,
         Area(before, top, cs), NEW td, td = todo, NEW partly,
         Threading(before, mem, cs, q, DoneSlots(before, cs, q, td), partly)
  PROVE  /\ \A a \in before.marks : Scanned(a) => \A c \in Slots(before.mem, a) :
              LET w == before.mem[c] IN w.k = "ref" =>
                \/ (c \in todo \/ w.v < compactionStart) /\ mem[c] = w
                \/ w.v >= compactionStart /\ mem[c] = Ref(NewAddress(w.v))
                \/ w.v >= p /\ \E n \in 0 .. top : Threads(w.v)[n] = Thread(c)
         /\ \A a \in before.marks : a >= p => Threads(a)[top] = Hdr(Tag(before.mem, a), 0)
<1> DEFINE b == before
           D == DoneSlots(b, cs, q, td)
<1>1. PICK ch : ThreadState(b, mem, cs, q, D, partly, ch)
  BY DEF Threading
<1>2. D \subseteq SlotCells(b)
  BY DoneSlotsAre
<1>b. Facts(b)
  OBVIOUS
<1>3. ASSUME NEW h \in From(b, q)
      PROVE  /\ ch[h] \in Seq(Int) /\ Chain(b, mem, h, ch[h])
             /\ Len(ch[h]) <= top
             /\ \A n \in 0 .. top : Threads(h)[n] = OnList(b, mem, h, ch[h], n)
  <2>1. h \in b.marks
    BY DEF From
  <2>2. ch[h] \in Seq(Int) /\ Chain(b, mem, h, ch[h]) /\ \A i \in DOMAIN ch[h] : ch[h][i] \in D
    BY <1>1, <2>1 DEF ThreadState
  <2>3. \A c \in SlotCells(b) : c \in 0 .. top - 1
    <3> TAKE c \in SlotCells(b)
    <3>1. c \in Nat /\ IsLive(b, c)
      BY <1>b, SlotCellsApart
    <3>2. ~(c >= top)
      BY <1>b, <3>1, DeadAbove DEF Area
    <3> QED BY <3>1, <3>2
  <2>4. \A i \in DOMAIN ch[h] : ch[h][i] \in 0 .. top - 1
    BY <1>2, <2>2, <2>3
  <2>5. Injective(ch[h])
    BY <2>2 DEF Chain
  <2> DEFINE s == ch[h]
  <2>6. s \in Seq(Int) /\ Injective(s) /\ (\A i \in DOMAIN s : s[i] \in 0 .. top - 1) /\ Chain(b, mem, h, s)
    BY <2>2, <2>4, <2>5
  <2> HIDE DEF s, D, b
  <2>7. Len(s) <= top
    BY <2>6, ListFits
  <2>8. \A n \in 0 .. top : Threads(h)[n] = OnList(b, mem, h, s, n)
    BY <2>6, ThreadsAre
  <2> QED BY <2>6, <2>7, <2>8 DEF s
<1>4. ASSUME NEW a \in b.marks, a >= p
      PROVE  Threads(a)[top] = Hdr(Tag(b.mem, a), 0)
  <2>1. a \in From(b, q)
    BY <1>4 DEF From
  <2>2. Len(ch[a]) <= top /\ Len(ch[a]) \in Nat /\ top \in 0 .. top
    BY <1>3, <2>1
  <2>3. Threads(a)[top] = OnList(b, mem, a, ch[a], top)
    BY <1>3, <2>1, <2>2
  <2> QED BY <2>2, <2>3 DEF OnList
<1>5. ASSUME NEW a \in b.marks, Scanned(a), NEW c \in Slots(b.mem, a), b.mem[c].k = "ref"
      PROVE  \/ (c \in todo \/ b.mem[c].v < compactionStart) /\ mem[c] = b.mem[c]
             \/ b.mem[c].v >= compactionStart /\ mem[c] = Ref(NewAddress(b.mem[c].v))
             \/ b.mem[c].v >= p /\ \E n \in 0 .. top : Threads(b.mem[c].v)[n] = Thread(c)
  <2> DEFINE v == b.mem[c].v
  <2>1. c \in SlotCells(b)
    BY DEF SlotCells
  <2>2. c \in RefCells(b) /\ c \in Settled(b) /\ c \notin b.marks
    BY <1>b, <2>1, SlotCellsApart
  <2>3. /\ v \in b.marks /\ v \in Nat /\ b.mem[c] = Ref(v) /\ Orig(b, c) = b.mem[c]
        /\ Final(b, c) = Ref(New(b, v)) /\ (v < cs => Final(b, c) = b.mem[c])
    BY <1>5, <1>b, <2>2, AreaRef DEF Area
  <2>4. CASE c \in td
    <3>1. c \notin D
      BY <2>4 DEF DoneSlots
    <3>2. mem[c] = Orig(b, c)
      BY <1>1, <2>2, <3>1 DEF ThreadState
    <3> QED BY <2>3, <2>4, <3>2
  <2>5. CASE c \notin td
    <3>1. c \in D
      <4>1. a \in {x \in b.marks : cs <= x /\ x < q}
        BY <1>5 DEF Scanned
      <4> QED BY <2>5, <4>1 DEF DoneSlots
    <3>2. mem[c] = Final(b, c) \/ \E h \in From(b, q) : c \in Range(ch[h])
      BY <1>1, <3>1 DEF ThreadState
    <3>3. CASE mem[c] = Final(b, c)
      <4>1. CASE v < cs
        BY <2>3, <3>3, <4>1
      <4>2. CASE ~(v < cs)
        <5>1. v >= cs
          <6> HIDE DEF v
          <6> QED BY <2>3, <4>2
        <5>2. NewAddress(v) = New(b, v)
          BY DEF NewAddress, LiveWords, New, LiveBelow
        <5> QED BY <2>3, <3>3, <5>1, <5>2
      <4> QED BY <4>1, <4>2
    <3>4. CASE \E h \in From(b, q) : c \in Range(ch[h])
      <4>1. PICK h \in From(b, q) : c \in Range(ch[h])
        BY <3>4
      <4>2. PICK i \in DOMAIN ch[h] : ch[h][i] = c
        BY <4>1 DEF Range
      <4>3. Orig(b, c) = Ref(h)
        BY <1>1, <4>2 DEF ThreadState
      <4>4. v = h /\ h >= q
        BY <2>3, <4>3 DEF Ref, From
      <4>5. /\ ch[h] \in Seq(Int) /\ Len(ch[h]) <= top
            /\ \A n \in 0 .. top : Threads(h)[n] = OnList(b, mem, h, ch[h], n)
        BY <1>3
      <4>6. i \in 1 .. Len(ch[h]) /\ Len(ch[h]) \in Nat
        BY <4>2, <4>5
      <4>7. i - 1 \in 0 .. top /\ i - 1 < Len(ch[h]) /\ (i - 1) + 1 = i
        BY <4>5, <4>6
      <4>8. OnList(b, mem, h, ch[h], i - 1) = Thread(c)
        BY <4>2, <4>7 DEF OnList
      <4>9. Threads(h)[i - 1] = Thread(c)
        BY <4>5, <4>7, <4>8
      <4> QED BY <4>4, <4>7, <4>9
    <3> QED BY <3>2, <3>3, <3>4
  <2> QED BY <2>4, <2>5
<1> QED BY <1>4, <1>5

(* And OffsetsRecorded from Offsets: objects of the area move down.         *)
LEMMA OffsetsKept ==
  ASSUME NEW b, Facts(b), NEW m, NEW t \in Nat, NEW mk, NEW cs \in Nat, NEW dd, NEW D, RelocInv(b, m, t, mk, cs, dd, D)
  PROVE  \A a \in b.marks : a >= cs => m[a] = Hdr(Tag(b.mem, a), New(b, a) - a) /\ New(b, a) < a
<1>1. Area(b, t, cs) /\ Offsets(b, m, cs, t)
  BY DEF RelocInv
<1> SUFFICES ASSUME NEW a \in b.marks, a >= cs
             PROVE  m[a] = Hdr(Tag(b.mem, a), New(b, a) - a) /\ New(b, a) < a
  OBVIOUS
<1>2. a \in Nat /\ a < t /\ IsLive(b, a)
  <2>1. At(b, a, a, 0)
    BY SetsAt
  <2> QED BY <1>1, <2>1, AtIs, DeadAbove DEF Area
<1>3. a # cs /\ cs < a
  BY <1>1, <1>2 DEF Area
<1>4. m[a] = Hdr(Tag(b.mem, a), New(b, a) - a)
  BY <1>1, <1>2, <1>3 DEF Offsets
<1>5. New(b, a) < New(b, cs) + (a - cs)
  BY <1>1, <1>2, <1>3, NewMonotone DEF Area
<1>6. New(b, cs) = cs
  BY <1>1, NewFixed DEF Area
<1>7. New(b, a) \in Nat
  BY <1>2, NewIs
<1> QED BY <1>2, <1>4, <1>5, <1>6, <1>7

(* The collection at work is sound.                                         *)
LEMMA CollectionSound_Inv == CollectInv => CollectionSound
<1> SUFFICES ASSUME CollectInv PROVE CollectionSound
  OBVIOUS
<1>1. HeapTypeOK /\ Facts(before) /\ IdleInv /\ PhaseInv
  BY DEF CollectInv
<1>2. top \in Nat /\ compactionStart \in Nat
  BY <1>1 DEF HeapTypeOK
<1>3. ThreadingSound
  <2> SUFFICES ASSUME phase \in {"gap", "live", "object"}
               PROVE  /\ \A a \in before.marks : Scanned(a) => \A c \in Slots(before.mem, a) :
                           LET w == before.mem[c] IN w.k = "ref" =>
                             \/ (c \in todo \/ w.v < compactionStart) /\ mem[c] = w
                             \/ w.v >= compactionStart /\ mem[c] = Ref(NewAddress(w.v))
                             \/ w.v >= p /\ \E n \in 0 .. top : Threads(w.v)[n] = Thread(c)
                      /\ \A a \in before.marks : a >= p => Threads(a)[top] = Hdr(Tag(before.mem, a), 0)
    BY DEF ThreadingSound
  <2>1. CASE phase = "gap"
    <3>1. GapInv(before, mem, top, marks, compactionStart, p, dead, offset) /\ todo = {}
      BY <1>1, <2>1 DEF PhaseInv, IdleInv
    <3>2. /\ Area(before, top, compactionStart) /\ p \in Nat /\ p <= top
          /\ Threading(before, mem, compactionStart, p, DoneSlots(before, compactionStart, p, todo), FALSE)
      BY <1>1, <3>1 DEF GapInv, HeapTypeOK
    <3> QED BY <1>1, <1>2, <3>2, ThreadingKept
  <2>2. CASE phase \in {"live", "object"}
    <3>1. LiveInv(before, mem, top, marks, compactionStart, p, todo, dead, live, offset, phase = "object")
      BY <1>1, <2>2 DEF PhaseInv
    <3>2. /\ Area(before, top, compactionStart) /\ p \in Nat /\ p <= top
          /\ Threading(before, mem, compactionStart, p, DoneSlots(before, compactionStart, p, todo), phase = "object")
      BY <3>1 DEF LiveInv
    <3> DEFINE partly == (phase = "object")
    <3>3. Threading(before, mem, compactionStart, p, DoneSlots(before, compactionStart, p, todo), partly)
      BY <3>2
    <3> HIDE DEF partly
    <3> QED BY <1>1, <1>2, <3>2, <3>3, ThreadingKept
  <2> QED BY <2>1, <2>2
<1>4. OffsetsRecorded
  <2> SUFFICES ASSUME phase \in {"prefix", "relocTrackers", "relocStacks", "relocRoots"}
               PROVE  \A a \in before.marks : a >= compactionStart =>
                        mem[a] = Hdr(Tag(before.mem, a), NewAddress(a) - a) /\ NewAddress(a) < a
    BY DEF OffsetsRecorded
  <2>1. PICK D : RelocInv(before, mem, top, marks, compactionStart, dead, D)
    BY <1>1 DEF PhaseInv
  <2>2. \A a : NewAddress(a) = New(before, a)
    BY DEF NewAddress, LiveWords, New, LiveBelow
  <2> QED BY <1>1, <1>2, <2>1, <2>2, OffsetsKept
<1> QED BY <1>1, <1>3, <1>4 DEF CollectionSound

(* While the live ranges are created no reference is lost: its slot has the *)
(* new address or is on the list in the header of its target.  From then on *)
(* each header records how far its object moves.                            *)
THEOREM CollectionIsSound == CollectSpec => []CollectionSound
<1>1. CollectInv => CollectionSound
  BY CollectionSound_Inv
<1> QED BY <1>1, CollectionInvariant, PTL
-----------------------------------------------------------------------------
(* The heap after the collection.                                           *)
LEMMA DoneTop ==
  ASSUME NEW b, Facts(b), NEW m, NEW t, NEW old, NEW mk, DoneInv(b, m, t, old, mk)
  PROVE  /\ t \in Nat /\ t = Cardinality(UNION {a .. a + AllocationSize(b.mem, a) - 1 : a \in b.marks})
         /\ \A x \in Nat : IsLive(b, x) => New(b, x) < t /\ New(b, x) \in Nat
         /\ \A n \in Nat : n < t => \E c \in Nat : IsLive(b, c) /\ New(b, c) = n
<1>1. PICK e \in Nat : Fits(b, e) /\ t = New(b, e)
  BY DEF DoneInv
<1>2. t \in Nat
  BY <1>1, NewIs
<1>3. \A c \in Int : c >= e => ~IsLive(b, c)
  BY <1>1, DeadAbove
<1>4. LiveBelow(b, e) = UNION {a .. a + AllocationSize(b.mem, a) - 1 : a \in b.marks}
  <2>1. ASSUME NEW c \in LiveBelow(b, e)
        PROVE  c \in UNION {a .. a + AllocationSize(b.mem, a) - 1 : a \in b.marks}
    <3>1. PICK a \in b.marks : a <= c /\ c < a + AllocationSize(b.mem, a) /\ c \in Int
      BY <2>1 DEF LiveBelow
    <3>2. a \in Nat /\ Words(b, a) \in Nat
      BY ObjectShape
    <3>3. AllocationSize(b.mem, a) \in Nat
      BY <3>2 DEF Words
    <3>4. c \in a .. a + AllocationSize(b.mem, a) - 1
      BY <3>1, <3>2, <3>3
    <3> QED BY <3>4
  <2>2. ASSUME NEW a \in b.marks, NEW c \in a .. a + AllocationSize(b.mem, a) - 1
        PROVE  c \in LiveBelow(b, e)
    <3>1. a \in Nat /\ Words(b, a) \in Nat
      BY ObjectShape
    <3>2. AllocationSize(b.mem, a) \in Nat
      BY <3>1 DEF Words
    <3>3. c \in Nat /\ a <= c /\ c < a + AllocationSize(b.mem, a)
      BY <3>1, <3>2
    <3>4. IsLive(b, c)
      BY <3>3 DEF IsLive, Words
    <3>5. c < e
      BY <1>3, <3>3, <3>4
    <3> QED BY <3>3, <3>5 DEF LiveBelow
  <2> QED BY <2>1, <2>2
<1>5. t = Cardinality(UNION {a .. a + AllocationSize(b.mem, a) - 1 : a \in b.marks})
  BY <1>1, <1>4 DEF New
<1>6. ASSUME NEW x \in Nat, IsLive(b, x)
      PROVE  New(b, x) < t /\ New(b, x) \in Nat
  <2>1. x < e
    BY <1>3, <1>6
  <2> QED BY <1>1, <1>6, <2>1, NewMonotone, NewIs
<1>7. ASSUME NEW n \in Nat, n < t
      PROVE  \E c \in Nat : IsLive(b, c) /\ New(b, c) = n
  <2>1. \E c \in 0 .. e - 1 : IsLive(b, c) /\ New(b, c) = n
    BY <1>1, <1>7, NewOnto
  <2> QED BY <2>1
<1> QED BY <1>2, <1>5, <1>6, <1>7

(* NewAddress is New.                                                       *)
LEMMA NewAddressIs == \A a : NewAddress(a) = New(before, a)
BY DEF NewAddress, LiveWords, New, LiveBelow

(* A marked object is live.                                                 *)
LEMMA MarksLive ==
  ASSUME NEW b, Facts(b), NEW a \in b.marks
  PROVE  a \in Nat /\ IsLive(b, a)
<1>1. At(b, a, a, 0)
  BY SetsAt
<1> QED BY <1>1, AtIs

(* At the end the heap is compacted.                                        *)
LEMMA Compacted_Inv == CollectInv => Compacted
<1> SUFFICES ASSUME CollectInv, phase = "done"
             PROVE  /\ top = Cardinality(UNION {a .. a + AllocationSize(before.mem, a) - 1 : a \in before.marks})
                    /\ oldObjectsEnd = top
                    /\ \A a \in before.marks : mem[NewAddress(a)] = Hdr(Tag(before.mem, a), 0)
                    /\ marks = {}
  BY DEF Compacted, SlidesInOrder, MarksCleared
<1>1. Facts(before) /\ DoneInv(before, mem, top, oldObjectsEnd, marks)
  BY DEF CollectInv, PhaseInv
<1>2. top = Cardinality(UNION {a .. a + AllocationSize(before.mem, a) - 1 : a \in before.marks})
  BY <1>1, DoneTop
<1>3. ASSUME NEW a \in before.marks
      PROVE  mem[NewAddress(a)] = Hdr(Tag(before.mem, a), 0)
  <2>1. a \in Nat /\ IsLive(before, a)
    BY <1>1, MarksLive
  <2>2. mem[New(before, a)] = Final(before, a)
    BY <1>1, <2>1 DEF DoneInv
  <2> QED BY <1>1, <2>2, NewAddressIs, OrigHeader
<1> QED BY <1>1, <1>2, <1>3 DEF DoneInv

(* The words that are neither references nor links stay as they are.        *)
LEMMA PlainWord ==
  ASSUME NEW b, Facts(b), NEW a \in b.marks, NEW i \in 0 .. Words(b, a) - 1,
         i \notin LinkWords(Tag(b.mem, a))
  PROVE  Final(b, a + i) = IF i \in RefSlots[Tag(b.mem, a)] THEN NewRef(b, b.mem[a + i]) ELSE b.mem[a + i]
<1> DEFINE c == a + i
<1>1. At(b, c, a, i)
  BY DEF At
<1>2. Tag(b.mem, a) \in Tags /\ (Tag(b.mem, a) \in Stacks => i # 1) /\ (Tag(b.mem, a) \in Trackers => i # 1 /\ i # 2)
  BY ObjectShape, ShapesAssumption DEF LinkWords
<1> HIDE DEF c
<1>3. \A x, j : At(b, c, x, j) => x = a /\ j = i
  BY <1>1, AtIs
<1>4. c \notin KeptValues(b) /\ c \notin ClearedValues(b)
  <2> SUFFICES ASSUME c \in KeptValues(b) \cup ClearedValues(b) PROVE FALSE
    OBVIOUS
  <2>1. PICK x : At(b, c, x, 1) /\ Tag(b.mem, x) \in Trackers
    BY SetsAt
  <2> QED BY <1>2, <1>3, <2>1
<1>5. c \in Nat
  BY <1>1, AtIs
<1>6. c \notin TrackerLinks(b)
  <2> SUFFICES ASSUME c \in TrackerLinks(b) PROVE FALSE
    OBVIOUS
  <2>1. c # TrackersHead
    BY <1>5, HeadsAre
  <2>2. PICK x : At(b, c, x, 2) /\ Tag(b.mem, x) \in Trackers
    BY <2>1, SetsAt
  <2> QED BY <1>2, <1>3, <2>2
<1>7. c \notin StackLinks(b)
  <2> SUFFICES ASSUME c \in StackLinks(b) PROVE FALSE
    OBVIOUS
  <2>1. c # StacksHead
    BY <1>5, HeadsAre
  <2>2. PICK x : At(b, c, x, 1) /\ Tag(b.mem, x) \in Stacks
    BY <2>1, SetsAt
  <2> QED BY <1>2, <1>3, <2>2
<1>8. Orig(b, c) = b.mem[c]
  BY <1>4, <1>6 DEF Orig
<1>9. CASE i \in RefSlots[Tag(b.mem, a)]
  <2>1. c \in Slots(b.mem, a)
    BY <1>9 DEF Slots, c
  <2>2. c \in RefCells(b)
    BY <2>1 DEF RefCells, SlotCells
  <2> QED BY <1>9, <2>2, OrigRef DEF c
<1>10. CASE i \notin RefSlots[Tag(b.mem, a)]
  <2>1. c \notin SlotCells(b)
    <3> SUFFICES ASSUME c \in SlotCells(b) PROVE FALSE
      OBVIOUS
    <3>1. PICK x, j : At(b, c, x, j) /\ j \in RefSlots[Tag(b.mem, x)] /\ j # 0
      BY SetsAt
    <3> QED BY <1>3, <1>10, <3>1
  <2>2. c \notin VarCells(b)
    <3>1. \A x \in VarCells(b) : x \in Int /\ x < 0
      BY SetsAt
    <3> QED BY <1>5, <3>1
  <2>3. c \notin RefCells(b) /\ c \notin LinkCells(b)
    BY <1>4, <1>6, <1>7, <2>1, <2>2 DEF RefCells, LinkCells
  <2>4. Final(b, c) = b.mem[c]
    BY <1>8, <2>3 DEF Final
  <2> QED BY <1>10, <2>4 DEF c
<1> QED BY <1>9, <1>10

(* A link and the same link of the list of new addresses.                   *)
LEMMA NewLinkIs ==
  ASSUME NEW b, NEW s \in Seq(Nat), NEW K, K \subseteq DOMAIN s, NEW i \in Nat,
         NEW r, r = [j \in DOMAIN s |-> New(b, s[j])]
  PROVE  NewPtr(b, Ptr(NextLink(s, K, i))) = Ptr(NextLink(r, K, i))
<1> DEFINE v == NextLink(s, K, i)
<1>0. K \subseteq Nat
  OBVIOUS
<1>1. CASE \A k \in K : k <= i
  <2>1. v = Null /\ NextLink(r, K, i) = Null
    BY <1>0, <1>1, NextIs
  <2>2. Ptr(v).v = Null
    BY <2>1 DEF Ptr
  <2> HIDE DEF v
  <2>3. NewPtr(b, Ptr(v)) = Ptr(v)
    BY <2>2 DEF NewPtr
  <2> QED BY <2>1, <2>3 DEF v
<1>2. CASE ~ \A k \in K : k <= i
  <2>1. \E k \in K : k > i
    <3>1. PICK k \in K : ~(k <= i)
      BY <1>2
    <3>2. k \in Nat
      BY <1>0
    <3> QED BY <3>1, <3>2
  <2>2. PICK k \in K : k > i /\ (\A j \in K : j > i => k <= j) /\ v = s[k] + 1
    BY <1>0, <2>1, NextIs
  <2>3. PICK k1 \in K : k1 > i /\ (\A j \in K : j > i => k1 <= j) /\ NextLink(r, K, i) = r[k1] + 1
    BY <1>0, <2>1, NextIs
  <2>4. k1 = k
    <3>1. k \in Nat /\ k1 \in Nat /\ k <= k1 /\ k1 <= k
      BY <1>0, <2>2, <2>3
    <3> QED BY <3>1
  <2>5. s[k] \in Nat /\ r[k] = New(b, s[k])
    <3>1. k \in DOMAIN s
      OBVIOUS
    <3> QED BY <3>1
  <2> HIDE DEF v
  <2>6. v # Null /\ v - 1 = s[k]
    BY <2>2, <2>5 DEF Null
  <2>7. Ptr(v).v = v
    BY DEF Ptr
  <2>8. NewPtr(b, Ptr(v)) = Ptr(New(b, s[k]) + 1)
    BY <2>6, <2>7 DEF NewPtr
  <2> QED BY <2>3, <2>4, <2>5, <2>8 DEF v
<1> QED BY <1>1, <1>2
(* The list of the new addresses.                                           *)
LEMMA NewListIs ==
  ASSUME NEW s
  PROVE  NewList(s) = [j \in DOMAIN s |-> New(before, s[j])] /\ \A j \in DOMAIN s : NewList(s)[j] = New(before, s[j])
BY NewAddressIs DEF NewList

(* A word of a live object afterwards.                                      *)
LEMMA WordAfter ==
  ASSUME NEW b, Facts(b), NEW m, NEW t, NEW old, NEW mk, DoneInv(b, m, t, old, mk),
         NEW a \in b.marks, NEW i \in 0 .. Words(b, a) - 1
  PROVE  m[New(b, a) + i] = Final(b, a + i)
<1>1. a + i \in Nat /\ IsLive(b, a + i)
  BY WordsLive
<1>2. m[New(b, a + i)] = Final(b, a + i)
  BY <1>1 DEF DoneInv
<1>3. i \in 0 .. Words(b, a)
  BY ObjectShape
<1>4. New(b, a + i) = New(b, a) + i
  BY <1>3, NewInside
<1> QED BY <1>2, <1>4

(* At the end the program finds its objects as they were.                   *)
LEMMA GraphPreserved_Inv == CollectInv => GraphPreserved
<1> SUFFICES ASSUME CollectInv, phase = "done"
             PROVE  /\ Objects(mem, top) = {NewAddress(a) : a \in before.marks}
                    /\ \A c \in Variables : mem[c] = NewWord(before.mem[c])
                    /\ \A a \in before.marks :
                         LET t == Tag(before.mem, a) IN
                         \A i \in 0 .. ObjectSize[t] - 1 : i \notin LinkWords(t) =>
                           mem[NewAddress(a) + i] =
                             IF i \in RefSlots[t] THEN NewWord(before.mem[a + i]) ELSE before.mem[a + i]
                    /\ Linked(mem, StacksHead, 1, NewList(before.stacks), DOMAIN before.stacks)
  BY DEF GraphPreserved
<1> DEFINE b == before
<1>1. Facts(b) /\ DoneInv(b, mem, top, oldObjectsEnd, marks)
  BY DEF CollectInv, PhaseInv
<1>n. \A a : NewAddress(a) = New(b, a)
  BY NewAddressIs
<1>w. \A w : NewWord(w) = NewRef(b, w)
  BY <1>n DEF NewWord, NewRef
<1>l. \A s : NewList(s) = [j \in DOMAIN s |-> New(b, s[j])] /\ \A j \in DOMAIN s : NewList(s)[j] = New(b, s[j])
  BY NewListIs
<1>v. Variables = VarCells(b)
  BY DEF Variables, VarCells, FramesOf
<1>o. Objects(mem, top) = {x \in 0 .. top - 1 : mem[x].k = "hdr"}
  BY DEF Objects
<1> HIDE DEF b
<1>2. top \in Nat
  BY <1>1, DoneTop
<1>3. Objects(mem, top) = {NewAddress(a) : a \in b.marks}
  <2>1. ASSUME NEW x \in 0 .. top - 1, mem[x].k = "hdr"
        PROVE  \E a \in b.marks : x = New(b, a)
    <3>0. x \in Nat /\ x < top
      BY <1>2
    <3>d. \A n \in Nat : n < top => \E c \in Nat : IsLive(b, c) /\ New(b, c) = n
      BY <1>1, DoneTop
    <3>1. PICK c \in Nat : IsLive(b, c) /\ New(b, c) = x
      BY <3>0, <3>d
    <3>2. mem[x] = Final(b, c)
      BY <1>1, <3>1 DEF DoneInv
    <3>3. c \in b.marks
      BY <1>1, <2>1, <3>1, <3>2, FinalKind
    <3> QED BY <3>1, <3>3
  <2>2. ASSUME NEW a \in b.marks
        PROVE  New(b, a) \in 0 .. top - 1 /\ mem[New(b, a)].k = "hdr"
    <3>1. a \in Nat /\ IsLive(b, a)
      BY <1>1, MarksLive
    <3>2. New(b, a) < top /\ New(b, a) \in Nat
      BY <1>1, <3>1, DoneTop
    <3>3. mem[New(b, a)] = Hdr(Tag(b.mem, a), 0)
      BY <1>1, <3>1, OrigHeader DEF DoneInv
    <3> QED BY <1>2, <3>2, <3>3 DEF Hdr
  <2> QED BY <1>n, <1>o, <2>1, <2>2
<1>4. ASSUME NEW c \in VarCells(b)
      PROVE  mem[c] = NewWord(b.mem[c])
  <2>1. c \in Cells /\ c \in RefCells(b)
    BY <1>1, SetsAt DEF RefCells
  <2> QED BY <1>1, <1>w, <2>1, OrigRef DEF DoneInv
<1>5. ASSUME NEW a \in b.marks, NEW i \in 0 .. ObjectSize[Tag(b.mem, a)] - 1, i \notin LinkWords(Tag(b.mem, a))
      PROVE  mem[NewAddress(a) + i] =
               IF i \in RefSlots[Tag(b.mem, a)] THEN NewWord(b.mem[a + i]) ELSE b.mem[a + i]
  <2>1. i \in 0 .. Words(b, a) - 1
    BY <1>5 DEF Words, AllocationSize
  <2>2. mem[New(b, a) + i] = Final(b, a + i)
    BY <1>1, <2>1, WordAfter
  <2>3. Final(b, a + i) = IF i \in RefSlots[Tag(b.mem, a)] THEN NewRef(b, b.mem[a + i]) ELSE b.mem[a + i]
    BY <1>1, <1>5, <2>1, PlainWord
  <2> QED BY <1>n, <1>w, <2>2, <2>3
<1>6. Linked(mem, StacksHead, 1, NewList(b.stacks), DOMAIN b.stacks)
  <2> DEFINE r == NewList(b.stacks)
             K == DOMAIN b.stacks
  <2>1. b.stacks \in Seq(Nat) /\ K \subseteq DOMAIN b.stacks /\ r = [j \in DOMAIN b.stacks |-> New(b, b.stacks[j])]
    BY <1>1, <1>l DEF Facts
  <2>2. \A i \in K : r[i] = New(b, b.stacks[i])
    BY <2>1
  <2>3. ASSUME NEW i \in K \cup {0}
        PROVE  mem[LinkCell(StacksHead, 1, r, i)] = Ptr(NextLink(r, K, i))
    <3> HIDE DEF r
    <3>1. Final(b, StackCell(b, i)) = NewPtr(b, Ptr(NextLink(b.stacks, K, i)))
      BY <1>1, OrigStackLink
    <3>2. i \in Nat
      BY <2>1
    <3>3. NewPtr(b, Ptr(NextLink(b.stacks, K, i))) = Ptr(NextLink(r, K, i))
      <4> HIDE DEF K
      <4> QED BY <2>1, <3>2, NewLinkIs
    <3>4. CASE i = 0
      <4>1. LinkCell(StacksHead, 1, r, i) = StacksHead /\ StackCell(b, i) = StacksHead
        BY <3>4 DEF LinkCell, StackCell
      <4>2. mem[StacksHead] = Final(b, StacksHead)
        BY <1>1, HeadsAre DEF DoneInv
      <4> QED BY <3>1, <3>3, <4>1, <4>2
    <3>5. CASE i # 0
      <4>1. i \in DOMAIN b.stacks
        BY <3>5
      <4>2. b.stacks[i] \in b.marks /\ 1 \in 0 .. Words(b, b.stacks[i]) - 1 /\ StackCell(b, i) = b.stacks[i] + 1
        BY <1>1, <4>1, StackIs
      <4>3. mem[New(b, b.stacks[i]) + 1] = Final(b, b.stacks[i] + 1)
        BY <1>1, <4>2, WordAfter
      <4>4. LinkCell(StacksHead, 1, r, i) = New(b, b.stacks[i]) + 1
        BY <2>2, <3>5 DEF LinkCell
      <4> QED BY <3>1, <3>3, <4>2, <4>3, <4>4
    <3> QED BY <3>4, <3>5
  <2> QED BY <2>3 DEF Linked
<1> QED BY <1>3, <1>4, <1>5, <1>6, <1>v DEF b

(* At the end exactly the right trackers are on the list.                   *)
LEMMA TrackersWeak_Inv == CollectInv => TrackersWeak
<1> DEFINE b == before
           r == NewList(b.trackers)
<1> SUFFICES ASSUME CollectInv, phase = "done"
             PROVE  /\ Linked(mem, TrackersHead, 2, r, Kept(b))
                    /\ \A i \in DOMAIN b.trackers : b.trackers[i] \in b.marks =>
                         mem[NewAddress(b.trackers[i]) + 1] =
                           IF i \in Kept(b) THEN Ref(NewAddress(b.mem[b.trackers[i] + 1].v)) ELSE FalseMarker
  BY DEF TrackersWeak, Kept
<1>1. Facts(b) /\ DoneInv(b, mem, top, oldObjectsEnd, marks)
  BY DEF CollectInv, PhaseInv
<1>n. \A a : NewAddress(a) = New(b, a)
  BY NewAddressIs
<1>2. b.trackers \in Seq(Nat) /\ r = [j \in DOMAIN b.trackers |-> New(b, b.trackers[j])]
  BY <1>1, NewListIs DEF Facts
<1>3. \A i \in DOMAIN b.trackers : r[i] = New(b, b.trackers[i])
  BY <1>2
<1>k. Kept(b) \subseteq DOMAIN b.trackers
  BY DEF Kept
<1> HIDE DEF b, r
<1>4. ASSUME NEW i \in Kept(b) \cup {0}
      PROVE  mem[LinkCell(TrackersHead, 2, r, i)] = Ptr(NextLink(r, Kept(b), i))
  <2>1. Final(b, TrackerCell(b, i)) = NewPtr(b, Ptr(NextLink(b.trackers, Kept(b), i)))
    BY <1>1, OrigTrackerLink
  <2>2. i \in Nat
    BY <1>2, <1>k
  <2>3. NewPtr(b, Ptr(NextLink(b.trackers, Kept(b), i))) = Ptr(NextLink(r, Kept(b), i))
    BY <1>2, <1>k, <2>2, NewLinkIs
  <2>4. CASE i = 0
    <3>1. LinkCell(TrackersHead, 2, r, i) = TrackersHead /\ TrackerCell(b, i) = TrackersHead
      BY <2>4 DEF LinkCell, TrackerCell
    <3>2. mem[TrackersHead] = Final(b, TrackersHead)
      BY <1>1, HeadsAre DEF DoneInv
    <3> QED BY <2>1, <2>3, <3>1, <3>2
  <2>5. CASE i # 0
    <3>1. i \in DOMAIN b.trackers /\ b.trackers[i] \in b.marks
      BY <2>5 DEF Kept
    <3>2. 2 \in 0 .. Words(b, b.trackers[i]) - 1 /\ TrackerCell(b, i) = b.trackers[i] + 2
      BY <1>1, <3>1, TrackerIs
    <3>3. mem[New(b, b.trackers[i]) + 2] = Final(b, b.trackers[i] + 2)
      BY <1>1, <3>1, <3>2, WordAfter
    <3>4. LinkCell(TrackersHead, 2, r, i) = New(b, b.trackers[i]) + 2
      BY <1>3, <2>5, <3>1 DEF LinkCell
    <3> QED BY <2>1, <2>3, <3>2, <3>3, <3>4
  <2> QED BY <2>4, <2>5
<1>5. ASSUME NEW i \in DOMAIN b.trackers, b.trackers[i] \in b.marks
      PROVE  mem[New(b, b.trackers[i]) + 1] =
               IF i \in Kept(b) THEN Ref(New(b, b.mem[b.trackers[i] + 1].v)) ELSE FalseMarker
  <2> DEFINE c == b.trackers[i] + 1
  <2>1. 1 \in 0 .. Words(b, b.trackers[i]) - 1 /\ b.mem[c].k = "ref"
    BY <1>1, TrackerIs
  <2>2. mem[New(b, b.trackers[i]) + 1] = Final(b, c)
    BY <1>1, <1>5, <2>1, WordAfter
  <2>3. CASE i \in Kept(b)
    <3>1. c \in RefCells(b)
      BY <2>3 DEF RefCells, KeptValues
    <3>2. Final(b, c) = NewRef(b, b.mem[c])
      BY <1>1, <3>1, OrigRef
    <3> QED BY <2>1, <2>2, <2>3, <3>2 DEF NewRef
  <2>4. CASE i \notin Kept(b)
    <3>1. c \in ClearedValues(b)
      BY <1>5, <2>4 DEF ClearedValues
    <3> HIDE DEF c
    <3>2. c \notin RefCells(b) /\ c \notin LinkCells(b)
      BY <1>1, <3>1, RefCellsApart, LinkCellsApart
    <3>3. Final(b, c) = FalseMarker
      BY <3>1, <3>2 DEF Final, Orig, LinkCells
    <3> QED BY <2>2, <2>4, <3>3
  <2> QED BY <2>3, <2>4
<1> QED BY <1>4, <1>5, <1>n DEF Linked

(* What the program sees of its objects is what it saw before.              *)
THEOREM GraphIsPreserved == CollectSpec => []GraphPreserved
<1>1. CollectInv => GraphPreserved
  BY GraphPreserved_Inv
<1> QED BY <1>1, CollectionInvariant, PTL

(* The live objects lie without gaps, in their order, and no mark is left.  *)
THEOREM HeapIsCompacted == CollectSpec => []Compacted
<1>1. CollectInv => Compacted
  BY Compacted_Inv
<1> QED BY <1>1, CollectionInvariant, PTL

(* A tracker does not keep its object alive, and learns of its death.       *)
THEOREM TrackersAreWeak == CollectSpec => []TrackersWeak
<1>1. CollectInv => TrackersWeak
  BY TrackersWeak_Inv
<1> QED BY <1>1, CollectionInvariant, PTL
-----------------------------------------------------------------------------

(* Finalizers.                                                              *)

(* The places of a notifier, and what it remembers at each.                 *)
AddShapes ==
  [at : {"adding"}, n : Nat, start : Nat]
    \cup [at : {"copying"}, n : Nat, start : Nat, length : Nat]
StepShapes == [at : {"test", "finalizing"}, src : Nat \ {0}, dst : Nat \ {0}]
KeepShapes == [at : {"keeping"}, src : Nat \ {0}, dst : Nat \ {0}, h : Handlers]
Shapes == AddShapes \cup StepShapes \cup KeepShapes \cup [at : {"failed"}]

LoopInv == loops \in Seq(Shapes)
Adding(f) == f.at \in {"adding", "copying"}

(* The elements that the Vector has, or will have when the loop ends: those *)
(* kept, and those the loop has not come to.                                *)
Ahead == IF Top.at = "finalizing" THEN Top.src + 1 ELSE Top.src
Live == IF loops = << >> \/ Adding(Top) THEN 1 .. size ELSE 1 .. Top.dst - 1 \cup Ahead .. size

(* Without nested collections add-all copies what it found at its start,    *)
(* the loop is inside of the Vector, ...                                    *)
AddPlace == Top.n = Len(queued) /\ Top.start = size /\ Top.n + size <= Capacity
LoopPlace ==
  /\ Top.dst <= Top.src /\ Top.src <= size + 1
  /\ Top.at # "test" => Top.src <= size
  /\ Top.at = "keeping" => Top.h = array[Top.src]

PlaceInv ==
  /\ Len(loops) <= 1
  /\ size <= Capacity
  /\ loops # << >> =>
       /\ Top.at # "failed"
       /\ IF Adding(Top) THEN AddPlace /\ (Top.at = "copying" => Top.length = Top.n) ELSE LoopPlace

(* ... and each handler is at one of the elements that count, or queued,    *)
(* until it is run.                                                         *)
OnceInv ==
  /\ \A i, j \in Live : array[i] = array[j] => i = j
  /\ \A i, j \in DOMAIN queued : queued[i] = queued[j] => i = j
  /\ \A i \in Live, j \in DOMAIN queued : array[i] # queued[j]

ListedInv ==
  /\ \A i \in Live : array[i] \in Handlers /\ array[i] <= added /\ runs[array[i]] = 0
  /\ \A j \in DOMAIN queued : queued[j] <= added /\ runs[queued[j]] = 0
  /\ \A h \in Handlers : h > added => runs[h] = 0
  /\ \A h \in Handlers : h <= added /\ runs[h] = 0 =>
       (\E i \in Live : array[i] = h) \/ (\E j \in DOMAIN queued : queued[j] = h)
  /\ RunsOnce

AccountInv == ~overlapped => PlaceInv /\ OnceInv /\ ListedInv

(* The inductive invariant.                                                 *)
IInv == TypeOK /\ LoopInv /\ AccountInv
-----------------------------------------------------------------------------
(* A notifier at a new place leaves the others alone.                       *)
LEMMA SetTopLoops ==
  ASSUME LoopInv, loops # << >>, NEW f \in Shapes, SetTop(f)
  PROVE  LoopInv' /\ loops' # << >> /\ Len(loops') = Len(loops) /\ Top' = f
<1>0. loops \in Seq(Shapes)
  BY DEF LoopInv
<1>1. Tail(loops) \in Seq(Shapes) /\ Len(Tail(loops)) = Len(loops) - 1
  BY <1>0
<1>2. <<f>> \in Seq(Shapes) /\ Len(<<f>>) = 1
  OBVIOUS
<1>3. loops' \in Seq(Shapes) /\ Len(loops') = Len(loops)
  BY <1>0, <1>1, <1>2 DEF SetTop
<1>4. loops'[1] = f
  BY <1>1, <1>2 DEF SetTop
<1>5. loops' # << >>
  BY <1>0, <1>3
<1> QED BY <1>3, <1>4, <1>5 DEF LoopInv, Top

(* What a notifier remembers.                                               *)
LEMMA ShapeIs ==
  ASSUME NEW f \in Shapes
  PROVE  /\ f.at \in {"adding", "copying", "test", "finalizing", "keeping", "failed"}
         /\ Adding(f) => f.n \in Nat /\ f.start \in Nat
         /\ f.at = "copying" => f.length \in Nat
         /\ f.at \in {"test", "finalizing"} => f \in StepShapes
         /\ f.at \in {"test", "finalizing", "keeping"} => f.src \in Nat \ {0} /\ f.dst \in Nat \ {0}
         /\ f.at = "keeping" => f.h \in Handlers
<1>1. CASE f \in [at : {"adding"}, n : Nat, start : Nat]
  BY <1>1 DEF Adding
<1>2. CASE f \in [at : {"copying"}, n : Nat, start : Nat, length : Nat]
  BY <1>2 DEF Adding
<1>3. CASE f \in StepShapes
  BY <1>3 DEF Adding, StepShapes
<1>4. CASE f \in KeepShapes
  BY <1>4 DEF Adding, KeepShapes
<1>5. CASE f \in [at : {"failed"}]
  BY <1>5 DEF Adding
<1> QED BY <1>1, <1>2, <1>3, <1>4, <1>5 DEF Shapes, AddShapes

(* A loop that goes on behind a handler.                                    *)
LEMMA Advanced ==
  ASSUME NEW r \in Shapes, r.at = "finalizing"
  PROVE  LET f == [r EXCEPT !.at = "test", !.src = @ + 1]
         IN  f \in Shapes /\ f.src = r.src + 1 /\ f.dst = r.dst /\ f.at = "test"
<1> DEFINE q == [r EXCEPT !.at = "test"]
           f == [r EXCEPT !.at = "test", !.src = @ + 1]
<1>1. r \in StepShapes
  BY ShapeIs
<1>2. f = [q EXCEPT !.src = @ + 1]
  OBVIOUS
<1>3. q \in StepShapes
  BY <1>1 DEF StepShapes
<1>4. f.src = r.src + 1 /\ f.dst = r.dst /\ f.at = "test"
  BY <1>1 DEF StepShapes
<1> HIDE DEF q, f
<1>5. f \in StepShapes
  BY <1>2, <1>3 DEF StepShapes
<1>6. f \in Shapes
  BY <1>5 DEF Shapes
<1> QED BY <1>4, <1>6 DEF f

(* The innermost notifier is one of them.                                   *)
LEMMA TopIs ==
  ASSUME LoopInv, loops # << >>
  PROVE  /\ Top \in Shapes
         /\ Top.at \in {"adding", "copying", "test", "finalizing", "keeping", "failed"}
         /\ Adding(Top) => Top.n \in Nat /\ Top.start \in Nat
         /\ Top.at = "copying" => Top.length \in Nat
         /\ Top.at \in {"test", "finalizing"} => Top \in StepShapes
         /\ Top.at \in {"test", "finalizing", "keeping"} => Top.src \in Nat \ {0} /\ Top.dst \in Nat \ {0}
         /\ Top.at = "keeping" => Top.h \in Handlers
<1>1. Top \in Shapes
  BY DEF Top, LoopInv
<1> QED BY <1>1, ShapeIs

(* All types but those of the notifiers.                                    *)
VectorOK ==
  /\ added \in {0} \cup Handlers
  /\ queued \in Seq(Handlers) /\ array \in [1 .. Capacity -> Handlers \cup {Sentinel}] /\ size \in Nat
  /\ cleared \subseteq 1 .. added
  /\ runs \in [Handlers -> Nat] /\ overlapped \in BOOLEAN

(* What VectorOK says of the members, the vectors and their lengths.        *)
LEMMA VectorTypes ==
  ASSUME LoopInv
  PROVE  TypeOK <=> VectorOK
<1>1. \A i \in DOMAIN loops : loops[i].at \in {"adding", "copying", "test", "finalizing", "keeping", "failed"}
  BY ShapeIs DEF LoopInv
<1> QED BY <1>1 DEF TypeOK, VectorOK
-----------------------------------------------------------------------------
(* Every step keeps the types.                                              *)
LEMMA TypeStep ==
  ASSUME IInv, [Next]_vars
  PROVE  TypeOK' /\ LoopInv'
<1>0. VectorOK /\ LoopInv
  BY VectorTypes DEF IInv
<1>01. added \in Nat /\ Capacity \in Nat
  BY <1>0, BoundsAssumption DEF VectorOK, Handlers, Capacity
<1> SUFFICES VectorOK' /\ LoopInv'
  <2>1. LoopInv' => \A i \in DOMAIN loops' :
          loops'[i].at \in {"adding", "copying", "test", "finalizing", "keeping", "failed"}
    BY ShapeIs DEF LoopInv
  <2> QED BY <2>1 DEF TypeOK, VectorOK
<1>1. CASE AddFinalizer
  <2>1. queued' \in Seq(Handlers)
    BY <1>0, <1>1 DEF AddFinalizer, VectorOK
  <2>2. added' \in Handlers /\ cleared' \subseteq 1 .. added'
    BY <1>0, <1>01, <1>1 DEF AddFinalizer, VectorOK
  <2> QED BY <1>0, <1>1, <2>1, <2>2 DEF AddFinalizer, VectorOK, LoopInv
<1>2. ASSUME NEW S \in SUBSET (1 .. added), Collect(S) PROVE VectorOK' /\ LoopInv'
  <2> DEFINE l == [at |-> "adding", n |-> Len(queued), start |-> size]
  <2>1. l \in Shapes
    BY <1>0 DEF Shapes, AddShapes, VectorOK
  <2>2. loops' = <<l>> \o loops /\ loops \in Seq(Shapes)
    BY <1>0, <1>2 DEF Collect, LoopInv
  <2> HIDE DEF l
  <2>3. LoopInv'
    BY <2>1, <2>2 DEF LoopInv
  <2>4. overlapped' \in BOOLEAN /\ cleared' \subseteq 1 .. added'
    BY <1>0, <1>2 DEF Collect, VectorOK
  <2> QED BY <1>0, <1>2, <2>3, <2>4 DEF Collect, VectorOK
<1>3. CASE MakeSequence
  <2> DEFINE f == [at |-> "copying", n |-> Top.n, start |-> Top.start, length |-> Len(queued)]
  <2>1. loops # << >> /\ Top.at = "adding" /\ SetTop(f)
        /\ UNCHANGED <<added, queued, array, size, cleared, runs, overlapped>>
    BY <1>3 DEF MakeSequence, TopAt
  <2>2. f \in Shapes
    BY <1>0, <2>1, TopIs DEF Shapes, AddShapes, VectorOK, Adding
  <2> HIDE DEF f
  <2>3. LoopInv'
    BY <1>0, <2>1, <2>2, SetTopLoops
  <2> QED BY <1>0, <2>1, <2>3 DEF VectorOK
<1>4. CASE AddAll
  <2> DEFINE f == [at |-> "test", src |-> 1, dst |-> 1]
  <2>1. loops # << >> /\ Top.at = "copying" /\ SetTop(f) /\ Top.n <= Len(queued)
        /\ array' = [i \in 1 .. Capacity |-> IF i \in Top.start + 1 .. Top.start + Top.n
                                             THEN queued[i - Top.start] ELSE array[i]]
        /\ size' = size + Top.n /\ queued' = << >> /\ UNCHANGED <<added, cleared, runs, overlapped>>
    BY <1>4 DEF AddAll, TopAt, Defined, ClearQueued
  <2>2. Top.n \in Nat /\ Top.start \in Nat
    BY <1>0, <2>1, TopIs DEF Adding
  <2>3. f \in Shapes
    BY DEF Shapes, StepShapes
  <2> HIDE DEF f
  <2>4. LoopInv'
    BY <1>0, <2>1, <2>3, SetTopLoops
  <2>5. ASSUME NEW i \in 1 .. Capacity, i \in Top.start + 1 .. Top.start + Top.n
        PROVE  queued[i - Top.start] \in Handlers
    <3>1. queued \in Seq(Handlers) /\ Len(queued) \in Nat
      BY <1>0 DEF VectorOK
    <3>2. i - Top.start \in 1 .. Len(queued)
      BY <2>1, <2>2, <2>5, <3>1
    <3> QED BY <3>1, <3>2
  <2>6. array' \in [1 .. Capacity -> Handlers \cup {Sentinel}]
    BY <1>0, <2>1, <2>5 DEF VectorOK
  <2>7. size' \in Nat /\ queued' \in Seq(Handlers)
    BY <1>0, <2>1, <2>2 DEF VectorOK
  <2> QED BY <1>0, <2>1, <2>4, <2>6, <2>7 DEF VectorOK
<1>5. CASE TestHandler
  <2> DEFINE h == array[Top.src]
             f == [Top EXCEPT !.at = "finalizing"]
             g == [at |-> "keeping", src |-> Top.src, dst |-> Top.dst, h |-> h]
  <2>1. loops # << >> /\ Top.at = "test" /\ Top.src \in DOMAIN array /\ h # Sentinel
        /\ UNCHANGED <<added, queued, array, size, cleared, overlapped>>
    BY <1>5 DEF TestHandler, TopAt, Defined
  <2>2. Top \in StepShapes /\ Top.src \in Nat \ {0} /\ Top.dst \in Nat \ {0}
    BY <1>0, <2>1, TopIs
  <2>3. h \in Handlers
    BY <1>0, <2>1 DEF VectorOK
  <2>4. CASE Expired(h)
    <3>1. SetTop(f) /\ runs' = [runs EXCEPT ![h] = @ + 1]
      BY <1>5, <2>4 DEF TestHandler
    <3>2. runs' \in [Handlers -> Nat]
      <4>1. runs[h] + 1 \in Nat
        BY <1>0, <2>3 DEF VectorOK
      <4> QED BY <1>0, <3>1, <4>1 DEF VectorOK
    <3>3. f \in Shapes
      BY <2>2 DEF Shapes, StepShapes
    <3> HIDE DEF f, h
    <3>4. LoopInv'
      BY <1>0, <2>1, <3>1, <3>3, SetTopLoops
    <3> QED BY <1>0, <2>1, <3>2, <3>4 DEF VectorOK
  <2>5. CASE ~Expired(h)
    <3>1. SetTop(g) /\ UNCHANGED runs
      BY <1>5, <2>5 DEF TestHandler
    <3>2. g \in Shapes
      BY <2>2, <2>3 DEF Shapes, KeepShapes
    <3> HIDE DEF g, h
    <3>3. LoopInv'
      BY <1>0, <2>1, <3>1, <3>2, SetTopLoops
    <3> QED BY <1>0, <2>1, <3>1, <3>3 DEF VectorOK
  <2> QED BY <2>4, <2>5
<1>6. CASE KeepHandler
  <2> DEFINE f == [at |-> "test", src |-> Top.src + 1, dst |-> Top.dst + 1]
  <2>1. loops # << >> /\ Top.at = "keeping" /\ SetTop(f) /\ array' = [array EXCEPT ![Top.dst] = Top.h]
        /\ UNCHANGED <<added, queued, size, cleared, runs, overlapped>>
    BY <1>6 DEF KeepHandler, DestinationOf, TopAt
  <2>2. Top.src \in Nat \ {0} /\ Top.dst \in Nat \ {0} /\ Top.h \in Handlers
    BY <1>0, <2>1, TopIs
  <2>3. array' \in [1 .. Capacity -> Handlers \cup {Sentinel}]
    BY <1>0, <2>1, <2>2 DEF VectorOK
  <2>4. f \in Shapes
    BY <2>2 DEF Shapes, StepShapes
  <2> HIDE DEF f
  <2>5. LoopInv'
    BY <1>0, <2>1, <2>4, SetTopLoops
  <2> QED BY <1>0, <2>1, <2>3, <2>5 DEF VectorOK
<1>7. CASE FinalizerEnds
  <2> DEFINE f == [Top EXCEPT !.at = "test", !.src = @ + 1]
  <2>1. loops # << >> /\ Top.at = "finalizing" /\ SetTop(f)
        /\ UNCHANGED <<added, queued, array, size, cleared, runs, overlapped>>
    BY <1>7 DEF FinalizerEnds, TopAt
  <2>2. Top \in Shapes
    BY <1>0, <2>1, TopIs
  <2>3. f \in Shapes
    BY <2>1, <2>2, Advanced
  <2> HIDE DEF f
  <2>4. LoopInv'
    BY <1>0, <2>1, <2>3, SetTopLoops
  <2> QED BY <1>0, <2>1, <2>4 DEF VectorOK
<1>8. ASSUME NEW S \in SUBSET (1 .. added), LoopEnds(S) PROVE VectorOK' /\ LoopInv'
  <2>1. loops # << >> /\ Top.at = "test" /\ size' = Top.dst - 1 /\ loops' = Tail(loops)
        /\ cleared' = cleared \cup S /\ UNCHANGED <<added, queued, array, runs, overlapped>>
    BY <1>8 DEF LoopEnds, NewSize, TopAt
  <2>2. Top.dst \in Nat \ {0}
    BY <1>0, <2>1, TopIs
  <2>3. size' \in Nat
    BY <2>1, <2>2
  <2>4. LoopInv'
    BY <1>0, <2>1 DEF LoopInv
  <2> QED BY <1>0, <2>1, <2>3, <2>4 DEF VectorOK
<1>9. CASE Fail
  <2> DEFINE f == [at |-> "failed"]
  <2>1. loops' = <<f>> /\ UNCHANGED <<added, queued, array, size, cleared, runs, overlapped>>
    BY <1>9 DEF Fail
  <2>2. f \in Shapes
    BY DEF Shapes
  <2> HIDE DEF f
  <2>3. LoopInv'
    BY <2>1, <2>2 DEF LoopInv
  <2> QED BY <1>0, <2>1, <2>3 DEF VectorOK
<1>10. CASE Failed \/ UNCHANGED vars
  BY <1>0, <1>10 DEF Failed, vars, VectorOK, LoopInv
<1> QED BY <1>1, <1>2, <1>3, <1>4, <1>5, <1>6, <1>7, <1>8, <1>9, <1>10 DEF Next, Notifier, Collection
-----------------------------------------------------------------------------
(* The elements that count are in the Vector, and are handlers.             *)
LEMMA LiveIs ==
  ASSUME VectorOK, LoopInv, PlaceInv, ListedInv
  PROVE  /\ Live \subseteq 1 .. size /\ Live \subseteq DOMAIN array
         /\ \A i \in Live : array[i] \in Handlers
         /\ \A j \in DOMAIN queued : queued[j] \in Handlers
         /\ added \in Nat /\ size \in Nat /\ Len(queued) \in Nat
<1>1. size \in Nat /\ DOMAIN array = 1 .. Capacity /\ size <= Capacity /\ Capacity \in Nat
  BY DEF VectorOK, PlaceInv, Capacity
<1>2. Live \subseteq 1 .. size
  <2>1. CASE loops = << >> \/ Adding(Top)
    BY <2>1 DEF Live
  <2>2. CASE ~(loops = << >> \/ Adding(Top))
    <3>1. Top.at \in {"test", "finalizing", "keeping"}
      BY <2>2, TopIs DEF PlaceInv, Adding
    <3>2. Top.src \in Nat \ {0} /\ Top.dst \in Nat \ {0} /\ Top.dst <= Top.src /\ Top.src <= size + 1
      BY <2>2, <3>1, TopIs DEF PlaceInv, LoopPlace
    <3> QED BY <1>1, <2>2, <3>2 DEF Live, Ahead
  <2> QED BY <2>1, <2>2
<1>3. Live \subseteq DOMAIN array
  BY <1>1, <1>2
<1>4. added \in Nat /\ Len(queued) \in Nat
  BY BoundsAssumption DEF VectorOK, Handlers
<1>5. \A j \in DOMAIN queued : queued[j] \in Handlers
  BY DEF VectorOK
<1> QED BY <1>1, <1>2, <1>3, <1>4, <1>5 DEF ListedInv

(* Without nested notifiers the one that goes on is the only one.           *)
LEMMA OneLoop ==
  ASSUME LoopInv, PlaceInv, loops # << >>, NEW f \in Shapes, SetTop(f)
  PROVE  loops' # << >> /\ Len(loops') <= 1 /\ Top' = f
BY SetTopLoops DEF PlaceInv

(* A finalizer is added for a new object.                                   *)
LEMMA AddStep ==
  ASSUME VectorOK, LoopInv, PlaceInv, OnceInv, ListedInv, AddFinalizer
  PROVE  PlaceInv' /\ OnceInv' /\ ListedInv'
<1>1. UNCHANGED <<array, size, runs, loops>> /\ Live' = Live
  BY DEF AddFinalizer, Live, Top, Ahead, Adding
<1>2. added' = added + 1 /\ added' \in Handlers /\ queued' = Append(queued, added')
  BY DEF AddFinalizer
<1>3. /\ DOMAIN queued' = DOMAIN queued \cup {Len(queued) + 1}
      /\ queued'[Len(queued) + 1] = added + 1 /\ Len(queued) + 1 \notin DOMAIN queued
      /\ \A j \in DOMAIN queued : queued'[j] = queued[j]
  BY <1>2 DEF VectorOK
<1>4. /\ \A i \in Live : array[i] \in Nat /\ array[i] \in Handlers /\ array[i] <= added
      /\ \A j \in DOMAIN queued : queued[j] \in Nat /\ queued[j] <= added
      /\ added \in Nat
  BY LiveIs DEF ListedInv, Handlers
<1>5. PlaceInv'
  <2>1. loops # << >> => ~Adding(Top)
    BY DEF AddFinalizer, TopAt, Adding
  <2> QED BY <1>1, <2>1 DEF PlaceInv, LoopPlace, Top, Adding
<1>6. OnceInv'
  BY <1>1, <1>3, <1>4 DEF OnceInv
<1>7. ListedInv'
  <2>1. \A i \in Live' : array'[i] \in Handlers /\ array'[i] <= added' /\ runs'[array'[i]] = 0
    BY <1>1, <1>2, <1>4 DEF ListedInv
  <2>2. runs'[added'] = 0
    BY <1>1, <1>2, <1>4 DEF ListedInv
  <2>3. \A j \in DOMAIN queued' : queued'[j] <= added' /\ runs'[queued'[j]] = 0
    BY <1>1, <1>2, <1>3, <1>4, <2>2 DEF ListedInv
  <2>4. \A h \in Handlers : h > added' => runs'[h] = 0
    BY <1>1, <1>2, <1>4 DEF ListedInv, Handlers
  <2>5. ASSUME NEW h \in Handlers, h <= added', runs'[h] = 0
        PROVE  (\E i \in Live' : array'[i] = h) \/ (\E j \in DOMAIN queued' : queued'[j] = h)
    <3>1. CASE h = added + 1
      BY <1>3, <3>1
    <3>2. CASE h # added + 1
      <4>1. h <= added /\ runs[h] = 0
        BY <1>1, <1>2, <1>4, <2>5, <3>2 DEF Handlers
      <4>2. (\E i \in Live : array[i] = h) \/ (\E j \in DOMAIN queued : queued[j] = h)
        BY <4>1 DEF ListedInv
      <4> QED BY <1>1, <1>3, <4>2
    <3> QED BY <3>1, <3>2
  <2>6. RunsOnce'
    BY <1>1 DEF ListedInv, RunsOnce
  <2> QED BY <2>1, <2>3, <2>4, <2>5, <2>6 DEF ListedInv
<1> QED BY <1>5, <1>6, <1>7

(* A collection that begins outside of a notifier: add-all begins.          *)
LEMMA CollectStep ==
  ASSUME VectorOK, LoopInv, PlaceInv, OnceInv, ListedInv, NEW S, Collect(S), loops = << >>
  PROVE  PlaceInv' /\ OnceInv' /\ ListedInv'
<1> DEFINE l == [at |-> "adding", n |-> Len(queued), start |-> size]
<1>1. /\ loops' = <<l>> /\ size + Len(queued) <= Capacity
      /\ UNCHANGED <<added, queued, array, size, runs>>
  BY DEF Collect
<1>2. loops' # << >> /\ Len(loops') = 1 /\ Top' = l
  BY <1>1 DEF Top
<1>3. Live = 1 .. size /\ Live' = 1 .. size
  BY <1>1, <1>2 DEF Live, Adding
<1>4. size \in Nat /\ Len(queued) \in Nat
  BY LiveIs
<1>5. PlaceInv'
  BY <1>1, <1>2, <1>4 DEF PlaceInv, AddPlace, Adding
<1> QED BY <1>1, <1>3, <1>5 DEF OnceInv, ListedInv, RunsOnce

(* add-all makes its sequence.                                              *)
LEMMA SequenceStep ==
  ASSUME VectorOK, LoopInv, PlaceInv, OnceInv, ListedInv, MakeSequence
  PROVE  PlaceInv' /\ OnceInv' /\ ListedInv'
<1> DEFINE f == [at |-> "copying", n |-> Top.n, start |-> Top.start, length |-> Len(queued)]
<1>1. loops # << >> /\ Top.at = "adding" /\ SetTop(f) /\ UNCHANGED <<added, queued, array, size, runs>>
  BY DEF MakeSequence, TopAt
<1>2. f \in Shapes
  BY <1>1, TopIs DEF Shapes, AddShapes, VectorOK, Adding
<1>3. f.at = "copying" /\ f.n = Top.n /\ f.start = Top.start /\ f.length = Len(queued)
  OBVIOUS
<1> HIDE DEF f
<1>4. loops' # << >> /\ Len(loops') <= 1 /\ Top' = f
  BY <1>1, <1>2, OneLoop
<1>5. Live' = Live
  BY <1>1, <1>3, <1>4 DEF Live, Adding
<1>6. PlaceInv'
  <2>1. AddPlace
    BY <1>1 DEF PlaceInv, Adding
  <2> QED BY <1>1, <1>3, <1>4, <2>1 DEF PlaceInv, AddPlace, Adding
<1> QED BY <1>1, <1>5, <1>6 DEF OnceInv, ListedInv, RunsOnce

(* The queued handlers are put behind the others.                           *)
LEMMA AddAllStep ==
  ASSUME VectorOK, LoopInv, PlaceInv, OnceInv, ListedInv, AddAll
  PROVE  PlaceInv' /\ OnceInv' /\ ListedInv'
<1> DEFINE l == [at |-> "test", src |-> 1, dst |-> 1]
           n == Len(queued)
<1>1. loops # << >> /\ Top.at = "copying" /\ SetTop(l)
      /\ array' = [i \in 1 .. Capacity |-> IF i \in Top.start + 1 .. Top.start + Top.n
                                           THEN queued[i - Top.start] ELSE array[i]]
      /\ size' = size + Top.n /\ queued' = << >> /\ UNCHANGED <<added, runs>>
  BY DEF AddAll, TopAt, ClearQueued
<1>2. Top.n = n /\ Top.start = size /\ n + size <= Capacity
  BY <1>1 DEF PlaceInv, AddPlace, Adding
<1>3. l \in Shapes /\ l.at = "test" /\ l.src = 1 /\ l.dst = 1
  BY DEF Shapes, StepShapes
<1> HIDE DEF l
<1>4. loops' # << >> /\ Len(loops') <= 1 /\ Top' = l
  BY <1>1, <1>3, OneLoop
<1>5. size \in Nat /\ n \in Nat /\ added \in Nat /\ Capacity \in Nat
  BY LiveIs DEF Capacity
<1>6. DOMAIN queued = 1 .. n
  BY DEF VectorOK
<1>7. size' = size + n /\ array' = [i \in 1 .. Capacity |-> IF i \in size + 1 .. size + n
                                                            THEN queued[i - size] ELSE array[i]]
  BY <1>1, <1>2
<1> HIDE DEF n
<1>8. Live = 1 .. size /\ Live' = 1 .. size'
  <2>1. Live = 1 .. size
    BY <1>1 DEF Live, Adding
  <2>2. Live' = 1 .. l.dst - 1 \cup l.src .. size'
    <3>1. l.at \notin {"adding", "copying"} /\ l.at # "finalizing"
      BY <1>3
    <3> QED BY <1>4, <3>1 DEF Live, Ahead, Adding
  <2>3. 1 .. l.dst - 1 = {} /\ l.src .. size' = 1 .. size'
    BY <1>3
  <2> QED BY <2>1, <2>2, <2>3
<1>9. \A i \in Live : array'[i] = array[i]
  BY <1>2, <1>5, <1>7, <1>8
<1>10. \A i \in size + 1 .. size' : i - size \in DOMAIN queued /\ array'[i] = queued[i - size]
  BY <1>2, <1>5, <1>6, <1>7
<1>11. \A i \in Live' : i \in Live \/ i \in size + 1 .. size'
  BY <1>5, <1>7, <1>8
<1>12. ASSUME NEW j \in DOMAIN queued
       PROVE  j + size \in Live' /\ array'[j + size] = queued[j]
  <2>1. j + size \in size + 1 .. size' /\ j + size \in 1 .. size' /\ (j + size) - size = j
    BY <1>5, <1>6, <1>7
  <2>2. array'[j + size] = queued[(j + size) - size]
    BY <1>10, <2>1
  <2> QED BY <1>8, <2>1, <2>2
<1>13. PlaceInv'
  <2>1. size' <= Capacity /\ 1 <= size' + 1
    BY <1>2, <1>5, <1>7
  <2> QED BY <1>3, <1>4, <2>1 DEF PlaceInv, LoopPlace, Adding
<1>14. OnceInv'
  <2>1. DOMAIN queued' = {}
    BY <1>1
  <2>2. ASSUME NEW i \in Live', NEW j \in Live', array'[i] = array'[j] PROVE i = j
    <3>1. CASE i \in Live /\ j \in Live
      BY <1>9, <2>2, <3>1 DEF OnceInv
    <3>2. CASE i \in size + 1 .. size' /\ j \in size + 1 .. size'
      <4>1. i - size = j - size
        BY <1>10, <2>2, <3>2 DEF OnceInv
      <4> QED BY <1>5, <1>7, <3>2, <4>1
    <3>3. CASE i \in Live /\ j \in size + 1 .. size'
      BY <1>9, <1>10, <2>2, <3>3 DEF OnceInv
    <3>4. CASE i \in size + 1 .. size' /\ j \in Live
      BY <1>9, <1>10, <2>2, <3>4 DEF OnceInv
    <3> QED BY <1>11, <3>1, <3>2, <3>3, <3>4
  <2> QED BY <2>1, <2>2 DEF OnceInv
<1>15. ListedInv'
  <2>1. DOMAIN queued' = {}
    BY <1>1
  <2>2. \A i \in Live' : array'[i] \in Handlers /\ array'[i] <= added' /\ runs'[array'[i]] = 0
    <3>1. \A j \in DOMAIN queued : queued[j] \in Handlers
      BY LiveIs
    <3>2. \A i \in Live : array'[i] \in Handlers /\ array'[i] <= added' /\ runs'[array'[i]] = 0
      BY <1>1, <1>9 DEF ListedInv
    <3>3. \A i \in size + 1 .. size' :
            array'[i] \in Handlers /\ array'[i] <= added' /\ runs'[array'[i]] = 0
      <4> SUFFICES ASSUME NEW i \in size + 1 .. size'
                   PROVE  array'[i] \in Handlers /\ array'[i] <= added' /\ runs'[array'[i]] = 0
        OBVIOUS
      <4>1. i - size \in DOMAIN queued /\ array'[i] = queued[i - size]
        BY <1>10
      <4>2. queued[i - size] \in Handlers /\ queued[i - size] <= added /\ runs[queued[i - size]] = 0
        BY <3>1, <4>1 DEF ListedInv
      <4> QED BY <1>1, <4>1, <4>2
    <3> QED BY <1>11, <3>2, <3>3
  <2>3. \A h \in Handlers : h > added' => runs'[h] = 0
    BY <1>1 DEF ListedInv
  <2>4. ASSUME NEW h \in Handlers, h <= added', runs'[h] = 0 PROVE \E i \in Live' : array'[i] = h
    <3>1. CASE \E i \in Live : array[i] = h
      <4>1. Live \subseteq Live'
        BY <1>5, <1>7, <1>8
      <4> QED BY <1>9, <3>1, <4>1
    <3>2. CASE \E j \in DOMAIN queued : queued[j] = h
      BY <1>12, <3>2
    <3> QED BY <1>1, <2>4, <3>1, <3>2 DEF ListedInv
  <2>5. RunsOnce'
    BY <1>1 DEF ListedInv, RunsOnce
  <2> QED BY <2>1, <2>2, <2>3, <2>4, <2>5 DEF ListedInv
<1> QED BY <1>13, <1>14, <1>15

(* The handler at src is run, and is not listed any more; or it is kept.    *)
LEMMA TestStep ==
  ASSUME VectorOK, LoopInv, PlaceInv, OnceInv, ListedInv, TestHandler
  PROVE  PlaceInv' /\ OnceInv' /\ ListedInv'
<1> DEFINE h == array[Top.src]
           f == [Top EXCEPT !.at = "finalizing"]
           g == [at |-> "keeping", src |-> Top.src, dst |-> Top.dst, h |-> h]
<1>1. loops # << >> /\ Top.at = "test" /\ Top.src <= size /\ UNCHANGED <<added, queued, array, size>>
  BY DEF TestHandler, TopAt
<1>2. Top \in StepShapes /\ Top.src \in Nat \ {0} /\ Top.dst \in Nat \ {0} /\ Top.dst <= Top.src
      /\ size <= Capacity
  BY <1>1, TopIs DEF PlaceInv, LoopPlace, Adding
<1>3. size \in Nat /\ Live = 1 .. Top.dst - 1 \cup Top.src .. size
  BY <1>1, LiveIs DEF Live, Ahead, Adding
<1>4. Top.src \in Live /\ h \in Handlers /\ runs[h] = 0 /\ h <= added
  BY <1>1, <1>2, <1>3, LiveIs DEF ListedInv
<1>5. CASE Expired(h)
  <2>1. SetTop(f) /\ runs' = [runs EXCEPT ![h] = @ + 1]
    BY <1>5 DEF TestHandler
  <2>2. f \in Shapes /\ f.src = Top.src /\ f.dst = Top.dst
    BY <1>2 DEF Shapes, StepShapes
  <2>3. f.at = "finalizing"
    BY <1>2 DEF StepShapes
  <2> HIDE DEF f
  <2>4. loops' # << >> /\ Len(loops') <= 1 /\ Top' = f
    BY <1>1, <2>1, <2>2, OneLoop
  <2>5. Live' = 1 .. Top.dst - 1 \cup Top.src + 1 .. size
    BY <1>1, <2>2, <2>3, <2>4 DEF Live, Ahead, Adding
  <2>6. Live' = Live \ {Top.src}
    BY <1>2, <1>3, <2>5
  <2>7. runs'[h] = 1 /\ \A k \in Handlers : k # h => runs'[k] = runs[k]
    BY <1>4, <2>1 DEF VectorOK
  <2>8. PlaceInv'
    <3>1. Top.src <= size + 1
      BY <1>1, <1>2, <1>3
    <3> QED BY <1>1, <1>2, <2>2, <2>3, <2>4, <3>1 DEF PlaceInv, LoopPlace, Adding
  <2>9. OnceInv'
    BY <1>1, <2>6 DEF OnceInv
  <2>10. ListedInv'
    <3>1. \A i \in Live' : array[i] # h /\ array[i] \in Handlers
      BY <1>4, <2>6, LiveIs DEF OnceInv
    <3>2. \A j \in DOMAIN queued : queued[j] # h /\ queued[j] \in Handlers
      BY <1>4, LiveIs DEF OnceInv
    <3>3. \A i \in Live' : array'[i] \in Handlers /\ array'[i] <= added' /\ runs'[array'[i]] = 0
      BY <1>1, <2>6, <2>7, <3>1 DEF ListedInv
    <3>4. \A j \in DOMAIN queued' : queued'[j] <= added' /\ runs'[queued'[j]] = 0
      BY <1>1, <2>7, <3>2 DEF ListedInv
    <3>5. added \in Nat /\ h \in Nat
      BY <1>4, LiveIs DEF Handlers
    <3>6. \A k \in Handlers : k > added' => runs'[k] = 0
      BY <1>1, <1>4, <2>7, <3>5 DEF ListedInv
    <3>7. ASSUME NEW k \in Handlers, k <= added', runs'[k] = 0
          PROVE  (\E i \in Live' : array'[i] = k) \/ (\E j \in DOMAIN queued' : queued'[j] = k)
      <4>1. k # h /\ runs[k] = 0
        BY <2>7, <3>7
      <4>2. (\E i \in Live : array[i] = k) \/ (\E j \in DOMAIN queued : queued[j] = k)
        BY <1>1, <3>7, <4>1 DEF ListedInv
      <4> QED BY <1>1, <2>6, <4>1, <4>2
    <3>8. RunsOnce'
      BY <2>7 DEF ListedInv, RunsOnce
    <3> QED BY <3>3, <3>4, <3>6, <3>7, <3>8 DEF ListedInv
  <2> QED BY <2>8, <2>9, <2>10
<1>6. CASE ~Expired(h)
  <2>1. SetTop(g) /\ UNCHANGED runs
    BY <1>6 DEF TestHandler
  <2>2. g \in Shapes /\ g.src = Top.src /\ g.dst = Top.dst /\ g.at = "keeping" /\ g.h = h
    BY <1>2, <1>4 DEF Shapes, KeepShapes
  <2> HIDE DEF g
  <2>3. loops' # << >> /\ Len(loops') <= 1 /\ Top' = g
    BY <1>1, <2>1, <2>2, OneLoop
  <2>4. Live' = Live
    BY <1>1, <1>3, <2>2, <2>3 DEF Live, Ahead, Adding
  <2>5. PlaceInv'
    <3>1. Top.src <= size + 1
      BY <1>1, <1>2, <1>3
    <3> QED BY <1>1, <1>2, <2>2, <2>3, <3>1 DEF PlaceInv, LoopPlace, Adding
  <2> QED BY <1>1, <2>1, <2>4, <2>5 DEF OnceInv, ListedInv, RunsOnce
<1> QED BY <1>5, <1>6

(* The handler in hand moves down, to a place that is not listed.           *)
LEMMA KeepStep ==
  ASSUME VectorOK, LoopInv, PlaceInv, OnceInv, ListedInv, KeepHandler
  PROVE  PlaceInv' /\ OnceInv' /\ ListedInv'
<1> DEFINE f == [at |-> "test", src |-> Top.src + 1, dst |-> Top.dst + 1]
           s == Top.src
           d == Top.dst
<1>1. loops # << >> /\ Top.at = "keeping" /\ SetTop(f) /\ array' = [array EXCEPT ![d] = Top.h]
      /\ UNCHANGED <<added, queued, size, runs>>
  BY DEF KeepHandler, DestinationOf, TopAt
<1>2. s \in Nat \ {0} /\ d \in Nat \ {0} /\ d <= s /\ s <= size /\ Top.h = array[s] /\ size <= Capacity
  BY <1>1, TopIs DEF PlaceInv, LoopPlace, Adding
<1>3. f \in Shapes /\ f.src = s + 1 /\ f.dst = d + 1 /\ f.at = "test"
  BY <1>2 DEF Shapes, StepShapes
<1> HIDE DEF f
<1>4. loops' # << >> /\ Len(loops') <= 1 /\ Top' = f
  BY <1>1, <1>3, OneLoop
<1>5. size \in Nat /\ Live = 1 .. d - 1 \cup s .. size
  BY <1>1, LiveIs DEF Live, Ahead, Adding
<1>6. Live' = 1 .. d \cup s + 1 .. size
  <2>1. (d + 1) - 1 = d
    BY <1>2
  <2> QED BY <1>1, <1>3, <1>4, <2>1 DEF Live, Ahead, Adding
<1>7. s \in Live /\ d \in Live' /\ Live' = (Live \ {s}) \cup {d} /\ (d # s => d \notin Live)
  BY <1>2, <1>5, <1>6
<1>8. array'[d] = array[s] /\ \A i \in Live' : i # d => i \in Live /\ i # s /\ array'[i] = array[i]
  <2>1. d \in DOMAIN array
    <3>1. size \in Nat /\ Capacity \in Nat /\ DOMAIN array = 1 .. Capacity
      BY DEF VectorOK, Capacity
    <3> QED BY <1>2, <3>1
  <2>2. \A i \in DOMAIN array : i # d => array'[i] = array[i]
    BY <1>1
  <2>3. \A i \in Live' : i \in DOMAIN array
    <3>1. Capacity \in Nat /\ DOMAIN array = 1 .. Capacity
      BY DEF VectorOK, Capacity
    <3> QED BY <1>2, <1>5, <1>6, <3>1
  <2>4. \A i \in Live' : i # d => i \in Live /\ i # s
    BY <1>2, <1>5, <1>6
  <2> QED BY <1>1, <1>2, <2>1, <2>2, <2>3, <2>4
<1> HIDE DEF s, d
<1>9. PlaceInv'
  <2>1. s + 1 <= size + 1 /\ d + 1 <= s + 1
    BY <1>2, <1>5
  <2> QED BY <1>1, <1>2, <1>3, <1>4, <2>1 DEF PlaceInv, LoopPlace, Adding
<1>10. OnceInv'
  <2>1. ASSUME NEW i \in Live', NEW j \in Live', array'[i] = array'[j] PROVE i = j
    BY <1>7, <1>8, <2>1 DEF OnceInv
  <2>2. ASSUME NEW i \in Live', NEW j \in DOMAIN queued PROVE array'[i] # queued[j]
    BY <1>7, <1>8, <2>2 DEF OnceInv
  <2> QED BY <1>1, <2>1, <2>2 DEF OnceInv
<1>11. ListedInv'
  <2>1. \A i \in Live' : array'[i] \in Handlers /\ array'[i] <= added' /\ runs'[array'[i]] = 0
    BY <1>1, <1>7, <1>8 DEF ListedInv
  <2>2. ASSUME NEW h \in Handlers, h <= added', runs'[h] = 0
        PROVE  (\E i \in Live' : array'[i] = h) \/ (\E j \in DOMAIN queued' : queued'[j] = h)
    <3>1. (\E i \in Live : array[i] = h) \/ (\E j \in DOMAIN queued : queued[j] = h)
      BY <1>1, <2>2 DEF ListedInv
    <3>2. ASSUME NEW i \in Live, array[i] = h PROVE \E k \in Live' : array'[k] = h
      <4>1. CASE i = s
        BY <1>7, <1>8, <3>2, <4>1
      <4>2. CASE i # s
        <5>1. i \in Live' /\ i # d
          BY <1>7, <3>2, <4>2
        <5> QED BY <1>8, <3>2, <5>1
      <4> QED BY <4>1, <4>2
    <3> QED BY <1>1, <3>1, <3>2
  <2> QED BY <1>1, <2>1, <2>2 DEF ListedInv, RunsOnce
<1> QED BY <1>9, <1>10, <1>11

(* After its finalizer the loop goes on behind the handler.                 *)
LEMMA EndStep ==
  ASSUME VectorOK, LoopInv, PlaceInv, OnceInv, ListedInv, FinalizerEnds
  PROVE  PlaceInv' /\ OnceInv' /\ ListedInv'
<1> DEFINE f == [Top EXCEPT !.at = "test", !.src = @ + 1]
<1>1. loops # << >> /\ Top.at = "finalizing" /\ SetTop(f) /\ UNCHANGED <<added, queued, array, size, runs>>
  BY DEF FinalizerEnds, TopAt
<1>2. Top.src \in Nat \ {0} /\ Top.dst \in Nat \ {0} /\ Top.dst <= Top.src /\ Top.src <= size /\ size <= Capacity
  BY <1>1, TopIs DEF PlaceInv, LoopPlace, Adding
<1>3. f \in Shapes /\ f.src = Top.src + 1 /\ f.dst = Top.dst /\ f.at = "test"
  BY <1>1, TopIs, Advanced
<1> HIDE DEF f
<1>4. loops' # << >> /\ Len(loops') <= 1 /\ Top' = f
  BY <1>1, <1>3, OneLoop
<1>5. Live' = Live
  BY <1>1, <1>3, <1>4 DEF Live, Ahead, Adding
<1>6. PlaceInv'
  <2>1. size \in Nat
    BY LiveIs
  <2>2. Top.src + 1 <= size + 1 /\ Top.dst <= Top.src + 1
    BY <1>2, <2>1
  <2> QED BY <1>1, <1>2, <1>3, <1>4, <2>2 DEF PlaceInv, LoopPlace, Adding
<1> QED BY <1>1, <1>5, <1>6 DEF OnceInv, ListedInv, RunsOnce

(* At the end of the loop the Vector is cut off behind what was kept.       *)
LEMMA LoopEndsStep ==
  ASSUME VectorOK, LoopInv, PlaceInv, OnceInv, ListedInv, NEW S, LoopEnds(S)
  PROVE  PlaceInv' /\ OnceInv' /\ ListedInv'
<1>1. loops # << >> /\ Top.at = "test" /\ Top.src > size /\ size' = Top.dst - 1 /\ loops' = Tail(loops)
      /\ UNCHANGED <<added, queued, array, runs>>
  BY DEF LoopEnds, NewSize, TopAt
<1>2. Top.src \in Nat \ {0} /\ Top.dst \in Nat \ {0} /\ size \in Nat
      /\ Top.dst <= Top.src /\ Top.src <= size + 1 /\ size <= Capacity
  BY <1>1, TopIs, LiveIs DEF PlaceInv, LoopPlace, Adding
<1>3. loops \in Seq(Shapes) /\ Len(loops) = 1
  <2>1. loops \in Seq(Shapes)
    BY DEF LoopInv
  <2>2. Len(loops) \in Nat /\ Len(loops) # 0
    BY <1>1, <2>1
  <2>3. Len(loops) <= 1
    BY DEF PlaceInv
  <2>4. \A n \in Nat : n # 0 /\ n <= 1 => n = 1
    OBVIOUS
  <2>5. Len(loops) = 1
    BY <2>2, <2>3, <2>4, Zenon
  <2> QED BY <2>1, <2>5
<1>4. loops' = << >> /\ Len(loops') = 0
  BY <1>1, <1>3
<1>5. Live = 1 .. Top.dst - 1
  BY <1>1, <1>2 DEF Live, Ahead, Adding
<1>6. Live' = Live
  BY <1>1, <1>4, <1>5 DEF Live
<1>7. size' <= Capacity
  BY <1>1, <1>2 DEF Capacity
<1>8. PlaceInv'
  BY <1>4, <1>7 DEF PlaceInv
<1> QED BY <1>1, <1>6, <1>8 DEF OnceInv, ListedInv, RunsOnce

(* No element is missing, and none that is tested was never set.            *)
LEMMA NoFailure ==
  ASSUME VectorOK, LoopInv, PlaceInv, ListedInv, loops # << >>
  PROVE  Defined(Top) /\ Top.at # "failed"
<1>1. Top.at # "failed"
  BY DEF PlaceInv
<1>2. CASE Top.at = "copying"
  <2>1. Top.n = Len(queued) /\ Top.length = Len(queued) /\ Len(queued) \in Nat
    BY <1>2, LiveIs DEF PlaceInv, AddPlace, Adding
  <2> QED BY <1>1, <1>2, <2>1 DEF Defined
<1>3. CASE Top.at = "test" /\ Top.src <= size
  <2>1. Top.src \in Nat \ {0} /\ size \in Nat
    BY <1>3, TopIs, LiveIs
  <2>2. Top.src \in Live
    BY <1>3, <2>1 DEF Live, Ahead, Adding
  <2>3. Top.src \in DOMAIN array /\ array[Top.src] \in Handlers
    BY <2>2, LiveIs
  <2> QED BY <1>1, <1>3, <2>3, BoundsAssumption DEF Defined
<1>4. CASE Top.at # "copying" /\ ~(Top.at = "test" /\ Top.src <= size)
  BY <1>1, <1>4 DEF Defined
<1> QED BY <1>2, <1>3, <1>4

(* Every step keeps the account of the handlers, unless collections nest.   *)
LEMMA AccountStep ==
  ASSUME IInv, [Next]_vars
  PROVE  AccountInv'
<1> SUFFICES ASSUME ~overlapped' PROVE PlaceInv' /\ OnceInv' /\ ListedInv'
  BY DEF AccountInv
<1>1. ~overlapped
  BY DEF Next, Notifier, Collection, AddFinalizer, Collect, MakeSequence, AddAll, TestHandler, KeepHandler,
         FinalizerEnds, LoopEnds, Fail, Failed, vars
<1>2. VectorOK /\ LoopInv /\ PlaceInv /\ OnceInv /\ ListedInv
  BY <1>1, VectorTypes DEF IInv, AccountInv
<1>3. CASE AddFinalizer
  BY <1>2, <1>3, AddStep
<1>4. ASSUME NEW S \in SUBSET (1 .. added), Collect(S) PROVE PlaceInv' /\ OnceInv' /\ ListedInv'
  <2>1. loops = << >>
    BY <1>4 DEF Collect
  <2> QED BY <1>2, <1>4, <2>1, CollectStep
<1>5. CASE MakeSequence
  BY <1>2, <1>5, SequenceStep
<1>6. CASE AddAll
  BY <1>2, <1>6, AddAllStep
<1>7. CASE TestHandler
  BY <1>2, <1>7, TestStep
<1>8. CASE KeepHandler
  BY <1>2, <1>8, KeepStep
<1>9. CASE FinalizerEnds
  BY <1>2, <1>9, EndStep
<1>10. ASSUME NEW S \in SUBSET (1 .. added), LoopEnds(S) PROVE PlaceInv' /\ OnceInv' /\ ListedInv'
  BY <1>2, <1>10, LoopEndsStep
<1>11. ~Fail
  BY <1>2, NoFailure DEF Fail
<1>12. CASE Failed \/ UNCHANGED vars
  <2>1. UNCHANGED vars
    BY <1>12 DEF Failed
  <2> QED BY <1>2, <2>1 DEF vars, PlaceInv, AddPlace, LoopPlace, OnceInv, ListedInv, RunsOnce, Live, Top, Ahead, Adding
<1> QED BY <1>3, <1>4, <1>5, <1>6, <1>7, <1>8, <1>9, <1>10, <1>11, <1>12 DEF Next, Notifier, Collection

(* The invariant holds, for all objects that the first array holds and any  *)
(* depth; of nested notifiers it says the types only.                       *)
THEOREM FinalizersInvariant == Spec => []IInv
<1>1. ASSUME Init PROVE IInv
  <2>1. LoopInv
    BY <1>1 DEF Init, LoopInv
  <2>2. VectorOK
    <3>1. << >> \in Seq(Handlers) /\ 0 \in Nat
      OBVIOUS
    <3>2. overlapped \in BOOLEAN /\ runs \in [Handlers -> Nat]
      BY <1>1 DEF Init
    <3> QED BY <1>1, <3>1, <3>2 DEF Init, VectorOK
  <2>3. Live = {} /\ DOMAIN queued = {}
    BY <1>1 DEF Init, Live
  <2>4. PlaceInv /\ OnceInv
    BY <1>1, <2>3 DEF Init, PlaceInv, OnceInv, Capacity
  <2>5. ListedInv
    BY <1>1, <2>3, BoundsAssumption DEF Init, ListedInv, RunsOnce, Handlers
  <2> QED BY <1>1, <2>1, <2>2, <2>4, <2>5, VectorTypes DEF Init, IInv, AccountInv
<1>2. IInv /\ [Next]_vars => IInv'
  BY TypeStep, AccountStep DEF IInv
<1> QED BY <1>1, <1>2, PTL DEF Spec

(* A place that is the only one is one place.                               *)
LEMMA OnePlace ==
  ASSUME NEW D, NEW s, NEW h, \A i, j \in D : s[i] = s[j] => i = j
  PROVE  Cardinality({i \in D : s[i] = h}) = IF \E i \in D : s[i] = h THEN 1 ELSE 0
<1>1. ASSUME NEW k \in D, s[k] = h PROVE {i \in D : s[i] = h} = {k}
  BY <1>1
<1>2. ASSUME ~\E i \in D : s[i] = h PROVE {i \in D : s[i] = h} = {}
  BY <1>2
<1> QED BY <1>1, <1>2, FS_EmptySet, FS_Singleton

(* While no collection has begun inside a notifier no finalizer runs twice, *)
(* the program does not end in add-all or remove-when, and between          *)
(* notifiers every handler is at exactly one place of the Vector or the     *)
(* queue until it is run.  (Afterwards a handler may be lost or run twice:  *)
(* the statement excepts it.)                                               *)
THEOREM FinalizersWellFormed == Spec => []WellFormed
<1>1. ASSUME IInv PROVE WellFormed
  <2>1. RunsOnceApart
    BY <1>1 DEF IInv, AccountInv, ListedInv, RunsOnceApart
  <2>2. ListedOnce
    <3> SUFFICES ASSUME ~overlapped, loops = << >>, NEW h \in 1 .. added
                 PROVE  Occurrences(h) = (IF runs[h] = 0 THEN 1 ELSE 0)
      BY DEF ListedOnce
    <3>1. OnceInv /\ ListedInv /\ Live = 1 .. size /\ TypeOK
      BY <1>1 DEF IInv, AccountInv, Live
    <3> DEFINE InVector == \E i \in 1 .. size : array[i] = h
               InQueue  == \E j \in DOMAIN queued : queued[j] = h
    <3>2. Cardinality({i \in 1 .. size : array[i] = h}) = IF InVector THEN 1 ELSE 0
      <4>1. \A i, j \in 1 .. size : array[i] = array[j] => i = j
        BY <3>1 DEF OnceInv
      <4> QED BY <4>1, OnePlace
    <3>3. Cardinality({j \in DOMAIN queued : queued[j] = h}) = IF InQueue THEN 1 ELSE 0
      <4>1. \A i, j \in DOMAIN queued : queued[i] = queued[j] => i = j
        BY <3>1 DEF OnceInv
      <4> QED BY <4>1, OnePlace
    <3>4. ~(InVector /\ InQueue)
      BY <3>1 DEF OnceInv
    <3>5. h \in Handlers /\ h <= added
      BY <3>1, BoundsAssumption DEF TypeOK, Handlers
    <3>6. runs[h] = 0 <=> InVector \/ InQueue
      BY <3>1, <3>5 DEF ListedInv
    <3> HIDE DEF InVector, InQueue
    <3> QED BY <3>2, <3>3, <3>4, <3>6 DEF Occurrences
  <2>3. FailsApart
    <3> SUFFICES ASSUME ~overlapped, loops # << >> PROVE Top.at # "failed"
      BY DEF FailsApart, TopAt
    <3> QED BY <1>1 DEF IInv, AccountInv, PlaceInv
  <2> QED BY <1>1, <2>1, <2>2, <2>3 DEF IInv, WellFormed
<1> QED BY <1>1, FinalizersInvariant, PTL
=============================================================================
