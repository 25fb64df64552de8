--------------------------- MODULE MCMarkCompact ---------------------------
(* Two families of heaps.  Plain: four objects of one to three words        *)
(* (7 to 10), in every order, with and without the two unused words that a  *)
(* reserved to-space leaves between old objects and nursery when a partial  *)
(* collection is skipped.  Listed: two stacks (2, 3), two trackers (4, 6),  *)
(* an ordinary object (1) and a Unique (5), the stacks and the trackers     *)
(* linked in every order that leaves only live stacks on the list.          *)
EXTENDS MarkCompact, TLC

MCTags == 1 .. 10
MCObjectSize == <<2, 2, 2, 3, 1, 3, 2, 3, 1, 2>>
MCRefSlots == <<{1}, {}, {}, {}, {}, {}, {1}, {1, 2}, {}, {1}>>
MCStacks == {2, 3}
MCTrackers == {4, 6}
MCFrameCells == 2 :> {-2} @@ 3 :> {-3}
MCRootCells == {-1, -6}
MCStacksHead == -4
MCTrackersHead == -5

Gap == 0
Words(x) == IF x = Gap THEN 2 ELSE MCObjectSize[x]
AddressIn(order, t) ==
  LET i == CHOOSE i \in DOMAIN order : order[i] = t
  IN  FoldLeft(LAMBDA n, x : n + Words(x), 0, SubSeq(order, 1, i - 1))
RefTo(order, t) == IF t = 0 THEN Imm(5) ELSE Ref(AddressIn(order, t))
Junk == [k |-> "junk", v |-> 0, off |-> 0]

(* The objects of order with their fields, the words outside the heap, and  *)
(* the tags on the two lists.                                               *)
HeapOf(order, fields, outside, stacks, trackers) ==
  LET wordsOf(x) == IF x = Gap THEN <<Junk, Junk>> ELSE <<Hdr(x, 0)>> \o fields[x]
      words == FlattenSeq([i \in DOMAIN order |-> wordsOf(order[i])])
  IN  [mem |-> [c \in -6 .. Len(words) - 1 |-> IF c >= 0 THEN words[c + 1] ELSE outside[-c]],
       top |-> Len(words),
       stacks |-> [i \in DOMAIN stacks |-> AddressIn(order, stacks[i])],
       trackers |-> [i \in DOMAIN trackers |-> AddressIn(order, trackers[i])]]

PlainHeap(order, a, b, c, d, root1, root2) ==
  LET to(t) == RefTo(order, t) IN
  HeapOf(order, 7 :> <<to(a)>> @@ 8 :> <<to(b), to(c)>> @@ 9 :> << >> @@ 10 :> <<to(d)>>,
         <<to(root1), Imm(5), Imm(5), Ptr(Null), Ptr(Null), to(root2)>>, << >>, << >>)

PlainOrders ==
  LET perms == {f \in [1 .. 4 -> 7 .. 10] : \A i, j \in 1 .. 4 : f[i] = f[j] => i = j} IN
  perms \cup {<<f[1], f[2], Gap, f[3], f[4]>> : f \in {f \in perms : f[1] < f[2]}}

LinkTo(order, list, t) ==      \* the tail word of t in list; the head of the list for t = 0
  LET after == IF t \notin Range(list) THEN list
               ELSE SubSeq(list, 1 + CHOOSE i \in DOMAIN list : list[i] = t, Len(list)) IN
  IF (t # 0 /\ t \notin Range(list)) \/ after = << >> THEN Ptr(Null)
  ELSE Ptr(AddressIn(order, Head(after)) + 1)

ListedHeap(order, stacks, trackers, a, b, c, w) ==
  LET to(t) == RefTo(order, t)
      link(t) == LinkTo(order, stacks, t)
      tlink(t) == LinkTo(order, trackers, t) IN
  HeapOf(order, 1 :> <<to(a)>> @@ 2 :> <<link(2)>> @@ 3 :> <<link(3)>> @@ 5 :> << >>
                  @@ 4 :> <<to(5), tlink(4)>> @@ 6 :> <<to(w), tlink(6)>>,
         <<to(2), to(b), to(c), link(0), tlink(0), Imm(5)>>,      \* 2: the current stack
         stacks, trackers)

Rotations(s) == {[i \in 1 .. Len(s) |-> s[((i + r) % Len(s)) + 1]] : r \in 0 .. Len(s) - 1}
ListedOrders ==
  Rotations(<<1, 2, 3, 4, 5, 6>>) \cup Rotations(<<6, 4, 2, 5, 3, 1>>) \cup Rotations(<<3, 6, 1, 5, 2, 4>>)

MCInitialHeaps ==
  {PlainHeap(o, a, b, c, d, r, q) :
     o \in PlainOrders, a \in {0} \cup 7 .. 10, b \in {9, 10}, c \in {0, 7, 8}, d \in {0, 8, 9},
     r \in {7, 8}, q \in {0, 9}}
  \cup
  {ListedHeap(o, s, t, a, b, c, w) :
     o \in ListedOrders, s \in {<<2>>, <<2, 3>>, <<3, 2>>}, t \in {<<4, 6>>, <<6, 4>>},
     a \in {0, 3, 5}, b \in {1, 4}, c \in {0, 4, 6}, w \in {1, 5}}
=============================================================================
