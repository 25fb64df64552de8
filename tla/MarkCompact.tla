---------------------------- MODULE MarkCompact ----------------------------
(***************************************************************************)
(* The relocation and compaction phases of mark-compact, core/core.stanza  *)
(* 1840-2155, 2243-2288 and 2761-2823, on the words of the heap.  The      *)
(* algorithm needs no memory of its own: the references to an object that  *)
(* has no new address yet are threaded through its header, the list of     *)
(* live ranges is written into the dead words between them, and the offset *)
(* by which an object moves is kept in spare bits of its header.           *)
(*                                                                         *)
(* Words are indexed by cells: the heap is 0, 1, ...; a negative cell is a *)
(* variable outside the heap (a global, a slot of a stack frame, the heads *)
(* of the two lists).  A tag stands for one object: it determines its size *)
(* and which of its words are references.  Marking is module Marking: the  *)
(* initial states are those it ends in.  The order in which the references *)
(* of one object, of the frames of one stack and of the roots are visited  *)
(* is left open.                                                           *)
(***************************************************************************)
EXTENDS Integers, Sequences, FiniteSets, SequencesExt

CONSTANTS
  Tags,            \* one tag per object
  ObjectSize,      \* in words with the header
  RefSlots,        \* the offsets that iterate-references visits
  Stacks,          \* tags of the stacks: word 1 is the tail of heap.stacks
  Trackers,        \* tags of the trackers: word 1 is value, word 2 is tail
  FrameCells,      \* the cells of the references in the frames of a stack
  RootCells,       \* the cells iterate-roots visits
  StacksHead,      \* the cell of heap.stacks
  TrackersHead,    \* the cell of heap.liveness-trackers
  InitialHeaps     \* the heaps a collection may start from: [mem, top, stacks, trackers]

ASSUME ShapesAssumption ==
  /\ ObjectSize \in [Tags -> Nat \ {0}]
  /\ RefSlots \in [Tags -> SUBSET Nat]
  /\ \A t \in Tags : \A i \in RefSlots[t] : 0 < i /\ i < ObjectSize[t]
  /\ Stacks \subseteq Tags /\ Trackers \subseteq Tags \ Stacks
  /\ \A t \in Stacks : ObjectSize[t] > 1 /\ 1 \notin RefSlots[t]
  /\ \A t \in Trackers : ObjectSize[t] > 2 /\ 1 \notin RefSlots[t] /\ 2 \notin RefSlots[t]

Outside == {c \in Int : c < 0}
ASSUME OutsideAssumption ==
  /\ FrameCells \in [Stacks -> SUBSET Outside]
  /\ \A s, t \in Stacks : s # t => FrameCells[s] \cap FrameCells[t] = {}
  /\ RootCells \subseteq Outside
  /\ \A s \in Stacks : FrameCells[s] \cap RootCells = {}
  /\ {StacksHead, TrackersHead} \subseteq Outside \ RootCells
  /\ \A s \in Stacks : {StacksHead, TrackersHead} \cap FrameCells[s] = {}
  /\ StacksHead # TrackersHead

Null == -1000      \* the null pointer
VARIABLES
  mem,              \* the word in each cell
  top,              \* heap.top
  marks,            \* the marked objects
  compactionStart,  \* heap.compaction-start
  oldObjectsEnd,    \* heap.old-objects-end
  phase,            \* where in mark-compact the collector is
  p,                \* the loop variable of that phase: an address or a cell
  todo,             \* the cells of references that the iteration has still to visit
  offset,           \* create-live-ranges and compact: the accumulated offset
  dead,             \* create-live-ranges: start of the current break
  live,             \* create-live-ranges: start of the current live range
  before            \* ghost: memory, marks and lists when marking ended

areas  == <<top, compactionStart, oldObjectsEnd>>
ranges == <<offset, dead, live>>
collectVars == <<mem, areas, marks, phase, p, todo, ranges, before>>

(* Words: a header with its relocation offset, a reference (a tagged        *)
(* pointer), a slot address put in the place of a header, an untagged       *)
(* pointer, a value that is no reference, a dead field with its tag bit.    *)
Hdr(t, off) == [k |-> "hdr", v |-> t, off |-> off]
Ref(a)      == [k |-> "ref", v |-> a, off |-> 0]
Thread(c)   == [k |-> "thread", v |-> c, off |-> 0]
Ptr(a)      == [k |-> "ptr", v |-> a, off |-> 0]
Imm(x)      == [k |-> "imm", v |-> x, off |-> 0]
TaggedPtr(a) == [k |-> "tagged", v |-> a, off |-> 0]
FalseMarker == Imm(0)

CollectPhases == {"trackers", "solid", "gap", "live", "object", "prefix",
                  "relocTrackers", "relocStacks", "relocRoots", "compact", "done"}

Tag(m, a) == m[a].v
AllocationSize(m, a) == ObjectSize[Tag(m, a)]
RelocationOffset(m, a) == IF m[a].k = "hdr" THEN m[a].off ELSE 0
Slots(m, a) == {a + i : i \in RefSlots[Tag(m, a)]}

(* A list through the words link of the objects at s[1], s[2], ..., or of   *)
(* those of them whose index is in K.                                       *)
LinkCell(head, link, s, i) == IF i = 0 THEN head ELSE s[i] + link
NextLink(s, K, i) ==
  IF \A k \in K : k <= i THEN Null ELSE s[Min({k \in K : k > i})] + 1
Linked(m, head, link, s, K) ==
  \A i \in K \cup {0} : m[LinkCell(head, link, s, i)] = Ptr(NextLink(s, K, i))
-----------------------------------------------------------------------------
(* The objects that the roots, and the frames of live stacks, lead to.      *)
Closed(m, S) ==
  /\ \A c \in RootCells : m[c].k = "ref" => m[c].v \in S
  /\ \A a \in S : \A c \in Slots(m, a) : m[c].k = "ref" => m[c].v \in S
  /\ \A a \in S : Tag(m, a) \in Stacks =>
       \A c \in FrameCells[Tag(m, a)] : m[c].k = "ref" => m[c].v \in S
Objects(m, t) == {a \in 0 .. t - 1 : m[a].k = "hdr"}
Reachable(m, t) ==
  {a \in Objects(m, t) : \A S \in SUBSET Objects(m, t) : Closed(m, S) => a \in S}

(* A heap that the program can leave to a collection: an object is a header *)
(* and words that are none, no two objects have one tag, and the roots lead *)
(* to objects only.  The heads of the lists lead through every stack, and   *)
(* through the trackers that have a value.                                  *)
IsList(s, S) ==
  /\ s \in Seq(S)
  /\ \A i, j \in DOMAIN s : s[i] = s[j] => i = j

ProperObject(m, t, a) ==
  /\ Tag(m, a) \in Tags /\ m[a] = Hdr(Tag(m, a), 0)
  /\ a + AllocationSize(m, a) <= t
  /\ \A c \in a + 1 .. a + AllocationSize(m, a) - 1 : m[c].k # "hdr"

Kinds == {"hdr", "ref", "thread", "ptr", "imm", "tagged", "junk"}
Cells == {StacksHead, TrackersHead} \cup RootCells \cup UNION {FrameCells[s] : s \in Stacks}
ProperHeap(h) ==
  LET objects == Objects(h.mem, h.top)
      tagged(T) == {a \in objects : Tag(h.mem, a) \in T} IN
  /\ h.top \in Nat /\ 0 .. h.top - 1 \subseteq DOMAIN h.mem
  /\ Cells \subseteq DOMAIN h.mem /\ DOMAIN h.mem \subseteq Int
  /\ \A c \in DOMAIN h.mem : h.mem[c] \in [k : Kinds, v : Int \cup Tags, off : {0}]
  /\ \A a \in objects : ProperObject(h.mem, h.top, a)
  /\ \A a, b \in objects : Tag(h.mem, a) = Tag(h.mem, b) => a = b
  /\ \E S \in SUBSET objects : Closed(h.mem, S)
  /\ IsList(h.stacks, tagged(Stacks))
  /\ Linked(h.mem, StacksHead, 1, h.stacks, DOMAIN h.stacks)
  /\ IsList(h.trackers, tagged(Trackers))
  /\ Linked(h.mem, TrackersHead, 2, h.trackers, DOMAIN h.trackers)
  /\ \A a \in tagged(Trackers) : h.mem[a + 1].k = "ref" <=> a \in Range(h.trackers)
ASSUME HeapsAssumption == \A h \in InitialHeaps : ProperHeap(h)
-----------------------------------------------------------------------------
(* mark-compact after mark-reachable-objects: the reachable objects are     *)
(* marked, and heap.stacks holds exactly the marked stacks.                 *)
CollectInit ==
  /\ \E h \in InitialHeaps :
       /\ mem = h.mem /\ top = h.top
       /\ marks = Reachable(mem, top)
       /\ Range(h.stacks) = {a \in marks : Tag(mem, a) \in Stacks}
       /\ before = [mem |-> mem, marks |-> marks, stacks |-> h.stacks, trackers |-> h.trackers]
  /\ compactionStart = 0 /\ oldObjectsEnd = 0
  /\ phase = "trackers" /\ p = TrackersHead /\ todo = {}
  /\ offset = 0 /\ dead = 0 /\ live = 0

ValueIsLiveAlways(tracker) == TRUE            \* mutated: the value is not tested
ValueIsLive(tracker) == mem[tracker].v \in marks

(* One round of scan-liveness-trackers: a dead tracker leaves the list, a   *)
(* tracker of a dead object is cleared and leaves it too.                   *)
TrackerTail(tracker) == tracker + 1
ScanTracker ==
  /\ phase = "trackers"
  /\ mem[p].v # Null
  /\ LET tracker == mem[p].v
         tail == mem[TrackerTail(tracker)] IN
       \/ /\ tracker - 1 \notin marks
          /\ mem' = [mem EXCEPT ![p] = tail]
          /\ UNCHANGED p
       \/ /\ tracker - 1 \in marks
          /\ ~ValueIsLive(tracker)
          /\ mem' = [mem EXCEPT ![tracker] = FalseMarker, ![p] = tail]
          /\ UNCHANGED p
       \/ /\ tracker - 1 \in marks
          /\ ValueIsLive(tracker)
          /\ p' = TrackerTail(tracker)
          /\ UNCHANGED mem
  /\ UNCHANGED <<areas, marks, phase, todo, ranges, before>>

TrackersScanned ==
  /\ phase = "trackers"
  /\ mem[p].v = Null
  /\ phase' = "solid" /\ p' = 0
  /\ UNCHANGED <<mem, areas, marks, todo, ranges, before>>
-----------------------------------------------------------------------------
(* skip-live over the solid prefix, clearing its marks.                     *)
ClearMark(a) == marks' = marks \ {a}

SkipLive ==
  /\ phase = "solid"
  /\ p < top /\ p \in marks
  /\ ClearMark(p)
  /\ p' = p + AllocationSize(mem, p)
  /\ UNCHANGED <<mem, areas, phase, todo, ranges, before>>

(* The first unmarked object starts the compaction area; without one there  *)
(* is nothing to do.                                                        *)
EndOfSolidPrefix ==
  /\ phase = "solid"
  /\ p >= top \/ p \notin marks
  /\ IF p < top
     THEN phase' = "gap" /\ compactionStart' = p /\ dead' = p /\ UNCHANGED oldObjectsEnd
     ELSE phase' = "done" /\ oldObjectsEnd' = top /\ UNCHANGED <<compactionStart, dead>>
  /\ UNCHANGED <<mem, top, marks, p, todo, offset, live, before>>
-----------------------------------------------------------------------------
(* create-live-ranges: from the end of the last live range, skip-dead finds *)
(* the next marked object.  Its objects move down by the dead words so far. *)
AccumulateLast(break) == offset' = -break           \* mutated: only the last break
Accumulate(break) == offset' = offset - break

FindLiveRange ==
  /\ phase = "gap"
  /\ dead < top
  /\ \/ \E a \in marks :
          /\ a >= dead /\ \A b \in marks : b >= dead => a <= b
          /\ Accumulate(a - dead)
          /\ live' = a /\ p' = a
          /\ phase' = "live"
          /\ UNCHANGED top
     \/ /\ \A a \in marks : a < dead
        /\ top' = dead
        /\ phase' = "prefix" /\ p' = 0
        /\ UNCHANGED <<offset, live>>
  /\ UNCHANGED <<mem, marks, compactionStart, oldObjectsEnd, todo, dead, before>>

RangesDone ==
  /\ phase = "gap"
  /\ dead >= top
  /\ phase' = "prefix" /\ p' = 0
  /\ UNCHANGED <<mem, areas, marks, todo, ranges, before>>

(* write-live-range: a break of one word has room for the dead field only.  *)
WriteLiveRange(loc, from, to) ==
  mem' = IF loc + 1 = from THEN [mem EXCEPT ![loc] = TaggedPtr(to)]
         ELSE [mem EXCEPT ![loc] = Ptr(from), ![loc + 1] = Ptr(to)]

LiveRangeEnd ==
  /\ phase = "live" /\ todo = {}
  /\ p >= top \/ p \notin marks
  /\ WriteLiveRange(dead, live, p)
  /\ dead' = p
  /\ phase' = "gap"
  /\ UNCHANGED <<areas, marks, p, todo, offset, live, before>>

LiveObject ==
  /\ phase = "live" /\ todo = {}
  /\ p < top /\ p \in marks
  /\ ClearMark(p)
  /\ phase' = "object"
  /\ UNCHANGED <<mem, areas, p, todo, ranges, before>>

(* update-references: every slot on the list that starts in the header gets *)
(* the object's new address.  (The loop's ref is kept in the header here.)  *)
Unthread ==
  /\ phase = "object"
  /\ mem[p].k = "thread"
  /\ mem' = [mem EXCEPT ![mem[p].v] = Ref(p + offset), ![p] = mem[mem[p].v]]
  /\ UNCHANGED <<areas, marks, phase, p, todo, ranges, before>>

(* Then the object gets its offset, and its references are visited.         *)
UpdateReferences ==
  /\ phase = "object"
  /\ mem[p].k = "hdr"
  /\ mem' = [mem EXCEPT ![p] = Hdr(mem[p].v, offset)]
  /\ todo' = Slots(mem, p)
  /\ p' = p + AllocationSize(mem, p)
  /\ phase' = "live"
  /\ UNCHANGED <<areas, marks, ranges, before>>

(* relocate-or-reverse-reference: the target has no offset yet if it lies   *)
(* above the slot, and then the slot joins the list in the target's header. *)
ReverseReference(m, c) == [m EXCEPT ![c] = m[m[c].v], ![m[c].v] = Thread(c)]

RelocateOrReverse(m, c) ==
  LET a == m[c].v IN
  IF m[c].k # "ref" \/ a <= compactionStart THEN m
  ELSE IF a > c THEN ReverseReference(m, c)
  ELSE [m EXCEPT ![c] = Ref(a + RelocationOffset(m, a))]

VisitSlot ==
  /\ phase = "live"
  /\ \E c \in todo : mem' = RelocateOrReverse(mem, c) /\ todo' = todo \ {c}
  /\ UNCHANGED <<areas, marks, phase, p, ranges, before>>
-----------------------------------------------------------------------------
(* relocate-reference, for references from outside the compaction area.     *)
RelocateReference(m, c) ==
  IF m[c].k = "ref" /\ m[c].v > compactionStart
  THEN [m EXCEPT ![c] = Ref(m[c].v + RelocationOffset(m, m[c].v))]
  ELSE m

(* The same for an untagged pointer of one of the two lists.                *)
RelocatePointer(m, c) ==
  IF m[c].v > compactionStart
  THEN [m EXCEPT ![c] = Ptr(m[c].v + RelocationOffset(m, m[c].v - 1))]
  ELSE m

(* One reference of an object in the solid prefix, of a frame or a root.    *)
VisitReference ==
  /\ phase \in {"prefix", "relocStacks", "relocRoots"}
  /\ \E c \in todo : mem' = RelocateReference(mem, c) /\ todo' = todo \ {c}
  /\ UNCHANGED <<areas, marks, phase, p, ranges, before>>

RelocateSolidPrefix ==
  /\ phase = "prefix" /\ todo = {}
  /\ IF p < compactionStart
     THEN /\ todo' = Slots(mem, p)
          /\ p' = p + AllocationSize(mem, p)
          /\ UNCHANGED phase
     ELSE /\ phase' = "relocTrackers" /\ p' = TrackersHead
          /\ UNCHANGED todo
  /\ UNCHANGED <<mem, areas, marks, ranges, before>>

RelocateTracker ==
  /\ phase = "relocTrackers"
  /\ IF mem[p].v # Null
     THEN /\ mem' = RelocateReference(RelocatePointer(mem, p), mem[p].v)
          /\ p' = TrackerTail(mem[p].v)
          /\ UNCHANGED phase
     ELSE /\ phase' = "relocStacks" /\ p' = StacksHead
          /\ UNCHANGED mem
  /\ UNCHANGED <<areas, marks, todo, ranges, before>>

(* A stack's frames are found through its tag, so before it moves.          *)
RelocateStack ==
  /\ phase = "relocStacks" /\ todo = {}
  /\ IF mem[p].v # Null
     THEN /\ mem' = RelocatePointer(mem, p)
          /\ todo' = FrameCells[Tag(mem, mem[p].v - 1)]
          /\ p' = mem[p].v
          /\ UNCHANGED phase
     ELSE /\ phase' = "relocRoots" /\ todo' = RootCells
          /\ UNCHANGED <<mem, p>>
  /\ UNCHANGED <<areas, marks, ranges, before>>

RootsRelocated ==
  /\ phase = "relocRoots" /\ todo = {}
  /\ phase' = "compact" /\ p' = compactionStart /\ offset' = 0
  /\ UNCHANGED <<mem, areas, marks, todo, dead, live, before>>
-----------------------------------------------------------------------------
NewTopUnmoved == top' = top                  \* mutated: top stays where it was
NewTop == top' = top + offset

(* compact: clear the offsets of the next live range and copy it down.      *)
ReadLiveRange(loc) ==
  IF mem[loc].k = "tagged" THEN [live |-> loc + 1, dead |-> mem[loc].v]
  ELSE [live |-> mem[loc].v, dead |-> mem[loc + 1].v]

ClearRelocationOffsetsNot(r) == mem          \* mutated: the offsets stay in the headers
ClearRelocationOffsets(r) ==
  [c \in DOMAIN mem |->
     IF r.live <= c /\ c < r.dead /\ mem[c].k = "hdr" THEN Hdr(mem[c].v, 0) ELSE mem[c]]

CompactRange ==
  /\ phase = "compact"
  /\ p < top
  /\ LET r == ReadLiveRange(p)
         off == offset - (r.live - p)
         m == ClearRelocationOffsets(r) IN
       /\ mem' = [c \in DOMAIN mem |->
                    IF r.live + off <= c /\ c < r.dead + off THEN m[c - off] ELSE m[c]]
       /\ offset' = off
       /\ p' = r.dead
  /\ UNCHANGED <<areas, marks, phase, todo, dead, live, before>>

CompactDone ==
  /\ phase = "compact"
  /\ p >= top
  /\ NewTop
  /\ oldObjectsEnd' = top'
  /\ phase' = "done"
  /\ UNCHANGED <<mem, marks, compactionStart, p, todo, ranges, before>>

Collected == phase = "done" /\ UNCHANGED collectVars

CollectNext ==
  \/ ScanTracker \/ TrackersScanned \/ SkipLive \/ EndOfSolidPrefix
  \/ FindLiveRange \/ RangesDone \/ LiveRangeEnd
  \/ LiveObject \/ Unthread \/ UpdateReferences \/ VisitSlot
  \/ RelocateSolidPrefix \/ RelocateTracker \/ RelocateStack \/ VisitReference \/ RootsRelocated
  \/ CompactRange \/ CompactDone
  \/ Collected

CollectSpec == CollectInit /\ [][CollectNext]_collectVars /\ WF_collectVars(CollectNext)
-----------------------------------------------------------------------------
HeapTypeOK ==
  /\ DOMAIN mem = DOMAIN before.mem
  /\ \A c \in DOMAIN mem : mem[c] \in [k : Kinds, v : Int \cup Tags, off : Int]
  /\ top \in Nat /\ 0 .. top - 1 \subseteq DOMAIN mem
  /\ marks \subseteq before.marks
  /\ compactionStart \in 0 .. top /\ oldObjectsEnd \in 0 .. top
  /\ phase \in CollectPhases
  /\ p \in Int /\ todo \subseteq DOMAIN mem
  /\ offset \in Int /\ offset <= 0
  /\ dead \in Nat /\ live \in Nat

(* Where an object has to go: down by the dead words below it.              *)
LiveWords(a) == {c \in 0 .. a - 1 : \E b \in before.marks :
                   b <= c /\ c < b + AllocationSize(before.mem, b)}
NewAddress(a) == Cardinality(LiveWords(a))
Scanned(a) == a \in before.marks /\ compactionStart <= a /\ a < p

(* The n-th word on the list of slots that is threaded through the header   *)
(* of the object at a; the last is the header.                              *)
Threads(a) ==
  LET word[n \in 0 .. top] ==
        IF n = 0 THEN mem[a]
        ELSE LET w == word[n - 1] IN IF w.k = "thread" THEN mem[w.v] ELSE w
  IN  word

(* Threading loses nothing: while live ranges are created (core.stanza:     *)
(* 2007-2124), a reference in a scanned object either already is the new    *)
(* address of its target, or its slot is on the list in the header of the   *)
(* target, and each list ends in the target's own header.                   *)
ThreadingSound ==
  phase \in {"gap", "live", "object"} =>
    /\ \A a \in before.marks : Scanned(a) => \A c \in Slots(before.mem, a) :
         LET w == before.mem[c] IN w.k = "ref" =>
           \/ (c \in todo \/ w.v < compactionStart) /\ mem[c] = w
           \/ w.v >= compactionStart /\ mem[c] = Ref(NewAddress(w.v))
           \/ w.v >= p /\ \E n \in 0 .. top : Threads(w.v)[n] = Thread(c)
    /\ \A a \in before.marks : a >= p => Threads(a)[top] = Hdr(Tag(before.mem, a), 0)

(* The offset recorded in each header is the distance to the object's place *)
(* after compaction, for every object that relocate-* may ask for it        *)
(* (relocation-offset calls fatal on a header without one).                 *)
OffsetsRecorded ==
  phase \in {"prefix", "relocTrackers", "relocStacks", "relocRoots"} =>
    \A a \in before.marks : a >= compactionStart =>
      mem[a] = Hdr(Tag(before.mem, a), NewAddress(a) - a) /\ NewAddress(a) < a

(* The state of a collection at work: its types, the threads, the offsets.  *)
CollectionSound == HeapTypeOK /\ ThreadingSound /\ OffsetsRecorded

(* The program cannot tell that a collection happened: under the map from   *)
(* old to new addresses every variable refers to the same object as when    *)
(* marking ended, every live object is there with the words it had, and the *)
(* list of the stacks leads through the same ones in the same order.  (The  *)
(* words of a tracker are in TrackersWeak.)                                 *)
NewWord(w) == IF w.k = "ref" THEN Ref(NewAddress(w.v)) ELSE w
NewList(s) == [i \in DOMAIN s |-> NewAddress(s[i])]
Variables ==
  RootCells \cup UNION {FrameCells[Tag(before.mem, before.stacks[i])] : i \in DOMAIN before.stacks}
LinkWords(t) == IF t \in Stacks THEN {1} ELSE IF t \in Trackers THEN {1, 2} ELSE {}

GraphPreserved ==
  phase = "done" =>
    /\ Objects(mem, top) = {NewAddress(a) : a \in before.marks}
    /\ \A c \in Variables : mem[c] = NewWord(before.mem[c])
    /\ \A a \in before.marks :
         LET t == Tag(before.mem, a) IN
         \A i \in 0 .. ObjectSize[t] - 1 : i \notin LinkWords(t) =>
           mem[NewAddress(a) + i] =
             IF i \in RefSlots[t] THEN NewWord(before.mem[a + i]) ELSE before.mem[a + i]
    /\ Linked(mem, StacksHead, 1, NewList(before.stacks), DOMAIN before.stacks)

(* All that is left is the live objects, in their old order, without gaps.  *)
SlidesInOrder ==
  phase = "done" =>
    /\ top = Cardinality(UNION {a .. a + AllocationSize(before.mem, a) - 1 : a \in before.marks})
    /\ oldObjectsEnd = top
    /\ \A a \in before.marks : mem[NewAddress(a)] = Hdr(Tag(before.mem, a), 0)

(* Post condition of mark-compact, core.stanza:2284: all marks are cleared; *)
(* the same bits are the remembered set of the next nursery collection.     *)
MarksCleared == phase = "done" => marks = {}

(* What the next allocation and the next collection find.                   *)
Compacted == SlidesInOrder /\ MarksCleared

(* core.stanza:2754-2760: a live tracker is on the list afterwards exactly  *)
(* when its object is live, in the old order; if not its value is false.    *)
TrackersWeak ==
  phase = "done" =>
    LET trackers == before.trackers
        value(i) == before.mem[trackers[i] + 1].v
        kept == {i \in DOMAIN trackers : trackers[i] \in before.marks /\ value(i) \in before.marks} IN
    /\ Linked(mem, TrackersHead, 2, NewList(trackers), kept)
    /\ \A i \in DOMAIN trackers : trackers[i] \in before.marks =>
         mem[NewAddress(trackers[i]) + 1] =
           IF i \in kept THEN Ref(NewAddress(value(i))) ELSE FalseMarker
=============================================================================
