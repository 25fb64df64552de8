------------------------------ MODULE Marking ------------------------------
(***************************************************************************)
(* The mark phase of the full-heap collector, core/core.stanza             *)
(* 1540-1835: mark-reachable-objects marks everything reachable from the   *)
(* roots with a marking stack of bounded size.  When the stack is full the *)
(* marked object is only covered by one address interval, the incomplete   *)
(* range, and complete-marking later re-scans the mark bits of that        *)
(* interval, one bitset word at a time.  Coroutine stacks are heap objects *)
(* whose frames live outside the heap: scan-stacks visits the frames of    *)
(* the stacks found marked, until a pass over the list finds no new one.   *)
(*                                                                         *)
(* Addresses are word indices; only object headers carry mark bits, so the *)
(* bitset is the set of marked objects.  The order in which an object's    *)
(* slots, the roots or the references of a frame are visited is left open. *)
(***************************************************************************)
EXTENDS Integers, Sequences, FiniteSets, Functions

CONSTANTS
  Objects,            \* the addresses of the objects on the heap
  Stacks,             \* those of them that are coroutine stacks
  HeapLimit,          \* heap.limit; heap.start is 0
  MarkingStackSize,   \* entries between heap.stack-start and heap.stack-bottom
  BitsInLong,         \* mark bits in one word of the bitset
  Graphs,             \* the object graphs a collection may start from
  NoStack             \* the null ptr<Stack>

ASSUME ObjectsAssumption ==
  /\ HeapLimit \in Nat \ {0}
  /\ Objects \subseteq 0 .. (HeapLimit - 1)
  /\ Stacks \subseteq Objects
  /\ NoStack \notin Stacks
ASSUME SizesAssumption ==
  /\ MarkingStackSize \in Nat \ {0}
  /\ BitsInLong \in Nat \ {0}
(* heap.stacks holds every stack once; it is never empty, since the running *)
(* program has a current stack.                                             *)
ASSUME GraphsAssumption ==
  \A g \in Graphs :
    /\ g.refs \in [Objects -> SUBSET Objects]
    /\ g.frames \in [Stacks -> SUBSET Objects]
    /\ g.roots \in SUBSET Objects
    /\ g.stacks \in Seq(Stacks)
    /\ g.stacks # << >>
    /\ \A i, j \in DOMAIN g.stacks : g.stacks[i] = g.stacks[j] => i = j
    /\ Range(g.stacks) = Stacks

VARIABLES
  graph,          \* the references in objects, frames and roots; never changes
  marks,          \* heap.bitset: the marked objects
  stk,            \* the marking stack, its top first
  todo,           \* references of the popped object not yet passed to mark-and-push
  minIncomplete,  \* heap.min-incomplete
  maxIncomplete,  \* heap.max-incomplete
  phase,          \* the loop that mark-reachable-objects is in
  rootsTodo,      \* roots not yet passed to mark-from-root
  bits,           \* iterate-marked: marked objects left in the loaded bitset word
  next,           \* iterate-marked: first address of the following bitset word
  limit,          \* iterate-marked: exclusive end of the range
  passed, ahead,  \* heap.stacks split at scan-stacks' pointer p
  live,           \* live-stacks, the list being built
  previous,       \* previous-stacks
  framesTodo,     \* references in the frames of Head(ahead) still to be marked
  freed           \* stacks whose frames free-stack-list has disposed of

rangeVars == <<minIncomplete, maxIncomplete>>
sweepVars == <<bits, next, limit>>
listVars  == <<passed, ahead, live, previous>>
vars == <<graph, marks, stk, todo, rangeVars, phase, rootsTodo, sweepVars,
          listVars, framesTodo, freed>>

Phases == {"roots", "loop", "complete", "sweep", "scan", "frames", "done"}

Idle == stk = << >> /\ todo = {}      \* continue-marking has returned
Top(list) == IF list = << >> THEN NoStack ELSE Head(list)
-----------------------------------------------------------------------------
(* What marking should compute: the least set of objects that contains the  *)
(* roots and is closed under references, where a stack refers to what its   *)
(* frames refer to.                                                         *)
Closed(S) ==
  /\ graph.roots \subseteq S
  /\ \A o \in S : graph.refs[o] \subseteq S
  /\ \A s \in S \cap Stacks : graph.frames[s] \subseteq S

Reachable == {o \in Objects : \A S \in SUBSET Objects : Closed(S) => o \in S}
-----------------------------------------------------------------------------
(* The incomplete range: an empty interval, or one from minIncomplete to    *)
(* maxIncomplete inclusive.                                                 *)
ResetIncompleteRangeSkipped == UNCHANGED rangeVars     \* mutated: no reset
ResetIncompleteRange ==
  /\ minIncomplete' = HeapLimit
  /\ maxIncomplete' = 0

ExtendIncompleteRange(p) ==
  /\ minIncomplete' = IF p < minIncomplete THEN p ELSE minIncomplete
  /\ maxIncomplete' = IF p > maxIncomplete THEN p ELSE maxIncomplete

IncompleteRangeEmpty == minIncomplete > maxIncomplete
-----------------------------------------------------------------------------
MarkingStackFullLate == Len(stk) > MarkingStackSize    \* mutated: off by one
MarkingStackFull == Len(stk) = MarkingStackSize

(* mark-and-push, applied to one reference of the object popped last.       *)
MarkAndPush ==
  \E c \in todo :
    /\ todo' = todo \ {c}
    /\ \/ /\ c \in marks
          /\ UNCHANGED <<marks, stk, rangeVars>>
       \/ /\ c \notin marks
          /\ marks' = marks \cup {c}
          /\ IF MarkingStackFull
             THEN ExtendIncompleteRange(c) /\ UNCHANGED stk
             ELSE stk' = <<c>> \o stk /\ UNCHANGED rangeVars
    /\ UNCHANGED <<graph, phase, rootsTodo, sweepVars, listVars, framesTodo, freed>>

(* One round of continue-marking's loop: pop an object, iterate-references. *)
PopMarkingStack ==
  /\ todo = {}
  /\ stk # << >>
  /\ stk' = Tail(stk)
  /\ todo' = graph.refs[Head(stk)]
  /\ UNCHANGED <<graph, marks, rangeVars, phase, rootsTodo, sweepVars,
                 listVars, framesTodo, freed>>

(* mark-from-root: continue-marking starts with the root on an empty stack. *)
MarkFromRootOnly(p) ==                \* mutated: the graph is not traversed
  /\ marks' = marks \cup {p}
  /\ UNCHANGED stk
MarkFromRoot(p) ==
  IF p \in marks THEN UNCHANGED <<marks, stk>>
  ELSE /\ marks' = marks \cup {p}
       /\ stk' = <<p>> \o stk
-----------------------------------------------------------------------------
(* mark-reachable-objects: iterate-roots, then scan-stacks.                 *)
Init ==
  /\ graph \in Graphs
  /\ marks = {} /\ stk = << >> /\ todo = {}
  /\ minIncomplete = HeapLimit /\ maxIncomplete = 0
  /\ phase = "roots" /\ rootsTodo = graph.roots
  /\ bits = {} /\ next = 0 /\ limit = 0
  /\ passed = << >> /\ ahead = graph.stacks
  /\ live = << >> /\ previous = Head(graph.stacks)
  /\ framesTodo = {} /\ freed = {}

MarkRoot ==
  /\ phase = "roots" /\ Idle
  /\ \E r \in rootsTodo :
       /\ rootsTodo' = rootsTodo \ {r}
       /\ MarkFromRoot(r)
  /\ UNCHANGED <<graph, todo, rangeVars, phase, sweepVars, listVars, framesTodo, freed>>

RootsDone ==
  /\ phase = "roots" /\ Idle /\ rootsTodo = {}
  /\ phase' = "loop"
  /\ UNCHANGED <<graph, marks, stk, todo, rangeVars, rootsTodo, sweepVars,
                 listVars, framesTodo, freed>>
-----------------------------------------------------------------------------
(* scan-stacks' outer loop: another pass as long as the last one moved a    *)
(* stack to live-stacks.                                                    *)
AnotherPassOnce == live = << >>       \* mutated: one successful pass is enough
AnotherPass == Top(live) # previous

NextPass ==
  /\ phase = "loop"
  /\ AnotherPass
  /\ previous' = Top(live)
  /\ phase' = "complete"
  /\ UNCHANGED <<graph, marks, stk, todo, rangeVars, rootsTodo, sweepVars,
                 passed, ahead, live, framesTodo, freed>>

(* free-stack-list, then heap.stacks = live-stacks.                         *)
FreeStackList ==
  /\ phase = "loop"
  /\ ~AnotherPass
  /\ freed' = Range(ahead)
  /\ ahead' = live
  /\ phase' = "done"
  /\ UNCHANGED <<graph, marks, stk, todo, rangeVars, rootsTodo, sweepVars,
                 passed, live, previous, framesTodo>>
-----------------------------------------------------------------------------
(* iterate-marked loads a bitset word, masking off what is outside          *)
(* [from, to).                                                              *)
LoadWord(from, to, wordLimit) ==
  bits' = {a \in marks : from <= a /\ a < to /\ a < wordLimit}

(* complete-marking's loop: sweep the incomplete range as long as it is not *)
(* empty.  It is reset first, for overflows during the sweep.               *)
CompleteMarking ==
  /\ phase = "complete" /\ Idle
  /\ \/ /\ ~IncompleteRangeEmpty
        /\ LET start == minIncomplete IN
             /\ next' = start - (start % BitsInLong) + BitsInLong
             /\ limit' = maxIncomplete + 1
             /\ LoadWord(start, limit', next')
        /\ ResetIncompleteRange
        /\ phase' = "sweep"
     \/ /\ IncompleteRangeEmpty
        /\ phase' = "scan"
        /\ UNCHANGED <<rangeVars, sweepVars>>
  /\ UNCHANGED <<graph, marks, stk, todo, rootsTodo, listVars, framesTodo, freed>>

(* iterate-marked calls continue-marking on the lowest bit left in the word.*)
SweepBit ==
  /\ phase = "sweep" /\ Idle
  /\ \E p \in bits :
       /\ \A q \in bits : p <= q
       /\ bits' = bits \ {p}
       /\ stk' = <<p>>
  /\ UNCHANGED <<graph, marks, todo, rangeVars, phase, rootsTodo, next, limit,
                 listVars, framesTodo, freed>>

SweepWord ==
  /\ phase = "sweep" /\ Idle /\ bits = {}
  /\ \/ /\ next < limit
        /\ LoadWord(next, limit, next + BitsInLong)
        /\ next' = next + BitsInLong
        /\ UNCHANGED <<phase, limit>>
     \/ /\ next >= limit
        /\ phase' = "complete"
        /\ UNCHANGED sweepVars
  /\ UNCHANGED <<graph, marks, stk, todo, rangeVars, rootsTodo, listVars,
                 framesTodo, freed>>
-----------------------------------------------------------------------------
TestMarkAlways(p) == TRUE              \* mutated: the mark is not tested
TestMark(p) == p \in marks

(* scan-stacks' inner loop looks at the stack that p points to.             *)
ScanStack ==
  /\ phase = "scan"
  /\ ahead # << >>
  /\ IF TestMark(Head(ahead))
     THEN /\ phase' = "frames"
          /\ framesTodo' = graph.frames[Head(ahead)]
          /\ UNCHANGED listVars
     ELSE /\ passed' = Append(passed, Head(ahead))
          /\ ahead' = Tail(ahead)
          /\ UNCHANGED <<phase, framesTodo, live, previous>>
  /\ UNCHANGED <<graph, marks, stk, todo, rangeVars, rootsTodo, sweepVars, freed>>

MarkFrame ==
  /\ phase = "frames" /\ Idle
  /\ \E r \in framesTodo :
       /\ framesTodo' = framesTodo \ {r}
       /\ MarkFromRoot(r)
  /\ UNCHANGED <<graph, todo, rangeVars, phase, rootsTodo, sweepVars, listVars, freed>>

(* The frames are done: the stack moves from heap.stacks to live-stacks.    *)
MoveToLive ==
  /\ phase = "frames" /\ Idle /\ framesTodo = {}
  /\ live' = <<Head(ahead)>> \o live
  /\ ahead' = Tail(ahead)
  /\ phase' = "scan"
  /\ UNCHANGED <<graph, marks, stk, todo, rangeVars, rootsTodo, sweepVars,
                 passed, previous, framesTodo, freed>>

EndOfPass ==
  /\ phase = "scan"
  /\ ahead = << >>
  /\ ahead' = passed
  /\ passed' = << >>
  /\ phase' = "loop"
  /\ UNCHANGED <<graph, marks, stk, todo, rangeVars, rootsTodo, sweepVars,
                 live, previous, framesTodo, freed>>

(* The collector goes on to the next phase, which is not modelled here.     *)
Finished ==
  /\ phase = "done"
  /\ UNCHANGED vars
-----------------------------------------------------------------------------
Next ==
  \/ MarkAndPush \/ PopMarkingStack
  \/ MarkRoot \/ RootsDone
  \/ NextPass \/ FreeStackList
  \/ CompleteMarking \/ SweepBit \/ SweepWord
  \/ ScanStack \/ MarkFrame \/ MoveToLive \/ EndOfPass
  \/ Finished

(* The collector is sequential code with nothing to wait for: it goes on.   *)
Spec == Init /\ [][Next]_vars /\ WF_vars(Next)
-----------------------------------------------------------------------------
(* Types; the marking stack stays within its memory (mark-and-push tests    *)
(* marking-stack-full before it pushes, continue-marking does not).         *)
TypeOK ==
  /\ graph.refs \in [Objects -> SUBSET Objects]
  /\ graph.frames \in [Stacks -> SUBSET Objects]
  /\ marks \subseteq Objects
  /\ stk \in Seq(Objects) /\ Len(stk) <= MarkingStackSize
  /\ todo \subseteq Objects
  /\ minIncomplete \in 0 .. HeapLimit /\ maxIncomplete \in 0 .. HeapLimit
  /\ phase \in Phases
  /\ rootsTodo \subseteq graph.roots
  /\ bits \subseteq Objects /\ next \in Nat /\ limit \in Nat
  /\ passed \in Seq(Stacks) /\ ahead \in Seq(Stacks) /\ live \in Seq(Stacks)
  /\ previous \in Stacks \cup {NoStack}
  /\ framesTodo \subseteq Objects
  /\ freed \subseteq Stacks

(* Marking retains no garbage: at every moment only reachable objects are   *)
(* marked, whatever the overflows and re-scans of core.stanza:1643-1658.    *)
MarksOnlyReachable == marks \subseteq Reachable

(* Marking loses nothing: when mark-reachable-objects returns, every        *)
(* reachable object is marked, however often the marking stack overflowed.  *)
MarksAllReachable == phase = "done" => Reachable \subseteq marks

(* scan-stacks disposes of the frames of unreachable stacks only, and       *)
(* leaves in heap.stacks exactly the reachable ones (core.stanza:1779-1811).*)
FreesDeadStacksOnly ==
  phase = "done" => /\ freed = Stacks \ Reachable
                    /\ Range(ahead) = Stacks \cap Reachable

(* The bounded stack, the incomplete range and the sweep together remember  *)
(* every marked object that may still have unmarked references: the         *)
(* tri-colour invariant that complete-marking relies on.                    *)
Pending(o) ==
  \/ o \in Range(stk)
  \/ (minIncomplete <= o /\ o <= maxIncomplete)
  \/ /\ phase = "sweep"
     /\ (o \in bits \/ (next <= o /\ o < limit))
NoForgottenObject ==
  \A o \in marks : Pending(o) \/ graph.refs[o] \subseteq marks \cup todo

(* Marking terminates: each sweep of an incomplete range either marks new   *)
(* objects or leaves the range empty, and each pass over the stacks moves   *)
(* at least one or is the last.                                             *)
Terminates == <>(phase = "done")
=============================================================================
