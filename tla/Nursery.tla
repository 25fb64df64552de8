------------------------------ MODULE Nursery ------------------------------
(***************************************************************************)
(* The generational collector of core/core.stanza on the words of the      *)
(* heap: allocation, the write barrier, the evacuation of the nursery      *)
(* (2290-2559), and how a collection chooses between that and a full one,  *)
(* grows the heap and places the next nursery.  The heap is laid out as    *)
(*   | old objects | reserved to-space | nursery | free space |            *)
(* and copying ends as soon as top, which runs through the to-space, meets *)
(* no more references into the nursery.                                    *)
(*                                                                         *)
(* A full collection is one step here, the effect that modules Marking and *)
(* MarkCompact arrive at.  The links of the two lists (heap.stacks and     *)
(* heap.liveness-trackers) are sequences of addresses.                     *)
(***************************************************************************)
EXTENDS BitWords, Sequences, Functions, SequencesExt

CONSTANTS
  Vars,             \* the roots besides heap.current-stack
  Types,            \* types that the program works with
  InitialSize, MaxSize, PageSize,     \* in words
  NurseryFraction,  \* compute-nursery-size's nursery-fraction
  HeapLimits,       \* arguments of set-max-heap-size, in words
  Requests,         \* sizes for which extend-heap is called: 0 is an explicit collection
  MaxNested,        \* bound on calls of extend-heap whose notifiers have not returned
  MaxObjects        \* bound on allocations

(* A box has a number before its reference.                                 *)
AllTypes == {"cell", "box", "stack", "tracker"}
ObjectSize == [cell |-> 2, box |-> 3, stack |-> 2, tracker |-> 2]
RefSlots == [cell |-> <<1>>, box |-> <<2>>, stack |-> << >>, tracker |-> << >>]

ASSUME Sizes ==
  /\ PageSize \in Nat \ {0} /\ NurseryFraction \in Nat \ {0}
  /\ MaxSize \in Nat /\ MaxSize % PageSize = 0
  /\ InitialSize \in 4 .. MaxSize /\ InitialSize % PageSize = 0
  /\ Requests \subseteq Nat /\ HeapLimits \subseteq Nat /\ MaxNested \in Nat
  /\ MaxObjects \in Nat \ {0} /\ Types \subseteq AllTypes

VARIABLES
  mem,         \* the words of the heap
  bits,        \* the words whose bit in the bitset is set: the remembered set
  size, sizeLimit, top, limit, oldEnd,       \* heap.size, ..., old-objects-end
  var,         \* the roots
  frame,       \* the reference in the frames of a stack, by object name
  stacks, trackers,     \* heap.stacks, heap.liveness-trackers: head first
  phase,       \* where extend-heap is
  request,     \* collect-garbage's size, and whether extend-heap calls it the second time
  pending,     \* sizes of the calls of extend-heap that run notifiers, innermost first
  p,           \* the cell iterate-marked or complete-copying is at
  liveStacks,  \* copy-stacks' live-stacks
  allocated,   \* number of objects allocated so far
  from         \* ghost: nursery-start when the collection began

heapVars == <<size, sizeLimit, limit>>
lists == <<stacks, trackers, liveStacks>>
vars == <<mem, bits, heapVars, top, oldEnd, var, frame, lists, phase, request, pending, p, allocated, from>>

CurrentStack == "current-stack"
Roots == Vars \cup {CurrentStack}
ASSUME RootsFinite == IsFiniteSet(Vars) /\ CurrentStack \notin Vars

Cells == 0 .. MaxSize - 1

(* Words: the header of an object, a reference (in the header of a copied   *)
(* object the forwarding pointer), a tracker's value (a long to the         *)
(* collector), anything else, and what is left where no object is.          *)
Header(t, n) == [k |-> "hdr", t |-> t, v |-> n]
Ref(a)  == [k |-> "ref", t |-> "", v |-> a]
Weak(a) == [k |-> "weak", t |-> "", v |-> a]
Plain == [k |-> "plain", t |-> "", v |-> 0]
Junk  == [k |-> "junk", t |-> "", v |-> 0]

AllocationSize(m, a) == ObjectSize[m[a].t]
Slots(m, a) == LET s == RefSlots[m[a].t] IN [i \in DOMAIN s |-> a + s[i]]
WordsFrom(m, a) == [c \in Cells |-> IF c < a THEN m[c] ELSE Junk]
-----------------------------------------------------------------------------
RoundUp(x, n) == ((x + n - 1) \div n) * n

ComputeNurserySize(alloc, sz) == 2 * ((sz + NurseryFraction - 1) \div NurseryFraction + alloc)

NurseryStartLow(lim, old) == old + (lim - old) \div 3      \* mutated: more than half
NurseryStart(lim, old) == lim - (lim - old) \div 2
AvailableSpace == size - oldEnd
Smaller(x, y) == IF x < y THEN x ELSE y
Larger(x, y)  == IF x < y THEN y ELSE x

(* expand-heap doubles the size until it holds n words.                     *)
ExpandedSize(n) ==
  LET double[s \in 0 .. 2 * MaxSize] == IF s >= n THEN s ELSE double[2 * s] IN
  RoundUp(Smaller(double[size], MaxSize), PageSize)
-----------------------------------------------------------------------------
InitialNursery == ComputeNurserySize(0, InitialSize)

(* The first nursery is in the heap and has room for the first stack.       *)
ASSUME FirstNursery == InitialNursery \in 4 .. InitialSize
Init ==
  LET start == NurseryStart(InitialNursery, 0) IN
  /\ mem = [c \in Cells |-> IF c = start THEN Header("stack", 1)
                            ELSE IF c = start + 1 THEN Plain ELSE Junk]
  /\ bits = {}
  /\ size = InitialSize /\ sizeLimit = MaxSize
  /\ limit = InitialNursery /\ top = start + 2 /\ oldEnd = 0
  /\ var = [r \in Roots |-> IF r = CurrentStack THEN Ref(start) ELSE Plain]
  /\ frame = [n \in {1} |-> Plain]
  /\ stacks = <<start>> /\ trackers = << >> /\ liveStacks = << >>
  /\ phase = "run" /\ request = [size |-> 0, again |-> FALSE] /\ pending = << >>
  /\ p = 0 /\ allocated = 1 /\ from = start

Running == phase = "run" /\ UNCHANGED <<heapVars, oldEnd, phase, request, pending, p, liveStacks, from>>

(* new: the object is above top, its fields set to the value; an           *)
(* allocated stack heads heap.stacks, a tracker heads the other list.       *)
IsA(w, t) == w.k = "ref" /\ mem[w.v].t = t

AppendToList(a, list) == Append(list, a)         \* mutated: appended, not prepended
AddToList(a, list) == <<a>> \o list

Allocate(v, t, value) ==
  /\ Running
  /\ allocated < MaxObjects
  /\ top + ObjectSize[t] <= limit
  /\ LET id == allocated + 1 IN
     /\ t = "tracker" => IsA(value, "cell")
     /\ mem' = [c \in Cells |->
                  IF c = top THEN Header(t, id)
                  ELSE IF c \in top + 1 .. top + ObjectSize[t] - 1
                       THEN IF t = "tracker" THEN Weak(value.v)
                            ELSE IF c - top \in Range(RefSlots[t]) THEN value ELSE Plain
                  ELSE mem[c]]
     /\ var' = [var EXCEPT ![v] = Ref(top)]
     /\ frame' = IF t = "stack" THEN [n \in DOMAIN frame \cup {id} |-> IF n = id THEN value ELSE frame[n]]
                 ELSE frame
     /\ stacks' = IF t = "stack" THEN AddToList(top, stacks) ELSE stacks
     /\ trackers' = IF t = "tracker" THEN AddToList(top, trackers) ELSE trackers
     /\ allocated' = id
  /\ top' = top + ObjectSize[t]
  /\ UNCHANGED bits

(* A store with the write barrier, which sets the bit of every word stored  *)
(* to, in an old object or a young one.                                     *)
Barrier(c) == bits' = bits \cup {c}

Store(v, i, w) ==
  /\ Running
  /\ var[v].k = "ref" /\ i \in DOMAIN Slots(mem, var[v].v)
  /\ LET c == Slots(mem, var[v].v)[i] IN
       /\ mem' = [mem EXCEPT ![c] = var[w]]
       /\ Barrier(c)
  /\ UNCHANGED <<top, var, frame, stacks, trackers, allocated>>

Load(v, w, i) ==
  /\ Running
  /\ var[w].k = "ref" /\ i \in DOMAIN Slots(mem, var[w].v)
  /\ var' = [var EXCEPT ![v] = mem[Slots(mem, var[w].v)[i]]]
  /\ UNCHANGED <<mem, bits, top, frame, stacks, trackers, allocated>>

(* Frames are outside the heap: no barrier.                                 *)
StoreFrame(v, w) ==
  /\ Running
  /\ "stack" \in Types /\ IsA(var[v], "stack")
  /\ frame' = [frame EXCEPT ![mem[var[v].v].v] = var[w]]
  /\ UNCHANGED <<mem, bits, top, var, stacks, trackers, allocated>>

LoadFrame(v, w) ==
  /\ Running
  /\ "stack" \in Types /\ IsA(var[w], "stack")
  /\ var' = [var EXCEPT ![v] = frame[mem[var[w].v].v]]
  /\ UNCHANGED <<mem, bits, top, frame, stacks, trackers, allocated>>

(* The value of a tracker.                                                  *)
TrackerValue(v, w) ==
  /\ Running
  /\ IsA(var[w], "tracker")
  /\ LET x == mem[var[w].v + 1] IN
       var' = [var EXCEPT ![v] = IF x.k = "weak" THEN Ref(x.v) ELSE Plain]
  /\ UNCHANGED <<mem, bits, top, frame, stacks, trackers, allocated>>

Forget(v) ==
  /\ Running
  /\ var' = [var EXCEPT ![v] = Plain]
  /\ UNCHANGED <<mem, bits, top, frame, stacks, trackers, allocated>>

Program ==
  \/ \E v \in Vars, t \in Types, w \in Vars : Allocate(v, t, var[w])
  \/ \E v, w \in Vars, i \in {1} : Store(v, i, w) \/ Load(v, w, i)
  \/ \E v \in Roots, w \in Vars : StoreFrame(v, w)
  \/ \E v \in Vars, w \in Roots : LoadFrame(v, w) \/ TrackerValue(v, w)
  \/ \E v \in Vars : Forget(v)
-----------------------------------------------------------------------------
(* clear-mark of a range.  MarkBits has its words, and that this is what it *)
(* does.                                                                    *)
ClearMark(start, end) == bits' = bits \ (start .. end - 1)

(* extend-heap calls collect-garbage, which does nothing for a request that *)
(* the heap can never hold, and evacuates the nursery only if the next one  *)
(* may fit.  The bits of the nursery are not needed.                        *)
NurserySize == ComputeNurserySize(request.size, size)

ClearNurseryBitsNot == UNCHANGED bits            \* mutated: clear-mark left out
ClearNurseryBits == ClearMark(NurseryStart(limit, oldEnd), top)

CanBeHeld(n) == n < MaxSize

BeginCollection(req) ==
  /\ request' = req
  /\ from' = NurseryStart(limit, oldEnd)
  /\ \/ /\ CanBeHeld(req.size) /\ ComputeNurserySize(req.size, size) <= AvailableSpace
        /\ phase' = "remembered" /\ p' = 0
        /\ ClearNurseryBits
        /\ top' = oldEnd
     \/ /\ CanBeHeld(req.size) /\ ComputeNurserySize(req.size, size) > AvailableSpace
        /\ phase' = "full"
        /\ UNCHANGED <<bits, top, p>>
     \/ /\ ~CanBeHeld(req.size)
        /\ phase' = "collected"
        /\ UNCHANGED <<bits, top, p>>
  /\ UNCHANGED <<mem, heapVars, oldEnd, var, frame, lists, allocated>>

ExtendHeap(n) ==
  /\ phase = "run"
  /\ n = 0 \/ top + n > limit
  /\ Len(pending) < MaxNested
  /\ BeginCollection([size |-> n, again |-> FALSE])
  /\ UNCHANGED pending

(* copy-object, on the memory and top in h: the reference w to be updated   *)
(* becomes h.word.                                                          *)
Forwarded(m, a) == m[a].k = "ref"        \* forwarding-pointer?

UpdatedNot(m, w) == w            \* mutated: only the first reference is updated
Updated(m, w) == m[w.v]

CopyObject(h, w) ==
  IF w.k # "ref" \/ w.v < h.top THEN [mem |-> h.mem, top |-> h.top, word |-> w]
  ELSE IF Forwarded(h.mem, w.v) THEN [mem |-> h.mem, top |-> h.top, word |-> Updated(h.mem, w)]
  ELSE LET dst == h.top
           n == AllocationSize(h.mem, w.v) IN
       [mem |-> [c \in Cells |-> IF c \in dst .. dst + n - 1 THEN h.mem[w.v + c - dst]
                                 ELSE IF c = w.v THEN Ref(dst) ELSE h.mem[c]],
        top |-> dst + n,
        word |-> Ref(dst)]

CopySlot(h, c) ==
  LET r == CopyObject(h, h.mem[c]) IN [mem |-> [r.mem EXCEPT ![c] = r.word], top |-> r.top]

(* The same for the words h.words[x], x in the sequence xs.                 *)
CopyWords(h, xs) ==
  FoldLeft(LAMBDA s, x : LET r == CopyObject(s, s.words[x]) IN
                           [mem |-> r.mem, top |-> r.top, words |-> [s.words EXCEPT ![x] = r.word]],
           h, xs)

Heap(words) == [mem |-> mem, top |-> top, words |-> words]

(* iterate-marked: the words of old objects that the barrier recorded.      *)
IterateMarked ==
  /\ phase = "remembered"
  /\ LET marked == {c \in bits : p <= c /\ c < oldEnd} IN
     \/ /\ marked # {}
        /\ LET h == CopySlot(Heap(frame), Min(marked)) IN mem' = h.mem /\ top' = h.top
        /\ p' = Min(marked) + 1
        /\ UNCHANGED phase
     \/ /\ marked = {}
        /\ phase' = "roots"
        /\ UNCHANGED <<mem, top, p>>
  /\ UNCHANGED <<bits, heapVars, oldEnd, var, frame, lists, request, pending, allocated, from>>

CopyRoots ==
  /\ phase = "roots"
  /\ LET h == CopyWords(Heap(var), SetToSeq(Roots)) IN
       mem' = h.mem /\ top' = h.top /\ var' = h.words
  /\ phase' = "oldStacks"
  /\ UNCHANGED <<bits, heapVars, oldEnd, frame, lists, request, pending, p, allocated, from>>

(* copy-stacks: the new stacks at the head of the list stay on it, the old  *)
(* ones count as live and their frames are scanned.                         *)
HeadOf(list) == IF list = << >> THEN -1 ELSE Head(list)
NameAt(m, a) == m[a].v
FirstOld(list) == Cardinality({i \in DOMAIN list : \A j \in 1 .. i : list[j] >= top}) + 1
NewPrefix(list) == SubSeq(list, 1, FirstOld(list) - 1)
OldSuffix(list) == SubSeq(list, FirstOld(list), Len(list))

CopyOldStacks ==
  /\ phase = "oldStacks"
  /\ liveStacks' = OldSuffix(stacks)
  /\ stacks' = NewPrefix(stacks)
  /\ LET h == CopyWords(Heap(frame), [i \in DOMAIN liveStacks' |-> NameAt(mem, liveStacks'[i])]) IN
       mem' = h.mem /\ top' = h.top /\ frame' = h.words
  /\ phase' = IF HeadOf(liveStacks') # HeadOf(stacks') THEN "scan" ELSE "unreachable"
  /\ p' = oldEnd
  /\ UNCHANGED <<bits, heapVars, oldEnd, var, trackers, request, pending, allocated, from>>

(* complete-copying, one object of the to-space.                            *)
CompleteCopying ==
  /\ phase = "scan"
  /\ p < top
  /\ LET h == FoldLeft(CopySlot, Heap(frame), Slots(mem, p)) IN mem' = h.mem /\ top' = h.top
  /\ p' = p + AllocationSize(mem, p)
  /\ UNCHANGED <<bits, heapVars, oldEnd, var, frame, lists, phase, request, pending, allocated, from>>

(* Then one pass over the new stacks: those copied meanwhile become live,   *)
(* and their frames are scanned.  A pass that finds none is the last one.   *)
PassOver(h, a) ==
  IF ~Forwarded(h.mem, a) THEN [h EXCEPT !.dead = Append(@, a)]
  ELSE LET copy == h.mem[a].v
           r == CopyWords([mem |-> h.mem, top |-> h.top, words |-> h.words], <<NameAt(h.mem, copy)>>) IN
       [mem |-> r.mem, top |-> r.top, words |-> r.words, dead |-> h.dead, live |-> <<copy>> \o h.live]

AnotherPass(live) == HeadOf(live) # HeadOf(liveStacks)

CopyNewStacks ==
  /\ phase = "scan"
  /\ p >= top
  /\ oldEnd' = p
  /\ LET h == FoldLeft(PassOver,
                       [mem |-> mem, top |-> top, words |-> frame, dead |-> << >>, live |-> liveStacks],
                       stacks) IN
       /\ mem' = h.mem /\ top' = h.top /\ frame' = h.words
       /\ stacks' = h.dead /\ liveStacks' = h.live
       /\ phase' = IF AnotherPass(h.live) THEN "scan" ELSE "unreachable"
  /\ UNCHANGED <<bits, heapVars, var, trackers, request, pending, p, allocated, from>>

(* update-liveness-trackers: a copied new tracker replaces the original, a  *)
(* dead one leaves the list.  Its value follows the object, or is cleared.  *)
ExpiredValue(m, a) == m[a].k = "weak" /\ m[a].v >= top /\ ~Forwarded(m, m[a].v)

UpdateTracker(h, a) ==
  IF ~Forwarded(h.mem, a) THEN h
  ELSE LET copy == h.mem[a].v
           value == h.mem[copy + 1] IN
       IF ExpiredValue(h.mem, copy + 1)
       THEN [h EXCEPT !.mem[copy + 1] = Plain]
       ELSE [mem |-> [h.mem EXCEPT ![copy + 1] =
                        IF value.v >= top THEN Weak(h.mem[value.v].v) ELSE value],
             list |-> Append(h.list, copy)]

(* Before that, free-stack-list on the new stacks that nothing leads to.    *)
DropUnreachable ==
  /\ phase = "unreachable"
  /\ frame' = Restrict(frame, DOMAIN frame \ {NameAt(mem, a) : a \in Range(stacks)})
  /\ stacks' = liveStacks /\ liveStacks' = << >>
  /\ LET h == FoldLeft(UpdateTracker, [mem |-> mem, list |-> << >>], NewPrefix(trackers)) IN
       /\ mem' = h.mem
       /\ trackers' = h.list \o OldSuffix(trackers)
  /\ phase' = "evacuated"
  /\ UNCHANGED <<bits, heapVars, top, oldEnd, var, request, pending, p, allocated, from>>

(* If enough space was recovered: clear-remembered-set, and set-limit at    *)
(* the end of the next nursery.  If not, a full collection follows.         *)
ClearRememberedSet == ClearMark(0, oldEnd)

SetLimit(old, lim) == limit' = lim /\ top' = NurseryStart(lim, old)

FinishEvacuation ==
  /\ phase = "evacuated"
  /\ IF NurserySize <= AvailableSpace
     THEN /\ ClearRememberedSet
          /\ SetLimit(oldEnd, oldEnd + NurserySize)
          /\ mem' = WordsFrom(mem, oldEnd)
          /\ phase' = "collected"
     ELSE /\ limit' = top
          /\ phase' = "full"
          /\ UNCHANGED <<mem, bits, top>>
  /\ UNCHANGED <<size, sizeLimit, oldEnd, var, frame, lists, request, pending, p, allocated, from>>
-----------------------------------------------------------------------------
(* mark-compact: the objects that roots, fields and frames lead to slide    *)
(* down in order; the lists keep the live ones, and the rest is unmarked.   *)
Objects(m, lo, hi) == {a \in lo .. hi - 1 : m[a].k = "hdr"}
AllObjects == Objects(mem, 0, oldEnd) \cup Objects(mem, NurseryStart(limit, oldEnd), top)

Targets(words) == {w.v : w \in {w \in words : w.k = "ref"}}
References(a) ==
  Targets({mem[c] : c \in Range(Slots(mem, a))}
          \cup (IF mem[a].t = "stack" THEN {frame[NameAt(mem, a)]} ELSE {}))
Closed(S) == Targets(Range(var)) \subseteq S /\ \A a \in S : References(a) \subseteq S
Live == {a \in AllObjects : \A S \in SUBSET AllObjects : Closed(S) => a \in S}

(* The elements of a list that are in S.  Their order, which scan-stacks    *)
(* turns around, does not matter among old objects.                         *)
Kept(list, S) == FoldLeft(LAMBDA s, a : IF a \in S THEN Append(s, a) ELSE s, << >>, list)

Words(S) == UNION {a .. a + AllocationSize(mem, a) - 1 : a \in S}
SumOfSizes(S) == Cardinality(Words(S))

NewAddresses(live) == [a \in live |-> SumOfSizes({b \in live : b < a})]

MarkCompact == \E live \in {Live} : \E to \in {NewAddresses(live)} :
  LET moved(w) == IF w.k \in {"ref", "weak"}
                  THEN IF w.v \in live THEN [w EXCEPT !.v = to[w.v]] ELSE Plain
                  ELSE w
      end == SumOfSizes(live)
      origin(c) == CHOOSE a \in live : to[a] <= c /\ c < to[a] + AllocationSize(mem, a)
      kept(list) == Kept(list, live)
      relocated(list) == [i \in DOMAIN list |-> to[list[i]]] IN
  /\ mem' = [c \in Cells |-> IF c < end THEN moved(mem[origin(c) + c - to[origin(c)]]) ELSE Junk]
  /\ var' = [r \in Roots |-> moved(var[r])]
  /\ stacks' = relocated(kept(stacks))
  /\ frame' = [n \in {NameAt(mem, a) : a \in Range(kept(stacks))} |-> moved(frame[n])]
  /\ trackers' = relocated(Kept(trackers, {a \in live : mem[a + 1].v \in live}))
  /\ ClearMark(0, top)
  /\ oldEnd' = end

(* collect-garbage then makes room for the next nursery: it expands the     *)
(* heap when more than half of it would be in use, up to what it is allowed *)
(* to.                                                                      *)
InUseWithoutNursery(old) == old             \* mutated: the next nursery is left out
InUse(old) == old + NurserySize

FullCollection ==
  /\ phase = "full"
  /\ MarkCompact
  /\ LET used == InUse(oldEnd') IN
       size' = IF 2 * used > size THEN Larger(size, ExpandedSize(Smaller(sizeLimit, 2 * used)))
               ELSE size
  /\ SetLimit(oldEnd', Smaller(oldEnd' + NurserySize, size'))
  /\ phase' = "collected"
  /\ UNCHANGED <<sizeLimit, liveStacks, request, pending, p, allocated, from>>

(* collect-garbage returns to extend-heap.  After the first call the        *)
(* notifiers run: program code, which allocates, and may call extend-heap.  *)
Notify ==
  /\ phase = "collected"
  /\ ~request.again
  /\ pending' = <<request.size>> \o pending
  /\ phase' = "run" /\ request' = [size |-> 0, again |-> FALSE] /\ p' = 0 /\ from' = 0
  /\ UNCHANGED <<mem, bits, heapVars, top, oldEnd, var, frame, lists, allocated>>

(* They return, and if they left too little space collect-garbage is called *)
(* again, ...                                                               *)
Enough(n) == limit - top >= n
FirstTimeAgain(n) == [size |-> n, again |-> FALSE]    \* mutated: notifiers run again
SecondTime(n) == [size |-> n, again |-> TRUE]

NotifiersReturn ==
  /\ phase = "run"
  /\ pending # << >>
  /\ pending' = Tail(pending)
  /\ \/ /\ Enough(Head(pending))
        /\ UNCHANGED <<mem, bits, heapVars, top, oldEnd, var, frame, lists, phase, request, p, allocated, from>>
     \/ /\ ~Enough(Head(pending))
        /\ BeginCollection(SecondTime(Head(pending)))

(* ... after which there is enough, or the program ends: "Out of memory".   *)
Resume ==
  /\ phase = "collected"
  /\ request.again /\ Enough(request.size)
  /\ phase' = "run" /\ request' = [size |-> 0, again |-> FALSE] /\ p' = 0 /\ from' = 0
  /\ UNCHANGED <<mem, bits, heapVars, top, oldEnd, var, frame, lists, pending, allocated>>

OutOfMemory ==
  /\ phase = "collected"
  /\ request.again /\ ~Enough(request.size)
  /\ phase' = "fatal"
  /\ UNCHANGED <<mem, bits, heapVars, top, oldEnd, var, frame, lists, request, pending, p, allocated, from>>

Collector ==
  \/ IterateMarked \/ CopyRoots \/ CopyOldStacks \/ CompleteCopying \/ CopyNewStacks
  \/ DropUnreachable \/ FinishEvacuation \/ FullCollection
  \/ Notify \/ Resume \/ OutOfMemory
-----------------------------------------------------------------------------
(* full-heap-collection and set-max-heap-size, called by the program.       *)
FullHeapCollection ==
  /\ phase = "run"
  /\ MarkCompact
  /\ SetLimit(oldEnd', Smaller(oldEnd' + ComputeNurserySize(0, size), size))
  /\ UNCHANGED <<size, sizeLimit, phase, request, pending, p, liveStacks, from, allocated>>

SetMaxHeapSize(n) ==
  LET wanted == Smaller(RoundUp(n, PageSize), MaxSize) IN
  /\ phase = "run"
  /\ \/ /\ wanted >= size
        /\ sizeLimit' = wanted
        /\ UNCHANGED <<mem, bits, size, top, limit, oldEnd, var, frame, stacks, trackers>>
     \/ /\ wanted < size
        /\ MarkCompact
        /\ sizeLimit' = Larger(wanted, RoundUp(oldEnd', PageSize))
        /\ size' = Smaller(size, sizeLimit')
        /\ SetLimit(oldEnd', Smaller(oldEnd' + ComputeNurserySize(0, size'), size'))
  /\ UNCHANGED <<phase, request, pending, p, liveStacks, from, allocated>>

Configure == FullHeapCollection \/ \E n \in HeapLimits : SetMaxHeapSize(n)

(* refcpy, which block-copy calls for arrays instead of storing one by one: *)
(* the barrier is set-mark of the range.  Its effect on the bitset is not   *)
(* that of Barrier, so it is in SpecWithRefcpy only.                        *)
RefCopy(v, w) ==
  /\ Running
  /\ IsA(var[v], "box") /\ IsA(var[w], "box")
  /\ LET dst == var[v].v + 2
         src == var[w].v + 2 IN
       /\ mem' = [mem EXCEPT ![dst] = mem[src]]
       /\ bits' = IF dst < oldEnd THEN SetMarkRange(bits, dst, dst + 1) ELSE bits
  /\ UNCHANGED <<top, var, frame, stacks, trackers, allocated>>

Fatal == phase = "fatal" /\ UNCHANGED vars

Next ==
  \/ Program
  \/ \E n \in Requests : ExtendHeap(n)
  \/ NotifiersReturn
  \/ Collector
  \/ Configure
  \/ Fatal

(* Weak fairness of Collector, which can take a step while it collects      *)
(* (there is no deadlock): a collection runs on.  Each call of the          *)
(* notifiers returns, whatever calls of extend-heap it makes.               *)
Collecting == phase \notin {"run", "fatal"}
Fairness ==
  /\ []<>~Collecting \/ []<><<Collector>>_vars
  /\ \A n \in 1 .. MaxNested : SF_vars(Len(pending) = n /\ NotifiersReturn)

Spec == Init /\ [][Next]_vars /\ Fairness
SpecWithRefcpy == Init /\ [][Next \/ \E v, w \in Vars : RefCopy(v, w)]_vars
-----------------------------------------------------------------------------
Young(a) == a >= NurseryStart(limit, oldEnd)

TypeOK ==
  /\ mem \in [Cells -> [k : {"hdr", "ref", "weak", "plain", "junk"}, t : AllTypes \cup {""}, v : Nat]]
  /\ bits \subseteq Cells
  /\ size \in 0 .. MaxSize /\ sizeLimit \in 0 .. MaxSize
  /\ {top, limit, oldEnd, p, from} \subseteq 0 .. MaxSize
  /\ DOMAIN frame \subseteq 1 .. allocated
  /\ Range(stacks) \cup Range(trackers) \cup Range(liveStacks) \subseteq Cells
  /\ allocated \in 1 .. MaxObjects
  /\ pending \in Seq(Nat)

(* core.stanza:2205-2236, ensure-write-barrier-invariants!: while the       *)
(* program runs, the bit of every reference from an old object into the     *)
(* nursery is set.                                                          *)
WriteBarrier ==
  phase = "run" =>
    \A a \in Objects(mem, 0, oldEnd) : \A c \in Range(Slots(mem, a)) :
      mem[c].k = "ref" /\ mem[c].v >= oldEnd => c \in bits

(* The remembered set names slots of objects, nothing else: copy-object     *)
(* treats every word that iterate-marked hands it as a reference, and bits  *)
(* left from earlier layouts of the heap would make it follow a header or a *)
(* number (core.stanza:2451, 2469).                                         *)
BitsOnSlots ==
  phase = "run" => bits \subseteq UNION {Range(Slots(mem, a)) : a \in AllObjects}

(* Both directions: the remembered set holds all it must and no other word. *)
RememberedSet == WriteBarrier /\ BitsOnSlots

(* Copying never runs into the nursery it copies from: the reserved         *)
(* to-space is large enough for all of it (core.stanza:2298-2304).          *)
ToSpaceFits ==
  phase \in {"remembered", "roots", "oldStacks", "scan", "unreachable", "evacuated"} =>
    top <= from

(* What copy-stacks and update-liveness-trackers rely on: new entries come  *)
(* before old ones (core.stanza:2352, 2399), no entry is twice on a list,   *)
(* and every stack in use is on heap.stacks with its frames, which are      *)
(* released with the entry.                                                 *)
Ordered(list) ==
  \A i, j \in DOMAIN list : i < j => list[i] # list[j] /\ (Young(list[j]) => Young(list[i]))
ListsInOrder ==
  phase = "run" =>
    /\ Ordered(stacks) /\ Ordered(trackers)
    /\ {a \in Live : mem[a].t = "stack"} \subseteq Range(stacks)
    /\ DOMAIN frame = {NameAt(mem, a) : a \in Range(stacks)}
    /\ {a \in Live : mem[a].t = "tracker" /\ mem[a + 1].k = "weak"} \subseteq Range(trackers)

(* The types of the state, and the lists that the collector goes through.   *)
WellFormed == TypeOK /\ ListsInOrder

(* The program is told that memory is exhausted only when the heap is as    *)
(* large as it may become (core.stanza:2510-2511: "After full GC try        *)
(* expanding the heap to ensure the desired heap capacity"), or never can   *)
(* become large enough (2498-2499), whatever notifiers did in between.      *)
OutOfMemoryOnlyAtLimit == phase = "fatal" => size >= sizeLimit \/ request.size >= MaxSize

(* core.stanza:1102, "size-limit is the limit on heap size imposed by       *)
(* set-max-heap-size".                                                      *)
SizeWithinLimit == phase = "run" => size <= sizeLimit

(* extend-heap ends, with enough room for the allocation or fatally, and    *)
(* with it all those that wait for their notifiers: if each of these        *)
(* returns, attempts do not follow each other for ever.                     *)
ExtendHeapEnds == phase # "run" ~> (phase = "run" /\ pending = << >>) \/ phase = "fatal"
-----------------------------------------------------------------------------
(* The program's view: objects by name, forwarding pointers followed.       *)
Resolve(a) == IF mem[a].k = "ref" THEN mem[a].v ELSE a
Name(w) == IF w.k \notin {"ref", "weak"} THEN 0
           ELSE IF mem[Resolve(w.v)].k = "hdr" THEN NameAt(mem, Resolve(w.v)) ELSE -1
FieldsAt(a) ==
  IF mem[a].t = "stack" THEN IF NameAt(mem, a) \in DOMAIN frame THEN <<frame[NameAt(mem, a)]>> ELSE <<Junk>>
  ELSE [i \in DOMAIN RefSlots[mem[a].t] |-> mem[Slots(mem, a)[i]]]
WeakAt(a) == IF mem[a].t = "tracker" THEN mem[a + 1] ELSE Plain
Followed(a) == {Resolve(w.v) : w \in {w \in Range(FieldsAt(a)) \cup {WeakAt(a)} : w.k \in {"ref", "weak"}}}
Visible ==
  LET isObject(a) == mem[a].k = "hdr"
      seen[n \in 0 .. allocated] ==
        IF n = 0 THEN {Resolve(a) : a \in Targets(Range(var))}
        ELSE UNION {{a} \cup (IF isObject(a) THEN Followed(a) ELSE {}) : a \in seen[n-1]}
  IN {a \in seen[allocated] : isObject(a)}

ProgramVar == [r \in Roots |-> Name(var[r])]
ObjectAt(a) ==
  LET fields == FieldsAt(a) IN
  [type |-> mem[a].t, field |-> [i \in DOMAIN fields |-> Name(fields[i])], weak |-> Name(WeakAt(a))]
AddressOf(n) == CHOOSE a \in Cells : mem[a].k = "hdr" /\ NameAt(mem, a) = n
ProgramObj == [n \in {NameAt(mem, a) : a \in Visible} |-> ObjectAt(AddressOf(n))]
=============================================================================
