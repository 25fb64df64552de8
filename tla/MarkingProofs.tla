--------------------------- MODULE MarkingProofs ---------------------------
(***************************************************************************)
(* The mark phase and the loops on mark bits.  Marking is correct for      *)
(* every heap, every object graph, every size of the marking stack and     *)
(* every width of a bitset word.  For every width of a word and size of    *)
(* the bitset, every marking and every range, iterate-marked visits each   *)
(* mark once and in order, skip-dead finds the first, and clear-mark       *)
(* clears the range and nothing else.                                      *)
(***************************************************************************)
EXTENDS Marking, MarkBits, WellFoundedInduction, TLAPS

(* Lists and the marking stack: pushing at the front, popping, appending.   *)
LEMMA RangePush ==
  ASSUME NEW S, NEW s \in Seq(S), NEW e \in S
  PROVE  /\ <<e>> \o s \in Seq(S)
         /\ Len(<<e>> \o s) = Len(s) + 1
         /\ Range(<<e>> \o s) = {e} \cup Range(s)
         /\ <<e>> \o s # << >>
         /\ Head(<<e>> \o s) = e
<1> DEFINE t == <<e>> \o s
<1>1. /\ t \in Seq(S) /\ Len(t) = Len(s) + 1
      /\ t[1] = e /\ \A i \in 1 .. Len(s) : t[i+1] = s[i]
  OBVIOUS
<1>2. \A i \in 2 .. Len(t) : t[i] = s[i-1]
  BY <1>1
<1>3. Range(t) \subseteq {e} \cup Range(s)
  BY <1>1, <1>2 DEF Range
<1>4. {e} \cup Range(s) \subseteq Range(t)
  <2>1. 1 \in DOMAIN t
    BY <1>1
  <2>2. \A i \in DOMAIN s : i + 1 \in DOMAIN t
    BY <1>1
  <2> QED BY <1>1, <2>1, <2>2 DEF Range
<1> QED BY <1>1, <1>3, <1>4

LEMMA RangePop ==
  ASSUME NEW S, NEW s \in Seq(S), s # << >>
  PROVE  /\ Tail(s) \in Seq(S)
         /\ Len(Tail(s)) = Len(s) - 1
         /\ Head(s) \in S
         /\ Range(s) = {Head(s)} \cup Range(Tail(s))
         /\ IsInjective(s) => IsInjective(Tail(s)) /\ Head(s) \notin Range(Tail(s))
<1>1. /\ Tail(s) \in Seq(S) /\ Len(Tail(s)) = Len(s) - 1 /\ Len(s) > 0
      /\ Head(s) = s[1] /\ \A i \in 1 .. Len(s) - 1 : Tail(s)[i] = s[i+1]
  OBVIOUS
<1>2. \A i \in 2 .. Len(s) : i - 1 \in DOMAIN Tail(s) /\ Tail(s)[i-1] = s[i]
  BY <1>1
<1>3. Range(s) \subseteq {Head(s)} \cup Range(Tail(s))
  <2> SUFFICES ASSUME NEW i \in 1 .. Len(s) PROVE s[i] \in {Head(s)} \cup Range(Tail(s))
    BY DEF Range
  <2>1. CASE i = 1
    BY <2>1, <1>1
  <2>2. CASE i \in 2 .. Len(s)
    BY <2>2, <1>2 DEF Range
  <2> QED BY <2>1, <2>2
<1>4. {Head(s)} \cup Range(Tail(s)) \subseteq Range(s)
  <2>1. 1 \in DOMAIN s /\ \A i \in DOMAIN Tail(s) : i + 1 \in DOMAIN s
    BY <1>1
  <2> QED BY <1>1, <2>1 DEF Range
<1>5. ASSUME IsInjective(s) PROVE IsInjective(Tail(s)) /\ Head(s) \notin Range(Tail(s))
  <2>1. \A i \in 1 .. Len(s) - 1 : i + 1 \in DOMAIN s /\ i + 1 # 1 /\ i \in Int
    BY <1>1
  <2>2. DOMAIN Tail(s) = 1 .. Len(s) - 1 /\ 1 \in DOMAIN s
    BY <1>1
  <2>3. ASSUME NEW i \in DOMAIN Tail(s), NEW j \in DOMAIN Tail(s), Tail(s)[i] = Tail(s)[j]
        PROVE  i = j
    <3>1. s[i+1] = s[j+1]
      BY <1>1, <2>2, <2>3
    <3>2. i + 1 = j + 1
      BY <1>5, <2>1, <2>2, <3>1 DEF IsInjective
    <3> QED BY <2>1, <2>2, <3>2
  <2>4. ASSUME NEW i \in DOMAIN Tail(s) PROVE Tail(s)[i] # Head(s)
    BY <1>1, <1>5, <2>1, <2>2 DEF IsInjective
  <2> QED BY <2>3, <2>4 DEF IsInjective, Range
<1> QED BY <1>1, <1>3, <1>4, <1>5

LEMMA RangeAppend ==
  ASSUME NEW S, NEW s \in Seq(S), NEW e \in S
  PROVE  /\ Append(s, e) \in Seq(S)
         /\ Range(Append(s, e)) = Range(s) \cup {e}
         /\ IsInjective(s) /\ e \notin Range(s) => IsInjective(Append(s, e))
<1> DEFINE t == Append(s, e)
<1>1. /\ t \in Seq(S) /\ Len(t) = Len(s) + 1
      /\ t[Len(s) + 1] = e /\ \A i \in 1 .. Len(s) : t[i] = s[i]
      /\ DOMAIN t = 1 .. (Len(s) + 1) /\ DOMAIN s = 1 .. Len(s) /\ Len(s) \in Nat
  OBVIOUS
<1> HIDE DEF t
<1>2. \A i \in DOMAIN t : i \in DOMAIN s \/ i = Len(s) + 1
  BY <1>1
<1>3. DOMAIN s \subseteq DOMAIN t /\ Len(s) + 1 \in DOMAIN t
  BY <1>1
<1>4. Range(t) = Range(s) \cup {e}
  BY <1>1, <1>2, <1>3 DEF Range
<1>5. ASSUME IsInjective(s), e \notin Range(s), NEW i \in DOMAIN t, NEW j \in DOMAIN t, t[i] = t[j]
      PROVE  i = j
  <2>1. CASE i \in DOMAIN s /\ j \in DOMAIN s
    BY <1>1, <1>5, <2>1 DEF IsInjective
  <2>2. CASE i \in DOMAIN s /\ j = Len(s) + 1
    BY <1>1, <1>5, <2>2 DEF Range
  <2>3. CASE i = Len(s) + 1 /\ j \in DOMAIN s
    BY <1>1, <1>5, <2>3 DEF Range
  <2> QED BY <1>2, <2>1, <2>2, <2>3
<1>6. IsInjective(s) /\ e \notin Range(s) => IsInjective(t)
  BY <1>5 DEF IsInjective
<1> QED BY <1>1, <1>4, <1>6 DEF t
-----------------------------------------------------------------------------
(* The inductive invariant, in four parts.                                  *)

TypeInv == TypeOK /\ graph \in Graphs

(* heap.stacks and live-stacks together hold every stack once, and          *)
(* previous-stacks is an earlier head of live-stacks once a pass has begun. *)
InPass == phase \in {"complete", "sweep", "scan", "frames"}
ListInv ==
  /\ IsInjective(passed) /\ (phase # "done" => IsInjective(ahead))
  /\ Range(passed) \cap Range(ahead) = {}
  /\ Range(passed) \cap Range(live) = {}
  /\ phase # "done" => Range(ahead) \cap Range(live) = {}
  /\ phase # "done" => Range(passed) \cup Range(ahead) \cup Range(live) = Stacks
  /\ phase = "done" => ahead = live /\ freed \cup Range(live) = Stacks
  /\ phase \in {"roots", "loop", "complete", "sweep"} => passed = << >>
  /\ phase = "roots" => live = << >> /\ previous \in Stacks
  /\ InPass => previous \in Range(live) \cup {NoStack}
  /\ phase = "frames" => ahead # << >>

(* Nothing is forgotten, and a pass that moved no stack marked nothing.     *)
MarkInv ==
  /\ Range(stk) \subseteq marks /\ bits \subseteq marks
  /\ NoForgottenObject
  /\ graph.roots \subseteq marks \cup rootsTodo
  /\ phase # "roots" => rootsTodo = {}
  /\ \A s \in Range(live) : s \in marks /\ graph.frames[s] \subseteq marks
  /\ phase = "frames" => /\ Head(ahead) \in marks
                         /\ graph.frames[Head(ahead)] \subseteq marks \cup framesTodo
  /\ phase \in {"loop", "scan", "done"} => Idle
  /\ phase = "scan" /\ Top(live) = previous =>
       IncompleteRangeEmpty /\ Range(passed) \cap marks = {}
  /\ phase = "loop" /\ Top(live) = previous =>
       IncompleteRangeEmpty /\ Range(ahead) \cap marks = {}
  /\ phase = "done" => IncompleteRangeEmpty /\ freed \cap marks = {}

(* Only reachable objects are marked or about to be.                        *)
SoundInv ==
  /\ marks \subseteq Reachable
  /\ todo \subseteq Reachable
  /\ framesTodo \subseteq Reachable

IInv == TypeInv /\ ListInv /\ MarkInv /\ SoundInv
-----------------------------------------------------------------------------
LEMMA ReachableClosed == TypeInv => Closed(Reachable) /\ Reachable \subseteq Objects
<1> SUFFICES ASSUME TypeInv PROVE Closed(Reachable) /\ Reachable \subseteq Objects
  OBVIOUS
<1> USE DEF TypeInv
<1>1. Reachable \subseteq Objects
  BY DEF Reachable
<1>2. graph.roots \subseteq Reachable
  BY GraphsAssumption DEF Reachable, Closed
<1>3. ASSUME NEW o \in Reachable PROVE graph.refs[o] \subseteq Reachable
  <2>1. graph.refs[o] \subseteq Objects
    BY GraphsAssumption, <1>1
  <2>2. \A S \in SUBSET Objects : Closed(S) => o \in S
    BY DEF Reachable
  <2> QED BY <2>1, <2>2 DEF Reachable, Closed
<1>4. ASSUME NEW s \in Reachable \cap Stacks PROVE graph.frames[s] \subseteq Reachable
  <2>1. graph.frames[s] \subseteq Objects
    BY GraphsAssumption, <1>1
  <2>2. \A S \in SUBSET Objects : Closed(S) => s \in S
    BY DEF Reachable
  <2> QED BY <2>1, <2>2 DEF Reachable, Closed
<1> QED BY <1>1, <1>2, <1>3, <1>4 DEF Closed

LEMMA InitIInv == Init => IInv
<1> SUFFICES ASSUME Init PROVE IInv
  OBVIOUS
<1>1. /\ graph \in Graphs /\ graph.refs \in [Objects -> SUBSET Objects]
      /\ graph.frames \in [Stacks -> SUBSET Objects] /\ graph.roots \in SUBSET Objects
      /\ graph.stacks \in Seq(Stacks) /\ graph.stacks # << >>
      /\ IsInjective(graph.stacks) /\ Range(graph.stacks) = Stacks
  BY GraphsAssumption DEF Init, IsInjective
<1>2. Head(graph.stacks) \in Stacks
  BY <1>1
<1>3. TypeInv
  <2>1. \A S : << >> \in Seq(S) /\ Len(<< >>) = 0
    OBVIOUS
  <2> QED BY <1>1, <1>2, <2>1, ObjectsAssumption, SizesAssumption
          DEF Init, TypeInv, TypeOK, Phases
<1>4. Range(<< >>) = {} /\ IsInjective(<< >>)
  BY DEF Range, IsInjective
<1>5. ListInv
  BY <1>1, <1>2, <1>4 DEF Init, ListInv, InPass
<1>6. MarkInv
  BY <1>4 DEF Init, MarkInv, NoForgottenObject
<1>7. SoundInv
  BY DEF Init, SoundInv
<1> QED BY <1>3, <1>5, <1>6, <1>7 DEF IInv
-----------------------------------------------------------------------------
(* Types.                                                                   *)
LEMMA TypeStep == TypeInv /\ ListInv /\ [Next]_vars => TypeInv'
<1> SUFFICES ASSUME TypeInv, ListInv, [Next]_vars PROVE TypeInv'
  OBVIOUS
<1> USE DEF TypeInv, TypeOK, rangeVars, sweepVars, listVars, Phases
<1>0. /\ graph.refs \in [Objects -> SUBSET Objects]
      /\ graph.frames \in [Stacks -> SUBSET Objects] /\ graph.roots \in SUBSET Objects
      /\ Stacks \subseteq Objects /\ Objects \subseteq 0 .. (HeapLimit - 1)
      /\ HeapLimit \in Nat
  BY GraphsAssumption, ObjectsAssumption
<1>a. /\ \A x \in Objects : <<x>> \o stk \in Seq(Objects) /\ Len(<<x>> \o stk) = Len(stk) + 1
      /\ stk # << >> => /\ Tail(stk) \in Seq(Objects) /\ Len(Tail(stk)) = Len(stk) - 1
                        /\ Head(stk) \in Objects
      /\ Len(stk) \in Nat
  BY RangePush, RangePop
<1>b. /\ ahead # << >> => Tail(ahead) \in Seq(Stacks) /\ Head(ahead) \in Stacks
      /\ \A s \in Stacks : Append(passed, s) \in Seq(Stacks) /\ <<s>> \o live \in Seq(Stacks)
      /\ << >> \in Seq(Stacks)
  BY RangePush, RangePop, RangeAppend
<1>1. ASSUME NEW x \in Objects, Idle, MarkFromRoot(x)
      PROVE  marks' \subseteq Objects /\ stk' \in Seq(Objects) /\ Len(stk') <= MarkingStackSize
  <2>1. CASE x \in marks
    BY <1>1, <2>1 DEF MarkFromRoot
  <2>2. CASE x \notin marks
    <3>1. Len(stk) = 0
      BY <1>1 DEF Idle
    <3>2. marks' = marks \cup {x} /\ stk' = <<x>> \o stk
      BY <1>1, <2>2 DEF MarkFromRoot
    <3> QED BY <1>a, <3>1, <3>2, SizesAssumption
  <2> QED BY <2>1, <2>2
<1>2. CASE MarkAndPush
  <2> PICK c \in todo : MarkAndPush!(c)
    BY <1>2 DEF MarkAndPush
  <2>0. c \in 0 .. (HeapLimit - 1) /\ c \in Objects
    BY <1>0
  <2>1. CASE c \in marks
    BY <2>1
  <2>2. CASE c \notin marks /\ MarkingStackFull
    <3>1. minIncomplete' \in 0 .. HeapLimit /\ maxIncomplete' \in 0 .. HeapLimit
      BY <1>0, <2>0, <2>2 DEF ExtendIncompleteRange
    <3> QED BY <2>0, <2>2, <3>1
  <2>3. CASE c \notin marks /\ ~MarkingStackFull
    <3>1. stk' = <<c>> \o stk /\ marks' = marks \cup {c}
      BY <2>3
    <3>2. stk' \in Seq(Objects) /\ Len(stk') = Len(stk) + 1
      BY <1>a, <2>0, <3>1
    <3>3. Len(stk') <= MarkingStackSize
      BY <1>a, <2>3, <3>2, SizesAssumption DEF MarkingStackFull
    <3> QED BY <2>0, <2>3, <3>1, <3>2, <3>3
  <2> QED BY <2>1, <2>2, <2>3
<1>3. CASE PopMarkingStack
  <2>1. /\ stk # << >> /\ stk' = Tail(stk) /\ todo' = graph.refs[Head(stk)]
        /\ UNCHANGED <<graph, marks, rangeVars, phase, rootsTodo, sweepVars, listVars, framesTodo, freed>>
    BY <1>3 DEF PopMarkingStack
  <2>2. stk' \in Seq(Objects) /\ Len(stk') <= MarkingStackSize
    BY <1>a, <2>1, SizesAssumption
  <2>3. todo' \subseteq Objects
    BY <1>0, <1>a, <2>1
  <2> QED BY <2>1, <2>2, <2>3
<1>4. CASE MarkRoot
  BY <1>0, <1>1, <1>4 DEF MarkRoot
<1>5. CASE RootsDone
  BY <1>5 DEF RootsDone
<1>6. CASE NextPass
  BY <1>6 DEF NextPass, Top
<1>7. CASE FreeStackList
  BY <1>7 DEF FreeStackList, Range
<1>8. CASE CompleteMarking
  <2>1. CASE IncompleteRangeEmpty
    BY <1>8, <2>1 DEF CompleteMarking
  <2>2. CASE ~IncompleteRangeEmpty
    <3>1. minIncomplete % BitsInLong \in 0 .. (BitsInLong - 1)
      BY SizesAssumption
    <3>2. next' \in Nat /\ limit' \in Nat
      BY <1>8, <2>2, <3>1, SizesAssumption DEF CompleteMarking
    <3>3. bits' \subseteq Objects /\ phase' = "sweep"
      BY <1>8, <2>2 DEF CompleteMarking, LoadWord
    <3>4. minIncomplete' \in 0 .. HeapLimit /\ maxIncomplete' \in 0 .. HeapLimit
      BY <1>0, <1>8, <2>2 DEF CompleteMarking, ResetIncompleteRange
    <3> QED BY <1>8, <3>2, <3>3, <3>4 DEF CompleteMarking
  <2> QED BY <2>1, <2>2
<1>9. CASE SweepBit
  <2> PICK x \in bits : stk' = <<x>> /\ bits' = bits \ {x}
    BY <1>9 DEF SweepBit
  <2> QED BY <1>9, SizesAssumption DEF SweepBit
<1>10. CASE SweepWord
  BY <1>10, SizesAssumption DEF SweepWord, LoadWord
<1>11. CASE ScanStack
  BY <1>0, <1>11, <1>b DEF ScanStack
<1>12. CASE MarkFrame
  BY <1>0, <1>1, <1>12 DEF MarkFrame
<1>13. CASE MoveToLive
  BY <1>13, <1>b DEF MoveToLive, ListInv
<1>14. CASE EndOfPass
  BY <1>14, <1>b DEF EndOfPass
<1>15. CASE UNCHANGED vars
  BY <1>15 DEF vars
<1> QED BY <1>2, <1>3, <1>4, <1>5, <1>6, <1>7, <1>8, <1>9, <1>10, <1>11, <1>12,
           <1>13, <1>14, <1>15 DEF Next, Finished
-----------------------------------------------------------------------------
(* The stack lists.                                                         *)
LEMMA ListStep == TypeInv /\ ListInv /\ [Next]_vars => ListInv'
<1> SUFFICES ASSUME TypeInv, ListInv, [Next]_vars PROVE ListInv'
  OBVIOUS
<1> USE DEF listVars
<1>t. /\ ahead \in Seq(Stacks) /\ passed \in Seq(Stacks) /\ live \in Seq(Stacks)
      /\ NoStack \notin Stacks /\ previous \in Stacks \cup {NoStack}
  BY ObjectsAssumption DEF TypeInv, TypeOK
<1>e. Range(<< >>) = {} /\ IsInjective(<< >>)
  BY DEF Range, IsInjective
<1>p. ahead # << >> /\ phase # "done" =>
        /\ Head(ahead) \in Stacks
        /\ Range(ahead) = {Head(ahead)} \cup Range(Tail(ahead))
        /\ IsInjective(Tail(ahead)) /\ Head(ahead) \notin Range(Tail(ahead))
  BY <1>t, RangePop DEF ListInv
<1>1. ASSUME UNCHANGED <<listVars, phase, freed>> PROVE ListInv'
  BY <1>1 DEF ListInv, InPass
<1>2. CASE MarkAndPush
  BY <1>1, <1>2 DEF MarkAndPush
<1>3. CASE PopMarkingStack
  BY <1>1, <1>3 DEF PopMarkingStack
<1>4. CASE MarkRoot
  BY <1>1, <1>4 DEF MarkRoot
<1>5. CASE RootsDone
  BY <1>5 DEF RootsDone, ListInv, InPass
<1>6. CASE NextPass
  <2>1. live # << >> => Head(live) \in Range(live)
    BY <1>t, RangePop
  <2> QED BY <1>6, <2>1 DEF NextPass, ListInv, InPass, Top
<1>7. CASE FreeStackList
  BY <1>e, <1>7 DEF FreeStackList, ListInv, InPass
<1>8. CASE CompleteMarking
  BY <1>8 DEF CompleteMarking, ListInv, InPass
<1>9. CASE SweepBit
  BY <1>1, <1>9 DEF SweepBit
<1>10. CASE SweepWord
  BY <1>10 DEF SweepWord, ListInv, InPass
<1>11. CASE ScanStack
  <2>1. CASE TestMark(Head(ahead))
    BY <1>11, <2>1 DEF ScanStack, ListInv, InPass
  <2>2. CASE ~TestMark(Head(ahead))
    <3> DEFINE s == Head(ahead)
    <3>1. passed' = Append(passed, s) /\ ahead' = Tail(ahead) /\ ahead # << >>
          /\ UNCHANGED <<phase, live, previous, freed>> /\ phase = "scan"
      BY <1>11, <2>2 DEF ScanStack
    <3>2. Range(passed') = Range(passed) \cup {s} /\ IsInjective(passed')
      <4>1. s \in Stacks /\ s \notin Range(passed)
        BY <1>p, <3>1 DEF ListInv
      <4>2. IsInjective(passed)
        BY DEF ListInv
      <4> QED BY <1>t, <3>1, <4>1, <4>2, RangeAppend
    <3> HIDE DEF s
    <3> QED BY <1>p, <3>1, <3>2 DEF ListInv, InPass, s
  <2> QED BY <2>1, <2>2
<1>12. CASE MarkFrame
  BY <1>1, <1>12 DEF MarkFrame
<1>13. CASE MoveToLive
  <2>1. ahead # << >> /\ phase = "frames" /\ phase' = "scan" /\ ahead' = Tail(ahead)
        /\ UNCHANGED <<passed, previous, freed>> /\ live' = <<Head(ahead)>> \o live
    BY <1>13 DEF MoveToLive, ListInv
  <2>2. Range(live') = {Head(ahead)} \cup Range(live)
    BY <1>p, <1>t, <2>1, RangePush
  <2> QED BY <1>p, <2>1, <2>2 DEF ListInv, InPass
<1>14. CASE EndOfPass
  BY <1>e, <1>14 DEF EndOfPass, ListInv, InPass
<1>15. CASE UNCHANGED vars
  BY <1>1, <1>15 DEF vars
<1> QED BY <1>2, <1>3, <1>4, <1>5, <1>6, <1>7, <1>8, <1>9, <1>10, <1>11, <1>12,
           <1>13, <1>14, <1>15 DEF Next, Finished
-----------------------------------------------------------------------------
(* No marked object is forgotten.                                           *)
LEMMA MarkStep == TypeInv /\ ListInv /\ MarkInv /\ [Next]_vars => MarkInv'
<1> SUFFICES ASSUME TypeInv, ListInv, MarkInv, [Next]_vars PROVE MarkInv'
  OBVIOUS
<1> USE DEF listVars, rangeVars, sweepVars
<1>t. /\ ahead \in Seq(Stacks) /\ passed \in Seq(Stacks) /\ live \in Seq(Stacks)
      /\ stk \in Seq(Objects) /\ NoStack \notin Stacks
      /\ marks \subseteq Objects /\ todo \subseteq Objects
      /\ Objects \subseteq 0 .. (HeapLimit - 1) /\ HeapLimit \in Nat
      /\ minIncomplete \in 0 .. HeapLimit /\ maxIncomplete \in 0 .. HeapLimit
      /\ next \in Nat /\ limit \in Nat
  BY ObjectsAssumption DEF TypeInv, TypeOK
<1>p. /\ \A x \in Objects : Range(<<x>> \o stk) = {x} \cup Range(stk)
      /\ stk # << >> => Range(stk) = {Head(stk)} \cup Range(Tail(stk))
      /\ ahead # << >> => Range(ahead) = {Head(ahead)} \cup Range(Tail(ahead))
      /\ Range(<< >>) = {}
  <2>1. Range(<< >>) = {}
    BY DEF Range
  <2> QED BY <1>t, <2>1, RangePush, RangePop
(* mark-from-root puts a newly marked object on the marking stack.          *)
<1>r. ASSUME NEW x \in Objects, Idle, MarkFromRoot(x), UNCHANGED <<graph, todo, rangeVars, sweepVars, phase>>
      PROVE  /\ marks' = marks \cup {x} /\ Range(stk') \subseteq marks' /\ NoForgottenObject'
  <2>1. CASE x \in marks
    BY <1>r, <2>1 DEF MarkFromRoot, MarkInv, NoForgottenObject, Pending
  <2>2. CASE x \notin marks
    <3>1. marks' = marks \cup {x} /\ Range(stk') = {x} \cup Range(stk)
      BY <1>p, <1>r, <2>2 DEF MarkFromRoot
    <3> QED BY <1>r, <3>1 DEF MarkInv, NoForgottenObject, Pending
  <2> QED BY <2>1, <2>2
<1>2. CASE MarkAndPush
  <2> PICK c \in todo : MarkAndPush!(c)
    BY <1>2 DEF MarkAndPush
  <2>1. phase \notin {"loop", "scan", "done"}
    BY DEF MarkInv, Idle
  <2>2. marks' = marks \cup {c} /\ todo' = todo \ {c} /\ c \in Objects
        /\ UNCHANGED <<graph, phase, rootsTodo, sweepVars, listVars, framesTodo, freed>>
    BY <1>t
  <2>3. /\ \A o \in marks : Pending(o) => Pending(o)'
        /\ c \notin marks => Pending(c)'
        /\ Range(stk') \subseteq marks'
    <3>1. CASE c \in marks
      BY <2>2, <3>1 DEF Pending, MarkInv
    <3>2. CASE c \notin marks /\ MarkingStackFull
      <4>1. /\ minIncomplete' <= minIncomplete /\ maxIncomplete <= maxIncomplete'
            /\ minIncomplete' <= c /\ c <= maxIncomplete' /\ UNCHANGED stk
            /\ minIncomplete' \in Int /\ maxIncomplete' \in Int
        BY <1>t, <3>2 DEF ExtendIncompleteRange
      <4> QED BY <1>t, <2>2, <4>1 DEF Pending, MarkInv
    <3>3. CASE c \notin marks /\ ~MarkingStackFull
      <4>1. Range(stk') = {c} \cup Range(stk) /\ UNCHANGED rangeVars
        BY <1>p, <2>2, <3>3
      <4> QED BY <2>2, <4>1 DEF Pending, MarkInv
    <3> QED BY <3>1, <3>2, <3>3
  <2>4. NoForgottenObject'
    BY <2>2, <2>3 DEF NoForgottenObject, MarkInv
  <2> QED BY <2>1, <2>2, <2>3, <2>4 DEF MarkInv
<1>3. CASE PopMarkingStack
  <2>1. Range(stk) = {Head(stk)} \cup Range(stk') /\ todo' = graph.refs[Head(stk)]
        /\ todo = {} /\ phase \notin {"loop", "scan", "done"}
        /\ UNCHANGED <<graph, marks, rangeVars, phase, rootsTodo, sweepVars, listVars, framesTodo, freed>>
    BY <1>p, <1>3 DEF PopMarkingStack, MarkInv, Idle
  <2>2. NoForgottenObject'
    BY <2>1 DEF NoForgottenObject, Pending, MarkInv
  <2> QED BY <2>1, <2>2 DEF MarkInv
<1>4. CASE MarkRoot
  <2> PICK r \in rootsTodo : rootsTodo' = rootsTodo \ {r} /\ MarkFromRoot(r)
    BY <1>4 DEF MarkRoot
  <2>1. r \in Objects
    BY GraphsAssumption DEF TypeInv, TypeOK
  <2>2. phase = "roots" /\ Idle /\ UNCHANGED <<graph, todo, rangeVars, phase, sweepVars, listVars, framesTodo, freed>>
    BY <1>4 DEF MarkRoot
  <2>3. marks' = marks \cup {r} /\ Range(stk') \subseteq marks' /\ NoForgottenObject'
    BY <1>r, <2>1, <2>2
  <2> QED BY <2>2, <2>3 DEF MarkInv
<1>5. CASE RootsDone
  <2>1. phase = "roots" /\ phase' = "loop" /\ Idle /\ rootsTodo = {}
        /\ UNCHANGED <<graph, marks, stk, todo, rangeVars, rootsTodo, sweepVars, listVars, framesTodo, freed>>
    BY <1>5 DEF RootsDone, MarkInv
  <2>2. Top(live) # previous
    BY <1>t, <2>1 DEF ListInv, Top
  <2>3. NoForgottenObject'
    BY <2>1 DEF NoForgottenObject, Pending, MarkInv
  <2> QED BY <2>1, <2>2, <2>3 DEF MarkInv, Top, Idle
<1>6. CASE NextPass
  <2>1. NoForgottenObject'
    BY <1>6 DEF NextPass, NoForgottenObject, Pending, MarkInv
  <2> QED BY <1>6, <2>1 DEF NextPass, MarkInv
<1>7. CASE FreeStackList
  <2>1. NoForgottenObject'
    BY <1>7 DEF FreeStackList, NoForgottenObject, Pending, MarkInv
  <2> QED BY <1>7, <2>1 DEF FreeStackList, AnotherPass, MarkInv, Idle, IncompleteRangeEmpty
<1>8. CASE CompleteMarking
  <2>1. CASE ~IncompleteRangeEmpty
    <3>1. /\ phase = "complete" /\ phase' = "sweep" /\ limit' = maxIncomplete + 1
          /\ bits' = {a \in marks : minIncomplete <= a /\ a < limit' /\ a < next'}
          /\ UNCHANGED <<graph, marks, stk, todo, rootsTodo, listVars, framesTodo, freed>>
      BY <1>8, <2>1 DEF CompleteMarking, LoadWord
    <3>2. next' \in Nat
      BY <1>8, TypeStep DEF Next, TypeInv, TypeOK
    <3>3. \A o \in marks : Pending(o) => Pending(o)'
      BY <1>t, <3>1, <3>2 DEF Pending
    <3>4. NoForgottenObject'
      BY <3>1, <3>3 DEF NoForgottenObject, MarkInv
    <3> QED BY <3>1, <3>4 DEF MarkInv
  <2>2. CASE IncompleteRangeEmpty
    <3>1. /\ phase = "complete" /\ phase' = "scan" /\ Idle /\ passed = << >>
          /\ UNCHANGED <<graph, marks, stk, todo, rootsTodo, listVars, framesTodo, freed, rangeVars, sweepVars>>
      BY <1>8, <2>2 DEF CompleteMarking, ListInv
    <3>2. NoForgottenObject'
      BY <3>1 DEF NoForgottenObject, Pending, MarkInv
    <3> QED BY <1>p, <2>2, <3>1, <3>2 DEF MarkInv, Idle, IncompleteRangeEmpty
  <2> QED BY <2>1, <2>2
<1>9. CASE SweepBit
  <2> PICK x \in bits : stk' = <<x>> /\ bits' = bits \ {x}
    BY <1>9 DEF SweepBit
  <2>1. /\ phase = "sweep" /\ Idle
        /\ UNCHANGED <<graph, marks, todo, rangeVars, phase, rootsTodo, next, limit, listVars, framesTodo, freed>>
    BY <1>9 DEF SweepBit
  <2>2. Range(stk') = {x} /\ Range(stk) = {}
    BY <1>p, <2>1 DEF Range, Idle
  <2>3. NoForgottenObject'
    BY <2>1, <2>2 DEF NoForgottenObject, Pending, MarkInv
  <2> QED BY <2>1, <2>2, <2>3 DEF MarkInv
<1>10. CASE SweepWord
  <2>1. /\ phase = "sweep" /\ Idle /\ bits = {}
        /\ UNCHANGED <<graph, marks, stk, todo, rangeVars, rootsTodo, listVars, framesTodo, freed>>
    BY <1>10 DEF SweepWord
  <2>2. CASE next < limit
    <3>1. /\ bits' = {a \in marks : next <= a /\ a < limit /\ a < next'}
          /\ next' = next + BitsInLong /\ UNCHANGED <<phase, limit>>
      BY <1>10, <1>t, <2>2 DEF SweepWord, LoadWord
    <3>2. \A o \in marks : Pending(o) => Pending(o)'
      BY <1>t, <2>1, <3>1, SizesAssumption DEF Pending
    <3>3. NoForgottenObject'
      BY <2>1, <3>1, <3>2 DEF NoForgottenObject, MarkInv
    <3> QED BY <2>1, <3>1, <3>3 DEF MarkInv
  <2>3. CASE next >= limit
    <3>1. phase' = "complete" /\ UNCHANGED sweepVars
      BY <1>10, <1>t, <2>3 DEF SweepWord
    <3>2. \A o \in marks : Pending(o) => Pending(o)'
      BY <1>t, <2>1, <2>3, <3>1 DEF Pending
    <3>3. NoForgottenObject'
      BY <2>1, <3>1, <3>2 DEF NoForgottenObject, MarkInv
    <3> QED BY <2>1, <3>1, <3>3 DEF MarkInv
  <2> QED BY <1>t, <2>2, <2>3
<1>11. CASE ScanStack
  <2>1. /\ phase = "scan" /\ ahead # << >> /\ Idle
        /\ UNCHANGED <<graph, marks, stk, todo, rangeVars, rootsTodo, sweepVars, freed>>
    BY <1>11 DEF ScanStack, MarkInv
  <2>2. CASE TestMark(Head(ahead))
    <3>1. phase' = "frames" /\ framesTodo' = graph.frames[Head(ahead)] /\ UNCHANGED listVars
          /\ Head(ahead) \in marks
      BY <1>11, <2>2 DEF ScanStack, TestMark
    <3>2. NoForgottenObject'
      BY <2>1, <3>1 DEF NoForgottenObject, Pending, MarkInv
    <3> QED BY <2>1, <3>1, <3>2 DEF MarkInv
  <2>3. CASE ~TestMark(Head(ahead))
    <3>1. passed' = Append(passed, Head(ahead)) /\ Head(ahead) \notin marks
          /\ UNCHANGED <<phase, framesTodo, live, previous>>
      BY <1>11, <2>3 DEF ScanStack, TestMark
    <3>2. Range(passed') = Range(passed) \cup {Head(ahead)}
      BY <1>t, <2>1, <3>1, RangeAppend, RangePop
    <3>3. NoForgottenObject'
      BY <2>1, <3>1 DEF NoForgottenObject, Pending, MarkInv
    <3> QED BY <2>1, <3>1, <3>2, <3>3 DEF MarkInv, Top, Idle, IncompleteRangeEmpty
  <2> QED BY <2>2, <2>3
<1>12. CASE MarkFrame
  <2> PICK r \in framesTodo : framesTodo' = framesTodo \ {r} /\ MarkFromRoot(r)
    BY <1>12 DEF MarkFrame
  <2>1. r \in Objects
    BY DEF TypeInv, TypeOK
  <2>2. phase = "frames" /\ Idle /\ UNCHANGED <<graph, todo, rangeVars, phase, rootsTodo, sweepVars, listVars, freed>>
    BY <1>12 DEF MarkFrame
  <2>3. marks' = marks \cup {r} /\ Range(stk') \subseteq marks' /\ NoForgottenObject'
    BY <1>r, <2>1, <2>2
  <2> QED BY <2>2, <2>3 DEF MarkInv
<1>13. CASE MoveToLive
  <2>1. /\ phase = "frames" /\ phase' = "scan" /\ Idle /\ framesTodo = {} /\ ahead # << >>
        /\ live' = <<Head(ahead)>> \o live
        /\ UNCHANGED <<graph, marks, stk, todo, rangeVars, rootsTodo, sweepVars, passed, previous, framesTodo, freed>>
    BY <1>13 DEF MoveToLive, ListInv
  <2>2. Head(ahead) \in Stacks /\ Range(live') = {Head(ahead)} \cup Range(live)
        /\ Top(live') = Head(ahead)
    BY <1>t, <2>1, RangePop, RangePush DEF Top
  <2>3. Top(live') # previous'
    BY <1>p, <1>t, <2>1, <2>2 DEF ListInv, InPass
  <2>4. NoForgottenObject'
    BY <2>1 DEF NoForgottenObject, Pending, MarkInv
  <2> QED BY <2>1, <2>2, <2>3, <2>4 DEF MarkInv, Top, Idle
<1>14. CASE EndOfPass
  <2>1. /\ phase = "scan" /\ phase' = "loop" /\ ahead' = passed /\ Idle
        /\ UNCHANGED <<graph, marks, stk, todo, rangeVars, rootsTodo, sweepVars, live, previous, framesTodo, freed>>
    BY <1>14 DEF EndOfPass, MarkInv
  <2>2. NoForgottenObject'
    BY <2>1 DEF NoForgottenObject, Pending, MarkInv
  <2> QED BY <2>1, <2>2 DEF MarkInv, Top, Idle, IncompleteRangeEmpty
<1>15. CASE UNCHANGED vars
  BY <1>15 DEF vars, MarkInv, NoForgottenObject, Pending, Top, Idle, IncompleteRangeEmpty
<1> QED BY <1>2, <1>3, <1>4, <1>5, <1>6, <1>7, <1>8, <1>9, <1>10, <1>11, <1>12,
           <1>13, <1>14, <1>15 DEF Next, Finished
-----------------------------------------------------------------------------
(* No garbage is marked.                                                    *)
LEMMA SoundStep == TypeInv /\ MarkInv /\ SoundInv /\ [Next]_vars => SoundInv'
<1> SUFFICES ASSUME TypeInv, MarkInv, SoundInv, [Next]_vars PROVE SoundInv'
  OBVIOUS
<1> USE DEF listVars, rangeVars, sweepVars
<1>1. Closed(Reachable)
  BY ReachableClosed
<1>2. graph' = graph => Reachable' = Reachable
  BY DEF Reachable, Closed
<1>3. ASSUME UNCHANGED <<graph, marks, todo, framesTodo>> PROVE SoundInv'
  BY <1>2, <1>3 DEF SoundInv
<1>4. CASE MarkAndPush
  BY <1>2, <1>4 DEF MarkAndPush, SoundInv
<1>5. CASE PopMarkingStack
  <2>1. Head(stk) \in marks
    BY <1>5, RangePop DEF PopMarkingStack, TypeInv, TypeOK, MarkInv
  <2> QED BY <1>1, <1>2, <1>5, <2>1 DEF PopMarkingStack, SoundInv, Closed
<1>6. CASE MarkRoot
  <2>1. PICK r \in rootsTodo : MarkFromRoot(r)
    BY <1>6 DEF MarkRoot
  <2>2. r \in Reachable
    BY <1>1 DEF TypeInv, TypeOK, Closed
  <2> QED BY <1>2, <1>6, <2>1, <2>2 DEF MarkRoot, MarkFromRoot, SoundInv
<1>7. CASE RootsDone \/ NextPass \/ FreeStackList \/ CompleteMarking \/ SweepBit \/ SweepWord
           \/ MoveToLive \/ EndOfPass \/ UNCHANGED vars
  BY <1>3, <1>7 DEF RootsDone, NextPass, FreeStackList, CompleteMarking, SweepBit, SweepWord,
                    MoveToLive, EndOfPass, vars
<1>8. CASE ScanStack
  <2>1. CASE TestMark(Head(ahead))
    <3>1. Head(ahead) \in Stacks
      BY <1>8, RangePop DEF ScanStack, TypeInv, TypeOK
    <3> QED BY <1>1, <1>2, <1>8, <2>1, <3>1 DEF ScanStack, TestMark, SoundInv, Closed
  <2>2. CASE ~TestMark(Head(ahead))
    BY <1>3, <1>8, <2>2 DEF ScanStack
  <2> QED BY <2>1, <2>2
<1>9. CASE MarkFrame
  <2>1. PICK r \in framesTodo : framesTodo' = framesTodo \ {r} /\ MarkFromRoot(r)
    BY <1>9 DEF MarkFrame
  <2> QED BY <1>2, <1>9, <2>1 DEF MarkFrame, MarkFromRoot, SoundInv
<1> QED BY <1>4, <1>5, <1>6, <1>7, <1>8, <1>9 DEF Next, Finished

THEOREM MarkingInvariant == Spec => []IInv
<1>1. IInv /\ [Next]_vars => IInv'
  BY TypeStep, ListStep, MarkStep, SoundStep DEF IInv
<1> QED BY InitIInv, <1>1, PTL DEF Spec
-----------------------------------------------------------------------------
(* The collector's data stay well-typed, and no push of continue-marking or *)
(* mark-and-push leaves the marking stack's memory, however small it is.    *)
THEOREM MarkingTypes == Spec => []TypeOK
<1>1. IInv => TypeOK
  BY DEF IInv, TypeInv
<1> QED BY <1>1, MarkingInvariant, PTL

(* At every moment only reachable objects are marked.                       *)
THEOREM MarkingIsPrecise == Spec => []MarksOnlyReachable
<1>1. IInv => MarksOnlyReachable
  BY DEF IInv, SoundInv, MarksOnlyReachable
<1> QED BY <1>1, MarkingInvariant, PTL

(* When marking is done nothing is pending, so the marked objects are a     *)
(* closed set: this is where the overflow protocol pays off.                *)
LEMMA DoneClosed == IInv /\ phase = "done" => Closed(marks) /\ Reachable \subseteq marks
<1> SUFFICES ASSUME IInv, phase = "done" PROVE Closed(marks) /\ Reachable \subseteq marks
  OBVIOUS
<1>1. Idle /\ rootsTodo = {} /\ IncompleteRangeEmpty
  BY DEF IInv, MarkInv
<1>2. Range(stk) = {}
  BY <1>1 DEF Idle, Range
<1>3. marks \subseteq Objects /\ minIncomplete \in Int /\ maxIncomplete \in Int
      /\ Objects \subseteq Int
  BY ObjectsAssumption DEF IInv, TypeInv, TypeOK
<1>4. \A o \in marks : ~Pending(o)
  BY <1>1, <1>2, <1>3 DEF Pending, IncompleteRangeEmpty
<1>5. \A o \in marks : graph.refs[o] \subseteq marks
  BY <1>1, <1>4 DEF IInv, MarkInv, NoForgottenObject, Idle
<1>6. \A s \in marks \cap Stacks : s \in Range(live)
  BY DEF IInv, ListInv, MarkInv
<1>7. Closed(marks)
  BY <1>1, <1>5, <1>6 DEF Closed, IInv, MarkInv
<1> QED BY <1>3, <1>7 DEF Reachable

(* When mark-reachable-objects returns, every reachable object is marked.   *)
THEOREM MarkingIsComplete == Spec => []MarksAllReachable
<1>1. IInv => MarksAllReachable
  BY DoneClosed DEF MarksAllReachable
<1> QED BY <1>1, MarkingInvariant, PTL

(* scan-stacks keeps exactly the reachable stacks and disposes of the       *)
(* frames of the others only.                                               *)
THEOREM StacksFreedAreDead == Spec => []FreesDeadStacksOnly
<1>1. ASSUME IInv, phase = "done"
      PROVE  freed = Stacks \ Reachable /\ Range(ahead) = Stacks \cap Reachable
  <2>1. marks = Reachable
    BY <1>1, DoneClosed DEF IInv, SoundInv
  <2>2. freed \cap marks = {} /\ Range(live) \subseteq marks /\ ahead = live
        /\ freed \cup Range(live) = Stacks
    BY <1>1 DEF IInv, MarkInv, ListInv
  <2> QED BY <2>1, <2>2
<1>2. IInv => FreesDeadStacksOnly
  BY <1>1 DEF FreesDeadStacksOnly
<1> QED BY <1>2, MarkingInvariant, PTL
-----------------------------------------------------------------------------
(* Ranges of mark bits: the operators of BitWords, then the steps of        *)
(* iterate-marked.                                                          *)

(* A set of naturals has a least element.                                   *)
LEMMA LeastOf ==
  ASSUME NEW S, S \subseteq Nat, S # {}
  PROVE  \E m \in S : \A j \in S : m <= j
<1>1. PICK m \in S : \A j \in S : <<j, m>> \notin OpToRel(<, Nat)
  BY NatLessThanWellFounded, WFMin
<1>2. \A j \in S : ~(j < m)
  BY <1>1 DEF OpToRel
<1> QED BY <1>2

(* An index is the address of its word and a position in it...              *)
LEMMA DivMod ==
  ASSUME NEW i \in Nat
  PROVE  /\ BitAddress(i) \in Nat /\ BitShift(i) \in Positions
         /\ i = BitAddress(i) * BitsInWord + BitShift(i)
BY WordHasBits, Z3 DEF BitAddress, BitShift, Positions

(* ... and there is one way to write it so.                                 *)
LEMMA DivModUnique ==
  ASSUME NEW a \in Nat, NEW b \in Positions
  PROVE  /\ a * BitsInWord + b \in Nat
         /\ BitAddress(a * BitsInWord + b) = a
         /\ BitShift(a * BitsInWord + b) = b
<1> USE WordHasBits
<1> DEFINE i == a * BitsInWord + b
           q == BitAddress(i)
           r == BitShift(i)
<1>0. i \in Nat
  BY DEF Positions
<1>1. q \in Nat /\ r \in Positions /\ i = q * BitsInWord + r
  BY <1>0, DivMod
<1> HIDE DEF q, r
<1>2. ~(a < q)
  BY <1>1, Z3 DEF Positions
<1>3. ~(q < a)
  BY <1>1, Z3 DEF Positions
<1>4. q = a /\ r = b
  BY <1>1, <1>2, <1>3, Z3 DEF Positions
<1> QED BY <1>0, <1>4 DEF q, r

(* The first index of a word of the bitset.                                 *)
First(a) == a * BitsInWord

(* One word begins where the one before it ends.                            *)
LEMMA FirstIs ==
  ASSUME NEW a \in Nat
  PROVE  First(a) \in Nat /\ First(a + 1) = First(a) + BitsInWord /\ First(0) = 0
BY WordHasBits, Z3 DEF First

(* Words are in the order of their addresses.                               *)
LEMMA FirstMonotone ==
  ASSUME NEW a \in Nat, NEW b \in Nat, a <= b
  PROVE  First(a) <= First(b)
BY WordHasBits, Z3 DEF First

(* The indices of the bits of a word.                                       *)
LEMMA InWord ==
  ASSUME NEW c \in Nat, NEW a \in Nat
  PROVE  BitAddress(c) = a <=> First(a) <= c /\ c < First(a) + BitsInWord
<1>1. ASSUME BitAddress(c) = a PROVE First(a) <= c /\ c < First(a) + BitsInWord
  <2>1. c = First(a) + BitShift(c) /\ BitShift(c) \in Positions
    BY <1>1, DivMod DEF First
  <2> QED BY <2>1, FirstIs, WordHasBits DEF Positions
<1>2. ASSUME First(a) <= c, c < First(a) + BitsInWord PROVE BitAddress(c) = a
  <2>1. c - First(a) \in Positions /\ c = First(a) + (c - First(a))
    BY <1>2, FirstIs, WordHasBits DEF Positions
  <2> DEFINE b == c - First(a)
  <2>2. BitAddress(First(a) + b) = a
    BY <2>1, DivModUnique DEF First
  <2> QED BY <2>1, <2>2
<1> QED BY <1>1, <1>2

(* The position of an index, from the beginning of its word.                *)
LEMMA ShiftIs ==
  ASSUME NEW c \in Nat
  PROVE  /\ BitShift(c) = c - First(BitAddress(c)) /\ BitShift(c) \in Positions
         /\ BitAddress(c) \in Nat
BY DivMod, FirstIs, WordHasBits DEF First, Positions

(* The least element, as Min chooses it.                                    *)
LEMMA MinIs ==
  ASSUME NEW S, S \subseteq Nat, S # {}
  PROVE  Min(S) \in S /\ \A x \in S : Min(S) <= x
<1>1. \E m \in S : \A x \in S : m <= x
  BY LeastOf
<1> QED BY <1>1 DEF Min

(* Nothing else is the least element.                                       *)
LEMMA MinUnique ==
  ASSUME NEW S, S \subseteq Nat, NEW m \in S, \A x \in S : m <= x
  PROVE  Min(S) = m
<1>1. Min(S) \in S /\ Min(S) <= m
  BY MinIs
<1>2. m <= Min(S) /\ m \in Nat /\ Min(S) \in Nat
  BY <1>1
<1> QED BY <1>1, <1>2

(* A word that is read has the positions of the bits that are set.          *)
LEMMA WordAtIs ==
  ASSUME NEW S, S \subseteq Nat, NEW a \in Nat
  PROVE  WordAt(S, a) = {b \in Positions : First(a) + b \in S}
<1>1. ASSUME NEW c \in S, BitAddress(c) = a
      PROVE  c - First(a) \in Positions /\ First(a) + (c - First(a)) = c
  <2>1. c \in Nat /\ First(a) \in Nat
    BY FirstIs
  <2>2. First(a) <= c /\ c < First(a) + BitsInWord
    BY <1>1, <2>1, InWord
  <2> QED BY <2>1, <2>2, WordHasBits DEF Positions
<1>2. ASSUME NEW b \in Positions
      PROVE  BitAddress(First(a) + b) = a /\ First(a) + b - First(a) = b
  BY DivModUnique, FirstIs, WordHasBits DEF First, Positions
<1>3. WordAt(S, a) = {c - First(a) : c \in {c \in S : BitAddress(c) = a}}
  BY DEF WordAt, First
<1>4. ASSUME NEW b \in WordAt(S, a) PROVE b \in Positions /\ First(a) + b \in S
  BY <1>1, <1>3
<1>5. ASSUME NEW b \in Positions, First(a) + b \in S PROVE b \in WordAt(S, a)
  <2> DEFINE c == First(a) + b
  <2>1. c \in S /\ BitAddress(c) = a
    BY <1>2, <1>5
  <2>2. b = c - First(a)
    BY FirstIs, WordHasBits DEF Positions
  <2> HIDE DEF c
  <2> QED BY <1>3, <2>1, <2>2
<1> QED BY <1>4, <1>5

(* A word that is written, as what is in the bitset then.                   *)
LEMMA SetWordIs ==
  ASSUME NEW S, S \subseteq Nat, NEW a \in Nat, NEW w, w \subseteq Positions
  PROVE  /\ SetWord(S, a, w) \subseteq Nat
         /\ \A c \in Nat : c \in SetWord(S, a, w) <=>
              IF BitAddress(c) = a THEN c - First(a) \in w ELSE c \in S
<1>1. \A b \in w : b \in Positions /\ First(a) + b \in Nat
  BY FirstIs, WordHasBits DEF Positions
<1>2. SetWord(S, a, w) \subseteq Nat
  BY <1>1 DEF SetWord, First
<1>3. ASSUME NEW c \in Nat, BitAddress(c) = a
      PROVE  c \in SetWord(S, a, w) <=> c - First(a) \in w
  <2>1. c - First(a) \in Positions /\ First(a) + (c - First(a)) = c
    <3>1. First(a) \in Nat /\ First(a) <= c /\ c < First(a) + BitsInWord
      BY <1>3, InWord, FirstIs
    <3> QED BY <3>1, WordHasBits DEF Positions
  <2>2. \A b \in w : c = First(a) + b => b = c - First(a)
    BY <1>1, <2>1, FirstIs, WordHasBits DEF Positions
  <2> QED BY <1>3, <2>1, <2>2 DEF SetWord, First
<1>4. ASSUME NEW c \in Nat, BitAddress(c) # a
      PROVE  c \in SetWord(S, a, w) <=> c \in S
  <2>1. \A b \in w : BitAddress(First(a) + b) = a
    BY <1>1, DivModUnique DEF First
  <2> QED BY <1>4, <2>1 DEF SetWord, First
<1> QED BY <1>2, <1>3, <1>4

(* Shift amounts up to the width, and 1, are not reduced.                   *)
LEMMA SmallShift ==
  ASSUME NEW n \in Positions
  PROVE  n % BitsInWord = n /\ 1 % BitsInWord = 1
<1>1. \A k \in Positions : k % BitsInWord = k
  <2> SUFFICES ASSUME NEW k \in Positions PROVE k % BitsInWord = k
    OBVIOUS
  <2>1. BitShift(0 * BitsInWord + k) = k
    BY DivModUnique
  <2> QED BY <2>1, WordHasBits DEF BitShift, Positions
<1> QED BY <1>1, WordHasBits DEF Positions

(* The masks are the positions before, after, from and up to an index.      *)
LEMMA MasksAre ==
  ASSUME NEW i \in Nat
  PROVE  /\ BitMask(i) = {BitShift(i)}
         /\ BeforeMask(i) = 0 .. BitShift(i) - 1
         /\ AfterMask(i) = BitShift(i) + 1 .. BitsInWord - 1
         /\ StartMask(i) = BitShift(i) .. BitsInWord - 1
         /\ EndMask(i) = 0 .. BitShift(i)
<1> DEFINE s == BitShift(i)
<1> USE WordHasBits
<1>1. s \in Positions /\ s % BitsInWord = s /\ 1 % BitsInWord = 1
  BY ShiftIs, SmallShift
<1> HIDE DEF s
<1>2. BitMask(i) = {s}
  <2>1. ShiftLeft({0}, s) = {s}
    BY <1>1 DEF ShiftLeft, Positions
  <2> QED BY <2>1 DEF BitMask, s
<1>3. ShiftLeft(AllOnes, s) = s .. BitsInWord - 1
  <2>1. ASSUME NEW x \in ShiftLeft(AllOnes, s) PROVE x \in s .. BitsInWord - 1
    BY <1>1 DEF ShiftLeft, AllOnes, Positions
  <2>2. ASSUME NEW x \in s .. BitsInWord - 1 PROVE x \in ShiftLeft(AllOnes, s)
    <3>1. x - s \in AllOnes /\ x = (x - s) + (s % BitsInWord) /\ x \in Positions
      BY <1>1 DEF AllOnes, Positions
    <3> QED BY <3>1 DEF ShiftLeft
  <2> QED BY <2>1, <2>2
<1>4. ShiftLeft(s .. BitsInWord - 1, 1) = s + 1 .. BitsInWord - 1
  <2>1. ASSUME NEW x \in ShiftLeft(s .. BitsInWord - 1, 1) PROVE x \in s + 1 .. BitsInWord - 1
    BY <1>1 DEF ShiftLeft, Positions
  <2>2. ASSUME NEW x \in s + 1 .. BitsInWord - 1 PROVE x \in ShiftLeft(s .. BitsInWord - 1, 1)
    <3>1. x - 1 \in s .. BitsInWord - 1 /\ x = (x - 1) + (1 % BitsInWord) /\ x \in Positions
      BY <1>1 DEF Positions
    <3> QED BY <3>1 DEF ShiftLeft
  <2> QED BY <2>1, <2>2
<1>5. \A k \in Nat : MinusOne({k}) = 0 .. k - 1
  <2> SUFFICES ASSUME NEW k \in Nat PROVE MinusOne({k}) = 0 .. k - 1
    OBVIOUS
  <2>1. Min({k}) = k
    BY MinUnique
  <2> QED BY <2>1 DEF MinusOne
<1>6. MinusOne(ShiftLeft({s}, 1)) = 0 .. s
  <2>1. CASE s + 1 \in Positions
    <3>1. ShiftLeft({s}, 1) = {s + 1}
      BY <1>1, <2>1 DEF ShiftLeft
    <3>2. MinusOne({s + 1}) = 0 .. s + 1 - 1
      BY <1>1, <1>5 DEF Positions
    <3>3. s + 1 - 1 = s
      BY <1>1 DEF Positions
    <3> QED BY <3>1, <3>2, <3>3
  <2>2. CASE s + 1 \notin Positions
    <3>1. ShiftLeft({s}, 1) = {} /\ s = BitsInWord - 1
      BY <1>1, <2>2 DEF ShiftLeft, Positions
    <3> QED BY <3>1 DEF MinusOne, AllOnes, Positions
  <2> QED BY <2>1, <2>2
<1>7. BeforeMask(i) = 0 .. s - 1
  BY <1>1, <1>2, <1>5 DEF BeforeMask, Positions
<1>8. AfterMask(i) = s + 1 .. BitsInWord - 1
  BY <1>3, <1>4 DEF AfterMask, s
<1>9. StartMask(i) = s .. BitsInWord - 1
  BY <1>3 DEF StartMask, s
<1>10. EndMask(i) = 0 .. s
  BY <1>2, <1>6 DEF EndMask
<1> QED BY <1>2, <1>7, <1>8, <1>9, <1>10 DEF s

(* Indices are in the order of their words.                                 *)
LEMMA WordsInOrder ==
  ASSUME NEW c \in Nat, NEW d \in Nat, BitAddress(c) < BitAddress(d)
  PROVE  c < d
<1>1. BitAddress(c) \in Nat /\ BitAddress(d) \in Nat
  BY ShiftIs
<1>2. c < First(BitAddress(c)) + BitsInWord /\ First(BitAddress(d)) <= d
  BY <1>1, InWord
<1>3. First(BitAddress(c) + 1) <= First(BitAddress(d))
  BY <1>1, FirstMonotone
<1> QED BY <1>1, <1>2, <1>3, FirstIs, WordHasBits

(* An index is in a set if its bit is in the word.                          *)
LEMMA AtWord ==
  ASSUME NEW S, S \subseteq Nat, NEW c \in Nat
  PROVE  /\ c - First(BitAddress(c)) \in WordAt(S, BitAddress(c)) <=> c \in S
         /\ c - First(BitAddress(c)) = BitShift(c) /\ BitShift(c) \in Positions
<1>1. /\ BitAddress(c) \in Nat /\ First(BitAddress(c)) \in Nat
      /\ BitShift(c) = c - First(BitAddress(c)) /\ BitShift(c) \in Positions
  BY ShiftIs, FirstIs
<1>2. First(BitAddress(c)) + BitShift(c) = c
  BY <1>1 DEF Positions
<1>3. BitShift(c) \in WordAt(S, BitAddress(c)) <=> c \in S
  <2> DEFINE x == BitAddress(c)
             n == BitShift(c)
  <2> HIDE DEF x, n
  <2>1. WordAt(S, x) = {b \in Positions : First(x) + b \in S}
    BY <1>1, WordAtIs DEF x
  <2>2. n \in Positions /\ First(x) + n = c
    BY <1>1, <1>2 DEF x, n
  <2> QED BY <2>1, <2>2 DEF x, n
<1> QED BY <1>1, <1>3

(* Where an index is, seen from the ends of a range.                        *)
LEMMA BeforeAndAfter ==
  ASSUME NEW i \in Nat, NEW c \in Nat, BitAddress(c) = BitAddress(i)
  PROVE  /\ BitShift(c) \in BeforeMask(i) <=> c < i
         /\ BitShift(c) \in AfterMask(i) <=> c > i
         /\ BitShift(c) \in StartMask(i) <=> c >= i
         /\ BitShift(c) \in EndMask(i) <=> c <= i
<1>1. /\ BitShift(c) = c - First(BitAddress(c)) /\ BitShift(c) \in Positions
      /\ BitShift(i) = i - First(BitAddress(c)) /\ BitShift(i) \in Positions
      /\ First(BitAddress(c)) \in Nat
  BY ShiftIs, FirstIs
<1>2. BitShift(c) < BitShift(i) <=> c < i
  BY <1>1
<1>3. BitShift(c) = BitShift(i) <=> c = i
  BY <1>1
<1>4. /\ BitShift(c) \in Nat /\ BitShift(i) \in Nat
      /\ BitShift(c) <= BitsInWord - 1 /\ BitShift(i) <= BitsInWord - 1
  BY <1>1, WordHasBits DEF Positions
<1>5. /\ BitShift(c) \in BeforeMask(i) <=> BitShift(c) < BitShift(i)
      /\ BitShift(c) \in AfterMask(i) <=> BitShift(c) > BitShift(i)
      /\ BitShift(c) \in StartMask(i) <=> BitShift(c) >= BitShift(i)
      /\ BitShift(c) \in EndMask(i) <=> BitShift(c) <= BitShift(i)
  BY <1>4, MasksAre, WordHasBits
<1> QED BY <1>2, <1>3, <1>4, <1>5
-----------------------------------------------------------------------------
(* Clearing and setting a range: in the word of its first bit, in that of   *)
(* its last, and between them.                                              *)
LEMMA ClearRange ==
  ASSUME NEW S, S \subseteq Nat, NEW a \in Nat, NEW b \in Nat
  PROVE  ClearMarkRange(S, a, b) = S \ (a .. b - 1)
<1> DEFINE first == BitAddress(a)
           last == BitAddress(b - 1)
           before == BeforeMask(a)
           after == AfterMask(b - 1)
<1>1. CASE a >= b
  BY <1>1 DEF ClearMarkRange
<1>2. ASSUME a < b
      PROVE  /\ b - 1 \in Nat /\ a <= b - 1 /\ first \in Nat /\ last \in Nat
             /\ before \subseteq Positions /\ after \subseteq Positions
             /\ first <= last
             /\ \A x : WordAt(S, x) \cap before \subseteq Positions /\ WordAt(S, x) \cap after \subseteq Positions
                       /\ WordAt(S, x) \cap (before \cup after) \subseteq Positions
  <2>1. b - 1 \in Nat /\ a <= b - 1
    BY <1>2
  <2>2. /\ first \in Nat /\ last \in Nat
        /\ BitShift(a) \in Positions /\ BitShift(b - 1) \in Positions
    BY <2>1, ShiftIs
  <2>3. before \subseteq Positions /\ after \subseteq Positions
    BY <2>1, <2>2, MasksAre, WordHasBits DEF Positions
  <2>4. first <= last
    BY <2>1, <2>2, WordsInOrder
  <2> QED BY <2>1, <2>2, <2>3, <2>4
<1>3. CASE a < b /\ first = last
  <2> DEFINE w == WordAt(S, first) \cap (before \cup after)
             R == SetWord(S, first, w)
  <2>1. ClearMarkRange(S, a, b) = R
    BY <1>3 DEF ClearMarkRange
  <2>2. R \subseteq Nat /\ \A c \in Nat : c \in R <=> IF BitAddress(c) = first THEN c - First(first) \in w ELSE c \in S
    <3>1. w \subseteq Positions /\ first \in Nat
      BY <1>2, <1>3
    <3> HIDE DEF w, first
    <3> QED BY <3>1, SetWordIs
  <2> HIDE DEF R, first, last, before, after
  <2>3. ASSUME NEW c \in Nat, BitAddress(c) = first PROVE c \in R <=> c \in S /\ (c < a \/ c > b - 1)
    <3>1. c - First(first) \in WordAt(S, first) <=> c \in S
      BY <2>3, AtWord
    <3>2. c - First(first) = BitShift(c)
      BY <2>3, AtWord
    <3>3. BitShift(c) \in before <=> c < a
      BY <2>3, BeforeAndAfter DEF before, first
    <3>4. BitShift(c) \in after <=> c > b - 1
      BY <1>2, <1>3, <2>3, BeforeAndAfter DEF after, first, last
    <3> QED BY <2>2, <2>3, <3>1, <3>2, <3>3, <3>4
  <2>4. ASSUME NEW c \in Nat, BitAddress(c) # first PROVE c \in R <=> c \in S /\ (c < a \/ c > b - 1)
    <3>1. c < a \/ c > b - 1
      <4>1. BitAddress(c) \in Nat
        BY ShiftIs
      <4>2. CASE BitAddress(c) < first
        BY <4>2, WordsInOrder DEF first
      <4>3. CASE BitAddress(c) > last
        BY <1>2, <1>3, <4>3, WordsInOrder DEF last
      <4> QED BY <1>2, <1>3, <2>4, <4>1, <4>2, <4>3
    <3> QED BY <2>2, <2>4, <3>1
  <2> HIDE DEF w
  <2>5. \A c \in Nat : c \in R <=> c \in S /\ (c < a \/ c > b - 1)
    BY <2>3, <2>4
  <2>6. ASSUME NEW c PROVE c \in R <=> c \in S \ (a .. b - 1)
    <3>1. c \in R \/ c \in S => c \in Nat
      BY <2>2
    <3>2. c \in Nat => (c \in a .. b - 1 <=> ~(c < a \/ c > b - 1))
      BY <1>2, <1>3
    <3> QED BY <2>5, <3>1, <3>2
  <2> QED BY <2>1, <2>6
<1>4. CASE a < b /\ first # last
  <2> DEFINE w == WordAt(S, first) \cap before
             v == WordAt(S, last) \cap after
             T == SetWord(S, first, w)
             U == SetWord(T, last, v)
             R == {c \in U : BitAddress(c) \notin first + 1 .. last - 1}
  <2>1. ClearMarkRange(S, a, b) = R
    BY <1>4 DEF ClearMarkRange
  <2>2. T \subseteq Nat /\ \A c \in Nat : c \in T <=> IF BitAddress(c) = first THEN c - First(first) \in w ELSE c \in S
    BY <1>2, <1>4, SetWordIs
  <2> HIDE DEF T
  <2>3. U \subseteq Nat /\ \A c \in Nat : c \in U <=> IF BitAddress(c) = last THEN c - First(last) \in v ELSE c \in T
    <3>1. v \subseteq Positions /\ last \in Nat
      BY <1>2, <1>4
    <3> HIDE DEF v, last
    <3> QED BY <2>2, <3>1, SetWordIs
  <2> HIDE DEF U, first, last, before, after
  <2>4. first < last
    BY <1>2, <1>4
  <2>5. ASSUME NEW c \in Nat PROVE c \in R <=> c \in S /\ (c < a \/ c > b - 1)
    <3>1. BitAddress(c) \in Nat /\ c - First(BitAddress(c)) = BitShift(c)
      BY ShiftIs, AtWord
    <3>2. CASE BitAddress(c) = first
      <4>1. c <= b - 1
        BY <1>2, <1>4, <2>4, <3>2, WordsInOrder DEF last
      <4>2. c \in R <=> c - First(first) \in w
        BY <1>2, <1>4, <2>2, <2>3, <2>4, <3>2
      <4>3. c - First(first) \in WordAt(S, first) <=> c \in S
        BY <3>2, AtWord
      <4>4. c - First(first) \in before <=> c < a
        BY <3>1, <3>2, BeforeAndAfter DEF before, first
      <4> QED BY <1>2, <1>4, <4>1, <4>2, <4>3, <4>4
    <3>3. CASE BitAddress(c) = last
      <4>1. ~(c < a)
        <5>1. a < c
          BY <2>4, <3>3, WordsInOrder DEF first
        <5> QED BY <5>1
      <4>2. c \in R <=> c - First(last) \in v
        BY <1>2, <1>4, <2>3, <2>4, <3>3
      <4>3. c - First(last) \in WordAt(S, last) <=> c \in S
        BY <3>3, AtWord
      <4>4. c - First(last) \in after <=> c > b - 1
        BY <1>2, <1>4, <3>1, <3>3, BeforeAndAfter DEF after, last
      <4> QED BY <4>1, <4>2, <4>3, <4>4
    <3>4. CASE BitAddress(c) \in first + 1 .. last - 1
      <4>1. a < c /\ c < b - 1
        BY <1>2, <1>4, <3>1, <3>4, WordsInOrder DEF first, last
      <4> QED BY <1>2, <1>4, <3>4, <4>1
    <3>5. CASE BitAddress(c) < first \/ BitAddress(c) > last
      <4>1. c < a \/ c > b - 1
        BY <1>2, <1>4, <3>1, <3>5, WordsInOrder DEF first, last
      <4>2. c \in R <=> c \in S
        BY <1>2, <1>4, <2>2, <2>3, <2>4, <3>1, <3>5
      <4> QED BY <4>1, <4>2
    <3> QED BY <1>2, <1>4, <3>1, <3>2, <3>3, <3>4, <3>5
  <2>6. R \subseteq Nat
    BY <2>3
  <2> HIDE DEF R
  <2>7. ASSUME NEW c PROVE c \in R <=> c \in S \ (a .. b - 1)
    <3>1. c \in R \/ c \in S => c \in Nat
      BY <2>6
    <3>2. c \in Nat => (c \in a .. b - 1 <=> ~(c < a \/ c > b - 1))
      BY <1>2, <1>4
    <3> QED BY <2>5, <3>1, <3>2
  <2> QED BY <2>1, <2>7
<1> QED BY <1>1, <1>3, <1>4
-----------------------------------------------------------------------------
(* A bitset of a whole number of words, and a range of it that is not empty.*)
InputInv ==
  /\ bitset \subseteq Nat /\ start \in Nat /\ end \in Nat
  /\ start < end /\ end <= Size

(* What the bits of a word of the range are marks of: those to be visited.  *)
MarkedIn(a) == {b \in Positions : First(a) + b \in Marked}

(* The word as both loops read it.                                          *)
WordRead(a) == IF a = BitAddress(start) THEN WordAt(bitset, a) \cap StartMask(start) ELSE WordAt(bitset, a)

(* The words of the range, and the marks in it.                             *)
LEMMA RangeWords ==
  ASSUME InputInv
  PROVE  /\ BitAddress(start) \in Nat /\ EndBitAddress \in Nat /\ BitAddress(start) <= EndBitAddress
         /\ First(BitAddress(start)) <= start
         /\ end - 1 \in Nat
         /\ \A c \in Marked : c \in Nat /\ BitAddress(c) \in BitAddress(start) .. EndBitAddress
         /\ First(EndBitAddress) < end /\ end <= First(EndBitAddress) + BitsInWord
<1>1. end - 1 \in Nat /\ start <= end - 1
  BY DEF InputInv
<1>2. \A c \in Nat : BitAddress(c) \in Nat
  BY ShiftIs
<1>3. BitAddress(start) <= EndBitAddress
  BY <1>1, <1>2, WordsInOrder DEF InputInv, EndBitAddress
<1>4. ASSUME NEW c \in Marked PROVE c \in Nat /\ BitAddress(c) \in BitAddress(start) .. EndBitAddress
  <2>1. c \in Nat /\ start <= c /\ c <= end - 1
    BY <1>1 DEF Marked, InputInv
  <2>2. ~(BitAddress(c) < BitAddress(start)) /\ ~(EndBitAddress < BitAddress(c))
    BY <1>1, <2>1, WordsInOrder DEF InputInv, EndBitAddress
  <2> QED BY <1>1, <1>2, <2>1, <2>2 DEF EndBitAddress, InputInv
<1>5. /\ First(BitAddress(start)) <= start
      /\ First(EndBitAddress) <= end - 1 /\ end - 1 < First(EndBitAddress) + BitsInWord
  BY <1>1, <1>2, InWord DEF InputInv, EndBitAddress
<1>6. First(EndBitAddress) \in Nat
  BY <1>1, <1>2, FirstIs DEF EndBitAddress
<1> QED BY <1>1, <1>2, <1>3, <1>4, <1>5, <1>6, WordHasBits DEF InputInv, EndBitAddress

(* A word of the range shows its marks; the last one when it is masked.     *)
LEMMA WordReadIs ==
  ASSUME InputInv, NEW a \in BitAddress(start) .. EndBitAddress
  PROVE  /\ WordRead(a) \subseteq Positions
         /\ a # EndBitAddress => WordRead(a) = MarkedIn(a)
         /\ WordRead(EndBitAddress) \cap EndMask(end - 1) = MarkedIn(EndBitAddress)
<1>1. /\ BitAddress(start) \in Nat /\ EndBitAddress \in Nat /\ end - 1 \in Nat
      /\ BitAddress(start) <= EndBitAddress
  BY RangeWords
<1>2. ASSUME NEW x \in BitAddress(start) .. EndBitAddress, NEW b \in Positions
      PROVE  LET c == First(x) + b IN
             /\ c \in Nat
             /\ b \in WordRead(x) <=> c \in bitset /\ start <= c
             /\ x = EndBitAddress => (b \in EndMask(end - 1) <=> c < end)
             /\ x # EndBitAddress => c < end
  <2> DEFINE c == First(x) + b
  <2>1. x \in Nat /\ c \in Nat /\ BitAddress(c) = x /\ BitShift(c) = b
    BY <1>1, DivModUnique DEF First
  <2> HIDE DEF c
  <2>2. b \in WordAt(bitset, x) <=> c \in bitset
    <3>1. bitset \subseteq Nat
      BY DEF InputInv
    <3>2. c - First(BitAddress(c)) \in WordAt(bitset, BitAddress(c)) <=> c \in bitset
      BY <2>1, <3>1, AtWord
    <3>3. c - First(BitAddress(c)) = BitShift(c)
      BY <2>1, <3>1, AtWord
    <3> QED BY <2>1, <3>2, <3>3
  <2>3. x = BitAddress(start) => (b \in StartMask(start) <=> c >= start)
    BY <2>1, BeforeAndAfter DEF InputInv
  <2>4. x # BitAddress(start) => c >= start
    <3>1. x # BitAddress(start) => start < c
      BY <1>1, <2>1, WordsInOrder DEF InputInv
    <3> QED BY <2>1, <3>1 DEF InputInv
  <2>5. x = EndBitAddress => (b \in EndMask(end - 1) <=> c <= end - 1)
    BY <1>1, <2>1, BeforeAndAfter DEF EndBitAddress
  <2>6. x # EndBitAddress => c < end - 1
    BY <1>1, <2>1, WordsInOrder DEF EndBitAddress
  <2>7. c <= end - 1 <=> c < end
    BY <2>1 DEF InputInv
  <2>8. c < end - 1 => c < end
    BY <2>1 DEF InputInv
  <2>9. start \in Nat
    BY DEF InputInv
  <2> QED BY <2>1, <2>2, <2>3, <2>4, <2>5, <2>6, <2>7, <2>8, <2>9 DEF WordRead, c
<1>3. ASSUME NEW x \in BitAddress(start) .. EndBitAddress
      PROVE  WordRead(x) \subseteq Positions
  <2>1. bitset \subseteq Nat /\ x \in Nat
    BY <1>1 DEF InputInv
  <2>2. WordAt(bitset, x) \subseteq Positions
    BY <2>1, WordAtIs
  <2> QED BY <2>2 DEF WordRead
<1>4. a # EndBitAddress => WordRead(a) = MarkedIn(a)
  BY <1>2, <1>3 DEF MarkedIn, Marked
<1>5. WordRead(EndBitAddress) \cap EndMask(end - 1) = MarkedIn(EndBitAddress)
  BY <1>1, <1>2, <1>3 DEF MarkedIn, Marked
<1> QED BY <1>3, <1>4, <1>5

(* A mark is in its word, or in one further on.                             *)
LEMMA MarkIn ==
  ASSUME InputInv, NEW a \in Nat, NEW c \in Marked, First(a) <= c
  PROVE  c \in Nat /\ (c - First(a) \in MarkedIn(a) \/ First(a + 1) <= c)
<1>1. c \in Nat /\ First(a) \in Nat /\ First(a + 1) = First(a) + BitsInWord
  BY RangeWords, FirstIs
<1>2. ASSUME c < First(a + 1) PROVE c - First(a) \in MarkedIn(a)
  <2>1. c - First(a) \in Positions /\ First(a) + (c - First(a)) = c
    BY <1>1, <1>2, WordHasBits DEF Positions
  <2> QED BY <2>1 DEF MarkedIn
<1> QED BY <1>1, <1>2, WordHasBits
-----------------------------------------------------------------------------
(* skip-dead, as a function of the word it is at.                           *)
MarksFrom(a) == {c \in Marked \cup {end} : First(a) <= c}

Found(a) ==
  IF a = EndBitAddress
  THEN IF LastWordMasked(WordRead(a), a) = {} THEN end
       ELSE a * BitsInWord + LowestOne(LastWordMasked(WordRead(a), a))
  ELSE a * BitsInWord + LowestOne(WordRead(a))
Scan(f, a) == IF a # EndBitAddress /\ WordRead(a) = {} THEN f[a + 1] ELSE Found(a)

(* There is such a function: it finds the next word that is not empty.      *)
LEMMA ScanExists ==
  ASSUME InputInv
  PROVE  \E f : f = [a \in 0 .. EndBitAddress |-> Scan(f, a)]
<1> DEFINE Stops(a) == {m \in a .. EndBitAddress : m = EndBitAddress \/ WordRead(m) # {}}
           f == [a \in 0 .. EndBitAddress |-> Found(Min(Stops(a)))]
<1>1. EndBitAddress \in Nat
  BY RangeWords
<1>2. ASSUME NEW a \in 0 .. EndBitAddress PROVE f[a] = Scan(f, a)
  <2>1. CASE a # EndBitAddress /\ WordRead(a) = {}
    <3>1. a + 1 \in 0 .. EndBitAddress /\ Stops(a) = Stops(a + 1)
      BY <1>1, <2>1
    <3>2. f[a] = Found(Min(Stops(a))) /\ f[a + 1] = Found(Min(Stops(a + 1)))
      BY <3>1
    <3> HIDE DEF f, Stops
    <3> QED BY <2>1, <3>1, <3>2 DEF Scan
  <2>2. CASE a = EndBitAddress \/ WordRead(a) # {}
    <3>1. Stops(a) \subseteq Nat /\ a \in Stops(a) /\ \A m \in Stops(a) : a <= m
      BY <1>1, <2>2
    <3>2. f[a] = Found(Min(Stops(a)))
      OBVIOUS
    <3> HIDE DEF f, Stops
    <3>3. Min(Stops(a)) = a
      BY <3>1, MinUnique
    <3> QED BY <2>2, <3>2, <3>3 DEF Scan
  <2> QED BY <2>1, <2>2
<1>3. f = [a \in 0 .. EndBitAddress |-> f[a]]
  OBVIOUS
<1> HIDE DEF f
<1>4. f = [a \in 0 .. EndBitAddress |-> Scan(f, a)]
  BY <1>2, <1>3
<1> QED BY <1>4

(* The first mark in a word is the first of the range from there on.        *)
LEMMA FirstInWord ==
  ASSUME InputInv, NEW a \in BitAddress(start) .. EndBitAddress, MarkedIn(a) # {}
  PROVE  First(a) + Min(MarkedIn(a)) = Min(MarksFrom(a))
<1> DEFINE m == Min(MarkedIn(a))
<1>1. a \in Nat /\ First(a) \in Nat /\ First(a + 1) = First(a) + BitsInWord
  BY RangeWords, FirstIs
<1>2. MarkedIn(a) \subseteq Nat
  BY WordHasBits DEF MarkedIn, Positions
<1>3. m \in MarkedIn(a) /\ \A x \in MarkedIn(a) : m <= x
  BY <1>2, MinIs
<1> HIDE DEF m
<1>4. m \in Positions /\ First(a) + m \in Marked /\ First(a) + m \in Nat
  BY <1>1, <1>2, <1>3 DEF MarkedIn
<1>5. MarksFrom(a) \subseteq Nat
  BY RangeWords DEF MarksFrom, InputInv
<1>6. First(a) + m \in MarksFrom(a)
  BY <1>1, <1>2, <1>3, <1>4 DEF MarksFrom
<1>7. ASSUME NEW c \in MarksFrom(a) PROVE First(a) + m <= c
  <2>1. CASE c \in Marked
    <3>1. First(a) <= c
      BY DEF MarksFrom
    <3>2. CASE c - First(a) \in MarkedIn(a)
      <4>1. m <= c - First(a) /\ c \in Nat
        BY <1>3, <1>5, <3>2
      <4> QED BY <1>1, <1>2, <1>3, <4>1
    <3>3. CASE First(a + 1) <= c
      <4>1. c \in Nat
        BY <1>5
      <4> QED BY <1>1, <1>4, <3>3, <4>1, WordHasBits DEF Positions
    <3> QED BY <1>1, <2>1, <3>1, <3>2, <3>3, MarkIn
  <2>2. CASE c = end
    BY <1>4, <2>2 DEF Marked, InputInv
  <2> QED BY <2>1, <2>2 DEF MarksFrom
<1>8. Min(MarksFrom(a)) = First(a) + m
  BY <1>5, <1>6, <1>7, MinUnique
<1> QED BY <1>8 DEF m

(* skip-dead finds the first mark of the range, or its limit.               *)
LEMMA SkipDeadIs ==
  ASSUME InputInv
  PROVE  SkipDead = Min(Marked \cup {end})
<1> DEFINE scan == CHOOSE f : f = [a \in 0 .. EndBitAddress |-> Scan(f, a)]
           Wrong == {k \in Nat : k <= EndBitAddress - BitAddress(start)
                                 /\ scan[EndBitAddress - k] # Min(MarksFrom(EndBitAddress - k))}
<1>1. /\ BitAddress(start) \in Nat /\ EndBitAddress \in Nat /\ BitAddress(start) <= EndBitAddress
      /\ First(EndBitAddress) < end /\ First(EndBitAddress) \in Nat
      /\ end <= First(EndBitAddress) + BitsInWord /\ end \in Nat
  BY RangeWords, FirstIs DEF InputInv
<1>2. SkipDead = scan[BitAddress(start)]
  BY Zenon DEF SkipDead, Scan, Found, WordRead
<1>3. scan = [a \in 0 .. EndBitAddress |-> Scan(scan, a)]
  BY ScanExists, Zenon
<1> HIDE DEF scan
<1>4. \A a \in 0 .. EndBitAddress : scan[a] = Scan(scan, a)
  BY <1>3
<1>5. ASSUME NEW a \in BitAddress(start) .. EndBitAddress,
             a # EndBitAddress => scan[a + 1] = Min(MarksFrom(a + 1))
      PROVE  scan[a] = Min(MarksFrom(a))
  <2>0. a \in 0 .. EndBitAddress /\ a \in Nat
    BY <1>1
  <2>1. CASE a = EndBitAddress
    <3>1. LastWordMasked(WordRead(a), a) = MarkedIn(a)
      BY <2>1, WordReadIs DEF LastWordMasked
    <3>2. CASE MarkedIn(a) = {}
      <4>1. scan[a] = end
        BY <1>4, <2>0, <2>1, <3>1, <3>2 DEF Scan, Found
      <4>2. ASSUME NEW c \in MarksFrom(a) PROVE c = end
        <5>1. ASSUME c \in Marked PROVE FALSE
          <6>1. First(a) <= c
            BY DEF MarksFrom
          <6>2. First(a + 1) <= c /\ c \in Nat
            BY <2>0, <3>2, <5>1, <6>1, MarkIn
          <6>3. c < end
            BY <5>1 DEF Marked
          <6> QED BY <1>1, <2>0, <2>1, <6>2, <6>3, FirstIs, WordHasBits
        <5> QED BY <5>1 DEF MarksFrom
      <4>3. end \in MarksFrom(a)
        BY <1>1, <2>1 DEF MarksFrom
      <4>4. MarksFrom(a) = {end}
        BY <4>2, <4>3
      <4>5. Min({end}) = end
        BY <1>1, MinUnique
      <4> QED BY <4>1, <4>4, <4>5
    <3>3. CASE MarkedIn(a) # {}
      <4>1. scan[a] = First(a) + Min(MarkedIn(a))
        BY <1>4, <2>0, <2>1, <3>1, <3>3 DEF Scan, Found, LowestOne, First
      <4> QED BY <3>3, <4>1, FirstInWord
    <3> QED BY <3>2, <3>3
  <2>2. CASE a # EndBitAddress /\ WordRead(a) = {}
    <3>1. MarkedIn(a) = {}
      BY <2>2, WordReadIs
    <3>2. scan[a] = Min(MarksFrom(a + 1))
      BY <1>4, <1>5, <2>0, <2>2 DEF Scan
    <3>3. First(a + 1) \in Nat /\ First(a) \in Nat /\ First(a) <= First(a + 1)
      BY <2>0, FirstIs, WordHasBits
    <3>4. First(a + 1) <= end
      <4>1. First(a + 1) <= First(EndBitAddress)
        BY <1>1, <2>0, <2>2, FirstMonotone
      <4> QED BY <1>1, <3>3, <4>1
    <3>5. ASSUME NEW c \in MarksFrom(a) PROVE c \in MarksFrom(a + 1)
      <4>1. c \in Marked => First(a + 1) <= c
        BY <2>0, <3>1, MarkIn DEF MarksFrom
      <4> QED BY <3>4, <4>1 DEF MarksFrom
    <3>6. ASSUME NEW c \in MarksFrom(a + 1) PROVE c \in MarksFrom(a)
      <4>1. c \in Nat
        BY <1>1, RangeWords DEF MarksFrom
      <4> QED BY <3>3, <4>1 DEF MarksFrom
    <3>7. MarksFrom(a) = MarksFrom(a + 1)
      BY <3>5, <3>6
    <3> QED BY <3>2, <3>7
  <2>3. CASE a # EndBitAddress /\ WordRead(a) # {}
    <3>1. MarkedIn(a) = WordRead(a)
      BY <2>3, WordReadIs
    <3>2. scan[a] = First(a) + Min(MarkedIn(a))
      BY <1>4, <2>0, <2>3, <3>1 DEF Scan, Found, LowestOne, First
    <3> QED BY <2>3, <3>1, <3>2, FirstInWord
  <2> QED BY <2>1, <2>2, <2>3
<1>6. Wrong = {}
  <2>1. ASSUME Wrong # {} PROVE FALSE
    <3>1. PICK k \in Wrong : \A j \in Wrong : k <= j
      BY <2>1, LeastOf
    <3> DEFINE a == EndBitAddress - k
    <3>2. a \in BitAddress(start) .. EndBitAddress /\ scan[a] # Min(MarksFrom(a))
      BY <1>1, <3>1
    <3>3. ASSUME a # EndBitAddress PROVE scan[a + 1] = Min(MarksFrom(a + 1))
      <4>1. k - 1 \in Nat /\ k - 1 <= EndBitAddress - BitAddress(start) /\ EndBitAddress - (k - 1) = a + 1
        BY <1>1, <3>1, <3>3
      <4>2. k - 1 \notin Wrong
        BY <3>1
      <4> QED BY <4>1, <4>2
    <3> HIDE DEF a
    <3> QED BY <1>5, <3>2, <3>3
  <2> QED BY <2>1
<1>7. scan[BitAddress(start)] = Min(MarksFrom(BitAddress(start)))
  <2> DEFINE k == EndBitAddress - BitAddress(start)
  <2>1. k \in Nat /\ k <= EndBitAddress - BitAddress(start) /\ EndBitAddress - k = BitAddress(start)
    BY <1>1
  <2> QED BY <1>6, <2>1
<1>8. MarksFrom(BitAddress(start)) = Marked \cup {end}
  <2>1. ASSUME NEW c \in Marked \cup {end} PROVE First(BitAddress(start)) <= c
    <3>1. c \in Nat /\ start <= c /\ start \in Nat
      BY RangeWords DEF Marked, InputInv
    <3>2. First(BitAddress(start)) <= start /\ First(BitAddress(start)) \in Nat
      BY <1>1, RangeWords, FirstIs
    <3> QED BY <3>1, <3>2
  <2> QED BY <2>1 DEF MarksFrom
<1> QED BY <1>2, <1>7, <1>8
-----------------------------------------------------------------------------
(* The inductive invariant of the loop: at the entry of a word the marks    *)
(* before it were visited, and within one those before p.                   *)
VisitedUpTo(n) == Range(visited) = {c \in Marked : c < n}

VisitInv ==
  /\ InputInv /\ Size % BitsInWord = 0
  /\ visited \in Seq(Nat)
  /\ \A i, j \in 1 .. Len(visited) : i < j => visited[i] < visited[j]
  /\ p \in Nat /\ p <= Size
  /\ bitAddress \in BitAddress(start) .. EndBitAddress
  /\ pc \in {"entry", "bits", "done"}
  /\ pc = "entry" => word = WordRead(bitAddress) /\ VisitedUpTo(First(bitAddress))
  /\ pc = "bits" =>
       /\ First(bitAddress) <= p /\ p <= First(bitAddress + 1)
       /\ word = {b \in Positions : p + b \in Marked /\ p + b < First(bitAddress + 1)}
       /\ VisitedUpTo(p)
  /\ pc = "done" => word = {} /\ Range(visited) = Marked

(* The last word of the range is in the bitset.                             *)
LEMMA WordsFit ==
  ASSUME InputInv, Size % BitsInWord = 0
  PROVE  First(EndBitAddress + 1) <= Size
<1>1. /\ EndBitAddress \in Nat /\ First(EndBitAddress) < end /\ First(EndBitAddress) \in Nat
      /\ First(EndBitAddress + 1) = First(EndBitAddress) + BitsInWord
  BY RangeWords, FirstIs
<1>2. Size \in Nat /\ First(EndBitAddress) < Size
  BY <1>1, SizeInWords DEF InputInv
<1>3. Size = First(BitAddress(Size)) /\ BitAddress(Size) \in Nat
  <2>1. Size = First(BitAddress(Size)) + BitShift(Size) /\ BitShift(Size) = 0
    BY <1>2, DivMod DEF First, BitShift
  <2> QED BY <1>2, <2>1, ShiftIs, FirstIs
<1>4. EndBitAddress + 1 <= BitAddress(Size)
  <2>1. ASSUME BitAddress(Size) <= EndBitAddress PROVE FALSE
    <3>1. First(BitAddress(Size)) <= First(EndBitAddress)
      BY <1>1, <1>3, <2>1, FirstMonotone
    <3> QED BY <1>1, <1>2, <1>3, <3>1
  <2> QED BY <1>1, <1>3, <2>1
<1>5. First(EndBitAddress + 1) <= First(BitAddress(Size))
  BY <1>1, <1>3, <1>4, FirstMonotone
<1> QED BY <1>3, <1>5

(* The marks before the end of a word are those before it and its own.      *)
LEMMA MarksBefore ==
  ASSUME InputInv, NEW a \in Nat, MarkedIn(a) = {}
  PROVE  {c \in Marked : c < First(a + 1)} = {c \in Marked : c < First(a)}
<1>1. First(a) \in Nat /\ First(a + 1) = First(a) + BitsInWord
  BY FirstIs
<1>2. ASSUME NEW c \in Marked PROVE c < First(a + 1) <=> c < First(a)
  <2>1. c \in Nat /\ (First(a) <= c => First(a + 1) <= c)
    BY MarkIn, RangeWords
  <2> QED BY <1>1, <2>1, WordHasBits
<1> QED BY <1>2

(* Shifting past a bit of a word, as the positions that are left.           *)
LEMMA ShiftPastIs ==
  ASSUME NEW w, w \subseteq Positions, w # {}
  PROVE  /\ LowestOne(w) \in w /\ \A x \in w : LowestOne(w) <= x
         /\ ShiftPast(w, LowestOne(w)) = {b \in Positions : b + LowestOne(w) + 1 \in w}
<1> DEFINE n == LowestOne(w)
           v == ShiftRight(w, n)
<1>0. w \subseteq Nat
  BY WordHasBits DEF Positions
<1>1. n \in w /\ \A x \in w : n <= x
  BY <1>0, MinIs DEF LowestOne
<1> HIDE DEF n
<1>2. n % BitsInWord = n /\ 1 % BitsInWord = 1 /\ n \in Nat
  BY <1>0, <1>1, SmallShift
<1>3. v = {b \in Positions : b + n \in w}
  <2>1. ASSUME NEW x \in w PROVE x - n + n = x
    BY <1>0, <1>2
  <2>3. v = {b - n : b \in w} \cap Positions
    BY <1>2 DEF ShiftRight
  <2>4. ASSUME NEW b \in Positions, b + n \in w PROVE b \in {x - n : x \in w}
    <3> DEFINE y == b + n
    <3>1. y \in w
      BY <2>4
    <3>2. b = y - n
      BY <1>2, WordHasBits DEF Positions
    <3> HIDE DEF y
    <3> QED BY <3>1, <3>2
  <2> HIDE DEF v
  <2> QED BY <2>1, <2>3, <2>4
<1> HIDE DEF v
<1>4. ShiftRight(v, 1) = {b \in Positions : b + 1 \in v}
  <2>0. v \subseteq Positions
    BY <1>3
  <2>1. ASSUME NEW x \in v PROVE x - 1 + 1 = x
    BY <2>0, WordHasBits DEF Positions
  <2>3. ShiftRight(v, 1) = {b - 1 : b \in v} \cap Positions
    BY <1>2 DEF ShiftRight
  <2>4. ASSUME NEW b \in Positions, b + 1 \in v PROVE b \in {x - 1 : x \in v}
    <3> DEFINE y == b + 1
    <3>1. y \in v
      BY <2>4
    <3>2. b = y - 1
      BY WordHasBits DEF Positions
    <3> HIDE DEF y
    <3> QED BY <3>1, <3>2
  <2> QED BY <2>1, <2>3, <2>4
<1>5. ASSUME NEW b \in Positions PROVE b + 1 \in v <=> b + n + 1 \in w
  <2>1. b + 1 + n = b + n + 1 /\ b \in Nat
    BY <1>2, WordHasBits DEF Positions
  <2>2. b + n + 1 \in w => b + 1 \in Positions
    BY <1>2, <2>1, WordHasBits DEF Positions
  <2> QED BY <1>3, <2>1, <2>2
<1> QED BY <1>1, <1>4, <1>5 DEF ShiftPast, v, n

(* What a step visits: nothing, or the mark that comes next.                *)
LEMMA VisitStep ==
  ASSUME VisitInv, [ScanNext]_scanVars
  PROVE  VisitInv'
<1>1. /\ BitAddress(start) \in Nat /\ EndBitAddress \in Nat /\ bitAddress \in Nat
      /\ First(bitAddress) \in Nat /\ First(bitAddress + 1) = First(bitAddress) + BitsInWord
      /\ First(bitAddress + 1) \in Nat
  <2>1. BitAddress(start) \in Nat /\ EndBitAddress \in Nat
    BY RangeWords DEF VisitInv
  <2>2. bitAddress \in Nat
    BY <2>1 DEF VisitInv
  <2> QED BY <2>1, <2>2, FirstIs, WordHasBits
<1>2. ASSUME UNCHANGED input
      PROVE  /\ InputInv' /\ Marked' = Marked /\ EndBitAddress' = EndBitAddress
             /\ \A a : WordRead(a)' = WordRead(a)
             /\ BitAddress(start') = BitAddress(start)
  BY <1>2 DEF VisitInv, InputInv, Marked, EndBitAddress, WordRead, StartMask, input
<1>3. First(bitAddress + 1) <= Size
  <2>1. First(bitAddress + 1) <= First(EndBitAddress + 1)
    BY <1>1, FirstMonotone DEF VisitInv
  <2>2. First(EndBitAddress + 1) <= Size
    BY WordsFit, SizeInWords DEF VisitInv
  <2>3. EndBitAddress + 1 \in Nat
    BY <1>1
  <2>4. First(EndBitAddress + 1) \in Nat
    BY <2>3, FirstIs
  <2> QED BY <1>1, <2>1, <2>2, <2>4, SizeInWords
<1>4. CASE SkipWord
  <2>1. UNCHANGED <<input, p, visited, pc>> /\ pc = "entry" /\ bitAddress' = bitAddress + 1
    BY <1>4 DEF SkipWord
  <2>2. bitAddress' \in BitAddress(start) .. EndBitAddress /\ bitAddress' # BitAddress(start)
        /\ bitAddress # EndBitAddress
    BY <1>1, <1>4 DEF SkipWord, VisitInv
  <2>3. word' = WordRead(bitAddress')
    BY <1>4, <2>2 DEF SkipWord, WordRead
  <2>4. MarkedIn(bitAddress) = {}
    BY <1>4, <2>2, WordReadIs DEF SkipWord, VisitInv
  <2>5. Range(visited') = {c \in Marked : c < First(bitAddress')}
    <3>1. Range(visited) = {c \in Marked : c < First(bitAddress)}
      BY <2>1 DEF VisitInv, VisitedUpTo
    <3>2. {c \in Marked : c < First(bitAddress + 1)} = {c \in Marked : c < First(bitAddress)}
      BY <1>1, <2>4, MarksBefore DEF VisitInv
    <3> QED BY <2>1, <3>1, <3>2
  <2> QED BY <1>2, <2>1, <2>2, <2>3, <2>5 DEF VisitInv, VisitedUpTo
<1>5. CASE EnterWord
  <2>1. UNCHANGED <<input, bitAddress, visited>> /\ pc = "entry" /\ pc' = "bits" /\ p' = First(bitAddress)
    BY <1>5 DEF EnterWord, First
  <2>2. word' = MarkedIn(bitAddress)
    BY <1>1, <1>5, WordReadIs DEF EnterWord, VisitInv
  <2>3. word' = {b \in Positions : p' + b \in Marked /\ p' + b < First(bitAddress + 1)}
    <3>1. \A b \in Positions : First(bitAddress) + b < First(bitAddress + 1)
      BY <1>1, WordHasBits DEF Positions
    <3> QED BY <2>1, <2>2, <3>1 DEF MarkedIn
  <2>4. p' \in Nat /\ p' <= Size /\ First(bitAddress) <= p' /\ p' <= First(bitAddress + 1)
    BY <1>1, <1>3, <2>1, WordHasBits, SizeInWords
  <2>5. VisitedUpTo(p)'
    BY <1>2, <2>1 DEF VisitInv, VisitedUpTo
  <2> QED BY <1>2, <2>1, <2>3, <2>4, <2>5 DEF VisitInv
<1>6. CASE Visit
  <2> DEFINE n == LowestOne(word)
  <2>1. /\ UNCHANGED <<input, bitAddress, pc>> /\ pc = "bits"
        /\ p' = p + n + 1 /\ visited' = Append(visited, p + n)
        /\ word # {}
    BY <1>6 DEF Visit
  <2>2. word \subseteq Positions /\ p \in Nat /\ visited \in Seq(Nat)
        /\ First(bitAddress) <= p /\ p <= First(bitAddress + 1)
        /\ word = {b \in Positions : p + b \in Marked /\ p + b < First(bitAddress + 1)}
    BY <2>1 DEF VisitInv
  <2>3. /\ n \in word /\ \A x \in word : n <= x
        /\ word' = {b \in Positions : b + n + 1 \in word}
    BY <1>6, <2>2, ShiftPastIs DEF Visit
  <2> HIDE DEF n
  <2>4. n \in Nat /\ p + n \in Marked /\ p + n < First(bitAddress + 1) /\ p + n \in Nat
    BY <2>2, <2>3, WordHasBits DEF Positions
  <2>5. p' \in Nat /\ First(bitAddress) <= p' /\ p' <= First(bitAddress + 1) /\ p' <= Size
    BY <1>1, <1>3, <2>1, <2>2, <2>4, SizeInWords
  <2>6. word' = {b \in Positions : p' + b \in Marked /\ p' + b < First(bitAddress + 1)}
    <3>1. ASSUME NEW b \in Positions
          PROVE  b + n + 1 \in word <=> p' + b \in Marked /\ p' + b < First(bitAddress + 1)
      <4>1. b \in Nat /\ p + (b + n + 1) = p' + b
        BY <2>1, <2>2, <2>4, WordHasBits DEF Positions
      <4>2. p' + b < First(bitAddress + 1) => b + n + 1 \in Positions
        BY <1>1, <2>1, <2>2, <2>4, <4>1, WordHasBits DEF Positions
      <4> QED BY <2>2, <4>1, <4>2
    <3> QED BY <2>3, <3>1
  <2>7. VisitedUpTo(p)'
    <3>1. Range(visited') = Range(visited) \cup {p + n}
      <4>1. /\ DOMAIN visited = 1 .. Len(visited) /\ DOMAIN visited' = 1 .. Len(visited) + 1
            /\ Len(visited) \in Nat
            /\ \A i \in 1 .. Len(visited) : visited'[i] = visited[i]
            /\ visited'[Len(visited) + 1] = p + n
        BY <2>1, <2>2, <2>4
      <4>2. \A i \in 1 .. Len(visited) + 1 : i \in 1 .. Len(visited) \/ i = Len(visited) + 1
        BY <4>1
      <4>3. \A i \in 1 .. Len(visited) : i \in 1 .. Len(visited) + 1
        BY <4>1
      <4>4. Len(visited) + 1 \in 1 .. Len(visited) + 1
        BY <4>1
      <4> QED BY <4>1, <4>2, <4>3, <4>4 DEF Range
    <3>2. ASSUME NEW c \in Marked PROVE c < p' <=> c < p \/ c = p + n
      <4>1. c \in Nat
        BY RangeWords DEF VisitInv
      <4>2. ASSUME p <= c, c < p + n PROVE FALSE
        <5>1. c - p \in Positions /\ p + (c - p) = c /\ c - p < n
          BY <2>2, <2>3, <2>4, <4>1, <4>2, WordHasBits DEF Positions
        <5>2. c < First(bitAddress + 1)
          BY <1>1, <2>2, <2>4, <4>1, <4>2
        <5>3. c - p \in word
          BY <2>2, <5>1, <5>2
        <5> QED BY <2>2, <2>3, <2>4, <4>1, <5>1, <5>3
      <4> QED BY <2>1, <2>2, <2>4, <4>1, <4>2
    <3>3. Range(visited) = {c \in Marked : c < p}
      BY <2>1 DEF VisitInv, VisitedUpTo
    <3>4. Range(visited') = {c \in Marked : c < p'}
      BY <2>4, <3>1, <3>2, <3>3
    <3> QED BY <1>2, <2>1, <3>4 DEF VisitedUpTo
  <2>8. ASSUME NEW i \in 1 .. Len(visited'), NEW j \in 1 .. Len(visited'), i < j
        PROVE  visited'[i] < visited'[j]
    <3>0. /\ Len(visited) \in Nat /\ Len(visited') = Len(visited) + 1
          /\ \A k \in 1 .. Len(visited) : visited'[k] = visited[k]
          /\ visited'[Len(visited) + 1] = p + n
      BY <2>1, <2>2, <2>4
    <3>1. CASE j <= Len(visited)
      <4>1. i \in 1 .. Len(visited) /\ j \in 1 .. Len(visited)
        BY <2>8, <3>0, <3>1
      <4> QED BY <2>8, <3>0, <4>1 DEF VisitInv
    <3>2. CASE j > Len(visited)
      <4>1. j = Len(visited) + 1 /\ i \in 1 .. Len(visited)
        BY <2>8, <3>0, <3>2
      <4>2. visited'[j] = p + n /\ visited'[i] = visited[i]
        BY <3>0, <4>1
      <4>3. visited[i] \in Range(visited)
        BY <2>2, <4>1 DEF Range
      <4>4. visited[i] < p /\ visited[i] \in Nat
        BY <2>1, <2>2, <4>1, <4>3 DEF VisitInv, VisitedUpTo
      <4> QED BY <2>2, <2>4, <4>2, <4>4
    <3> QED BY <3>0, <3>1, <3>2
  <2>9. visited' \in Seq(Nat)
    BY <2>1, <2>2, <2>4
  <2> QED BY <1>2, <2>1, <2>5, <2>6, <2>7, <2>8, <2>9 DEF VisitInv
<1>7. CASE NextWord
  <2>1. UNCHANGED <<input, p, visited>> /\ pc = "bits" /\ word = {}
    BY <1>7 DEF NextWord
  <2>2. VisitedUpTo(First(bitAddress + 1))
    <3>1. ASSUME NEW c \in Marked PROVE c < First(bitAddress + 1) <=> c < p
      <4>1. c \in Nat /\ p \in Nat /\ First(bitAddress) <= p /\ p <= First(bitAddress + 1)
        BY <2>1, RangeWords DEF VisitInv
      <4>2. ASSUME p <= c, c < First(bitAddress + 1) PROVE FALSE
        <5>1. c - p \in Positions /\ p + (c - p) = c
          BY <1>1, <4>1, <4>2, WordHasBits DEF Positions
        <5> QED BY <2>1, <4>2, <5>1 DEF VisitInv
      <4> QED BY <1>1, <4>1, <4>2
    <3> QED BY <2>1, <3>1 DEF VisitInv, VisitedUpTo
  <2>3. CASE bitAddress < EndBitAddress
    <3>1. bitAddress' = bitAddress + 1 /\ word' = WordAt(bitset, bitAddress + 1) /\ pc' = "entry"
      BY <1>7, <2>3 DEF NextWord
    <3>2. bitAddress' \in BitAddress(start) .. EndBitAddress /\ bitAddress' # BitAddress(start)
      BY <1>1, <2>3, <3>1 DEF VisitInv
    <3>3. word' = WordRead(bitAddress')
      BY <3>1, <3>2 DEF WordRead
    <3>4. Range(visited') = {c \in Marked : c < First(bitAddress')}
      BY <2>1, <2>2, <3>1 DEF VisitedUpTo
    <3> QED BY <1>2, <2>1, <3>1, <3>2, <3>3, <3>4 DEF VisitInv, VisitedUpTo
  <2>4. CASE ~(bitAddress < EndBitAddress)
    <3>1. UNCHANGED <<bitAddress, word>> /\ pc' = "done" /\ bitAddress = EndBitAddress
      BY <1>1, <1>7, <2>4 DEF NextWord, VisitInv
    <3>2. ASSUME NEW c \in Marked PROVE c < First(bitAddress + 1)
      <4>1. end <= First(EndBitAddress) + BitsInWord /\ c \in Nat /\ c < end /\ end \in Nat
        BY RangeWords DEF VisitInv, Marked, InputInv
      <4> QED BY <1>1, <3>1, <4>1
    <3>3. Range(visited) = Marked
      BY <2>2, <3>2 DEF VisitedUpTo
    <3> QED BY <1>2, <2>1, <3>1, <3>3 DEF VisitInv
  <2> QED BY <2>3, <2>4
<1>8. CASE Done \/ UNCHANGED scanVars
  BY <1>2, <1>8 DEF Done, scanVars, input, VisitInv, VisitedUpTo
<1> QED BY <1>4, <1>5, <1>6, <1>7, <1>8 DEF ScanNext

(* The loop begins at its first word, before all marks of the range.        *)
LEMMA VisitInit ==
  ASSUME ScanInit
  PROVE  VisitInv
<1>1. InputInv /\ Size % BitsInWord = 0
  BY SizeInWords DEF ScanInit, InputInv
<1>2. /\ BitAddress(start) \in Nat /\ BitAddress(start) <= EndBitAddress /\ EndBitAddress \in Nat
      /\ First(BitAddress(start)) <= start /\ First(BitAddress(start)) \in Nat
  BY <1>1, RangeWords, FirstIs
<1>3. bitAddress = BitAddress(start) /\ word = WordRead(bitAddress)
  BY DEF ScanInit, WordRead
<1>4. visited = << >> /\ visited \in Seq(Nat) /\ Range(visited) = {} /\ Len(visited) = 0
  BY DEF ScanInit, Range
<1>5. VisitedUpTo(First(bitAddress))
  <2>1. ASSUME NEW c \in Marked PROVE ~(c < First(bitAddress))
    <3>1. c \in Nat /\ start <= c /\ start \in Nat
      BY <1>1, RangeWords DEF Marked, InputInv
    <3> QED BY <1>2, <1>3, <3>1
  <2> QED BY <1>4, <2>1 DEF VisitedUpTo
<1>6. p \in Nat /\ p <= Size /\ pc = "entry"
  BY SizeInWords DEF ScanInit
<1> QED BY <1>1, <1>2, <1>3, <1>4, <1>5, <1>6 DEF VisitInv

(* The inductive invariant.                                                 *)
THEOREM MarkBitsInvariant == ScanSpec => []VisitInv
<1>1. ScanInit => VisitInv
  BY VisitInit
<1>2. VisitInv /\ [ScanNext]_scanVars => VisitInv'
  BY VisitStep
<1> QED BY <1>1, <1>2, PTL DEF ScanSpec

(* iterate-marked visits every mark of the range once, in ascending order,  *)
(* and nothing else, whatever the width of a word and wherever the range    *)
(* begins and ends in one.                                                  *)
THEOREM MarksVisited == ScanSpec => []VisitsMarked
<1>1. VisitInv => VisitsMarked
  <2> SUFFICES ASSUME VisitInv PROVE VisitsMarked
    OBVIOUS
  <2>1. EndBitAddress \in Nat /\ BitAddress(start) \in Nat /\ bitAddress \in Nat
    BY RangeWords DEF VisitInv
  <2>2. WordRead(bitAddress) \subseteq Positions
    BY WordReadIs DEF VisitInv
  <2>3. ScanTypeOK
    BY <2>1, <2>2, SizeInWords DEF ScanTypeOK, VisitInv
  <2>4. DOMAIN visited = 1 .. Len(visited)
    BY DEF VisitInv
  <2>5. Range(visited) \subseteq Marked
    BY DEF VisitInv, VisitedUpTo
  <2> QED BY <2>3, <2>4, <2>5 DEF VisitsMarked, VisitInv
<1> QED BY <1>1, MarkBitsInvariant, PTL

(* skip-dead finds the first mark of a range, or its limit, and clear-mark  *)
(* clears the range and nothing else, for any width and alignment.          *)
THEOREM RangesAreRight == ScanSpec => []RangeFunctions
<1>1. VisitInv => RangeFunctions
  <2> SUFFICES ASSUME VisitInv PROVE RangeFunctions
    OBVIOUS
  <2>1. InputInv
    BY DEF VisitInv
  <2> QED BY <2>1, SkipDeadIs, ClearRange
          DEF InputInv, RangeFunctions, SkipDeadFindsFirst, ClearMarkClearsRange
<1> QED BY <1>1, MarkBitsInvariant, PTL
=============================================================================
