----------------------------- MODULE Finalizers -----------------------------
(***************************************************************************)
(* Finalizers: core/core.stanza 2645-2656 and 4111-4152, the notifier that *)
(* extend-heap (901-914) runs after a collection: add-all and remove-when   *)
(* of Vector (core/collections.stanza 155-161, 188-191, 215-226).  The loop *)
(* of remove-when calls a handler for each element.  Handler, finalizer,    *)
(* loop and add-all allocate, so a collection can begin in the middle of    *)
(* the notifier and run it again over the same two Vectors.                 *)
(*                                                                         *)
(* Handlers are numbered in the order they are added, one for each object. *)
(* A collection clears the trackers of any of the objects, those that the   *)
(* program has dropped and that it finds: one of the nursery leaves the old *)
(* ones alone.  Vectors do not outgrow their first arrays.  Indices are    *)
(* checked, as in a build without the flag OPTIMIZE.                       *)
(***************************************************************************)
EXTENDS Integers, Sequences, FiniteSets, SequencesExt

CONSTANTS
  MaxHandlers,   \* bound on the objects with a finalizer
  MaxDepth,      \* bound on collections begun inside the notifiers of others
  Sentinel       \* what an element is before it is set

Handlers == 1 .. MaxHandlers
Capacity == 8    \* of the array that Vector() makes

ASSUME BoundsAssumption ==
  MaxHandlers \in 0 .. Capacity /\ MaxDepth \in Nat \ {0} /\ Sentinel \notin Handlers

VARIABLES
  added,         \* number of finalizers added
  queued,        \* QUEUED-LIVENESS-HANDLERS
  array, size,   \* LIVENESS-HANDLERS: the elements from size on are stale
  cleared,       \* objects whose tracker has the value false
  loops,         \* the notifiers in progress, innermost first, and where they are
  runs,          \* how often each finalizer was started
  overlapped     \* ghost: whether notifiers were ever nested

vars == <<added, queued, array, size, cleared, loops, runs, overlapped>>

Init ==
  /\ added = 0 /\ queued = << >>
  /\ array = [i \in 1 .. Capacity |-> Sentinel] /\ size = 0
  /\ cleared = {}
  /\ loops = << >>
  /\ runs = [h \in Handlers |-> 0]
  /\ overlapped = FALSE
-----------------------------------------------------------------------------
Top == Head(loops)
SetTop(f) == loops' = <<f>> \o Tail(loops)
TopAt(place) == loops # << >> /\ Top.at = place

(* add-finalizer, by the program or a finalizer; the object is in use.      *)
AddFinalizer ==
  /\ loops = << >> \/ TopAt("finalizing")
  /\ added + 1 \in Handlers
  /\ added' = added + 1
  /\ queued' = Append(queued, added')
  /\ UNCHANGED <<array, size, cleared, loops, runs, overlapped>>

(* Allocation that may exceed the nursery: by the program, by a finalizer,  *)
(* of the ranges and sequences of add-all, of the closure that remove-when  *)
(* makes before it begins, of the One in which it keeps a handler.          *)
MayAllocate(f) == f.at \in {"adding", "copying", "finalizing", "keeping"} \/ (f.at = "test" /\ f.src = 1)
MayCollect == loops # << >> => Len(loops) < MaxDepth /\ MayAllocate(Top)

(* A collection, and its notifier: add-all reads the length of the queue    *)
(* and its own size, for the range that it is to fill, ...                  *)
Collect(S) ==
  /\ MayCollect
  /\ size + Len(queued) <= Capacity
  /\ cleared' = cleared \cup S
  /\ loops' = <<[at |-> "adding", n |-> Len(queued), start |-> size]>> \o loops
  /\ overlapped' = (overlapped \/ loops # << >>)
  /\ UNCHANGED <<added, queued, array, size, runs>>
-----------------------------------------------------------------------------
(* ... makes a sequence of as many elements as the queue then has, ...      *)
MakeSequence ==
  /\ TopAt("adding")
  /\ SetTop([at |-> "copying", n |-> Top.n, start |-> Top.start, length |-> Len(queued)])
  /\ UNCHANGED <<added, queued, array, size, cleared, runs, overlapped>>

(* ... and takes n of them, if there are so many.  None of what follows     *)
(* allocates: the copying, add-all's end, and the clearing of the queue.    *)
Defined(f) ==
  /\ f.at = "copying" => f.n <= f.length /\ f.n <= Len(queued)
  /\ f.at = "test" /\ f.src <= size => f.src \in DOMAIN array /\ array[f.src] # Sentinel

ClearQueued == queued' = << >>

AddAll ==
  /\ TopAt("copying") /\ Defined(Top)
  /\ array' = [i \in 1 .. Capacity |-> IF i \in Top.start + 1 .. Top.start + Top.n
                                       THEN queued[i - Top.start] ELSE array[i]]
  /\ size' = size + Top.n
  /\ ClearQueued
  /\ SetTop([at |-> "test", src |-> 1, dst |-> 1])
  /\ UNCHANGED <<added, cleared, runs, overlapped>>

(* The innermost loop calls the handler at src, which runs its finalizer if *)
(* the object is gone.                                                      *)
Expired(h) == h \in cleared

TestHandler ==
  /\ TopAt("test") /\ Top.src <= size /\ Defined(Top)
  /\ LET h == array[Top.src] IN
     IF Expired(h)
     THEN /\ runs' = [runs EXCEPT ![h] = @ + 1]
          /\ SetTop([Top EXCEPT !.at = "finalizing"])
     ELSE /\ SetTop([at |-> "keeping", src |-> Top.src, dst |-> Top.dst, h |-> h])
          /\ UNCHANGED runs
  /\ UNCHANGED <<added, queued, array, size, cleared, overlapped>>

KeptAt(i, j) == j                    \* mutated: the elements do not move down
DestinationOf(i, j) == i

(* The value is stored at dst once its One has been allocated.              *)
KeepHandler ==
  /\ TopAt("keeping")
  /\ array' = [array EXCEPT ![DestinationOf(Top.dst, Top.src)] = Top.h]
  /\ SetTop([at |-> "test", src |-> Top.src + 1, dst |-> Top.dst + 1])
  /\ UNCHANGED <<added, queued, size, cleared, runs, overlapped>>

FinalizerEnds ==
  /\ TopAt("finalizing")
  /\ SetTop([Top EXCEPT !.at = "test", !.src = @ + 1])
  /\ UNCHANGED <<added, queued, array, size, cleared, runs, overlapped>>

NewSize(dst) == dst - 1

(* At the end extend-heap collects again if too little space is left, which *)
(* is not followed by notifiers.                                            *)
LoopEnds(S) ==
  /\ TopAt("test") /\ Top.src > size
  /\ size' = NewSize(Top.dst)
  /\ loops' = Tail(loops)
  /\ cleared' = cleared \cup S
  /\ UNCHANGED <<added, queued, array, runs, overlapped>>

(* "Empty Sequence" (8912), "out of bounds" or "uninitialized" (7616): the  *)
(* program ends.  Not unless notifiers are nested.                          *)
Fail ==
  /\ loops # << >> /\ ~Defined(Top)
  /\ loops' = <<[at |-> "failed"]>>
  /\ UNCHANGED <<added, queued, array, size, cleared, runs, overlapped>>

Failed == TopAt("failed") /\ UNCHANGED vars

Notifier ==
  \/ MakeSequence \/ AddAll
  \/ TestHandler \/ KeepHandler \/ FinalizerEnds
  \/ \E S \in SUBSET (1 .. added) : LoopEnds(S)
  \/ Fail
Collection == \E S \in SUBSET (1 .. added) : Collect(S)
Next ==
  \/ AddFinalizer
  \/ Collection
  \/ Notifier
  \/ Failed

(* Notifiers run to their end.  That the program exhausts its nursery, or   *)
(* that a collection finds what it has dropped, is not assumed.             *)
Spec == Init /\ [][Next]_vars /\ WF_vars(Notifier)
-----------------------------------------------------------------------------
TypeOK ==
  /\ added \in {0} \cup Handlers
  /\ queued \in Seq(Handlers) /\ array \in [1 .. Capacity -> Handlers \cup {Sentinel}] /\ size \in Nat
  /\ cleared \subseteq 1 .. added
  /\ \A i \in DOMAIN loops :
       loops[i].at \in {"adding", "copying", "test", "finalizing", "keeping", "failed"}
  /\ runs \in [Handlers -> Nat] /\ overlapped \in BOOLEAN

(* core.stanza:4115-4116, "LivenessHandler/run returns true if the          *)
(* LivenessHandler ran, and thus should be removed": no finalizer is run    *)
(* twice.  Nested notifiers do (README, counterexamples).                   *)
RunsOnce == \A h \in Handlers : runs[h] <= 1

(* While no collection has begun inside a notifier it holds, and only a     *)
(* handler that ran is removed: every other one is listed once, to be run   *)
(* when its object dies.                                                    *)
RunsOnceApart == ~overlapped => RunsOnce

Occurrences(h) ==
  Cardinality({i \in 1 .. size : array[i] = h}) + Cardinality({i \in DOMAIN queued : queued[i] = h})
ListedOnce ==
  ~overlapped /\ loops = << >> =>
    \A h \in 1 .. added : Occurrences(h) = (IF runs[h] = 0 THEN 1 ELSE 0)

(* Nor does the program end in add-all or in the loop.                      *)
FailsApart == TopAt("failed") => overlapped

(* The types of the state, and each handler accounted for.                  *)
WellFormed == TypeOK /\ RunsOnceApart /\ ListedOnce /\ FailsApart

(* A handler whose tracker has been cleared is found by a notifier in the   *)
(* end, if collections go on: also one that is still queued, and one whose  *)
(* tracker was cleared by extend-heap's second attempt, which is followed   *)
(* by no notifiers (core.stanza:912).  (A nested notifier may lose it.)     *)
Finalized ==
  []<><<Collection>>_vars => \A h \in Handlers : h \in cleared ~> (runs[h] > 0 \/ overlapped)
=============================================================================
