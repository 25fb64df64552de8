----------------------------- MODULE Coroutines -----------------------------
(***************************************************************************)
(* Coroutines and the dynamic context: core/core.stanza 3595-4109.         *)
(*                                                                         *)
(* One coroutine runs at a time.  What it is in the middle of is the stack *)
(* of activations calls[c], innermost first: program code ("body"), and    *)
(* the functions of the runtime that wait for a thunk or for a coroutine.  *)
(* The in and out thunks of frames are program code too; ThunkOps names    *)
(* what they do besides returning.  Calls that end in fatal are no steps.  *)
(*                                                                         *)
(* All coroutines are in one C context (the check of crsp succeeds).  A    *)
(* finalizer of a coroutine runs where the program allocates.              *)
(***************************************************************************)
EXTENDS Integers, Sequences, FiniteSets, SequencesExt

CONSTANTS
  MaxCoroutines,    \* bound on the coroutines created, beside the first
  MaxSuspensions,   \* bound on the calls of suspend
  PlainFrames,      \* frames of dynamic-wind, with an in and an out thunk
  FinallyFrames,    \* frames of with-finally: an out thunk only
  ThunkOps          \* the operations that in and out thunks perform

Operations == {"create", "resume", "suspend", "break", "close", "wind", "collect"}

ASSUME BoundsAssumption == MaxCoroutines \in Nat /\ MaxSuspensions \in Nat
ASSUME FramesAssumption == PlainFrames \cap FinallyFrames = {}
ASSUME ThunkOpsAssumption == ThunkOps \subseteq Operations

Main == 0
None == -1
Coroutines == 0 .. MaxCoroutines
Winders == 1 .. MaxSuspensions
Frames == PlainFrames \cup FinallyFrames
NoWinder == 0

VARIABLES
  current,      \* current-coroutine
  status,       \* ACTIVE, SUSPENDED, OPEN or CLOSED; "unborn" before it is made
  parent,       \* of an active coroutine the one that resumed it; of the others
                \* the one that is to run on its stack's behalf, when resumed
  calls,        \* the activations on each stack, innermost first
  frames,       \* DyCtxtState.frames, most recent first
  saved,        \* DyCtxtState.saved
  registered,   \* coroutines whose DyCtxtState is registered as a finalizer
  winders,      \* the entries of each DyCtxtWinder, one for each suspend
  used,         \* number of winders made
  dead,         \* coroutines found unreachable by the collector
  around,       \* for each frame that was entered, the frames it was entered in
  ins, outs,    \* how often the thunks of each frame were called
  thrown        \* ghost: whether a thunk ever did anything besides returning

vars == <<current, status, parent, calls, frames, saved, registered, winders,
          used, dead, around, ins, outs, thrown>>

Body(thunk) == [op |-> "body", thunk |-> thunk]
Init ==
  /\ current = Main
  /\ status = [c \in Coroutines |-> IF c = Main THEN "active" ELSE "unborn"]
  /\ parent = [c \in Coroutines |-> None]
  /\ calls = [c \in Coroutines |-> IF c = Main THEN <<Body(FALSE)>> ELSE << >>]
  /\ frames = [c \in Coroutines |-> << >>]
  /\ saved = [c \in Coroutines |-> NoWinder]
  /\ registered = {}
  /\ winders = [w \in Winders |-> << >>] /\ used = 0
  /\ dead = {}
  /\ around = << >>
  /\ ins = [f \in Frames |-> 0] /\ outs = [f \in Frames |-> 0]
  /\ thrown = FALSE
-----------------------------------------------------------------------------
(* Activations of the running coroutine.                                    *)
Top == Head(calls[current])
AtTop(op) == calls[current] # << >> /\ Top.op = op
Call(activations) == calls' = [calls EXCEPT ![current] = activations \o @]
Continue(activations) == calls' = [calls EXCEPT ![current] = activations \o Tail(@)]

(* The program may call op here.                                            *)
May(op) ==
  /\ AtTop("body") /\ (Top.thunk => op \in ThunkOps)
  /\ thrown' = (thrown \/ Top.thunk)

(* c and the coroutines after it along the links, to the end or to target.  *)
Links(c) ==
  LET up[n \in 0 .. MaxCoroutines] ==
        IF n = 0 THEN c ELSE IF up[n - 1] = None THEN None ELSE parent[up[n - 1]]
  IN  up
ChainFrom(c) ==
  LET up == Links(c)
      last == CHOOSE n \in 0 .. MaxCoroutines :
                up[n] # None /\ \A m \in n + 1 .. MaxCoroutines : up[m] = None
  IN  [n \in 1 .. last + 1 |-> up[n - 1]]
ChainTo(c, target) ==
  LET chain == ChainFrom(c)
  IN  SubSeq(chain, 1, CHOOSE n \in DOMAIN chain : chain[n] = target)

Reaches(c, target) == target \in ToSet(ChainFrom(c))

(* Links from each coroutine of the chain to the one before it.             *)
Relinked(chain, first) ==
  [c \in Coroutines |->
     IF c \notin ToSet(chain) THEN parent[c]
     ELSE LET n == CHOOSE i \in DOMAIN chain : chain[i] = c
          IN  IF n = 1 THEN first ELSE chain[n - 1]]

HasFinally(w) == \E n \in DOMAIN winders[w] : winders[w][n].frame \in FinallyFrames
NumFinallyBlocks(w) ==
  CHOOSE n \in 0 .. Len(winders[w]) :
    /\ n > 0 => winders[w][n].frame \in FinallyFrames
    /\ \A m \in n + 1 .. Len(winders[w]) : winders[w][m].frame \notin FinallyFrames

(* The dynamic-winds in progress on the stack of c, innermost first.        *)
AddWinding(a, winds) == IF a.op = "dynamic-wind" THEN <<a.frame>> \o winds ELSE winds
WindingsOf(s) == FoldRight(AddWinding, s, << >>)
Windings(c) == WindingsOf(calls[c])

(* push-frame up to the call of the in thunk, and after it.                 *)
Pushing(f, c) ==
  (IF f \in PlainFrames THEN <<Body(TRUE)>> ELSE << >>)
    \o <<[op |-> "push-frame", frame |-> f, co |-> c]>>
CallIn(f) == ins' = IF f \in PlainFrames THEN [ins EXCEPT ![f] = @ + 1] ELSE ins

PushFrame ==
  /\ AtTop("push-frame")
  /\ frames' = [frames EXCEPT ![Top.co] = <<Top.frame>> \o @]
  /\ Continue(<< >>)
  /\ UNCHANGED <<current, status, parent, saved, registered, winders, used, dead,
                 around, ins, outs>>

(* pop-frame of c: the frame is popped, then its out thunk is called.       *)
CallsOut(f, callFinally) == f \in PlainFrames \/ callFinally
Popping(c, callFinally, rest) ==
  LET f == Head(frames[c]) IN
  /\ frames' = [frames EXCEPT ![c] = Tail(@)]
  /\ IF CallsOut(f, callFinally)
       THEN outs' = [outs EXCEPT ![f] = @ + 1] /\ Continue(<<Body(TRUE)>> \o rest)
       ELSE UNCHANGED outs /\ Continue(rest)
-----------------------------------------------------------------------------
(* Program code.                                                            *)
Return ==
  /\ AtTop("body")
  /\ current = Main => Len(calls[Main]) > 1
  /\ Continue(<< >>)
  /\ UNCHANGED <<current, status, parent, frames, saved, registered, winders, used,
                 dead, around, ins, outs>>

Create(c) ==
  /\ May("create")
  /\ status[c] = "unborn" /\ \A d \in Coroutines : d < c => status[d] # "unborn"
  /\ status' = [status EXCEPT ![c] = "open"]
  /\ calls' = [calls EXCEPT ![c] = <<Body(FALSE), [op |-> "end", co |-> c]>>]
  /\ UNCHANGED <<current, parent, frames, saved, registered, winders, used, dead,
                 around, ins, outs>>

(* dynamic-wind, with-finally: the frame is pushed, then the body called.    *)
DynamicWind(f) ==
  /\ May("wind")
  /\ f \notin DOMAIN around
  /\ around' = [g \in DOMAIN around \cup {f} |->
                  IF g = f THEN ToSet(Windings(current)) ELSE around[g]]
  /\ CallIn(f)
  /\ Call(Pushing(f, current)
            \o <<Body(Top.thunk), [op |-> "dynamic-wind", frame |-> f]>>)
  /\ UNCHANGED <<current, status, parent, frames, saved, registered, winders, used,
                 dead, outs>>
BodyEnds ==
  /\ AtTop("dynamic-wind")
  /\ frames[current] # << >>
  /\ Popping(current, TRUE, << >>)
  /\ UNCHANGED <<current, status, parent, saved, registered, winders, used, dead,
                 around, ins>>

(* resume: attach-coroutine, then the stack of the last one attached.       *)
\* mutated: the coroutine that was asked for runs, not the last of its chain
AttachToFirst(c) ==
  LET chain == ChainFrom(c) IN
  /\ parent' = Relinked(chain, current)
  /\ status' = [d \in Coroutines |-> IF d \in ToSet(chain) THEN "active" ELSE status[d]]
  /\ current' = c
Attach(c) ==
  LET chain == ChainFrom(c) IN
  /\ parent' = Relinked(chain, current)
  /\ status' = [d \in Coroutines |-> IF d \in ToSet(chain) THEN "active" ELSE status[d]]
  /\ current' = Last(chain)
Resume(c) ==
  /\ May("resume")
  /\ status[c] = "open" /\ c \notin dead
  /\ Attach(c)
  /\ Call(<<[op |-> "resume", co |-> c]>>)
  /\ UNCHANGED <<frames, saved, registered, winders, used, dead, around, ins, outs>>

(* free-coroutine: c and those behind it are closed and their stacks freed.  *)
Freed(c, stacks) ==
  LET chain == ToSet(ChainFrom(c)) IN
  /\ parent' = [d \in Coroutines |-> IF d \in chain THEN None ELSE parent[d]]
  /\ status' = [d \in Coroutines |-> IF d \in chain THEN "closed" ELSE status[d]]
  /\ calls' = [d \in Coroutines |-> IF d \in chain THEN << >> ELSE stacks[d]]
Returned == [calls EXCEPT ![current] = Tail(@)]

Resumed ==
  /\ AtTop("resume")
  /\ IF status[Top.co] = "closed"
       THEN Freed(Top.co, Returned)
       ELSE calls' = Returned /\ UNCHANGED <<parent, status>>
  /\ UNCHANGED <<current, frames, saved, registered, winders, used, dead, around,
                 ins, outs>>
-----------------------------------------------------------------------------
(* wind-out: frames are popped from at along the links until target is done. *)
WindingOut(target, winder, callFinally) ==
  [op |-> "wind-out", at |-> current, target |-> target, winder |-> winder,
   callFinally |-> callFinally]

(* push onto the winder.                                                    *)
\* mutated: at the wrong end
PushedAtEnd(w, entry) == [winders EXCEPT ![w] = Append(@, entry)]
Pushed(w, entry) == [winders EXCEPT ![w] = <<entry>> \o @]

WindOut ==
  /\ AtTop("wind-out")
  /\ LET c == Top.at
         w == Top.winder
     IN  IF frames[c] = << >>
           THEN /\ \/ c = Top.target /\ Continue(<< >>)
                   \/ /\ c # Top.target /\ parent[c] # None
                      /\ Continue(<<[Top EXCEPT !.at = parent[c]]>>)
                /\ UNCHANGED <<frames, winders, outs>>
           ELSE /\ Popping(c, Top.callFinally, <<Top>>)
                /\ winders' = IF w = NoWinder THEN winders
                              ELSE Pushed(w, [co |-> c, frame |-> Head(frames[c])])
  /\ UNCHANGED <<current, status, parent, saved, registered, used, dead, around, ins>>

(* detach-coroutine: the links from current to c are turned round.           *)
\* mutated: c keeps its link to the coroutine that resumed it
DetachWithLink(c, detached) ==
  LET chain == ChainTo(current, c) IN
  /\ parent[c] # None
  /\ parent' = [Relinked(chain, None) EXCEPT ![c] = parent[c]]
  /\ status' = [d \in Coroutines |-> IF d = c THEN detached
                                     ELSE IF d \in ToSet(chain) THEN "suspended"
                                     ELSE status[d]]
  /\ current' = parent[c]
Detach(c, detached) ==
  LET chain == ChainTo(current, c) IN
  /\ parent[c] # None
  /\ parent' = Relinked(chain, None)
  /\ status' = [d \in Coroutines |-> IF d = c THEN detached
                                     ELSE IF d \in ToSet(chain) THEN "suspended"
                                     ELSE status[d]]
  /\ current' = parent[c]

Suspend(c) ==
  /\ May("suspend")
  /\ c # Main /\ status[c] = "active" /\ used + 1 \in Winders
  /\ used' = used + 1
  /\ Call(<<WindingOut(c, used', FALSE), [op |-> "suspend", co |-> c, winder |-> used']>>)
  /\ UNCHANGED <<current, status, parent, frames, saved, registered, winders, dead,
                 around, ins, outs>>

\* mutated: the winder is saved when the finalizer is registered, and only then
SaveWindersOnce(c, w) ==
  IF HasFinally(w) /\ c \notin registered
    THEN saved' = [saved EXCEPT ![c] = w] /\ registered' = registered \cup {c}
    ELSE UNCHANGED <<saved, registered>>
SaveWinders(c, w) ==
  IF HasFinally(w)
    THEN saved' = [saved EXCEPT ![c] = w] /\ registered' = registered \cup {c}
    ELSE UNCHANGED <<saved, registered>>
Suspended ==
  /\ AtTop("suspend")
  /\ Reaches(current, Top.co)
  /\ SaveWinders(Top.co, Top.winder)
  /\ Detach(Top.co, "open")
  /\ Continue(<<[Top EXCEPT !.op = "suspended"]>>)
  /\ UNCHANGED <<frames, winders, used, dead, around, ins, outs>>

(* The coroutine is attached again: clear-winders, wind-in.                  *)
Reattached ==
  /\ AtTop("suspended")
  /\ saved' = [saved EXCEPT ![Top.co] = NoWinder]
  /\ LET w == Top.winder IN
     IF winders[w] = << >> THEN Continue(<< >>)
     ELSE /\ Reaches(current, Head(winders[w]).co)
          /\ Continue(<<[op |-> "wind-in", winder |-> w,
                         cos |-> Reverse(ChainTo(current, Head(winders[w]).co))]>>)
  /\ UNCHANGED <<current, status, parent, frames, registered, winders, used, dead,
                 around, ins, outs>>

WindIn ==
  /\ AtTop("wind-in")
  /\ LET w == Top.winder IN
     IF winders[w] = << >> THEN Continue(<< >>) /\ UNCHANGED <<winders, ins>>
     ELSE LET entry == Head(winders[w]) IN
          \E n \in DOMAIN Top.cos :
            /\ Top.cos[n] = entry.co
            /\ winders' = [winders EXCEPT ![w] = Tail(@)]
            /\ CallIn(entry.frame)
            /\ Continue(Pushing(entry.frame, entry.co)
                          \o <<[Top EXCEPT !.cos = SubSeq(@, n, Len(@))]>>)
  /\ UNCHANGED <<current, status, parent, frames, saved, registered, used, dead,
                 around, outs>>

(* break, by the program or at the end of a coroutine's body.                *)
Breaking(c) == <<WindingOut(c, NoWinder, TRUE), [op |-> "break", co |-> c]>>
Break(c) ==
  /\ May("break")
  /\ c # Main /\ status[c] = "active"
  /\ Call(Breaking(c))
  /\ UNCHANGED <<current, status, parent, frames, saved, registered, winders, used,
                 dead, around, ins, outs>>
CoroutineEnds ==
  /\ AtTop("end")
  /\ status[Top.co] = "active"
  /\ Continue(Breaking(Top.co))
  /\ UNCHANGED <<current, status, parent, frames, saved, registered, winders, used,
                 dead, around, ins, outs>>
Broken ==
  /\ AtTop("break")
  /\ Reaches(current, Top.co)
  /\ Detach(Top.co, "closed")
  /\ UNCHANGED <<calls, frames, saved, registered, winders, used, dead, around, ins, outs>>
-----------------------------------------------------------------------------
(* DyCtxtState/run: the saved entries are wound in and out again here.       *)
RunSaved(c, rest) ==
  /\ saved' = [saved EXCEPT ![c] = NoWinder]
  /\ Call((IF saved[c] = NoWinder THEN << >>
           ELSE <<[op |-> "wind-in-out", winder |-> saved[c],
                   left |-> NumFinallyBlocks(saved[c])]>>) \o rest)
WindInOut ==
  /\ AtTop("wind-in-out")
  /\ LET w == Top.winder IN
     IF Top.left = 0 THEN Continue(<< >>) /\ UNCHANGED <<winders, ins>>
     ELSE /\ winders[w] # << >>
          /\ LET f == Head(winders[w]).frame IN
             /\ winders' = [winders EXCEPT ![w] = Tail(@)]
             /\ CallIn(f)
             /\ Continue(Pushing(f, current)
                           \o <<[Top EXCEPT !.left = @ - 1], [op |-> "dynamic-wind", frame |-> f]>>)
  /\ UNCHANGED <<current, status, parent, frames, saved, registered, used, dead,
                 around, outs>>

Close(c) ==
  /\ May("close")
  /\ status[c] = "open" /\ c \notin dead
  /\ RunSaved(c, <<[op |-> "close", co |-> c]>>)
  /\ UNCHANGED <<current, status, parent, frames, registered, winders, used, dead,
                 around, ins, outs>>
Closed ==
  /\ AtTop("close")
  /\ Freed(Top.co, Returned)
  /\ UNCHANGED <<current, frames, saved, registered, winders, used, dead, around,
                 ins, outs>>

(* The collector found that nothing refers to c: its finalizer runs.         *)
Collect(c) ==
  /\ May("collect")
  /\ status[c] = "open" /\ c \in registered \ dead
  /\ dead' = dead \cup {c}
  /\ RunSaved(c, << >>)
  /\ UNCHANGED <<current, status, parent, frames, registered, winders, used,
                 around, ins, outs>>
-----------------------------------------------------------------------------
Program ==
  \/ Return /\ UNCHANGED thrown
  \/ \E c \in Coroutines : Create(c) \/ Resume(c) \/ Suspend(c) \/ Break(c)
                             \/ Close(c) \/ Collect(c)
  \/ \E f \in Frames : DynamicWind(f)

Runtime ==
  \/ PushFrame \/ BodyEnds
  \/ WindOut \/ Suspended \/ Reattached \/ WindIn \/ Resumed
  \/ CoroutineEnds \/ Broken
  \/ WindInOut \/ Closed

Next == Program \/ (Runtime /\ UNCHANGED thrown)
Spec == Init /\ [][Next]_vars
-----------------------------------------------------------------------------
TypeOK ==
  /\ current \in Coroutines
  /\ status \in [Coroutines -> {"unborn", "active", "suspended", "open", "closed"}]
  /\ parent \in [Coroutines -> Coroutines \cup {None}]
  /\ frames \in [Coroutines -> Seq(Frames)]
  /\ saved \in [Coroutines -> Winders \cup {NoWinder}]
  /\ registered \subseteq Coroutines /\ dead \subseteq registered
  /\ used \in Winders \cup {0}
  /\ DOMAIN winders = Winders
  /\ DOMAIN around \subseteq Frames
  /\ ins \in [Frames -> Nat] /\ outs \in [Frames -> Nat]
  /\ thrown \in BOOLEAN

Active == {c \in Coroutines : status[c] = "active"}
Alive(c) == calls[c] # << >>

(* The active coroutines are those on the chain from the running one to the *)
(* first, and every suspended one is behind exactly one coroutine, open or  *)
(* closed, that leads to it: attach-coroutine and detach-coroutine.         *)
ChainsWellFormed ==
  /\ Active = ToSet(ChainFrom(current)) /\ parent[Main] = None /\ Main \in Active
  /\ \A c \in Coroutines : status[c] = "suspended" =>
       Cardinality({d \in Coroutines : status[d] \in {"open", "closed"} /\ Reaches(d, c)}) = 1

(* Each stack waits in the resume of the coroutine it is linked with, so    *)
(* that the resume that finds its coroutine closed frees what was broken    *)
(* out of (resume, free-coroutine).                                         *)
WaitsFor(c, d) == Alive(c) /\ Head(calls[c]) = [op |-> "resume", co |-> d]
WaitsForChild ==
  \A c \in Coroutines : Alive(c) /\ parent[c] # None =>
    IF c \in Active THEN WaitsFor(parent[c], c) ELSE WaitsFor(c, parent[c])

(* The types of the state, and how coroutines are linked.                   *)
WellFormed == TypeOK /\ ChainsWellFormed /\ WaitsForChild

(* A thunk that leaves by breaking out of a coroutine interrupts a winding, *)
(* and the rest of it is never done.  The properties that say ~thrown hold  *)
(* as long as no thunk has done so.                                         *)

(* Outside of winding, the dynamic context of each active coroutine is that *)
(* of the dynamic-winds whose bodies are executing on its stack, in order:  *)
(* "Execute the given body with the given frame pushed" (core.stanza 3798). *)
InWinding ==
  {"push-frame", "wind-out", "suspend", "suspended", "wind-in", "break"}
Winding == \E c \in Active : \E n \in DOMAIN calls[c] : calls[c][n].op \in InWinding
WithinFrame == ~thrown /\ ~Winding => \A c \in Active : frames[c] = Windings(c)

(* The thunks of a frame are called in turn: in, out, in, out, ...  What a  *)
(* let-var saves in one is what it restores in the other.                   *)
InThenOut == \A f \in PlainFrames : outs[f] <= ins[f] /\ ins[f] <= outs[f] + 1

(* A frame that is wound in belongs to a coroutine that is active: while a  *)
(* coroutine is suspended, no other sees its dynamic context (the test      *)
(* coroutine-01).                                                           *)
Has(w, f) == w # NoWinder /\ \E n \in DOMAIN winders[w] : winders[w][n].frame = f
BeingPushed(f, c) ==
  \E n \in DOMAIN calls[c] : calls[c][n].op = "push-frame" /\ calls[c][n].frame = f
OutOfScope ==
  ~thrown => \A f \in PlainFrames : ins[f] = outs[f] + 1 =>
    \E c \in Active : f \in ToSet(frames[c]) \/ BeingPushed(f, c)

(* The dynamic context: its frames, their thunks, and the coroutines it is  *)
(* visible in.                                                              *)
DynamicContext == WithinFrame /\ InThenOut /\ OutOfScope

(* "The given coroutine is finished. Close it and free all it stacks"       *)
(* (core.stanza 4057): no stack is freed that an active coroutine uses.     *)
FreesFinished ==
  [][\A c \in Coroutines : calls[c] # << >> /\ calls'[c] = << >> => c \notin Active]_vars

(* No finally block is called twice.                                        *)
FinallyOnce == \A f \in FinallyFrames : outs[f] <= 1

(* "Finally needs to execute" (tests/test-coroutines.stanza 29, 58, 85): a  *)
(* finally block that was entered and not called is still in the context of *)
(* an active coroutine, in a winder that is at work, or saved for the close *)
(* or the finalizer of an open coroutine.                                   *)
AtWork(f, c) ==
  \E n \in DOMAIN calls[c] :
    calls[c][n].op \in {"wind-out", "suspend", "suspended", "wind-in", "wind-in-out"}
      /\ Has(calls[c][n].winder, f)
FinallyKept ==
  ~thrown => \A f \in FinallyFrames \cap DOMAIN around : outs[f] = 0 =>
    \/ \E c \in Active : f \in ToSet(frames[c]) \/ BeingPushed(f, c) \/ AtWork(f, c)
    \/ \E c \in Coroutines \ dead : status[c] = "open" /\ Has(saved[c], f)

(* "Does a finally block execute in the right dynamic environment?" (the    *)
(* test coroutine-10): wherever it is called, the frames it was entered in  *)
(* are wound in.                                                            *)
RightEnvironment ==
  [][~thrown => \A f \in FinallyFrames : outs'[f] # outs[f] =>
       \A g \in around[f] \cap PlainFrames : ins[g] = outs[g] + 1]_vars

(* Every finally block is called, only once, and in the right environment.  *)
FinallyBlocks == [](FinallyKept /\ FinallyOnce) /\ RightEnvironment
=============================================================================
