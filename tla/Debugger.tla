------------------------------ MODULE Debugger ------------------------------
(***************************************************************************)
(* The command line debugger: debug/debugger.c and the command loop of     *)
(* debug/debugger.stanza.  Debugger and program are one thread: the        *)
(* program traps at a safepoint, the debugger reads commands until one     *)
(* lets the program go on.  The handler of SIGINT interrupts either of     *)
(* them anywhere; it runs to its end, and enables all safepoints.          *)
(*                                                                         *)
(* As in DebugAdapter the addresses of an entry of the safepoint table are *)
(* one instruction.  A step of the debugger is what the handler cannot     *)
(* split, or splits without effect: writing INT3 commutes with it.         *)
(* Commands that only print are left out.                                  *)
(***************************************************************************)
EXTENDS Integers, Sequences

CONSTANTS
  Entries,         \* of the safepoint table
  Coroutines,
  MaxDepth,        \* bound on the depth of a stack
  MaxSignals,      \* bound on SIGINT
  None             \* null

ASSUME NoneAssumption == None \notin Entries
ASSUME BoundsAssumption == MaxDepth \in Nat /\ MaxSignals \in Nat

VARIABLES
  runMode, enabled,        \* run_mode, all_safepoints_enabled
  int3,                    \* entries whose instruction is INT3
  slots,                   \* active-safepoints: entries, and null where one was removed
  pc,                      \* what the thread is doing
  todo,                    \* entries that are still to be written
  clearing,                \* the entry of an unbreak that is still to be written
  at,                      \* where the program is: coroutine, depth, safepoint
  stepping,                \* stepping-coroutine, -stack-depth, -safepoint
  signals,                 \* number of signals
  asked,                   \* ghost: the next safepoint was asked for
  crossed                  \* ghost: a signal came between the flag and the instructions

safepoints == <<enabled, int3, slots>>
thread     == <<pc, todo, clearing>>
program    == <<at, stepping>>
ghosts     == <<asked, crossed>>
vars == <<runMode, safepoints, thread, program, signals, ghosts>>

Init ==
  /\ runMode = "run" /\ enabled = FALSE
  /\ int3 = {} /\ slots = << >>
  /\ pc = "prompt" /\ todo = {} /\ clearing = None
  /\ at = None /\ stepping = None
  /\ signals = 0 /\ asked = FALSE /\ crossed = FALSE

Active == {slots[i] : i \in DOMAIN slots} \ {None}
-----------------------------------------------------------------------------
(* Safepoints_enable.                                                       *)
Enable ==
  /\ enabled' = TRUE
  /\ int3' = IF enabled THEN int3 ELSE Entries

(* The handler.  A signal between the assignment of the run mode and the    *)
(* test of the flag in disable is undone by disable.                        *)
Interrupt ==
  /\ pc # "over" /\ signals < MaxSignals
  /\ runMode' = "step"
  /\ Enable
  /\ signals' = signals + 1
  /\ asked' = (asked \/ pc \in {"restore", "running", "trapped"})
  /\ crossed' = (crossed \/ (pc = "clear" /\ ~enabled) \/ clearing # None)
  /\ UNCHANGED <<slots, thread, program>>
-----------------------------------------------------------------------------
(* Commands.  The set of breakpoints takes the first empty slot.            *)
Insert(e) ==
  \/ \E i \in DOMAIN slots :
       /\ slots[i] = None /\ \A j \in 1 .. i - 1 : slots[j] # None
       /\ slots' = [slots EXCEPT ![i] = e]
  \/ /\ \A i \in DOMAIN slots : slots[i] # None
     /\ slots' = Append(slots, e)

Break(e) ==
  /\ pc = "prompt"
  /\ e \notin Active
  /\ Insert(e)
  /\ int3' = IF enabled THEN int3 ELSE int3 \cup {e}
  /\ UNCHANGED <<runMode, enabled, thread, program, signals, ghosts>>

(* write_breakpoint tests the flag, and then writes NOP.                    *)
Unbreak(e) ==
  /\ pc = "prompt"
  /\ e \in Active
  /\ slots' = [i \in DOMAIN slots |-> IF slots[i] = e THEN None ELSE slots[i]]
  /\ IF enabled THEN UNCHANGED thread ELSE clearing' = e /\ pc' = "unbreak" /\ UNCHANGED todo
  /\ UNCHANGED <<runMode, enabled, int3, program, signals, ghosts>>

UnbreakWrite ==
  /\ pc = "unbreak"
  /\ int3' = int3 \ {clearing}
  /\ clearing' = None /\ pc' = "prompt"
  /\ UNCHANGED <<runMode, enabled, slots, todo, program, signals, ghosts>>

(* continue lets a program that is not started yet run as it is.            *)
Started == at # None

Continue ==
  /\ pc = "prompt"
  /\ IF Started THEN runMode' = "run" /\ pc' = "disable" ELSE pc' = "running" /\ UNCHANGED runMode
  /\ UNCHANGED <<safepoints, todo, clearing, program, signals, ghosts>>

(* Safepoints_disable: the flag is cleared, then NOP is written.  The       *)
(* breakpoints are restored after that.                                     *)
Disable ==
  /\ pc = "disable"
  /\ IF enabled
     THEN enabled' = FALSE /\ todo' = Entries /\ pc' = "clear" /\ crossed' = FALSE
     ELSE pc' = "running" /\ UNCHANGED <<enabled, todo, crossed>>
  /\ UNCHANGED <<runMode, int3, slots, clearing, program, signals, asked>>

WriteNop(e) ==
  /\ pc = "clear"
  /\ e \in todo
  /\ int3' = int3 \ {e}
  /\ todo' = todo \ {e}
  /\ pc' = IF todo' = {} THEN "restore" ELSE "clear"
  /\ UNCHANGED <<runMode, enabled, slots, clearing, program, signals, ghosts>>

NotRestored(S) == {}     \* mutated: the breakpoints stay NOP
Restored(S) == S

Restore ==
  /\ pc = "restore"
  /\ int3' = IF enabled THEN int3 ELSE int3 \cup Restored(Active)
  /\ pc' = "running"
  /\ UNCHANGED <<runMode, enabled, slots, todo, clearing, program, signals, ghosts>>

Step ==
  /\ pc = "prompt"
  /\ runMode' = "step"
  /\ Enable
  /\ pc' = "running"
  /\ asked' = TRUE
  /\ UNCHANGED <<slots, todo, clearing, program, signals, crossed>>

NextCommand ==
  /\ pc = "prompt"
  /\ stepping' = at
  /\ runMode' = "next"
  /\ Enable
  /\ pc' = "running"
  /\ UNCHANGED <<slots, todo, clearing, at, signals, ghosts>>

(* stop and quit end the debugger.                                          *)
Quit ==
  /\ pc = "prompt"
  /\ pc' = "over"
  /\ UNCHANGED <<runMode, safepoints, todo, clearing, program, signals, ghosts>>
-----------------------------------------------------------------------------
(* The program meets a safepoint, or ends and the debugger with it.         *)
Arrive(p) ==
  /\ pc = "running"
  /\ at' = p
  /\ pc' = IF p.entry \in int3 THEN "trapped" ELSE "running"
  /\ UNCHANGED <<runMode, safepoints, todo, clearing, stepping, signals, ghosts>>

Return ==
  /\ pc = "running"
  /\ pc' = "over"
  /\ UNCHANGED <<runMode, safepoints, todo, clearing, program, signals, ghosts>>

(* when-paused-at-safepoint.  A step over goes on inside of a call, and at  *)
(* the place where it began.  The coroutine it began in is the current one, *)
(* and so is not closed.                                                    *)
Inside(p, s) == p.depth > s.depth \/ (p.depth = s.depth /\ p.entry = s.entry)
AnyCoroutine(p, s) == Inside(p, s)     \* mutated: depths of two coroutines are compared
StepsOver(p, s) == p.co = s.co /\ Inside(p, s)

Decide ==
  /\ pc = "trapped"
  /\ IF at.entry \notin Active /\ runMode = "next" /\ stepping # None /\ StepsOver(at, stepping)
     THEN pc' = "running" /\ UNCHANGED <<stepping, asked>>
     ELSE pc' = "prompt" /\ stepping' = None /\ asked' = FALSE
  /\ UNCHANGED <<runMode, safepoints, todo, clearing, at, signals, crossed>>

Positions == [co : Coroutines, depth : 0 .. MaxDepth, entry : Entries]

Next ==
  \/ Interrupt
  \/ \E e \in Entries : Break(e) \/ Unbreak(e) \/ WriteNop(e)
  \/ UnbreakWrite \/ Continue \/ Disable \/ Restore \/ Step \/ NextCommand \/ Quit
  \/ \E p \in Positions : Arrive(p)
  \/ Return \/ Decide

Spec == Init /\ [][Next]_vars
-----------------------------------------------------------------------------
TypeOK ==
  /\ runMode \in {"run", "step", "next"} /\ enabled \in BOOLEAN
  /\ int3 \subseteq Entries /\ slots \in Seq(Entries \cup {None})
  /\ pc \in {"prompt", "unbreak", "disable", "clear", "restore", "running", "trapped", "over"}
  /\ todo \subseteq Entries /\ clearing \in Entries \cup {None}
  /\ at \in Positions \cup {None} /\ stepping \in Positions \cup {None}
  /\ signals \in 0 .. MaxSignals /\ asked \in BOOLEAN /\ crossed \in BOOLEAN

(* While no command is writing them the instructions are what the flag and  *)
(* the breakpoints say, wherever signals came, except between the flag and  *)
(* the instructions.                                                        *)
Writing == pc \in {"unbreak", "clear", "restore"}
Armed == ~Writing /\ ~crossed => int3 = IF enabled THEN Entries ELSE Active

(* The types of the state, no breakpoint in two slots (unbreak would leave  *)
(* the other one), and the instructions in step with the flag.              *)
WellFormed ==
  /\ TypeOK
  /\ \A i, j \in DOMAIN slots : slots[i] = slots[j] /\ slots[i] # None => i = j
  /\ Armed

(* Where the user wants the program to stop: at breakpoints, at the next    *)
(* safepoint after a step or SIGINT, and after a step over at the next      *)
(* place of the same or an outer frame, or in another coroutine.            *)
Due(p) ==
  \/ p.entry \in Active
  \/ asked
  \/ /\ runMode = "next" /\ stepping # None
     /\ \/ p.co # stepping.co
        \/ p.depth < stepping.depth
        \/ p.depth = stepping.depth /\ p.entry # stepping.entry

(* It passes no such safepoint, whether it meets a NOP or the debugger lets *)
(* it go on, unless a signal came between the flag and the instructions.    *)
(* A signal that disable undoes is not asked for: it is lost.               *)
StopsWhereDue ==
  [][/\ pc = "running" /\ pc' = "running" /\ at' # at => ~Due(at') \/ crossed
     /\ pc = "trapped" /\ pc' = "running" => ~Due(at)]_vars
=============================================================================
