--------------------------- MODULE DebuggerProofs ---------------------------
(***************************************************************************)
(* Proofs about Debugger, for every table of safepoints, every number of   *)
(* breakpoints, coroutines and signals.                                    *)
(***************************************************************************)
EXTENDS Debugger, TLAPS

(* No breakpoint is in two slots.                                           *)
Distinct == \A i, j \in DOMAIN slots : slots[i] = slots[j] /\ slots[i] # None => i = j

(* What the instructions are at each place of a command, unless a signal    *)
(* came between the flag and the instructions.                              *)
WriteInv ==
  /\ clearing # None => pc = "unbreak"
  /\ ~crossed =>
       /\ ~Writing => int3 = IF enabled THEN Entries ELSE Active
       /\ pc = "unbreak" => ~enabled /\ int3 \ {clearing} = Active
       /\ pc = "unbreak" => clearing # None
       /\ pc = "clear" => ~enabled /\ int3 \subseteq todo
       /\ pc = "restore" => int3 = IF enabled THEN Entries ELSE {}

(* A step that was asked for has all safepoints enabled, and the program    *)
(* traps somewhere.                                                         *)
ModeInv ==
  /\ asked => enabled /\ runMode = "step" /\ pc \notin {"prompt", "unbreak", "disable", "clear"}
  /\ runMode = "next" => enabled /\ pc \notin {"disable", "clear"}
  /\ pc = "trapped" => at \in Positions

(* The inductive invariant.                                                 *)
IInv == TypeOK /\ Distinct /\ WriteInv /\ ModeInv
-----------------------------------------------------------------------------
(* An entry that is put into the set of breakpoints is in one slot.         *)
LEMMA InsertKeeps ==
  ASSUME TypeOK, Distinct, NEW e \in Entries, e \notin Active, Insert(e)
  PROVE  /\ slots' \in Seq(Entries \cup {None})
         /\ Distinct'
         /\ Active' = Active \cup {e}
<1> USE NoneAssumption DEF TypeOK, Distinct, Active
<1>1. ASSUME NEW i \in DOMAIN slots, slots[i] = None, slots' = [slots EXCEPT ![i] = e]
      PROVE  /\ slots' \in Seq(Entries \cup {None})
             /\ Distinct'
             /\ Active' = Active \cup {e}
  <2>1. DOMAIN slots' = DOMAIN slots /\ slots'[i] = e
    BY <1>1
  <2>2. \A j \in DOMAIN slots : j # i => slots'[j] = slots[j]
    BY <1>1
  <2>3. slots' \in Seq(Entries \cup {None})
    BY <1>1
  <2>4. Distinct'
    BY <1>1, <2>1, <2>2
  <2>5. Active' = Active \cup {e}
    BY <1>1, <2>1, <2>2
  <2> QED BY <2>3, <2>4, <2>5
<1>2. ASSUME slots' = Append(slots, e)
      PROVE  /\ slots' \in Seq(Entries \cup {None})
             /\ Distinct'
             /\ Active' = Active \cup {e}
  <2>1. DOMAIN slots' = DOMAIN slots \cup {Len(slots) + 1} /\ slots'[Len(slots) + 1] = e
    BY <1>2
  <2>2. \A j \in DOMAIN slots : slots'[j] = slots[j]
    BY <1>2
  <2>3. slots' \in Seq(Entries \cup {None})
    BY <1>2
  <2>4. Distinct'
    BY <2>1, <2>2
  <2>5. Active' = Active \cup {e}
    BY <2>1, <2>2
  <2> QED BY <2>3, <2>4, <2>5
<1> QED BY <1>1, <1>2 DEF Insert

(* An entry that is removed is in no slot.                                  *)
LEMMA RemoveKeeps ==
  ASSUME TypeOK, Distinct, NEW e \in Entries,
         slots' = [i \in DOMAIN slots |-> IF slots[i] = e THEN None ELSE slots[i]]
  PROVE  /\ slots' \in Seq(Entries \cup {None})
         /\ Distinct'
         /\ Active' = Active \ {e}
<1> USE NoneAssumption DEF TypeOK, Distinct, Active
<1>1. DOMAIN slots' = DOMAIN slots
  OBVIOUS
<1>2. slots' \in Seq(Entries \cup {None})
  OBVIOUS
<1>3. Distinct'
  BY <1>1
<1>4. Active' = Active \ {e}
  BY <1>1
<1> QED BY <1>2, <1>3, <1>4
-----------------------------------------------------------------------------
(* Every step keeps the types and the slots.                                *)
LEMMA SlotsStep ==
  ASSUME IInv, [Next]_vars
  PROVE  TypeOK' /\ Distinct'
<1> USE BoundsAssumption DEF IInv, Distinct, TypeOK, safepoints, thread, program, ghosts
<1>1. CASE Interrupt
  BY <1>1 DEF Interrupt, Enable
<1>2. ASSUME NEW e \in Entries, Break(e) PROVE TypeOK' /\ Distinct'
  <2>1. slots' \in Seq(Entries \cup {None}) /\ Distinct'
    BY <1>2, InsertKeeps DEF Break
  <2> QED BY <1>2, <2>1 DEF Break
<1>3. ASSUME NEW e \in Entries, Unbreak(e) PROVE TypeOK' /\ Distinct'
  <2>1. slots' \in Seq(Entries \cup {None}) /\ Distinct'
    BY <1>3, RemoveKeeps DEF Unbreak
  <2> QED BY <1>3, <2>1 DEF Unbreak
<1>4. ASSUME NEW e \in Entries, WriteNop(e) PROVE TypeOK' /\ Distinct'
  BY <1>4 DEF WriteNop
<1>5. ASSUME NEW p \in Positions, Arrive(p) PROVE TypeOK' /\ Distinct'
  BY <1>5 DEF Arrive
<1>6. CASE UnbreakWrite
  BY <1>6 DEF UnbreakWrite
<1>7. CASE Continue
  BY <1>7 DEF Continue
<1>8. CASE Disable
  BY <1>8 DEF Disable
<1>9. CASE Restore
  BY <1>9 DEF Restore, Restored, Active
<1>10. CASE Step
  BY <1>10 DEF Step, Enable
<1>11. CASE NextCommand
  BY <1>11 DEF NextCommand, Enable
<1>12. CASE Quit
  BY <1>12 DEF Quit
<1>13. CASE Return
  BY <1>13 DEF Return
<1>14. CASE Decide
  BY <1>14 DEF Decide
<1>15. CASE UNCHANGED vars
  BY <1>15 DEF vars
<1> QED BY <1>1, <1>2, <1>3, <1>4, <1>5, <1>6, <1>7, <1>8, <1>9, <1>10, <1>11, <1>12, <1>13, <1>14, <1>15 DEF Next

(* The breakpoints change by break and unbreak only.                        *)
LEMMA SameActive ==
  ASSUME UNCHANGED slots
  PROVE  Active' = Active
BY DEF Active

(* The breakpoints are entries.                                             *)
LEMMA ActiveType ==
  ASSUME TypeOK
  PROVE  Active \subseteq Entries
BY DEF Active, TypeOK

(* Every step keeps the instructions in step with the flag.                 *)
LEMMA InstructionsStep ==
  ASSUME IInv, [Next]_vars
  PROVE  WriteInv' /\ ModeInv'
<1> USE NoneAssumption, SameActive, ActiveType
    DEF IInv, TypeOK, WriteInv, ModeInv, Writing, safepoints, thread, program, ghosts
<1>1. CASE Interrupt
  BY <1>1 DEF Interrupt, Enable
<1>2. ASSUME NEW e \in Entries, Break(e) PROVE WriteInv' /\ ModeInv'
  <2>1. Active' = Active \cup {e}
    BY <1>2, InsertKeeps DEF Break
  <2> QED BY <1>2, <2>1 DEF Break
<1>3. ASSUME NEW e \in Entries, Unbreak(e) PROVE WriteInv' /\ ModeInv'
  <2>1. Active' = Active \ {e}
    BY <1>3, RemoveKeeps DEF Unbreak
  <2> QED BY <1>3, <2>1 DEF Unbreak
<1>4. ASSUME NEW e \in Entries, WriteNop(e) PROVE WriteInv' /\ ModeInv'
  BY <1>4 DEF WriteNop
<1>5. ASSUME NEW p \in Positions, Arrive(p) PROVE WriteInv' /\ ModeInv'
  BY <1>5 DEF Arrive
<1>6. CASE UnbreakWrite
  BY <1>6 DEF UnbreakWrite
<1>7. CASE Continue
  BY <1>7 DEF Continue
<1>8. CASE Disable
  BY <1>8 DEF Disable
<1>9. CASE Restore
  BY <1>9 DEF Restore, Restored
<1>10. CASE Step
  BY <1>10 DEF Step, Enable
<1>11. CASE NextCommand
  BY <1>11 DEF NextCommand, Enable
<1>12. CASE Quit
  BY <1>12 DEF Quit
<1>13. CASE Return
  BY <1>13 DEF Return
<1>14. CASE Decide
  BY <1>14 DEF Decide
<1>15. CASE UNCHANGED vars
  BY <1>15 DEF vars
<1> QED BY <1>1, <1>2, <1>3, <1>4, <1>5, <1>6, <1>7, <1>8, <1>9, <1>10, <1>11, <1>12, <1>13, <1>14, <1>15 DEF Next

(* The invariant holds, for every table and every number of breakpoints,    *)
(* coroutines and signals.                                                  *)
THEOREM DebuggerInvariant == Spec => []IInv
<1>1. ASSUME Init PROVE IInv
  <2>1. DOMAIN slots = {} /\ slots \in Seq(Entries \cup {None})
    BY <1>1 DEF Init
  <2>2. TypeOK
    <3>1. enabled \in BOOLEAN /\ asked \in BOOLEAN /\ crossed \in BOOLEAN
      BY <1>1 DEF Init
    <3> QED BY <1>1, <2>1, <3>1, BoundsAssumption DEF Init, TypeOK
  <2> QED BY <1>1, <2>1, <2>2 DEF Init, IInv, Distinct, WriteInv, ModeInv, Writing, Active
<1>2. IInv /\ [Next]_vars => IInv'
  BY SlotsStep, InstructionsStep DEF IInv
<1> QED BY <1>1, <1>2, PTL DEF Spec

(* The instructions are what flag and breakpoints say while no command      *)
(* writes them, wherever a signal came except inside of disable and         *)
(* unbreak; a breakpoint is in one slot.                                    *)
THEOREM DebuggerWellFormed == Spec => []WellFormed
<1>1. IInv => WellFormed
  BY DEF IInv, WellFormed, Distinct, WriteInv, Armed
<1> QED BY <1>1, DebuggerInvariant, PTL

(* The program passes no safepoint where a stop is due, not at a NOP and    *)
(* not because the debugger lets it go on, with two exceptions: after a     *)
(* signal inside of disable or unbreak it may pass any at a NOP (crossed);  *)
(* and of a signal between the command's assignment of the run mode and     *)
(* disable no stop is claimed, since asked does not record it.              *)
THEOREM DebuggerStopsWhereDue == Spec => StopsWhereDue
<1> DEFINE Passes == pc = "running" /\ pc' = "running" /\ at' # at
<1>1. ASSUME IInv, [Next]_vars, Passes PROVE ~Due(at') \/ crossed
  <2>1. PICK p \in Positions : Arrive(p)
    BY <1>1 DEF Next, Interrupt, Break, Unbreak, UnbreakWrite, Continue, Disable, WriteNop,
           Restore, Step, NextCommand, Quit, Return, Decide, vars, program
  <2>2. CASE ~crossed
    <3>1. int3 = IF enabled THEN Entries ELSE Active
      BY <1>1, <2>2 DEF IInv, WriteInv, Writing
    <3>2. at' = p /\ p.entry \in Entries \ int3
      BY <1>1, <2>1 DEF Arrive, Positions
    <3>3. ~enabled /\ p.entry \notin Active
      BY <3>1, <3>2
    <3>4. ~asked /\ runMode # "next"
      BY <1>1, <3>3 DEF IInv, ModeInv
    <3> QED BY <3>2, <3>3, <3>4 DEF Due
  <2> QED BY <2>2
<1>2. ASSUME IInv, [Next]_vars, pc = "trapped", pc' = "running" PROVE ~Due(at)
  <2>1. Decide
    BY <1>2 DEF Next, Interrupt, Break, Unbreak, UnbreakWrite, Continue, Disable, WriteNop,
           Restore, Step, NextCommand, Quit, Return, Arrive, vars, thread
  <2>2. at.entry \notin Active /\ runMode = "next" /\ stepping # None /\ StepsOver(at, stepping)
    BY <1>2, <2>1 DEF Decide
  <2>3. ~asked
    BY <1>2, <2>2 DEF IInv, ModeInv
  <2>4. at.depth \in 0 .. MaxDepth /\ stepping.depth \in 0 .. MaxDepth
    <3>1. stepping \in Positions
      BY <1>2, <2>2 DEF IInv, TypeOK
    <3>2. at \in Positions
      BY <1>2 DEF IInv, ModeInv
    <3> QED BY <3>1, <3>2 DEF Positions
  <2> QED BY <2>2, <2>3, <2>4, BoundsAssumption DEF StepsOver, Inside, Due
<1>3. IInv /\ [Next]_vars =>
        [/\ Passes => ~Due(at') \/ crossed
         /\ pc = "trapped" /\ pc' = "running" => ~Due(at)]_vars
  BY <1>1, <1>2
<1> QED BY <1>3, DebuggerInvariant, PTL DEF Spec, StopsWhereDue
=============================================================================
