------------------------- MODULE ProcessPosixProofs -------------------------
(***************************************************************************)
(* For any number of processes and process ids, however the ids are given  *)
(* out again and whatever launches fail: the status recorded for a process *)
(* is its own and up to date, no record is freed that is in use, and the   *)
(* signal mask is given back.                                              *)
(***************************************************************************)
EXTENDS ProcessPosix, SequenceTheorems, WellFoundedInduction, TLAPS

Names == {children[i].process : i \in DOMAIN children}

(* SIGCHLD is blocked in a call, so that the handler runs outside of one,   *)
(* or in sigsuspend.                                                        *)
MaskInv ==
  /\ pc # "run" => blocked
  /\ handler > 0 => pc \in {"run", "suspended"}
  /\ failed \cap {"errpipe", "vfork"} = {} => ~(IF pc = "run" THEN blocked ELSE oldMask)

(* The process that is launched is neither in the list nor freed.           *)
Launching == pc \in {"remove", "register"}
LaunchInv ==
  /\ \A n \in Names \cup freed : n <= forked
  /\ pc = "fork" => forked < MaxForks
  /\ Launching => /\ current = forked /\ current > 0
                  /\ current \notin Names \cup freed
                  /\ \E p \in Pids : kernel[p].process = current

(* The list is in the order of the launches, the last one first.            *)
OrderInv ==
  \A i, j \in DOMAIN children : i < j => children[i].process > children[j].process

(* What the kernel knows.  An id is given to one process after another.     *)
KernelInv ==
  /\ \A p \in Pids : kernel[p].process <= forked
  /\ \A p \in Pids : kernel[p].process = NoProcess => kernel[p] = NoChild
  /\ \A p, q \in Pids : kernel[p].process = kernel[q].process /\ kernel[p].process # NoProcess => p = q
  /\ \A p \in Pids : kernel[p].does = "zombie" <=> kernel[p].report \in {"exited", "signaled"}
  /\ \A p \in Pids : kernel[p].report # "unset"

IdInv ==
  /\ \A i \in DOMAIN children : \A p \in Pids :
       kernel[p].process = children[i].process => children[i].pid = p
  /\ \A i \in DOMAIN children :
       LET k == kernel[children[i].pid].process IN k # NoProcess => children[i].process <= k

(* A process that is recorded as dead has been reaped.                      *)
Reaped(n) == \A p \in Pids : kernel[p].process # n
ReapedInv ==
  /\ \A n \in Names : IsDeadStatus(status[n]) => Reaped(n)
  /\ \A n \in freed : Reaped(n)

(* Statuses that are not of the process come from failed launches.          *)
StatusInv ==
  \A n \in Process :
    /\ status[n].of <= forked
    /\ Launching => status[n].of # current
    /\ status[n].code # "unset" =>
         status[n].of # NoProcess /\ (status[n].of = n \/ status[n].of \notin Names \cup freed)

(* The objects of the program have records, which are not freed.            *)
ObjectInv ==
  /\ objects \subseteq referenced /\ objects \subseteq Names
  /\ Names \cap freed = {}

(* What has been reported: the children the handler has looked at.          *)
Silent(n) == \A p \in Pids :
  kernel[p].process = n => kernel[p].report = "none" /\ kernel[p].does # "zombie"
ReportInv ==
  ~pending => /\ \A i \in DOMAIN children : handler = 0 \/ i < handler => Silent(children[i].process)
              /\ Launching => Silent(current)

(* The inductive invariant.                                                 *)
IInv ==
  /\ TypeOK
  /\ MaskInv /\ LaunchInv /\ OrderInv /\ KernelInv /\ IdInv
  /\ ReapedInv /\ StatusInv /\ ObjectInv /\ ReportInv
(* A set of naturals has a least element.                                   *)
LEMMA LeastOf ==
  ASSUME NEW S, S \subseteq Nat, S # {}
  PROVE  \E m \in S : \A j \in S : m <= j
<1>1. PICK m \in S : \A j \in S : <<j, m>> \notin OpToRel(<, Nat)
  BY NatLessThanWellFounded, WFMin
<1>2. ASSUME NEW j \in S PROVE m <= j
  <2>1. <<j, m>> \in Nat \X Nat /\ <<j, m>>[1] = j /\ <<j, m>>[2] = m
    OBVIOUS
  <2>2. ~(j < m)
    BY <1>1, <2>1 DEF OpToRel
  <2> QED BY <2>2
<1> QED BY <1>2

-----------------------------------------------------------------------------
(* What RemoveAt leaves.                                                    *)
LEMMA RemoveAtIs ==
  ASSUME NEW T, NEW s \in Seq(T), NEW i \in DOMAIN s
  PROVE  /\ RemoveAt(s, i) \in Seq(T)
         /\ Len(s) \in Nat /\ Len(RemoveAt(s, i)) = Len(s) - 1
         /\ \A j \in 1 .. Len(s) - 1 : RemoveAt(s, i)[j] = IF j < i THEN s[j] ELSE s[j + 1]
<1> DEFINE a == SubSeq(s, 1, i - 1)
           b == SubSeq(s, i + 1, Len(s))
<1>1. Len(s) \in Nat /\ i \in 1 .. Len(s)
  OBVIOUS
<1>2. a \in Seq(T) /\ Len(a) = i - 1 /\ \A j \in 1 .. i - 1 : a[j] = s[j]
  BY <1>1
<1>3. b \in Seq(T) /\ Len(b) = Len(s) - i /\ \A j \in 1 .. Len(s) - i : b[j] = s[i + j]
  BY <1>1
<1>4. RemoveAt(s, i) = a \o b
  BY DEF RemoveAt
<1> HIDE DEF a, b
<1>5. a \o b \in Seq(T) /\ Len(a \o b) = Len(s) - 1
  BY <1>1, <1>2, <1>3
<1>6. ASSUME NEW j \in 1 .. Len(s) - 1
      PROVE  (a \o b)[j] = IF j < i THEN s[j] ELSE s[j + 1]
  <2>1. CASE j < i
    BY <1>1, <1>2, <1>3, <2>1
  <2>2. CASE ~(j < i)
    <3>1. (a \o b)[j] = b[j - (i - 1)]
      BY <1>1, <1>2, <1>3, <2>2
    <3>2. j - (i - 1) \in 1 .. Len(s) - i /\ i + (j - (i - 1)) = j + 1
      BY <1>1, <2>2
    <3>3. b[j - (i - 1)] = s[i + (j - (i - 1))]
      BY <1>3, <3>2
    <3> QED BY <2>2, <3>1, <3>2, <3>3
  <2> QED BY <2>1, <2>2
<1> QED BY <1>1, <1>4, <1>5, <1>6

(* The entry of a process id after its process has changed its state.       *)
Entry == [process : Process \cup {NoProcess}, does : {"none", "runs", "stopped", "zombie"}, report : Codes]
LEMMA ChangeIs ==
  ASSUME kernel \in [Pids -> Entry], NEW p \in Pids,
         NEW does \in {"runs", "stopped", "zombie"}, NEW report \in Codes, Changes(p, does, report)
  PROVE  /\ kernel' \in [Pids -> Entry]
         /\ kernel'[p].process = kernel[p].process
         /\ kernel'[p].does = does /\ kernel'[p].report = report
         /\ \A q \in Pids : q # p => kernel'[q] = kernel[q]
<1>1. kernel' = [kernel EXCEPT ![p].does = does, ![p].report = report]
  BY DEF Changes
<1>2. kernel[p] \in Entry
  OBVIOUS
<1>3. kernel'[p] = [[kernel[p] EXCEPT !.does = does] EXCEPT !.report = report]
  BY <1>1
<1>4. [kernel[p] EXCEPT !.does = does] \in Entry
  BY <1>2 DEF Entry
<1> QED BY <1>1, <1>2, <1>3, <1>4 DEF Entry

(* The entry of a process id after waitpid.                                 *)
LEMMA ReportedIs ==
  ASSUME kernel \in [Pids -> Entry], NEW p \in Pids, Reported(p)
  PROVE  /\ kernel' \in [Pids -> Entry]
         /\ \A q \in Pids : q # p => kernel'[q] = kernel[q]
         /\ kernel[p].does = "zombie" => kernel'[p] = NoChild
         /\ kernel[p].does # "zombie" => /\ kernel'[p].process = kernel[p].process
                                         /\ kernel'[p].does = kernel[p].does
                                         /\ kernel'[p].report = "none"
<1>1. kernel' = [kernel EXCEPT ![p] = IF @.does = "zombie" THEN NoChild ELSE [@ EXCEPT !.report = "none"]]
  BY DEF Reported
<1>2. kernel[p] \in Entry /\ NoChild \in Entry
  BY DEF NoChild, NoProcess, Entry, Codes
<1>3. [kernel[p] EXCEPT !.report = "none"] \in Entry
  BY <1>2 DEF Entry, Codes
<1>4. kernel'[p] = IF kernel[p].does = "zombie" THEN NoChild ELSE [kernel[p] EXCEPT !.report = "none"]
  BY <1>1
<1> QED BY <1>1, <1>2, <1>3, <1>4 DEF Entry

(* The record that a signal updates is the first with the process id.       *)
LEMMA FirstWithPid ==
  ASSUME TypeOK, NEW k \in DOMAIN children
  PROVE  LET p == children[k].pid
         IN  /\ p \in Pids
             /\ \E i \in DOMAIN children :
                  /\ i <= k /\ children[i].pid = p /\ GetChildProcess(p) = children[i].process
                  /\ \A j \in DOMAIN children : children[j].pid = p => i <= j
<1> DEFINE p == children[k].pid
<1>1. DOMAIN children \subseteq Nat /\ p \in Pids
  <2>1. children \in Seq([process : Process, pid : Pids])
    BY DEF TypeOK
  <2>2. DOMAIN children = 1 .. Len(children) /\ Len(children) \in Nat
    BY <2>1
  <2>3. children[k] \in [process : Process, pid : Pids]
    BY <2>1, <2>2, ElementOfSeq
  <2> QED BY <2>2, <2>3
<1>2. k \in WithPid(p) /\ WithPid(p) \subseteq DOMAIN children
  BY DEF WithPid
<1>3. \E m \in WithPid(p) : \A j \in WithPid(p) : m <= j
  <2> HIDE DEF p
  <2> QED BY <1>1, <1>2, LeastOf
<1> DEFINE i == CHOOSE m \in WithPid(p) : \A j \in WithPid(p) : m <= j
<1>4. i \in WithPid(p) /\ \A j \in WithPid(p) : i <= j
  BY <1>3
<1>5. GetChildProcess(p) = children[i].process
  BY DEF GetChildProcess
<1> HIDE DEF i
<1> QED BY <1>1, <1>2, <1>4, <1>5 DEF WithPid

(* What the types say of the records and of the kernel's entries.           *)
LEMMA Types ==
  ASSUME TypeOK
  PROVE  /\ MaxForks \in Nat /\ forked \in Nat
         /\ Process \subseteq Nat /\ NoProcess \notin Process
         /\ kernel \in [Pids -> Entry] /\ \A p \in Pids : kernel[p].process \in Nat
         /\ Len(children) \in Nat /\ DOMAIN children = 1 .. Len(children)
         /\ \A i \in DOMAIN children : children[i].process \in Process /\ children[i].pid \in Pids
         /\ Names \subseteq Process /\ freed \subseteq Process
         /\ \A n \in Process : status[n] \in Status /\ status[n].of \in Nat
<1>1. MaxForks \in Nat /\ forked \in Nat /\ Process \subseteq Nat /\ NoProcess \notin Process
  BY BoundsAssumption DEF TypeOK, Process, NoProcess
<1>a. Process \cup {NoProcess} \subseteq Nat
  BY <1>1 DEF NoProcess
<1>2. kernel \in [Pids -> Entry]
  BY DEF TypeOK, Entry
<1>3. \A p \in Pids : kernel[p].process \in Nat
  <2>1. ASSUME NEW p \in Pids PROVE kernel[p].process \in Nat
    <3>1. kernel[p] \in Entry
      BY <1>2
    <3>2. kernel[p].process \in Process \cup {NoProcess}
      BY <3>1 DEF Entry
    <3> QED BY <1>a, <3>2, Zenon
  <2> QED BY <2>1
<1>4. children \in Seq([process : Process, pid : Pids])
  BY DEF TypeOK
<1>5. Len(children) \in Nat /\ DOMAIN children = 1 .. Len(children)
  BY <1>4
<1>6. \A i \in DOMAIN children : children[i] \in [process : Process, pid : Pids]
  BY <1>4, <1>5, ElementOfSeq
<1>7. \A n \in Process : status[n] \in Status /\ status[n].of \in Nat
  <2>1. ASSUME NEW n \in Process PROVE status[n] \in Status /\ status[n].of \in Nat
    <3>1. status[n] \in Status
      BY DEF TypeOK
    <3>2. status[n].of \in Process \cup {NoProcess}
      BY <3>1 DEF Status
    <3> QED BY <1>a, <3>1, <3>2, Zenon
  <2> QED BY <2>1
<1> QED BY <1>1, <1>2, <1>3, <1>5, <1>6, <1>7 DEF Names, TypeOK

(* The types are kept.                                                      *)
LEMMA TypeStep ==
  ASSUME IInv, [Next]_vars
  PROVE  TypeOK'
<1>0. TypeOK
  BY DEF IInv
<1>a. Len(children) \in Nat
  BY <1>0, Types
<1> DEFINE Rest == <<usedPids, stops, children, status, done, referenced, freed, objects, current>>
<1>1. ASSUME NEW p \in Pids, Child(p) PROVE TypeOK'
  <2>1. PICK does \in {"runs", "stopped", "zombie"}, report \in Codes : Changes(p, does, report)
    BY <1>1 DEF Child, StopChild, ContinueChild, EndChild, Codes
  <2>2. kernel' \in [Pids -> Entry]
    BY <1>0, <2>1, Types, ChangeIs
  <2>3. stops' \in 0 .. MaxStops
    BY <1>0, <1>1, BoundsAssumption DEF Child, StopChild, ContinueChild, EndChild, TypeOK
  <2> QED BY <1>0, <2>1, <2>2, <2>3 DEF TypeOK, Entry, Changes, records, wrappers
<1>2. CASE DeliverSignal
  <2>1. handler' \in 0 .. Len(children) + 1
    BY <1>a, <1>2 DEF DeliverSignal
  <2> QED BY <1>0, <1>2, <2>1 DEF TypeOK, DeliverSignal, kernelVars, records, wrappers
<1>3. CASE UpdateChildStatus
  <2> DEFINE p == children[handler].pid
             s == Waitpid(p)
  <2>1. handler \in DOMAIN children /\ handler' = handler + 1 /\ handler' \in 0 .. Len(children) + 1
    BY <1>0, <1>a, <1>3, Types DEF UpdateChildStatus, LookAt
  <2>2. p \in Pids
    BY <1>0, <2>1, Types
  <2>3. CASE StatusChanged(s)
    <3>1. kernel' \in [Pids -> Entry]
      BY <1>0, <1>3, <2>2, <2>3, Types, ReportedIs DEF UpdateChildStatus
    <3>2. s \in Status
      BY <1>0, <2>2, <2>3, Types DEF Waitpid, StatusChanged, Status, Entry
    <3>3. status' = [status EXCEPT ![GetChildProcess(p)] = s]
      BY <1>3, <2>3 DEF UpdateChildStatus
    <3>4. status' \in [Process -> Status]
      BY <1>0, <3>2, <3>3 DEF TypeOK
    <3> QED BY <1>0, <1>3, <2>1, <3>1, <3>4 DEF TypeOK, Entry, UpdateChildStatus, records, wrappers
  <2>4. CASE ~StatusChanged(s)
    BY <1>0, <1>3, <2>1, <2>4 DEF TypeOK, UpdateChildStatus, records, wrappers
  <2> QED BY <2>3, <2>4
<1>4. CASE ReturnFromHandler
  BY <1>0, <1>a, <1>4 DEF TypeOK, ReturnFromHandler, kernelVars, records, wrappers
<1>5. CASE Fork
  <2>1. PICK p \in FreePids, outcome \in {"runs"} \cup (Failures \cap {"setup", "exec"}) :
          /\ usedPids' = usedPids \cup {p}
          /\ kernel' = [kernel EXCEPT ![p] =
               IF outcome = "runs" THEN [process |-> forked', does |-> "runs", report |-> "none"]
               ELSE [process |-> forked', does |-> "zombie", report |-> "exited"]]
          /\ pending' = (pending \/ outcome # "runs")
          /\ pc' = IF outcome = "exec" THEN "return" ELSE "remove"
    BY <1>5 DEF Fork
  <2>2. p \in Pids /\ usedPids' \subseteq Pids
    BY <1>0, <2>1 DEF TypeOK, FreePids
  <2>3. forked' \in 1 .. MaxForks /\ current' = forked'
    BY <1>0, <1>5, BoundsAssumption DEF IInv, LaunchInv, TypeOK, Fork, At
  <2>4. kernel' \in [Pids -> Entry]
    <3>1. [process |-> forked', does |-> "runs", report |-> "none"] \in Entry
      BY <2>3 DEF Entry, Process, Codes
    <3>2. [process |-> forked', does |-> "zombie", report |-> "exited"] \in Entry
      BY <2>3 DEF Entry, Process, Codes
    <3> QED BY <1>0, <2>1, <2>2, <3>1, <3>2, Types
  <2>5. pending' \in BOOLEAN
    BY <2>1
  <2>6. pc' \in {"remove", "return"}
    BY <2>1
  <2>7. forked' \in 0 .. MaxForks /\ current' \in Process
    BY <2>3, BoundsAssumption DEF Process
  <2> QED BY <1>0, <1>5, <2>2, <2>4, <2>5, <2>6, <2>7 DEF TypeOK, Entry, Fork, At, records, wrappers
<1>6. CASE RemoveDeadChildProcess
  <2>1. PICK i \in DOMAIN children : /\ freed' = freed \cup {children[i].process}
                                     /\ children' = RemoveAt(children, i)
    BY <1>6 DEF RemoveDeadChildProcess, Dead
  <2>2. children' \in Seq([process : Process, pid : Pids]) /\ Len(children') \in Nat
    <3>1. children \in Seq([process : Process, pid : Pids])
      BY <1>0 DEF TypeOK
    <3>2. /\ RemoveAt(children, i) \in Seq([process : Process, pid : Pids])
          /\ Len(RemoveAt(children, i)) \in Nat
      BY <3>1, RemoveAtIs
    <3> QED BY <2>1, <3>2
  <2>3. freed' \subseteq Process
    BY <1>0, <2>1, Types
  <2>4. handler' \in 0 .. Len(children') + 1
    BY <1>6, <2>2 DEF RemoveDeadChildProcess, At
  <2> QED BY <1>0, <1>6, <2>2, <2>3, <2>4 DEF TypeOK, RemoveDeadChildProcess, At, kernelVars, wrappers
<1>7. CASE AllRemoved
  BY <1>0, <1>7 DEF TypeOK, AllRemoved, At, kernelVars, records, wrappers
<1>8. CASE OpenFails
  BY <1>0, <1>8 DEF TypeOK, OpenFails, At, kernelVars, records, wrappers
<1>9. CASE RegisterChildProcess
  <2>1. current \in Process /\ \E p \in Pids : kernel[p].process = current
    BY <1>0, <1>9 DEF IInv, LaunchInv, Launching, RegisterChildProcess, At, TypeOK, NoProcess
  <2>2. PidOf(current) \in Pids
    BY <2>1 DEF PidOf
  <2>3. children' \in Seq([process : Process, pid : Pids]) /\ Len(children') \in Nat
    <3>1. children \in Seq([process : Process, pid : Pids])
      BY <1>0 DEF TypeOK
    <3>2. <<[process |-> current, pid |-> PidOf(current)]>> \in Seq([process : Process, pid : Pids])
      BY <2>1, <2>2
    <3>3. children' = <<[process |-> current, pid |-> PidOf(current)]>> \o children
      BY <1>9 DEF RegisterChildProcess, AddChildProcess
    <3> HIDE DEF PidOf
    <3> QED BY <3>1, <3>2, <3>3, ConcatProperties
  <2>4. handler' \in 0 .. Len(children') + 1
    BY <1>9, <2>3 DEF RegisterChildProcess, At
  <2>5. Unset \in Status
    BY DEF Unset, Status, Codes, NoProcess
  <2>6. status' \in [Process -> Status]
    BY <1>0, <1>9, <2>5 DEF RegisterChildProcess, TypeOK
  <2>7. referenced' \subseteq Process /\ objects' \subseteq Process
    BY <1>0, <1>9, <2>1 DEF RegisterChildProcess, TypeOK
  <2>8. pc' = "return" /\ UNCHANGED <<forked, kernelVars, pending, blocked, freed, done, handler, oldMask, current>>
    BY <1>9 DEF RegisterChildProcess
  <2> QED BY <1>0, <2>3, <2>4, <2>6, <2>7, <2>8 DEF TypeOK, kernelVars
<1>10. CASE ReturnFromLaunch
  BY <1>0, <1>10 DEF TypeOK, ReturnFromLaunch, At, RestoreSignalMask, kernelVars, records, wrappers
<1>11. CASE TestDead
  BY <1>0, <1>11 DEF TypeOK, TestDead, At, kernelVars, records, wrappers
<1>12. CASE Suspend
  BY <1>0, <1>12 DEF TypeOK, Suspend, At, kernelVars, records, wrappers
<1>13. CASE ReadState
  <2>1. done' \in [Process -> Status]
    <3>1. current \in Process => status[current] \in Status
      BY <1>0, Types
    <3>2. CASE current \in Process
      BY <1>0, <1>13, <3>1, <3>2 DEF ReadState, TypeOK
    <3>3. CASE current \notin Process
      <4>1. [done EXCEPT ![current] = status[current]] = done
        BY <1>0, <3>3 DEF TypeOK
      <4> QED BY <1>0, <1>13, <4>1 DEF ReadState, TypeOK
    <3> QED BY <3>2, <3>3
  <2>2. blocked' \in BOOLEAN /\ pc' = "run" /\ current' = NoProcess
    BY <1>0, <1>13 DEF ReadState, RestoreSignalMask, TypeOK
  <2>3. UNCHANGED <<forked, kernelVars, pending, records, objects, handler, oldMask>>
    BY <1>13 DEF ReadState
  <2> QED BY <1>0, <2>1, <2>2, <2>3 DEF TypeOK, kernelVars, records
<1>14. CASE BeginLaunch
  BY <1>0, <1>14 DEF TypeOK, BeginLaunch, BlockSigchild, kernelVars, records, wrappers
<1>15. CASE ErrorPipeFails
  BY <1>0, <1>15 DEF TypeOK, ErrorPipeFails, kernelVars, records, wrappers
<1>16. CASE VforkFails
  BY <1>0, <1>16 DEF TypeOK, VforkFails, kernelVars, records, wrappers
<1>17. ASSUME NEW n \in objects, State(n) \/ Wait(n) PROVE TypeOK'
  <2>1. n \in Process
    BY <1>0 DEF TypeOK
  <2> QED BY <1>0, <1>17, <2>1 DEF TypeOK, State, Wait, Retrieve, BlockSigchild, kernelVars, records, wrappers
<1>18. ASSUME NEW n \in objects, Finalize(n) PROVE TypeOK'
  BY <1>0, <1>18 DEF TypeOK, Finalize, kernelVars, records, wrappers
<1>19. CASE UNCHANGED vars
  BY <1>0, <1>19 DEF TypeOK, vars, kernelVars, records, wrappers
<1> QED BY <1>1, <1>2, <1>3, <1>4, <1>5, <1>6, <1>7, <1>8, <1>9, <1>10, <1>11, <1>12, <1>13, <1>14,
           <1>15, <1>16, <1>17, <1>18, <1>19
        DEF Next, Handler, Launch, Answer, Program

(* The mask and the places at which the handler runs.                       *)
LEMMA MaskStep ==
  ASSUME IInv, [Next]_vars
  PROVE  MaskInv'
<1>0. MaskInv /\ handler \in Nat /\ blocked \in BOOLEAN /\ oldMask \in BOOLEAN
  BY DEF IInv, TypeOK
<1>1. ASSUME NEW p \in Pids, Child(p) PROVE MaskInv'
  BY <1>0, <1>1 DEF MaskInv, Child, StopChild, ContinueChild, EndChild, Changes
<1>2. CASE DeliverSignal
  BY <1>0, <1>2 DEF MaskInv, DeliverSignal
<1>3. CASE UpdateChildStatus
  <2>1. handler > 0
    BY <1>3, Types DEF UpdateChildStatus, LookAt, IInv
  <2> QED BY <1>0, <1>3, <2>1 DEF MaskInv, UpdateChildStatus
<1>4. CASE ReturnFromHandler
  BY <1>0, <1>4 DEF MaskInv, ReturnFromHandler
<1>5. CASE Fork
  <2>1. pc = "fork" /\ pc' \in {"remove", "return"}
    BY <1>5 DEF Fork, At
  <2>2. failed \subseteq failed'
    BY <1>5 DEF Fork, Fails
  <2> QED BY <1>0, <1>5, <2>1, <2>2 DEF MaskInv, Fork
<1>6. CASE RemoveDeadChildProcess
  BY <1>0, <1>6 DEF MaskInv, RemoveDeadChildProcess, At
<1>7. CASE AllRemoved
  BY <1>0, <1>7 DEF MaskInv, AllRemoved, At
<1>8. CASE OpenFails
  BY <1>0, <1>8 DEF MaskInv, OpenFails, At, Fails
<1>9. CASE RegisterChildProcess
  BY <1>0, <1>9 DEF MaskInv, RegisterChildProcess, At
<1>10. CASE ReturnFromLaunch
  BY <1>0, <1>10 DEF MaskInv, ReturnFromLaunch, At, RestoreSignalMask
<1>11. CASE TestDead
  BY <1>0, <1>11 DEF MaskInv, TestDead, At
<1>12. CASE Suspend
  BY <1>0, <1>12 DEF MaskInv, Suspend, At
<1>13. CASE ReadState
  BY <1>0, <1>13 DEF MaskInv, ReadState, At, RestoreSignalMask
<1>14. CASE BeginLaunch
  BY <1>0, <1>14 DEF MaskInv, BeginLaunch, At, BlockSigchild
<1>15. CASE ErrorPipeFails
  BY <1>0, <1>15 DEF MaskInv, ErrorPipeFails, At, Fails
<1>16. CASE VforkFails
  BY <1>0, <1>16 DEF MaskInv, VforkFails, At, Fails
<1>17. ASSUME NEW n \in objects, State(n) \/ Wait(n) PROVE MaskInv'
  BY <1>0, <1>17 DEF MaskInv, State, Wait, Retrieve, At, BlockSigchild
<1>18. ASSUME NEW n \in objects, Finalize(n) PROVE MaskInv'
  BY <1>0, <1>18 DEF MaskInv, Finalize, At
<1>19. CASE UNCHANGED vars
  BY <1>0, <1>19 DEF MaskInv, vars
<1> QED BY <1>1, <1>2, <1>3, <1>4, <1>5, <1>6, <1>7, <1>8, <1>9, <1>10, <1>11, <1>12, <1>13, <1>14,
           <1>15, <1>16, <1>17, <1>18, <1>19
        DEF Next, Handler, Launch, Answer, Program

(* The steps that change no record and nothing the kernel knows.            *)
RecordInv == LaunchInv /\ OrderInv /\ KernelInv /\ IdInv /\ ReapedInv /\ StatusInv
RecordVars == <<forked, kernel, children, status, freed>>
LEMMA RecordsKept ==
  ASSUME IInv, UNCHANGED RecordVars,
         Launching' => Launching /\ current' = current,
         pc' = "fork" => forked < MaxForks
  PROVE  RecordInv'
<1>1. UNCHANGED <<forked, kernel, children, status, freed>>
  BY DEF RecordVars
<1>2. Names' = Names
  BY <1>1 DEF Names
<1>3. LaunchInv'
  BY <1>1, <1>2 DEF IInv, LaunchInv
<1>4. OrderInv' /\ KernelInv'
  BY <1>1 DEF IInv, OrderInv, KernelInv
<1>5. IdInv'
  BY <1>1 DEF IInv, IdInv
<1>6. ReapedInv'
  BY <1>1, <1>2 DEF IInv, ReapedInv, Reaped
<1>7. StatusInv'
  BY <1>1, <1>2 DEF IInv, StatusInv
<1> QED BY <1>3, <1>4, <1>5, <1>6, <1>7 DEF RecordInv

(* A child that changes its state.                                          *)
LEMMA ChildStep ==
  ASSUME IInv, NEW p \in Pids, Child(p)
  PROVE  RecordInv' /\ ObjectInv' /\ ReportInv'
<1>1. PICK does \in {"runs", "stopped", "zombie"}, report \in Codes :
        /\ Changes(p, does, report)
        /\ report # "unset"
        /\ does = "zombie" <=> report \in {"exited", "signaled"}
  BY DEF Child, StopChild, ContinueChild, EndChild, Codes
<1>2. /\ TypeOK
      /\ kernel \in [Pids -> Entry]
      /\ kernel[p].does # "none"
      /\ UNCHANGED <<forked, children, status, freed, referenced, objects, pc, current>>
      /\ pending' = TRUE
  BY <1>1, Types DEF IInv, Child, StopChild, ContinueChild, EndChild, Changes, records, wrappers
<1>3. /\ kernel' \in [Pids -> Entry]
      /\ \A q \in Pids : kernel'[q].process = kernel[q].process
      /\ kernel'[p].does = does /\ kernel'[p].report = report
      /\ \A q \in Pids : q # p => kernel'[q] = kernel[q]
  BY <1>1, <1>2, ChangeIs
<1>4. Names' = Names
  BY <1>2 DEF Names
<1>5. LaunchInv'
  BY <1>2, <1>3, <1>4 DEF IInv, LaunchInv, Launching
<1>6. OrderInv'
  BY <1>2 DEF IInv, OrderInv
<1>7. KernelInv'
  <2>1. kernel[p].process # NoProcess
    BY <1>2 DEF IInv, KernelInv, NoChild
  <2> QED BY <1>1, <1>2, <1>3, <2>1 DEF IInv, KernelInv
<1>8. IdInv'
  <2>1. \A i \in DOMAIN children : children[i].pid \in Pids
    BY <1>2, Types
  <2> QED BY <1>2, <1>3, <2>1 DEF IInv, IdInv
<1>9. ReapedInv'
  BY <1>2, <1>3, <1>4 DEF IInv, ReapedInv, Reaped
<1>10. StatusInv'
  BY <1>2, <1>4 DEF IInv, StatusInv, Launching
<1>11. ObjectInv' /\ ReportInv'
  BY <1>2, <1>4 DEF IInv, ObjectInv, ReportInv
<1> QED BY <1>5, <1>6, <1>7, <1>8, <1>9, <1>10, <1>11 DEF RecordInv

(* A child the handler looks at.                                            *)
LEMMA UpdateStep ==
  ASSUME IInv, UpdateChildStatus
  PROVE  RecordInv' /\ ObjectInv' /\ ReportInv'
<1> DEFINE p == children[handler].pid
           s == Waitpid(p)
<1>0. TypeOK /\ RecordInv /\ ObjectInv /\ ReportInv /\ MaskInv
  BY DEF IInv, RecordInv
<1>1. /\ handler \in DOMAIN children /\ handler' = handler + 1 /\ handler \in Nat /\ handler > 0
      /\ p \in Pids
      /\ UNCHANGED <<forked, children, freed, referenced, objects, pc, current, pending>>
  BY <1>0, Types DEF UpdateChildStatus, LookAt, wrappers
<1>2. /\ kernel \in [Pids -> Entry] /\ NoProcess \notin Names \cup freed
      /\ DOMAIN children \subseteq Nat
      /\ \A i \in DOMAIN children : children[i].process \in Names /\ children[i].pid \in Pids
  BY <1>0, Types DEF Names
<1>3. ~Launching /\ ~Launching' /\ pc # "fork"
  BY <1>0, <1>1 DEF MaskInv, Launching
<1>4. Names' = Names
  BY <1>1 DEF Names
<1>5. CASE ~StatusChanged(s)
  <2>1. UNCHANGED <<kernel, status>>
    BY <1>5 DEF UpdateChildStatus
  <2>2. RecordInv'
    BY <1>1, <1>3, <2>1, RecordsKept DEF RecordVars
  <2>3. ObjectInv'
    BY <1>0, <1>1, <1>4 DEF ObjectInv
  <2>4. Silent(children[handler].process)
    <3>1. kernel[p].report = "none" /\ kernel[p].does # "zombie"
      BY <1>0, <1>1, <1>5 DEF StatusChanged, Waitpid, RecordInv, KernelInv
    <3>2. \A q \in Pids : kernel[q].process = children[handler].process => q = p
      BY <1>0, <1>1 DEF RecordInv, IdInv
    <3> QED BY <3>1, <3>2 DEF Silent
  <2>5. ReportInv'
    <3>1. SUFFICES ASSUME ~pending, NEW i \in DOMAIN children, i < handler + 1
                   PROVE  Silent(children[i].process)'
      BY <1>1, <1>3 DEF ReportInv
    <3>2. i < handler \/ i = handler
      BY <1>1, <1>2, <3>1
    <3>3. Silent(children[i].process)
      BY <1>0, <2>4, <3>1, <3>2 DEF ReportInv
    <3> QED BY <1>1, <2>1, <3>3 DEF Silent
  <2> QED BY <2>2, <2>3, <2>5
<1>6. CASE StatusChanged(s)
  <2> DEFINE m == kernel[p].process
             n == GetChildProcess(p)
  <2>1. Reported(p) /\ status' = [status EXCEPT ![n] = s]
    BY <1>6 DEF UpdateChildStatus
  <2>2. /\ kernel' \in [Pids -> Entry]
        /\ \A q \in Pids : q # p => kernel'[q] = kernel[q]
        /\ kernel[p].does = "zombie" => kernel'[p] = NoChild
        /\ kernel[p].does # "zombie" => /\ kernel'[p].process = m
                                        /\ kernel'[p].does = kernel[p].does
                                        /\ kernel'[p].report = "none"
    BY <1>1, <1>2, <2>1, ReportedIs
  <2>3. /\ \A q \in Pids : kernel'[q].process \in {kernel[q].process, NoProcess}
        /\ \A q \in Pids : kernel'[q].process # NoProcess => kernel'[q].process = kernel[q].process
    BY <1>1, <2>2 DEF NoChild
  <2>4. m # NoProcess /\ s.of = m /\ s.code = kernel[p].report /\ s.code # "none"
    BY <1>0, <1>1, <1>6 DEF StatusChanged, Waitpid, RecordInv, KernelInv, NoChild
  <2>5. PICK i \in DOMAIN children :
          /\ children[i].pid = p /\ n = children[i].process
          /\ \A j \in DOMAIN children : children[j].pid = p => i <= j
    BY <1>0, <1>1, FirstWithPid
  <2>6. n \in Names /\ n \in Process
    BY <1>0, <1>2, <2>5, Types
  <2>7. m = n \/ m \notin Names \cup freed
    <3>1. m \notin freed
      BY <1>0, <1>1 DEF RecordInv, ReapedInv, Reaped
    <3>2. ASSUME m \in Names PROVE m = n
      <4>1. PICK j \in DOMAIN children : children[j].process = m
        BY <3>2 DEF Names
      <4>2. children[j].pid = p
        BY <1>0, <1>1, <4>1 DEF RecordInv, IdInv
      <4>3. n <= m
        BY <1>0, <1>1, <2>4, <2>5 DEF RecordInv, IdInv
      <4>4. i <= j
        BY <2>5, <4>2
      <4>5. i < j => n > m
        BY <1>0, <2>5, <4>1 DEF RecordInv, OrderInv
      <4>6. n \in Nat /\ m \in Nat
        BY <1>0, <1>1, <2>6, Types
      <4>7. i = j
        <5> HIDE DEF m, n
        <5> QED BY <1>2, <4>3, <4>4, <4>5, <4>6
      <4> QED BY <2>5, <4>1, <4>7
    <3> QED BY <3>1, <3>2
  <2>8. m \in Nat /\ m <= forked
    BY <1>0, <1>1, Types DEF RecordInv, KernelInv
  <2>9. /\ status'[n] = s
        /\ \A k \in Process : k # n => status'[k] = status[k]
    BY <1>0, <2>1, <2>6 DEF TypeOK
  <2> HIDE DEF n, s
  <2>10. LaunchInv' /\ OrderInv'
    BY <1>0, <1>1, <1>3, <1>4 DEF RecordInv, LaunchInv, OrderInv
  <2>11. KernelInv'
    <3>1. \A q \in Pids : kernel'[q].process <= forked'
      BY <1>0, <1>1, <2>3, Types DEF RecordInv, KernelInv, NoProcess
    <3>2. \A q \in Pids : kernel'[q].process = NoProcess => kernel'[q] = NoChild
      BY <1>0, <1>1, <2>2, <2>4 DEF RecordInv, KernelInv
    <3>3. \A q, r \in Pids : kernel'[q].process = kernel'[r].process /\ kernel'[q].process # NoProcess => q = r
      BY <1>0, <2>3 DEF RecordInv, KernelInv
    <3>4. \A q \in Pids : /\ kernel'[q].does = "zombie" <=> kernel'[q].report \in {"exited", "signaled"}
                          /\ kernel'[q].report # "unset"
      BY <1>0, <1>1, <2>2 DEF RecordInv, KernelInv, NoChild
    <3> QED BY <3>1, <3>2, <3>3, <3>4 DEF KernelInv
  <2>12. IdInv'
    <3>1. ASSUME NEW k \in DOMAIN children, NEW q \in Pids, kernel'[q].process = children[k].process
          PROVE  children[k].pid = q
      <4>1. children[k].process # NoProcess
        BY <1>2
      <4>2. kernel[q].process = children[k].process
        BY <2>3, <3>1, <4>1
      <4> QED BY <1>0, <4>2 DEF RecordInv, IdInv
    <3>2. ASSUME NEW k \in DOMAIN children, kernel'[children[k].pid].process # NoProcess
          PROVE  children[k].process <= kernel'[children[k].pid].process
      <4>1. kernel'[children[k].pid].process = kernel[children[k].pid].process
        BY <1>2, <2>3, <3>2
      <4> QED BY <1>0, <3>2, <4>1 DEF RecordInv, IdInv
    <3> QED BY <1>1, <3>1, <3>2 DEF IdInv
  <2>13. ReapedInv'
    <3> DEFINE Gone(k) == \A q \in Pids : kernel'[q].process # k
    <3>1. ASSUME NEW k \in Names \cup freed, Reaped(k) PROVE Gone(k)
      BY <1>2, <2>3, <3>1 DEF Reaped
    <3>2. ASSUME IsDeadStatus(s) PROVE Gone(n)
      <4>1. kernel'[p].process = NoProcess
        BY <1>0, <1>1, <2>2, <2>4, <3>2 DEF IsDeadStatus, RecordInv, KernelInv, NoChild
      <4>2. ASSUME NEW q \in Pids, kernel'[q].process = n PROVE q = p
        <5>1. kernel[q].process = n
          BY <1>2, <2>3, <2>6, <4>2
        <5> QED BY <1>0, <2>5, <5>1 DEF RecordInv, IdInv
      <4> QED BY <1>2, <2>6, <4>1, <4>2
    <3>3. ASSUME NEW k \in Names, IsDeadStatus(status'[k]) PROVE Gone(k)
      <4>1. CASE k = n
        BY <2>9, <3>2, <3>3, <4>1
      <4>2. CASE k # n
        <5>1. k \in Process
          BY <1>0, Types
        <5>2. Reaped(k)
          BY <1>0, <2>9, <3>3, <4>2, <5>1 DEF RecordInv, ReapedInv
        <5> QED BY <3>1, <5>2
      <4> QED BY <4>1, <4>2
    <3>4. ASSUME NEW k \in freed PROVE Gone(k)
      BY <1>0, <3>1 DEF RecordInv, ReapedInv
    <3> QED BY <1>1, <1>4, <3>3, <3>4 DEF ReapedInv, Reaped
  <2>14. StatusInv'
    <3>1. ASSUME NEW k \in Process
          PROVE  /\ status'[k].of <= forked'
                 /\ Launching' => status'[k].of # current'
                 /\ status'[k].code # "unset" =>
                      status'[k].of # NoProcess /\ (status'[k].of = k \/ status'[k].of \notin (Names \cup freed)')
      <4>1. CASE k = n
        BY <1>1, <1>3, <1>4, <2>4, <2>7, <2>8, <2>9, <4>1
      <4>2. CASE k # n
        BY <1>0, <1>1, <1>3, <1>4, <2>9, <4>2 DEF RecordInv, StatusInv
      <4> QED BY <4>1, <4>2
    <3> QED BY <3>1 DEF StatusInv
  <2>15. ObjectInv'
    BY <1>0, <1>1, <1>4 DEF ObjectInv
  <2>16. ReportInv'
    <3>1. SUFFICES ASSUME ~pending, NEW k \in DOMAIN children, k < handler + 1,
                          NEW q \in Pids, kernel'[q].process = children[k].process
                   PROVE  kernel'[q].report = "none" /\ kernel'[q].does # "zombie"
      BY <1>1, <1>3 DEF ReportInv, Silent
    <3>2. children[k].pid = q
      BY <1>1, <2>12, <3>1 DEF IdInv
    <3>3. CASE q = p
      BY <1>2, <2>2, <3>1, <3>3 DEF NoChild
    <3>4. CASE q # p
      <4>1. k # handler
        BY <3>2, <3>4
      <4>2. Silent(children[k].process)
        BY <1>0, <1>1, <1>2, <3>1, <4>1 DEF ReportInv
      <4> QED BY <2>2, <3>1, <3>4, <4>2 DEF Silent
    <3> QED BY <3>3, <3>4
  <2> QED BY <2>10, <2>11, <2>12, <2>13, <2>14, <2>15, <2>16 DEF RecordInv
<1> QED BY <1>5, <1>6

(* A new process is the last one.                                           *)
LEMMA ForkStep ==
  ASSUME IInv, Fork
  PROVE  RecordInv' /\ ObjectInv' /\ ReportInv'
<1>0. TypeOK /\ RecordInv /\ ObjectInv /\ ReportInv
  BY DEF IInv, RecordInv
<1>1. /\ UNCHANGED <<children, status, freed, referenced, objects, handler>>
      /\ handler = 0 /\ pc = "fork" /\ forked' = forked + 1 /\ current' = forked'
      /\ forked \in Nat
  BY <1>0, Types DEF Fork, At, records, wrappers
<1>2. PICK p \in FreePids, outcome \in {"runs"} \cup (Failures \cap {"setup", "exec"}) :
        /\ kernel' = [kernel EXCEPT ![p] =
             IF outcome = "runs" THEN [process |-> forked', does |-> "runs", report |-> "none"]
             ELSE [process |-> forked', does |-> "zombie", report |-> "exited"]]
        /\ pending' = (pending \/ outcome # "runs")
        /\ pc' = IF outcome = "exec" THEN "return" ELSE "remove"
  BY DEF Fork
<1>3. /\ kernel \in [Pids -> Entry] /\ Names \subseteq Nat /\ freed \subseteq Nat
      /\ \A q \in Pids : kernel[q].process \in Nat
      /\ \A i \in DOMAIN children : children[i].process \in Names /\ children[i].pid \in Pids
      /\ \A n \in Process : status[n].of \in Nat
      /\ NoProcess \notin Names \cup freed
  BY <1>0, Types DEF Names
<1>4. p \in Pids /\ kernel[p] = NoChild
  BY DEF FreePids
<1>5. /\ kernel'[p].process = forked'
      /\ kernel'[p].does = "zombie" <=> kernel'[p].report \in {"exited", "signaled"}
      /\ kernel'[p].report # "unset"
      /\ outcome = "runs" => kernel'[p].report = "none" /\ kernel'[p].does # "zombie"
      /\ \A q \in Pids : q # p => kernel'[q] = kernel[q]
  BY <1>2, <1>3, <1>4
<1>6. Names' = Names
  BY <1>1 DEF Names
<1>7. /\ \A q \in Pids : kernel[q].process <= forked
      /\ \A n \in Names \cup freed : n <= forked
  BY <1>0 DEF RecordInv, KernelInv, LaunchInv
<1>8. LaunchInv'
  <2>1. forked' \notin Names \cup freed /\ forked' > 0 /\ \A n \in Names \cup freed : n <= forked'
    BY <1>1, <1>3, <1>7
  <2>2. pc' # "fork"
    BY <1>2
  <2> QED BY <1>1, <1>4, <1>5, <1>6, <2>1, <2>2 DEF LaunchInv
<1>9. OrderInv'
  BY <1>0, <1>1 DEF RecordInv, OrderInv
<1>10. KernelInv'
  <2>1. \A q \in Pids : kernel'[q].process <= forked'
    <3>1. ASSUME NEW q \in Pids PROVE kernel'[q].process <= forked'
      <4>1. CASE q = p
        BY <1>1, <1>5, <4>1
      <4>2. CASE q # p
        <5>1. kernel'[q].process = kernel[q].process
          BY <1>5, <4>2
        <5>2. kernel[q].process \in Nat /\ kernel[q].process <= forked
          BY <1>3, <1>7
        <5> QED BY <1>1, <5>1, <5>2
      <4> QED BY <4>1, <4>2
    <3> QED BY <3>1
  <2>2. \A q \in Pids : kernel'[q].process = NoProcess => kernel'[q] = NoChild
    BY <1>0, <1>1, <1>5 DEF RecordInv, KernelInv, NoProcess
  <2>3. \A q \in Pids : kernel[q].process # forked'
    BY <1>1, <1>3, <1>7
  <2>4. \A q, r \in Pids : kernel'[q].process = kernel'[r].process /\ kernel'[q].process # NoProcess => q = r
    BY <1>0, <1>5, <2>3 DEF RecordInv, KernelInv
  <2>5. \A q \in Pids : /\ kernel'[q].does = "zombie" <=> kernel'[q].report \in {"exited", "signaled"}
                        /\ kernel'[q].report # "unset"
    BY <1>0, <1>5 DEF RecordInv, KernelInv
  <2> QED BY <2>1, <2>2, <2>4, <2>5 DEF KernelInv
<1>11. \A n \in Names \cup freed : n # forked' /\ n <= forked'
  BY <1>1, <1>3, <1>7
<1>12. IdInv'
  <2>1. ASSUME NEW i \in DOMAIN children, NEW q \in Pids, kernel'[q].process = children[i].process
        PROVE  children[i].pid = q
    <3>1. q # p
      BY <1>3, <1>5, <1>11, <2>1
    <3> QED BY <1>0, <1>5, <2>1, <3>1 DEF RecordInv, IdInv
  <2>2. ASSUME NEW i \in DOMAIN children, kernel'[children[i].pid].process # NoProcess
        PROVE  children[i].process <= kernel'[children[i].pid].process
    <3>1. CASE children[i].pid = p
      BY <1>3, <1>5, <1>11, <3>1
    <3>2. CASE children[i].pid # p
      BY <1>0, <1>3, <1>5, <2>2, <3>2 DEF RecordInv, IdInv
    <3> QED BY <3>1, <3>2
  <2> QED BY <1>1, <2>1, <2>2 DEF IdInv
<1>13. ReapedInv'
  <2>1. ASSUME NEW n \in Names \cup freed, \A q \in Pids : kernel[q].process # n
        PROVE  \A q \in Pids : kernel'[q].process # n
    BY <1>5, <1>11, <2>1
  <2> QED BY <1>0, <1>1, <1>6, <2>1 DEF RecordInv, ReapedInv, Reaped
<1>14. StatusInv'
  <2>1. ASSUME NEW n \in Process
        PROVE  status[n].of <= forked' /\ status[n].of # current'
    <3>1. status[n].of <= forked /\ status[n].of \in Nat
      BY <1>0, <1>3 DEF RecordInv, StatusInv
    <3> QED BY <1>1, <3>1
  <2> QED BY <1>0, <1>1, <1>6, <2>1 DEF RecordInv, StatusInv
<1>15. ObjectInv'
  BY <1>0, <1>1, <1>6 DEF ObjectInv
<1>16. ReportInv'
  <2>1. SUFFICES ASSUME ~pending' PROVE ReportInv'
    BY DEF ReportInv
  <2>2. ~pending /\ outcome = "runs"
    BY <1>2, <2>1
  <2>3. ASSUME NEW i \in DOMAIN children PROVE Silent(children[i].process)'
    <3>1. Silent(children[i].process)
      BY <1>0, <1>1, <2>2 DEF ReportInv
    <3>2. children[i].process # forked'
      BY <1>3, <1>11
    <3> QED BY <1>1, <1>5, <3>1, <3>2 DEF Silent
  <2>4. \A q \in Pids : kernel'[q].process = forked' => q = p
    <3>1. \A q \in Pids : kernel[q].process # forked'
      BY <1>1, <1>3, <1>7
    <3> QED BY <1>5, <3>1
  <2>5. Silent(current)'
    BY <1>1, <1>5, <2>2, <2>4 DEF Silent
  <2> QED BY <1>1, <2>3, <2>5 DEF ReportInv
<1> QED BY <1>8, <1>9, <1>10, <1>12, <1>13, <1>14, <1>15, <1>16 DEF RecordInv

(* The records that are left are in the same order.                         *)
LEMMA RemoveStep ==
  ASSUME IInv, RemoveDeadChildProcess
  PROVE  RecordInv' /\ ObjectInv' /\ ReportInv'
<1>0. TypeOK /\ RecordInv /\ ObjectInv /\ ReportInv
  BY DEF IInv, RecordInv
<1>1. /\ UNCHANGED <<forked, kernel, status, referenced, objects, handler, pc, current, pending>>
      /\ handler = 0 /\ pc = "remove"
  BY DEF RemoveDeadChildProcess, At, kernelVars, wrappers
<1>2. PICK i \in DOMAIN children :
        /\ SafeToFree(children[i].process)
        /\ freed' = freed \cup {children[i].process}
        /\ children' = RemoveAt(children, i)
  BY DEF RemoveDeadChildProcess, Dead
<1> DEFINE n == children[i].process
           Old(j) == IF j < i THEN j ELSE j + 1
<1>3. Len(children) \in Nat /\ DOMAIN children = 1 .. Len(children) /\ i \in Nat
  BY <1>0, Types
<1>4. /\ DOMAIN children' = 1 .. Len(children) - 1
      /\ \A j \in DOMAIN children' : children'[j] = children[Old(j)]
  <2>1. children \in Seq([process : Process, pid : Pids])
    BY <1>0 DEF TypeOK
  <2>2. /\ children' \in Seq([process : Process, pid : Pids])
        /\ Len(children') = Len(children) - 1
        /\ \A j \in 1 .. Len(children) - 1 : children'[j] = IF j < i THEN children[j] ELSE children[j + 1]
    BY <1>2, <2>1, RemoveAtIs
  <2>3. DOMAIN children' = 1 .. Len(children')
    BY <2>2
  <2> QED BY <2>2, <2>3
<1>5. \A j \in DOMAIN children' : j \in Nat /\ Old(j) \in DOMAIN children /\ Old(j) # i
  BY <1>3, <1>4
<1>6. \A j, k \in DOMAIN children' : j < k => Old(j) < Old(k)
  BY <1>3, <1>4
<1>7. \A k \in DOMAIN children : k # i => \E j \in DOMAIN children' : Old(j) = k
  <2>1. ASSUME NEW k \in DOMAIN children, k # i PROVE \E j \in DOMAIN children' : Old(j) = k
    <3>1. CASE k < i
      <4>1. k \in DOMAIN children' /\ Old(k) = k
        BY <1>3, <1>4, <3>1
      <4> QED BY <4>1
    <3>2. CASE ~(k < i)
      <4>1. k - 1 \in DOMAIN children' /\ Old(k - 1) = k
        BY <1>3, <1>4, <2>1, <3>2
      <4> QED BY <4>1
    <3> QED BY <3>1, <3>2
  <2> QED BY <2>1
<1>8. \A k \in DOMAIN children : k # i => children[k].process # n
  <2>1. ASSUME NEW k \in DOMAIN children, k # i PROVE children[k].process # n
    <3>1. children[k].process \in Nat /\ n \in Nat
      BY <1>0, Types
    <3>2. k < i \/ i < k
      BY <1>3, <2>1
    <3>3. children[k].process > n \/ n > children[k].process
      BY <1>0, <3>2 DEF RecordInv, OrderInv
    <3> QED BY <3>1, <3>3
  <2> QED BY <2>1
<1> HIDE DEF Old
<1>9. Names' = Names \ {n}
  <2>1. ASSUME NEW j \in DOMAIN children' PROVE children'[j].process \in Names \ {n}
    BY <1>4, <1>5, <1>8 DEF Names
  <2>2. ASSUME NEW m \in Names \ {n} PROVE \E j \in DOMAIN children' : children'[j].process = m
    <3>1. PICK k \in DOMAIN children : children[k].process = m
      BY <2>2 DEF Names
    <3> QED BY <1>4, <1>7, <2>2, <3>1
  <2> HIDE DEF n
  <2>3. Names' = {children'[j].process : j \in DOMAIN children'}
    BY DEF Names
  <2>4. Names' \subseteq Names \ {n}
    BY <2>1, <2>3
  <2>5. Names \ {n} \subseteq Names'
    BY <2>2, <2>3
  <2> QED BY <2>4, <2>5
<1>10. n \in Names /\ IsDeadStatus(status[n]) /\ n \notin referenced
  BY <1>2 DEF SafeToFree, Names
<1> HIDE DEF n
<1>11. Names' \cup freed' = Names \cup freed
  BY <1>2, <1>9, <1>10 DEF n
<1>12. Names' \subseteq Names
  BY <1>9
<1>13. LaunchInv'
  BY <1>0, <1>1, <1>11 DEF RecordInv, LaunchInv, Launching
<1>14. OrderInv'
  <2>1. ASSUME NEW j \in DOMAIN children', NEW k \in DOMAIN children', j < k
        PROVE  children'[j].process > children'[k].process
    BY <1>0, <1>4, <1>5, <1>6, <2>1 DEF RecordInv, OrderInv
  <2> QED BY <2>1 DEF OrderInv
<1>15. KernelInv'
  BY <1>0, <1>1 DEF RecordInv, KernelInv
<1>16. IdInv'
  BY <1>0, <1>1, <1>4, <1>5 DEF RecordInv, IdInv
<1>17. ReapedInv'
  <2>1. Reaped(n)
    BY <1>0, <1>10 DEF RecordInv, ReapedInv
  <2>2. \A m \in freed' : Reaped(m)
    BY <1>0, <1>2, <2>1 DEF RecordInv, ReapedInv, n
  <2>3. \A m \in Names' : IsDeadStatus(status[m]) => Reaped(m)
    BY <1>0, <1>12 DEF RecordInv, ReapedInv
  <2> QED BY <1>1, <2>2, <2>3 DEF ReapedInv, Reaped
<1>18. StatusInv'
  BY <1>0, <1>1, <1>11 DEF RecordInv, StatusInv, Launching
<1>19. ObjectInv'
  <2>1. objects \subseteq Names'
    BY <1>0, <1>9, <1>10 DEF ObjectInv
  <2>2. Names' \cap freed' = {}
    BY <1>0, <1>2, <1>9 DEF ObjectInv, n
  <2> QED BY <1>0, <1>1, <2>1, <2>2 DEF ObjectInv
<1>20. ReportInv'
  <2>1. ASSUME ~pending, NEW j \in DOMAIN children' PROVE Silent(children'[j].process)
    BY <1>0, <1>1, <1>4, <1>5, <2>1 DEF ReportInv
  <2> QED BY <1>0, <1>1, <2>1 DEF ReportInv, Silent, Launching
<1> QED BY <1>13, <1>14, <1>15, <1>16, <1>17, <1>18, <1>19, <1>20 DEF RecordInv

(* The process that was launched comes first.                               *)
LEMMA RegisterStep ==
  ASSUME IInv, RegisterChildProcess
  PROVE  RecordInv' /\ ObjectInv' /\ ReportInv'
<1>0. TypeOK /\ RecordInv /\ ObjectInv /\ ReportInv
  BY DEF IInv, RecordInv
<1>1. /\ UNCHANGED <<forked, kernel, freed, handler, current, pending>>
      /\ handler = 0 /\ pc = "register" /\ pc' = "return"
      /\ referenced' = referenced \cup {current} /\ objects' = objects \cup {current}
      /\ status' = [status EXCEPT ![current] = Unset]
  BY DEF RegisterChildProcess, At, kernelVars
<1>2. /\ current = forked /\ current > 0 /\ current \notin Names \cup freed
      /\ \E p \in Pids : kernel[p].process = current
  BY <1>0, <1>1 DEF RecordInv, LaunchInv, Launching
<1>3. /\ current \in Process /\ current # NoProcess /\ forked \in Nat
      /\ Len(children) \in Nat /\ DOMAIN children = 1 .. Len(children)
      /\ Names \subseteq Nat /\ NoProcess \notin Names
      /\ \A i \in DOMAIN children : children[i].process \in Names /\ children[i].pid \in Pids
  <2>1. current \in Process /\ current # NoProcess
    BY <1>0, <1>2 DEF TypeOK, NoProcess
  <2>2. \A i \in DOMAIN children : children[i].process \in Names
    BY DEF Names
  <2>3. Names \subseteq Process /\ Process \subseteq Nat /\ NoProcess \notin Process
    BY <1>0, Types
  <2> QED BY <1>0, <2>1, <2>2, <2>3, Types
<1> DEFINE pid == PidOf(current)
           new == [process |-> current, pid |-> pid]
<1>4. pid \in Pids /\ kernel[pid].process = current
  BY <1>2 DEF PidOf
<1> HIDE DEF pid
<1>5. /\ DOMAIN children' = 1 .. Len(children) + 1
      /\ children'[1] = new
      /\ \A j \in 2 .. Len(children) + 1 : children'[j] = children[j - 1]
  <2>1. children \in Seq([process : Process, pid : Pids]) /\ <<new>> \in Seq([process : Process, pid : Pids])
    BY <1>0, <1>3, <1>4 DEF TypeOK
  <2>2. children' = <<new>> \o children
    BY DEF RegisterChildProcess, AddChildProcess, pid
  <2>3. Len(<<new>>) = 1 /\ <<new>>[1] = new
    OBVIOUS
  <2> HIDE DEF new
  <2>4. /\ <<new>> \o children \in Seq([process : Process, pid : Pids])
        /\ Len(<<new>> \o children) = Len(children) + 1
        /\ \A j \in 1 .. Len(children) + 1 :
             (<<new>> \o children)[j] = IF j <= 1 THEN <<new>>[j] ELSE children[j - 1]
    BY <1>3, <2>1, <2>3, ConcatProperties
  <2>5. DOMAIN children' = 1 .. Len(children) + 1
    BY <2>2, <2>4
  <2> QED BY <1>3, <2>2, <2>3, <2>4, <2>5
<1>6. \A j \in DOMAIN children' : j = 1 \/ (j - 1 \in DOMAIN children /\ children'[j] = children[j - 1])
  BY <1>3, <1>5
<1>7. \A j \in DOMAIN children : j + 1 \in DOMAIN children' /\ children'[j + 1] = children[j]
  BY <1>3, <1>5
<1>8. 1 \in DOMAIN children' /\ children'[1].process = current /\ children'[1].pid = pid
  BY <1>3, <1>5
<1> HIDE DEF new
<1>9. Names' = Names \cup {current}
  <2>1. \A j \in DOMAIN children' : children'[j].process \in Names \cup {current}
    BY <1>6, <1>8 DEF Names
  <2>2. \A n \in Names \cup {current} : \E j \in DOMAIN children' : children'[j].process = n
    BY <1>7, <1>8 DEF Names
  <2>3. Names' = {children'[j].process : j \in DOMAIN children'}
    BY DEF Names
  <2> QED BY <2>1, <2>2, <2>3
<1>10. ~Launching'
  BY <1>1 DEF Launching
<1>11. \A n \in Names : n < current
  <2>1. ASSUME NEW n \in Names PROVE n < current
    <3>1. n <= current /\ n # current
      BY <1>0, <1>2 DEF RecordInv, LaunchInv
    <3>2. n \in Nat /\ current \in Nat
      BY <1>2, <1>3
    <3> QED BY <3>1, <3>2
  <2> QED BY <2>1
<1>12. LaunchInv'
  BY <1>0, <1>1, <1>2, <1>3, <1>9, <1>10 DEF RecordInv, LaunchInv
<1>13. OrderInv'
  <2>1. ASSUME NEW j \in DOMAIN children', NEW k \in DOMAIN children', j < k
        PROVE  children'[j].process > children'[k].process
    <3>1. k - 1 \in DOMAIN children /\ children'[k] = children[k - 1]
      BY <1>5, <1>6, <2>1
    <3>2. CASE j = 1
      BY <1>3, <1>8, <1>11, <3>1, <3>2
    <3>3. CASE j # 1
      <4>1. j - 1 \in DOMAIN children /\ children'[j] = children[j - 1] /\ j - 1 < k - 1
        BY <1>5, <1>6, <2>1, <3>3
      <4> QED BY <1>0, <3>1, <4>1 DEF RecordInv, OrderInv
    <3> QED BY <3>2, <3>3
  <2> QED BY <2>1 DEF OrderInv
<1>14. KernelInv'
  BY <1>0, <1>1 DEF RecordInv, KernelInv
<1>15. \A p \in Pids : kernel[p].process = current => p = pid
  BY <1>0, <1>3, <1>4 DEF RecordInv, KernelInv
<1>16. IdInv'
  <2>1. ASSUME NEW j \in DOMAIN children', NEW p \in Pids, kernel[p].process = children'[j].process
        PROVE  children'[j].pid = p
    BY <1>0, <1>6, <1>8, <1>15, <2>1 DEF RecordInv, IdInv
  <2>2. ASSUME NEW j \in DOMAIN children', kernel[children'[j].pid].process # NoProcess
        PROVE  children'[j].process <= kernel[children'[j].pid].process
    <3>1. CASE j = 1
      BY <1>2, <1>3, <1>4, <1>8, <3>1
    <3>2. CASE j # 1
      BY <1>0, <1>6, <2>2, <3>2 DEF RecordInv, IdInv
    <3> QED BY <3>1, <3>2
  <2> QED BY <1>1, <2>1, <2>2 DEF IdInv
<1>17. /\ status'[current] = Unset
       /\ \A n \in Process : n # current => status'[n] = status[n]
  BY <1>0, <1>1, <1>3 DEF TypeOK
<1>18. ReapedInv'
  <2>1. ~IsDeadStatus(Unset)
    BY DEF IsDeadStatus, Unset
  <2>2. ASSUME NEW n \in Names, IsDeadStatus(status'[n]) PROVE Reaped(n)
    BY <1>0, <1>2, <1>17, <2>2, Types DEF RecordInv, ReapedInv
  <2> QED BY <1>0, <1>1, <1>9, <1>17, <2>1, <2>2 DEF RecordInv, ReapedInv, Reaped
<1>19. StatusInv'
  <2>1. ASSUME NEW n \in Process
        PROVE  /\ status'[n].of <= forked
               /\ status'[n].code # "unset" =>
                    status'[n].of # NoProcess /\ (status'[n].of = n \/ status'[n].of \notin Names' \cup freed)
    <3>1. CASE n = current
      BY <1>3, <1>17, <3>1 DEF Unset, NoProcess
    <3>2. CASE n # current
      <4>1. status[n].of # current
        BY <1>0, <1>1 DEF RecordInv, StatusInv, Launching
      <4> QED BY <1>0, <1>9, <1>17, <3>2, <4>1 DEF RecordInv, StatusInv
    <3> QED BY <3>1, <3>2
  <2> QED BY <1>1, <1>10, <2>1 DEF StatusInv
<1>20. ObjectInv'
  BY <1>0, <1>1, <1>2, <1>9 DEF ObjectInv
<1>21. ReportInv'
  <2>1. ASSUME ~pending, NEW j \in DOMAIN children' PROVE Silent(children'[j].process)
    <3>1. Silent(current) /\ \A i \in DOMAIN children : Silent(children[i].process)
      BY <1>0, <1>1, <2>1 DEF ReportInv, Launching
    <3> QED BY <1>6, <1>8, <3>1
  <2> QED BY <1>1, <1>10, <2>1 DEF ReportInv, Silent
<1> QED BY <1>12, <1>13, <1>14, <1>16, <1>18, <1>19, <1>20, <1>21 DEF RecordInv

(* The other steps touch no record.                                         *)
LEMMA OtherStep ==
  ASSUME IInv,
         \/ DeliverSignal \/ ReturnFromHandler
         \/ AllRemoved \/ OpenFails \/ ReturnFromLaunch
         \/ Answer \/ BeginLaunch \/ ErrorPipeFails \/ VforkFails
         \/ \E n \in objects : State(n) \/ Wait(n) \/ Finalize(n)
         \/ UNCHANGED vars
  PROVE  RecordInv' /\ ObjectInv' /\ ReportInv'
<1>0. TypeOK /\ MaskInv /\ LaunchInv /\ ObjectInv /\ ReportInv
  BY DEF IInv
<1>1. Len(children) \in Nat /\ DOMAIN children = 1 .. Len(children) /\ handler \in Nat
  BY <1>0, Types DEF TypeOK
<1>2. UNCHANGED RecordVars
  BY DEF RecordVars, DeliverSignal, ReturnFromHandler, AllRemoved, OpenFails, ReturnFromLaunch, Answer, TestDead,
         Suspend, ReadState, BeginLaunch, ErrorPipeFails, VforkFails, State, Wait, Retrieve, Finalize,
         records, wrappers, kernelVars, vars
<1>3. Launching' => Launching /\ current' = current
  <2>1. CASE DeliverSignal \/ ReturnFromHandler
    BY <1>0, <2>1 DEF DeliverSignal, ReturnFromHandler, Launching, MaskInv
  <2>2. CASE AllRemoved \/ OpenFails \/ ReturnFromLaunch
    BY <2>2 DEF AllRemoved, OpenFails, ReturnFromLaunch, At, Launching
  <2>3. CASE Answer \/ BeginLaunch \/ ErrorPipeFails \/ VforkFails
    BY <2>3 DEF Answer, TestDead, Suspend, ReadState, BeginLaunch, ErrorPipeFails, VforkFails, At, Launching
  <2>4. CASE (\E n \in objects : State(n) \/ Wait(n) \/ Finalize(n)) \/ UNCHANGED vars
    BY <2>4 DEF State, Wait, Retrieve, Finalize, vars, Launching
  <2> QED BY <2>1, <2>2, <2>3, <2>4
<1>4. pc' = "fork" => forked < MaxForks
  <2>1. CASE pc = "fork"
    BY <1>0, <2>1 DEF LaunchInv
  <2>2. CASE BeginLaunch
    BY <2>2 DEF BeginLaunch
  <2>3. CASE pc # "fork" /\ ~BeginLaunch
    BY <2>3 DEF DeliverSignal, ReturnFromHandler, AllRemoved, OpenFails, ReturnFromLaunch, Answer, TestDead,
         Suspend, ReadState, ErrorPipeFails, VforkFails, State, Wait, Retrieve, Finalize, vars
  <2> QED BY <2>1, <2>2, <2>3
<1>5. RecordInv'
  BY <1>2, <1>3, <1>4, RecordsKept
<1>6. UNCHANGED <<kernel, children, freed>> /\ Names' = Names
  BY <1>2 DEF RecordVars, Names
<1>7. ObjectInv'
  <2>1. /\ objects' \subseteq objects
        /\ referenced' = referenced \/ \E n \in Process : referenced' = referenced \ {n} /\ objects' = objects \ {n}
    BY <1>0 DEF TypeOK, DeliverSignal, ReturnFromHandler, AllRemoved, OpenFails, ReturnFromLaunch, Answer, TestDead,
         Suspend, ReadState, BeginLaunch, ErrorPipeFails, VforkFails, State, Wait, Retrieve, Finalize,
         records, wrappers, vars
  <2> QED BY <1>0, <1>6, <2>1 DEF ObjectInv
<1>8. ~pending' => \A i \in DOMAIN children : handler' = 0 \/ i < handler' => Silent(children[i].process)
  <2>1. CASE DeliverSignal
    BY <1>1, <2>1 DEF DeliverSignal
  <2>2. CASE ReturnFromHandler
    <3>1. \A i \in DOMAIN children : i < handler
      BY <1>0, <1>1, <2>2 DEF ReturnFromHandler, LookAt, TypeOK
    <3> QED BY <1>0, <2>2, <3>1 DEF ReturnFromHandler, ReportInv
  <2>3. CASE ~DeliverSignal /\ ~ReturnFromHandler
    <3>1. UNCHANGED <<pending, handler>>
      BY <2>3 DEF AllRemoved, OpenFails, ReturnFromLaunch, Answer, TestDead, Suspend, ReadState, BeginLaunch,
           ErrorPipeFails, VforkFails, State, Wait, Retrieve, Finalize, vars
    <3> QED BY <1>0, <3>1 DEF ReportInv
  <2> QED BY <2>1, <2>2, <2>3
<1>9. ~pending' /\ Launching' => Silent(current)
  <2>1. SUFFICES ASSUME ~pending', Launching' PROVE Silent(current)
    OBVIOUS
  <2>2. ~DeliverSignal
    BY <1>0, <1>3, <2>1 DEF DeliverSignal, Launching, MaskInv
  <2>3. pending' = pending
    BY <2>2 DEF ReturnFromHandler, AllRemoved, OpenFails, ReturnFromLaunch, Answer, TestDead, Suspend, ReadState,
         BeginLaunch, ErrorPipeFails, VforkFails, State, Wait, Retrieve, Finalize, vars
  <2> QED BY <1>0, <1>3, <2>1, <2>3 DEF ReportInv
<1>10. ReportInv'
  BY <1>3, <1>6, <1>8, <1>9 DEF ReportInv, Silent
<1> QED BY <1>5, <1>7, <1>10

-----------------------------------------------------------------------------
(* The invariant of ProcessPosix.                                           *)
THEOREM ProcessesInvariant == Spec => []IInv
<1>1. Init => IInv
  <2> SUFFICES ASSUME Init PROVE IInv
    OBVIOUS
  <2>a. pending \in BOOLEAN /\ blocked \in BOOLEAN /\ oldMask \in BOOLEAN
    BY DEF Init
  <2>b. << >> \in Seq([process : Process, pid : Pids]) /\ Len(<< >>) = 0 /\ DOMAIN << >> = {}
    OBVIOUS
  <2>1. /\ pending \in BOOLEAN /\ blocked \in BOOLEAN /\ oldMask \in BOOLEAN
        /\ children \in Seq([process : Process, pid : Pids]) /\ Len(children) = 0 /\ DOMAIN children = {}
    BY <2>a, <2>b DEF Init
  <2>2. Unset \in Status /\ NoChild \in Entry
    BY DEF Unset, NoChild, Status, Entry, Codes
  <2>3. kernel \in [Pids -> Entry] /\ status \in [Process -> Status] /\ done \in [Process -> Status]
    BY <2>2 DEF Init
  <2>4. TypeOK
    BY <2>1, <2>3, BoundsAssumption DEF Init, TypeOK, Entry
  <2>5. Names = {}
    BY <2>1 DEF Names
  <2>6. \A p \in Pids : kernel[p] = NoChild
    BY DEF Init
  <2>7. MaskInv /\ LaunchInv /\ ~Launching
    BY <2>5 DEF Init, MaskInv, LaunchInv, Launching
  <2>8. OrderInv /\ IdInv
    BY <2>1 DEF OrderInv, IdInv
  <2>9. KernelInv
    BY <2>6, BoundsAssumption DEF Init, KernelInv, NoChild, NoProcess
  <2>10. ReapedInv
    BY <2>5 DEF Init, ReapedInv
  <2>11. \A n \in Process : status[n] = Unset
    BY DEF Init
  <2>12. StatusInv
    BY <2>7, <2>11 DEF Init, StatusInv, Unset, NoProcess
  <2>13. ObjectInv /\ ReportInv
    BY <2>1, <2>5, <2>7 DEF Init, ObjectInv, ReportInv
  <2> QED BY <2>4, <2>7, <2>8, <2>9, <2>10, <2>12, <2>13 DEF IInv
<1>2. IInv /\ [Next]_vars => IInv'
  <2> SUFFICES ASSUME IInv, [Next]_vars PROVE IInv'
    OBVIOUS
  <2>1. TypeOK' /\ MaskInv'
    BY TypeStep, MaskStep
  <2>2. RecordInv' /\ ObjectInv' /\ ReportInv'
    <3>1. ASSUME NEW p \in Pids, Child(p) PROVE RecordInv' /\ ObjectInv' /\ ReportInv'
      BY <3>1, ChildStep
    <3>2. CASE UpdateChildStatus
      BY <3>2, UpdateStep
    <3>3. CASE Fork
      BY <3>3, ForkStep
    <3>4. CASE RemoveDeadChildProcess
      BY <3>4, RemoveStep
    <3>5. CASE RegisterChildProcess
      BY <3>5, RegisterStep
    <3>6. CASE \/ DeliverSignal \/ ReturnFromHandler
               \/ AllRemoved \/ OpenFails \/ ReturnFromLaunch
               \/ Answer \/ BeginLaunch \/ ErrorPipeFails \/ VforkFails
               \/ \E n \in objects : State(n) \/ Wait(n) \/ Finalize(n)
               \/ UNCHANGED vars
      BY <3>6, OtherStep
    <3> QED BY <3>1, <3>2, <3>3, <3>4, <3>5, <3>6 DEF Next, Handler, Launch, Program
  <2> QED BY <2>1, <2>2 DEF IInv, RecordInv
<1> QED BY <1>1, <1>2, PTL DEF Spec

(* No record that the program or the list points to is freed.               *)
THEOREM ProcessesWellFormed == Spec => []WellFormed
<1>1. IInv => WellFormed
  <2> SUFFICES ASSUME IInv PROVE WellFormed
    OBVIOUS
  <2>1. \A i \in DOMAIN children : children[i].process \in Names
    BY DEF Names
  <2> QED BY <2>1 DEF IInv, ObjectInv, WellFormed, NoUseAfterFree
<1> QED BY <1>1, ProcessesInvariant, PTL

(* A status is the process's own, or that of one that was never registered. *)
THEOREM StatusIsOwn == Spec => []StatusOfProcess
<1>1. IInv => StatusOfProcess
  BY DEF IInv, StatusInv, StatusOfProcess, FromFailed, Launched, Names
<1> QED BY <1>1, ProcessesInvariant, PTL

(* No change of state is lost.                                              *)
THEOREM ProcessesUpToDate == Spec => []UpToDate
<1>1. IInv => UpToDate
  BY DEF IInv, ReportInv, Silent, UpToDate
<1> QED BY <1>1, ProcessesInvariant, PTL

(* The mask is restored.                                                    *)
THEOREM MaskIsRestored == Spec => []MaskRestored
<1>1. IInv => MaskRestored
  BY DEF IInv, MaskInv, MaskRestored
<1> QED BY <1>1, ProcessesInvariant, PTL

(* A status that says that a process is dead is overwritten only by that of *)
(* a process whose launch failed: every other one that has had the same id  *)
(* has a record before it in the list, or was reaped.                       *)
THEOREM DeadStaysDead == Spec => DeadForEver
<1>1. IInv /\ [Next]_vars =>
        [\A n \in objects : IsDeadStatus(status[n]) /\ status'[n] # status[n] => FromFailed(status'[n])]_vars
  <2> SUFFICES ASSUME IInv, [Next]_vars,
                      NEW n \in objects, IsDeadStatus(status[n]), status'[n] # status[n]
               PROVE  FromFailed(status'[n])
    OBVIOUS
  <2>0. TypeOK /\ n \in Names /\ n \in Process /\ Reaped(n)
    BY DEF IInv, ObjectInv, TypeOK, ReapedInv
  <2>1. UpdateChildStatus
    <3>1. \/ UpdateChildStatus \/ RegisterChildProcess \/ status' = status
      BY DEF Next, Child, StopChild, ContinueChild, EndChild, Changes, DeliverSignal, Handler, ReturnFromHandler,
             Launch, Fork, RemoveDeadChildProcess, AllRemoved, OpenFails, ReturnFromLaunch, Answer, TestDead, Suspend,
             ReadState, Program, BeginLaunch, ErrorPipeFails, VforkFails, State, Wait, Retrieve, Finalize,
             records, vars
    <3>2. ~RegisterChildProcess
      <4>1. SUFFICES ASSUME RegisterChildProcess PROVE FALSE
        OBVIOUS
      <4>2. current \notin Names
        BY <4>1 DEF RegisterChildProcess, At, IInv, LaunchInv, Launching
      <4>3. status'[n] = status[n]
        BY <2>0, <4>1, <4>2 DEF RegisterChildProcess, TypeOK
      <4> QED BY <4>3
    <3> QED BY <3>1, <3>2
  <2> DEFINE p == children[handler].pid
             s == Waitpid(p)
  <2>2. handler \in DOMAIN children /\ p \in Pids /\ UNCHANGED <<children, freed>>
    BY <2>0, <2>1, Types DEF UpdateChildStatus, LookAt
  <2>3. StatusChanged(s) /\ status' = [status EXCEPT ![GetChildProcess(p)] = s]
    BY <2>1 DEF UpdateChildStatus
  <2>4. GetChildProcess(p) = n /\ status'[n] = s
    BY <2>0, <2>3 DEF TypeOK
  <2>5. s.of # n /\ s.of = kernel[p].process
    BY <2>0, <2>2 DEF Waitpid, Reaped
  <2>6. StatusInv'
    BY <2>1, UpdateStep DEF RecordInv
  <2>7. s.code # "unset"
    BY <2>2 DEF Waitpid, IInv, KernelInv
  <2>8. s.of # NoProcess /\ s.of \notin (Names \cup freed)'
    BY <2>0, <2>4, <2>5, <2>6, <2>7 DEF StatusInv
  <2>9. Names' = Names /\ freed' = freed
    BY <2>2 DEF Names
  <2> QED BY <2>2, <2>4, <2>8, <2>9 DEF FromFailed, Launched, Names
<1> QED BY <1>1, ProcessesInvariant, PTL DEF Spec, DeadForEver
=============================================================================
