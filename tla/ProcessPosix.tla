---------------------------- MODULE ProcessPosix ----------------------------
(***************************************************************************)
(* Child processes: runtime/process-posix.c (the launcher for Linux) with  *)
(* the Process objects of core/core.stanza 10170-10610.  One thread        *)
(* launches processes, asks for their state and waits for them; the        *)
(* SIGCHLD handler interrupts it wherever the signal is not blocked, and   *)
(* the children run, stop, continue and end on their own.                  *)
(*                                                                         *)
(* Processes are numbered in the order they are forked.  A status is what  *)
(* waitpid returned, with the number of the process it came from.          *)
(***************************************************************************)
EXTENDS Integers, Sequences, Functions, SequencesExt

CONSTANTS
  Pids,           \* process ids
  MaxForks,       \* bound on forks
  MaxStops,       \* bound on stops of children
  Failures,       \* the ways in which a launch may fail
  Reuse           \* whether the id of a reaped process is given to another one

AllFailures == {"errpipe", "vfork", "setup", "exec", "fdopen"}
ASSUME FailuresAssumption == Failures \subseteq AllFailures /\ Reuse \in BOOLEAN
ASSUME BoundsAssumption == MaxForks \in Nat /\ MaxStops \in Nat

Process == 1 .. MaxForks
NoProcess == 0
Unset == [code |-> "unset", of |-> NoProcess]
IsDeadStatus(s) == s.code \in {"exited", "signaled"}

VARIABLES
  forked,        \* number of processes forked so far
  kernel,        \* by pid: the process, what it does, and what waitpid has not reported yet
  usedPids,
  stops,
  pending, blocked,        \* SIGCHLD
  children,      \* child_processes, head first: process and pid
  status,        \* the ProcessStatus of a process
  referenced,    \* processes with referenced_from_stanza = 1
  freed,         \* processes whose ProcessStatus was freed
  objects,       \* processes with a Process object in the program
  done,          \* the done-state of these
  handler,       \* index of the child the handler looks at; 0 outside it
  pc, oldMask,   \* where the program is, and its local old_signal_mask
  current,       \* the process it launches or asks for
  failed         \* ghost: the ways in which launches have failed

kernelVars == <<kernel, usedPids, stops>>
records == <<children, status, referenced, freed>>
wrappers == <<objects, done>>
vars == <<forked, kernelVars, pending, blocked, records, wrappers, handler, pc, oldMask, current, failed>>

NoChild == [process |-> NoProcess, does |-> "none", report |-> "none"]
Init ==
  /\ forked = 0 /\ kernel = [p \in Pids |-> NoChild] /\ usedPids = {} /\ stops = 0
  /\ pending = FALSE /\ blocked = FALSE
  /\ children = << >> /\ status = [n \in Process |-> Unset]
  /\ referenced = {} /\ freed = {}
  /\ objects = {} /\ done = [n \in Process |-> Unset]
  /\ handler = 0
  /\ pc = "run" /\ oldMask = FALSE /\ current = NoProcess
  /\ failed = {}
-----------------------------------------------------------------------------
(* The children.  Every change of their state raises SIGCHLD.               *)
Changes(p, does, report) ==
  /\ kernel' = [kernel EXCEPT ![p].does = does, ![p].report = report]
  /\ pending' = TRUE
  /\ UNCHANGED <<forked, usedPids, blocked, records, wrappers, handler, pc, oldMask, current, failed>>

StopChild(p) ==
  /\ kernel[p].does = "runs" /\ stops < MaxStops /\ stops' = stops + 1
  /\ Changes(p, "stopped", "stopped")

ContinueChild(p) ==
  kernel[p].does = "stopped" /\ Changes(p, "runs", "continued") /\ UNCHANGED stops

EndChild(p, how) ==
  kernel[p].does \in {"runs", "stopped"} /\ Changes(p, "zombie", how) /\ UNCHANGED stops

Child(p) ==
  \/ StopChild(p) \/ ContinueChild(p)
  \/ \E how \in {"exited", "signaled"} : EndChild(p, how)

(* waitpid(pid, WNOHANG | WUNTRACED | WCONTINUED).                          *)
Waitpid(p) == [code |-> kernel[p].report, of |-> kernel[p].process]
Reported(p) ==
  kernel' = [kernel EXCEPT ![p] = IF @.does = "zombie" THEN NoChild ELSE [@ EXCEPT !.report = "none"]]
-----------------------------------------------------------------------------
(* The handler, with SIGCHLD blocked while it runs: for each registered     *)
(* child, update_child_status stores the status for the first child that    *)
(* has its pid.                                                             *)
WithPid(p) == {i \in DOMAIN children : children[i].pid = p}
GetChildProcess(p) == children[CHOOSE i \in WithPid(p) : \A j \in WithPid(p) : i <= j].process

DeliverSignal ==
  /\ pending /\ handler = 0
  /\ ~blocked \/ pc = "suspended"
  /\ pending' = FALSE
  /\ handler' = 1
  /\ UNCHANGED <<forked, kernelVars, blocked, records, wrappers, pc, oldMask, current, failed>>

LookAtFirst(i) == i \in DOMAIN children \cap {1}   \* mutated: one child per signal
LookAt(i) == i \in DOMAIN children

StatusChanged(s) == s.code # "none"

UpdateChildStatus ==
  /\ LookAt(handler)
  /\ handler' = handler + 1
  /\ LET p == children[handler].pid
         s == Waitpid(p) IN
     IF StatusChanged(s)
     THEN /\ Reported(p)
          /\ status' = [status EXCEPT ![GetChildProcess(p)] = s]
     ELSE UNCHANGED <<kernel, status>>
  /\ UNCHANGED <<forked, usedPids, stops, pending, blocked, children, referenced, freed, wrappers,
                 pc, oldMask, current, failed>>

(* When it returns, so does a sigsuspend that it interrupted.               *)
ReturnFromHandler ==
  /\ handler > 0 /\ ~LookAt(handler)
  /\ handler' = 0
  /\ pc' = IF pc = "suspended" THEN "waiting" ELSE pc
  /\ UNCHANGED <<forked, kernelVars, pending, blocked, records, wrappers, oldMask, current, failed>>

Handler == UpdateChildStatus \/ ReturnFromHandler
-----------------------------------------------------------------------------
At(here) == pc = here /\ handler = 0
Fails(how) == how \in Failures /\ failed' = failed \cup {how}

BlockSigchild == blocked' = TRUE /\ oldMask' = blocked
RestoreSignalMaskNot == UNCHANGED blocked               \* mutated: not restored
RestoreSignalMask == blocked' = oldMask

(* launch_process: the pipe for exec's result first.  If that fails,        *)
(* return_error restores a mask that was never assigned.                    *)
ErrorPipeFails ==
  /\ At("run")
  /\ blocked' \in BOOLEAN
  /\ Fails("errpipe")
  /\ UNCHANGED <<forked, kernelVars, pending, records, wrappers, handler, pc, oldMask, current>>

BeginLaunch ==
  /\ At("run") /\ forked < MaxForks
  /\ BlockSigchild
  /\ pc' = "fork"
  /\ UNCHANGED <<forked, kernelVars, pending, records, wrappers, handler, current, failed>>

VforkFails ==
  /\ At("fork")
  /\ Fails("vfork")
  /\ pc' = "run"
  /\ UNCHANGED <<forked, kernelVars, pending, blocked, records, wrappers, handler, oldMask, current>>

(* vfork returns in the parent when the child has called exec or exit: it   *)
(* runs, or could not be set up, or sent the error of exec to the parent.   *)
FreePids == {p \in Pids : kernel[p] = NoChild /\ (Reuse \/ p \notin usedPids)}

Fork ==
  /\ At("fork")
  /\ forked' = forked + 1 /\ current' = forked'
  /\ \E p \in FreePids, outcome \in {"runs"} \cup (Failures \cap {"setup", "exec"}) :
       /\ usedPids' = usedPids \cup {p}
       /\ kernel' = [kernel EXCEPT ![p] =
            IF outcome = "runs" THEN [process |-> forked', does |-> "runs", report |-> "none"]
            ELSE [process |-> forked', does |-> "zombie", report |-> "exited"]]
       /\ pending' = (pending \/ outcome # "runs")
       /\ pc' = IF outcome = "exec" THEN "return" ELSE "remove"
       /\ IF outcome = "runs" THEN UNCHANGED failed ELSE Fails(outcome)
  /\ UNCHANGED <<stops, blocked, records, wrappers, handler, oldMask>>

(* remove_dead_child_processes, then fdopen, then register_child_process.   *)
SafeToFreeAnyway(n) == IsDeadStatus(status[n])      \* mutated: referenced or not
SafeToFree(n) == n \notin referenced /\ IsDeadStatus(status[n])

Dead == {i \in DOMAIN children : SafeToFree(children[i].process)}

RemoveDeadChildProcess ==
  /\ At("remove")
  /\ \E i \in Dead :
       /\ \A j \in Dead : i <= j
       /\ freed' = freed \cup {children[i].process}
       /\ children' = RemoveAt(children, i)
  /\ UNCHANGED <<forked, kernelVars, pending, blocked, status, referenced, wrappers, handler, pc,
                 oldMask, current, failed>>

AllRemoved ==
  /\ At("remove")
  /\ Dead = {}
  /\ pc' = "register"
  /\ UNCHANGED <<forked, kernelVars, pending, blocked, records, wrappers, handler, oldMask, current, failed>>

PidOf(n) == CHOOSE p \in Pids : kernel[p].process = n

OpenFails ==
  /\ At("register")
  /\ Fails("fdopen")
  /\ pc' = "return"
  /\ UNCHANGED <<forked, kernelVars, pending, blocked, records, wrappers, handler, oldMask, current>>

AddChildProcessLast(child, list) == Append(list, child)     \* mutated: at the end of the list
AddChildProcess(child, list) == <<child>> \o list

RegisterChildProcess ==
  /\ At("register")
  /\ children' = AddChildProcess([process |-> current, pid |-> PidOf(current)], children)
  /\ status' = [status EXCEPT ![current] = Unset]
  /\ referenced' = referenced \cup {current}
  /\ objects' = objects \cup {current}
  /\ pc' = "return"
  /\ UNCHANGED <<forked, kernelVars, pending, blocked, freed, done, handler, oldMask, current, failed>>

ReturnFromLaunch ==
  /\ At("return")
  /\ RestoreSignalMask
  /\ pc' = "run" /\ current' = NoProcess
  /\ UNCHANGED <<forked, kernelVars, pending, records, wrappers, handler, oldMask, failed>>
-----------------------------------------------------------------------------
(* retrieve_process_state, called by state, which keeps the state of a dead *)
(* process in done-state, and by wait.                                      *)
Retrieve(n, next) ==
  /\ At("run")
  /\ n \in objects
  /\ current' = n
  /\ BlockSigchild
  /\ pc' = next
  /\ UNCHANGED <<forked, kernelVars, pending, records, wrappers, handler, failed>>

State(n) == ~IsDeadStatus(done[n]) /\ Retrieve(n, "reading")
Wait(n)  == Retrieve(n, "waiting")

TestDead ==
  /\ At("waiting")
  /\ pc' = IF IsDeadStatus(status[current]) THEN "answer" ELSE "suspend"
  /\ UNCHANGED <<forked, kernelVars, pending, blocked, records, wrappers, handler, oldMask, current, failed>>

(* sigsuspend unblocks SIGCHLD and sleeps in one step.                      *)
Suspend ==
  /\ At("suspend")
  /\ pc' = "suspended"
  /\ UNCHANGED <<forked, kernelVars, pending, blocked, records, wrappers, handler, oldMask, current, failed>>

ReadState ==
  /\ At("reading") \/ At("answer")
  /\ done' = IF pc = "reading" /\ IsDeadStatus(status[current])
             THEN [done EXCEPT ![current] = status[current]] ELSE done
  /\ RestoreSignalMask
  /\ pc' = "run" /\ current' = NoProcess
  /\ UNCHANGED <<forked, kernelVars, pending, records, objects, handler, oldMask, failed>>

(* The finalizer of a Process that the program has dropped.                 *)
Finalize(n) ==
  /\ At("run")
  /\ n \in objects
  /\ objects' = objects \ {n}
  /\ referenced' = referenced \ {n}
  /\ UNCHANGED <<forked, kernelVars, pending, blocked, children, status, freed, done, handler, pc,
                 oldMask, current, failed>>

Launch == Fork \/ RemoveDeadChildProcess \/ AllRemoved \/ RegisterChildProcess \/ ReturnFromLaunch
Answer == TestDead \/ Suspend \/ ReadState
Program ==
  \/ BeginLaunch \/ ErrorPipeFails \/ VforkFails \/ OpenFails
  \/ \E n \in objects : State(n) \/ Wait(n) \/ Finalize(n)

Next ==
  \/ \E p \in Pids : Child(p)
  \/ DeliverSignal \/ Handler
  \/ Launch \/ Answer \/ Program

Spec ==
  /\ Init /\ [][Next]_vars
  /\ WF_vars(DeliverSignal) /\ WF_vars(Handler) /\ WF_vars(Answer)
-----------------------------------------------------------------------------
Codes == {"none", "unset", "stopped", "continued", "exited", "signaled"}
Status == [code : Codes \ {"none"}, of : Process \cup {NoProcess}]

TypeOK ==
  /\ forked \in 0 .. MaxForks
  /\ kernel \in [Pids -> [process : Process \cup {NoProcess}, does : {"none", "runs", "stopped", "zombie"},
                          report : Codes]]
  /\ usedPids \subseteq Pids /\ stops \in 0 .. MaxStops
  /\ pending \in BOOLEAN /\ blocked \in BOOLEAN /\ oldMask \in BOOLEAN
  /\ children \in Seq([process : Process, pid : Pids])
  /\ status \in [Process -> Status] /\ done \in [Process -> Status]
  /\ referenced \subseteq Process /\ freed \subseteq Process /\ objects \subseteq Process
  /\ handler \in 0 .. Len(children) + 1
  /\ pc \in {"run", "fork", "remove", "register", "return", "waiting", "suspend", "suspended", "reading", "answer"}
  /\ current \in Process \cup {NoProcess}

Launched == {children[i].process : i \in DOMAIN children} \cup freed
FromFailed(s) == s.of \notin Launched \cup {NoProcess}

(* process.h:9-10, "status_code: Holds the POSIX status code of the         *)
(* process": no status of one process is recorded for another one, although *)
(* processes are looked up by ids that the kernel gives out again.  A       *)
(* process whose launch failed is the exception: nothing waits for it until *)
(* its id is found in the record of an earlier one.                         *)
StatusOfProcess ==
  \A n \in Process : status[n].code # "unset" => status[n].of = n \/ FromFailed(status[n])

(* No change of state is lost: with no signal pending and outside the       *)
(* handler, the recorded status of a child is up to date, however many      *)
(* signals were merged into one.                                            *)
UpToDate ==
  ~pending /\ handler = 0 =>
    \A i \in DOMAIN children : \A p \in Pids :
      kernel[p].process = children[i].process => kernel[p].report = "none" /\ kernel[p].does # "zombie"

(* The status that a Process object points to is not freed: the handler and *)
(* launch_process remove only records that the finalizer has released.      *)
NoUseAfterFree ==
  /\ objects \cap freed = {}
  /\ \A i \in DOMAIN children : children[i].process \notin freed

(* The types of the state, and the life of the records.                     *)
WellFormed == TypeOK /\ NoUseAfterFree

(* process-posix.c:514, "Block SIGCHLD until setup is finished": the        *)
(* program, which has not blocked the signal itself, never finds it blocked *)
(* after a call, unless a launch failed before it had forked.               *)
MaskRestored == pc = "run" /\ failed \cap {"errpipe", "vfork"} = {} => ~blocked

(* A dead process stays dead, with the same exit code: what state and wait  *)
(* answered once they answer always (core.stanza:10176-10182), with the     *)
(* same exception.                                                          *)
DeadForEver ==
  [][\A n \in objects : IsDeadStatus(status[n]) /\ status'[n] # status[n] =>
       FromFailed(status'[n])]_vars

(* wait returns once the process has ended: no wakeup is lost between the   *)
(* test of the status and sigsuspend (again with that exception, which may  *)
(* overwrite the status that says that the process has ended).              *)
HasEnded(n) == \A p \in Pids : kernel[p].process = n => kernel[p].does = "zombie"
Misled == current # NoProcess /\ FromFailed(status[current])
WaitReturns ==
  (current # NoProcess /\ pc \in {"waiting", "suspend", "suspended"} /\ HasEnded(current))
    ~> (pc = "run" \/ Misled)
=============================================================================
