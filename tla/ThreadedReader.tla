--------------------------- MODULE ThreadedReader ---------------------------
(***************************************************************************)
(* core/threadedreader.c and core/threaded-reader.stanza: a thread reads a *)
(* stream character by character into a growing buffer while the program   *)
(* polls it, stops it, retrieves the buffer and at last drops it.          *)
(* The program and the thread interleave between any two accesses to the   *)
(* shared fields; running and stop_requested are also read and written     *)
(* outside the mutex, in the order of the program text (x86 keeps it).     *)
(*                                                                         *)
(* make_threaded_reader creates the thread before the mutex.  Until then   *)
(* the mutex is what malloc returned: it can be taken (zeroed memory) or   *)
(* not at all.  If EarlyInput is FALSE the stream delivers nothing before  *)
(* make_threaded_reader has returned.                                      *)
(***************************************************************************)
EXTENDS Integers, Sequences

CONSTANTS
  Chars,             \* unsigned char values that the stream may deliver
  MaxChars,          \* bound on their number
  InitialCapacity,   \* 1024 in the code
  EarlyInput

EOF == -1
ASSUME StreamAssumption ==
  /\ Chars \subseteq 0 .. 255
  /\ MaxChars \in Nat
  /\ InitialCapacity \in Nat \ {0}
  /\ EarlyInput \in BOOLEAN

VARIABLES
  sent, closed,        \* the stream: the characters written to it, whether it has ended
  taken,               \* how many of them fgetc has returned
  buffer, capacity,    \* the first length characters of buffer, and its allocated size
  stopRequested, running, threadRunning, freeOnFinish,
  mutex,               \* "free", "held", or "garbage": held, by nobody, for ever
  thread, c,           \* where reader_thread is, and its character
  program,             \* where the owner of the reader is
  length,              \* contents-as-string's len
  contents, retrieved, \* what contents-as-string returned last, if ever
  frees                \* how often the resources have been freed

stream == <<sent, closed>>
result == <<length, contents, retrieved>>
flags == <<stopRequested, running, threadRunning, freeOnFinish>>
vars == <<stream, taken, buffer, capacity, flags, mutex, thread, c, program, result, frees>>

Init ==
  /\ sent = << >> /\ closed = FALSE /\ taken = 0
  /\ buffer = << >> /\ capacity = InitialCapacity
  /\ stopRequested = FALSE /\ running = TRUE
  /\ threadRunning = TRUE /\ freeOnFinish = FALSE
  /\ mutex \in {"free", "garbage"}
  /\ thread = "none" /\ c = EOF
  /\ program = "create"
  /\ length = 0 /\ contents = << >> /\ retrieved = FALSE /\ frees = 0

Lock == mutex = "free" /\ mutex' = "held"
Unlock == mutex' = "free"
-----------------------------------------------------------------------------
(* The other end of the stream.                                             *)
MayWrite == ~closed /\ (EarlyInput \/ program \notin {"create", "init"})

Write(ch) ==
  /\ MayWrite
  /\ Len(sent) < MaxChars
  /\ sent' = Append(sent, ch)
  /\ UNCHANGED <<closed, taken, buffer, capacity, flags, mutex, thread, c, program, result, frees>>

Close ==
  /\ MayWrite
  /\ closed' = TRUE
  /\ UNCHANGED <<sent, taken, buffer, capacity, flags, mutex, thread, c, program, result, frees>>
-----------------------------------------------------------------------------
ThreadStep(at, to) == thread = at /\ thread' = to

TestStopRequested ==
  /\ thread = "loop"
  /\ thread' = IF stopRequested THEN "ended" ELSE "read"
  /\ UNCHANGED <<stream, taken, buffer, capacity, flags, mutex, c, program, result, frees>>

(* fgetc blocks until there is a character or the end of the stream.        *)
IsEOFAsChar(ch) == ch % 256 = EOF % 256     \* mutated: compared after the cast to char
IsEOF(ch) == ch = EOF

ReadChar ==
  /\ thread = "read"
  /\ \/ /\ taken < Len(sent)
        /\ c' = sent[taken + 1]
        /\ taken' = taken + 1
     \/ /\ closed /\ taken = Len(sent)
        /\ c' = EOF
        /\ UNCHANGED taken
  /\ thread' = IF IsEOF(c') THEN "ended" ELSE "push"
  /\ UNCHANGED <<stream, buffer, capacity, flags, mutex, program, result, frees>>

(* push_char: the buffer is extended by doubling, unless stop was requested.*)
LockPush ==
  /\ ThreadStep("push", "test")
  /\ Lock
  /\ UNCHANGED <<stream, taken, buffer, capacity, flags, c, program, result, frees>>

MayPushAlways == thread = "test"            \* mutated: stop_requested not tested again
MayPush == ~stopRequested

TestPush ==
  /\ thread = "test"
  /\ \/ MayPush /\ thread' = "store" /\ UNCHANGED mutex
     \/ ~MayPush /\ thread' = "loop" /\ Unlock
  /\ UNCHANGED <<stream, taken, buffer, capacity, flags, c, program, result, frees>>

EnsureCapacityLate(n) == capacity' = IF capacity < n - 1 THEN 2 * capacity ELSE capacity   \* mutated
EnsureCapacity(n) == capacity' = IF capacity < n THEN 2 * capacity ELSE capacity

StorePush ==
  /\ ThreadStep("store", "loop")
  /\ EnsureCapacity(Len(buffer) + 1)
  /\ buffer' = Append(buffer, c)
  /\ Unlock
  /\ UNCHANGED <<stream, taken, flags, c, program, result, frees>>

(* The thread ends, and frees the resources if the program left that to it. *)
ClearRunningNot == UNCHANGED running        \* mutated: only stop clears it
ClearRunning == running' = FALSE

EndReading ==
  /\ ThreadStep("ended", "finish")
  /\ ClearRunning
  /\ UNCHANGED <<stream, taken, buffer, capacity, stopRequested, threadRunning, freeOnFinish, mutex, c,
                 program, result, frees>>

LockFinish ==
  /\ ThreadStep("finish", "finishing")
  /\ Lock
  /\ UNCHANGED <<stream, taken, buffer, capacity, flags, c, program, result, frees>>

Finish ==
  /\ thread = "finishing"
  /\ threadRunning' = FALSE
  /\ thread' = IF freeOnFinish THEN "free" ELSE "done"
  /\ Unlock
  /\ UNCHANGED <<stream, taken, buffer, capacity, stopRequested, running, freeOnFinish, c,
                 program, result, frees>>

FreeFromThread ==
  /\ ThreadStep("free", "done")
  /\ frees' = frees + 1
  /\ UNCHANGED <<stream, taken, buffer, capacity, flags, mutex, c, program, result>>

Thread ==
  \/ TestStopRequested \/ ReadChar \/ LockPush \/ TestPush \/ StorePush
  \/ EndReading \/ LockFinish \/ Finish \/ FreeFromThread
-----------------------------------------------------------------------------
ProgramStep(at, to) == program = at /\ program' = to

(* make_threaded_reader.                                                    *)
CreateThread ==
  /\ ProgramStep("create", "init")
  /\ thread' = "loop"
  /\ UNCHANGED <<stream, taken, buffer, capacity, flags, mutex, c, result, frees>>

CreateFails ==
  /\ ProgramStep("create", "failed")
  /\ frees' = frees + 1
  /\ UNCHANGED <<stream, taken, buffer, capacity, flags, mutex, thread, c, result>>

InitMutex ==
  /\ ProgramStep("init", "open")
  /\ mutex' = "free"
  /\ UNCHANGED <<stream, taken, buffer, capacity, flags, thread, c, result, frees>>

(* stop_threaded_reader.                                                    *)
LockStop ==
  /\ ProgramStep("open", "stopping")
  /\ Lock
  /\ UNCHANGED <<stream, taken, buffer, capacity, flags, thread, c, result, frees>>

Stop ==
  /\ ProgramStep("stopping", "open")
  /\ stopRequested' = TRUE /\ running' = FALSE
  /\ Unlock
  /\ UNCHANGED <<stream, taken, buffer, capacity, threadRunning, freeOnFinish, thread, c,
                 result, frees>>

(* contents-as-string, of a reader that is not running.                     *)
ReadLength ==
  /\ ProgramStep("open", "copy")
  /\ ~running
  /\ length' = Len(buffer)
  /\ UNCHANGED <<stream, taken, buffer, capacity, flags, mutex, thread, c, contents, retrieved, frees>>

CopyContents ==
  /\ ProgramStep("copy", "open")
  /\ contents' = SubSeq(buffer, 1, length) /\ retrieved' = TRUE
  /\ UNCHANGED <<stream, taken, buffer, capacity, flags, mutex, thread, c, length, frees>>

(* delete_threaded_reader, run by the finalizer: once, when the program has *)
(* dropped the reader.                                                      *)
LockDelete ==
  /\ ProgramStep("open", "deleting")
  /\ Lock
  /\ UNCHANGED <<stream, taken, buffer, capacity, flags, thread, c, result, frees>>

InUseByThreadIfRunning == running           \* mutated: the wrong one of the two flags
InUseByThread == threadRunning

LeaveToThread == freeOnFinish' = TRUE

Delete ==
  /\ program = "deleting"
  /\ \/ InUseByThread /\ LeaveToThread /\ program' = "deleted"
     \/ ~InUseByThread /\ UNCHANGED freeOnFinish /\ program' = "free"
  /\ Unlock
  /\ UNCHANGED <<stream, taken, buffer, capacity, stopRequested, running, threadRunning, thread, c,
                 result, frees>>

FreeFromProgram ==
  /\ ProgramStep("free", "deleted")
  /\ frees' = frees + 1
  /\ UNCHANGED <<stream, taken, buffer, capacity, flags, mutex, thread, c, result>>

(* A call that has begun is carried on; whether one begins is up to the     *)
(* program.                                                                 *)
Continue == Stop \/ CopyContents \/ Delete \/ FreeFromProgram
Call == CreateThread \/ CreateFails \/ InitMutex \/ LockStop \/ ReadLength \/ LockDelete

Next ==
  \/ \E ch \in Chars : Write(ch)
  \/ Close
  \/ Thread
  \/ Continue
  \/ Call

(* The scheduler runs every thread that can run.  Nothing is assumed of the *)
(* order in which the mutex is granted.                                     *)
Fairness == WF_vars(Thread) /\ WF_vars(Continue)
Spec == Init /\ [][Next]_vars /\ Fairness
-----------------------------------------------------------------------------
ThreadAlive == thread \notin {"none", "done"}

TypeOK ==
  /\ sent \in Seq(Chars) /\ closed \in BOOLEAN
  /\ taken \in 0 .. Len(sent)
  /\ buffer \in Seq(Chars) /\ capacity \in Nat \ {0} /\ Len(buffer) <= capacity
  /\ stopRequested \in BOOLEAN /\ running \in BOOLEAN
  /\ threadRunning \in BOOLEAN /\ freeOnFinish \in BOOLEAN
  /\ mutex \in {"free", "held", "garbage"}
  /\ thread \in {"none", "loop", "read", "push", "test", "store", "ended", "finish", "finishing",
                 "free", "done"}
  /\ c \in Chars \cup {EOF}
  /\ program \in {"create", "init", "failed", "open", "stopping", "copy", "deleting", "free", "deleted"}
  /\ length \in Nat
  /\ contents \in Seq(Chars) /\ retrieved \in BOOLEAN
  /\ frees \in 0 .. 1

(* threadedreader.c:16-17: the contents retrieved after stop, or after      *)
(* running? is false, are those retrieved at any later time.                *)
SameContents == [][retrieved => contents' = contents]_vars

(* A reader that is not running although nobody stopped it has read all of  *)
(* its stream: the flag is cleared after the last character is stored.      *)
NothingMissing == ~running /\ ~stopRequested => closed /\ buffer = sent

(* The resources are not freed while somebody may still use them, and never *)
(* twice: the thread and the finalizer agree on who frees them              *)
(* (threadedreader.c:206-209).                                              *)
NoUseAfterFree ==
  frees > 0 => /\ program \in {"failed", "deleted"}
               /\ ~ThreadAlive

(* Every deleted reader is freed once its stream ends.                      *)
Released == program = "deleted" /\ closed ~> frees = 1

(* A program that polls running? sees the end of the stream.                *)
EndIsSeen == closed /\ program \notin {"create", "init", "failed"} ~> ~running

(* Once the stream ends, the thread and the finalizer come to an end too.   *)
Finishes == Released /\ EndIsSeen
=============================================================================
