------------------------ MODULE ThreadedReaderProofs ------------------------
(* The reader of module ThreadedReader is correct for every stream and      *)
(* every initial capacity, if the stream delivers nothing before            *)
(* make_threaded_reader has initialised the mutex.                          *)
EXTENDS ThreadedReader, TLAPS

(* The mutex works once it is initialised: at most one side is in its       *)
(* critical section, and it is held while one is.                           *)
ThreadInside  == thread \in {"test", "store", "finishing"}
ProgramInside == program \in {"stopping", "deleting"}
MutexInv ==
  /\ ~(ThreadInside /\ ProgramInside)
  /\ program \notin {"create", "init", "failed"} =>
       mutex = IF ThreadInside \/ ProgramInside THEN "held" ELSE "free"

(* Before that the thread gets no further than fgetc.                       *)
StartInv ==
  /\ program \in {"create", "init"} =>
       sent = << >> /\ ~closed /\ ~stopRequested /\ thread \in {"none", "loop", "read"}
  /\ thread = "none" <=> program \in {"create", "failed"}
  /\ program = "failed" => ~stopRequested /\ running

(* Who frees the resources, and when they have been freed.                  *)
Owned == ~(program = "failed" \/ (program = "deleted" /\ thread = "done"))
FreeInv ==
  /\ threadRunning <=> thread \notin {"free", "done"}
  /\ freeOnFinish => program = "deleted"
  /\ program = "deleted" => freeOnFinish \/ thread = "done"
  /\ thread = "free" => freeOnFinish
  /\ program = "free" => thread = "done"
  /\ frees = IF Owned THEN 0 ELSE 1

(* When running is cleared no character can be stored any more, so what was *)
(* retrieved is the buffer.                                                 *)
Ended == thread \in {"finish", "finishing", "free", "done"}
StableInv ==
  /\ stopRequested => ~running
  /\ ~running => stopRequested \/ Ended
  /\ thread = "store" => ~stopRequested
  /\ program = "copy" => ~running /\ length = Len(buffer)
  /\ retrieved => ~running /\ contents = buffer

(* What the thread has read and stored so far.                              *)
Unstored == thread \in {"push", "test", "store"}
StoredInv ==
  ~stopRequested =>
    /\ Ended \/ thread = "ended" => closed /\ taken = Len(sent)
    /\ Unstored => taken > 0 /\ c = sent[taken]
    /\ Len(buffer) = IF Unstored THEN taken - 1 ELSE taken
    /\ \A i \in 1 .. Len(buffer) : buffer[i] = sent[i]

IInv == TypeOK /\ MutexInv /\ StartInv /\ FreeInv /\ StableInv /\ StoredInv

(* The invariant is kept by every step.                                     *)
LEMMA ReaderStep ==
  ASSUME ~EarlyInput, IInv, [Next]_vars
  PROVE  IInv'
<1> USE StreamAssumption DEF IInv, stream, flags, result
<1>1. ASSUME NEW ch \in Chars, Write(ch) PROVE IInv'
  <2>1. TypeOK'
    BY <1>1 DEF TypeOK, Write, MayWrite
  <2>2. MutexInv' /\ StartInv' /\ FreeInv'
        BY <1>1 DEF TypeOK, MutexInv, ThreadInside, ProgramInside, StartInv, FreeInv, Owned,
       Write, MayWrite
  <2>3. StableInv'
        BY <1>1 DEF TypeOK, StableInv, Ended, MutexInv, ThreadInside, ProgramInside, StartInv,
       Write, MayWrite
  <2>4. StoredInv'
    BY <1>1 DEF TypeOK, StoredInv, StableInv, StartInv, Unstored, Ended, EOF, Write, MayWrite
  <2> QED BY <2>1, <2>2, <2>3, <2>4
<1>2. ASSUME Close PROVE IInv'
  <2>1. TypeOK'
    BY <1>2 DEF TypeOK, Close, MayWrite
  <2>2. MutexInv' /\ StartInv' /\ FreeInv'
        BY <1>2 DEF TypeOK, MutexInv, ThreadInside, ProgramInside, StartInv, FreeInv, Owned,
       Close, MayWrite
  <2>3. StableInv'
        BY <1>2 DEF TypeOK, StableInv, Ended, MutexInv, ThreadInside, ProgramInside, StartInv,
       Close, MayWrite
  <2>4. StoredInv'
    BY <1>2 DEF TypeOK, StoredInv, StableInv, StartInv, Unstored, Ended, EOF, Close, MayWrite
  <2> QED BY <2>1, <2>2, <2>3, <2>4
<1>3. ASSUME TestStopRequested PROVE IInv'
  <2>1. TypeOK'
    BY <1>3 DEF TypeOK, TestStopRequested
  <2>2. MutexInv' /\ StartInv' /\ FreeInv'
        BY <1>3 DEF TypeOK, MutexInv, ThreadInside, ProgramInside, StartInv, FreeInv, Owned,
       TestStopRequested
  <2>3. StableInv'
        BY <1>3 DEF TypeOK, StableInv, Ended, MutexInv, ThreadInside, ProgramInside, StartInv,
       TestStopRequested
  <2>4. StoredInv'
    BY <1>3 DEF TypeOK, StoredInv, StableInv, StartInv, Unstored, Ended, EOF, TestStopRequested
  <2> QED BY <2>1, <2>2, <2>3, <2>4
<1>4. ASSUME ReadChar PROVE IInv'
  <2>1. TypeOK'
    BY <1>4 DEF TypeOK, ReadChar, IsEOF, EOF
  <2>2. MutexInv' /\ StartInv' /\ FreeInv'
        BY <1>4 DEF TypeOK, MutexInv, ThreadInside, ProgramInside, StartInv, FreeInv, Owned,
       ReadChar, IsEOF, EOF
  <2>3. StableInv'
        BY <1>4 DEF TypeOK, StableInv, Ended, MutexInv, ThreadInside, ProgramInside, StartInv,
       ReadChar, IsEOF, EOF
  <2>4. StoredInv'
    BY <1>4 DEF TypeOK, StoredInv, StableInv, StartInv, Unstored, Ended, EOF, ReadChar, IsEOF
  <2> QED BY <2>1, <2>2, <2>3, <2>4
<1>5. ASSUME LockPush PROVE IInv'
  <2>1. TypeOK'
    BY <1>5 DEF TypeOK, LockPush, Lock, ThreadStep
  <2>2. MutexInv' /\ StartInv' /\ FreeInv'
        BY <1>5 DEF TypeOK, MutexInv, ThreadInside, ProgramInside, StartInv, FreeInv, Owned,
       LockPush, Lock, ThreadStep
  <2>3. StableInv'
        BY <1>5 DEF TypeOK, StableInv, Ended, MutexInv, ThreadInside, ProgramInside, StartInv,
       LockPush, Lock, ThreadStep
  <2>4. StoredInv'
        BY <1>5 DEF TypeOK, StoredInv, StableInv, StartInv, Unstored, Ended, EOF, LockPush, Lock,
       ThreadStep
  <2> QED BY <2>1, <2>2, <2>3, <2>4
<1>6. ASSUME TestPush PROVE IInv'
  <2>1. TypeOK'
    BY <1>6 DEF TypeOK, TestPush, MayPush, Unlock
  <2>2. MutexInv' /\ StartInv' /\ FreeInv'
        BY <1>6 DEF TypeOK, MutexInv, ThreadInside, ProgramInside, StartInv, FreeInv, Owned,
       TestPush, MayPush, Unlock
  <2>3. StableInv'
        BY <1>6 DEF TypeOK, StableInv, Ended, MutexInv, ThreadInside, ProgramInside, StartInv,
       TestPush, MayPush, Unlock
  <2>4. StoredInv'
        BY <1>6 DEF TypeOK, StoredInv, StableInv, StartInv, Unstored, Ended, EOF, TestPush,
       MayPush, Unlock
  <2> QED BY <2>1, <2>2, <2>3, <2>4
<1>7. ASSUME StorePush PROVE IInv'
  <2>1. TypeOK'
    <3>1. c \in Chars
      <4>1. thread = "store" /\ ~stopRequested
        BY <1>7 DEF StorePush, ThreadStep, StableInv
      <4>2. taken > 0 /\ c = sent[taken] /\ taken \in 1 .. Len(sent)
        BY <4>1 DEF StoredInv, Unstored, TypeOK
      <4> QED BY <4>2 DEF TypeOK
    <3>2. buffer' \in Seq(Chars) /\ Len(buffer') = Len(buffer) + 1
      BY <1>7, <3>1 DEF StorePush, TypeOK
    <3>3. capacity' \in Nat \ {0} /\ Len(buffer') <= capacity'
      BY <1>7, <3>2 DEF StorePush, EnsureCapacity, TypeOK
    <3> QED BY <1>7, <3>2, <3>3 DEF TypeOK, StorePush, ThreadStep, Unlock
  <2>2. MutexInv' /\ StartInv' /\ FreeInv'
        BY <1>7 DEF TypeOK, MutexInv, ThreadInside, ProgramInside, StartInv, FreeInv, Owned,
       StorePush, EnsureCapacity, Unlock, ThreadStep
  <2>3. StableInv'
        BY <1>7 DEF TypeOK, StableInv, Ended, MutexInv, ThreadInside, ProgramInside, StartInv,
       StorePush, EnsureCapacity, Unlock, ThreadStep
  <2>4. StoredInv'
        BY <1>7 DEF TypeOK, StoredInv, StableInv, StartInv, Unstored, Ended, EOF, StorePush,
       EnsureCapacity, Unlock, ThreadStep
  <2> QED BY <2>1, <2>2, <2>3, <2>4
<1>8. ASSUME EndReading PROVE IInv'
  <2>1. TypeOK'
    BY <1>8 DEF TypeOK, EndReading, ClearRunning, ThreadStep
  <2>2. MutexInv' /\ StartInv' /\ FreeInv'
        BY <1>8 DEF TypeOK, MutexInv, ThreadInside, ProgramInside, StartInv, FreeInv, Owned,
       EndReading, ClearRunning, ThreadStep
  <2>3. StableInv'
        BY <1>8 DEF TypeOK, StableInv, Ended, MutexInv, ThreadInside, ProgramInside, StartInv,
       EndReading, ClearRunning, ThreadStep
  <2>4. StoredInv'
        BY <1>8 DEF TypeOK, StoredInv, StableInv, StartInv, Unstored, Ended, EOF, EndReading,
       ClearRunning, ThreadStep
  <2> QED BY <2>1, <2>2, <2>3, <2>4
<1>9. ASSUME LockFinish PROVE IInv'
  <2>1. TypeOK'
    BY <1>9 DEF TypeOK, LockFinish, Lock, ThreadStep
  <2>2. MutexInv' /\ StartInv' /\ FreeInv'
        BY <1>9 DEF TypeOK, MutexInv, ThreadInside, ProgramInside, StartInv, FreeInv, Owned,
       LockFinish, Lock, ThreadStep
  <2>3. StableInv'
        BY <1>9 DEF TypeOK, StableInv, Ended, MutexInv, ThreadInside, ProgramInside, StartInv,
       LockFinish, Lock, ThreadStep
  <2>4. StoredInv'
        BY <1>9 DEF TypeOK, StoredInv, StableInv, StartInv, Unstored, Ended, EOF, LockFinish,
       Lock, ThreadStep
  <2> QED BY <2>1, <2>2, <2>3, <2>4
<1>10. ASSUME Finish PROVE IInv'
  <2>1. TypeOK'
    BY <1>10 DEF TypeOK, Finish, Unlock
  <2>2. MutexInv' /\ StartInv' /\ FreeInv'
        BY <1>10 DEF TypeOK, MutexInv, ThreadInside, ProgramInside, StartInv, FreeInv, Owned,
       Finish, Unlock
  <2>3. StableInv'
        BY <1>10 DEF TypeOK, StableInv, Ended, MutexInv, ThreadInside, ProgramInside, StartInv,
       Finish, Unlock
  <2>4. StoredInv'
    BY <1>10 DEF TypeOK, StoredInv, StableInv, StartInv, Unstored, Ended, EOF, Finish, Unlock
  <2> QED BY <2>1, <2>2, <2>3, <2>4
<1>11. ASSUME FreeFromThread PROVE IInv'
  <2>1. TypeOK'
    BY <1>11 DEF TypeOK, FreeInv, Owned, FreeFromThread, ThreadStep
  <2>2. MutexInv' /\ StartInv' /\ FreeInv'
        BY <1>11 DEF TypeOK, MutexInv, ThreadInside, ProgramInside, StartInv, FreeInv, Owned,
       FreeFromThread, ThreadStep
  <2>3. StableInv'
        BY <1>11 DEF TypeOK, StableInv, Ended, MutexInv, ThreadInside, ProgramInside, StartInv,
       FreeFromThread, ThreadStep
  <2>4. StoredInv'
        BY <1>11 DEF TypeOK, StoredInv, StableInv, StartInv, Unstored, Ended, EOF, FreeFromThread,
       ThreadStep
  <2> QED BY <2>1, <2>2, <2>3, <2>4
<1>12. ASSUME Stop PROVE IInv'
  <2>1. TypeOK'
    BY <1>12 DEF TypeOK, Stop, Unlock, ProgramStep
  <2>2. MutexInv' /\ StartInv' /\ FreeInv'
        BY <1>12 DEF TypeOK, MutexInv, ThreadInside, ProgramInside, StartInv, FreeInv, Owned,
       Stop, Unlock, ProgramStep
  <2>3. StableInv'
        BY <1>12 DEF TypeOK, StableInv, Ended, MutexInv, ThreadInside, ProgramInside, StartInv,
       Stop, Unlock, ProgramStep
  <2>4. StoredInv'
        BY <1>12 DEF TypeOK, StoredInv, StableInv, StartInv, Unstored, Ended, EOF, Stop, Unlock,
       ProgramStep
  <2> QED BY <2>1, <2>2, <2>3, <2>4
<1>13. ASSUME CopyContents PROVE IInv'
  <2>1. TypeOK'
    <3>1. length = Len(buffer) /\ buffer \in Seq(Chars)
      BY <1>13 DEF CopyContents, ProgramStep, StableInv, TypeOK
    <3>2. contents' \in Seq(Chars)
      BY <1>13, <3>1 DEF CopyContents
    <3> QED BY <1>13, <3>2 DEF TypeOK, CopyContents, ProgramStep
  <2>2. MutexInv' /\ StartInv' /\ FreeInv'
        BY <1>13 DEF TypeOK, MutexInv, ThreadInside, ProgramInside, StartInv, FreeInv, Owned,
       CopyContents, ProgramStep
  <2>3. StableInv'
        BY <1>13 DEF TypeOK, StableInv, Ended, MutexInv, ThreadInside, ProgramInside, StartInv,
       CopyContents, ProgramStep
  <2>4. StoredInv'
        BY <1>13 DEF TypeOK, StoredInv, StableInv, StartInv, Unstored, Ended, EOF, CopyContents,
       ProgramStep
  <2> QED BY <2>1, <2>2, <2>3, <2>4
<1>14. ASSUME Delete PROVE IInv'
  <2>1. TypeOK'
    BY <1>14 DEF TypeOK, Delete, Unlock, InUseByThread, LeaveToThread
  <2>2. MutexInv' /\ StartInv' /\ FreeInv'
        BY <1>14 DEF TypeOK, MutexInv, ThreadInside, ProgramInside, StartInv, FreeInv, Owned,
       Delete, Unlock, InUseByThread, LeaveToThread
  <2>3. StableInv'
        BY <1>14 DEF TypeOK, StableInv, Ended, MutexInv, ThreadInside, ProgramInside, StartInv,
       Delete, Unlock, InUseByThread, LeaveToThread
  <2>4. StoredInv'
        BY <1>14 DEF TypeOK, StoredInv, StableInv, StartInv, Unstored, Ended, EOF, Delete, Unlock,
       InUseByThread, LeaveToThread
  <2> QED BY <2>1, <2>2, <2>3, <2>4
<1>15. ASSUME FreeFromProgram PROVE IInv'
  <2>1. TypeOK'
    BY <1>15 DEF TypeOK, FreeInv, Owned, FreeFromProgram, ProgramStep
  <2>2. MutexInv' /\ StartInv' /\ FreeInv'
        BY <1>15 DEF TypeOK, MutexInv, ThreadInside, ProgramInside, StartInv, FreeInv, Owned,
       FreeFromProgram, ProgramStep
  <2>3. StableInv'
        BY <1>15 DEF TypeOK, StableInv, Ended, MutexInv, ThreadInside, ProgramInside, StartInv,
       FreeFromProgram, ProgramStep
  <2>4. StoredInv'
        BY <1>15 DEF TypeOK, StoredInv, StableInv, StartInv, Unstored, Ended, EOF,
       FreeFromProgram, ProgramStep
  <2> QED BY <2>1, <2>2, <2>3, <2>4
<1>16. ASSUME CreateThread PROVE IInv'
  <2>1. TypeOK'
    BY <1>16 DEF TypeOK, CreateThread, ProgramStep
  <2>2. MutexInv' /\ StartInv' /\ FreeInv'
        BY <1>16 DEF TypeOK, MutexInv, ThreadInside, ProgramInside, StartInv, FreeInv, Owned,
       CreateThread, ProgramStep
  <2>3. StableInv'
        BY <1>16 DEF TypeOK, StableInv, Ended, MutexInv, ThreadInside, ProgramInside, StartInv,
       CreateThread, ProgramStep
  <2>4. StoredInv'
        BY <1>16 DEF TypeOK, StoredInv, StableInv, StartInv, Unstored, Ended, EOF, CreateThread,
       ProgramStep
  <2> QED BY <2>1, <2>2, <2>3, <2>4
<1>17. ASSUME CreateFails PROVE IInv'
  <2>1. TypeOK'
    <3>1. frees = 0
      BY <1>17 DEF CreateFails, ProgramStep, FreeInv, Owned
    <3> QED BY <1>17, <3>1 DEF TypeOK, CreateFails, ProgramStep
  <2>2. MutexInv' /\ StartInv'
    BY <1>17 DEF TypeOK, MutexInv, ThreadInside, ProgramInside, StartInv, StableInv, Ended,
           CreateFails, ProgramStep
  <2>5. FreeInv'
    <3>1. frees = 0 /\ thread = "none" /\ threadRunning /\ ~freeOnFinish
      BY <1>17 DEF StartInv, FreeInv, Owned, CreateFails, ProgramStep
    <3>2. frees' = 1 /\ thread' = "none" /\ threadRunning' /\ ~freeOnFinish' /\ program' = "failed"
      BY <1>17, <3>1 DEF CreateFails, ProgramStep
    <3> QED BY <3>2 DEF FreeInv, Owned
  <2>3. StableInv'
        BY <1>17 DEF TypeOK, StableInv, Ended, MutexInv, ThreadInside, ProgramInside, StartInv,
       StableInv, Ended,
           CreateFails, ProgramStep
  <2>4. StoredInv'
        BY <1>17 DEF TypeOK, StoredInv, StableInv, StartInv, Unstored, Ended, EOF, CreateFails,
       ProgramStep
  <2> QED BY <2>1, <2>2, <2>3, <2>4, <2>5
<1>18. ASSUME InitMutex PROVE IInv'
  <2>1. TypeOK'
    BY <1>18 DEF TypeOK, InitMutex, ProgramStep
  <2>2. MutexInv' /\ StartInv' /\ FreeInv'
        BY <1>18 DEF TypeOK, MutexInv, ThreadInside, ProgramInside, StartInv, FreeInv, Owned,
       InitMutex, ProgramStep
  <2>3. StableInv'
        BY <1>18 DEF TypeOK, StableInv, Ended, MutexInv, ThreadInside, ProgramInside, StartInv,
       InitMutex, ProgramStep
  <2>4. StoredInv'
        BY <1>18 DEF TypeOK, StoredInv, StableInv, StartInv, Unstored, Ended, EOF, InitMutex,
       ProgramStep
  <2> QED BY <2>1, <2>2, <2>3, <2>4
<1>19. ASSUME LockStop PROVE IInv'
  <2>1. TypeOK'
    BY <1>19 DEF TypeOK, LockStop, Lock, ProgramStep
  <2>2. MutexInv' /\ StartInv' /\ FreeInv'
        BY <1>19 DEF TypeOK, MutexInv, ThreadInside, ProgramInside, StartInv, FreeInv, Owned,
       LockStop, Lock, ProgramStep
  <2>3. StableInv'
        BY <1>19 DEF TypeOK, StableInv, Ended, MutexInv, ThreadInside, ProgramInside, StartInv,
       LockStop, Lock, ProgramStep
  <2>4. StoredInv'
        BY <1>19 DEF TypeOK, StoredInv, StableInv, StartInv, Unstored, Ended, EOF, LockStop, Lock,
       ProgramStep
  <2> QED BY <2>1, <2>2, <2>3, <2>4
<1>20. ASSUME ReadLength PROVE IInv'
  <2>1. TypeOK'
    BY <1>20 DEF TypeOK, ReadLength, ProgramStep
  <2>2. MutexInv' /\ StartInv' /\ FreeInv'
        BY <1>20 DEF TypeOK, MutexInv, ThreadInside, ProgramInside, StartInv, FreeInv, Owned,
       ReadLength, ProgramStep
  <2>3. StableInv'
        BY <1>20 DEF TypeOK, StableInv, Ended, MutexInv, ThreadInside, ProgramInside, StartInv,
       ReadLength, ProgramStep
  <2>4. StoredInv'
        BY <1>20 DEF TypeOK, StoredInv, StableInv, StartInv, Unstored, Ended, EOF, ReadLength,
       ProgramStep
  <2> QED BY <2>1, <2>2, <2>3, <2>4
<1>21. ASSUME LockDelete PROVE IInv'
  <2>1. TypeOK'
    BY <1>21 DEF TypeOK, LockDelete, Lock, ProgramStep
  <2>2. MutexInv' /\ StartInv' /\ FreeInv'
        BY <1>21 DEF TypeOK, MutexInv, ThreadInside, ProgramInside, StartInv, FreeInv, Owned,
       LockDelete, Lock, ProgramStep
  <2>3. StableInv'
        BY <1>21 DEF TypeOK, StableInv, Ended, MutexInv, ThreadInside, ProgramInside, StartInv,
       LockDelete, Lock, ProgramStep
  <2>4. StoredInv'
        BY <1>21 DEF TypeOK, StoredInv, StableInv, StartInv, Unstored, Ended, EOF, LockDelete,
       Lock, ProgramStep
  <2> QED BY <2>1, <2>2, <2>3, <2>4
<1>22. CASE UNCHANGED vars
    BY <1>22 DEF vars, TypeOK, MutexInv, ThreadInside, ProgramInside, StartInv, FreeInv, Owned,
     StableInv,
               StoredInv, Unstored, Ended
<1> QED BY <1>1, <1>2, <1>3, <1>4, <1>5, <1>6, <1>7, <1>8, <1>9, <1>10, <1>11, <1>12, <1>13,
   <1>14, <1>15, <1>16, <1>17, <1>18, <1>19, <1>20, <1>21, <1>22 DEF Next, Thread, Continue, Call

(* The invariant holds in every state.                                      *)
THEOREM ReaderInvariant == ~EarlyInput => (Spec => []IInv)
<1> SUFFICES ASSUME ~EarlyInput PROVE Spec => []IInv
  OBVIOUS
<1>1. ASSUME Init PROVE IInv
  <2>1. TypeOK
    <3>1. << >> \in Seq(Chars) /\ Len(<< >>) = 0
      OBVIOUS
    <3>2. InitialCapacity \in Nat \ {0} /\ Len(<< >>) <= InitialCapacity
      BY <3>1, StreamAssumption
    <3>3. taken \in 0 .. Len(sent) /\ frees \in 0 .. 1 /\ length \in Nat
      BY <1>1, <3>1 DEF Init
    <3>4. sent \in Seq(Chars) /\ buffer \in Seq(Chars) /\ contents \in Seq(Chars)
      BY <1>1, <3>1 DEF Init
    <3> QED BY <1>1, <3>2, <3>3, <3>4 DEF Init, TypeOK
  <2>2. MutexInv /\ StartInv
    BY <1>1 DEF Init, MutexInv, ThreadInside, ProgramInside, StartInv
  <2>3. FreeInv
    BY <1>1 DEF Init, FreeInv, Owned
  <2>4. StableInv
    BY <1>1 DEF Init, StableInv
  <2>5. StoredInv
    BY <1>1 DEF Init, StoredInv, Unstored, Ended
  <2> QED BY <2>1, <2>2, <2>3, <2>4, <2>5 DEF IInv
<1>2. IInv /\ [Next]_vars => IInv'
  BY ReaderStep
<1> QED BY <1>1, <1>2, PTL DEF Spec

(* The state has its types: no flag, position or length leaves its range.   *)
THEOREM ReaderTypes == ~EarlyInput => (Spec => []TypeOK)
<1>1. IInv => TypeOK
  BY DEF IInv
<1> QED BY <1>1, ReaderInvariant, PTL

(* The thread and the finalizer never free the reader twice, nor while the  *)
(* other still uses it.                                                     *)
THEOREM ReaderFreedOnce == ~EarlyInput => (Spec => []NoUseAfterFree)
<1>1. IInv => NoUseAfterFree
  BY DEF IInv, FreeInv, Owned, NoUseAfterFree, ThreadAlive, StartInv
<1> QED BY <1>1, ReaderInvariant, PTL

(* When running is 0 at the end of the stream the buffer is complete.       *)
THEOREM ReaderComplete == ~EarlyInput => (Spec => []NothingMissing)
<1>1. IInv => NothingMissing
  <2> SUFFICES ASSUME IInv, ~running, ~stopRequested PROVE closed /\ buffer = sent
    BY DEF NothingMissing
  <2>1. closed /\ Len(buffer) = Len(sent) /\ \A i \in 1 .. Len(buffer) : buffer[i] = sent[i]
    BY DEF IInv, StableInv, StoredInv, Ended, Unstored
  <2> QED BY <2>1 DEF IInv, TypeOK
<1> QED BY <1>1, ReaderInvariant, PTL

(* What a stopped or ended reader has returned once it returns for ever.    *)
THEOREM ReaderStable == ~EarlyInput => (Spec => SameContents)
<1>1. ASSUME IInv, IInv', [Next]_vars, retrieved PROVE contents' = contents
  <2>1. contents = buffer /\ ~running
    BY <1>1 DEF IInv, StableInv
  <2>2. thread # "store"
    BY <1>1, <2>1 DEF IInv, StableInv, Ended
  <2>3. buffer' = buffer
        BY <1>1, <2>2 DEF Next, vars, Thread, Continue, Call, Write, Close, TestStopRequested,
       ReadChar, LockPush, TestPush, StorePush, EndReading, LockFinish, Finish, FreeFromThread,
       Stop, CopyContents, Delete, FreeFromProgram, CreateThread, CreateFails, InitMutex,
       LockStop, ReadLength, LockDelete, ThreadStep
  <2>4. retrieved'
        BY <1>1 DEF Next, vars, result, Thread, Continue, Call, Write, Close, TestStopRequested,
       ReadChar, LockPush, TestPush, StorePush, EndReading, LockFinish, Finish, FreeFromThread,
       Stop, CopyContents, Delete, FreeFromProgram, CreateThread, CreateFails, InitMutex,
       LockStop, ReadLength, LockDelete
  <2> QED BY <1>1, <2>1, <2>3, <2>4 DEF IInv, StableInv
<1> QED BY <1>1, ReaderInvariant, PTL DEF Spec, SameContents
=============================================================================
