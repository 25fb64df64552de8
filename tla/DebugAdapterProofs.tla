------------------------- MODULE DebugAdapterProofs -------------------------
(***************************************************************************)
(* Proofs about DebugAdapter, for every table, number of coroutines, depth *)
(* and set of clients: the instructions are in step with the breakpoints,  *)
(* a stopped program stays stopped until the client asks for something     *)
(* else, no stop that is due is passed, and what a client is shown of a    *)
(* stop is there as long as the stop lasts.                                *)
(***************************************************************************)
EXTENDS DebugAdapter, TLAPS

(* What the instructions are when nobody is writing them.                   *)
Instructions == IF allEnabled THEN Entries \ blanked ELSE active

Stepping == {"stepIn", "stepOut", "next"}
Writing == comm \in {"write", "create"}

(* The lock is held in setBreakpoints, and only there.  Until the program   *)
(* is loaded nothing is written.                                            *)
LockInv ==
  /\ LockFree <=> ~Writing
  /\ ~allEnabled => blanked = {}
  /\ ~loaded => /\ int3 = {} /\ active = {} /\ LockFree
                /\ allEnabled => blanked = Entries
  /\ loaded => int3 = IF comm = "create" /\ ~allEnabled THEN active \cup found ELSE Instructions

(* What the program thread does needs the table, and steps need all         *)
(* safepoints, except between the two halves of a continue.                 *)
ModeInv ==
  /\ prog \notin {"none", "loading", "dead"} => loaded
  /\ runMode \in Stepping /\ prog \notin {"resume", "dead"} => allEnabled
  /\ prog \in {"handle", "resume"} => doing \in Messages
  /\ prog = "resume" => doing.kind \in Resumes /\ (doing.kind # "continue" =>
    allEnabled)
  /\ (at = None) = (co = None)

(* Whatever can end a stop was asked for.                                   *)
AskedInv ==
  /\ prog \in {"stopped", "handle", "resume", "test"} /\ runMode # "paused" => asked
  /\ comm \in {"stop", "run"} => asked
  /\ \A i \in 1 .. Len(queue) : queue[i].kind \notin Inspects => asked
  /\ prog \in {"handle", "resume"} => doing.kind \in Inspects \/ asked

(* The inductive invariant.                                                 *)
IInv == TypeOK /\ LockInv /\ ModeInv /\ AskedInv

(* A request that is put into the queue leaves a queue of requests.         *)
LEMMA AppendType ==
  ASSUME NEW T, NEW s \in Seq(T), NEW x \in T
  PROVE  Append(s, x) \in Seq(T)
OBVIOUS

(* The part of TypeOK about the table.                                      *)
SafepointTypes ==
  /\ allEnabled \in BOOLEAN /\ loaded \in BOOLEAN
  /\ int3 \subseteq Entries /\ active \subseteq Entries /\ blanked \subseteq Entries

(* Enabling or disabling all safepoints keeps their types.                  *)
LEMMA EnableDisableTypes ==
  ASSUME TypeOK, EnableAll \/ DisableAll
  PROVE  SafepointTypes'
<1>1. CASE EnableAll
  <2>1. CASE allEnabled
    BY <1>1, <2>1 DEF EnableAll, TypeOK, SafepointTypes, safepoints
  <2>2. CASE ~allEnabled
    BY <1>1, <2>2 DEF EnableAll, TypeOK, SafepointTypes
  <2> QED BY <2>1, <2>2
<1>2. CASE DisableAll
  <2>1. CASE allEnabled
    BY <1>2, <2>1 DEF DisableAll, Restored, TypeOK, SafepointTypes
  <2>2. CASE ~allEnabled
    BY <1>2, <2>2 DEF DisableAll, TypeOK, SafepointTypes, safepoints
  <2> QED BY <2>1, <2>2
<1> QED BY <1>1, <1>2

(* The program is somewhere, or has not started.                            *)
LEMMA HereType ==
  ASSUME TypeOK, ModeInv
  PROVE  Here \in Positions \cup {None} /\ (co # None => Here \in Positions)
BY TableAssumption DEF Here, TypeOK, ModeInv, Positions

(* A stack trace that is made is one.                                       *)
LEMMA NeededType ==
  ASSUME TypeOK, ModeInv, NEW t \in Traces \cup {None}
  PROVE  Needed(t) \in Traces \cup {None}
<1>1. [at |-> Here, scopes |-> 0] \in Traces
  BY HereType DEF Traces
<1> QED BY <1>1 DEF Needed

-----------------------------------------------------------------------------
(* The types are kept by every step.                                        *)
LEMMA TypeStep ==
  ASSUME IInv, [Next]_vars
  PROVE  TypeOK'
<1> USE TableAssumption, DepthAssumption, ClientsAssumption
    DEF IInv, safepoints, commvars, position, traces, progvars, TypeOK
<1>1. ASSUME NextPacket PROVE TypeOK'
  BY <1>1 DEF NextPacket
<1>2. ASSUME EndOfFile PROVE TypeOK'
  BY <1>2 DEF EndOfFile
<1>3. ASSUME Exit PROVE TypeOK'
  BY <1>3 DEF Exit
<1>4. ASSUME Launch PROVE TypeOK'
  BY <1>4 DEF Launch, Read
<1>5. ASSUME Pause PROVE TypeOK'
  BY <1>5 DEF Pause, Read
<1>6. ASSUME PauseStopped PROVE TypeOK'
  BY <1>6 DEF PauseStopped
<1>7. ASSUME PauseRunning PROVE TypeOK'
  BY <1>7 DEF PauseRunning
<1>8. ASSUME PauseEnable PROVE TypeOK'
  <2>1. SafepointTypes'
    BY <1>8, EnableDisableTypes DEF PauseEnable
  <2> QED BY <1>8, <2>1 DEF PauseEnable, SafepointTypes
<1>9. ASSUME NEW kind \in Delayed, InsertRequest(kind) PROVE TypeOK'
  <2>1. ArgumentsOf(kind) \subseteq Nat
    BY DEF ArgumentsOf
  <2>2. sent' \in 0 .. client'.requests /\ client' = client
    BY <1>9, client.requests \in Nat DEF InsertRequest, Read
  <2>3. queue' \in Seq(Messages)
    <3>1. PICK arg \in ArgumentsOf(kind) :
            queue' = queue \/ queue' = Append(queue, [kind |-> kind, arg |-> arg])
      BY <1>9 DEF InsertRequest
    <3>2. [kind |-> kind, arg |-> arg] \in Messages
      BY <2>1 DEF Messages
    <3>3. Append(queue, [kind |-> kind, arg |-> arg]) \in Seq(Messages)
      BY <3>2, AppendType
    <3> QED BY <3>1, <3>3
  <2>4. asked' \in BOOLEAN
    BY <1>9 DEF InsertRequest
  <2>5. comm' = "next" /\ UNCHANGED <<runMode, safepoints, file, found, progvars>>
    BY <1>9 DEF InsertRequest
  <2> QED BY <2>2, <2>3, <2>4, <2>5
<1>10. ASSUME NEW f \in Files, NEW S \in SUBSET Entries, SetBreakpoints(f, S) PROVE TypeOK'
  BY <1>10 DEF SetBreakpoints, Read, InFile, LockFree
<1>11. ASSUME WriteBreakpoints PROVE TypeOK'
  BY <1>11 DEF WriteBreakpoints
<1>12. ASSUME CreateList PROVE TypeOK'
  BY <1>12 DEF CreateList, Unlocked
<1>13. ASSUME Load PROVE TypeOK'
  BY <1>13 DEF Load
<1>14. ASSUME NEW e \in Entries, NEW c \in Coroutines, NEW d \in 0 .. MaxDepth, Arrive(e, c, d)
  PROVE TypeOK'
  BY <1>14 DEF Arrive, Positions
<1>15. ASSUME NEW c \in Coroutines, Close(c) PROVE TypeOK'
  BY <1>15 DEF Close
<1>16. ASSUME Return PROVE TypeOK'
  BY <1>16 DEF Return
<1>17. ASSUME FindBreakpoint PROVE TypeOK'
  BY <1>17 DEF FindBreakpoint
<1>18. ASSUME Decide PROVE TypeOK'
  <2>1. hit' \in BOOLEAN /\ prog' \in {"running", "stopping"}
    BY <1>18 DEF Decide
  <2>2. stepping' \in Positions \cup {None}
    BY <1>18 DEF Decide
  <2>3. UNCHANGED <<runMode, safepoints, queue, commvars, doing, position, traces, asked>>
    BY <1>18 DEF Decide
  <2> QED BY <2>1, <2>2, <2>3
<1>19. ASSUME Stop PROVE TypeOK'
  BY <1>19 DEF Stop, StoppedMode
<1>20. ASSUME Take PROVE TypeOK'
  <2>1. Head(queue) \in Messages /\ Tail(queue) \in Seq(Messages)
    BY <1>20 DEF Take
  <2> QED BY <1>20, <2>1 DEF Take
<1>21. ASSUME HandleResume PROVE TypeOK'
  <2>1. SafepointTypes'
    BY <1>21, EnableDisableTypes DEF HandleResume
  <2> QED BY <1>21, <2>1 DEF HandleResume, SafepointTypes
<1>22. ASSUME Resume PROVE TypeOK'
  <2>1. runMode' \in {"running", "stepIn", "stepOut", "next"}
    BY <1>22 DEF Resume, ModeInv, Resumes
  <2>2. stepping' \in Positions \cup {None}
    BY <1>22, HereType DEF Resume
  <2> QED BY <1>22, <2>1, <2>2 DEF Resume
<1>23. ASSUME HandleDisconnect PROVE TypeOK'
  BY <1>23 DEF HandleDisconnect, Handling
<1>24. ASSUME HandleThreads PROVE TypeOK'
  <2>1. env' \in Seq(Variables)
    BY <1>24 DEF HandleThreads, NoVariables
  <2>2. frames' \in Nat /\ trace' = None
    BY <1>24 DEF HandleThreads
  <2>3. threadsAsked' \in BOOLEAN /\ reformatted' \in BOOLEAN /\ prog' = "stopped" /\ doing' =
    None
    BY <1>24 DEF HandleThreads, Handling
  <2>4. UNCHANGED <<runMode, safepoints, queue, commvars, hit, position, stepping,
                    traceAvailable, format, known, asked>>
    BY <1>24 DEF HandleThreads
  <2> QED BY <2>1, <2>2, <2>3, <2>4
<1>25. ASSUME HandleStackTrace PROVE TypeOK'
  <2>1. doing \in Messages
    BY <1>25 DEF HandleStackTrace, Handling, ModeInv
  <2>2. format' \in Nat /\ frames' \in Nat /\ reformatted' \in BOOLEAN
    BY <1>25, <2>1 DEF HandleStackTrace, Messages
  <2>3. trace' \in Traces \cup {None}
    BY <1>25, NeededType DEF HandleStackTrace, Traces
  <2>4. known' \in [frame : Nat, variable : Nat]
    BY <1>25, <2>2 DEF HandleStackTrace
  <2> QED BY <1>25, <2>2, <2>3, <2>4 DEF HandleStackTrace, Handling, Traces
<1>26. ASSUME NEW reused \in BOOLEAN, HandleScopes(reused) PROVE TypeOK'
  <2> DEFINE t == Needed(trace)
             new == Append(env, [frame |-> frames, listed |-> FALSE])
  <2>1. t \in Traces \cup {None}
    BY NeededType DEF Traces
  <2>2. new \in Seq(Variables) /\ Len(new) \in Nat
    <3>1. [frame |-> frames, listed |-> FALSE] \in Variables
      BY DEF Variables
    <3> QED BY <3>1, AppendType
  <2>3. CASE t # None /\ (doing.arg = frames \/ reused)
    <3>1. env' \in Seq(Variables) /\ Len(env') \in Nat
      <4>1. env' = new \/ env' = env
        BY <1>26, <2>3 DEF HandleScopes
      <4>2. env \in Seq(Variables) /\ Len(env) \in Nat
        OBVIOUS
      <4> QED BY <2>2, <4>1, <4>2
    <3>2. t \in Traces
      BY <2>1, <2>3
    <3>3. trace' \in Traces
      BY <1>26, <2>3, <3>1, <3>2 DEF HandleScopes, Traces
    <3>4. known' \in [frame : Nat, variable : Nat]
      BY <1>26, <2>3, <3>3 DEF HandleScopes, Traces
    <3> QED BY <1>26, <3>1, <3>3, <3>4 DEF HandleScopes, Handling, Traces, Variables
  <2>4. CASE ~(t # None /\ (doing.arg = frames \/ reused))
    BY <1>26, <2>1, <2>4 DEF HandleScopes, Handling, Traces
  <2> QED BY <2>3, <2>4
<1>27. ASSUME HandleVariables PROVE TypeOK'
  <2>1. env' \in Seq(Variables)
    <3>1. CASE doing.arg \in DOMAIN env
      <4>1. doing.arg \in 1 .. Len(env) /\ env[doing.arg] \in Variables
        BY <3>1
      <4>2. [env[doing.arg] EXCEPT !.listed = TRUE] \in Variables
        BY <4>1 DEF Variables
      <4>3. env' = [env EXCEPT ![doing.arg] = [env[doing.arg] EXCEPT !.listed = TRUE]]
        BY <1>27, <3>1 DEF HandleVariables
      <4> QED BY <4>1, <4>2, <4>3
    <3>2. CASE doing.arg \notin DOMAIN env
      <4>1. env' = env
        BY <1>27, <3>2 DEF HandleVariables
      <4> QED BY <4>1
    <3> QED BY <3>1, <3>2
  <2>2. doing' = None /\ prog' = "stopped"
    BY <1>27 DEF HandleVariables, Handling
  <2>3. UNCHANGED <<runMode, safepoints, queue, commvars, hit, position, stepping,
                    traceAvailable, trace, format, frames, known, threadsAsked, reformatted,
                      asked>>
    BY <1>27 DEF HandleVariables
  <2> QED BY <2>1, <2>2, <2>3
<1>28. ASSUME FoundEmpty PROVE TypeOK'
  BY <1>28 DEF FoundEmpty
<1>29. ASSUME Wait PROVE TypeOK'
  BY <1>29 DEF Wait
<1>30. ASSUME Leave PROVE TypeOK'
  <2>1. asked' \in BOOLEAN
    BY <1>30 DEF Leave, MayEndStop
  <2>2. threadsAsked' \in BOOLEAN /\ prog' = "running"
    BY <1>30 DEF Leave
  <2>3. UNCHANGED <<runMode, safepoints, queue, commvars, doing, hit, position, stepping,
                    traceAvailable, trace, format, frames, env, known, reformatted>>
    BY <1>30 DEF Leave
  <2> QED BY <2>1, <2>2, <2>3
<1>31. ASSUME UNCHANGED vars PROVE TypeOK'
  BY <1>31 DEF vars
<1> QED
  BY <1>1, <1>2, <1>3, <1>4, <1>5, <1>6, <1>7, <1>8, <1>9, <1>10, <1>11, <1>12, <1>13, <1>14,
  <1>15, <1>16, <1>17, <1>18, <1>19, <1>20, <1>21, <1>22, <1>23, <1>24, <1>25, <1>26, <1>27,
  <1>28, <1>29, <1>30, <1>31 DEF Next, Communication, Run, Debug

(* So is what the lock protects.                                            *)
LEMMA LockStep ==
  ASSUME IInv, [Next]_vars
  PROVE  LockInv'
<1> USE TableAssumption, DepthAssumption, ClientsAssumption
    DEF IInv, safepoints, commvars, position, traces, progvars, TypeOK, LockInv, LockFree,
      Writing, Instructions
<1>1. ASSUME NextPacket PROVE LockInv'
  BY <1>1 DEF NextPacket
<1>2. ASSUME EndOfFile PROVE LockInv'
  BY <1>2 DEF EndOfFile
<1>3. ASSUME Exit PROVE LockInv'
  BY <1>3 DEF Exit
<1>4. ASSUME Launch PROVE LockInv'
  BY <1>4 DEF Launch, Read
<1>5. ASSUME Pause PROVE LockInv'
  BY <1>5 DEF Pause, Read
<1>6. ASSUME PauseStopped PROVE LockInv'
  BY <1>6 DEF PauseStopped
<1>7. ASSUME PauseRunning PROVE LockInv'
  BY <1>7 DEF PauseRunning
<1>8. ASSUME PauseEnable PROVE LockInv'
  BY <1>8 DEF PauseEnable, EnableAll, LockFree
<1>9. ASSUME NEW kind \in Delayed, InsertRequest(kind) PROVE LockInv'
  BY <1>9 DEF InsertRequest, Read, ArgumentsOf, Delayed, Resumes, Inspects
<1>10. ASSUME NEW f \in Files, NEW S \in SUBSET Entries, SetBreakpoints(f, S) PROVE LockInv'
  BY <1>10 DEF SetBreakpoints, Read, InFile, LockFree
<1>11. ASSUME WriteBreakpoints PROVE LockInv'
  BY <1>11 DEF WriteBreakpoints
<1>12. ASSUME CreateList PROVE LockInv'
  BY <1>12 DEF CreateList, Unlocked
<1>13. ASSUME Load PROVE LockInv'
  BY <1>13 DEF Load
<1>14. ASSUME NEW e \in Entries, NEW c \in Coroutines, NEW d \in 0 .. MaxDepth, Arrive(e, c, d)
  PROVE LockInv'
  BY <1>14 DEF Arrive
<1>15. ASSUME NEW c \in Coroutines, Close(c) PROVE LockInv'
  BY <1>15 DEF Close
<1>16. ASSUME Return PROVE LockInv'
  BY <1>16 DEF Return
<1>17. ASSUME FindBreakpoint PROVE LockInv'
  BY <1>17 DEF FindBreakpoint
<1>18. ASSUME Decide PROVE LockInv'
  BY <1>18 DEF Decide, GoesOn, Deeper
<1>19. ASSUME Stop PROVE LockInv'
  BY <1>19 DEF Stop, StoppedMode
<1>20. ASSUME Take PROVE LockInv'
  BY <1>20 DEF Take
<1>21. ASSUME HandleResume PROVE LockInv'
  BY <1>21 DEF HandleResume, LockFree, EnableAll, DisableAll, Restored, Resumes
<1>22. ASSUME Resume PROVE LockInv'
  BY <1>22 DEF Resume, Here, Resumes
<1>23. ASSUME HandleDisconnect PROVE LockInv'
  BY <1>23 DEF HandleDisconnect, Handling
<1>24. ASSUME HandleThreads PROVE LockInv'
  BY <1>24 DEF HandleThreads, Handling, NoVariables
<1>25. ASSUME HandleStackTrace PROVE LockInv'
  BY <1>25 DEF HandleStackTrace, Handling, Needed, Here
<1>26. ASSUME NEW reused \in BOOLEAN, HandleScopes(reused) PROVE LockInv'
  BY <1>26 DEF HandleScopes, Handling, Needed, Here
<1>27. ASSUME HandleVariables PROVE LockInv'
  BY <1>27 DEF HandleVariables, Handling
<1>28. ASSUME FoundEmpty PROVE LockInv'
  BY <1>28 DEF FoundEmpty
<1>29. ASSUME Wait PROVE LockInv'
  BY <1>29 DEF Wait
<1>30. ASSUME Leave PROVE LockInv'
  BY <1>30 DEF Leave, MayEndStop
<1>31. ASSUME UNCHANGED vars PROVE LockInv'
  BY <1>31 DEF vars
<1> QED
  BY <1>1, <1>2, <1>3, <1>4, <1>5, <1>6, <1>7, <1>8, <1>9, <1>10, <1>11, <1>12, <1>13, <1>14,
  <1>15, <1>16, <1>17, <1>18, <1>19, <1>20, <1>21, <1>22, <1>23, <1>24, <1>25, <1>26, <1>27,
  <1>28, <1>29, <1>30, <1>31 DEF Next, Communication, Run, Debug

(* And what the program thread knows of the table and the safepoints.       *)
LEMMA ModeStep ==
  ASSUME IInv, [Next]_vars
  PROVE  ModeInv'
<1> USE TableAssumption, DepthAssumption, ClientsAssumption
    DEF IInv, safepoints, commvars, position, traces, progvars, TypeOK, LockInv, LockFree,
      Writing, Instructions, ModeInv, Stepping
<1>1. ASSUME NextPacket PROVE ModeInv'
  BY <1>1 DEF NextPacket
<1>2. ASSUME EndOfFile PROVE ModeInv'
  BY <1>2 DEF EndOfFile
<1>3. ASSUME Exit PROVE ModeInv'
  BY <1>3 DEF Exit
<1>4. ASSUME Launch PROVE ModeInv'
  BY <1>4 DEF Launch, Read
<1>5. ASSUME Pause PROVE ModeInv'
  BY <1>5 DEF Pause, Read
<1>6. ASSUME PauseStopped PROVE ModeInv'
  BY <1>6 DEF PauseStopped
<1>7. ASSUME PauseRunning PROVE ModeInv'
  BY <1>7 DEF PauseRunning
<1>8. ASSUME PauseEnable PROVE ModeInv'
  BY <1>8 DEF PauseEnable, EnableAll, LockFree
<1>9. ASSUME NEW kind \in Delayed, InsertRequest(kind) PROVE ModeInv'
  BY <1>9 DEF InsertRequest, Read, ArgumentsOf, Delayed, Resumes, Inspects
<1>10. ASSUME NEW f \in Files, NEW S \in SUBSET Entries, SetBreakpoints(f, S) PROVE ModeInv'
  BY <1>10 DEF SetBreakpoints, Read, InFile, LockFree
<1>11. ASSUME WriteBreakpoints PROVE ModeInv'
  BY <1>11 DEF WriteBreakpoints
<1>12. ASSUME CreateList PROVE ModeInv'
  BY <1>12 DEF CreateList, Unlocked
<1>13. ASSUME Load PROVE ModeInv'
  BY <1>13 DEF Load
<1>14. ASSUME NEW e \in Entries, NEW c \in Coroutines, NEW d \in 0 .. MaxDepth, Arrive(e, c, d)
  PROVE ModeInv'
  BY <1>14 DEF Arrive
<1>15. ASSUME NEW c \in Coroutines, Close(c) PROVE ModeInv'
  BY <1>15 DEF Close
<1>16. ASSUME Return PROVE ModeInv'
  BY <1>16 DEF Return
<1>17. ASSUME FindBreakpoint PROVE ModeInv'
  BY <1>17 DEF FindBreakpoint
<1>18. ASSUME Decide PROVE ModeInv'
  BY <1>18 DEF Decide, GoesOn, Deeper
<1>19. ASSUME Stop PROVE ModeInv'
  BY <1>19 DEF Stop, StoppedMode
<1>20. ASSUME Take PROVE ModeInv'
  BY <1>20 DEF Take
<1>21. ASSUME HandleResume PROVE ModeInv'
  BY <1>21 DEF HandleResume, LockFree, EnableAll, DisableAll, Restored, Resumes
<1>22. ASSUME Resume PROVE ModeInv'
  BY <1>22 DEF Resume, Here, Resumes
<1>23. ASSUME HandleDisconnect PROVE ModeInv'
  BY <1>23 DEF HandleDisconnect, Handling
<1>24. ASSUME HandleThreads PROVE ModeInv'
  BY <1>24 DEF HandleThreads, Handling, NoVariables
<1>25. ASSUME HandleStackTrace PROVE ModeInv'
  BY <1>25 DEF HandleStackTrace, Handling, Needed, Here
<1>26. ASSUME NEW reused \in BOOLEAN, HandleScopes(reused) PROVE ModeInv'
  BY <1>26 DEF HandleScopes, Handling, Needed, Here
<1>27. ASSUME HandleVariables PROVE ModeInv'
  BY <1>27 DEF HandleVariables, Handling
<1>28. ASSUME FoundEmpty PROVE ModeInv'
  BY <1>28 DEF FoundEmpty
<1>29. ASSUME Wait PROVE ModeInv'
  BY <1>29 DEF Wait
<1>30. ASSUME Leave PROVE ModeInv'
  BY <1>30 DEF Leave, MayEndStop
<1>31. ASSUME UNCHANGED vars PROVE ModeInv'
  BY <1>31 DEF vars
<1> QED
  BY <1>1, <1>2, <1>3, <1>4, <1>5, <1>6, <1>7, <1>8, <1>9, <1>10, <1>11, <1>12, <1>13, <1>14,
  <1>15, <1>16, <1>17, <1>18, <1>19, <1>20, <1>21, <1>22, <1>23, <1>24, <1>25, <1>26, <1>27,
  <1>28, <1>29, <1>30, <1>31 DEF Next, Communication, Run, Debug

(* And that whatever can end a stop was asked for.                          *)
LEMMA AskedStep ==
  ASSUME IInv, [Next]_vars
  PROVE  AskedInv'
<1> USE TableAssumption, DepthAssumption, ClientsAssumption
    DEF IInv, safepoints, commvars, position, traces, progvars, TypeOK, ModeInv, AskedInv
<1>1. ASSUME NextPacket PROVE AskedInv'
  BY <1>1 DEF NextPacket
<1>2. ASSUME EndOfFile PROVE AskedInv'
  BY <1>2 DEF EndOfFile
<1>3. ASSUME Exit PROVE AskedInv'
  BY <1>3 DEF Exit
<1>4. ASSUME Launch PROVE AskedInv'
  BY <1>4 DEF Launch, Read
<1>5. ASSUME Pause PROVE AskedInv'
  BY <1>5 DEF Pause, Read
<1>6. ASSUME PauseStopped PROVE AskedInv'
  BY <1>6 DEF PauseStopped
<1>7. ASSUME PauseRunning PROVE AskedInv'
  BY <1>7 DEF PauseRunning
<1>8. ASSUME PauseEnable PROVE AskedInv'
  BY <1>8 DEF PauseEnable, EnableAll, LockFree
<1>9. ASSUME NEW kind \in Delayed, InsertRequest(kind) PROVE AskedInv'
  <2>1. CASE runMode = "terminated"
    BY <1>9, <2>1 DEF InsertRequest, Read
  <2>2. CASE runMode # "terminated"
    <3>1. PICK arg \in ArgumentsOf(kind) : queue' = Append(queue, [kind |-> kind, arg |-> arg])
      BY <1>9, <2>2 DEF InsertRequest
    <3>2. asked' = (asked \/ kind \in Resumes \cup {"disconnect"}) /\ comm' = "next"
      BY <1>9, <2>2 DEF InsertRequest
    <3>3. UNCHANGED <<runMode, prog, doing>>
      BY <1>9 DEF InsertRequest
    <3>4. ASSUME NEW i \in 1 .. Len(queue') PROVE queue'[i].kind \notin Inspects => asked'
      <4>1. CASE i = Len(queue) + 1
        <5>1. queue'[i].kind = kind
          BY <3>1, <4>1
        <5> QED BY <5>1, <3>2 DEF Delayed
      <4>2. CASE i # Len(queue) + 1
        <5>1. i \in 1 .. Len(queue) /\ queue'[i] = queue[i]
          BY <3>1, <4>2
        <5> QED BY <5>1, <3>2
      <4> QED BY <4>1, <4>2
    <3> QED BY <3>2, <3>3, <3>4
  <2> QED BY <2>1, <2>2
<1>10. ASSUME NEW f \in Files, NEW S \in SUBSET Entries, SetBreakpoints(f, S) PROVE AskedInv'
  BY <1>10 DEF SetBreakpoints, Read, InFile, LockFree
<1>11. ASSUME WriteBreakpoints PROVE AskedInv'
  BY <1>11 DEF WriteBreakpoints
<1>12. ASSUME CreateList PROVE AskedInv'
  BY <1>12 DEF CreateList, Unlocked
<1>13. ASSUME Load PROVE AskedInv'
  BY <1>13 DEF Load
<1>14. ASSUME NEW e \in Entries, NEW c \in Coroutines, NEW d \in 0 .. MaxDepth, Arrive(e, c, d)
  PROVE AskedInv'
  BY <1>14 DEF Arrive
<1>15. ASSUME NEW c \in Coroutines, Close(c) PROVE AskedInv'
  BY <1>15 DEF Close
<1>16. ASSUME Return PROVE AskedInv'
  BY <1>16 DEF Return
<1>17. ASSUME FindBreakpoint PROVE AskedInv'
  BY <1>17 DEF FindBreakpoint
<1>18. ASSUME Decide PROVE AskedInv'
  BY <1>18 DEF Decide, GoesOn, Deeper
<1>19. ASSUME Stop PROVE AskedInv'
  BY <1>19 DEF Stop, StoppedMode
<1>20. ASSUME Take PROVE AskedInv'
  BY <1>20 DEF Take
<1>21. ASSUME HandleResume PROVE AskedInv'
  BY <1>21 DEF HandleResume, LockFree, EnableAll, DisableAll, Restored, Resumes
<1>22. ASSUME Resume PROVE AskedInv'
  BY <1>22 DEF Resume, Here, Resumes, Resumes, Inspects
<1>23. ASSUME HandleDisconnect PROVE AskedInv'
  BY <1>23 DEF HandleDisconnect, Handling, Inspects
<1>24. ASSUME HandleThreads PROVE AskedInv'
  BY <1>24 DEF HandleThreads, Handling, NoVariables
<1>25. ASSUME HandleStackTrace PROVE AskedInv'
  BY <1>25 DEF HandleStackTrace, Handling, Needed, Here
<1>26. ASSUME NEW reused \in BOOLEAN, HandleScopes(reused) PROVE AskedInv'
  BY <1>26 DEF HandleScopes, Handling, Needed, Here
<1>27. ASSUME HandleVariables PROVE AskedInv'
  BY <1>27 DEF HandleVariables, Handling
<1>28. ASSUME FoundEmpty PROVE AskedInv'
  BY <1>28 DEF FoundEmpty
<1>29. ASSUME Wait PROVE AskedInv'
  BY <1>29 DEF Wait
<1>30. ASSUME Leave PROVE AskedInv'
  <2>1. prog' = "running" /\ UNCHANGED <<comm, queue>>
    BY <1>30 DEF Leave
  <2>2. comm \in {"stop", "run"} => asked'
    BY <1>30 DEF Leave, MayEndStop
  <2>3. ASSUME NEW i \in 1 .. Len(queue), queue[i].kind \notin Inspects PROVE asked'
    <3>1. i \in DOMAIN queue
      OBVIOUS
    <3>2. MayEndStop
      BY <2>3, <3>1 DEF MayEndStop
    <3> QED BY <1>30, <3>2 DEF Leave
  <2> QED BY <2>1, <2>2, <2>3
<1>31. ASSUME UNCHANGED vars PROVE AskedInv'
  BY <1>31 DEF vars
<1> QED
  BY <1>1, <1>2, <1>3, <1>4, <1>5, <1>6, <1>7, <1>8, <1>9, <1>10, <1>11, <1>12, <1>13, <1>14,
  <1>15, <1>16, <1>17, <1>18, <1>19, <1>20, <1>21, <1>22, <1>23, <1>24, <1>25, <1>26, <1>27,
  <1>28, <1>29, <1>30, <1>31 DEF Next, Communication, Run, Debug

-----------------------------------------------------------------------------
(* The inductive invariant: what the lock protects, how run mode, table and *)
(* safepoints go together, and who asked for the end of a stop.             *)
THEOREM AdapterInvariant == Spec => []IInv
<1>1. Init => IInv
  <2> SUFFICES ASSUME Init PROVE IInv
    OBVIOUS
  <2> USE TableAssumption, DepthAssumption, ClientsAssumption DEF Init
  <2>1. client.requests \in Nat
    OBVIOUS
  <2>2. TypeOK
    <3>1. queue \in Seq(Messages) /\ env \in Seq(Variables) /\ depth \in [Coroutines -> 0 .. MaxDepth]
      OBVIOUS
    <3>2. /\ allEnabled \in BOOLEAN /\ loaded \in BOOLEAN /\ hit \in BOOLEAN /\ asked \in BOOLEAN
          /\ traceAvailable \in BOOLEAN /\ threadsAsked \in BOOLEAN /\ reformatted \in BOOLEAN
      OBVIOUS
    <3>3. known \in [frame : Nat, variable : Nat] /\ sent \in 0 .. client.requests
      BY <2>1
    <3> QED BY <3>1, <3>2, <3>3 DEF TypeOK
  <2>3. LockInv
    BY DEF LockInv, LockFree, Writing
  <2>4. ModeInv /\ AskedInv
    BY DEF ModeInv, AskedInv, Stepping
  <2> QED BY <2>2, <2>3, <2>4 DEF IInv
<1>2. IInv /\ [Next]_vars => IInv'
  <2> SUFFICES ASSUME IInv, [Next]_vars PROVE IInv'
    OBVIOUS
  <2> QED BY TypeStep, LockStep, ModeStep, AskedStep DEF IInv
<1> QED BY <1>1, <1>2, PTL DEF Spec

(* The types of the state; and while nobody holds the lock, INT3 is exactly *)
(* at the breakpoints, or everywhere but where it was cleared while all     *)
(* safepoints were enabled.                                                 *)
THEOREM AdapterWellFormed == Spec => []WellFormed
<1>1. IInv => WellFormed
  BY DEF IInv, LockInv, Instructions, Writing, WellFormed, Armed
<1> QED BY <1>1, AdapterInvariant, PTL

(* A stopped program goes on only if the client asked for something that    *)
(* ends a stop (next_debug_event tests the run mode, which the other thread *)
(* writes too).                                                             *)
THEOREM AdapterStopHolds == Spec => StopHolds
<1>1. IInv /\ [Next]_vars => [prog = "test" /\ prog' = "running" => asked]_vars
  <2> SUFFICES ASSUME IInv, [Next]_vars, prog = "test", prog' = "running"
               PROVE  asked
    OBVIOUS
  <2>1. runMode # "paused"
    BY DEF Next, Communication, Run, Debug, NextPacket, EndOfFile, Exit, Launch, Read, Pause,
           PauseStopped, PauseRunning, PauseEnable, InsertRequest, SetBreakpoints,
           WriteBreakpoints, CreateList, Load, Arrive, Close, Return, FindBreakpoint, Decide,
           Stop, Take, HandleResume, Resume, HandleDisconnect, HandleThreads, HandleStackTrace,
           HandleScopes, HandleVariables, Handling, FoundEmpty, Wait, Leave, vars, progvars
  <2> QED BY <2>1 DEF IInv, AskedInv
<1> QED BY <1>1, AdapterInvariant, PTL DEF Spec, StopHolds

(* A step of the program between two safepoints, or of the decision to go   *)
(* on, passes no safepoint where a stop is due, unless breakpoints of the   *)
(* file are being changed or were changed while all were enabled.           *)
THEOREM AdapterStopsWhereDue == Spec => StopsWhereDue
<1> DEFINE Moves  == prog = "running" /\ prog' = "running" /\ position' # position /\ closed' = closed
           Passes == ~Due(at \in active)' \/ at' \in blanked \/ ~LockFree
<1>1. ASSUME IInv, [Next]_vars, Moves PROVE Passes
  <2>1. PICK e \in Entries, c \in Coroutines, d \in 0 .. MaxDepth : Arrive(e, c, d)
    BY <1>1 DEF Next, Communication, Run, Debug, NextPacket, EndOfFile, Exit, Launch, Read, Pause,
           PauseStopped, PauseRunning, PauseEnable, InsertRequest, SetBreakpoints,
           WriteBreakpoints, CreateList, Load, Close, Return, FindBreakpoint, Decide,
           Stop, Take, HandleResume, Resume, HandleDisconnect, HandleThreads, HandleStackTrace,
           HandleScopes, HandleVariables, Handling, FoundEmpty, Wait, Leave, vars, progvars, position
  <2>2. at' = e /\ e \notin int3 /\ UNCHANGED <<runMode, safepoints>>
    BY <1>1, <2>1 DEF Arrive
  <2>3. CASE LockFree
    <3>1. int3 = Instructions
      BY <1>1, <2>3 DEF IInv, LockInv, ModeInv, Writing
    <3>2. CASE allEnabled
      BY <2>2, <3>1, <3>2 DEF Instructions
    <3>3. CASE ~allEnabled
      <4>1. e \notin active /\ runMode \notin Stepping
        BY <1>1, <2>2, <3>1, <3>3 DEF Instructions, IInv, ModeInv
      <4> QED BY <2>2, <3>3, <4>1 DEF Due, Stepping, safepoints
    <3> QED BY <3>2, <3>3
  <2> QED BY <2>3
<1>2. ASSUME IInv, [Next]_vars, prog = "decide", prog' = "running" PROVE ~Due(hit)
  <2>1. Decide
    BY <1>2 DEF Next, Communication, Run, Debug, NextPacket, EndOfFile, Exit, Launch, Read, Pause,
           PauseStopped, PauseRunning, PauseEnable, InsertRequest, SetBreakpoints, Arrive,
           WriteBreakpoints, CreateList, Load, Close, Return, FindBreakpoint,
           Stop, Take, HandleResume, Resume, HandleDisconnect, HandleThreads, HandleStackTrace,
           HandleScopes, HandleVariables, Handling, FoundEmpty, Wait, Leave, vars, progvars
  <2>2. ~hit /\ GoesOn
    BY <1>2, <2>1 DEF Decide
  <2>3. stepping \in Positions
    BY <1>2, <2>2 DEF GoesOn, IInv, TypeOK
  <2>4. CASE stepping.co # co
    BY <2>2, <2>4 DEF GoesOn, Due
  <2>5. CASE stepping.co = co
    <3>1. stepping.depth \in 0 .. MaxDepth /\ depth[co] \in 0 .. MaxDepth
      BY <1>2, <2>3, <2>5 DEF Positions, IInv, TypeOK
    <3> QED BY <2>2, <2>5, <3>1, DepthAssumption DEF GoesOn, Due, Deeper
  <2> QED BY <2>4, <2>5
<1>3. IInv /\ [Next]_vars =>
        [/\ Moves => Passes
         /\ prog = "decide" /\ prog' = "running" => ~Due(hit)]_vars
  BY <1>1, <1>2
<1> QED BY <1>3, AdapterInvariant, PTL DEF Spec, StopsWhereDue
-----------------------------------------------------------------------------
(* What the client is shown in the stop it asks about.  A client that asked *)
(* for the threads did so in this stop, and the program has not run since.  *)
Shown ==
  /\ trace # None => trace.at = Here
  /\ \A i \in 1 .. Len(env) : env[i].listed \/ env[i].frame = frames \/ reformatted

InspectInv ==
  threadsAsked => prog \in {"stopped", "handle", "resume", "test", "dead"} /\ Shown

(* The variables that what is shown depends on.                             *)
shown == <<trace, env, frames, reformatted, at, co, depth>>

(* A step that leaves them alone, in a stop, shows nothing else.            *)
LEMMA ShownKept ==
  ASSUME InspectInv, UNCHANGED shown, threadsAsked' => threadsAsked,
         threadsAsked' => prog' = prog \/ prog' \in {"stopped", "handle", "resume", "test", "dead"}
  PROVE  InspectInv'
<1>1. Shown => Shown'
  BY DEF shown, Shown, Here
<1> QED BY <1>1 DEF InspectInv

(* The stack trace that a request needs is that of this stop: it was kept   *)
(* since the threads were asked for, or it is read now.                     *)
LEMMA NeededHere ==
  ASSUME NEW t, t # None => t.at = Here
  PROVE  Needed(t) # None => Needed(t).at = Here
BY DEF Needed

(* The client is shown this stop after every step.                          *)
LEMMA InspectStep ==
  ASSUME IInv, InspectInv, [Next]_vars
  PROVE  InspectInv'
<1> USE DEF safepoints, commvars, position, traces, progvars, shown
<1>1. ASSUME Communication PROVE InspectInv'
  <2>1. UNCHANGED <<shown, threadsAsked>> /\ (prog' = prog \/ prog' = "dead" \/ prog = "none")
    BY <1>1 DEF Communication, NextPacket, EndOfFile, Exit, Launch, Read, Pause, PauseStopped,
           PauseRunning, PauseEnable, InsertRequest, SetBreakpoints, WriteBreakpoints, CreateList
  <2>2. prog = "none" => ~threadsAsked
    BY DEF InspectInv
  <2> QED BY <2>1, <2>2, ShownKept
<1>2. ASSUME Run \/ \E c \in Coroutines : Close(c) PROVE InspectInv'
  <2>1. prog = "running" /\ threadsAsked' = threadsAsked
    BY <1>2 DEF Run, Return, Arrive, Close
  <2> QED BY <2>1 DEF InspectInv
<1>3. ASSUME Load \/ FindBreakpoint \/ Decide \/ Stop PROVE InspectInv'
  <2>1. prog \in {"loading", "trapped", "decide", "stopping"} /\ threadsAsked' = threadsAsked
    BY <1>3 DEF Load, FindBreakpoint, Decide, Stop
  <2> QED BY <2>1 DEF InspectInv
<1>4. ASSUME Take \/ HandleResume \/ Resume \/ HandleDisconnect \/ FoundEmpty \/ Wait
      PROVE InspectInv'
  <2>1. UNCHANGED <<shown, threadsAsked>> /\ prog' \in {"stopped", "handle", "resume", "test"}
    BY <1>4 DEF Take, HandleResume, Resume, HandleDisconnect, Handling, FoundEmpty, Wait
  <2> QED BY <2>1, ShownKept
<1>5. ASSUME Leave PROVE InspectInv'
  BY <1>5 DEF Leave, InspectInv
<1>6. ASSUME HandleThreads PROVE InspectInv'
  <2>1. env' = << >> /\ trace' = None /\ prog' = "stopped"
    BY <1>6 DEF HandleThreads, NoVariables, Handling
  <2> QED BY <2>1 DEF InspectInv, Shown
<1>7. ASSUME HandleStackTrace PROVE InspectInv'
  <2>1. UNCHANGED <<threadsAsked, env, at, co, depth>> /\ prog' = "stopped"
    BY <1>7 DEF HandleStackTrace, Handling
  <2> SUFFICES ASSUME threadsAsked PROVE Shown'
    BY <2>1 DEF InspectInv
  <2>2. Shown
    BY DEF InspectInv
  <2>3. trace' # None => trace'.at = Here
    <3> DEFINE t == IF format' # format THEN None ELSE trace
    <3>1. t # None => t.at = Here
      BY <2>2 DEF Shown
    <3>2. trace' = Needed(t)
      BY <1>7 DEF HandleStackTrace
    <3> HIDE DEF t
    <3> QED BY <3>1, <3>2, NeededHere
  <2>4. Here' = Here
    BY <2>1 DEF Here
  <2>5. ASSUME NEW i \in 1 .. Len(env) PROVE env[i].listed \/ env[i].frame = frames' \/ reformatted'
    <3>1. env # << >>
      BY <2>5
    <3>2. frames' = frames \/ reformatted'
      BY <1>7, <3>1 DEF HandleStackTrace
    <3>3. reformatted => reformatted'
      BY <1>7 DEF HandleStackTrace
    <3> QED BY <2>2, <3>2, <3>3 DEF Shown
  <2> QED BY <2>1, <2>3, <2>4, <2>5 DEF Shown
<1>8. ASSUME NEW reused \in BOOLEAN, HandleScopes(reused) PROVE InspectInv'
  <2>1. UNCHANGED <<threadsAsked, frames, reformatted, at, co, depth>> /\ prog' = "stopped"
    BY <1>8 DEF HandleScopes, Handling
  <2> SUFFICES ASSUME threadsAsked PROVE Shown'
    BY <2>1 DEF InspectInv
  <2>2. Shown /\ Here' = Here
    BY <2>1 DEF InspectInv, Here
  <2> DEFINE t == Needed(trace)
             new == Append(env, [frame |-> frames, listed |-> FALSE])
  <2>3. t # None => t.at = Here
    BY <2>2, NeededHere DEF Shown
  <2>4. t \in Traces \cup {None}
    BY NeededType DEF IInv, TypeOK
  <2>5. /\ trace' = t \/ (t # None /\ trace' = [t EXCEPT !.scopes = Len(env')])
        /\ env' = env \/ env' = new
    <3>1. CASE t # None /\ (doing.arg = frames \/ reused)
      <4>1. /\ env' = IF t.scopes = 0 THEN new ELSE env
            /\ trace' = IF t.scopes = 0 THEN [t EXCEPT !.scopes = Len(env')] ELSE t
        BY <1>8, <3>1 DEF HandleScopes
      <4> HIDE DEF t, new
      <4> QED BY <3>1, <4>1
    <3>2. CASE ~(t # None /\ (doing.arg = frames \/ reused))
      BY <1>8, <3>2 DEF HandleScopes
    <3> QED BY <3>1, <3>2
  <2> HIDE DEF t
  <2>6. trace' # None => trace'.at = Here
    BY <2>3, <2>4, <2>5 DEF Traces
  <2>7. ASSUME env' = new, NEW i \in 1 .. Len(new)
        PROVE  new[i].listed \/ new[i].frame = frames \/ reformatted
    <3>1. env \in Seq(Variables)
      BY DEF IInv, TypeOK
    <3>2. \/ i \in 1 .. Len(env) /\ new[i] = env[i]
          \/ new[i] = [frame |-> frames, listed |-> FALSE]
      BY <3>1
    <3> QED BY <2>2, <3>2 DEF Shown
  <2>8. \A i \in 1 .. Len(env') : env'[i].listed \/ env'[i].frame = frames' \/ reformatted'
    BY <2>1, <2>2, <2>5, <2>7 DEF Shown
  <2> QED BY <2>2, <2>6, <2>8 DEF Shown
<1>9. ASSUME HandleVariables PROVE InspectInv'
  <2>1. UNCHANGED <<threadsAsked, trace, frames, reformatted, at, co, depth>> /\ prog' = "stopped"
    BY <1>9 DEF HandleVariables, Handling
  <2>2. env \in Seq(Variables)
    BY DEF IInv, TypeOK
  <2> SUFFICES ASSUME threadsAsked PROVE Shown'
    BY <2>1 DEF InspectInv
  <2>3. Shown /\ Here' = Here
    BY <2>1 DEF InspectInv, Here
  <2>4. ASSUME NEW i \in 1 .. Len(env')
        PROVE  env'[i].listed \/ env'[i].frame = frames \/ reformatted
    <3>1. CASE doing.arg \in DOMAIN env
      <4> DEFINE read == [env[doing.arg] EXCEPT !.listed = TRUE]
      <4>1. env' = [env EXCEPT ![doing.arg] = read]
        BY <1>9, <3>1 DEF HandleVariables
      <4>2. doing.arg \in 1 .. Len(env) /\ env[doing.arg] \in Variables
        BY <2>2, <3>1
      <4>3. read.listed
        BY <4>2 DEF Variables
      <4> HIDE DEF read
      <4>4. i \in 1 .. Len(env) /\ env'[i] = IF i = doing.arg THEN read ELSE env[i]
        BY <2>2, <4>1, <4>2
      <4> QED BY <2>3, <4>3, <4>4 DEF Shown
    <3>2. CASE doing.arg \notin DOMAIN env
      BY <1>9, <2>3, <3>2 DEF HandleVariables, Shown
    <3> QED BY <3>1, <3>2
  <2> QED BY <2>1, <2>3, <2>4 DEF Shown
<1>10. ASSUME UNCHANGED vars PROVE InspectInv'
  BY <1>10, ShownKept DEF vars
<1> QED BY <1>1, <1>2, <1>3, <1>4, <1>5, <1>6, <1>7, <1>8, <1>9, <1>10 DEF Next, Debug

(* A client that asks for the threads at a stop is shown the stack of this  *)
(* stop and variables of frames that are there (need_stack_trace,           *)
(* Environment_reset): the cache never outlives the stop.                   *)
THEOREM InspectionHolds == Spec => []Inspection
<1>1. Init => InspectInv
  BY DEF Init, InspectInv
<1>2. IInv /\ InspectInv /\ [Next]_vars => InspectInv'
  BY InspectStep
<1>3. IInv /\ InspectInv => Inspection
  <2>1. IInv => DOMAIN env = 1 .. Len(env)
    BY DEF IInv, TypeOK
  <2> QED BY <2>1 DEF InspectInv, Shown, Inspection
<1> QED BY <1>1, <1>2, <1>3, AdapterInvariant, PTL DEF Spec
=============================================================================
