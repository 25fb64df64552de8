---------------------------- MODULE DebugAdapter ----------------------------
(***************************************************************************)
(* The debug adapter, debug/debug-adapter.c: the communication thread      *)
(* reads requests of the client; the program thread runs the program,      *)
(* stops at safepoints, and handles delayed requests while it is stopped.  *)
(* They share the run mode, the instructions at the safepoints, the list   *)
(* of breakpoints and the queue of delayed requests.  Only the safepoints  *)
(* and the queue have locks; the run mode has none.                        *)
(*                                                                         *)
(* A safepoint is an INT3 or a NOP instruction.  The addresses of one      *)
(* entry of the table are always written together and are one here.        *)
(* Requests that read no state of the program (initialize, source,         *)
(* setExceptionBreakpoints) are left out.  A stack trace is one frame, and *)
(* a frame has one variable, its locals.                                   *)
(***************************************************************************)
EXTENDS Integers, Sequences, FiniteSets

CONSTANTS
  Files, Entries,      \* of the safepoint table
  FileOf,              \* the file of each entry
  Coroutines,
  MaxDepth,            \* bound on the depth of the stack of a coroutine
  Clients,             \* what a client sends: kinds of requests, and a bound on their number
  None

Resumes == {"continue", "stepIn", "stepOut", "next"}
Inspects == {"threads", "stackTrace", "scopes", "variables"}
Delayed == Resumes \cup Inspects \cup {"disconnect"}

ASSUME TableAssumption == FileOf \in [Entries -> Files] /\ None \notin Files \cup Entries \cup Coroutines
ASSUME DepthAssumption == MaxDepth \in Nat
ASSUME ClientsAssumption ==
  Clients \subseteq [kinds : SUBSET (Delayed \cup {"launch", "pause", "setBreakpoints"}), requests : Nat]

VARIABLES
  runMode, allEnabled,         \* run_mode, all_sefapoints_enabled
  loaded,                      \* app_safepoint_table and app_coroutine_refs are set
  int3,                        \* the entries whose instruction is INT3
  active,                      \* those in the list active_file_safepoints
  queue,                       \* request_queue
  comm, file, found,           \* communication thread; arguments of setBreakpoints
  prog, doing, hit,            \* program thread, request in hand, breakpoint
  at, co, depth, closed,       \* where the program is, closed coroutines
  stepping,                    \* stepping_coroutine, _stack_depth, _position
  traceAvailable,              \* stack_trace_available
  trace, format, frames,       \* current_stack_trace, its format, how often it was reset
  env,                         \* current_env, its variables for locals
  client, sent,                \* the client, the number of requests received
  known,                       \* the frame and the variable it was last told of
  asked,                       \* ghost: a request that may end the stop was received
  blanked,                     \* ghost: entries without INT3 though all are enabled
  threadsAsked,                \* ghost: a threads request was handled in this stop
  reformatted                  \* ghost: variables are older than the last change of format

safepoints == <<allEnabled, loaded, int3, active, blanked>>
commvars   == <<comm, file, found, client, sent>>
position   == <<at, co, depth, closed>>
traces     == <<traceAvailable, trace, format, frames, env, known, threadsAsked, reformatted>>
progvars   == <<prog, doing, hit, position, stepping, traces>>
vars == <<runMode, safepoints, queue, commvars, progvars, asked>>

Init ==
  /\ runMode = "unknown" /\ allEnabled = FALSE /\ loaded = FALSE
  /\ int3 = {} /\ active = {} /\ queue = << >>
  /\ comm = "next" /\ file = None /\ found = {}
  /\ prog = "none" /\ doing = None /\ hit = FALSE
  /\ at = None /\ co = None /\ depth = [c \in Coroutines |-> 0] /\ closed = {}
  /\ stepping = None
  /\ traceAvailable = FALSE /\ trace = None /\ format = 0 /\ frames = 0 /\ env = << >>
  /\ client \in Clients /\ sent = 0 /\ known = [frame |-> 0, variable |-> 0]
  /\ asked = FALSE /\ blanked = {} /\ threadsAsked = FALSE /\ reformatted = FALSE
-----------------------------------------------------------------------------
(* The safepoints, under safepoint_lock: only setBreakpoints holds it for   *)
(* several steps, for a file.                                               *)
LockFree == file = None

EnableAll ==
  IF allEnabled THEN UNCHANGED safepoints
  ELSE /\ int3' = IF loaded THEN Entries ELSE int3
       /\ allEnabled' = TRUE
       /\ blanked' = IF loaded THEN {} ELSE Entries
       /\ UNCHANGED <<loaded, active>>

NotRestored(S) == {}          \* mutated: ActiveFileSafepoints_restore is not called
Restored(S) == S

DisableAll ==
  IF ~allEnabled THEN UNCHANGED safepoints
  ELSE /\ int3' = Restored(active)
       /\ allEnabled' = FALSE
       /\ blanked' = {}
       /\ UNCHANGED <<loaded, active>>
-----------------------------------------------------------------------------
(* The communication thread.  It tests the run mode before each packet.     *)
NextPacket ==
  /\ comm = "next"
  /\ comm' = IF runMode = "terminated" THEN "ending" ELSE "read"
  /\ UNCHANGED <<runMode, safepoints, queue, file, found, client, sent, progvars, asked>>

(* A packet: its handler is entered.                                        *)
Read(kind) ==
  /\ comm = "read" /\ sent < client.requests
  /\ kind \in client.kinds
  /\ sent' = sent + 1 /\ UNCHANGED client

(* The client may close the connection; main returns after a second.        *)
EndOfFile ==
  /\ comm = "read"
  /\ comm' = "ending"
  /\ UNCHANGED <<runMode, safepoints, queue, file, found, client, sent, progvars, asked>>

Exit ==
  /\ comm = "ending"
  /\ comm' = "ended" /\ prog' = "dead"
  /\ UNCHANGED <<runMode, safepoints, queue, file, found, client, sent, doing, hit, position,
                 stepping, traces, asked>>

(* A client launches once.                                                  *)
Launch ==
  /\ Read("launch")
  /\ prog = "none"
  /\ prog' = "loading"
  /\ comm' = "next"
  /\ UNCHANGED <<runMode, safepoints, queue, file, found, doing, hit, position,
                 stepping, traces, asked>>

(* insert_to_request_queue: a terminated program is not asked any more.  A  *)
(* client names the frame or the variable that it was told of.              *)
ArgumentsOf(kind) ==
  CASE kind = "stackTrace" -> {0, 1}
    [] kind = "scopes"     -> {known.frame} \ {0}
    [] kind = "variables"  -> {known.variable} \ {0}
    [] OTHER               -> {0}

InsertRequest(kind) ==
  /\ Read(kind)
  /\ \E arg \in ArgumentsOf(kind) :
     IF runMode = "terminated" THEN UNCHANGED <<queue, asked>>
     ELSE /\ queue' = Append(queue, [kind |-> kind, arg |-> arg])
          /\ asked' = (asked \/ kind \in Resumes \cup {"disconnect"})
  /\ comm' = "next"
  /\ UNCHANGED <<runMode, safepoints, file, found, progvars>>

(* request_pause reads the run mode, writes it, and then tells the client   *)
(* or enables the safepoints.  Clients do not pause what they did not       *)
(* launch.                                                                  *)
Pause ==
  /\ Read("pause")
  /\ prog # "none"
  /\ comm' = IF runMode = "paused" THEN "stop" ELSE "run"
  /\ asked' = TRUE
  /\ UNCHANGED <<runMode, safepoints, queue, file, found, progvars>>

PauseStopped ==
  /\ comm = "stop"
  /\ runMode' = "paused"
  /\ comm' = "next"
  /\ UNCHANGED <<safepoints, queue, file, found, client, sent, progvars, asked>>

PauseRunning ==
  /\ comm = "run"
  /\ runMode' = "running"
  /\ comm' = "enable"
  /\ UNCHANGED <<safepoints, queue, file, found, client, sent, progvars, asked>>

PauseEnable ==
  /\ comm = "enable" /\ LockFree
  /\ EnableAll
  /\ comm' = "next"
  /\ UNCHANGED <<runMode, queue, file, found, client, sent, progvars, asked>>

(* request_setBreakpoints for a file of the table, with the lock: the list  *)
(* and the instructions are cleared, instructions written, the list made.   *)
InFile(f) == {e \in Entries : FileOf[e] = f}

SetBreakpoints(f, S) ==
  /\ Read("setBreakpoints")
  /\ S \subseteq InFile(f)
  /\ IF loaded
     THEN /\ LockFree
          /\ active' = active \ InFile(f)
          /\ int3' = int3 \ InFile(f)
          /\ blanked' = IF allEnabled THEN blanked \cup InFile(f) ELSE blanked
          /\ file' = f /\ found' = S /\ comm' = "write"
     ELSE comm' = "next" /\ UNCHANGED <<active, int3, blanked, file, found>>
  /\ UNCHANGED <<runMode, allEnabled, loaded, queue, progvars, asked>>

WriteBreakpoints ==
  /\ comm = "write"
  /\ int3' = int3 \cup IF allEnabled THEN {} ELSE found
  /\ comm' = "create"
  /\ UNCHANGED <<runMode, allEnabled, loaded, active, blanked, queue, file, found, client, sent,
                 progvars, asked>>

StillLocked(f) == f           \* mutated: the lock is not released
Unlocked(f) == None

CreateList ==
  /\ comm = "create"
  /\ active' = active \cup found
  /\ file' = Unlocked(file) /\ found' = {}
  /\ comm' = "next"
  /\ UNCHANGED <<runMode, allEnabled, loaded, int3, blanked, queue, client, sent, progvars, asked>>

Communication ==
  \/ NextPacket \/ EndOfFile \/ Exit \/ Launch \/ Pause
  \/ PauseStopped \/ PauseRunning \/ PauseEnable
  \/ \E kind \in Delayed : InsertRequest(kind)
  \/ \E f \in Files : \E S \in SUBSET Entries : SetBreakpoints(f, S)
  \/ WriteBreakpoints \/ CreateList
-----------------------------------------------------------------------------
(* The program thread.  Once loaded the program stops at its entry.         *)
Load ==
  /\ prog = "loading"
  /\ loaded' = TRUE
  /\ prog' = "stopping"
  /\ UNCHANGED <<runMode, allEnabled, int3, active, blanked, queue, commvars, doing, hit,
                 position, stepping, traces, asked>>

(* The program runs to the next safepoint, in its coroutine or, where it    *)
(* was left, in another one that is open.  A NOP does not stop it.          *)
Arrive(e, c, d) ==
  /\ prog = "running"
  /\ c \in Coroutines \ closed
  /\ d \in 0 .. MaxDepth /\ d - depth[c] \in {-1, 0, 1}
  /\ at' = e /\ co' = c /\ depth' = [depth EXCEPT ![c] = d]
  /\ prog' = IF e \in int3 THEN "trapped" ELSE "running"
  /\ UNCHANGED <<runMode, safepoints, queue, commvars, doing, hit, closed, stepping,
                 traces, asked>>

Close(c) ==
  /\ prog = "running"
  /\ co # None /\ c # co /\ c \notin closed
  /\ closed' = closed \cup {c}
  /\ UNCHANGED <<runMode, safepoints, queue, commvars, prog, doing, hit, at, co, depth,
                 stepping, traces, asked>>

(* ActiveFileSafepoints_find_entry, without the lock.                       *)
FindBreakpoint ==
  /\ prog = "trapped"
  /\ hit' = (at \in active)
  /\ prog' = "decide"
  /\ UNCHANGED <<runMode, safepoints, queue, commvars, doing, position, stepping,
                 traces, asked>>

(* A step over or out of a call goes on inside of what it steps over; a     *)
(* step over also at the place where it began.                              *)
DeeperOrSame(m, n) == m >= n       \* mutated: a step out ends where a step over does
Deeper(m, n) == m > n

GoesOn ==
  /\ runMode \in {"stepOut", "next"}
  /\ stepping # None
  /\ stepping.co \notin closed
  /\ \/ stepping.co # co
     \/ Deeper(depth[co], stepping.depth)
     \/ depth[co] = stepping.depth /\ (runMode = "stepOut" \/ at = stepping.entry)

Decide ==
  /\ prog = "decide"
  /\ IF ~hit /\ GoesOn
     THEN prog' = "running" /\ UNCHANGED stepping
     ELSE prog' = "stopping" /\ stepping' = None
  /\ hit' = FALSE
  /\ UNCHANGED <<runMode, safepoints, queue, commvars, doing, position, traces, asked>>

(* send_thread_stopped sets the run mode; next_debug_event follows.         *)
NotPaused(m) == m             \* mutated: the run mode is left as it is
StoppedMode(m) == "paused"

Stop ==
  /\ prog = "stopping"
  /\ runMode' = StoppedMode(runMode)
  /\ prog' = "stopped"
  /\ UNCHANGED <<safepoints, queue, commvars, doing, hit, position, stepping, traces, asked>>

(* handle_pending_debug_requests takes requests until there are none.       *)
Take ==
  /\ prog = "stopped"
  /\ queue # << >>
  /\ doing' = Head(queue)
  /\ queue' = Tail(queue)
  /\ prog' = "handle"
  /\ UNCHANGED <<runMode, safepoints, commvars, hit, position, stepping, traces, asked>>

Handling(kinds) ==
  /\ prog = "handle"
  /\ doing.kind \in kinds
  /\ prog' = "stopped" /\ doing' = None

(* The handlers of the requests that let the program go on: they write the  *)
(* safepoints, and then the run mode.                                       *)
Here == IF co = None THEN None ELSE [co |-> co, depth |-> depth[co], entry |-> at]

HandleResume ==
  /\ prog = "handle" /\ doing.kind \in Resumes
  /\ LockFree
  /\ IF doing.kind = "continue" THEN DisableAll ELSE EnableAll
  /\ prog' = "resume"
  /\ UNCHANGED <<runMode, queue, commvars, doing, hit, position, stepping, traces, asked>>

Resume ==
  /\ prog = "resume"
  /\ prog' = "stopped" /\ doing' = None
  /\ runMode' = IF doing.kind = "continue" THEN "running" ELSE doing.kind
  /\ stepping' = IF doing.kind \in {"next", "stepOut"} /\ co # None THEN Here ELSE stepping
  /\ traceAvailable' = TRUE
  /\ UNCHANGED <<safepoints, queue, commvars, hit, position, trace, format, frames, env, known,
                 threadsAsked, reformatted, asked>>

(* send_terminated.  The program is not ended.                              *)
HandleDisconnect ==
  /\ Handling({"disconnect"})
  /\ runMode' = "terminated"
  /\ UNCHANGED <<safepoints, queue, commvars, hit, position, stepping, traces, asked>>

(* Environment_reset forgets variables and frames.                          *)
KeptVariables == env          \* mutated: a reset leaves the variables
NoVariables == << >>

HandleThreads ==
  /\ Handling({"threads"})
  /\ env' = NoVariables
  /\ trace' = None /\ frames' = frames + 1
  /\ threadsAsked' = TRUE /\ reformatted' = FALSE
  /\ UNCHANGED <<runMode, safepoints, queue, commvars, hit, position, stepping,
                 traceAvailable, format, known, asked>>

(* need_stack_trace: one that is there is used again.  It is read from the  *)
(* virtual machine even if, at its entry, the program has none yet.         *)
Needed(t) ==
  IF t = None /\ traceAvailable /\ runMode # "terminated"
  THEN [at |-> Here, scopes |-> 0] ELSE t

HandleStackTrace ==
  /\ Handling({"stackTrace"})
  /\ format' = doing.arg
  /\ frames' = IF format' # format THEN frames + 1 ELSE frames
  /\ reformatted' = (reformatted \/ (format' # format /\ env # << >>))
  /\ trace' = Needed(IF format' # format THEN None ELSE trace)
  /\ known' = IF trace' = None THEN known ELSE [known EXCEPT !.frame = frames']
  /\ UNCHANGED <<runMode, safepoints, queue, commvars, hit, position, stepping,
                 traceAvailable, env, threadsAsked, asked>>

(* A frame is named by its address.  That of an earlier stack trace is      *)
(* accepted if the memory was given out again.                              *)
HandleScopes(reused) ==
  /\ Handling({"scopes"})
  /\ LET t == Needed(trace) IN
     IF t # None /\ (doing.arg = frames \/ reused)
     THEN /\ env' = IF t.scopes = 0 THEN Append(env, [frame |-> frames, listed |-> FALSE]) ELSE env
          /\ trace' = IF t.scopes = 0 THEN [t EXCEPT !.scopes = Len(env')] ELSE t
          /\ known' = [known EXCEPT !.variable = trace'.scopes]
     ELSE trace' = t /\ UNCHANGED <<env, known>>
  /\ UNCHANGED <<runMode, safepoints, queue, commvars, hit, position, stepping,
                 traceAvailable, format, frames, threadsAsked, reformatted, asked>>

(* The locals of a frame are read when they are asked for first.            *)
HandleVariables ==
  /\ Handling({"variables"})
  /\ env' = IF doing.arg \in DOMAIN env THEN [env EXCEPT ![doing.arg].listed = TRUE] ELSE env
  /\ UNCHANGED <<runMode, safepoints, queue, commvars, hit, position, stepping,
                 traceAvailable, trace, format, frames, known, threadsAsked, reformatted, asked>>

(* The queue was found empty: the program waits, or goes on.  Requests      *)
(* received meanwhile wait for the next time.                               *)
MayEndStop == comm \in {"stop", "run"} \/ \E i \in DOMAIN queue : queue[i].kind \notin Inspects

FoundEmpty ==
  /\ prog = "stopped"
  /\ queue = << >>
  /\ prog' = "test"
  /\ UNCHANGED <<runMode, safepoints, queue, commvars, doing, hit, position, stepping, traces, asked>>

Wait ==
  /\ prog = "test"
  /\ runMode = "paused"
  /\ prog' = "stopped"
  /\ UNCHANGED <<runMode, safepoints, queue, commvars, doing, hit, position, stepping, traces, asked>>

Leave ==
  /\ prog = "test"
  /\ runMode # "paused"
  /\ prog' = "running"
  /\ asked' = MayEndStop /\ threadsAsked' = FALSE
  /\ UNCHANGED <<runMode, safepoints, queue, commvars, doing, hit, position, stepping,
                 traceAvailable, trace, format, frames, env, known, reformatted>>

(* stanza_main returns: send_process_exited.                                *)
Return ==
  /\ prog = "running"
  /\ prog' = "ended"
  /\ runMode' = "terminated"
  /\ UNCHANGED <<safepoints, queue, commvars, doing, hit, position, stepping, traces, asked>>

(* Steps between two stops, and those of a stop.                            *)
Run == Return \/ \E e \in Entries, c \in Coroutines, d \in 0 .. MaxDepth : Arrive(e, c, d)
Debug ==
  \/ Load \/ FindBreakpoint \/ Decide \/ Stop
  \/ Take \/ HandleResume \/ Resume \/ HandleDisconnect \/ HandleThreads \/ HandleStackTrace
  \/ \E reused \in BOOLEAN : HandleScopes(reused)
  \/ HandleVariables \/ FoundEmpty \/ Wait \/ Leave

Next ==
  \/ Communication
  \/ Run \/ Debug
  \/ \E c \in Coroutines : Close(c)

(* Both threads are scheduled; the program need not run to an end, and the  *)
(* client need not send anything.                                           *)
CommunicationSteps ==
  NextPacket \/ Exit \/ PauseStopped \/ PauseRunning \/ PauseEnable \/ WriteBreakpoints \/ CreateList

Spec == Init /\ [][Next]_vars /\ WF_vars(CommunicationSteps) /\ WF_vars(Debug)
-----------------------------------------------------------------------------
Messages == [kind : Delayed, arg : Nat]
Positions == [co : Coroutines, depth : 0 .. MaxDepth, entry : Entries]
Traces == [at : Positions \cup {None}, scopes : Nat]
Variables == [frame : Nat, listed : BOOLEAN]

TypeOK ==
  /\ runMode \in {"unknown", "running", "paused", "terminated", "stepIn", "stepOut", "next"}
  /\ allEnabled \in BOOLEAN /\ loaded \in BOOLEAN
  /\ int3 \subseteq Entries /\ active \subseteq Entries /\ blanked \subseteq Entries
  /\ queue \in Seq(Messages)
  /\ comm \in {"next", "read", "stop", "run", "enable", "write", "create", "ending", "ended"}
  /\ file \in Files \cup {None} /\ found \subseteq Entries
  /\ prog \in {"none", "loading", "stopping", "stopped", "running", "trapped", "decide",
               "handle", "resume", "test", "ended", "dead"}
  /\ doing \in Messages \cup {None} /\ hit \in BOOLEAN
  /\ at \in Entries \cup {None} /\ co \in Coroutines \cup {None}
  /\ depth \in [Coroutines -> 0 .. MaxDepth] /\ closed \subseteq Coroutines
  /\ stepping \in Positions \cup {None}
  /\ trace \in Traces \cup {None} /\ format \in Nat /\ frames \in Nat
  /\ env \in Seq(Variables) /\ known \in [frame : Nat, variable : Nat]
  /\ traceAvailable \in BOOLEAN /\ threadsAsked \in BOOLEAN /\ asked \in BOOLEAN /\ reformatted \in BOOLEAN
  /\ client \in Clients /\ sent \in 0 .. client.requests

(* While the lock is free the instructions are what the breakpoints and     *)
(* all_sefapoints_enabled say: INT3 exactly at the breakpoints, or          *)
(* everywhere but where they were cleared since.                            *)
Armed ==
  LockFree /\ loaded => int3 = IF allEnabled THEN Entries \ blanked ELSE active

(* The types of the state, and the instructions in step with it.            *)
WellFormed == TypeOK /\ Armed

(* A stopped program goes on only when a resume, a disconnect or a pause    *)
(* request was received since it last ran: "stopped" can be relied on       *)
(* unless the client itself asked for something else.                       *)
StopHolds == [][prog = "test" /\ prog' = "running" => asked]_vars

(* Where the client wants the program to stop: at breakpoints; at the next  *)
(* safepoint after a pause or a step in; after a step over at the next      *)
(* place of the caller's frame or outside of it; after a step out, outside. *)
Due(b) ==
  \/ b
  \/ runMode = "stepIn"
  \/ runMode = "running" /\ allEnabled
  \/ /\ runMode \in {"next", "stepOut"}
     /\ stepping # None => \/ stepping.co \in closed
                           \/ /\ stepping.co = co
                              /\ \/ depth[co] < stepping.depth
                                 \/ runMode = "next" /\ depth[co] = stepping.depth /\ at # stepping.entry

(* It passes no such safepoint, whether it meets a NOP or decides to go on, *)
(* unless the breakpoints of the file are being changed or were changed     *)
(* while all were enabled.                                                  *)
StopsWhereDue ==
  [][/\ prog = "running" /\ prog' = "running" /\ position' # position /\ closed' = closed
          => ~Due(at \in active)' \/ at' \in blanked \/ ~LockFree
     /\ prog = "decide" /\ prog' = "running" => ~Due(hit)]_vars

(* A client that asks for the threads at a stop is shown the stack of this  *)
(* stop, not a cached one; and variables whose value is still to be read    *)
(* belong to frames that are still there, unless the format was changed.    *)
Inspection ==
  prog \in {"stopped", "handle", "resume", "test"} /\ threadsAsked =>
    /\ trace # None => trace.at = Here
    /\ \A i \in DOMAIN env : env[i].listed \/ env[i].frame = frames \/ reformatted

(* Requests that are received while the program is stopped are all handled, *)
(* unless something ends the stop before.                                   *)
InStop == prog \in {"stopping", "stopped", "handle", "resume", "test"}
Pending == queue # << >> \/ doing # None
Answered == InStop /\ Pending ~> ~Pending \/ ~InStop
=============================================================================
