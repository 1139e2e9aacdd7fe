----------------------------- MODULE DapServer -----------------------------
(***************************************************************************)
(* The debug adapter of src/src/debug/DapServer.cpp over a DebugSession.   *)
(* The reader thread takes one request at a time; for a request that lets  *)
(* the program run it starts a monitor thread that waits for the next stop *)
(* and sends the event.  There is one monitor at a time: the reader joins  *)
(* the previous one before it starts another.  With the worker of the      *)
(* session three threads run; the client is the fourth party.              *)
(*                                                                         *)
(* The client is a well-behaved one: it launches once, resumes only after  *)
(* a stopped event, pauses only what it believes to be running, and waits  *)
(* for the response to a request before it sends the next.                 *)
(***************************************************************************)
EXTENDS DebugSession

CONSTANTS
    Reader, Monitor,    \* the two threads of the adapter: Clients is both
    LineSets            \* the sets of lines a client sets breakpoints on

ASSUME AdapterAssumption ==
    /\ Clients = {Reader, Monitor} /\ Reader # Monitor
    /\ LineSets \subseteq SUBSET Nat

Asynchronous == {"launch", "pause"} \cup ResumeModes
Terminal == {"disconnect", "eof"}
Requests == Asynchronous \cup Terminal \cup {"setBreakpoints"}

VARIABLES
    request,    \* what the client has sent and the reader has not read
    command,    \* the request being handled
    rpc,        \* where the reader is
    monitor,    \* where the monitor is; "none" when it has been joined
    suppress,   \* suppressMonitor
    told,       \* what the last message made the client believe
    aborted     \* the process has been ended by an undefined double join

readerVars == <<command, rpc>>
clientVars == <<request, told>>
vars == <<sessionVars, readerVars, monitor, suppress, clientVars, aborted>>

AdapterTypeOK ==
    /\ TypeOK
    /\ request \in Requests \cup {"none"} /\ command \in Requests \cup {"none"}
    /\ rpc \in {"read", "handle", "join", "joined", "respond", "monitor", "exit"}
    /\ monitor \in {"none", "start", "waiting", "stopped", "ended", "emit",
                    "join", "joined", "exit"}
    /\ suppress \in BOOLEAN /\ aborted \in BOOLEAN
    /\ told \in {"nothing", "running", "stopped", "terminated"}

AdapterInit ==
    /\ Init
    /\ request = "none" /\ command = "none" /\ rpc = "read"
    /\ monitor = "none" /\ suppress = FALSE /\ told = "nothing"
    /\ aborted = FALSE

-----------------------------------------------------------------------------
(* The client.                                                             *)

Sensible ==
    Terminal \cup {"setBreakpoints"}
        \cup CASE told = "nothing" -> {"launch"}
               [] told = "running" -> {"pause"}
               [] told = "stopped" -> ResumeModes
               [] told = "terminated" -> {}

Send ==
    /\ ~aborted /\ rpc \in {"read", "monitor"} /\ request = "none"
    /\ request' \in Sensible
    /\ UNCHANGED <<sessionVars, readerVars, monitor, suppress, told, aborted>>

-----------------------------------------------------------------------------
(* The reader.                                                             *)

Read ==
    /\ rpc = "read" /\ request # "none"
    /\ command' = request /\ request' = "none" /\ rpc' = "handle"
    /\ suppress' = (suppress \/ request \in Terminal)
    /\ UNCHANGED <<sessionVars, monitor, told, aborted>>

Handle ==
    /\ rpc = "handle"
    /\ \/ command = "launch" /\ \E stopOnEntry \in BOOLEAN : Launch(stopOnEntry)
       \/ command \in ResumeModes /\ Resume(Reader, command)
       \/ command = "pause" /\ Pause(Reader)
       \/ command = "setBreakpoints" /\ \E lines \in LineSets : SetBreakpoints(lines)
       \/ command \in Terminal /\ Terminate(Reader)
    /\ rpc' = IF command \in Terminal THEN "join" ELSE "respond"
    /\ UNCHANGED <<command, monitor, suppress, clientVars, aborted>>

\* disconnect, and the end of the input: the worker is joined, then the monitor.
JoinSession ==
    /\ rpc = "join" /\ Join(Reader)
    /\ rpc' = "joined"
    /\ UNCHANGED <<command, monitor, suppress, clientVars, aborted>>

MonitorGone == monitor \in {"none", "exit"}

JoinMonitor ==
    /\ rpc = "joined" /\ at[Reader] = "idle" /\ MonitorGone
    /\ monitor' = "none" /\ rpc' = "respond"
    /\ UNCHANGED <<sessionVars, command, suppress, clientVars, aborted>>

Respond ==
    /\ rpc = "respond" /\ at[Reader] = "idle"
    /\ told' = CASE command \in ResumeModes \cup {"launch"} -> "running"
                 [] command \in Terminal -> "terminated"
                 [] OTHER -> told
    /\ rpc' = CASE command \in Asynchronous -> "monitor"
                [] command \in Terminal -> "exit"
                [] OTHER -> "read"
    /\ command' = "none"
    /\ UNCHANGED <<sessionVars, monitor, suppress, request, aborted>>

\* startMonitor(): joins the previous monitor first, so the reader reads
\* nothing until that one has had its stop.
StartMonitor ==
    /\ rpc = "monitor" /\ MonitorGone
    /\ suppress' = FALSE /\ monitor' = "start" /\ rpc' = "read"
    /\ UNCHANGED <<sessionVars, command, clientVars, aborted>>

adapterVars == <<readerVars, monitor, suppress, clientVars, aborted>>

ReaderStep ==
    /\ ~aborted
    /\ \/ Read \/ Handle \/ JoinSession \/ JoinMonitor \/ Respond \/ StartMonitor
       \/ ClientStep(Reader) /\ UNCHANGED adapterVars

-----------------------------------------------------------------------------
(* The monitor.                                                            *)

Answered == IF ~Ready THEN "waiting" ELSE IF paused THEN "stopped" ELSE "ended"

MonitorWaits ==
    /\ \/ monitor = "start" /\ WaitForStop(Monitor)
       \/ monitor = "waiting" /\ WakeWaiter(Monitor)
    /\ monitor' = Answered
    /\ UNCHANGED <<readerVars, suppress, clientVars, aborted>>

MonitorChecks ==
    /\ monitor \in {"stopped", "ended"}
    /\ monitor' = CASE suppress -> "exit"
                    [] ~suppress /\ monitor = "stopped" -> "emit"
                    [] ~suppress /\ monitor = "ended" -> "join"
    /\ UNCHANGED <<sessionVars, readerVars, suppress, clientVars, aborted>>

MonitorJoins ==
    /\ monitor = "join" /\ Join(Monitor)
    /\ monitor' = "joined"
    /\ UNCHANGED <<readerVars, suppress, clientVars, aborted>>

Emit ==
    /\ \/ monitor = "emit" /\ told' = "stopped"
       \/ monitor = "joined" /\ at[Monitor] = "idle" /\ told' = "terminated"
    /\ monitor' = "exit"
    /\ UNCHANGED <<sessionVars, readerVars, suppress, request, aborted>>

MonitorStep ==
    /\ ~aborted
    /\ \/ MonitorWaits \/ MonitorChecks \/ MonitorJoins \/ Emit
       \/ monitor # "waiting" /\ ClientStep(Monitor) /\ UNCHANGED adapterVars

-----------------------------------------------------------------------------
\* Two threads inside std::thread::join() of the same thread: undefined; the
\* builds either let both return or throw out of one of them.
DoubleJoin ==
    /\ ~aborted /\ \A t \in Clients : at[t] = "joining"
    /\ aborted' = TRUE
    /\ UNCHANGED <<sessionVars, readerVars, monitor, suppress, clientVars>>

Ended == rpc = "exit" \/ aborted

SessionStep == ~aborted /\ WorkerStep /\ UNCHANGED adapterVars

Next ==
    \/ Send \/ ReaderStep \/ MonitorStep \/ DoubleJoin \/ SessionStep
    \/ ~aborted /\ SpuriousWakeup /\ UNCHANGED adapterVars
    \/ Ended /\ UNCHANGED vars

\* Every thread of the process is scheduled; the client need not send anything.
Spec ==
    /\ AdapterInit /\ [][Next]_vars
    /\ WF_vars(ReaderStep) /\ WF_vars(MonitorStep) /\ WF_vars(SessionStep)

-----------------------------------------------------------------------------
(* Properties.                                                             *)

\* StopShown: a stop becomes visible to the client without a further request
\* (docs/en/DEBUGGING_TOOLING_AND_HOT_RELOAD.md), unless it ends first.
StopShown == paused ~> (told = "stopped" \/ ~paused \/ aborted)

\* DisconnectAnswered: a disconnect or an end of the input that has been read
\* ends the adapter: neither join waits for a thread that waits for the reader.
DisconnectAnswered ==
    (rpc = "handle" /\ command \in Terminal) ~> (rpc = "exit" \/ aborted)

\* ClientServed: the two promises to the client.
ClientServed == StopShown /\ DisconnectAnswered

=============================================================================
