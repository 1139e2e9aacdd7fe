------------------------- MODULE DebugSessionProofs -------------------------
(***************************************************************************)
(* What DebugSession promises its clients, proved for any set of client    *)
(* threads, any program and any call depth, and the adapter of DapServer   *)
(* as one such set of clients.                                             *)
(***************************************************************************)
EXTENDS DapServer, TLAPS

AtStates == {"idle", "terminating", "notifying", "waiting", "joining"}

Flags ==
    /\ paused \in BOOLEAN /\ finished \in BOOLEAN /\ launched \in BOOLEAN
    /\ terminateRequested \in BOOLEAN /\ pauseRequested \in BOOLEAN
    /\ resumePending \in BOOLEAN
    /\ at \in [Clients -> AtStates]

\* A stop on show is that of a parked worker nobody has resumed or terminated.
Frozen ==
    paused => /\ wpc = "wait" /\ currentStop = stack
              /\ ~resumePending /\ ~finished /\ ~terminateRequested

\* The flags follow the worker.
Phases ==
    /\ finished => wpc \in {"finish", "done"}
    /\ ~launched => wpc = "none" /\ ~terminateRequested

\* A terminate() that has returned has left a pause the worker will meet, or the
\* worker is already where it must look at the flag.
Armed ==
    terminateRequested /\ (\A t \in Clients : at[t] # "terminating") =>
        \/ pauseRequested
        \/ wpc \in {"stop", "wait", "end", "finish", "done"}
        \/ wpc = "go" /\ answer = "Terminate"

AskedHere == asked.depth = Len(stack) /\ asked.location = Top(stack)

\* The last resume travels from the session through the answer of the handler
\* to the controller, and the frames it refers to with it.
Obeyed ==
    /\ wpc \in {"none", "run", "point"} =>
          /\ mode = asked.mode
          /\ mode # "Continue" =>
                stepDepth = asked.depth /\ lastLocation = asked.location
    /\ wpc = "stop" /\ reason = "Step" => AskedFor(stack)
    /\ wpc = "wait" /\ ~paused /\ ~terminateRequested =>
          pendingMode = asked.mode /\ AskedHere
    /\ wpc = "go" /\ answer # "Terminate" => answer = asked.mode /\ AskedHere

SessionInv == Flags /\ Frozen /\ Phases /\ Armed /\ Obeyed

-----------------------------------------------------------------------------
\* The session starts with nothing asked for and no thread inside it.
LEMMA InitInv == Init => SessionInv
<1>. SUFFICES ASSUME Init PROVE SessionInv
  OBVIOUS
<1>1. Flags
  BY DEF Init, Flags, AtStates
<1>2. Frozen /\ Phases /\ Armed
  BY DEF Init, Frozen, Phases, Armed
<1>3. Obeyed
  BY DEF Init, Obeyed
<1>. QED
  BY <1>1, <1>2, <1>3 DEF SessionInv

-----------------------------------------------------------------------------
(* One lemma per operation of the clients.                                 *)

\* Steps that change neither the flags the invariant reads nor the threads
\* leave it alone.
LEMMA BreakpointsInv ==
  ASSUME SessionInv, NEW lines, SetBreakpoints(lines)
  PROVE  SessionInv'
BY DEF SessionInv, Flags, Frozen, Phases, Armed, Obeyed, AskedFor, AskedHere,
       SetBreakpoints, requestVars, stateVars, workerVars, threadVars

\* A launch starts the worker at a sequence point with nothing asked for.
LEMMA LaunchInv ==
  ASSUME SessionInv, NEW stopOnEntry \in BOOLEAN, Launch(stopOnEntry)
  PROVE  SessionInv'
<1>. USE DEF Launch, requestVars, threadVars
<1>1. Flags'
  BY DEF SessionInv, Flags
<1>2. wpc = "none" /\ ~terminateRequested /\ ~finished /\ ~paused
  BY DEF SessionInv, Phases, Frozen
<1>3. Frozen' /\ Phases' /\ Armed'
  BY <1>2 DEF Frozen, Phases, Armed
<1>4. Obeyed'
  BY <1>2 DEF SessionInv, Obeyed
<1>. QED
  BY <1>1, <1>3, <1>4 DEF SessionInv

\* What every operation may do to a thread: move it to another place that is
\* not inside terminate(), and then no thread has left it.
SameTerminating ==
    /\ at' \in [Clients -> AtStates]
    /\ \A t \in Clients : at[t] = "terminating" => at'[t] = "terminating"

\* Waiting, joining and notifying only move threads that are not inside
\* terminate().
LEMMA WaitInv ==
  ASSUME SessionInv, NEW t \in Clients,
         WaitForStop(t) \/ WakeWaiter(t) \/ NotifyAll(t) \/ Join(t) \/ Joined(t)
            \/ SpuriousWakeup
  PROVE  SessionInv'
<1>1. SameTerminating
  BY DEF SessionInv, Flags, SameTerminating, AtStates, WaitForStop, WakeWaiter,
         NotifyAll, Join, Joined, SpuriousWakeup, threadVars
<1>2. UNCHANGED <<controllerVars, requestVars, launched, paused, finished,
                  currentStop, workerVars>>
  BY DEF WaitForStop, WakeWaiter, NotifyAll, Join, Joined, SpuriousWakeup, stateVars
<1>3. Flags'
  BY <1>1, <1>2 DEF SessionInv, Flags, SameTerminating, controllerVars, requestVars
<1>4. Frozen' /\ Phases' /\ Obeyed'
  BY <1>2 DEF SessionInv, Frozen, Phases, Obeyed, AskedFor, AskedHere,
              controllerVars, requestVars, workerVars
<1>5. Armed'
  BY <1>1, <1>2 DEF SessionInv, Armed, SameTerminating, controllerVars,
                    requestVars, workerVars
<1>. QED
  BY <1>3, <1>4, <1>5 DEF SessionInv

\* An accepted resume records what the parked worker will read.
LEMMA ResumeInv ==
  ASSUME SessionInv, NEW t \in Clients, NEW m \in ResumeModes, Resume(t, m)
  PROVE  SessionInv'
<1>. USE DEF Resume, controllerVars, workerVars
<1>1. Flags'
  BY DEF SessionInv, Flags, AtStates
<1>2. SameTerminating
  BY DEF SessionInv, Flags, AtStates, SameTerminating
<1>3. Frozen' /\ Phases'
  BY DEF SessionInv, Frozen, Phases
<1>4. Armed'
  BY <1>2 DEF SessionInv, Armed, SameTerminating
<1>5. CASE paused
  <2>1. wpc = "wait" /\ currentStop = stack
    BY <1>5 DEF SessionInv, Frozen
  <2>. QED
    BY <1>1, <1>3, <1>4, <1>5, <2>1 DEF SessionInv, Obeyed, AskedHere, Top
<1>6. CASE ~paused
  BY <1>1, <1>3, <1>4, <1>6 DEF SessionInv, Obeyed, AskedFor, AskedHere
<1>. QED
  BY <1>5, <1>6

\* Pausing can only arm a termination.
LEMMA PauseInv ==
  ASSUME SessionInv, NEW t \in Clients, Pause(t) \/ PauseToTerminate(t)
  PROVE  SessionInv'
<1>. USE DEF Pause, PauseToTerminate, RequestPause, requestVars, stateVars,
             workerVars, threadVars
<1>1. Flags'
  BY DEF SessionInv, Flags, AtStates
<1>2. Frozen' /\ Phases' /\ Armed'
  BY DEF SessionInv, Frozen, Phases, Armed
<1>3. Obeyed'
  BY DEF SessionInv, Obeyed, AskedFor, AskedHere
<1>. QED
  BY <1>1, <1>2, <1>3 DEF SessionInv

\* A termination ends the stop on show.
LEMMA TerminateInv ==
  ASSUME SessionInv, NEW t \in Clients, Terminate(t)
  PROVE  SessionInv'
<1>. USE DEF Terminate, controllerVars, workerVars
<1>1. Flags'
  BY DEF SessionInv, Flags, AtStates
<1>2. Frozen' /\ Phases'
  BY DEF SessionInv, Frozen, Phases
<1>3. Armed'
  BY DEF SessionInv, Armed, Flags
<1>4. Obeyed'
  BY DEF SessionInv, Obeyed, AskedFor, AskedHere
<1>. QED
  BY <1>1, <1>2, <1>3, <1>4 DEF SessionInv

-----------------------------------------------------------------------------
(* One lemma per step of the worker.                                       *)

\* Running the program changes no flag and leaves the worker at a point, between
\* two points, or at its end.
LEMMA ExecuteInv ==
  ASSUME SessionInv, Execute
  PROVE  SessionInv'
<1>1. /\ wpc = "run" /\ wpc' \in {"run", "point", "end"}
      /\ UNCHANGED <<controllerVars, requestVars, stateVars, reason, answer, threadVars>>
  BY DEF Execute, Advance, CallFunction, Return, Fail
<1>. USE <1>1 DEF controllerVars, requestVars, stateVars, threadVars
<1>2. Flags' /\ Phases'
  BY DEF SessionInv, Flags, Phases
<1>3. Frozen'
  BY DEF SessionInv, Frozen
<1>4. Armed'
  BY DEF SessionInv, Armed
<1>5. Obeyed'
  BY DEF SessionInv, Obeyed
<1>. QED
  BY <1>2, <1>3, <1>4, <1>5 DEF SessionInv

\* A step is done in the controller's terms exactly where the client asked for
\* it.
LEMMA StepDoneIsAskedFor ==
  ASSUME SessionInv, wpc = "point"
  PROVE  StepDone <=> AskedFor(stack)
BY DEF SessionInv, Obeyed, StepDone, Moved, AskedFor

\* A sequence point that does not stop the program used up no pause.
LEMMA SequencePointInv ==
  ASSUME SessionInv, SequencePoint
  PROVE  SessionInv'
<1>. USE DEF SequencePoint, requestVars, stateVars, threadVars
<1>1. Flags'
  BY DEF SessionInv, Flags
<1>2. Frozen' /\ Phases'
  BY DEF SessionInv, Frozen, Phases
<1>3. Armed'
  BY DEF SessionInv, Armed, StopReason
<1>4. ASSUME wpc' = "stop", reason' = "Step" PROVE AskedFor(stack)'
  <2>1. StepDone
    BY <1>4 DEF StopReason
  <2>2. AskedFor(stack)
    BY <2>1, StepDoneIsAskedFor
  <2>. QED
    BY <2>2 DEF AskedFor
<1>5. Obeyed'
  BY <1>4 DEF SessionInv, Obeyed
<1>. QED
  BY <1>1, <1>2, <1>3, <1>5 DEF SessionInv

\* The stop is published for the frames the worker is parked with, and only if
\* nobody has asked it to terminate.
LEMMA HandleStopInv ==
  ASSUME SessionInv, HandleStop
  PROVE  SessionInv'
<1>. USE DEF HandleStop, controllerVars
<1>1. Flags'
  BY DEF SessionInv, Flags
<1>2. Frozen' /\ Phases' /\ Armed'
  BY DEF SessionInv, Frozen, Phases, Armed
<1>3. Obeyed'
  BY DEF SessionInv, Obeyed
<1>. QED
  BY <1>1, <1>2, <1>3 DEF SessionInv

\* The parked worker leaves with the mode of the last resume, or to terminate.
LEMMA WakeWorkerInv ==
  ASSUME SessionInv, WakeWorker
  PROVE  SessionInv'
<1>. USE DEF WakeWorker, controllerVars, stateVars
<1>1. Flags'
  BY DEF SessionInv, Flags
<1>2. Frozen' /\ Phases' /\ Armed'
  BY DEF SessionInv, Frozen, Phases, Armed
<1>3. Obeyed'
  BY DEF SessionInv, Obeyed, Frozen, AskedHere
<1>. QED
  BY <1>1, <1>2, <1>3 DEF SessionInv

\* The controller takes the answer over, with the frames it was given at.
LEMMA GoOnInv ==
  ASSUME SessionInv, GoOn
  PROVE  SessionInv'
<1>. USE DEF GoOn, requestVars, stateVars, threadVars
<1>1. Flags'
  BY DEF SessionInv, Flags
<1>2. Frozen' /\ Phases' /\ Armed'
  BY DEF SessionInv, Frozen, Phases, Armed
<1>3. Obeyed'
  BY DEF SessionInv, Obeyed, AskedHere
<1>. QED
  BY <1>1, <1>2, <1>3 DEF SessionInv

\* The end of the worker leaves nothing on show.
LEMMA EndInv ==
  ASSUME SessionInv, Finish \/ NotifyEnd
  PROVE  SessionInv'
<1>. USE DEF Finish, NotifyEnd, controllerVars, requestVars, stateVars, threadVars
<1>1. Flags'
  BY DEF SessionInv, Flags
<1>2. Frozen' /\ Phases' /\ Armed'
  BY DEF SessionInv, Frozen, Phases, Armed
<1>3. Obeyed'
  BY DEF SessionInv, Obeyed
<1>. QED
  BY <1>1, <1>2, <1>3 DEF SessionInv

-----------------------------------------------------------------------------
(* The session under any clients.                                          *)

\* Every step of a session preserves the invariant.
LEMMA StepInv == SessionInv /\ [SessionNext]_sessionVars => SessionInv'
<1>. SUFFICES ASSUME SessionInv, [SessionNext]_sessionVars PROVE SessionInv'
  OBVIOUS
<1>1. ASSUME NEW t \in Clients, ClientCall(t) PROVE SessionInv'
  BY <1>1, WaitInv, PauseInv, TerminateInv, ResumeInv DEF ClientCall
<1>2. ASSUME NEW t \in Clients, ClientStep(t) PROVE SessionInv'
  BY <1>2, WaitInv, PauseInv DEF ClientStep
<1>3. CASE WorkerStep
  BY <1>3, ExecuteInv, SequencePointInv, HandleStopInv, WakeWorkerInv, GoOnInv,
     EndInv DEF WorkerStep
<1>4. CASE SpuriousWakeup
  <2>1. SameTerminating
    BY <1>4 DEF SessionInv, Flags, SpuriousWakeup, SameTerminating
  <2>2. UNCHANGED <<controllerVars, requestVars, stateVars, workerVars>>
    BY <1>4 DEF SpuriousWakeup
  <2>3. Flags' /\ Armed'
    BY <2>1, <2>2 DEF SessionInv, Flags, Armed, SameTerminating, controllerVars,
                      requestVars, stateVars, workerVars
  <2>4. Frozen' /\ Phases' /\ Obeyed'
    BY <2>2 DEF SessionInv, Frozen, Phases, Obeyed, AskedFor, AskedHere,
                controllerVars, requestVars, stateVars, workerVars
  <2>. QED
    BY <2>3, <2>4 DEF SessionInv
<1>5. CASE UNCHANGED sessionVars
  BY <1>5 DEF SessionInv, Flags, Frozen, Phases, Armed, Obeyed, AskedFor,
              AskedHere, sessionVars, controllerVars, requestVars, stateVars,
              workerVars, threadVars
<1>. QED
  BY <1>1, <1>2, <1>3, <1>4, <1>5, BreakpointsInv, LaunchInv DEF SessionNext

\* The invariant holds of a session whatever its clients do.
THEOREM SessionInvariant == SessionSpec => []SessionInv
<1>1. Init => SessionInv
  BY InitInv
<1>2. SessionInv /\ [SessionNext]_sessionVars => SessionInv'
  BY StepInv
<1>. QED
  BY <1>1, <1>2, PTL DEF SessionSpec

\* Only the first critical section of onSequencePoint lets the program pass a
\* sequence point.
LEMMA PassIsSequencePoint ==
  ASSUME SessionInv, [SessionNext]_sessionVars, wpc = "point", wpc' = "run"
  PROVE  SequencePoint
<1>1. ASSUME NEW t \in Clients, ClientCall(t) \/ ClientStep(t) PROVE FALSE
  BY <1>1 DEF ClientCall, ClientStep, WaitForStop, Pause, RequestPause, Terminate,
              Join, Resume, WakeWaiter, PauseToTerminate, NotifyAll, Joined, workerVars
<1>2. ASSUME NEW lines, SetBreakpoints(lines) PROVE FALSE
  BY <1>2 DEF SetBreakpoints, workerVars
<1>3. ASSUME NEW stopOnEntry, Launch(stopOnEntry) PROVE FALSE
  BY <1>3 DEF Launch
<1>4. SpuriousWakeup \/ UNCHANGED sessionVars => FALSE
  BY DEF SpuriousWakeup, sessionVars, workerVars
<1>5. WorkerStep
  BY <1>1, <1>2, <1>3, <1>4 DEF SessionNext
<1>. QED
  BY <1>5 DEF WorkerStep, Execute, HandleStop, WakeWorker, GoOn, Finish, NotifyEnd

\* Only handleStop shows a stop.
LEMMA ShownByHandleStop ==
  ASSUME SessionInv, [SessionNext]_sessionVars, ~paused, paused'
  PROVE  HandleStop
<1>1. ASSUME NEW t \in Clients, ClientCall(t) \/ ClientStep(t) PROVE FALSE
  BY <1>1 DEF ClientCall, ClientStep, WaitForStop, Pause, RequestPause, Terminate,
              Join, Resume, WakeWaiter, PauseToTerminate, NotifyAll, Joined, stateVars
<1>2. ASSUME NEW lines, SetBreakpoints(lines) PROVE FALSE
  BY <1>2 DEF SetBreakpoints, stateVars
<1>3. ASSUME NEW stopOnEntry, Launch(stopOnEntry) PROVE FALSE
  BY <1>3 DEF Launch
<1>4. SpuriousWakeup \/ UNCHANGED sessionVars => FALSE
  BY DEF SpuriousWakeup, sessionVars, stateVars
<1>5. WorkerStep
  BY <1>1, <1>2, <1>3, <1>4 DEF SessionNext
<1>. QED
  BY <1>5 DEF WorkerStep, Execute, SequencePoint, WakeWorker, GoOn, Finish,
              NotifyEnd, stateVars

\* SessionFrozen: for any clients and any program, a stop that a client can see
\* is of the frames the worker is parked with.
THEOREM SessionFrozen == SessionSpec => []PausedIsFrozen
<1>1. SessionInv => PausedIsFrozen
  BY DEF SessionInv, Frozen, PausedIsFrozen
<1>. QED
  BY <1>1, SessionInvariant, PTL

\* SessionStopsAsAsked: for any clients and any program, the worker passes no
\* point where the client's step ends or a breakpoint is set, and reports a step
\* only where it ends.
THEOREM SessionStopsAsAsked == SessionSpec => StopsAsAsked
<1>1. ASSUME SessionInv, [SessionNext]_sessionVars, wpc = "point", wpc' = "run"
      PROVE  ~AskedFor(stack) /\ Top(stack) \notin breakpoints
  <2>1. SequencePoint
    BY <1>1, PassIsSequencePoint
  <2>2. StopReason = "none"
    BY <1>1, <2>1 DEF SequencePoint
  <2>3. ~StepDone /\ Top(stack) \notin breakpoints
    BY <2>2 DEF StopReason
  <2>. QED
    BY <1>1, <2>3, StepDoneIsAskedFor
<1>2. ASSUME SessionInv, [SessionNext]_sessionVars, ~paused, paused', reason = "Step"
      PROVE  AskedFor(currentStop')
  <2>1. HandleStop
    BY <1>2, ShownByHandleStop
  <2>2. currentStop' = stack /\ wpc = "stop"
    BY <1>2, <2>1 DEF HandleStop
  <2>3. AskedFor(stack)
    BY <1>2, <2>2 DEF SessionInv, Obeyed
  <2>. QED
    BY <2>2, <2>3
<1>3. SessionInv /\ [SessionNext]_sessionVars =>
        [/\ wpc = "point" /\ wpc' = "run" =>
              ~AskedFor(stack) /\ Top(stack) \notin breakpoints
         /\ paused' /\ ~paused /\ reason = "Step" => AskedFor(currentStop')]_sessionVars
  BY <1>1, <1>2
<1>. QED
  BY <1>3, SessionInvariant, PTL DEF SessionSpec, StopsAsAsked

\* SessionTerminateIsFinal: for any clients and any program, no stop is shown once
\* a termination has been requested, and once terminate() has returned no
\* sequence point is passed.
THEOREM SessionTerminateIsFinal == SessionSpec => TerminateIsFinal
<1>1. ASSUME SessionInv, [SessionNext]_sessionVars, terminateRequested, paused'
      PROVE  FALSE
  <2>1. ~paused
    BY <1>1 DEF SessionInv, Frozen
  <2>2. HandleStop
    BY <1>1, <2>1, ShownByHandleStop
  <2>. QED
    BY <1>1, <2>1, <2>2 DEF HandleStop
<1>2. ASSUME SessionInv, [SessionNext]_sessionVars, terminateRequested,
             \A t \in Clients : at[t] # "terminating", wpc = "point", wpc' = "run"
      PROVE  FALSE
  <2>1. SequencePoint
    BY <1>2, PassIsSequencePoint
  <2>2. ~pauseRequested
    BY <1>2, <2>1 DEF SequencePoint, StopReason
  <2>. QED
    BY <1>2, <2>2 DEF SessionInv, Armed
<1>3. SessionInv /\ [SessionNext]_sessionVars =>
        [terminateRequested =>
            /\ ~paused'
            /\ (\A t \in Clients : at[t] # "terminating") =>
                  ~(wpc = "point" /\ wpc' = "run")]_sessionVars
  BY <1>1, <1>2
<1>. QED
  BY <1>3, SessionInvariant, PTL DEF SessionSpec, TerminateIsFinal

-----------------------------------------------------------------------------
(* The adapter is a client of the session.                                 *)

\* AdapterImplementsSession: whatever the reader, the monitor and the client of
\* the adapter do, the session under it takes only steps that two clients may
\* cause, so everything above holds of the adapter.
THEOREM AdapterImplementsSession == Spec => SessionSpec
<1>1. AdapterInit => Init
  BY DEF AdapterInit
<1>2. ASSUME Next PROVE SessionNext \/ UNCHANGED sessionVars
  <2>1. Reader \in Clients /\ Monitor \in Clients /\ LineSets \subseteq SUBSET Nat
    BY AdapterAssumption
  <2>2. CASE Send \/ DoubleJoin
    BY <2>2 DEF Send, DoubleJoin
  <2>3. CASE ReaderStep
    <3>1. CASE Read \/ JoinMonitor \/ Respond \/ StartMonitor
      BY <3>1 DEF Read, JoinMonitor, Respond, StartMonitor
    <3>2. CASE Handle
      BY <2>1, <3>2 DEF Handle, SessionNext, ClientCall
    <3>3. CASE JoinSession
      BY <2>1, <3>3 DEF JoinSession, SessionNext, ClientCall
    <3>4. CASE ClientStep(Reader)
      BY <2>1, <3>4 DEF SessionNext
    <3>. QED
      BY <2>3, <3>1, <3>2, <3>3, <3>4 DEF ReaderStep
  <2>4. CASE MonitorStep
    <3>1. CASE MonitorWaits
      BY <2>1, <3>1 DEF MonitorWaits, SessionNext, ClientCall, ClientStep
    <3>2. CASE MonitorChecks \/ Emit
      BY <3>2 DEF MonitorChecks, Emit
    <3>3. CASE MonitorJoins
      BY <2>1, <3>3 DEF MonitorJoins, SessionNext, ClientCall
    <3>4. CASE ClientStep(Monitor)
      BY <2>1, <3>4 DEF SessionNext
    <3>. QED
      BY <2>4, <3>1, <3>2, <3>3, <3>4 DEF MonitorStep
  <2>5. CASE SessionStep \/ SpuriousWakeup
    BY <2>5 DEF SessionStep, SessionNext
  <2>6. CASE UNCHANGED vars
    BY <2>6 DEF vars
  <2>. QED
    BY <1>2, <2>2, <2>3, <2>4, <2>5, <2>6 DEF Next
<1>3. [Next]_vars => [SessionNext]_sessionVars
  BY <1>2 DEF vars
<1>. QED
  BY <1>1, <1>3, PTL DEF Spec, SessionSpec

\* AdapterSafety: the properties of the session hold in the adapter.
THEOREM AdapterSafety == Spec => []PausedIsFrozen /\ StopsAsAsked /\ TerminateIsFinal
  BY AdapterImplementsSession, SessionFrozen, SessionStopsAsAsked,
     SessionTerminateIsFinal

=============================================================================
