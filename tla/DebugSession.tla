---------------------------- MODULE DebugSession ----------------------------
(***************************************************************************)
(* The debugger of src/src/debug/Debugger.cpp: the DebugController that    *)
(* the interpreter asks at every sequence point whether to go on, and the  *)
(* DebugSession that runs the interpreter on a worker thread and parks it  *)
(* while a client looks at its frames.                                     *)
(*                                                                         *)
(* Threads meet at two mutexes.  Each critical section of the code is one  *)
(* action here, and what happens between two of them is a value of wpc or  *)
(* of at[thread].  A condition variable is the set `sleeping` of threads   *)
(* it has not woken: notify_all empties it, a woken thread takes the lock  *)
(* and looks at its predicate again.                                       *)
(*                                                                         *)
(* reason and answer are locals of onSequencePoint, "none" when not in use;*)
(* a stop on show is reduced to its frames.                                *)
(*                                                                         *)
(* The program is a control-flow graph of sequence points, one per line of *)
(* one source file; which way it goes is a choice.                         *)
(***************************************************************************)
EXTENDS Naturals, Sequences

CONSTANTS
    Clients,        \* threads that call the session
    Worker,         \* the thread that runs the interpreter
    Points,         \* executable lines: the sequence points of the program
    Entry,          \* the first sequence point of the launched function
    Follows,        \* Follows[p]: the points that may come next in the frame
    Calls,          \* Calls[p]: the points where a call made at p arrives
    Returns,        \* points where the function may return
    MaxDepth        \* bound on the call depth

ASSUME ProgramAssumption ==
    /\ Worker \notin Clients
    /\ Points \subseteq Nat \ {0} /\ Entry \in Points /\ Returns \subseteq Points
    /\ Follows \in [Points -> SUBSET Points] /\ Calls \in [Points -> SUBSET Points]
    /\ MaxDepth \in Nat \ {0}

StepModes == {"StepIn", "StepOver", "StepOut"}
ResumeModes == {"Continue"} \cup StepModes
Reasons == {"Entry", "Pause", "Breakpoint", "Step"}

VARIABLES
    \* DebugController
    breakpoints, mode, stepDepth, lastLocation, entryPending, pauseRequested,
    \* DebugSession
    launched, paused, finished, resumePending, terminateRequested,
    pendingMode, currentStop, joinable,
    \* the threads
    stack, wpc, reason, answer, at, sleeping,
    \* history: the last resume the session accepted
    asked

controllerVars == <<breakpoints, mode, stepDepth, lastLocation, entryPending,
                    pauseRequested>>
requestVars == <<resumePending, terminateRequested, pendingMode, asked>>
stateVars == <<launched, paused, finished, currentStop, joinable>>
workerVars == <<stack, wpc, reason, answer>>
threadVars == <<at, sleeping>>
sessionVars == <<controllerVars, requestVars, stateVars, workerVars, threadVars>>

Top(frames) == frames[Len(frames)]

TypeOK ==
    /\ breakpoints \subseteq Points
    /\ mode \in ResumeModes /\ pendingMode \in ResumeModes \cup {"Terminate"}
    /\ stepDepth \in 0 .. MaxDepth
    /\ lastLocation \in Points \cup {0}
    /\ {entryPending, pauseRequested, launched, paused, finished,
        resumePending, terminateRequested, joinable} \subseteq BOOLEAN
    /\ currentStop \in Seq(Points) /\ (paused => currentStop # <<>>)
    /\ reason \in Reasons \cup {"none"}
    /\ stack \in Seq(Points) /\ Len(stack) <= MaxDepth
    /\ wpc \in {"none", "run", "point", "stop", "wait", "go", "end", "finish",
                "done"}
    /\ wpc \in {"run", "point", "stop", "wait", "go"} => stack # <<>>
    /\ answer \in ResumeModes \cup {"Terminate", "none"}
    /\ at \in [Clients -> {"idle", "terminating", "notifying", "waiting",
                           "joining"}]
    /\ sleeping \subseteq Clients \cup {Worker}

Init ==
    /\ breakpoints = {} /\ mode = "Continue" /\ stepDepth = 0
    /\ lastLocation = 0 /\ entryPending = FALSE /\ pauseRequested = FALSE
    /\ launched = FALSE /\ paused = FALSE /\ finished = FALSE
    /\ resumePending = FALSE /\ terminateRequested = FALSE
    /\ pendingMode = "Continue" /\ currentStop = <<>> /\ joinable = FALSE
    /\ stack = <<>> /\ wpc = "none" /\ reason = "none" /\ answer = "none"
    /\ at = [t \in Clients |-> "idle"] /\ sleeping = {}
    /\ asked = [mode |-> "Continue", depth |-> 0, location |-> 0]

-----------------------------------------------------------------------------
(* What a client thread does.                                              *)

\* A requested line is bound to the first executable line at or after it, or
\* stays unverified, and then never matches.
Bound(lines) ==
    {p \in Points : \E l \in lines : /\ l <= p
                                     /\ \A q \in Points : q < p => q < l}

SetBreakpoints(lines) ==
    /\ breakpoints' = Bound(lines)
    /\ UNCHANGED <<mode, stepDepth, lastLocation, entryPending, pauseRequested,
                   requestVars, stateVars, workerVars, threadVars>>

\* Accepted once: no operation resets launched_.  The bindProgram() of the
\* worker repeats what the constructor of the session has done.
Launch(stopOnEntry) ==
    /\ ~launched
    /\ launched' = TRUE /\ joinable' = TRUE
    /\ entryPending' = stopOnEntry
    /\ stack' = <<Entry>> /\ wpc' = "point"
    /\ UNCHANGED <<breakpoints, mode, stepDepth, lastLocation, pauseRequested,
                   requestVars, paused, finished, currentStop, reason, answer,
                   threadVars>>

Ready == paused \/ finished

\* waitForStop(): looks before it sleeps.  Its result is `paused` at the step
\* that leaves it.
WaitForStop(t) ==
    /\ at[t] = "idle"
    /\ IF Ready
       THEN UNCHANGED threadVars
       ELSE at' = [at EXCEPT ![t] = "waiting"] /\ sleeping' = sleeping \cup {t}
    /\ UNCHANGED <<controllerVars, requestVars, stateVars, workerVars>>

WakeWaiter(t) ==
    /\ at[t] = "waiting" /\ t \notin sleeping
    /\ IF Ready
       THEN at' = [at EXCEPT ![t] = "idle"] /\ UNCHANGED sleeping
       ELSE sleeping' = sleeping \cup {t} /\ UNCHANGED at
    /\ UNCHANGED <<controllerVars, requestVars, stateVars, workerVars>>

\* Fault: paused_ is left for the worker to clear.
ResumeKeepsPaused(t, m) ==
    /\ at[t] = "idle" /\ paused
    /\ pendingMode' = m /\ resumePending' = TRUE
    /\ at' = [at EXCEPT ![t] = "notifying"]
    /\ asked' = [mode |-> m, depth |-> Len(currentStop),
                 location |-> Top(currentStop)]
    /\ UNCHANGED <<controllerVars, terminateRequested, launched, paused, finished,
                   currentStop, joinable, workerVars, sleeping>>

\* resume() is ignored unless a stop is being shown.
Resume(t, m) ==
    /\ at[t] = "idle"
    /\ IF paused
       THEN /\ pendingMode' = m /\ resumePending' = TRUE /\ paused' = FALSE
            /\ at' = [at EXCEPT ![t] = "notifying"]
            /\ asked' = [mode |-> m, depth |-> Len(currentStop),
                         location |-> Top(currentStop)]
       ELSE UNCHANGED <<pendingMode, resumePending, paused, at, asked>>
    /\ UNCHANGED <<controllerVars, terminateRequested, launched, finished,
                   currentStop, joinable, workerVars, sleeping>>

RequestPause ==
    /\ pauseRequested' = TRUE
    /\ UNCHANGED <<breakpoints, mode, stepDepth, lastLocation, entryPending,
                   requestVars, stateVars, workerVars>>

\* pause(): no lock is taken.
Pause(t) ==
    /\ at[t] = "idle"
    /\ RequestPause
    /\ UNCHANGED threadVars

\* terminate(): the flags under the lock, then the pause that makes a running
\* worker look at them, then the notification that makes a parked one look.
Terminate(t) ==
    /\ at[t] = "idle"
    /\ IF launched /\ ~finished
       THEN /\ pendingMode' = "Terminate" /\ terminateRequested' = TRUE
            /\ resumePending' = TRUE /\ paused' = FALSE
            /\ at' = [at EXCEPT ![t] = "terminating"]
       ELSE UNCHANGED <<pendingMode, terminateRequested, resumePending, paused, at>>
    /\ UNCHANGED <<controllerVars, asked, launched, finished, currentStop,
                   joinable, workerVars, sleeping>>

PauseToTerminate(t) ==
    /\ at[t] = "terminating"
    /\ RequestPause
    /\ at' = [at EXCEPT ![t] = "notifying"]
    /\ UNCHANGED sleeping

\* Fault: the lock is released and nobody is notified.
NotifyForgotten(t) ==
    /\ at[t] = "notifying"
    /\ at' = [at EXCEPT ![t] = "idle"]
    /\ UNCHANGED <<controllerVars, requestVars, stateVars, workerVars, sleeping>>

\* sessionCv_.notify_all() after the lock is released.
NotifyAll(t) ==
    /\ at[t] = "notifying"
    /\ at' = [at EXCEPT ![t] = "idle"]
    /\ sleeping' = {}
    /\ UNCHANGED <<controllerVars, requestVars, stateVars, workerVars>>

\* join(): a thread that finds the worker joinable waits for its end.
Join(t) ==
    /\ at[t] = "idle"
    /\ at' = [at EXCEPT ![t] = IF joinable THEN "joining" ELSE "idle"]
    /\ UNCHANGED <<controllerVars, requestVars, stateVars, workerVars, sleeping>>

Joined(t) ==
    /\ at[t] = "joining" /\ wpc = "done"
    /\ at' = [at EXCEPT ![t] = "idle"] /\ joinable' = FALSE
    /\ UNCHANGED <<controllerVars, requestVars, launched, paused, finished,
                   currentStop, workerVars, sleeping>>

\* A thread that asks for the lock again without a notification.
SpuriousWakeup ==
    /\ \E t \in sleeping : sleeping' = sleeping \ {t}
    /\ UNCHANGED <<controllerVars, requestVars, stateVars, workerVars, at>>

ClientStep(t) ==
    \/ WakeWaiter(t) \/ PauseToTerminate(t) \/ NotifyAll(t) \/ Joined(t)

-----------------------------------------------------------------------------
(* The worker thread.                                                      *)

\* The interpreter runs from one sequence point to the next: along its frame,
\* into a call, or back to the caller, which goes on from the point of the call.
Advance ==
    \E p \in Follows[Top(stack)] :
        /\ stack' = [stack EXCEPT ![Len(stack)] = p]
        /\ wpc' = "point"

CallFunction ==
    \E p \in Calls[Top(stack)] :
        /\ Len(stack) < MaxDepth
        /\ stack' = Append(stack, p)
        /\ wpc' = "point"

Return ==
    /\ Top(stack) \in Returns
    /\ stack' = SubSeq(stack, 1, Len(stack) - 1)
    /\ wpc' = IF Len(stack) = 1 THEN "end" ELSE "run"

\* A runtime error or an exhausted budget unwinds every frame.
Fail ==
    /\ stack' = <<>> /\ wpc' = "end"

Execute ==
    /\ wpc = "run"
    /\ Advance \/ CallFunction \/ Return \/ Fail
    /\ UNCHANGED <<controllerVars, requestVars, stateVars, reason, answer, threadVars>>

Moved == Top(stack) # lastLocation

StepDone ==
    \/ mode = "StepIn" /\ Moved
    \/ mode = "StepOver" /\ Moved /\ Len(stack) <= stepDepth
    \/ mode = "StepOut" /\ Len(stack) < stepDepth

\* shouldStop(): the first reason that applies; only the reason that is used
\* up is reset.  terminated_ is left out: the call that sets it is the last.
StopReason ==
    IF entryPending THEN "Entry"
    ELSE IF pauseRequested THEN "Pause"
    ELSE IF Top(stack) \in breakpoints THEN "Breakpoint"
    ELSE IF StepDone THEN "Step"
    ELSE "none"

\* The first critical section of onSequencePoint().
SequencePoint ==
    /\ wpc = "point"
    /\ entryPending' = (entryPending /\ StopReason # "Entry")
    /\ pauseRequested' = (pauseRequested /\ StopReason # "Pause")
    /\ IF StopReason = "none"
       THEN wpc' = "run" /\ UNCHANGED reason
       ELSE wpc' = "stop" /\ reason' = StopReason
    /\ UNCHANGED <<breakpoints, mode, stepDepth, lastLocation, requestVars,
                   stateVars, stack, answer, threadVars>>

\* Fault: the termination is not looked at before the stop is published.
HandleStopUnchecked ==
    /\ wpc = "stop"
    /\ currentStop' = stack
    /\ paused' = TRUE /\ resumePending' = FALSE
    /\ sleeping' = (IF terminateRequested THEN {} ELSE {Worker})
    /\ wpc' = "wait" /\ reason' = "none"
    /\ UNCHANGED <<controllerVars, terminateRequested, pendingMode, asked,
                   launched, finished, joinable, stack, answer, at>>

\* handleStop(): publishes the stop and goes to sleep, unless the session is
\* being terminated.
HandleStop ==
    /\ wpc = "stop"
    /\ IF terminateRequested
       THEN /\ answer' = "Terminate" /\ wpc' = "go"
            /\ UNCHANGED <<currentStop, paused, resumePending, sleeping>>
       ELSE /\ currentStop' = stack /\ paused' = TRUE /\ resumePending' = FALSE
            /\ sleeping' = {Worker} /\ wpc' = "wait"
            /\ UNCHANGED answer
    /\ reason' = "none"
    /\ UNCHANGED <<controllerVars, terminateRequested, pendingMode, asked,
                   launched, finished, joinable, stack, at>>

WakeWorker ==
    /\ wpc = "wait" /\ Worker \notin sleeping
    /\ IF resumePending \/ terminateRequested
       THEN /\ answer' = IF terminateRequested THEN "Terminate" ELSE pendingMode
            /\ resumePending' = FALSE /\ wpc' = "go"
            /\ UNCHANGED sleeping
       ELSE /\ sleeping' = sleeping \cup {Worker}
            /\ UNCHANGED <<answer, resumePending, wpc>>
    /\ UNCHANGED <<controllerVars, terminateRequested, pendingMode, asked,
                   stateVars, stack, reason, at>>

\* Fault: the depth of the stop is not recorded.
GoOnKeepsDepth ==
    /\ wpc = "go"
    /\ lastLocation' = Top(stack)
    /\ IF answer = "Terminate"
       THEN wpc' = "end" /\ UNCHANGED mode
       ELSE wpc' = "run" /\ mode' = answer
    /\ answer' = "none"
    /\ UNCHANGED <<breakpoints, stepDepth, entryPending, pauseRequested,
                   requestVars, stateVars, stack, reason, threadVars>>

\* The second critical section of onSequencePoint().
GoOn ==
    /\ wpc = "go"
    /\ stepDepth' = Len(stack) /\ lastLocation' = Top(stack)
    /\ IF answer = "Terminate"
       THEN wpc' = "end" /\ UNCHANGED mode
       ELSE wpc' = "run" /\ mode' = answer
    /\ answer' = "none"
    /\ UNCHANGED <<breakpoints, entryPending, pauseRequested, requestVars,
                   stateVars, stack, reason, threadVars>>

\* invoke() has returned: the worker publishes the result, then notifies.
Finish ==
    /\ wpc = "end"
    /\ finished' = TRUE /\ paused' = FALSE /\ wpc' = "finish"
    /\ UNCHANGED <<controllerVars, requestVars, launched, currentStop, joinable,
                   stack, reason, answer, threadVars>>

\* Fault: the end is published but nobody is woken for it.
NotifyNobody ==
    /\ wpc = "finish"
    /\ wpc' = "done"
    /\ UNCHANGED <<controllerVars, requestVars, stateVars, stack, reason, answer,
                   threadVars>>

NotifyEnd ==
    /\ wpc = "finish"
    /\ sleeping' = {} /\ wpc' = "done"
    /\ UNCHANGED <<controllerVars, requestVars, stateVars, stack, reason, answer, at>>

WorkerStep ==
    \/ Execute \/ SequencePoint \/ HandleStop \/ WakeWorker \/ GoOn
    \/ Finish \/ NotifyEnd

-----------------------------------------------------------------------------
(* The session under any clients, as an embedding host uses it.            *)

ClientCall(t) ==
    \/ WaitForStop(t) \/ Pause(t) \/ Terminate(t) \/ Join(t)
    \/ \E m \in ResumeModes : Resume(t, m)

SessionNext ==
    \/ \E lines \in SUBSET Nat : SetBreakpoints(lines)
    \/ \E stopOnEntry \in BOOLEAN : Launch(stopOnEntry)
    \/ \E t \in Clients : ClientCall(t) \/ ClientStep(t)
    \/ WorkerStep
    \/ SpuriousWakeup

SessionSpec == Init /\ [][SessionNext]_sessionVars

-----------------------------------------------------------------------------
(* Properties.                                                             *)

\* PausedIsFrozen: whenever a client can see paused(), the worker is parked
\* inside handleStop and the stop on show is of the frames it is parked with,
\* so no client inspects a frame that is being executed (the promise of
\* docs/en/DEBUGGING_TOOLING_AND_HOT_RELOAD.md).
PausedIsFrozen ==
    paused => /\ wpc = "wait"
              /\ currentStop = stack
              /\ ~resumePending /\ ~finished

\* What the client asked for with its last resume is reached at these frames.
AskedFor(frames) ==
    \/ asked.mode = "StepIn" /\ Top(frames) # asked.location
    \/ /\ asked.mode = "StepOver"
       /\ Top(frames) # asked.location /\ Len(frames) <= asked.depth
    \/ asked.mode = "StepOut" /\ Len(frames) < asked.depth

\* StopsAsAsked: the worker passes a sequence point only if the client's last
\* step does not end there and no breakpoint is set on it, and it reports a
\* step only where that step ends: what a resume asked for in one thread is
\* what onSequencePoint decides in the other, however the program has called
\* and returned in between.
StopsAsAsked ==
    [][/\ wpc = "point" /\ wpc' = "run" =>
            ~AskedFor(stack) /\ Top(stack) \notin breakpoints
       /\ paused' /\ ~paused /\ reason = "Step" => AskedFor(currentStop')]_sessionVars

\* TerminateIsFinal: once a terminate() has returned, the program passes no
\* further sequence point, and from its first critical section on no client
\* is shown another stop.
TerminateIsFinal ==
    [][terminateRequested =>
          /\ ~paused'
          /\ (\A t \in Clients : at[t] # "terminating") =>
                ~(wpc = "point" /\ wpc' = "run")]_sessionVars

\* TerminateEnds: a terminated session finishes, however the program loops and
\* wherever the worker was (running, about to stop, or parked).
TerminateEnds == terminateRequested ~> finished
=============================================================================
