---------------------------- MODULE Determinism ----------------------------
(***************************************************************************)
(* DeterminismSession (src/runtime/ExecutionServices.cpp): what becomes of *)
(* a call of a host function under the four modes of determinism.  A       *)
(* session belongs to one invocation; in replay mode it copies the log     *)
(* when it is created.  A value is a number; Handle stands for the object  *)
(* references and native handles, which cannot be replayed.                *)
(***************************************************************************)
EXTENDS Integers, Sequences

Modes == {"Off", "Strict", "Record", "Replay"}

Handle == 0

(* A log is [supplied, entries]: the options may have none. *)
Stable(value) == value # Handle

NewSession(mode, log) ==
    [mode    |-> mode,
     entries |-> IF mode = "Replay" THEN log.entries ELSE <<>>,
     cursor  |-> 0]

\* The policy of a binding; a function without one may be found by the resolver the
\* host supplied ("fallback") or not at all ("missing").
Policed(binding) == binding # "Deterministic"

\* What a call returns: the session and the log afterwards, the answer and whether the
\* host function ran.
Answer(session, log, ok, value, error, called) ==
    [session |-> session, log |-> log, ok |-> ok, value |-> value, error |-> error,
     called |-> called]

Refusal(session, log, error) == Answer(session, log, FALSE, Handle, error, FALSE)

Entry(name, argument, host) ==
    [name |-> name, argument |-> argument, ok |-> host.ok, value |-> host.value]

Matches(entry, name, argument) == entry.name = name /\ entry.argument = argument

\* The entry is consumed before it is compared with the call.
Replayed(session, log, name, argument) ==
    IF session.cursor >= Len(session.entries)
    THEN Refusal(session, log, "ReplayMismatch")
    ELSE LET next  == [session EXCEPT !.cursor = @ + 1]
             entry == session.entries[next.cursor]
         IN
         IF ~Matches(entry, name, argument) THEN Refusal(next, log, "ReplayMismatch")
         ELSE IF ~entry.ok THEN Refusal(next, log, "HostError")
         ELSE Answer(next, log, TRUE, entry.value, "None", FALSE)

\* Fault: only what succeeded is recorded.
AppendSuccess(log, name, argument, host) ==
    IF host.ok THEN [log EXCEPT !.entries = Append(@, Entry(name, argument, host))] ELSE log

Recorded(log, name, argument, host) ==
    [log EXCEPT !.entries = Append(@, Entry(name, argument, host))]

\* The host function runs; host is its answer.
Called(session, log, binding, name, argument, host) ==
    LET recording == session.mode = "Record" /\ Policed(binding) IN
    IF recording /\ host.ok /\ ~Stable(host.value)
    THEN Answer(session, log, FALSE, Handle, "DeterminismViolation", TRUE)
    ELSE Answer(session, IF recording THEN Recorded(log, name, argument, host) ELSE log,
                host.ok, host.value, IF host.ok THEN "None" ELSE "HostError", TRUE)

InvokeExternal(session, log, binding, name, argument, host) ==
    IF session.mode = "Strict" /\ Policed(binding)
    THEN Refusal(session, log, "DeterminismViolation")
    ELSE IF session.mode = "Replay" /\ Policed(binding)
    THEN Replayed(session, log, name, argument)
    ELSE IF session.mode = "Record" /\ Policed(binding) /\ (~log.supplied \/ ~Stable(argument))
    THEN Refusal(session, log, "DeterminismViolation")
    ELSE IF binding = "missing"
    THEN Refusal(session, log, "ExternalFunctionUnresolved")
    ELSE Called(session, log, binding, name, argument, host)

\* The end of the invocation: a replay has to have used up its log.
Finish(session, ok, error) ==
    IF ok /\ session.mode = "Replay" /\ session.cursor # Len(session.entries)
    THEN [ok |-> FALSE, error |-> "ReplayMismatch"]
    ELSE [ok |-> ok, error |-> error]

=============================================================================
