------------------------------- MODULE Engine -------------------------------
(***************************************************************************)
(* EngineRuntime (src/runtime/RuntimeServices.cpp) and hot reload          *)
(* (src/hot_reload/HotReload.cpp).  Threads invoke functions of the        *)
(* current program image: they take the image under the lock and read the  *)
(* heap and the bindings without it.  Meanwhile others prepare a           *)
(* replacement against the image they saw and put it in the place of       *)
(* whatever is current by then; the heap stays.  The calls of host         *)
(* functions go through a determinism session each invocation has.         *)
(*                                                                         *)
(* The body of a function is a sequence of steps: an object is made, a     *)
(* field of the object at hand is read, a host function is called with the *)
(* value at hand.                                                          *)
(***************************************************************************)
EXTENDS Determinism, SequencesExt

CONSTANTS
    Images,         \* the program images, the first one is linked at the start:
                    \* [links, metadata, types, functions]
    Registries,     \* the binding registries: name -> policy
    Threads,        \* invoke functions
    Answers,        \* what a host function may answer
    InvokeArguments, \* of the functions invoked
    UsedModes,      \* the modes of determinism in use
    MaxInvocations, MaxReloads, MaxSwaps    \* bounds

Fields == [name : STRING, type : STRING]
Steps  == [op : {"new", "get", "call"}, of : STRING, index : Nat]

\* Every image is verified: a step makes and reads objects of types of its image.
ASSUME EngineAssumption ==
    /\ 1 \in DOMAIN Images
    /\ 1 \in DOMAIN Registries
    /\ \A i \in DOMAIN Images :
        /\ \A t \in DOMAIN Images[i].types : Images[i].types[t].fields \in Seq(Fields)
        /\ DOMAIN Images[i].functions \subseteq STRING
        /\ \A f \in DOMAIN Images[i].functions :
            LET body == Images[i].functions[f].body IN
            /\ body \in Seq(Steps)
            /\ \A j \in 1 .. Len(body) :
                body[j].op \in {"new", "get"} => body[j].of \in DOMAIN Images[i].types
    /\ Answers \subseteq [ok : BOOLEAN, value : Nat]
    /\ InvokeArguments \subseteq Nat
    /\ UsedModes \subseteq Modes
    /\ {MaxInvocations, MaxReloads, MaxSwaps} \subseteq Nat

VARIABLES
    engine,     \* [program, bindings, heap]: program_, bindings_, heap_
    heaps,      \* the heaps there have been: sequences of objects [type, fields]
    log,        \* the replay log all options share
    calls,      \* thread -> its invocation
    reloads,    \* the calls of apply() in progress: [image, compatible]
    tape,       \* what the recorded invocations were and how they ended
    counts      \* how many [invocations, recordings, reloads, swaps] there have been

engineVars == <<engine, heaps, log, calls, reloads, tape, counts>>

Idle ==
    [step |-> "idle", program |-> 1, heap |-> 1, bindings |-> 1, mode |-> "Off",
     function |-> "", argument |-> Handle, object |-> 0, at |-> 1, last |-> Handle,
     passed |-> 0, session |-> NewSession("Off", [supplied |-> FALSE, entries |-> <<>>]),
     ok |-> TRUE, error |-> "None", trace |-> <<>>, master |-> 0]

EngineInit ==
    /\ engine = [program |-> 1, bindings |-> 1, heap |-> 1]
    /\ heaps = <<<<>>>>
    /\ log \in [supplied : BOOLEAN, entries : {<<>>}]
    /\ calls = [t \in Threads |-> Idle]
    /\ reloads = <<>>
    /\ tape = <<>>
    /\ counts = [invocations |-> 0, recordings |-> 0, reloads |-> 0, swaps |-> 0]

-----------------------------------------------------------------------------
(* What a replacement has to leave as it is. *)

\* Fault: the type of a field may change.
SameFieldByName(left, right) == left.name = right.name

SameField(left, right) == left.name = right.name /\ left.type = right.type

SameType(left, right) ==
    /\ left.declared = right.declared
    /\ left.methods = right.methods
    /\ Len(left.fields) = Len(right.fields)
    /\ \A i \in 1 .. Len(left.fields) : SameField(left.fields[i], right.fields[i])

SameTypes(current, image) ==
    /\ DOMAIN current.types = DOMAIN image.types
    /\ \A t \in DOMAIN current.types : SameType(current.types[t], image.types[t])

SameFunctions(current, image) ==
    /\ DOMAIN current.functions = DOMAIN image.functions
    /\ \A f \in DOMAIN current.functions :
        current.functions[f].signature = image.functions[f].signature

\* Metadata says, for each module, what the source said about its types.
Issues(current, image) ==
    IF ~image.links THEN {"InvalidProgram"} ELSE
    (IF DOMAIN current.metadata # DOMAIN image.metadata THEN {"ModuleSetChanged"} ELSE {})
    \cup (IF \E m \in DOMAIN current.metadata \cap DOMAIN image.metadata :
                current.metadata[m] # image.metadata[m]
          THEN {"LanguageMetadataChanged"} ELSE {})
    \cup (IF SameTypes(current, image) THEN {} ELSE {"TypeLayoutChanged"})
    \cup (IF SameFunctions(current, image) THEN {} ELSE {"FunctionChanged"})

\* prepare(), on the image apply() took.
Prepare ==
    /\ counts.reloads < MaxReloads
    /\ \E image \in DOMAIN Images \ {engine.program} :
        reloads' = Append(reloads,
            [image      |-> image,
             compatible |-> Issues(Images[engine.program], Images[image]) = {}])
    /\ counts' = [counts EXCEPT !.reloads = @ + 1]
    /\ UNCHANGED <<engine, heaps, log, calls, tape>>

\* replaceProgram(), if the plan is compatible; the image it retires is kept for the
\* invocations that hold it.
Replace ==
    /\ \E i \in DOMAIN reloads :
        /\ IF reloads[i].compatible
           THEN engine' = [engine EXCEPT !.program = reloads[i].image]
           ELSE UNCHANGED engine
        /\ reloads' = RemoveAt(reloads, i)
    /\ UNCHANGED <<heaps, log, calls, tape, counts>>

\* setHeap() and setBindings() take no lock.
SetHeap ==
    /\ counts.swaps < MaxSwaps
    /\ heaps' = Append(heaps, <<>>)
    /\ engine' = [engine EXCEPT !.heap = Len(heaps')]
    /\ counts' = [counts EXCEPT !.swaps = @ + 1]
    /\ UNCHANGED <<log, calls, reloads, tape>>

SetBindings ==
    /\ counts.swaps < MaxSwaps
    /\ \E b \in DOMAIN Registries \ {engine.bindings} :
        engine' = [engine EXCEPT !.bindings = b]
    /\ counts' = [counts EXCEPT !.swaps = @ + 1]
    /\ UNCHANGED <<heaps, log, calls, reloads, tape>>

-----------------------------------------------------------------------------
(* Invocations. *)

Function(call) == Images[call.program].functions[call.function]

\* What the host may pass to a function that reads an object it has not made: one it
\* has retained; 0 is null.
Passable(image, name) ==
    IF name \in DOMAIN image.functions /\ Head(image.functions[name].body).op = "get"
    THEN 0 .. Len(heaps[engine.heap]) ELSE {0}

\* The image is taken.
Invoke(t) ==
    /\ calls[t].step \in {"idle", "done"} /\ counts.invocations < MaxInvocations
    /\ \E mode \in UsedModes, argument \in InvokeArguments,
          name \in UNION {DOMAIN Images[i].functions : i \in DOMAIN Images} :
        LET found == name \in DOMAIN Images[engine.program].functions IN
        \E object \in Passable(Images[engine.program], name) :
        calls' = [calls EXCEPT ![t] =
            [Idle EXCEPT !.step = IF found THEN "snapped" ELSE "done",
                         !.program = engine.program, !.mode = mode, !.function = name,
                         !.argument = argument, !.last = argument,
                         !.object = object, !.passed = object, !.ok = found,
                         !.error = IF found THEN "None" ELSE "FunctionNotFound"]]
    /\ counts' = [counts EXCEPT !.invocations = @ + 1]
    /\ UNCHANGED <<engine, heaps, log, reloads, tape>>

\* The interpreter gets the heap and the bindings of this moment.
Enter(t) ==
    /\ calls[t].step = "snapped"
    /\ calls' = [calls EXCEPT ![t] =
            [@ EXCEPT !.step = "running", !.heap = engine.heap, !.bindings = engine.bindings,
                      !.session = NewSession(calls[t].mode, log),
                      !.master = IF counts.recordings = 1 THEN Len(tape) ELSE 0]]
    /\ counts' = IF calls[t].mode = "Record" THEN [counts EXCEPT !.recordings = @ + 1] ELSE counts
    /\ UNCHANGED <<engine, heaps, log, reloads, tape>>

Running(t, op) ==
    /\ calls[t].step = "running"
    /\ calls[t].at <= Len(Function(calls[t]).body)
    /\ Function(calls[t]).body[calls[t].at].op = op

Operand(t) == Function(calls[t]).body[calls[t].at]

Went(call, value) == [call EXCEPT !.at = @ + 1, !.last = value]

\* What a recording is about: the call, and how it ended.
OnTape(call) ==
    [program |-> call.program, bindings |-> call.bindings, heap |-> call.heap,
     function |-> call.function, argument |-> call.argument, passed |-> call.passed,
     ok |-> call.ok, error |-> call.error, last |-> call.last]

\* finish(): a recorded invocation that ended is on the tape, and how a replay ended is
\* kept to be compared with it.
Ended(t, call, ok, error) ==
    LET end  == Finish(call.session, ok, error)
        done == [call EXCEPT !.step = "done", !.ok = end.ok, !.error = end.error]
    IN
    /\ calls' = [calls EXCEPT ![t] = IF call.mode = "Replay" THEN done ELSE Idle]
    /\ tape' = IF call.mode = "Record" THEN Append(tape, OnTape(done)) ELSE tape

New(t) ==
    /\ Running(t, "new")
    /\ LET call == calls[t]
           type == Operand(t).of
       IN
       /\ heaps' = [heaps EXCEPT ![call.heap] =
                        Append(@, [type |-> type, fields |-> Images[call.program].types[type].fields])]
       /\ calls' = [calls EXCEPT ![t] =
                        [Went(call, Handle) EXCEPT !.object = Len(heaps'[call.heap])]]
    /\ UNCHANGED <<engine, log, reloads, tape, counts>>

\* A field is found by its index.
Get(t) ==
    /\ Running(t, "get")
    /\ LET call    == calls[t]
           objects == heaps[call.heap]
       IN
       IF call.object \notin DOMAIN objects
       THEN Ended(t, call, FALSE, "InvalidObjectReference")
       ELSE IF objects[call.object].type # Operand(t).of
       THEN Ended(t, call, FALSE, "TypeMismatch")
       ELSE /\ calls' = [calls EXCEPT ![t] =
                    Went(call, IF objects[call.object].fields[Operand(t).index].type = "int"
                               THEN 1 ELSE Handle)]
            /\ UNCHANGED tape
    /\ UNCHANGED <<engine, heaps, log, reloads, counts>>

\* A deterministic function answers with its argument, another one at will.
HostAnswers(binding, argument) ==
    IF Policed(binding) THEN Answers ELSE {[ok |-> TRUE, value |-> argument]}

Call(t) ==
    /\ Running(t, "call")
    /\ LET call    == calls[t]
           name    == Operand(t).of
           binding == Registries[call.bindings][name]
       IN
       \E host \in HostAnswers(binding, call.last) :
        LET answer == InvokeExternal(call.session, log, binding, name, call.last, host)
            given  == [ok |-> answer.ok, value |-> IF answer.ok THEN answer.value ELSE Handle]
            next   == [call EXCEPT !.session = answer.session,
                                   !.trace = IF Policed(binding)
                                             THEN Append(@, Entry(name, call.last, given))
                                             ELSE @]
        IN
        /\ log' = answer.log
        /\ IF answer.ok
           THEN calls' = [calls EXCEPT ![t] = Went(next, answer.value)] /\ UNCHANGED tape
           ELSE Ended(t, next, FALSE, answer.error)
    /\ UNCHANGED <<engine, heaps, reloads, counts>>

Return(t) ==
    /\ calls[t].step = "running"
    /\ calls[t].at > Len(Function(calls[t]).body)
    /\ Ended(t, calls[t], TRUE, "None")
    /\ UNCHANGED <<engine, heaps, log, reloads, counts>>

EngineNext ==
    \/ \E t \in Threads : Invoke(t) \/ Enter(t) \/ New(t) \/ Get(t) \/ Call(t) \/ Return(t)
    \/ Prepare \/ Replace
    \/ SetHeap \/ SetBindings

EngineSpec == EngineInit /\ [][EngineNext]_engineVars

-----------------------------------------------------------------------------

Outcome(call) == [ok |-> call.ok, error |-> call.error, value |-> call.last]

\* The same call on the same things.
SameCall(a, b) ==
    /\ a.program = b.program /\ a.bindings = b.bindings /\ a.heap = b.heap
    /\ a.function = b.function /\ a.argument = b.argument /\ a.passed = b.passed

\* Every call that could not be replayed is in the log of the recording.
Faithful(call) ==
    call.error \notin {"DeterminismViolation", "ExternalFunctionUnresolved"}

\* A reference to an object of another heap: what it finds depends on what was made
\* since.
Strayed(call) == call.error = "InvalidObjectReference" /\ call.passed # 0

\* A replay that succeeds has made the calls of its log, all of them, in their order
\* and with their answers; and the replay of one recorded invocation, with the program
\* and the bindings it was recorded with, ends as the recording did, whatever was
\* reloaded in between and whichever way it ended, unless the recording ended at a call
\* that is not logged or at an object of another heap (ExecutionServices.cpp:318-474).
ReplayReproduces ==
    \A t \in Threads :
        LET call == calls[t] IN
        call.step = "done" /\ call.mode = "Replay" /\ call.error # "FunctionNotFound" =>
            /\ call.ok => call.trace = call.session.entries
            /\ \A master \in {tape[i] : i \in 1 .. call.master} :
                SameCall(master, call) /\ Faithful(master) /\ ~Strayed(master)
                    => Outcome(call) = Outcome(master)

\* Whatever reloads came together, the objects on a heap have the fields that the
\* program of every invocation that runs on it expects, and each of these programs has
\* the functions and the signatures of the current one (HotReload.cpp:232-346).
ReloadKeepsShape ==
    \A t \in Threads :
        calls[t].step = "running" =>
            LET image == Images[calls[t].program] IN
            /\ SameFunctions(image, Images[engine.program])
            /\ \A i \in DOMAIN heaps[calls[t].heap] :
                LET object == heaps[calls[t].heap][i] IN
                object.fields = image.types[object.type].fields

=============================================================================
