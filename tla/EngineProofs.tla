---------------------------- MODULE EngineProofs ----------------------------
(* Theorems about Engine, for all images, threads, bindings and answers. *)
EXTENDS Engine, ListLemmas

-----------------------------------------------------------------------------
(* The invariant. *)

Entries == [name : STRING, argument : Nat, ok : BOOLEAN, value : Nat]
Errors ==
    {"None", "FunctionNotFound", "InvalidObjectReference", "TypeMismatch", "ReplayMismatch",
     "HostError", "DeterminismViolation", "ExternalFunctionUnresolved"}
FunctionNames == {""} \cup UNION {DOMAIN Images[i].functions : i \in DOMAIN Images}
Sessions == [mode : Modes, entries : Seq(Entries), cursor : Nat]
Objects == [type : STRING, fields : Seq(Fields)]

Calls ==
    [step : {"idle", "snapped", "running", "done"}, program : DOMAIN Images, heap : Nat,
     bindings : DOMAIN Registries, mode : Modes, function : FunctionNames, argument : Nat,
     object : Nat, at : Nat \ {0}, last : Nat, passed : Nat, session : Sessions,
     ok : BOOLEAN, error : Errors, trace : Seq(Entries), master : Nat]

Ends ==
    [program : DOMAIN Images, bindings : DOMAIN Registries, heap : Nat, function : FunctionNames,
     argument : Nat, passed : Nat, ok : BOOLEAN, error : Errors, last : Nat]

Plans == [image : DOMAIN Images, compatible : BOOLEAN]

Typed ==
    /\ engine \in [program : DOMAIN Images, bindings : DOMAIN Registries, heap : Nat]
    /\ heaps \in Seq(Seq(Objects))
    /\ log \in [supplied : BOOLEAN, entries : Seq(Entries)]
    /\ calls \in [Threads -> Calls]
    /\ reloads \in Seq(Plans)
    /\ tape \in Seq(Ends)
    /\ counts \in [invocations : Nat, recordings : Nat, reloads : Nat, swaps : Nat]
    /\ engine.heap \in 1 .. Len(heaps)
    /\ \A t \in Threads :
        /\ calls[t].heap \in 1 .. Len(heaps)
        /\ calls[t].master \in 0 .. Len(tape)
        /\ calls[t].step \in {"snapped", "running"} =>
            calls[t].function \in DOMAIN Images[calls[t].program].functions
        /\ calls[t].step = "running" => calls[t].session.mode = calls[t].mode

\* Images that may replace each other.
Kin(i, j) == SameTypes(Images[i], Images[j]) /\ SameFunctions(Images[i], Images[j])

\* Whatever has been linked or may still be is kin of what is linked now, and every
\* object has the fields its class has in it.
KeepsShape ==
    /\ \A i \in 1 .. Len(reloads) : reloads[i].compatible => Kin(engine.program, reloads[i].image)
    /\ \A t \in Threads :
        calls[t].step \in {"snapped", "running"} => Kin(engine.program, calls[t].program)
    /\ \A n \in 1 .. Len(heaps) : \A i \in 1 .. Len(heaps[n]) :
        LET object == heaps[n][i] IN
        /\ object.type \in DOMAIN Images[engine.program].types
        /\ object.fields = Images[engine.program].types[object.type].fields

-----------------------------------------------------------------------------
(* Kinship is an equivalence. *)

LEMMA SameFieldLists ==
  ASSUME NEW f \in Seq(Fields), NEW g \in Seq(Fields), Len(f) = Len(g),
         \A i \in 1 .. Len(f) : SameField(f[i], g[i])
  PROVE  f = g
<1>1. ASSUME NEW i \in 1 .. Len(f) PROVE f[i] = g[i]
  <2>1. f[i] \in Fields /\ g[i] \in Fields
    OBVIOUS
  <2> QED BY <2>1 DEF SameField, Fields
<1> QED BY <1>1

LEMMA KinTypes ==
  ASSUME NEW i \in DOMAIN Images, NEW j \in DOMAIN Images, Kin(i, j)
  PROVE  /\ DOMAIN Images[i].types = DOMAIN Images[j].types
         /\ \A t \in DOMAIN Images[i].types : Images[i].types[t].fields = Images[j].types[t].fields
<1>1. DOMAIN Images[i].types = DOMAIN Images[j].types
  BY DEF Kin, SameTypes
<1>2. ASSUME NEW t \in DOMAIN Images[i].types
      PROVE  Images[i].types[t].fields = Images[j].types[t].fields
  <2> DEFINE f == Images[i].types[t].fields
             g == Images[j].types[t].fields
  <2>1. f \in Seq(Fields) /\ g \in Seq(Fields)
    BY <1>1, EngineAssumption
  <2>2. Len(f) = Len(g) /\ \A n \in 1 .. Len(f) : SameField(f[n], g[n])
    BY DEF Kin, SameTypes, SameType
  <2> HIDE DEF f, g
  <2>3. f = g
    BY <2>1, <2>2, SameFieldLists
  <2> QED BY <2>3 DEF f, g
<1> QED BY <1>1, <1>2

LEMMA KinIsEquivalence ==
  ASSUME NEW i \in DOMAIN Images, NEW j \in DOMAIN Images, NEW k \in DOMAIN Images
  PROVE  /\ Kin(i, i)
         /\ Kin(i, j) => Kin(j, i)
         /\ Kin(i, j) /\ Kin(j, k) => Kin(i, k)
<1>1. Kin(i, i)
  BY DEF Kin, SameTypes, SameType, SameField, SameFunctions
<1>2. ASSUME Kin(i, j) PROVE Kin(j, i)
  <2>1. SameFunctions(Images[j], Images[i])
    BY <1>2 DEF Kin, SameFunctions
  <2>2. SameTypes(Images[j], Images[i])
    BY <1>2 DEF Kin, SameTypes, SameType, SameField
  <2> QED BY <2>1, <2>2 DEF Kin
<1>3. ASSUME Kin(i, j), Kin(j, k) PROVE Kin(i, k)
  <2>1. SameFunctions(Images[i], Images[k])
    BY <1>3 DEF Kin, SameFunctions
  <2>2. SameTypes(Images[i], Images[k])
    <3>1. DOMAIN Images[i].types = DOMAIN Images[k].types
      BY <1>3 DEF Kin, SameTypes
    <3>2. ASSUME NEW t \in DOMAIN Images[i].types
          PROVE  SameType(Images[i].types[t], Images[k].types[t])
      <4>1. SameType(Images[i].types[t], Images[j].types[t])
            /\ SameType(Images[j].types[t], Images[k].types[t])
        BY <1>3 DEF Kin, SameTypes
      <4> QED BY <4>1 DEF SameType, SameField
    <3> QED BY <3>1, <3>2 DEF SameTypes
  <2> QED BY <2>1, <2>2 DEF Kin
<1> QED BY <1>1, <1>2, <1>3

-----------------------------------------------------------------------------
(* The answers of the determinism session. *)

Logs == [supplied : BOOLEAN, entries : Seq(Entries)]
Hosts == [ok : BOOLEAN, value : Nat]

LEMMA EntryTyped ==
  ASSUME NEW name \in STRING, NEW argument \in Nat, NEW host \in Hosts
  PROVE  /\ Entry(name, argument, host) \in Entries
         /\ Entry(name, argument, host).name = name
         /\ Entry(name, argument, host).argument = argument
         /\ Entry(name, argument, host).ok = host.ok
         /\ Entry(name, argument, host).value = host.value
BY DEF Entry, Entries, Hosts

\* A call of a deterministic function leaves no trace in the session.
LEMMA FreeCall ==
  ASSUME NEW session \in Sessions, NEW lg \in Logs, NEW name, NEW argument \in Nat,
         NEW binding, ~Policed(binding),
         NEW host \in HostAnswers(binding, argument)
  PROVE  LET a == InvokeExternal(session, lg, binding, name, argument, host) IN
         a.session = session /\ a.log = lg /\ a.ok = TRUE /\ a.value = argument
BY DEF InvokeExternal, Called, Answer, HostAnswers, Policed

\* A replayed call is answered from the log, once the entry is consumed.
AnswersReplay(a, session, lg, name, argument) ==
    LET entry == session.entries[session.cursor + 1]
        next  == [session EXCEPT !.cursor = session.cursor + 1]
        found == session.cursor < Len(session.entries) /\ Matches(entry, name, argument)
    IN
    /\ a.log = lg
    /\ \/ /\ ~found
          /\ a.session \in Sessions /\ a.session.mode = "Replay"
          /\ a.ok = FALSE /\ a.value = Handle /\ a.error = "ReplayMismatch"
       \/ /\ found /\ entry \in Entries /\ entry.ok = FALSE
          /\ a.session = next /\ next \in Sessions
          /\ a.ok = FALSE /\ a.value = Handle /\ a.error = "HostError"
       \/ /\ found /\ entry \in Entries /\ entry.ok = TRUE
          /\ a.session = next /\ next \in Sessions
          /\ a.ok = TRUE /\ a.value = entry.value /\ a.error = "None"

LEMMA ReplayedCall ==
  ASSUME NEW session \in Sessions, NEW lg \in Logs, NEW name \in STRING, NEW argument \in Nat,
         NEW binding, Policed(binding), session.mode = "Replay", NEW host
  PROVE  AnswersReplay(InvokeExternal(session, lg, binding, name, argument, host),
                       session, lg, name, argument)
<1> DEFINE entry == session.entries[session.cursor + 1]
           next == [session EXCEPT !.cursor = session.cursor + 1]
           a == InvokeExternal(session, lg, binding, name, argument, host)
<1>1. session.cursor \in Nat /\ session.entries \in Seq(Entries) /\ Len(session.entries) \in Nat
  BY DEF Sessions
<1>2. next \in Sessions /\ next.cursor = session.cursor + 1 /\ next.mode = "Replay"
      /\ next.entries = session.entries
  BY <1>1 DEF Sessions
<1>3. session.cursor < Len(session.entries) => entry \in Entries
  BY <1>1
<1>4. a = Replayed(session, lg, name, argument)
  BY DEF InvokeExternal
<1> HIDE DEF a, next, entry
<1>5. ASSUME ~(session.cursor < Len(session.entries))
      PROVE  a = Refusal(session, lg, "ReplayMismatch")
  <2>1. session.cursor >= Len(session.entries)
    BY <1>1, <1>5
  <2> QED BY <1>4, <2>1, Zenon DEF Replayed
<1>6. ASSUME session.cursor < Len(session.entries)
      PROVE  /\ ~Matches(entry, name, argument) => a = Refusal(next, lg, "ReplayMismatch")
             /\ Matches(entry, name, argument) /\ ~entry.ok => a = Refusal(next, lg, "HostError")
             /\ Matches(entry, name, argument) /\ entry.ok
                    => a = Answer(next, lg, TRUE, entry.value, "None", FALSE)
  <2>1. ~(session.cursor >= Len(session.entries)) /\ session.entries[next.cursor] = entry
    BY <1>1, <1>2, <1>6 DEF entry
  <2>2. a = IF ~Matches(session.entries[next.cursor], name, argument)
            THEN Refusal(next, lg, "ReplayMismatch")
            ELSE IF ~session.entries[next.cursor].ok THEN Refusal(next, lg, "HostError")
            ELSE Answer(next, lg, TRUE, session.entries[next.cursor].value, "None", FALSE)
    BY <1>4, <2>1, Zenon DEF Replayed, next
  <2> QED BY <2>1, <2>2, Zenon
<1>7. entry \in Entries => entry.ok \in BOOLEAN
  BY DEF Entries
<1>8. \A x, error :
        /\ Refusal(x, lg, error).session = x /\ Refusal(x, lg, error).log = lg
        /\ Refusal(x, lg, error).ok = FALSE /\ Refusal(x, lg, error).value = Handle
        /\ Refusal(x, lg, error).error = error
  BY DEF Refusal, Answer
<1>9. LET y == Answer(next, lg, TRUE, entry.value, "None", FALSE) IN
        y.session = next /\ y.log = lg /\ y.ok = TRUE /\ y.value = entry.value /\ y.error = "None"
  BY DEF Answer
<1>10. CASE ~(session.cursor < Len(session.entries) /\ Matches(entry, name, argument))
  <2>1. a = Refusal(session, lg, "ReplayMismatch") \/ a = Refusal(next, lg, "ReplayMismatch")
    BY <1>5, <1>6, <1>10
  <2>2. /\ a.log = lg /\ a.session \in Sessions /\ a.session.mode = "Replay"
        /\ a.ok = FALSE /\ a.value = Handle /\ a.error = "ReplayMismatch"
    BY <1>2, <1>8, <2>1
  <2> QED BY <1>10, <2>2 DEF a, next, entry, AnswersReplay
<1>11. CASE session.cursor < Len(session.entries) /\ Matches(entry, name, argument) /\ ~entry.ok
  BY <1>2, <1>3, <1>6, <1>7, <1>8, <1>11 DEF a, next, entry, AnswersReplay
<1>12. CASE session.cursor < Len(session.entries) /\ Matches(entry, name, argument) /\ entry.ok
  BY <1>2, <1>3, <1>6, <1>7, <1>9, <1>12 DEF a, next, entry, AnswersReplay
<1> QED BY <1>10, <1>11, <1>12

\* A recorded call is refused and unrecorded, or appended to the log.
AnswersRecording(a, session, lg, name, argument, host) ==
    /\ a.session = session
    /\ \/ /\ a.log = lg /\ a.ok = FALSE /\ a.value = Handle
          /\ a.error \in {"DeterminismViolation", "ExternalFunctionUnresolved"}
       \/ /\ a.log = [lg EXCEPT !.entries = Append(lg.entries, Entry(name, argument, host))]
          /\ a.ok = host.ok /\ a.value = host.value
          /\ a.error = IF host.ok THEN "None" ELSE "HostError"

LEMMA RecordedCall ==
  ASSUME NEW session \in Sessions, NEW lg \in Logs, NEW name \in STRING, NEW argument \in Nat,
         NEW binding, Policed(binding), session.mode = "Record", NEW host \in Hosts
  PROVE  AnswersRecording(InvokeExternal(session, lg, binding, name, argument, host),
                          session, lg, name, argument, host)
BY DEF InvokeExternal, Called, Answer, Refusal, Recorded, AnswersRecording

\* A call in another mode leaves session and log alone.
AnswersOtherwise(a, session, lg) ==
    /\ a.session = session /\ a.log = lg
    /\ a.ok \in BOOLEAN /\ a.value \in Nat
    /\ a.error \in {"None", "HostError", "DeterminismViolation", "ExternalFunctionUnresolved"}

LEMMA OtherCall ==
  ASSUME NEW session \in Sessions, NEW lg \in Logs, NEW name \in STRING, NEW argument \in Nat,
         NEW binding, Policed(binding), session.mode \in {"Off", "Strict"}, NEW host \in Hosts
  PROVE  AnswersOtherwise(InvokeExternal(session, lg, binding, name, argument, host), session, lg)
BY DEF InvokeExternal, Called, Answer, Refusal, Handle, Hosts, AnswersOtherwise

-----------------------------------------------------------------------------
(* Calls. *)

LEMMA SessionTyped ==
  ASSUME NEW mode \in Modes, NEW lg \in Logs
  PROVE  /\ NewSession(mode, lg) \in Sessions
         /\ NewSession(mode, lg).mode = mode /\ NewSession(mode, lg).cursor = 0
         /\ mode = "Replay" => NewSession(mode, lg).entries = lg.entries
BY DEF NewSession, Sessions, Logs

LEMMA IdleTyped ==
  /\ Idle \in Calls /\ Idle.step = "idle" /\ Idle.heap = 1 /\ Idle.master = 0
  /\ Idle.at = 1 /\ Idle.trace = <<>>
<1> DEFINE empty == [supplied |-> FALSE, entries |-> <<>>]
<1>1. empty \in Logs /\ "Off" \in Modes
  BY DEF Logs, Modes
<1>2. NewSession("Off", empty) \in Sessions
  BY <1>1, SessionTyped
<1>3. <<>> \in Seq(Entries) /\ Handle \in Nat /\ 1 \in Nat \ {0} /\ 0 \in Nat
  BY DEF Handle
<1> DEFINE session == NewSession("Off", empty)
<1>4. Idle = [step |-> "idle", program |-> 1, heap |-> 1, bindings |-> 1, mode |-> "Off",
     function |-> "", argument |-> Handle, object |-> 0, at |-> 1, last |-> Handle,
     passed |-> 0, session |-> session,
     ok |-> TRUE, error |-> "None", trace |-> <<>>, master |-> 0]
  BY DEF Idle
<1>5. session \in Sessions
  BY <1>2
<1> HIDE DEF session, empty
<1>6. 1 \in DOMAIN Images /\ 1 \in DOMAIN Registries
  BY EngineAssumption
<1>7. Idle \in Calls
  <2>1. "Off" \in Modes
    BY DEF Modes
  <2>2. "" \in FunctionNames /\ "None" \in Errors /\ TRUE \in BOOLEAN
    BY DEF FunctionNames, Errors
  <2>3. "idle" \in {"idle", "snapped", "running", "done"}
    OBVIOUS
  <2> QED BY <1>3, <1>4, <1>5, <1>6, <2>1, <2>2, <2>3, Zenon DEF Calls
<1> QED BY <1>4, <1>7

\* A step of a function moves the call on.
LEMMA WentOn ==
  ASSUME NEW c \in Calls, NEW value \in Nat
  PROVE  /\ Went(c, value) \in Calls
         /\ Went(c, value).at = c.at + 1 /\ Went(c, value).last = value
         /\ Went(c, value).step = c.step /\ Went(c, value).program = c.program
         /\ Went(c, value).heap = c.heap /\ Went(c, value).bindings = c.bindings
         /\ Went(c, value).mode = c.mode /\ Went(c, value).function = c.function
         /\ Went(c, value).argument = c.argument /\ Went(c, value).object = c.object
         /\ Went(c, value).passed = c.passed /\ Went(c, value).session = c.session
         /\ Went(c, value).trace = c.trace /\ Went(c, value).master = c.master
<1>1. c.at + 1 \in Nat \ {0}
  BY DEF Calls
<1> QED BY <1>1 DEF Went, Calls

\* The fields that say what a call is about.
SameSubject(a, b) ==
    /\ a.program = b.program /\ a.bindings = b.bindings /\ a.heap = b.heap
    /\ a.mode = b.mode /\ a.function = b.function /\ a.argument = b.argument
    /\ a.passed = b.passed /\ a.master = b.master

\* What the tape says of a call that ends.
EndOf(c, ok, error) ==
    [program |-> c.program, bindings |-> c.bindings, heap |-> c.heap, function |-> c.function,
     argument |-> c.argument, passed |-> c.passed, ok |-> ok, error |-> error, last |-> c.last]

\* The end of a call: a replay is kept, a recording is put on the tape.
EndsAs(t, c, ok, error) ==
    /\ calls' \in [Threads -> Calls] /\ tape' \in Seq(Ends)
    /\ \A u \in Threads \ {t} : calls'[u] = calls[u]
    /\ \/ /\ c.mode = "Replay" /\ tape' = tape
          /\ calls'[t].step = "done" /\ SameSubject(calls'[t], c)
          /\ calls'[t].session = c.session /\ calls'[t].trace = c.trace
          /\ calls'[t].last = c.last
          /\ \/ /\ ok /\ c.session.cursor # Len(c.session.entries)
                /\ calls'[t].ok = FALSE /\ calls'[t].error = "ReplayMismatch"
             \/ /\ ~ok \/ c.session.cursor = Len(c.session.entries)
                /\ calls'[t].ok = ok /\ calls'[t].error = error
       \/ /\ c.mode = "Record" /\ calls'[t] = Idle
          /\ tape' = Append(tape, EndOf(c, ok, error))
       \/ /\ c.mode \in {"Off", "Strict"} /\ calls'[t] = Idle /\ tape' = tape

LEMMA EndedCall ==
  ASSUME Typed, NEW t \in Threads, NEW c \in Calls, c.session.mode = c.mode,
         NEW ok \in BOOLEAN, NEW error \in Errors, Ended(t, c, ok, error)
  PROVE  EndsAs(t, c, ok, error)
<1> DEFINE end  == Finish(c.session, ok, error)
           done == [c EXCEPT !.step = "done", !.ok = end.ok, !.error = end.error]
<1>1. /\ calls' = [calls EXCEPT ![t] = IF c.mode = "Replay" THEN done ELSE Idle]
      /\ tape' = IF c.mode = "Record" THEN Append(tape, OnTape(done)) ELSE tape
  BY DEF Ended
<1>2. /\ \/ /\ ok /\ c.mode = "Replay" /\ c.session.cursor # Len(c.session.entries)
            /\ end.ok = FALSE /\ end.error = "ReplayMismatch"
         \/ /\ ~ok \/ c.mode # "Replay" \/ c.session.cursor = Len(c.session.entries)
            /\ end.ok = ok /\ end.error = error
      /\ end.ok \in BOOLEAN /\ end.error \in Errors
  <2> DEFINE late == ok /\ c.session.mode = "Replay" /\ c.session.cursor # Len(c.session.entries)
  <2>1. end = IF late THEN [ok |-> FALSE, error |-> "ReplayMismatch"] ELSE [ok |-> ok, error |-> error]
    BY DEF Finish
  <2>2. late => ok /\ c.mode = "Replay" /\ c.session.cursor # Len(c.session.entries)
    OBVIOUS
  <2>3. ~late => ~ok \/ c.mode # "Replay" \/ c.session.cursor = Len(c.session.entries)
    OBVIOUS
  <2> HIDE DEF late, end
  <2>4. /\ late => end.ok = FALSE /\ end.error = "ReplayMismatch"
        /\ ~late => end.ok = ok /\ end.error = error
    BY <2>1
  <2>5. "ReplayMismatch" \in Errors /\ FALSE \in BOOLEAN
    BY DEF Errors
  <2> QED BY <2>2, <2>3, <2>4, <2>5, Zenon
<1> HIDE DEF end
<1>3. /\ done \in Calls /\ done.step = "done" /\ done.mode = c.mode
      /\ done.program = c.program /\ done.bindings = c.bindings
      /\ done.heap = c.heap /\ done.function = c.function
      /\ done.argument = c.argument /\ done.passed = c.passed
      /\ done.session = c.session /\ done.trace = c.trace
      /\ done.master = c.master /\ done.last = c.last
      /\ done.ok = end.ok /\ done.error = end.error
  BY <1>2 DEF Calls
<1> HIDE DEF done
<1>4. /\ calls \in [Threads -> Calls] /\ tape \in Seq(Ends) /\ c.mode \in {"Off", "Strict", "Record", "Replay"}
  BY DEF Typed, Calls, Modes
<1>5. OnTape(done) \in Ends
  BY <1>3 DEF OnTape, Ends, Calls
<1>6. calls' \in [Threads -> Calls] /\ tape' \in Seq(Ends)
      /\ \A u \in Threads \ {t} : calls'[u] = calls[u]
  BY <1>1, <1>3, <1>4, <1>5, IdleTyped
<1>7. CASE c.mode = "Replay"
  BY <1>1, <1>2, <1>3, <1>4, <1>6, <1>7 DEF EndsAs, SameSubject
<1>8. CASE c.mode = "Record"
  <2>1. end.ok = ok /\ end.error = error
    BY <1>2, <1>8
  <2>2. OnTape(done) = EndOf(c, ok, error)
    BY <1>3, <2>1 DEF OnTape, EndOf
  <2> QED BY <1>1, <1>4, <1>6, <1>8, <2>2 DEF EndsAs
<1>9. CASE c.mode \in {"Off", "Strict"}
  BY <1>1, <1>4, <1>6, <1>9 DEF EndsAs
<1> QED BY <1>4, <1>7, <1>8, <1>9

-----------------------------------------------------------------------------
(* What steps of calls leave alone. *)

\* One call changes, within its image and its heap.
OneCall(t) ==
    /\ calls' \in [Threads -> Calls]
    /\ \A u \in Threads \ {t} : calls'[u] = calls[u]
    /\ calls'[t].heap \in 1 .. Len(heaps')
    /\ calls'[t].master \in 0 .. Len(tape')
    /\ calls'[t].step \in {"snapped", "running"} =>
        /\ Kin(engine.program, calls'[t].program)
        /\ calls'[t].function \in DOMAIN Images[calls'[t].program].functions
    /\ calls'[t].step = "running" => calls'[t].session.mode = calls'[t].mode
    /\ tape' \in Seq(Ends) /\ Len(tape) <= Len(tape')

LEMMA OneCallKeepsShape ==
  ASSUME Typed, KeepsShape, NEW t \in Threads, OneCall(t),
         UNCHANGED <<engine, heaps, reloads>>,
         log' \in [supplied : BOOLEAN, entries : Seq(Entries)],
         counts' \in [invocations : Nat, recordings : Nat, reloads : Nat, swaps : Nat]
  PROVE  Typed' /\ KeepsShape'
<1>1. ASSUME NEW u \in Threads
      PROVE  /\ calls'[u].heap \in 1 .. Len(heaps')
             /\ calls'[u].master \in 0 .. Len(tape')
             /\ calls'[u].step \in {"snapped", "running"} =>
                /\ Kin(engine.program, calls'[u].program)
                /\ calls'[u].function \in DOMAIN Images[calls'[u].program].functions
             /\ calls'[u].step = "running" => calls'[u].session.mode = calls'[u].mode
  <2>1. CASE u = t
    BY <2>1 DEF OneCall
  <2>2. CASE u # t
    <3>1. calls'[u] = calls[u] /\ Len(tape) <= Len(tape') /\ Len(tape) \in Nat /\ Len(tape') \in Nat
      BY <2>2, SMTT(30) DEF OneCall, Typed
    <3>2. calls[u].master \in 0 .. Len(tape) => calls[u].master \in 0 .. Len(tape')
      BY <3>1
    <3> QED BY <3>1, <3>2 DEF Typed, KeepsShape
  <2> QED BY <2>1, <2>2
<1>2. Typed'
  BY <1>1 DEF Typed, OneCall
<1>3. KeepsShape'
  BY <1>1 DEF KeepsShape
<1> QED BY <1>2, <1>3

-----------------------------------------------------------------------------
(* What the steps of a call do. *)

LEMMA Executing ==
  ASSUME Typed, NEW t \in Threads, NEW op, Running(t, op)
  PROVE  /\ calls[t] \in Calls /\ calls[t].step = "running"
         /\ calls[t].session.mode = calls[t].mode
         /\ calls[t].function \in DOMAIN Images[calls[t].program].functions
         /\ calls[t].at \in 1 .. Len(Function(calls[t]).body)
         /\ Function(calls[t]).body \in Seq(Steps)
         /\ Operand(t) = Function(calls[t]).body[calls[t].at]
         /\ Operand(t) \in Steps /\ Operand(t).op = op
         /\ op \in {"new", "get"} => Operand(t).of \in DOMAIN Images[calls[t].program].types
<1> DEFINE c == calls[t]
           body == Function(c).body
<1>1. c \in Calls /\ c.step = "running" /\ c.session.mode = c.mode
      /\ c.function \in DOMAIN Images[c.program].functions
      /\ c.at <= Len(body) /\ body[c.at].op = op
  BY DEF Running, Typed
<1>2. c.program \in DOMAIN Images /\ c.at \in Nat \ {0}
  BY <1>1 DEF Calls
<1>3. body \in Seq(Steps)
      /\ \A j \in 1 .. Len(body) :
            body[j].op \in {"new", "get"} => body[j].of \in DOMAIN Images[c.program].types
  BY <1>1, <1>2, EngineAssumption DEF Function
<1> HIDE DEF body
<1>4. c.at \in 1 .. Len(body) /\ body[c.at] \in Steps
  BY <1>1, <1>2, <1>3
<1> QED BY <1>1, <1>3, <1>4 DEF Operand, body

LEMMA Enters ==
  ASSUME Typed, KeepsShape, NEW t \in Threads, Enter(t)
  PROVE  /\ OneCall(t) /\ UNCHANGED <<engine, heaps, log, reloads, tape>>
         /\ counts' \in [invocations : Nat, recordings : Nat, reloads : Nat, swaps : Nat]
         /\ counts'.recordings = IF calls[t].mode = "Record" THEN counts.recordings + 1
                                 ELSE counts.recordings
         /\ calls[t].step = "snapped" /\ calls'[t].step = "running"
         /\ calls'[t].mode = calls[t].mode
         /\ calls'[t].at = calls[t].at /\ calls'[t].last = calls[t].last
         /\ calls'[t].argument = calls[t].argument /\ calls'[t].object = calls[t].object
         /\ calls'[t].passed = calls[t].passed /\ calls'[t].trace = calls[t].trace
         /\ calls'[t].session = NewSession(calls[t].mode, log)
         /\ calls'[t].master = IF counts.recordings = 1 THEN Len(tape) ELSE 0
<1> DEFINE c == calls[t]
           master == IF counts.recordings = 1 THEN Len(tape) ELSE 0
           session == NewSession(c.mode, log)
           d == [c EXCEPT !.step = "running", !.heap = engine.heap,
                          !.bindings = engine.bindings, !.session = session, !.master = master]
<1>1. /\ c.step = "snapped"
      /\ calls' = [calls EXCEPT ![t] = d]
      /\ counts' = IF c.mode = "Record" THEN [counts EXCEPT !.recordings = counts.recordings + 1]
                   ELSE counts
      /\ UNCHANGED <<engine, heaps, log, reloads, tape>>
  BY DEF Enter
<1>2. c \in Calls /\ calls \in [Threads -> Calls] /\ log \in Logs /\ tape \in Seq(Ends)
      /\ engine.heap \in 1 .. Len(heaps) /\ engine.bindings \in DOMAIN Registries
      /\ c.mode \in Modes /\ heaps \in Seq(Seq(Objects))
      /\ counts \in [invocations : Nat, recordings : Nat, reloads : Nat, swaps : Nat]
  BY DEF Typed, Calls, Logs
<1>3. session \in Sessions /\ session.mode = c.mode
  BY <1>2, SessionTyped
<1> HIDE DEF session
<1>4. master \in 0 .. Len(tape) /\ master \in Nat
  BY <1>2
<1> HIDE DEF master
<1>5. engine.heap \in Nat
  BY <1>2
<1>6. /\ d \in Calls /\ d.step = "running" /\ d.heap = engine.heap /\ d.session = session
      /\ d.master = master /\ d.program = c.program /\ d.function = c.function
      /\ d.mode = c.mode /\ d.at = c.at /\ d.last = c.last /\ d.argument = c.argument
      /\ d.object = c.object /\ d.passed = c.passed /\ d.trace = c.trace
  BY <1>2, <1>3, <1>4, <1>5 DEF Calls
<1> HIDE DEF d
<1>7. calls'[t] = d /\ calls' \in [Threads -> Calls] /\ \A u \in Threads \ {t} : calls'[u] = calls[u]
  BY <1>1, <1>2, <1>6
<1>8. Kin(engine.program, c.program) /\ c.function \in DOMAIN Images[c.program].functions
  BY <1>1 DEF KeepsShape, Typed
<1>9. OneCall(t)
  BY <1>1, <1>2, <1>3, <1>4, <1>6, <1>7, <1>8 DEF OneCall
<1>10. counts' \in [invocations : Nat, recordings : Nat, reloads : Nat, swaps : Nat]
       /\ counts'.recordings = IF c.mode = "Record" THEN counts.recordings + 1 ELSE counts.recordings
  BY <1>1, <1>2, SMTT(30)
<1> QED BY <1>1, <1>6, <1>7, <1>9, <1>10 DEF session, master

LEMMA Invokes ==
  ASSUME Typed, KeepsShape, NEW t \in Threads, Invoke(t)
  PROVE  /\ OneCall(t) /\ UNCHANGED <<engine, heaps, log, reloads, tape>>
         /\ counts' \in [invocations : Nat, recordings : Nat, reloads : Nat, swaps : Nat]
         /\ counts'.recordings = counts.recordings
         /\ calls[t].step \in {"idle", "done"}
         /\ calls'[t].step \in {"snapped", "done"}
         /\ calls'[t].step = "done" => calls'[t].error = "FunctionNotFound"
         /\ calls'[t].at = 1 /\ calls'[t].last = calls'[t].argument
         /\ calls'[t].object = calls'[t].passed /\ calls'[t].trace = <<>>
<1>1. /\ calls[t].step \in {"idle", "done"}
      /\ counts' = [counts EXCEPT !.invocations = counts.invocations + 1]
      /\ UNCHANGED <<engine, heaps, log, reloads, tape>>
  BY DEF Invoke
<1> DEFINE called(mode, argument, name, object) ==
             [Idle EXCEPT !.step = IF name \in DOMAIN Images[engine.program].functions
                                   THEN "snapped" ELSE "done",
                          !.program = engine.program, !.mode = mode, !.function = name,
                          !.argument = argument, !.last = argument,
                          !.object = object, !.passed = object,
                          !.ok = name \in DOMAIN Images[engine.program].functions,
                          !.error = IF name \in DOMAIN Images[engine.program].functions
                                    THEN "None" ELSE "FunctionNotFound"]
<1>2. PICK mode \in UsedModes, argument \in InvokeArguments,
           name \in UNION {DOMAIN Images[i].functions : i \in DOMAIN Images} :
        \E object \in Passable(Images[engine.program], name) :
            calls' = [calls EXCEPT ![t] = called(mode, argument, name, object)]
  BY DEF Invoke
<1>3. PICK object \in Passable(Images[engine.program], name) :
        calls' = [calls EXCEPT ![t] = called(mode, argument, name, object)]
  BY <1>2
<1> DEFINE found == name \in DOMAIN Images[engine.program].functions
           step == IF found THEN "snapped" ELSE "done"
           error == IF found THEN "None" ELSE "FunctionNotFound"
           d == called(mode, argument, name, object)
<1>4. /\ calls \in [Threads -> Calls] /\ tape \in Seq(Ends) /\ heaps \in Seq(Seq(Objects))
      /\ engine.program \in DOMAIN Images /\ engine.heap \in 1 .. Len(heaps)
      /\ counts \in [invocations : Nat, recordings : Nat, reloads : Nat, swaps : Nat]
  BY DEF Typed
<1>5. mode \in Modes /\ argument \in Nat /\ name \in FunctionNames
  BY <1>2, EngineAssumption DEF FunctionNames
<1>6. object \in Nat
  <2>1. heaps[engine.heap] \in Seq(Objects)
    BY <1>4
  <2>2. Len(heaps[engine.heap]) \in Nat
    BY <2>1
  <2> QED BY <1>3, <2>2 DEF Passable
<1>7. step \in {"idle", "snapped", "running", "done"} /\ error \in Errors /\ found \in BOOLEAN
      /\ step \in {"snapped", "done"} /\ (step = "snapped" => found)
      /\ (step = "done" => error = "FunctionNotFound")
  BY DEF Errors
<1> DEFINE e == [Idle EXCEPT !.step = step, !.program = engine.program, !.mode = mode,
                         !.function = name, !.argument = argument, !.last = argument,
                         !.object = object, !.passed = object, !.ok = found, !.error = error]
<1>8. d = e /\ calls' = [calls EXCEPT ![t] = d]
  BY <1>3
<1> HIDE DEF found, step, error, d, called
<1>9. /\ d \in Calls /\ d.step = step /\ d.program = engine.program /\ d.mode = mode
      /\ d.function = name /\ d.argument = argument /\ d.last = argument
      /\ d.object = object /\ d.passed = object /\ d.error = error
      /\ d.heap = 1 /\ d.master = 0 /\ d.at = 1 /\ d.trace = <<>>
  <2>1. Idle \in Calls /\ Idle.heap = 1 /\ Idle.master = 0 /\ Idle.at = 1 /\ Idle.trace = <<>>
    BY IdleTyped
  <2>2. /\ e \in Calls /\ e.step = step /\ e.program = engine.program /\ e.mode = mode
        /\ e.function = name /\ e.argument = argument /\ e.last = argument
        /\ e.object = object /\ e.passed = object /\ e.error = error
        /\ e.heap = 1 /\ e.master = 0 /\ e.at = 1 /\ e.trace = <<>>
    BY <1>4, <1>5, <1>6, <1>7, <2>1 DEF Calls
  <2> HIDE DEF e
  <2> QED BY <1>8, <2>2
<1> HIDE DEF e
<1>10. calls'[t] = d /\ calls' \in [Threads -> Calls] /\ \A u \in Threads \ {t} : calls'[u] = calls[u]
  BY <1>4, <1>8, <1>9
<1>11. Kin(engine.program, engine.program)
  BY <1>4, KinIsEquivalence
<1>12. 1 \in 1 .. Len(heaps) /\ 0 \in 0 .. Len(tape)
  BY <1>4
<1>13. OneCall(t)
  BY <1>1, <1>4, <1>7, <1>9, <1>10, <1>11, <1>12 DEF OneCall, found
<1>14. counts' \in [invocations : Nat, recordings : Nat, reloads : Nat, swaps : Nat]
       /\ counts'.recordings = counts.recordings
  <2>1. counts.invocations + 1 \in Nat
    BY <1>4
  <2> QED BY <1>1, <1>4, <2>1
<1> QED BY <1>1, <1>7, <1>9, <1>10, <1>13, <1>14

\* A call that has come as far as another one of the same subject.
AsFar(c, a) ==
    /\ c \in Calls /\ SameSubject(c, a) /\ c.step = "running" /\ c.session.mode = c.mode
    /\ c.at = a.at /\ c.last = a.last /\ c.object = a.object

\* The call goes on, from what a call of a host function made of it.
GoesOn(t, c, value) == calls' = [calls EXCEPT ![t] = Went(c, value)] /\ tape' = tape

LEMMA GoingOn ==
  ASSUME Typed, KeepsShape, NEW t \in Threads, calls[t].step = "running",
         NEW c, AsFar(c, calls[t]), NEW value \in Nat, GoesOn(t, c, value),
         Len(heaps') = Len(heaps)
  PROVE  /\ OneCall(t) /\ calls'[t] = Went(c, value)
         /\ AsFar([calls'[t] EXCEPT !.at = c.at, !.last = c.last], calls[t])
<1>1. calls \in [Threads -> Calls] /\ tape \in Seq(Ends)
      /\ calls[t].heap \in 1 .. Len(heaps) /\ calls[t].master \in 0 .. Len(tape)
      /\ calls[t].function \in DOMAIN Images[calls[t].program].functions
  BY DEF Typed
<1>2. Kin(engine.program, calls[t].program)
  BY DEF KeepsShape
<1> DEFINE d == Went(c, value)
<1>3. /\ c \in Calls /\ c.step = "running" /\ c.session.mode = c.mode
      /\ SameSubject(c, calls[t]) /\ c.at = calls[t].at /\ c.last = calls[t].last
      /\ c.object = calls[t].object
  BY DEF AsFar
<1>4. /\ d \in Calls /\ d.step = "running" /\ d.session.mode = d.mode
      /\ SameSubject(d, calls[t]) /\ d.object = c.object
  BY <1>3, WentOn DEF SameSubject
<1>5. calls' = [calls EXCEPT ![t] = d] /\ tape' = tape
  BY DEF GoesOn
<1> HIDE DEF d
<1>6. calls'[t] = d /\ calls' \in [Threads -> Calls] /\ \A u \in Threads \ {t} : calls'[u] = calls[u]
  BY <1>1, <1>4, <1>5
<1>7. OneCall(t)
  <2>1. Len(tape) <= Len(tape')
    BY <1>1, <1>5
  <2> QED BY <1>1, <1>2, <1>4, <1>5, <1>6, <2>1 DEF OneCall, SameSubject
<1>8. AsFar([d EXCEPT !.at = c.at, !.last = c.last], calls[t])
  <2> DEFINE e == [d EXCEPT !.at = c.at, !.last = c.last]
  <2>1. /\ e \in Calls /\ e.step = d.step /\ e.session = d.session /\ e.mode = d.mode
        /\ e.at = c.at /\ e.last = c.last /\ e.object = d.object
        /\ e.program = d.program /\ e.bindings = d.bindings /\ e.heap = d.heap
        /\ e.function = d.function /\ e.argument = d.argument /\ e.passed = d.passed
        /\ e.master = d.master
    BY <1>3, <1>4 DEF Calls
  <2> HIDE DEF e
  <2>2. AsFar(e, calls[t])
    BY <1>3, <1>4, <2>1 DEF AsFar, SameSubject
  <2> QED BY <2>2 DEF e
<1> QED BY <1>6, <1>7, <1>8 DEF d

LEMMA EndIsOneCall ==
  ASSUME Typed, KeepsShape, NEW t \in Threads, calls[t].step = "running",
         NEW c, AsFar(c, calls[t]), NEW ok \in BOOLEAN, NEW error \in Errors,
         Ended(t, c, ok, error), Len(heaps') = Len(heaps)
  PROVE  OneCall(t)
<1>1. calls \in [Threads -> Calls] /\ tape \in Seq(Ends) /\ heaps \in Seq(Seq(Objects))
      /\ calls[t].heap \in 1 .. Len(heaps) /\ calls[t].master \in 0 .. Len(tape)
  BY DEF Typed
<1>2. c \in Calls /\ c.session.mode = c.mode /\ c.heap = calls[t].heap
      /\ c.master = calls[t].master
  BY DEF AsFar, SameSubject
<1>3. /\ calls' \in [Threads -> Calls]
      /\ \A u \in Threads \ {t} : calls'[u] = calls[u]
      /\ tape' \in Seq(Ends)
      /\ \/ /\ tape' = tape /\ calls'[t].step = "done" /\ calls'[t].heap = c.heap
            /\ calls'[t].master = c.master
         \/ /\ calls'[t] = Idle /\ (tape' = tape \/ \E x \in Ends : tape' = Append(tape, x))
  <2>1. EndOf(c, ok, error) \in Ends
    BY <1>2 DEF EndOf, Ends, Calls
  <2>2. EndsAs(t, c, ok, error)
    BY <1>2, EndedCall
  <2> QED BY <2>1, <2>2 DEF EndsAs, SameSubject
<1>4. Len(tape) <= Len(tape') /\ 0 \in 0 .. Len(tape') /\ 1 \in 1 .. Len(heaps)
  BY <1>1, <1>3
<1> QED BY <1>1, <1>2, <1>3, <1>4, IdleTyped DEF OneCall

LEMMA AsFarAsItself ==
  ASSUME NEW c \in Calls, c.step = "running", c.session.mode = c.mode
  PROVE  AsFar(c, c)
BY DEF AsFar, SameSubject

\* The object that New puts on the heap.
Made(t) ==
    [type   |-> Operand(t).of,
     fields |-> Images[calls[t].program].types[Operand(t).of].fields]

\* What a field read from an object of a type is, to the call.
Read(c, type, index) ==
    IF Images[c.program].types[type].fields[index].type = "int" THEN 1 ELSE Handle

LEMMA Makes ==
  ASSUME Typed, KeepsShape, NEW t \in Threads, New(t)
  PROVE  LET n == calls[t].heap IN
         /\ UNCHANGED <<engine, log, reloads, tape, counts>>
         /\ heaps' = [heaps EXCEPT ![n] = Append(heaps[n], Made(t))]
         /\ Made(t) \in Objects
         /\ Made(t).type \in DOMAIN Images[engine.program].types
         /\ Made(t).fields = Images[engine.program].types[Made(t).type].fields
         /\ calls'[t] = [Went(calls[t], Handle) EXCEPT !.object = Len(heaps[n]) + 1]
         /\ OneCall(t)
<1> DEFINE c == calls[t]
           n == c.heap
           d == [Went(c, Handle) EXCEPT !.object = Len(heaps[n]) + 1]
<1>1. Running(t, "new")
  BY DEF New
<1>2. /\ c \in Calls /\ c.step = "running" /\ c.session.mode = c.mode
      /\ c.function \in DOMAIN Images[c.program].functions
      /\ Operand(t) \in Steps /\ Operand(t).of \in DOMAIN Images[c.program].types
  BY <1>1, Executing
<1>3. /\ heaps \in Seq(Seq(Objects)) /\ n \in 1 .. Len(heaps) /\ calls \in [Threads -> Calls]
      /\ tape \in Seq(Ends) /\ c.master \in 0 .. Len(tape) /\ engine.program \in DOMAIN Images
  BY DEF Typed
<1>4. heaps[n] \in Seq(Objects) /\ c.program \in DOMAIN Images /\ Kin(engine.program, c.program)
  BY <1>2, <1>3 DEF Calls, KeepsShape
<1>5. /\ heaps' = [heaps EXCEPT ![n] = Append(heaps[n], Made(t))]
      /\ UNCHANGED <<engine, log, reloads, tape, counts>>
      /\ calls' = [calls EXCEPT ![t] = [Went(c, Handle) EXCEPT !.object = Len(heaps'[n])]]
  BY DEF New, Made
<1>6. /\ Made(t).type = Operand(t).of
      /\ Made(t).fields = Images[c.program].types[Operand(t).of].fields
      /\ Operand(t).of \in STRING
  BY <1>2 DEF Made, Steps
<1>7. /\ DOMAIN Images[engine.program].types = DOMAIN Images[c.program].types
      /\ \A x \in DOMAIN Images[engine.program].types :
            Images[engine.program].types[x].fields = Images[c.program].types[x].fields
  BY <1>3, <1>4, KinTypes
<1>8. Images[c.program].types[Operand(t).of].fields \in Seq(Fields)
  BY <1>2, <1>4, EngineAssumption
<1>9. /\ Made(t) \in Objects
      /\ Made(t).type \in DOMAIN Images[engine.program].types
      /\ Made(t).fields = Images[engine.program].types[Made(t).type].fields
  <2>1. Made(t) \in Objects
    BY <1>6, <1>8 DEF Made, Objects
  <2> QED BY <1>2, <1>6, <1>7, <2>1
<1>10. heaps'[n] = Append(heaps[n], Made(t)) /\ Len(heaps'[n]) = Len(heaps[n]) + 1
       /\ Len(heaps') = Len(heaps)
  BY <1>3, <1>4, <1>5, <1>9
<1>11. calls' = [calls EXCEPT ![t] = d]
  BY <1>5, <1>10
<1>12. Handle \in Nat
  BY DEF Handle
<1>13. /\ Went(c, Handle) \in Calls /\ Went(c, Handle).step = c.step
       /\ Went(c, Handle).heap = n /\ Went(c, Handle).master = c.master
       /\ Went(c, Handle).program = c.program /\ Went(c, Handle).function = c.function
       /\ Went(c, Handle).session = c.session /\ Went(c, Handle).mode = c.mode
  BY <1>2, <1>12, WentOn
<1>14. Len(heaps[n]) + 1 \in Nat
  BY <1>4
<1>15. /\ d \in Calls /\ d.heap = n /\ d.master = c.master /\ d.program = c.program
       /\ d.function = c.function /\ d.session = c.session /\ d.mode = c.mode
  BY <1>13, <1>14 DEF Calls
<1> HIDE DEF d
<1>16. /\ calls'[t] = d /\ calls' \in [Threads -> Calls]
       /\ \A u \in Threads \ {t} : calls'[u] = calls[u]
  BY <1>3, <1>11, <1>15
<1>17. OneCall(t)
  <2>1. tape' = tape /\ Len(tape) <= Len(tape')
    BY <1>3, <1>5
  <2>2. d.heap \in 1 .. Len(heaps') /\ d.master \in 0 .. Len(tape')
    BY <1>3, <1>10, <1>15, <2>1
  <2>3. /\ Kin(engine.program, d.program) /\ d.session.mode = d.mode
        /\ d.function \in DOMAIN Images[d.program].functions
    BY <1>2, <1>4, <1>15
  <2> QED BY <1>3, <1>16, <2>1, <2>2, <2>3 DEF OneCall
<1> QED BY <1>5, <1>9, <1>16, <1>17 DEF d

\* What is read does not depend on the object: it has the fields of its type.
LEMMA Reads ==
  ASSUME Typed, KeepsShape, NEW t \in Threads, Get(t)
  PROVE  LET c == calls[t]
             objects == heaps[c.heap]
         IN
         /\ UNCHANGED <<engine, heaps, log, reloads, counts>>
         /\ OneCall(t)
         /\ \/ c.object \notin DOMAIN objects /\ EndsAs(t, c, FALSE, "InvalidObjectReference")
            \/ /\ c.object \in DOMAIN objects /\ objects[c.object].type # Operand(t).of
               /\ EndsAs(t, c, FALSE, "TypeMismatch")
            \/ /\ c.object \in DOMAIN objects /\ objects[c.object].type = Operand(t).of
               /\ tape' = tape
               /\ calls'[t] = Went(c, Read(c, Operand(t).of, Operand(t).index))
<1> DEFINE c == calls[t]
           objects == heaps[c.heap]
<1>1. Running(t, "get")
  BY DEF Get
<1>2. /\ c \in Calls /\ c.step = "running" /\ c.session.mode = c.mode
      /\ Operand(t) \in Steps /\ Operand(t).of \in DOMAIN Images[c.program].types
  BY <1>1, Executing
<1>3. UNCHANGED <<engine, heaps, log, reloads, counts>>
  BY DEF Get
<1>4. AsFar(c, c) /\ {"InvalidObjectReference", "TypeMismatch"} \subseteq Errors
      /\ FALSE \in BOOLEAN
  BY <1>2, AsFarAsItself DEF Errors
<1>5. CASE c.object \notin DOMAIN objects
  <2>1. Ended(t, c, FALSE, "InvalidObjectReference")
    BY <1>5 DEF Get
  <2>2. EndsAs(t, c, FALSE, "InvalidObjectReference")
    BY <1>2, <1>4, <2>1, EndedCall
  <2>3. OneCall(t)
    BY <1>2, <1>3, <1>4, <2>1, EndIsOneCall
  <2> QED BY <1>3, <1>5, <2>2, <2>3
<1>6. CASE c.object \in DOMAIN objects /\ objects[c.object].type # Operand(t).of
  <2>1. Ended(t, c, FALSE, "TypeMismatch")
    BY <1>6 DEF Get
  <2>2. EndsAs(t, c, FALSE, "TypeMismatch")
    BY <1>2, <1>4, <2>1, EndedCall
  <2>3. OneCall(t)
    BY <1>2, <1>3, <1>4, <2>1, EndIsOneCall
  <2> QED BY <1>3, <1>6, <2>2, <2>3
<1>7. CASE c.object \in DOMAIN objects /\ objects[c.object].type = Operand(t).of
  <2>1. heaps \in Seq(Seq(Objects)) /\ c.heap \in 1 .. Len(heaps) /\ engine.program \in DOMAIN Images
        /\ c.program \in DOMAIN Images
    BY <1>2 DEF Typed, Calls
  <2>2. objects \in Seq(Objects) /\ c.object \in 1 .. Len(objects)
    BY <1>7, <2>1
  <2>3. objects[c.object].fields = Images[engine.program].types[Operand(t).of].fields
    BY <1>7, <2>1, <2>2 DEF KeepsShape
  <2>4. Kin(engine.program, c.program)
    BY <1>2 DEF KeepsShape
  <2>5. objects[c.object].fields = Images[c.program].types[Operand(t).of].fields
    BY <1>2, <2>1, <2>3, <2>4, KinTypes
  <2>6. GoesOn(t, c, Read(c, Operand(t).of, Operand(t).index))
    BY <1>7, <2>5 DEF Get, GoesOn, Read
  <2>7. Read(c, Operand(t).of, Operand(t).index) \in Nat
    BY DEF Read, Handle
  <2> DEFINE value == Read(c, Operand(t).of, Operand(t).index)
  <2> HIDE DEF value
  <2>8. OneCall(t) /\ calls'[t] = Went(c, value)
    BY <1>2, <1>3, <1>4, <2>6, <2>7, GoingOn DEF value
  <2> QED BY <1>3, <1>7, <2>6, <2>8 DEF GoesOn, value
<1> QED BY <1>5, <1>6, <1>7

LEMMA Returns ==
  ASSUME Typed, KeepsShape, NEW t \in Threads, Return(t)
  PROVE  /\ calls[t] \in Calls /\ calls[t].step = "running"
         /\ calls[t].session.mode = calls[t].mode
         /\ calls[t].at > Len(Function(calls[t]).body)
         /\ UNCHANGED <<engine, heaps, log, reloads, counts>>
         /\ OneCall(t) /\ EndsAs(t, calls[t], TRUE, "None")
<1>1. /\ calls[t].step = "running" /\ calls[t].at > Len(Function(calls[t]).body)
      /\ Ended(t, calls[t], TRUE, "None")
      /\ UNCHANGED <<engine, heaps, log, reloads, counts>>
  BY DEF Return
<1>2. calls[t] \in Calls /\ calls[t].session.mode = calls[t].mode
  BY <1>1 DEF Typed
<1>3. AsFar(calls[t], calls[t]) /\ "None" \in Errors /\ TRUE \in BOOLEAN
  BY <1>1, <1>2, AsFarAsItself DEF Errors
<1>4. EndsAs(t, calls[t], TRUE, "None")
  BY <1>1, <1>2, <1>3, EndedCall
<1>5. OneCall(t)
  BY <1>1, <1>3, EndIsOneCall
<1> QED BY <1>1, <1>2, <1>4, <1>5

\* What a call of a host function does to the call that makes it.
Name(t) == Operand(t).of
Binding(t) == Registries[calls[t].bindings][Name(t)]
NextEntry(c) == c.session.entries[c.session.cursor + 1]
Advanced(c) == [c.session EXCEPT !.cursor = c.session.cursor + 1]
Expected(t) ==
    /\ calls[t].session.cursor < Len(calls[t].session.entries)
    /\ Matches(NextEntry(calls[t]), Name(t), calls[t].last)

AskedFreely(t) ==
    /\ ~Policed(Binding(t)) /\ log' = log /\ tape' = tape
    /\ calls'[t] = Went(calls[t], calls[t].last)

AskedTheLog(t, c) ==
    /\ Policed(Binding(t)) /\ calls[t].mode = "Replay" /\ log' = log
    /\ AsFar(c, calls[t])
    /\ \/ ~Expected(t) /\ EndsAs(t, c, FALSE, "ReplayMismatch")
       \/ Expected(t) /\ ~NextEntry(calls[t]).ok /\ EndsAs(t, c, FALSE, "HostError")
       \/ /\ Expected(t) /\ NextEntry(calls[t]).ok /\ NextEntry(calls[t]) \in Entries
          /\ c.session = Advanced(calls[t])
          /\ c.trace = Append(calls[t].trace, NextEntry(calls[t]))
          /\ tape' = tape /\ calls'[t] = Went(c, NextEntry(calls[t]).value)

AskedForTheLog(t, c, host) ==
    LET entry == Entry(Name(t), calls[t].last, host) IN
    /\ Policed(Binding(t)) /\ calls[t].mode = "Record"
    /\ AsFar(c, calls[t])
    /\ \/ /\ log' = log
          /\ EndsAs(t, c, FALSE, "DeterminismViolation")
             \/ EndsAs(t, c, FALSE, "ExternalFunctionUnresolved")
       \/ /\ log' = [log EXCEPT !.entries = Append(log.entries, entry)]
          /\ \/ host.ok /\ tape' = tape /\ calls'[t] = Went(c, host.value)
             \/ ~host.ok /\ EndsAs(t, c, FALSE, "HostError")

AskedOtherwise(t, c) ==
    /\ calls[t].mode \in {"Off", "Strict"} /\ log' = log
    /\ AsFar(c, calls[t])
    /\ \/ \E value \in Nat : tape' = tape /\ calls'[t] = Went(c, value)
       \/ \E error \in Errors : EndsAs(t, c, FALSE, error)

LEMMA Asks ==
  ASSUME Typed, KeepsShape, NEW t \in Threads, Call(t)
  PROVE  /\ UNCHANGED <<engine, heaps, reloads, counts>>
         /\ log' \in Logs /\ OneCall(t)
         /\ \/ AskedFreely(t)
            \/ \E c \in Calls : AskedTheLog(t, c)
            \/ \E c \in Calls, host \in Hosts : AskedForTheLog(t, c, host)
            \/ \E c \in Calls : AskedOtherwise(t, c)
<1> DEFINE a == calls[t]
           binding == Binding(t)
           name == Name(t)
<1>1. Running(t, "call") /\ UNCHANGED <<engine, heaps, reloads, counts>>
  BY DEF Call
<1>2. /\ a \in Calls /\ a.step = "running" /\ a.session.mode = a.mode
      /\ Operand(t) \in Steps
  BY <1>1, Executing
<1>3. a.session \in Sessions /\ a.last \in Nat /\ a.trace \in Seq(Entries) /\ log \in Logs
      /\ name \in STRING
  BY <1>2 DEF Calls, Typed, Logs, Name, Steps
<1> DEFINE asked(host) == InvokeExternal(a.session, log, binding, name, a.last, host)
           given(host) == [ok |-> asked(host).ok,
                           value |-> IF asked(host).ok THEN asked(host).value ELSE Handle]
           next(host) ==
             [a EXCEPT !.session = asked(host).session,
                       !.trace = IF Policed(binding) THEN Append(@, Entry(name, a.last, given(host)))
                                 ELSE @]
<1>4. PICK host \in HostAnswers(binding, a.last) :
        /\ log' = asked(host).log
        /\ IF asked(host).ok
           THEN GoesOn(t, next(host), asked(host).value)
           ELSE Ended(t, next(host), FALSE, asked(host).error)
  BY DEF Call, Binding, Name, GoesOn
<1> DEFINE answer == asked(host)
           c == next(host)
<1> HIDE DEF next, given, asked
<1>5. Policed(binding) => host \in Hosts
  BY <1>4, EngineAssumption DEF HostAnswers, Hosts
<1>6. ASSUME answer.session \in Sessions, answer.session.mode = a.mode,
             answer.ok \in BOOLEAN, answer.value \in Nat
      PROVE  /\ AsFar(c, a) /\ c \in Calls /\ c.session = answer.session
             /\ c.trace = IF Policed(binding) THEN Append(a.trace, Entry(name, a.last, given(host)))
                         ELSE a.trace
  <2> DEFINE entry == Entry(name, a.last, given(host))
             trace == IF Policed(binding) THEN Append(a.trace, entry) ELSE a.trace
             session == answer.session
  <2>1. given(host) \in Hosts
    <3>1. Handle \in Nat
      BY DEF Handle
    <3> QED BY <1>6, <3>1 DEF given, Hosts
  <2>2. entry \in Entries
    BY <1>3, <2>1, EntryTyped
  <2>3. c = [a EXCEPT !.session = session, !.trace = trace]
    BY DEF next
  <2> HIDE DEF entry
  <2>4. trace \in Seq(Entries)
    BY <1>3, <2>2
  <2>5. session \in Sessions /\ session.mode = a.mode
    BY <1>6
  <2> HIDE DEF trace, session, c
  <2>6. c \in Calls /\ c.session = session /\ c.trace = trace
    BY <1>2, <2>3, <2>4, <2>5 DEF Calls
  <2>7. AsFar(c, a)
    <3>1. /\ c.program = a.program /\ c.bindings = a.bindings /\ c.heap = a.heap
          /\ c.mode = a.mode /\ c.function = a.function /\ c.argument = a.argument
          /\ c.passed = a.passed /\ c.master = a.master /\ c.step = a.step
          /\ c.at = a.at /\ c.last = a.last /\ c.object = a.object
      BY <1>2, <2>3 DEF Calls
    <3> QED BY <1>2, <2>5, <2>6, <3>1 DEF AsFar, SameSubject
  <2> QED BY <2>6, <2>7 DEF trace, session, entry
<1> HIDE DEF c, answer
<1>7. ASSUME AsFar(c, a), answer.ok = FALSE, answer.error \in Errors
      PROVE  OneCall(t) /\ EndsAs(t, c, FALSE, answer.error)
  <2>1. Ended(t, c, FALSE, answer.error) /\ FALSE \in BOOLEAN
    BY <1>4, <1>7 DEF c, answer
  <2>2. c \in Calls /\ c.session.mode = c.mode
    BY <1>7 DEF AsFar
  <2>3. EndsAs(t, c, FALSE, answer.error)
    BY <1>7, <2>1, <2>2, EndedCall
  <2>4. OneCall(t)
    BY <1>1, <1>2, <1>7, <2>1, EndIsOneCall
  <2> QED BY <2>3, <2>4
<1>8. ASSUME AsFar(c, a), answer.ok = TRUE, answer.value \in Nat
      PROVE  OneCall(t) /\ tape' = tape /\ calls'[t] = Went(c, answer.value)
  <2>1. GoesOn(t, c, answer.value)
    BY <1>4, <1>8 DEF c, answer
  <2> DEFINE value == answer.value
  <2> HIDE DEF value
  <2>2. OneCall(t) /\ calls'[t] = Went(c, value)
    BY <1>1, <1>2, <1>8, <2>1, GoingOn DEF value
  <2> QED BY <2>1, <2>2 DEF GoesOn, value
<1>9. log' = answer.log
  BY <1>4 DEF answer
<1>10. CASE ~Policed(binding)
  <2>1. answer.session = a.session /\ answer.log = log /\ answer.ok = TRUE /\ answer.value = a.last
    BY <1>3, <1>4, <1>10, FreeCall DEF answer, asked
  <2>2. AsFar(a, a)
    BY <1>2, AsFarAsItself
  <2>3. AsFar(c, a)
    BY <1>2, <1>3, <1>6, <2>1
  <2>4. c = a
    BY <1>2, <1>10, <2>1 DEF c, next, answer, Calls
  <2>5. OneCall(t) /\ tape' = tape /\ calls'[t] = Went(a, a.last)
    BY <1>3, <1>8, <2>1, <2>3, <2>4
  <2>6. AskedFreely(t)
    BY <1>9, <1>10, <2>1, <2>5 DEF AskedFreely
  <2> QED BY <1>1, <1>3, <1>9, <2>1, <2>5, <2>6
<1>11. CASE Policed(binding) /\ a.mode = "Replay"
  <2> DEFINE entry == NextEntry(a)
  <2>1. /\ answer.log = log
        /\ \/ /\ ~Expected(t)
              /\ answer.session \in Sessions /\ answer.session.mode = "Replay"
              /\ answer.ok = FALSE /\ answer.value = Handle /\ answer.error = "ReplayMismatch"
           \/ /\ Expected(t) /\ entry \in Entries /\ entry.ok = FALSE
              /\ answer.session = Advanced(a) /\ Advanced(a) \in Sessions
              /\ answer.ok = FALSE /\ answer.value = Handle /\ answer.error = "HostError"
           \/ /\ Expected(t) /\ entry \in Entries /\ entry.ok = TRUE
              /\ answer.session = Advanced(a) /\ Advanced(a) \in Sessions
              /\ answer.ok = TRUE /\ answer.value = entry.value /\ answer.error = "None"
    <3>1. AnswersReplay(answer, a.session, log, name, a.last)
      BY <1>2, <1>3, <1>11, ReplayedCall DEF answer, asked
    <3> QED BY <3>1 DEF AnswersReplay, Expected, NextEntry, Advanced
  <2>2. Handle \in Nat /\ {"ReplayMismatch", "HostError"} \subseteq Errors
    BY DEF Handle, Errors
  <2>3. Advanced(a).mode = a.mode
    BY <1>2, <1>3 DEF Advanced, Sessions
  <2>4. CASE ~Expected(t) /\ answer.ok = FALSE /\ answer.error = "ReplayMismatch"
             /\ answer.session \in Sessions /\ answer.session.mode = "Replay"
             /\ answer.value = Handle
    <3>1. AsFar(c, a) /\ c \in Calls
      BY <1>6, <1>11, <2>2, <2>4
    <3>2. OneCall(t) /\ EndsAs(t, c, FALSE, "ReplayMismatch")
      BY <1>7, <2>2, <2>4, <3>1
    <3>3. AskedTheLog(t, c)
      BY <1>9, <1>11, <2>1, <2>4, <3>1, <3>2 DEF AskedTheLog
    <3> QED BY <1>1, <1>3, <1>9, <2>1, <3>1, <3>2, <3>3
  <2>5. CASE Expected(t) /\ entry \in Entries /\ entry.ok = FALSE
             /\ answer.session = Advanced(a) /\ Advanced(a) \in Sessions
             /\ answer.ok = FALSE /\ answer.value = Handle /\ answer.error = "HostError"
    <3>1. AsFar(c, a) /\ c \in Calls
      BY <1>6, <2>2, <2>3, <2>5
    <3>2. OneCall(t) /\ EndsAs(t, c, FALSE, "HostError")
      BY <1>7, <2>2, <2>5, <3>1
    <3>3. AskedTheLog(t, c)
      BY <1>9, <1>11, <2>1, <2>5, <3>1, <3>2 DEF AskedTheLog
    <3> QED BY <1>1, <1>3, <1>9, <2>1, <3>1, <3>2, <3>3
  <2>6. CASE Expected(t) /\ entry \in Entries /\ entry.ok = TRUE
             /\ answer.session = Advanced(a) /\ Advanced(a) \in Sessions
             /\ answer.ok = TRUE /\ answer.value = entry.value
    <3>1. entry.value \in Nat
      BY <2>6 DEF Entries
    <3>2. /\ AsFar(c, a) /\ c \in Calls /\ c.session = Advanced(a)
          /\ c.trace = Append(a.trace, Entry(name, a.last, given(host)))
      BY <1>6, <1>11, <2>3, <2>6, <3>1
    <3>3. OneCall(t) /\ tape' = tape /\ calls'[t] = Went(c, entry.value)
      BY <1>8, <2>6, <3>1, <3>2
    <3>4. Entry(name, a.last, given(host)) = entry
      <4>1. given(host).ok = TRUE /\ given(host).value = entry.value
        BY <2>6 DEF given, answer
      <4>2. entry.name = name /\ entry.argument = a.last
        BY <2>6 DEF Expected, Matches
      <4> QED BY <2>6, <4>1, <4>2 DEF Entry, Entries
    <3>5. AskedTheLog(t, c)
      BY <1>9, <1>11, <2>1, <2>6, <3>2, <3>3, <3>4 DEF AskedTheLog
    <3> QED BY <1>1, <1>3, <1>9, <2>1, <3>2, <3>3, <3>5
  <2> QED BY <2>1, <2>4, <2>5, <2>6
<1>12. CASE Policed(binding) /\ a.mode = "Record"
  <2> DEFINE entry == Entry(name, a.last, host)
  <2>1. /\ answer.session = a.session
        /\ \/ /\ answer.log = log /\ answer.ok = FALSE /\ answer.value = Handle
              /\ answer.error \in {"DeterminismViolation", "ExternalFunctionUnresolved"}
           \/ /\ answer.log = [log EXCEPT !.entries = Append(log.entries, entry)]
              /\ answer.ok = host.ok /\ answer.value = host.value
              /\ answer.error = IF host.ok THEN "None" ELSE "HostError"
    <3>1. AnswersRecording(answer, a.session, log, name, a.last, host)
      BY <1>2, <1>3, <1>5, <1>12, RecordedCall DEF answer, asked
    <3> QED BY <3>1 DEF AnswersRecording
  <2>2. /\ Handle \in Nat /\ host.ok \in BOOLEAN /\ host.value \in Nat
        /\ {"None", "HostError", "DeterminismViolation", "ExternalFunctionUnresolved"} \subseteq Errors
    BY <1>5, <1>12 DEF Handle, Hosts, Errors
  <2>3. entry \in Entries
    BY <1>3, <1>5, <1>12, EntryTyped
  <2> HIDE DEF entry
  <2>4. log' \in Logs
    <3>1. Append(log.entries, entry) \in Seq(Entries)
      BY <1>3, <2>3 DEF Logs
    <3>2. [log EXCEPT !.entries = Append(log.entries, entry)] \in Logs
      BY <1>3, <3>1 DEF Logs
    <3> QED BY <1>3, <1>9, <2>1, <3>2
  <2>5. answer.ok \in BOOLEAN /\ answer.value \in Nat
    BY <2>1, <2>2
  <2>6. AsFar(c, a) /\ c \in Calls
    BY <1>2, <1>3, <1>6, <2>1, <2>5
  <2>7. CASE answer.log = log /\ answer.ok = FALSE
             /\ answer.error \in {"DeterminismViolation", "ExternalFunctionUnresolved"}
    <3>1. OneCall(t) /\ EndsAs(t, c, FALSE, answer.error)
      BY <1>7, <2>2, <2>6, <2>7
    <3>2. AskedForTheLog(t, c, host)
      BY <1>9, <1>12, <2>6, <2>7, <3>1 DEF AskedForTheLog
    <3> QED BY <1>1, <1>5, <1>12, <2>4, <2>6, <3>1, <3>2
  <2>8. CASE /\ answer.log = [log EXCEPT !.entries = Append(log.entries, entry)]
             /\ answer.ok = TRUE /\ host.ok = TRUE /\ answer.value = host.value
    <3>1. OneCall(t) /\ tape' = tape /\ calls'[t] = Went(c, host.value)
      BY <1>8, <2>2, <2>6, <2>8
    <3>2. AskedForTheLog(t, c, host)
      BY <1>9, <1>12, <2>6, <2>8, <3>1 DEF AskedForTheLog, entry
    <3> QED BY <1>1, <1>5, <1>12, <2>4, <2>6, <3>1, <3>2
  <2>9. CASE /\ answer.log = [log EXCEPT !.entries = Append(log.entries, entry)]
             /\ answer.ok = FALSE /\ host.ok = FALSE /\ answer.error = "HostError"
    <3>1. OneCall(t) /\ EndsAs(t, c, FALSE, "HostError")
      BY <1>7, <2>2, <2>6, <2>9
    <3>2. AskedForTheLog(t, c, host)
      BY <1>9, <1>12, <2>6, <2>9, <3>1 DEF AskedForTheLog, entry
    <3> QED BY <1>1, <1>5, <1>12, <2>4, <2>6, <3>1, <3>2
  <2> QED BY <2>1, <2>2, <2>7, <2>8, <2>9
<1>13. CASE Policed(binding) /\ a.mode \in {"Off", "Strict"}
  <2>1. /\ answer.session = a.session /\ answer.log = log
        /\ answer.ok \in BOOLEAN /\ answer.value \in Nat
        /\ answer.error \in {"None", "HostError", "DeterminismViolation", "ExternalFunctionUnresolved"}
    <3>1. AnswersOtherwise(answer, a.session, log)
      BY <1>2, <1>3, <1>5, <1>13, OtherCall DEF answer, asked
    <3> QED BY <3>1 DEF AnswersOtherwise
  <2>2. answer.error \in Errors
    BY <2>1 DEF Errors
  <2>3. AsFar(c, a) /\ c \in Calls
    BY <1>2, <1>3, <1>6, <2>1
  <2>4. CASE answer.ok = TRUE
    <3>1. OneCall(t) /\ tape' = tape /\ calls'[t] = Went(c, answer.value)
      BY <1>8, <2>1, <2>3, <2>4
    <3>2. AskedOtherwise(t, c)
      BY <1>9, <1>13, <2>1, <2>3, <3>1 DEF AskedOtherwise
    <3> QED BY <1>1, <1>3, <1>9, <2>1, <2>3, <3>1, <3>2
  <2>5. CASE answer.ok = FALSE
    <3>1. OneCall(t) /\ EndsAs(t, c, FALSE, answer.error)
      BY <1>7, <2>2, <2>3, <2>5
    <3>2. AskedOtherwise(t, c)
      BY <1>9, <1>13, <2>1, <2>2, <2>3, <3>1 DEF AskedOtherwise
    <3> QED BY <1>1, <1>3, <1>9, <2>1, <2>3, <3>1, <3>2
  <2> QED BY <2>1, <2>4, <2>5
<1>14. a.mode \in {"Off", "Strict", "Record", "Replay"}
  BY <1>2 DEF Calls, Modes
<1> QED BY <1>10, <1>11, <1>12, <1>13, <1>14

-----------------------------------------------------------------------------
(* Every action keeps the invariant. *)

CountsTyped == [invocations : Nat, recordings : Nat, reloads : Nat, swaps : Nat]

\* No invocation changes, but the heaps may grow and the program may be replaced by kin.
LEMMA HostKeepsCalls ==
  ASSUME Typed, UNCHANGED <<log, calls, tape>>,
         engine' \in [program : DOMAIN Images, bindings : DOMAIN Registries, heap : Nat],
         heaps' \in Seq(Seq(Objects)), Len(heaps) <= Len(heaps'), engine'.heap \in 1 .. Len(heaps'),
         reloads' \in Seq(Plans), counts' \in CountsTyped
  PROVE  Typed'
<1>1. \A t \in Threads : calls[t].heap \in 1 .. Len(heaps')
  <2>1. Len(heaps) \in Nat /\ Len(heaps') \in Nat
    BY SMTT(30) DEF Typed
  <2>2. \A t \in Threads : calls[t].heap \in 1 .. Len(heaps)
    BY DEF Typed
  <2> QED BY <2>1, <2>2
<1> QED BY <1>1 DEF Typed, CountsTyped

LEMMA NewKeepsShape ==
  ASSUME Typed, KeepsShape, NEW t \in Threads, New(t)
  PROVE  Typed' /\ KeepsShape'
<1> DEFINE n == calls[t].heap
<1>1. /\ UNCHANGED <<engine, log, reloads, tape, counts>>
      /\ heaps' = [heaps EXCEPT ![n] = Append(heaps[n], Made(t))]
      /\ Made(t) \in Objects
      /\ Made(t).type \in DOMAIN Images[engine.program].types
      /\ Made(t).fields = Images[engine.program].types[Made(t).type].fields
      /\ OneCall(t)
  BY Makes
<1>2. heaps \in Seq(Seq(Objects)) /\ n \in 1 .. Len(heaps) /\ heaps[n] \in Seq(Objects)
      /\ tape \in Seq(Ends)
  BY DEF Typed
<1>3. Append(heaps[n], Made(t)) \in Seq(Objects)
  BY <1>1, <1>2
<1>4. heaps' \in Seq(Seq(Objects)) /\ Len(heaps') = Len(heaps)
      /\ \A m \in 1 .. Len(heaps) :
            heaps'[m] = IF m = n THEN Append(heaps[n], Made(t)) ELSE heaps[m]
  BY <1>1, <1>2, <1>3
<1>5. ASSUME NEW u \in Threads
      PROVE  /\ calls'[u].heap \in 1 .. Len(heaps')
             /\ calls'[u].master \in 0 .. Len(tape')
             /\ calls'[u].step \in {"snapped", "running"} =>
                /\ Kin(engine.program, calls'[u].program)
                /\ calls'[u].function \in DOMAIN Images[calls'[u].program].functions
             /\ calls'[u].step = "running" => calls'[u].session.mode = calls'[u].mode
  <2>1. CASE u = t
    BY <1>1, <2>1 DEF OneCall
  <2>2. CASE u # t
    <3>1. calls'[u] = calls[u]
      BY <1>1, <2>2 DEF OneCall
    <3> QED BY <1>1, <1>4, <3>1 DEF Typed, KeepsShape
  <2> QED BY <2>1, <2>2
<1>6. Typed'
  BY <1>1, <1>4, <1>5 DEF Typed, OneCall
<1>7. ASSUME NEW m \in 1 .. Len(heaps'), NEW i \in 1 .. Len(heaps'[m])
      PROVE  /\ heaps'[m][i].type \in DOMAIN Images[engine.program].types
             /\ heaps'[m][i].fields = Images[engine.program].types[heaps'[m][i].type].fields
  <2>1. m \in 1 .. Len(heaps) /\ heaps[m] \in Seq(Objects)
    BY <1>2, <1>4
  <2>2. CASE m = n /\ i = Len(heaps[n]) + 1
    <3>1. heaps'[m][i] = Made(t)
      BY <1>1, <1>2, <1>4, <2>1, <2>2
    <3> QED BY <1>1, <3>1
  <2>3. CASE ~(m = n /\ i = Len(heaps[n]) + 1)
    <3>1. i \in 1 .. Len(heaps[m]) /\ heaps'[m][i] = heaps[m][i]
      <4>1. CASE m = n
        BY <1>1, <1>2, <1>4, <1>7, <2>3, <4>1
      <4>2. CASE m # n
        BY <1>4, <1>7, <2>1, <4>2
      <4> QED BY <4>1, <4>2
    <3> QED BY <2>1, <3>1 DEF KeepsShape
  <2> QED BY <2>2, <2>3
<1>8. \A i \in 1 .. Len(reloads) : reloads[i].compatible => Kin(engine.program, reloads[i].image)
  BY DEF KeepsShape
<1>9. engine' = engine /\ reloads' = reloads
  BY <1>1
<1> HIDE DEF n
<1>10. KeepsShape'
  BY <1>5, <1>7, <1>8, <1>9 DEF KeepsShape
<1> QED BY <1>6, <1>10

LEMMA CallKeepsShape ==
  ASSUME Typed, KeepsShape, NEW t \in Threads, Invoke(t) \/ Enter(t) \/ Get(t) \/ Call(t) \/ Return(t)
  PROVE  Typed' /\ KeepsShape'
<1>1. /\ OneCall(t) /\ UNCHANGED <<engine, heaps, reloads>>
      /\ log' \in [supplied : BOOLEAN, entries : Seq(Entries)]
      /\ counts' \in [invocations : Nat, recordings : Nat, reloads : Nat, swaps : Nat]
  <2>1. /\ log \in [supplied : BOOLEAN, entries : Seq(Entries)]
        /\ counts \in [invocations : Nat, recordings : Nat, reloads : Nat, swaps : Nat]
    BY DEF Typed
  <2>2. CASE Invoke(t)
    BY <2>1, <2>2, Invokes
  <2>3. CASE Enter(t)
    BY <2>1, <2>3, Enters
  <2>4. CASE Get(t)
    BY <2>1, <2>4, Reads
  <2>5. CASE Call(t)
    BY <2>1, <2>5, Asks DEF Logs
  <2>6. CASE Return(t)
    BY <2>1, <2>6, Returns
  <2> QED BY <2>2, <2>3, <2>4, <2>5, <2>6
<1> QED BY <1>1, OneCallKeepsShape

\* A replacement that is compatible with the image it was prepared on is kin of the
\* current one: whatever replaced that image was kin of it.
LEMMA HostKeepsShape ==
  ASSUME Typed, KeepsShape, Prepare \/ Replace \/ SetHeap \/ SetBindings
  PROVE  Typed' /\ KeepsShape'
<1>1. /\ engine \in [program : DOMAIN Images, bindings : DOMAIN Registries, heap : Nat]
      /\ heaps \in Seq(Seq(Objects)) /\ Len(heaps) <= Len(heaps) /\ Len(heaps) \in Nat
      /\ reloads \in Seq(Plans) /\ counts \in CountsTyped /\ engine.heap \in 1 .. Len(heaps)
      /\ engine.program \in DOMAIN Images /\ calls \in [Threads -> Calls]
  BY DEF Typed, CountsTyped
<1>2. CASE Prepare
  <2>1. PICK image \in DOMAIN Images \ {engine.program} :
        reloads' = Append(reloads,
            [image |-> image, compatible |-> Issues(Images[engine.program], Images[image]) = {}])
    BY <1>2 DEF Prepare
  <2> DEFINE compatible == Issues(Images[engine.program], Images[image]) = {}
             plan == [image |-> image, compatible |-> compatible]
  <2>2. plan \in Plans /\ plan.image = image /\ plan.compatible = compatible
    BY DEF Plans
  <2>3. compatible => Kin(engine.program, image)
    BY DEF Issues, Kin
  <2>4. counts' \in CountsTyped
    <3>1. counts.reloads + 1 \in Nat
      BY <1>1 DEF CountsTyped
    <3>2. counts' = [counts EXCEPT !.reloads = counts.reloads + 1]
      BY <1>2 DEF Prepare
    <3> QED BY <1>1, <3>1, <3>2 DEF CountsTyped
  <2>5. UNCHANGED <<engine, heaps, log, calls, tape>>
    BY <1>2 DEF Prepare
  <2> HIDE DEF plan
  <2>6. reloads' = Append(reloads, plan)
    BY <2>1 DEF plan
  <2>7. reloads' \in Seq(Plans)
    BY <1>1, <2>2, <2>6
  <2>8. Typed'
    BY <1>1, <2>4, <2>5, <2>7, HostKeepsCalls
  <2>9. ASSUME NEW i \in 1 .. Len(reloads'), reloads'[i].compatible
        PROVE  Kin(engine.program, reloads'[i].image)
    <3>1. CASE i \in 1 .. Len(reloads)
      <4>1. reloads'[i] = reloads[i]
        BY <1>1, <2>2, <2>6, <3>1
      <4> QED BY <2>9, <3>1, <4>1 DEF KeepsShape
    <3>2. CASE i \notin 1 .. Len(reloads)
      <4>1. i = Len(reloads) + 1
        <5>1. Len(reloads) \in Nat /\ Len(reloads') = Len(reloads) + 1
          BY <1>1, <2>2, <2>6
        <5> QED BY <2>9, <3>2, <5>1
      <4>2. reloads'[i] = plan
        BY <1>1, <2>2, <2>6, <4>1
      <4>3. reloads'[i].compatible = compatible /\ reloads'[i].image = image
        BY <2>2, <4>2
      <4> HIDE DEF compatible
      <4> QED BY <2>3, <2>9, <4>3
    <3> QED BY <3>1, <3>2
  <2>10. KeepsShape'
    BY <2>5, <2>9 DEF KeepsShape
  <2> QED BY <2>8, <2>10
<1>3. CASE Replace
  <2>1. PICK n \in DOMAIN reloads :
        /\ IF reloads[n].compatible
           THEN engine' = [engine EXCEPT !.program = reloads[n].image]
           ELSE UNCHANGED engine
        /\ reloads' = RemoveAt(reloads, n)
    BY <1>3 DEF Replace
  <2>2. UNCHANGED <<heaps, log, calls, tape, counts>>
    BY <1>3 DEF Replace
  <2>3. n \in 1 .. Len(reloads) /\ reloads[n] \in Plans
    BY <1>1
  <2>4. /\ reloads' \in Seq(Plans)
        /\ \A i \in 1 .. Len(reloads') : \E j \in 1 .. Len(reloads) : reloads'[i] = reloads[j]
    <3> DEFINE a == SubSeq(reloads, 1, n - 1)
               b == SubSeq(reloads, n + 1, Len(reloads))
    <3>1. Len(reloads) \in Nat /\ n \in 1 .. Len(reloads)
          /\ \A i \in 1 .. Len(reloads) : reloads[i] \in Plans
      BY <1>1, <2>3
    <3>2. /\ a \in Seq(Plans) /\ Len(a) = n - 1 /\ \A i \in 1 .. n - 1 : a[i] = reloads[i]
      <4>1. \A i \in 1 .. n - 1 : reloads[i] \in Plans
        BY <3>1
      <4>2. /\ a \in Seq(Plans) /\ Len(a) = IF 1 <= n - 1 THEN n - 1 - 1 + 1 ELSE 0
            /\ \A i \in 1 .. n - 1 - 1 + 1 : a[i] = reloads[1 + i - 1]
        BY <3>1, <4>1, SubSeqProperties
      <4> HIDE DEF a
      <4> QED BY <3>1, <4>2
    <3>3. /\ b \in Seq(Plans) /\ Len(b) = Len(reloads) - n
          /\ \A i \in 1 .. Len(reloads) - n : b[i] = reloads[n + i]
      <4>1. \A i \in n + 1 .. Len(reloads) : reloads[i] \in Plans
        BY <3>1
      <4> DEFINE l == Len(reloads)
      <4>2. /\ b \in Seq(Plans) /\ Len(b) = IF n + 1 <= l THEN l - (n + 1) + 1 ELSE 0
            /\ \A i \in 1 .. l - (n + 1) + 1 : b[i] = reloads[n + 1 + i - 1]
        BY <3>1, <4>1, SubSeqProperties
      <4> HIDE DEF b
      <4> QED BY <3>1, <4>2
    <3>4. reloads' = a \o b
      BY <2>1 DEF RemoveAt
    <3> HIDE DEF a, b
    <3>5. /\ reloads' \in Seq(Plans) /\ Len(reloads') = Len(a) + Len(b)
          /\ \A i \in 1 .. Len(a) + Len(b) : reloads'[i] = IF i <= Len(a) THEN a[i] ELSE b[i - Len(a)]
      BY <3>2, <3>3, <3>4, ConcatProperties
    <3>6. ASSUME NEW i \in 1 .. Len(reloads')
          PROVE  \E j \in 1 .. Len(reloads) : reloads'[i] = reloads[j]
      <4>1. i \in Nat /\ 1 <= i /\ i <= Len(reloads) - 1 /\ Len(a) \in Int
        BY <3>1, <3>2, <3>3, <3>5
      <4>2. CASE i <= n - 1
        <5>1. i \in 1 .. n - 1 /\ i \in 1 .. Len(reloads)
          BY <3>1, <4>1, <4>2
        <5>2. i \in 1 .. Len(a) + Len(b) /\ i <= Len(a)
          BY <3>2, <3>5, <5>1
        <5>3. reloads'[i] = a[i]
          BY <3>5, <5>2
        <5>4. a[i] = reloads[i]
          BY <3>2, <5>1
        <5> QED BY <5>1, <5>3, <5>4
      <4>3. CASE ~(i <= n - 1)
        <5>1. i - (n - 1) \in 1 .. Len(reloads) - n /\ n + (i - (n - 1)) = i + 1
              /\ i + 1 \in 1 .. Len(reloads)
          BY <3>1, <4>1, <4>3
        <5>2. reloads'[i] = b[i - (n - 1)]
          BY <3>2, <3>5, <4>3
        <5>3. b[i - (n - 1)] = reloads[n + (i - (n - 1))]
          BY <3>3, <5>1
        <5>4. reloads'[i] = reloads[i + 1]
          BY <5>1, <5>2, <5>3
        <5> QED BY <5>1, <5>4
      <4> QED BY <4>2, <4>3
    <3> QED BY <3>5, <3>6
  <2>5. /\ engine' \in [program : DOMAIN Images, bindings : DOMAIN Registries, heap : Nat]
        /\ engine'.heap = engine.heap /\ Kin(engine'.program, engine.program)
    <3>1. CASE reloads[n].compatible
      <4>1. engine' = [engine EXCEPT !.program = reloads[n].image]
        BY <2>1, <3>1
      <4>2. Kin(engine.program, reloads[n].image) /\ reloads[n].image \in DOMAIN Images
        BY <2>3, <3>1 DEF KeepsShape, Plans
      <4>3. Kin(reloads[n].image, engine.program)
        BY <1>1, <4>2, KinIsEquivalence
      <4>4. engine'.program = reloads[n].image /\ engine'.heap = engine.heap
        BY <1>1, <4>1
      <4> QED BY <1>1, <4>1, <4>2, <4>3, <4>4
    <3>2. CASE ~reloads[n].compatible
      <4>1. engine' = engine
        BY <2>1, <3>2
      <4> QED BY <1>1, <4>1, KinIsEquivalence
    <3> QED BY <3>1, <3>2
  <2>6. Typed'
    BY <1>1, <2>2, <2>4, <2>5, HostKeepsCalls
  <2>7. engine'.program \in DOMAIN Images
    BY <2>5
  <2>8. \A i \in DOMAIN Images : Kin(engine.program, i) => Kin(engine'.program, i)
    BY <1>1, <2>5, <2>7, KinIsEquivalence
  <2>9. /\ DOMAIN Images[engine'.program].types = DOMAIN Images[engine.program].types
        /\ \A x \in DOMAIN Images[engine'.program].types :
              Images[engine'.program].types[x].fields = Images[engine.program].types[x].fields
    BY <1>1, <2>5, <2>7, KinTypes
  <2>10. ASSUME NEW i \in 1 .. Len(reloads'), reloads'[i].compatible
         PROVE  Kin(engine'.program, reloads'[i].image)
    <3>1. PICK j \in 1 .. Len(reloads) : reloads'[i] = reloads[j]
      BY <2>4
    <3>2. reloads[j] \in Plans
      BY <1>1
    <3>3. reloads[j].image \in DOMAIN Images
      BY <3>2 DEF Plans
    <3>4. Kin(engine.program, reloads[j].image)
      BY <2>10, <3>1 DEF KeepsShape
    <3> QED BY <2>8, <3>1, <3>3, <3>4
  <2>11. ASSUME NEW t \in Threads, calls[t].step \in {"snapped", "running"}
         PROVE  Kin(engine'.program, calls[t].program)
    <3>1. calls[t].program \in DOMAIN Images /\ Kin(engine.program, calls[t].program)
      BY <1>1, <2>11 DEF KeepsShape, Calls
    <3> QED BY <2>8, <3>1
  <2>12. KeepsShape'
    BY <2>2, <2>9, <2>10, <2>11 DEF KeepsShape
  <2> QED BY <2>6, <2>12
<1>4. CASE SetHeap
  <2>1. /\ heaps' = Append(heaps, <<>>)
        /\ engine' = [engine EXCEPT !.heap = Len(heaps')]
        /\ counts' = [counts EXCEPT !.swaps = counts.swaps + 1]
        /\ UNCHANGED <<log, calls, reloads, tape>>
    BY <1>4 DEF SetHeap
  <2>2. counts' \in CountsTyped
    <3>1. counts.swaps \in Nat
      BY <1>1 DEF CountsTyped
    <3>2. counts.swaps + 1 \in Nat
      BY <3>1
    <3> QED BY <1>1, <2>1, <3>2 DEF CountsTyped
  <2>3. <<>> \in Seq(Objects)
    OBVIOUS
  <2>4. /\ heaps' \in Seq(Seq(Objects)) /\ Len(heaps') = Len(heaps) + 1
        /\ \A m \in 1 .. Len(heaps) : heaps'[m] = heaps[m]
        /\ heaps'[Len(heaps) + 1] = <<>>
    BY <1>1, <2>1, <2>3
  <2>5. /\ engine' \in [program : DOMAIN Images, bindings : DOMAIN Registries, heap : Nat]
        /\ engine'.heap \in 1 .. Len(heaps') /\ engine'.program = engine.program
    <3>1. Len(heaps') \in Nat /\ Len(heaps') \in 1 .. Len(heaps')
      BY <1>1, <2>4
    <3> DEFINE n == Len(heaps')
    <3>2. engine' = [engine EXCEPT !.heap = n] /\ n \in Nat
      BY <2>1, <3>1
    <3> HIDE DEF n
    <3>3. /\ engine' \in [program : DOMAIN Images, bindings : DOMAIN Registries, heap : Nat]
          /\ engine'.heap = n /\ engine'.program = engine.program
      BY <1>1, <3>2
    <3> QED BY <3>1, <3>3 DEF n
  <2>6. Typed'
    BY <1>1, <2>1, <2>2, <2>4, <2>5, HostKeepsCalls
  <2>7. ASSUME NEW m \in 1 .. Len(heaps'), NEW i \in 1 .. Len(heaps'[m])
        PROVE  /\ heaps'[m][i].type \in DOMAIN Images[engine.program].types
               /\ heaps'[m][i].fields = Images[engine.program].types[heaps'[m][i].type].fields
    <3>1. m # Len(heaps) + 1
      BY <2>4, <2>7
    <3>2. m \in 1 .. Len(heaps)
      <4>1. Len(heaps) \in Nat /\ m \in 1 .. Len(heaps) + 1
        BY <1>1, <2>4
      <4> QED BY <3>1, <4>1
    <3>3. heaps'[m] = heaps[m]
      BY <2>4, <3>2
    <3> QED BY <2>7, <3>2, <3>3 DEF KeepsShape
  <2>8. KeepsShape'
    BY <2>1, <2>5, <2>7 DEF KeepsShape
  <2> QED BY <2>6, <2>8
<1>5. CASE SetBindings
  <2>1. PICK b \in DOMAIN Registries : engine' = [engine EXCEPT !.bindings = b]
    BY <1>5 DEF SetBindings
  <2>2. /\ counts' = [counts EXCEPT !.swaps = counts.swaps + 1]
        /\ UNCHANGED <<heaps, log, calls, reloads, tape>>
    BY <1>5 DEF SetBindings
  <2>3. counts' \in CountsTyped
    <3>1. counts.swaps \in Nat
      BY <1>1 DEF CountsTyped
    <3>2. counts.swaps + 1 \in Nat
      BY <3>1
    <3> QED BY <1>1, <2>2, <3>2 DEF CountsTyped
  <2>4. /\ engine' \in [program : DOMAIN Images, bindings : DOMAIN Registries, heap : Nat]
        /\ engine'.heap = engine.heap /\ engine'.program = engine.program
    BY <1>1, <2>1
  <2>5. Typed'
    BY <1>1, <2>2, <2>3, <2>4, HostKeepsCalls
  <2>6. KeepsShape'
    BY <2>2, <2>4 DEF KeepsShape
  <2> QED BY <2>5, <2>6
<1> QED BY <1>2, <1>3, <1>4, <1>5

LEMMA ShapeInit ==
  ASSUME EngineInit
  PROVE  Typed /\ KeepsShape
<1>1. Idle \in Calls /\ Idle.step = "idle" /\ Idle.heap = 1 /\ Idle.master = 0
  BY IdleTyped
<1>2. 1 \in DOMAIN Images /\ 1 \in DOMAIN Registries
  BY EngineAssumption
<1>3. /\ <<>> \in Seq(Objects) /\ <<>> \in Seq(Entries) /\ <<>> \in Seq(Ends)
      /\ <<>> \in Seq(Plans)
  OBVIOUS
<1>4. /\ engine = [program |-> 1, bindings |-> 1, heap |-> 1] /\ heaps = <<<<>>>>
      /\ log \in [supplied : BOOLEAN, entries : {<<>>}] /\ calls = [t \in Threads |-> Idle]
      /\ reloads = <<>> /\ tape = <<>>
      /\ counts = [invocations |-> 0, recordings |-> 0, reloads |-> 0, swaps |-> 0]
  BY DEF EngineInit
<1>5. heaps \in Seq(Seq(Objects)) /\ Len(heaps) = 1 /\ heaps[1] = <<>>
  BY <1>3, <1>4
<1>6. Typed
  <2>1. /\ engine \in [program : DOMAIN Images, bindings : DOMAIN Registries, heap : Nat]
        /\ engine.heap = 1
    BY <1>2, <1>4
  <2>2. /\ log \in [supplied : BOOLEAN, entries : Seq(Entries)]
        /\ counts \in [invocations : Nat, recordings : Nat, reloads : Nat, swaps : Nat]
    BY <1>3, <1>4
  <2>3. calls \in [Threads -> Calls] /\ \A t \in Threads : calls[t] = Idle
    BY <1>1, <1>4
  <2>4. Len(tape) = 0 /\ 0 \in 0 .. Len(tape) /\ 1 \in 1 .. Len(heaps)
    BY <1>4, <1>5
  <2> QED BY <1>1, <1>3, <1>4, <1>5, <2>1, <2>2, <2>3, <2>4 DEF Typed
<1>7. \A n \in 1 .. Len(heaps) : Len(heaps[n]) = 0
  BY <1>5
<1>8. KeepsShape
  BY <1>1, <1>4, <1>7 DEF KeepsShape
<1> QED BY <1>6, <1>8

LEMMA ShapeStep ==
  ASSUME Typed, KeepsShape, [EngineNext]_engineVars
  PROVE  Typed' /\ KeepsShape'
<1>1. CASE UNCHANGED engineVars
  BY <1>1 DEF engineVars, Typed, KeepsShape
<1>2. ASSUME NEW t \in Threads, New(t) PROVE Typed' /\ KeepsShape'
  BY <1>2, NewKeepsShape
<1>3. ASSUME NEW t \in Threads, Invoke(t) \/ Enter(t) \/ Get(t) \/ Call(t) \/ Return(t)
      PROVE  Typed' /\ KeepsShape'
  BY <1>3, CallKeepsShape
<1>4. ASSUME Prepare \/ Replace \/ SetHeap \/ SetBindings PROVE Typed' /\ KeepsShape'
  BY <1>4, HostKeepsShape
<1> QED BY <1>1, <1>2, <1>3, <1>4 DEF EngineNext

\* Every program linked, planned or under invocation is kin of the current one, and every
\* object has the fields its class has in it (HotReload.cpp:232-343).
THEOREM ShapeInvariance == EngineSpec => [](Typed /\ KeepsShape)
<1>1. EngineInit => Typed /\ KeepsShape
  BY ShapeInit
<1>2. Typed /\ KeepsShape /\ [EngineNext]_engineVars => (Typed /\ KeepsShape)'
  BY ShapeStep
<1> QED BY <1>1, <1>2, PTL DEF EngineSpec

\* Whatever reloads came together, an invocation finds the shape its program expects.
THEOREM ReloadsKeepShape == EngineSpec => []ReloadKeepsShape
<1>1. Typed /\ KeepsShape => ReloadKeepsShape
  <2> SUFFICES ASSUME Typed, KeepsShape, NEW t \in Threads, calls[t].step = "running"
               PROVE  /\ SameFunctions(Images[calls[t].program], Images[engine.program])
                      /\ \A i \in DOMAIN heaps[calls[t].heap] :
                          heaps[calls[t].heap][i].fields
                            = Images[calls[t].program].types[heaps[calls[t].heap][i].type].fields
    BY DEF ReloadKeepsShape
  <2>1. /\ calls[t] \in Calls /\ engine.program \in DOMAIN Images
        /\ heaps \in Seq(Seq(Objects)) /\ calls[t].heap \in 1 .. Len(heaps)
    BY DEF Typed
  <2>2. calls[t].program \in DOMAIN Images /\ heaps[calls[t].heap] \in Seq(Objects)
    BY <2>1 DEF Calls
  <2>3. Kin(engine.program, calls[t].program)
    BY DEF KeepsShape
  <2>4. Kin(calls[t].program, engine.program)
    BY <2>1, <2>2, <2>3, KinIsEquivalence
  <2>5. SameFunctions(Images[calls[t].program], Images[engine.program])
    BY <2>4 DEF Kin
  <2>6. /\ DOMAIN Images[engine.program].types = DOMAIN Images[calls[t].program].types
        /\ \A x \in DOMAIN Images[engine.program].types :
              Images[engine.program].types[x].fields = Images[calls[t].program].types[x].fields
    BY <2>1, <2>2, <2>3, KinTypes
  <2>7. ASSUME NEW i \in DOMAIN heaps[calls[t].heap]
        PROVE  heaps[calls[t].heap][i].fields
                = Images[calls[t].program].types[heaps[calls[t].heap][i].type].fields
    <3>1. i \in 1 .. Len(heaps[calls[t].heap])
      BY <2>2
    <3>2. LET object == heaps[calls[t].heap][i] IN
          /\ object.type \in DOMAIN Images[engine.program].types
          /\ object.fields = Images[engine.program].types[object.type].fields
      BY <2>1, <3>1 DEF KeepsShape
    <3> QED BY <2>6, <3>2
  <2> QED BY <2>5, <2>7
<1> QED BY <1>1, ShapeInvariance, PTL

-----------------------------------------------------------------------------
(* The path of a call: what it has in hand before each of its steps, given the   *)
(* objects on its heap and the entries that answer its calls.  made is the type  *)
(* of the object it has made last, if any.                                       *)

Views == [last : Nat, cursor : Nat, made : SUBSET STRING]

StartOf(c) == [last |-> c.argument, cursor |-> 0, made |-> {}]

\* The type of the object at hand, if there is one.
Seen(objects, c, v) ==
    v.made \cup (IF v.made = {} /\ c.passed \in DOMAIN objects
                 THEN {objects[c.passed].type} ELSE {})

Asking(c, e, v, s) ==
    /\ s.op = "call" /\ Policed(Registries[c.bindings][s.of])
    /\ v.cursor < Len(e) /\ Matches(e[v.cursor + 1], s.of, v.last)

\* From v to w by step s.
Leads(objects, c, e, v, s, w) ==
    \/ s.op = "new" /\ w = [v EXCEPT !.last = Handle, !.made = {s.of}]
    \/ /\ s.op = "get" /\ Seen(objects, c, v) = {s.of}
       /\ w = [v EXCEPT !.last = Read(c, s.of, s.index)]
    \/ s.op = "call" /\ ~Policed(Registries[c.bindings][s.of]) /\ w = v
    \/ /\ Asking(c, e, v, s) /\ e[v.cursor + 1].ok
       /\ w = [v EXCEPT !.last = e[v.cursor + 1].value, !.cursor = v.cursor + 1]

Path(objects, c, e, h) ==
    /\ h \in Seq(Views) /\ Len(h) >= 1 /\ h[1] = StartOf(c)
    /\ \A i \in 1 .. Len(h) - 1 :
        /\ i <= Len(Function(c).body)
        /\ Leads(objects, c, e, h[i], Function(c).body[i], h[i + 1])

\* The end m of a call, at its n-th step.
EndsAt(objects, m, e, v, n) ==
    LET body == Function(m).body
        s    == body[n]
    IN
    /\ m.last = v.last
    /\ \/ n > Len(body) /\ m.ok = TRUE /\ m.error = "None" /\ v.cursor = Len(e)
       \/ /\ n <= Len(body) /\ s.op = "get" /\ Seen(objects, m, v) = {}
          /\ m.ok = FALSE /\ m.error = "InvalidObjectReference"
       \/ /\ n <= Len(body) /\ s.op = "get" /\ Seen(objects, m, v) \notin {{}, {s.of}}
          /\ m.ok = FALSE /\ m.error = "TypeMismatch"
       \/ /\ n <= Len(body) /\ Asking(m, e, v, s) /\ ~e[v.cursor + 1].ok
          /\ m.ok = FALSE /\ m.error = "HostError"

Whole(objects, m, e, h) == Path(objects, m, e, h) /\ EndsAt(objects, m, e, h[Len(h)], Len(h))

\* A call has in hand what v says.
Holds(objects, c, cursor, v) ==
    /\ v.last = c.last /\ v.cursor = cursor
    /\ v.made = {} => c.object = c.passed
    /\ v.made # {} => c.object \in 1 .. Len(objects) /\ v.made = {objects[c.object].type}

Grows(s, r) == Len(s) <= Len(r) /\ \A i \in 1 .. Len(s) : r[i] = s[i]

Reproducible(m) == Faithful(m) /\ ~Strayed(m)

LEMMA WhatIsSeen ==
  ASSUME NEW objects \in Seq(Objects), NEW c, NEW cursor, NEW v \in Views,
         Holds(objects, c, cursor, v)
  PROVE  /\ c.object \in DOMAIN objects => Seen(objects, c, v) = {objects[c.object].type}
         /\ c.object \notin DOMAIN objects => Seen(objects, c, v) = {}
BY DEF Holds, Seen, Views

LEMMA SeenGrows ==
  ASSUME NEW objects \in Seq(Objects), NEW more \in Seq(Objects), Grows(objects, more),
         NEW c, NEW v \in Views
  PROVE  /\ Seen(objects, c, v) # {} => Seen(more, c, v) = Seen(objects, c, v)
         /\ c.passed = 0 => Seen(more, c, v) = Seen(objects, c, v)
<1>1. CASE v.made # {}
  BY <1>1 DEF Seen
<1>2. CASE v.made = {}
  <2>1. Len(objects) \in Nat /\ Len(more) \in Nat /\ Len(objects) <= Len(more)
        /\ DOMAIN objects = 1 .. Len(objects) /\ DOMAIN more = 1 .. Len(more)
    BY DEF Grows
  <2>2. c.passed \in DOMAIN objects =>
            c.passed \in DOMAIN more /\ more[c.passed].type = objects[c.passed].type
    BY <2>1 DEF Grows
  <2>3. c.passed = 0 => c.passed \notin DOMAIN objects /\ c.passed \notin DOMAIN more
    BY <2>1
  <2> QED BY <1>2, <2>2, <2>3 DEF Seen
<1> QED BY <1>1, <1>2

LEMMA HoldsGrows ==
  ASSUME NEW objects \in Seq(Objects), NEW more \in Seq(Objects), Grows(objects, more),
         NEW c, NEW cursor, NEW v \in Views, Holds(objects, c, cursor, v)
  PROVE  Holds(more, c, cursor, v)
BY DEF Holds, Grows

LEMMA AskingGrows ==
  ASSUME NEW e \in Seq(Entries), NEW f \in Seq(Entries), Grows(e, f),
         NEW c, NEW v \in Views, NEW s, Asking(c, e, v, s)
  PROVE  Asking(c, f, v, s) /\ f[v.cursor + 1] = e[v.cursor + 1]
<1>1. v.cursor \in Nat /\ v.cursor < Len(e) /\ Len(e) \in Nat /\ Len(f) \in Nat /\ Len(e) <= Len(f)
  BY DEF Asking, Views, Grows
<1>2. f[v.cursor + 1] = e[v.cursor + 1]
  BY <1>1 DEF Grows
<1> QED BY <1>1, <1>2 DEF Asking

LEMMA LeadsGrows ==
  ASSUME NEW objects \in Seq(Objects), NEW more \in Seq(Objects), Grows(objects, more),
         NEW e \in Seq(Entries), NEW f \in Seq(Entries), Grows(e, f),
         NEW c, NEW v \in Views, NEW s, NEW w, Leads(objects, c, e, v, s, w)
  PROVE  Leads(more, c, f, v, s, w)
<1>1. CASE s.op = "get" /\ Seen(objects, c, v) = {s.of} /\ w = [v EXCEPT !.last = Read(c, s.of, s.index)]
  <2>1. Seen(objects, c, v) # {} => Seen(more, c, v) = Seen(objects, c, v)
    BY SeenGrows
  <2>2. Seen(more, c, v) = {s.of}
    BY <1>1, <2>1
  <2> QED BY <1>1, <2>2 DEF Leads
<1>2. CASE /\ Asking(c, e, v, s) /\ e[v.cursor + 1].ok
           /\ w = [v EXCEPT !.last = e[v.cursor + 1].value, !.cursor = v.cursor + 1]
  <2>1. Asking(c, f, v, s) /\ f[v.cursor + 1] = e[v.cursor + 1]
    BY <1>2, AskingGrows
  <2> QED BY <1>2, <2>1 DEF Leads
<1> QED BY <1>1, <1>2 DEF Leads

LEMMA PathGrows ==
  ASSUME NEW objects \in Seq(Objects), NEW more \in Seq(Objects), Grows(objects, more),
         NEW e \in Seq(Entries), NEW f \in Seq(Entries), Grows(e, f),
         NEW c, NEW h, Path(objects, c, e, h)
  PROVE  Path(more, c, f, h)
<1>1. ASSUME NEW i \in 1 .. Len(h) - 1
      PROVE  Leads(more, c, f, h[i], Function(c).body[i], h[i + 1])
  <2>1. h[i] \in Views /\ Leads(objects, c, e, h[i], Function(c).body[i], h[i + 1])
    BY DEF Path
  <2> QED BY <2>1, LeadsGrows
<1> QED BY <1>1 DEF Path

LEMMA WholeGrows ==
  ASSUME NEW objects \in Seq(Objects), NEW more \in Seq(Objects), Grows(objects, more),
         NEW e \in Seq(Entries), NEW m \in Ends, Reproducible(m), NEW h, Whole(objects, m, e, h)
  PROVE  Whole(more, m, e, h)
<1>1. Grows(e, e)
  BY DEF Grows
<1>2. Path(objects, m, e, h) /\ h[Len(h)] \in Views
  BY DEF Whole, Path
<1>3. Path(more, m, e, h)
  BY <1>1, <1>2, PathGrows
<1> DEFINE v == h[Len(h)]
           n == Len(h)
<1>4. EndsAt(objects, m, e, v, n)
  BY DEF Whole
<1> HIDE DEF v, n
<1>5. Seen(objects, m, v) # {} => Seen(more, m, v) = Seen(objects, m, v)
  BY <1>2, SeenGrows DEF v
<1>6. m.error = "InvalidObjectReference" => Seen(more, m, v) = Seen(objects, m, v)
  BY <1>2, SeenGrows DEF v, Reproducible, Strayed
<1>7. EndsAt(more, m, e, v, n)
  BY <1>4, <1>5, <1>6 DEF EndsAt
<1> QED BY <1>3, <1>7 DEF Whole, v, n

\* A path goes on.
LEMMA PathGoesOn ==
  ASSUME NEW objects, NEW c, NEW e, NEW h, Path(objects, c, e, h), NEW w \in Views,
         Len(h) <= Len(Function(c).body),
         Leads(objects, c, e, h[Len(h)], Function(c).body[Len(h)], w)
  PROVE  /\ Path(objects, c, e, Append(h, w)) /\ Len(Append(h, w)) = Len(h) + 1
         /\ Append(h, w)[Len(h) + 1] = w
<1>1. h \in Seq(Views) /\ Len(h) \in Nat /\ Len(h) >= 1
  BY DEF Path
<1> DEFINE g == Append(h, w)
<1>2. /\ g \in Seq(Views) /\ Len(g) = Len(h) + 1 /\ g[Len(h) + 1] = w
      /\ \A i \in 1 .. Len(h) : g[i] = h[i]
  BY <1>1
<1> HIDE DEF g
<1>3. ASSUME NEW i \in 1 .. Len(g) - 1
      PROVE  i <= Len(Function(c).body) /\ Leads(objects, c, e, g[i], Function(c).body[i], g[i + 1])
  <2>1. i \in 1 .. Len(h) /\ g[i] = h[i]
    BY <1>1, <1>2
  <2>2. CASE i = Len(h)
    BY <1>2, <2>1, <2>2
  <2>3. CASE i # Len(h)
    <3>1. i \in 1 .. Len(h) - 1 /\ i + 1 \in 1 .. Len(h)
      BY <1>1, <2>1, <2>3
    <3>2. g[i + 1] = h[i + 1]
      BY <1>2, <3>1
    <3> QED BY <2>1, <3>1, <3>2 DEF Path
  <2> QED BY <2>2, <2>3
<1>4. g[1] = StartOf(c)
  BY <1>1, <1>2 DEF Path
<1>5. Path(objects, c, e, g)
  BY <1>1, <1>2, <1>3, <1>4 DEF Path
<1> QED BY <1>2, <1>5 DEF g

\* Paths are about subjects.
SameStuff(a, b) ==
    /\ a.program = b.program /\ a.bindings = b.bindings /\ a.function = b.function
    /\ a.argument = b.argument /\ a.passed = b.passed

LEMMA LeadsTheSame ==
  ASSUME NEW a, NEW b, SameStuff(a, b), NEW objects, NEW e, NEW v, NEW s, NEW w
  PROVE  Leads(objects, a, e, v, s, w) <=> Leads(objects, b, e, v, s, w)
<1>1. Seen(objects, a, v) = Seen(objects, b, v)
  BY DEF Seen, SameStuff
<1>2. Read(a, s.of, s.index) = Read(b, s.of, s.index)
  BY DEF Read, SameStuff
<1>3. Asking(a, e, v, s) <=> Asking(b, e, v, s)
  BY DEF Asking, SameStuff
<1> QED BY <1>1, <1>2, <1>3 DEF Leads, SameStuff

LEMMA PathTheSame ==
  ASSUME NEW a, NEW b, SameStuff(a, b), NEW objects, NEW e, NEW h
  PROVE  Path(objects, a, e, h) <=> Path(objects, b, e, h)
<1>1. Function(a) = Function(b) /\ StartOf(a) = StartOf(b)
  BY DEF Function, StartOf, SameStuff
<1>2. \A v, s, w : Leads(objects, a, e, v, s, w) <=> Leads(objects, b, e, v, s, w)
  BY LeadsTheSame
<1> QED BY <1>1, <1>2 DEF Path

-----------------------------------------------------------------------------
(* The invariant of replays. *)

FreshCall(c) ==
    c.step = "snapped" =>
        c.at = 1 /\ c.last = c.argument /\ c.object = c.passed /\ c.trace = <<>>

\* A replay keeps up with its log, and with the path of the recording it replays.
InStepCall(hs, tp, c) ==
    c.step = "running" /\ c.mode = "Replay" =>
        /\ c.session.cursor <= Len(c.session.entries) /\ Len(c.trace) = c.session.cursor
        /\ \A i \in 1 .. c.session.cursor : c.trace[i] = c.session.entries[i]
        /\ c.master \in {0, 1}
        /\ c.master = 1 /\ SameCall(tp[1], c) /\ Reproducible(tp[1]) =>
            \E h \in Seq(Views) :
                /\ Whole(hs[c.heap], tp[1], c.session.entries, h)
                /\ c.at <= Len(h) /\ Holds(hs[c.heap], c, c.session.cursor, h[c.at])

ReproducedCall(tp, c) ==
    c.step = "done" /\ c.mode = "Replay" /\ c.error # "FunctionNotFound" =>
        /\ c.ok => c.trace = c.session.entries
        /\ \A i \in 1 .. c.master :
            SameCall(tp[i], c) /\ Reproducible(tp[i]) => Outcome(c) = Outcome(tp[i])

InOrder(hs, tp, c) == FreshCall(c) /\ InStepCall(hs, tp, c) /\ ReproducedCall(tp, c)

Recording(c) == c.step = "running" /\ c.mode = "Record"

\* The entries of the log are what the recording has asked for on its path.
Records(hs, e, c) ==
    \E h \in Seq(Views) :
        /\ Path(hs[c.heap], c, e, h) /\ Len(h) = c.at
        /\ Holds(hs[c.heap], c, Len(e), h[c.at])

\* While there has been one recording, it is what the log is about.
OneRecording ==
    /\ counts.recordings = 0 =>
        log.entries = <<>> /\ tape = <<>> /\ \A t \in Threads : ~Recording(calls[t])
    /\ counts.recordings = 1 =>
        \/ /\ tape = <<>>
           /\ \E t \in Threads :
                /\ Recording(calls[t]) /\ Records(heaps, log.entries, calls[t])
                /\ \A u \in Threads \ {t} : ~Recording(calls[u])
        \/ /\ Len(tape) = 1 /\ \A t \in Threads : ~Recording(calls[t])
           /\ Reproducible(tape[1]) =>
                \E h \in Seq(Views) : Whole(heaps[tape[1].heap], tape[1], log.entries, h)

Replays ==
    /\ \A t \in Threads : InOrder(heaps, tape, calls[t])
    /\ \A i \in 1 .. Len(tape) : tape[i].heap \in 1 .. Len(heaps)
    /\ OneRecording

HeapsGrow == Len(heaps) <= Len(heaps') /\ \A n \in 1 .. Len(heaps) : Grows(heaps[n], heaps'[n])

\* What other calls have done stays so.
LEMMA OtherCalls ==
  ASSUME Typed, Typed', Replays, HeapsGrow, Grows(tape, tape'),
         NEW u \in Threads, calls'[u] = calls[u]
  PROVE  InOrder(heaps', tape', calls'[u])
<1> DEFINE c == calls[u]
<1>1. /\ c \in Calls /\ c.heap \in 1 .. Len(heaps) /\ c.master \in 0 .. Len(tape)
      /\ heaps \in Seq(Seq(Objects)) /\ heaps' \in Seq(Seq(Objects)) /\ tape \in Seq(Ends)
      /\ tape' \in Seq(Ends)
  BY DEF Typed
<1>2. InOrder(heaps, tape, c)
  BY DEF Replays
<1>3. FreshCall(c)
  BY <1>2 DEF InOrder
<1>4. ASSUME NEW i \in 1 .. c.master PROVE tape'[i] = tape[i]
  <2>1. i \in 1 .. Len(tape)
    BY <1>1
  <2> QED BY <2>1 DEF Grows
<1>5. ReproducedCall(tape', c)
  BY <1>2, <1>4 DEF InOrder, ReproducedCall
<1>6. InStepCall(heaps', tape', c)
  <2> DEFINE objects == heaps[c.heap]
             more == heaps'[c.heap]
             e == c.session.entries
             k == c.session.cursor
  <2>1. objects \in Seq(Objects) /\ more \in Seq(Objects) /\ Grows(objects, more)
    <3>1. Len(heaps) \in Nat /\ Len(heaps') \in Nat /\ c.heap \in 1 .. Len(heaps')
      BY <1>1 DEF HeapsGrow
    <3>2. objects \in Seq(Objects) /\ more \in Seq(Objects)
      BY <1>1, <3>1, SMTT(30)
    <3>3. Grows(objects, more)
      BY <1>1 DEF HeapsGrow
    <3> QED BY <3>2, <3>3
  <2>2. e \in Seq(Entries)
    BY <1>1 DEF Calls, Sessions
  <2>3. InStepCall(heaps, tape, c)
    BY <1>2 DEF InOrder
  <2>4. ASSUME c.step = "running", c.mode = "Replay", c.master = 1, SameCall(tape'[1], c),
               Reproducible(tape'[1])
        PROVE  \E h \in Seq(Views) :
                /\ Whole(more, tape'[1], e, h) /\ c.at <= Len(h) /\ Holds(more, c, k, h[c.at])
    <3>1. tape'[1] = tape[1] /\ tape[1] \in Ends
      BY <1>1, <1>4, <2>4
    <3>2. PICK h \in Seq(Views) :
            /\ Whole(objects, tape[1], e, h) /\ c.at <= Len(h) /\ Holds(objects, c, k, h[c.at])
      BY <2>3, <2>4, <3>1 DEF InStepCall
    <3>3. c.at \in Nat \ {0}
      BY <1>1 DEF Calls
    <3>4. h[c.at] \in Views
      BY <3>2, <3>3
    <3> DEFINE m == tape[1]
    <3>5. m \in Ends /\ Reproducible(m) /\ Whole(objects, m, e, h)
      BY <2>4, <3>1, <3>2
    <3> HIDE DEF objects, more, e, k, m
    <3>6. Whole(more, m, e, h)
      BY <2>1, <2>2, <3>5, WholeGrows
    <3>7. Holds(more, c, k, h[c.at])
      BY <2>1, <3>2, <3>4, HoldsGrows
    <3> QED BY <3>1, <3>2, <3>6, <3>7 DEF m
  <2> QED BY <2>3, <2>4 DEF InStepCall
<1> QED BY <1>3, <1>5, <1>6 DEF InOrder

\* The log and its recording, when only calls change that do not record.
LEMMA NoRecordingStep ==
  ASSUME Typed, Typed', Replays, HeapsGrow,
         \A u \in Threads :
            calls'[u] = calls[u] \/ (~Recording(calls[u]) /\ ~Recording(calls'[u])),
         log' = log, tape' = tape, counts'.recordings = counts.recordings
  PROVE  OneRecording'
<1>1. \A u \in Threads : Recording(calls'[u]) <=> Recording(calls[u])
  BY DEF Recording
<1>2. /\ heaps \in Seq(Seq(Objects)) /\ heaps' \in Seq(Seq(Objects)) /\ tape \in Seq(Ends)
      /\ log.entries \in Seq(Entries)
  BY DEF Typed
<1>3. ASSUME NEW n \in 1 .. Len(heaps)
      PROVE  heaps[n] \in Seq(Objects) /\ heaps'[n] \in Seq(Objects) /\ Grows(heaps[n], heaps'[n])
  BY <1>2 DEF HeapsGrow
<1>4. Grows(log.entries, log.entries)
  BY <1>2 DEF Grows
<1>5. ASSUME NEW u \in Threads, Recording(calls[u]), Records(heaps, log.entries, calls[u])
      PROVE  Records(heaps', log.entries, calls'[u])
  <2>1. calls'[u] = calls[u]
    BY <1>5
  <2>2. calls[u] \in Calls /\ calls[u].heap \in 1 .. Len(heaps)
    BY DEF Typed
  <2> DEFINE objects == heaps[calls[u].heap]
             more == heaps'[calls[u].heap]
  <2>3. PICK h \in Seq(Views) :
            /\ Path(objects, calls[u], log.entries, h) /\ Len(h) = calls[u].at
            /\ Holds(objects, calls[u], Len(log.entries), h[calls[u].at])
    BY <1>5 DEF Records
  <2>4. objects \in Seq(Objects) /\ more \in Seq(Objects) /\ Grows(objects, more)
    BY <1>3, <2>2
  <2>5. h[calls[u].at] \in Views
    BY <2>2, <2>3 DEF Calls
  <2> HIDE DEF objects, more
  <2>6. Path(more, calls[u], log.entries, h)
    BY <1>2, <1>4, <2>3, <2>4, PathGrows
  <2>7. Holds(more, calls[u], Len(log.entries), h[calls[u].at])
    BY <2>3, <2>4, <2>5, HoldsGrows
  <2> QED BY <2>1, <2>3, <2>6, <2>7 DEF Records, more
<1>6. ASSUME Len(tape) = 1, Reproducible(tape[1]),
             \E h \in Seq(Views) : Whole(heaps[tape[1].heap], tape[1], log.entries, h)
      PROVE  \E h \in Seq(Views) : Whole(heaps'[tape[1].heap], tape[1], log.entries, h)
  <2>1. tape[1] \in Ends /\ tape[1].heap \in 1 .. Len(heaps)
    <3>1. 1 \in 1 .. Len(tape)
      BY <1>6
    <3> QED BY <1>2, <3>1 DEF Replays
  <2> DEFINE m == tape[1]
             objects == heaps[m.heap]
             more == heaps'[m.heap]
  <2>2. PICK h \in Seq(Views) : Whole(objects, m, log.entries, h)
    BY <1>6
  <2>3. objects \in Seq(Objects) /\ more \in Seq(Objects) /\ Grows(objects, more)
    BY <1>3, <2>1
  <2>4. m \in Ends /\ Reproducible(m)
    BY <1>6, <2>1
  <2> HIDE DEF objects, more, m
  <2>5. Whole(more, m, log.entries, h)
    BY <1>2, <2>2, <2>3, <2>4, WholeGrows
  <2> QED BY <2>5 DEF m, more
<1>7. CASE counts.recordings = 1 /\ tape = <<>>
  <2>1. PICK u \in Threads :
            /\ Recording(calls[u]) /\ Records(heaps, log.entries, calls[u])
            /\ \A x \in Threads \ {u} : ~Recording(calls[x])
    <3>1. Len(tape) # 1
      BY <1>7
    <3> QED BY <1>7, <3>1 DEF Replays, OneRecording
  <2>2. Records(heaps', log.entries, calls'[u])
    BY <1>5, <2>1
  <2> QED BY <1>1, <1>7, <2>1, <2>2 DEF OneRecording
<1>8. CASE counts.recordings = 1 /\ tape # <<>>
  <2>1. /\ Len(tape) = 1 /\ \A u \in Threads : ~Recording(calls[u])
        /\ Reproducible(tape[1]) =>
             \E h \in Seq(Views) : Whole(heaps[tape[1].heap], tape[1], log.entries, h)
    BY <1>8 DEF Replays, OneRecording
  <2>2. Reproducible(tape[1]) =>
             \E h \in Seq(Views) : Whole(heaps'[tape[1].heap], tape[1], log.entries, h)
    BY <1>6, <2>1
  <2> QED BY <1>1, <1>8, <2>1, <2>2 DEF OneRecording
<1>9. CASE counts.recordings # 1
  BY <1>1, <1>9 DEF Replays, OneRecording
<1> QED BY <1>7, <1>8, <1>9

\* What the steps of one call leave to show.
LEMMA ReplaysFrame ==
  ASSUME Typed, Typed', Replays, HeapsGrow, Grows(tape, tape'), NEW t \in Threads,
         \A u \in Threads \ {t} : calls'[u] = calls[u],
         InOrder(heaps', tape', calls'[t]),
         tape' = tape \/ \E m \in Ends : tape' = Append(tape, m) /\ m.heap \in 1 .. Len(heaps'),
         OneRecording'
  PROVE  Replays'
<1>1. ASSUME NEW u \in Threads PROVE InOrder(heaps', tape', calls'[u])
  <2>1. CASE u = t
    BY <2>1
  <2>2. CASE u # t
    BY <2>2, OtherCalls
  <2> QED BY <2>1, <2>2
<1>2. ASSUME NEW i \in 1 .. Len(tape') PROVE tape'[i].heap \in 1 .. Len(heaps')
  <2>1. Len(heaps) \in Nat /\ Len(heaps') \in Nat /\ Len(heaps) <= Len(heaps') /\ tape \in Seq(Ends)
    <3>1. heaps \in Seq(Seq(Objects)) /\ heaps' \in Seq(Seq(Objects)) /\ tape \in Seq(Ends)
      BY DEF Typed
    <3> QED BY <3>1 DEF HeapsGrow
  <2>2. CASE tape' = tape
    <3>1. tape[i].heap \in 1 .. Len(heaps)
      BY <2>2 DEF Replays
    <3> QED BY <2>1, <2>2, <3>1
  <2>3. CASE \E m \in Ends : tape' = Append(tape, m) /\ m.heap \in 1 .. Len(heaps')
    <3>1. PICK m \in Ends : tape' = Append(tape, m) /\ m.heap \in 1 .. Len(heaps')
      BY <2>3
    <3>2. CASE i = Len(tape) + 1
      <4>1. tape'[i] = m
        BY <2>1, <3>1, <3>2
      <4> QED BY <3>1, <4>1
    <3>3. CASE i # Len(tape) + 1
      <4>1. i \in 1 .. Len(tape) /\ tape'[i] = tape[i]
        BY <2>1, <3>1, <3>3
      <4>2. tape[i].heap \in 1 .. Len(heaps)
        BY <4>1 DEF Replays
      <4> QED BY <2>1, <4>1, <4>2
    <3> QED BY <3>2, <3>3
  <2> QED BY <2>2, <2>3
<1> QED BY <1>1, <1>2 DEF Replays

-----------------------------------------------------------------------------
(* A step of a recording, or of a replay, that goes on or ends. *)

LEMMA GrownHeap ==
  ASSUME Typed, Typed', HeapsGrow, NEW t \in Threads
  PROVE  LET n == calls[t].heap IN
         heaps[n] \in Seq(Objects) /\ heaps'[n] \in Seq(Objects) /\ Grows(heaps[n], heaps'[n])
<1>1. /\ heaps \in Seq(Seq(Objects)) /\ heaps' \in Seq(Seq(Objects))
      /\ calls[t].heap \in 1 .. Len(heaps)
  BY DEF Typed
<1>2. calls[t].heap \in 1 .. Len(heaps')
  BY <1>1 DEF HeapsGrow
<1> QED BY <1>1, <1>2 DEF HeapsGrow

\* The only recording.
LEMMA TheRecording ==
  ASSUME Typed, Replays, NEW t \in Threads, Recording(calls[t])
  PROVE  /\ counts.recordings # 0
         /\ counts.recordings = 1 =>
              /\ tape = <<>> /\ \A u \in Threads \ {t} : ~Recording(calls[u])
              /\ Records(heaps, log.entries, calls[t])
BY DEF Replays, OneRecording

LEMMA SubjectsStuff ==
  ASSUME NEW a, NEW b, SameSubject(a, b)
  PROVE  SameStuff(a, b)
BY DEF SameSubject, SameStuff

LEMMA RecordingGoesOn ==
  ASSUME Typed, Typed', Replays, HeapsGrow, NEW t \in Threads,
         Recording(calls[t]), Recording(calls'[t]),
         \A u \in Threads \ {t} : calls'[u] = calls[u],
         SameSubject(calls'[t], calls[t]), calls'[t].at = calls[t].at + 1,
         calls[t].at \in 1 .. Len(Function(calls[t]).body),
         tape' = tape, counts'.recordings = counts.recordings,
         Grows(log.entries, log'.entries),
         \A v \in Views : Holds(heaps[calls[t].heap], calls[t], Len(log.entries), v) =>
            \E w \in Views :
              /\ Leads(heaps'[calls[t].heap], calls[t], log'.entries, v,
                       Function(calls[t]).body[calls[t].at], w)
              /\ Holds(heaps'[calls[t].heap], calls'[t], Len(log'.entries), w)
  PROVE  OneRecording'
<1> DEFINE c == calls[t]
           d == calls'[t]
           objects == heaps[c.heap]
           more == heaps'[c.heap]
           e == log.entries
           f == log'.entries
           body == Function(c).body
<1>1. CASE counts.recordings # 1
  BY <1>1, TheRecording DEF OneRecording
<1>2. CASE counts.recordings = 1
  <2>1. tape = <<>> /\ (\A u \in Threads \ {t} : ~Recording(calls[u])) /\ Records(heaps, e, c)
    BY <1>2, TheRecording
  <2>2. PICK h \in Seq(Views) :
            Path(objects, c, e, h) /\ Len(h) = c.at /\ Holds(objects, c, Len(e), h[c.at])
    BY <2>1 DEF Records
  <2>3. objects \in Seq(Objects) /\ more \in Seq(Objects) /\ Grows(objects, more)
    BY GrownHeap
  <2>4. e \in Seq(Entries) /\ f \in Seq(Entries) /\ Grows(e, f)
    BY DEF Typed
  <2>5. c.at \in Nat \ {0} /\ c.at <= Len(body)
    BY DEF Typed, Calls
  <2>6. h[c.at] \in Views
    BY <2>2, <2>5
  <2>7. PICK w \in Views :
            Leads(more, c, f, h[c.at], body[c.at], w) /\ Holds(more, d, Len(f), w)
    BY <2>2, <2>6
  <2>8. SameStuff(d, c) /\ d.heap = c.heap /\ d.at = c.at + 1
    BY SubjectsStuff DEF SameSubject
  <2> DEFINE g == Append(h, w)
  <2> HIDE DEF objects, more, e, f, body, c, d
  <2>9. Path(more, c, f, h)
    BY <2>2, <2>3, <2>4, PathGrows
  <2>10. Path(more, c, f, g) /\ Len(g) = c.at + 1 /\ g[c.at + 1] = w /\ g \in Seq(Views)
    <3>1. Leads(more, c, f, h[Len(h)], Function(c).body[Len(h)], w) /\ Len(h) <= Len(Function(c).body)
      BY <2>2, <2>5, <2>7 DEF body
    <3>2. Path(more, c, f, g) /\ Len(g) = Len(h) + 1 /\ g[Len(h) + 1] = w
      BY <2>9, <3>1, PathGoesOn
    <3> QED BY <2>2, <3>2 DEF Path
  <2>11. Path(more, d, f, g)
    BY <2>8, <2>10, PathTheSame
  <2> HIDE DEF g
  <2>12. Records(heaps', f, d)
    <3>1. heaps'[d.heap] = more
      BY <2>8 DEF more
    <3>2. Len(g) = d.at /\ Holds(more, d, Len(f), g[d.at])
      BY <2>7, <2>8, <2>10
    <3> QED BY <2>10, <2>11, <3>1, <3>2 DEF Records
  <2>13. \A u \in Threads \ {t} : ~Recording(calls'[u])
    BY <2>1
  <2> QED BY <1>2, <2>1, <2>12, <2>13 DEF OneRecording, d, f
<1> QED BY <1>1, <1>2

LEMMA RecordingEnds ==
  ASSUME Typed, Typed', Replays, HeapsGrow, NEW t \in Threads,
         Recording(calls[t]), ~Recording(calls'[t]),
         \A u \in Threads \ {t} : calls'[u] = calls[u],
         NEW m \in Ends, tape' = Append(tape, m), SameStuff(m, calls[t]), m.heap = calls[t].heap,
         counts'.recordings = counts.recordings, Grows(log.entries, log'.entries),
         \A v \in Views :
            Holds(heaps[calls[t].heap], calls[t], Len(log.entries), v) /\ Reproducible(m) =>
              EndsAt(heaps'[calls[t].heap], m, log'.entries, v, calls[t].at)
  PROVE  OneRecording'
<1> DEFINE c == calls[t]
           objects == heaps[c.heap]
           more == heaps'[c.heap]
           e == log.entries
           f == log'.entries
<1>1. CASE counts.recordings # 1
  BY <1>1, TheRecording DEF OneRecording
<1>2. CASE counts.recordings = 1
  <2>1. tape = <<>> /\ (\A u \in Threads \ {t} : ~Recording(calls[u])) /\ Records(heaps, e, c)
    BY <1>2, TheRecording
  <2>2. PICK h \in Seq(Views) :
            Path(objects, c, e, h) /\ Len(h) = c.at /\ Holds(objects, c, Len(e), h[c.at])
    BY <2>1 DEF Records
  <2>3. objects \in Seq(Objects) /\ more \in Seq(Objects) /\ Grows(objects, more)
    BY GrownHeap
  <2>4. e \in Seq(Entries) /\ f \in Seq(Entries) /\ Grows(e, f)
    BY DEF Typed
  <2>5. c.at \in Nat \ {0}
    BY DEF Typed, Calls
  <2>6. h[c.at] \in Views
    BY <2>2, <2>5
  <2>7. Reproducible(m) => EndsAt(more, m, f, h[c.at], c.at)
    BY <2>2, <2>6
  <2>8. Path(more, c, f, h)
    <3> HIDE DEF objects, more, e, f, c
    <3> QED BY <2>2, <2>3, <2>4, PathGrows
  <2>9. Path(more, m, f, h)
    BY <2>8, PathTheSame
  <2>10. Reproducible(m) => Whole(heaps'[m.heap], m, f, h)
    BY <2>2, <2>7, <2>9 DEF Whole
  <2>11. Len(tape') = 1 /\ tape'[1] = m
    BY <2>1
  <2>12. \A u \in Threads : ~Recording(calls'[u])
    BY <2>1
  <2> QED BY <1>2, <2>2, <2>10, <2>11, <2>12 DEF OneRecording
<1> QED BY <1>1, <1>2

LEMMA ReplayGoesOn ==
  ASSUME Typed, Typed', Replays, HeapsGrow, tape' = tape, NEW t \in Threads,
         calls[t].step = "running", calls[t].mode = "Replay", calls'[t].step = "running",
         SameSubject(calls'[t], calls[t]), calls'[t].at = calls[t].at + 1,
         calls[t].at \in 1 .. Len(Function(calls[t]).body),
         \/ calls'[t].session = calls[t].session /\ calls'[t].trace = calls[t].trace
         \/ /\ calls[t].session.cursor < Len(calls[t].session.entries)
            /\ calls'[t].session = Advanced(calls[t])
            /\ calls'[t].trace = Append(calls[t].trace, NextEntry(calls[t])),
         \A m \in Ends, v \in Views, w \in Views :
            SameStuff(m, calls[t])
            /\ Holds(heaps[calls[t].heap], calls[t], calls[t].session.cursor, v) =>
              /\ ~EndsAt(heaps[calls[t].heap], m, calls[t].session.entries, v, calls[t].at)
              /\ Leads(heaps[calls[t].heap], m, calls[t].session.entries, v,
                       Function(calls[t]).body[calls[t].at], w)
                    => Holds(heaps'[calls[t].heap], calls'[t], calls'[t].session.cursor, w)
  PROVE  InOrder(heaps', tape', calls'[t])
<1> DEFINE c == calls[t]
           d == calls'[t]
           objects == heaps[c.heap]
           more == heaps'[c.heap]
           e == c.session.entries
           k == c.session.cursor
           body == Function(c).body
<1>1. /\ c \in Calls /\ tape \in Seq(Ends) /\ c.master \in 0 .. Len(tape)
      /\ InStepCall(heaps, tape, c)
  BY DEF Typed, Replays, InOrder
<1>2. c.session \in Sessions /\ e \in Seq(Entries) /\ k \in Nat /\ c.trace \in Seq(Entries)
      /\ c.at \in Nat \ {0}
  BY <1>1 DEF Calls, Sessions
<1>3. /\ k <= Len(e) /\ Len(c.trace) = k /\ \A i \in 1 .. k : c.trace[i] = e[i]
      /\ c.master \in {0, 1}
  BY <1>1 DEF InStepCall
<1>4. /\ d.session.entries = e /\ d.session.cursor <= Len(e)
      /\ Len(d.trace) = d.session.cursor /\ \A i \in 1 .. d.session.cursor : d.trace[i] = e[i]
  <2>1. CASE d.session = c.session /\ d.trace = c.trace
    BY <1>3, <2>1
  <2>2. CASE k < Len(e) /\ d.session = Advanced(c) /\ d.trace = Append(c.trace, NextEntry(c))
    <3>1. d.session.entries = e /\ d.session.cursor = k + 1
      BY <1>2, <2>2 DEF Advanced, Sessions
    <3>2. NextEntry(c) = e[k + 1] /\ k + 1 <= Len(e) /\ Len(e) \in Nat
      BY <1>2, <2>2 DEF NextEntry
    <3>3. e[k + 1] \in Entries
      BY <1>2, <3>2
    <3> DEFINE x == e[k + 1]
    <3>4. d.trace = Append(c.trace, x) /\ x \in Entries
      BY <2>2, <3>2, <3>3
    <3> HIDE DEF x
    <3>5. Len(d.trace) = k + 1 /\ d.trace[k + 1] = x /\ \A i \in 1 .. k : d.trace[i] = c.trace[i]
      BY <1>2, <1>3, <3>4
    <3>6. \A i \in 1 .. k + 1 : d.trace[i] = e[i]
      <4> SUFFICES ASSUME NEW i \in 1 .. k + 1 PROVE d.trace[i] = e[i]
        OBVIOUS
      <4>1. i = k + 1 \/ i \in 1 .. k
        BY <1>2
      <4> QED BY <1>3, <3>5, <4>1 DEF x
    <3> QED BY <3>1, <3>2, <3>5, <3>6
  <2> QED BY <2>1, <2>2
<1>5. d.master = c.master /\ d.heap = c.heap /\ d.mode = "Replay"
      /\ (SameCall(tape[1], d) => SameCall(tape[1], c))
  BY DEF SameSubject, SameCall
<1>6. ASSUME c.master = 1, SameCall(tape[1], c), Reproducible(tape[1])
      PROVE  \E h \in Seq(Views) :
                /\ Whole(more, tape[1], e, h)
                /\ d.at <= Len(h) /\ Holds(more, d, d.session.cursor, h[d.at])
  <2> DEFINE m == tape[1]
  <2>1. m \in Ends /\ SameStuff(m, c)
    <3>1. 1 \in 1 .. Len(tape)
      BY <1>1, <1>6
    <3> QED BY <1>1, <1>6, <3>1 DEF SameCall, SameStuff
  <2>2. PICK h \in Seq(Views) :
            Whole(objects, m, e, h) /\ c.at <= Len(h) /\ Holds(objects, c, k, h[c.at])
    BY <1>1, <1>6 DEF InStepCall
  <2>3. h[c.at] \in Views
    BY <1>2, <2>2
  <2>4. Function(m) = Function(c)
    BY <2>1 DEF SameStuff, Function
  <2>5. c.at # Len(h)
    <3>1. ~EndsAt(objects, m, e, h[c.at], c.at)
      BY <2>1, <2>2, <2>3
    <3>2. EndsAt(objects, m, e, h[Len(h)], Len(h))
      BY <2>2 DEF Whole
    <3> QED BY <3>1, <3>2
  <2>6. c.at \in 1 .. Len(h) - 1 /\ c.at + 1 <= Len(h)
    BY <1>2, <2>2, <2>5
  <2>7. h[c.at + 1] \in Views
    BY <1>2, <2>6
  <2>8. Leads(objects, m, e, h[c.at], body[c.at], h[c.at + 1])
    BY <2>2, <2>4, <2>6 DEF Whole, Path
  <2>9. Holds(more, d, d.session.cursor, h[c.at + 1])
    BY <2>1, <2>2, <2>3, <2>7, <2>8
  <2>10. objects \in Seq(Objects) /\ more \in Seq(Objects) /\ Grows(objects, more)
    BY GrownHeap
  <2>11. Whole(more, m, e, h)
    <3>1. Reproducible(m)
      BY <1>6
    <3> HIDE DEF m, objects, more, e
    <3> QED BY <1>2, <2>1, <2>2, <2>10, <3>1, WholeGrows
  <2> QED BY <2>6, <2>9, <2>11
<1>7. InStepCall(heaps', tape', d)
  <2> HIDE DEF d, c, e, k, objects
  <2>1. more = heaps'[d.heap] /\ tape' = tape
    BY <1>5
  <2> HIDE DEF more
  <2> QED BY <1>3, <1>4, <1>5, <1>6, <2>1 DEF InStepCall
<1> QED BY <1>7 DEF InOrder, FreshCall, ReproducedCall

LEMMA ReplayEnds ==
  ASSUME Typed, Typed', Replays, NEW t \in Threads, tape' = tape,
         calls[t].step = "running", calls[t].mode = "Replay", calls'[t].step = "done",
         SameSubject(calls'[t], calls[t]), calls'[t].last = calls[t].last,
         calls'[t].ok => calls'[t].trace = calls'[t].session.entries,
         \A m \in Ends, v \in Views, w \in Views :
            SameStuff(m, calls[t])
            /\ Holds(heaps[calls[t].heap], calls[t], calls[t].session.cursor, v) =>
              /\ calls[t].at <= Len(Function(calls[t]).body) =>
                    ~Leads(heaps[calls[t].heap], m, calls[t].session.entries, v,
                           Function(calls[t]).body[calls[t].at], w)
              /\ EndsAt(heaps[calls[t].heap], m, calls[t].session.entries, v, calls[t].at)
                    => m.ok = calls'[t].ok /\ m.error = calls'[t].error
  PROVE  InOrder(heaps', tape', calls'[t])
<1> DEFINE c == calls[t]
           d == calls'[t]
           objects == heaps[c.heap]
           e == c.session.entries
           k == c.session.cursor
           body == Function(c).body
<1>1. /\ c \in Calls /\ tape \in Seq(Ends) /\ c.master \in 0 .. Len(tape)
      /\ InStepCall(heaps, tape, c)
  BY DEF Typed, Replays, InOrder
<1>2. c.at \in Nat \ {0} /\ c.master \in {0, 1}
  BY <1>1 DEF Calls, InStepCall
<1>3. d.master = c.master /\ d.heap = c.heap /\ (SameCall(tape[1], d) => SameCall(tape[1], c))
  BY DEF SameSubject, SameCall
<1>4. ASSUME d.master = 1, SameCall(tape[1], d), Reproducible(tape[1])
      PROVE  Outcome(d) = Outcome(tape[1])
  <2> DEFINE m == tape[1]
  <2>1. m \in Ends /\ SameStuff(m, c)
    <3>1. 1 \in 1 .. Len(tape)
      BY <1>1, <1>3, <1>4
    <3> QED BY <1>1, <1>3, <1>4, <3>1 DEF SameCall, SameStuff
  <2>2. PICK h \in Seq(Views) :
            Whole(objects, m, e, h) /\ c.at <= Len(h) /\ Holds(objects, c, k, h[c.at])
    BY <1>1, <1>3, <1>4 DEF InStepCall
  <2>3. h[c.at] \in Views
    BY <1>2, <2>2
  <2>4. Function(m) = Function(c)
    BY <2>1 DEF SameStuff, Function
  <2>5. c.at = Len(h)
    <3> SUFFICES ASSUME c.at # Len(h) PROVE FALSE
      OBVIOUS
    <3>1. c.at \in 1 .. Len(h) - 1 /\ c.at + 1 \in 1 .. Len(h)
      BY <1>2, <2>2
    <3>2. h[c.at + 1] \in Views
      BY <3>1
    <3>3. c.at <= Len(body) /\ Leads(objects, m, e, h[c.at], body[c.at], h[c.at + 1])
      BY <2>2, <2>4, <3>1 DEF Whole, Path
    <3> QED BY <2>1, <2>2, <2>3, <3>2, <3>3
  <2>6. EndsAt(objects, m, e, h[c.at], c.at)
    BY <2>2, <2>5 DEF Whole
  <2>7. m.ok = d.ok /\ m.error = d.error
    BY <2>1, <2>2, <2>3, <2>6
  <2>8. m.last = d.last
    BY <2>2, <2>6 DEF EndsAt, Holds
  <2> QED BY <2>7, <2>8 DEF Outcome
<1>5. ReproducedCall(tape', d)
  <2> HIDE DEF d, c
  <2>1. ASSUME NEW i \in 1 .. d.master, SameCall(tape[i], d), Reproducible(tape[i])
        PROVE  Outcome(d) = Outcome(tape[i])
    <3>1. i = 1 /\ d.master = 1
      BY <1>2, <1>3
    <3> QED BY <1>4, <2>1, <3>1
  <2>2. d.ok => d.trace = d.session.entries
    BY DEF d
  <2> QED BY <2>1, <2>2 DEF ReproducedCall
<1> QED BY <1>5 DEF InOrder, FreshCall, InStepCall

-----------------------------------------------------------------------------
(* Every action keeps replays in order. *)

LEMMA Reflexive ==
  ASSUME NEW s PROVE Grows(s, s)
BY DEF Grows

\* What a call that ends leaves to show.
LEMMA EndingReplays ==
  ASSUME Typed, Typed', Replays, UNCHANGED heaps, counts'.recordings = counts.recordings,
         NEW t \in Threads, calls[t].step = "running",
         NEW c, AsFar(c, calls[t]), NEW ok \in BOOLEAN, NEW error \in Errors,
         EndsAs(t, c, ok, error),
         calls[t].mode # "Record" => log' = log,
         Grows(log.entries, log'.entries),
         calls[t].mode = "Record" =>
            \A v \in Views :
                Holds(heaps[calls[t].heap], calls[t], Len(log.entries), v)
                /\ Reproducible(EndOf(c, ok, error)) =>
                  EndsAt(heaps[calls[t].heap], EndOf(c, ok, error), log'.entries, v, calls[t].at),
         calls[t].mode = "Replay" =>
            /\ calls'[t].ok => calls'[t].trace = calls'[t].session.entries
            /\ \A m \in Ends, v \in Views, w \in Views :
                SameStuff(m, calls[t])
                /\ Holds(heaps[calls[t].heap], calls[t], calls[t].session.cursor, v) =>
                  /\ calls[t].at <= Len(Function(calls[t]).body) =>
                        ~Leads(heaps[calls[t].heap], m, calls[t].session.entries, v,
                               Function(calls[t]).body[calls[t].at], w)
                  /\ EndsAt(heaps[calls[t].heap], m, calls[t].session.entries, v, calls[t].at)
                        => m.ok = calls'[t].ok /\ m.error = calls'[t].error
  PROVE  Replays'
<1>1. /\ tape \in Seq(Ends) /\ heaps \in Seq(Seq(Objects)) /\ calls[t].heap \in 1 .. Len(heaps)
      /\ calls[t] \in Calls /\ calls[t].mode \in {"Off", "Strict", "Record", "Replay"}
  BY DEF Typed, Calls, Modes
<1>2. HeapsGrow
  BY <1>1 DEF HeapsGrow, Grows
<1>3. /\ c \in Calls /\ SameSubject(c, calls[t]) /\ c.mode = calls[t].mode /\ c.last = calls[t].last
      /\ \A u \in Threads \ {t} : calls'[u] = calls[u]
  BY DEF AsFar, SameSubject, EndsAs
<1>4. CASE calls[t].mode = "Record"
  <2> DEFINE m == EndOf(c, ok, error)
  <2>1. calls'[t] = Idle /\ tape' = Append(tape, m)
    BY <1>3, <1>4 DEF EndsAs
  <2>2. m \in Ends /\ SameStuff(m, calls[t]) /\ m.heap = calls[t].heap
    BY <1>3 DEF EndOf, Ends, Calls, SameStuff, SameSubject
  <2> HIDE DEF m
  <2>3. Recording(calls[t]) /\ ~Recording(calls'[t])
    BY <1>4, <2>1, IdleTyped DEF Recording
  <2>4. \A v \in Views :
            Holds(heaps[calls[t].heap], calls[t], Len(log.entries), v) /\ Reproducible(m) =>
              EndsAt(heaps'[calls[t].heap], m, log'.entries, v, calls[t].at)
    BY <1>4 DEF m
  <2>5. OneRecording'
    BY <1>2, <1>3, <2>1, <2>2, <2>3, <2>4, RecordingEnds
  <2>6. InOrder(heaps', tape', calls'[t])
    BY <2>1, IdleTyped DEF InOrder, FreshCall, InStepCall, ReproducedCall
  <2>7. Grows(tape, tape')
    BY <1>1, <2>1, <2>2 DEF Grows
  <2>8. m.heap \in 1 .. Len(heaps')
    BY <1>1, <2>2
  <2> QED BY <1>2, <1>3, <2>1, <2>2, <2>5, <2>6, <2>7, <2>8, ReplaysFrame
<1>5. CASE calls[t].mode = "Replay"
  <2>1. /\ tape' = tape /\ calls'[t].step = "done" /\ SameSubject(calls'[t], c)
        /\ calls'[t].last = c.last
    BY <1>3, <1>5 DEF EndsAs
  <2>2. SameSubject(calls'[t], calls[t]) /\ calls'[t].last = calls[t].last
    BY <1>3, <2>1 DEF SameSubject
  <2>3. ~Recording(calls[t]) /\ ~Recording(calls'[t])
    BY <1>5, <2>1 DEF Recording
  <2>4. InOrder(heaps', tape', calls'[t])
    BY <1>5, <2>1, <2>2, ReplayEnds
  <2>5. OneRecording'
    BY <1>2, <1>3, <1>5, <2>1, <2>3, NoRecordingStep
  <2>6. Grows(tape, tape')
    BY <2>1, Reflexive
  <2> QED BY <1>2, <1>3, <2>1, <2>4, <2>5, <2>6, ReplaysFrame
<1>6. CASE calls[t].mode \in {"Off", "Strict"}
  <2>1. tape' = tape /\ calls'[t] = Idle
    BY <1>3, <1>6 DEF EndsAs
  <2>2. ~Recording(calls[t]) /\ ~Recording(calls'[t])
    BY <1>6, <2>1, IdleTyped DEF Recording
  <2>3. InOrder(heaps', tape', calls'[t])
    BY <2>1, IdleTyped DEF InOrder, FreshCall, InStepCall, ReproducedCall
  <2>4. OneRecording'
    BY <1>2, <1>3, <1>6, <2>1, <2>2, NoRecordingStep
  <2>5. Grows(tape, tape')
    BY <2>1, Reflexive
  <2> QED BY <1>2, <1>3, <2>1, <2>3, <2>4, <2>5, ReplaysFrame
<1> QED BY <1>1, <1>4, <1>5, <1>6

\* What a call that goes on leaves to show.
LEMMA GoingOnReplays ==
  ASSUME Typed, Typed', Replays, HeapsGrow, counts'.recordings = counts.recordings,
         tape' = tape, NEW t \in Threads,
         \A u \in Threads \ {t} : calls'[u] = calls[u],
         calls[t].step = "running", calls'[t].step = "running",
         SameSubject(calls'[t], calls[t]), calls'[t].at = calls[t].at + 1,
         calls[t].at \in 1 .. Len(Function(calls[t]).body),
         calls[t].mode # "Record" => log' = log,
         Grows(log.entries, log'.entries),
         calls[t].mode = "Record" =>
            \A v \in Views : Holds(heaps[calls[t].heap], calls[t], Len(log.entries), v) =>
                \E w \in Views :
                  /\ Leads(heaps'[calls[t].heap], calls[t], log'.entries, v,
                           Function(calls[t]).body[calls[t].at], w)
                  /\ Holds(heaps'[calls[t].heap], calls'[t], Len(log'.entries), w),
         calls[t].mode = "Replay" =>
            /\ \/ calls'[t].session = calls[t].session /\ calls'[t].trace = calls[t].trace
               \/ /\ calls[t].session.cursor < Len(calls[t].session.entries)
                  /\ calls'[t].session = Advanced(calls[t])
                  /\ calls'[t].trace = Append(calls[t].trace, NextEntry(calls[t]))
            /\ \A m \in Ends, v \in Views, w \in Views :
                SameStuff(m, calls[t])
                /\ Holds(heaps[calls[t].heap], calls[t], calls[t].session.cursor, v) =>
                  /\ ~EndsAt(heaps[calls[t].heap], m, calls[t].session.entries, v, calls[t].at)
                  /\ Leads(heaps[calls[t].heap], m, calls[t].session.entries, v,
                           Function(calls[t]).body[calls[t].at], w)
                        => Holds(heaps'[calls[t].heap], calls'[t], calls'[t].session.cursor, w)
  PROVE  Replays'
<1>1. Grows(tape, tape')
  BY Reflexive
<1>2. calls'[t].mode = calls[t].mode
  BY DEF SameSubject
<1>3. CASE calls[t].mode = "Record"
  <2>1. Recording(calls[t]) /\ Recording(calls'[t])
    BY <1>2, <1>3 DEF Recording
  <2>2. OneRecording'
    BY <1>3, <2>1, RecordingGoesOn
  <2>3. InOrder(heaps', tape', calls'[t])
    BY <1>2, <1>3 DEF InOrder, FreshCall, InStepCall, ReproducedCall
  <2> QED BY <1>1, <2>2, <2>3, ReplaysFrame
<1>4. CASE calls[t].mode # "Record"
  <2>1. ~Recording(calls[t]) /\ ~Recording(calls'[t])
    BY <1>2, <1>4 DEF Recording
  <2>2. OneRecording'
    BY <1>4, <2>1, NoRecordingStep
  <2>3. InOrder(heaps', tape', calls'[t])
    <3>1. CASE calls[t].mode = "Replay"
      BY <3>1, ReplayGoesOn
    <3>2. CASE calls[t].mode # "Replay"
      BY <1>2, <3>2 DEF InOrder, FreshCall, InStepCall, ReproducedCall
    <3> QED BY <3>1, <3>2
  <2> QED BY <1>1, <2>2, <2>3, ReplaysFrame
<1> QED BY <1>3, <1>4

\* The step that a call of the same stuff takes.
LEMMA SameStep ==
  ASSUME NEW a, NEW b, SameStuff(a, b)
  PROVE  Function(a) = Function(b) /\ \A objects, v : Seen(objects, a, v) = Seen(objects, b, v)
         /\ \A type, index : Read(a, type, index) = Read(b, type, index)
BY DEF SameStuff, Function, Seen, Read

\* The ends of a call at a read.
LEMMA EndsAtGet ==
  ASSUME NEW m, NEW c, Function(m) = Function(c), NEW n \in 1 .. Len(Function(c).body),
         NEW objects, NEW e, NEW v, NEW s, s = Function(c).body[n], s.op = "get",
         EndsAt(objects, m, e, v, n)
  PROVE  \/ Seen(objects, m, v) = {} /\ m.ok = FALSE /\ m.error = "InvalidObjectReference"
         \/ Seen(objects, m, v) \notin {{}, {s.of}} /\ m.ok = FALSE /\ m.error = "TypeMismatch"
<1> DEFINE body == Function(c).body
<1>1. ~(n > Len(body)) /\ "get" # "call"
  OBVIOUS
<1>2. /\ m.last = v.last
      /\ \/ n > Len(body) /\ m.ok = TRUE /\ m.error = "None" /\ v.cursor = Len(e)
         \/ /\ n <= Len(body) /\ body[n].op = "get" /\ Seen(objects, m, v) = {}
            /\ m.ok = FALSE /\ m.error = "InvalidObjectReference"
         \/ /\ n <= Len(body) /\ body[n].op = "get" /\ Seen(objects, m, v) \notin {{}, {body[n].of}}
            /\ m.ok = FALSE /\ m.error = "TypeMismatch"
         \/ /\ n <= Len(body) /\ Asking(m, e, v, body[n]) /\ ~e[v.cursor + 1].ok
            /\ m.ok = FALSE /\ m.error = "HostError"
  BY Zenon DEF EndsAt
<1>3. ~Asking(m, e, v, body[n])
  BY DEF Asking
<1> QED BY <1>1, <1>2, <1>3, Zenon

LEMMA NewReplays ==
  ASSUME Typed, KeepsShape, Replays, Typed', NEW t \in Threads, New(t)
  PROVE  Replays'
<1> DEFINE c == calls[t]
           d == calls'[t]
           n == c.heap
           objects == heaps[n]
           more == heaps'[n]
           s == Operand(t)
           after(v) == [v EXCEPT !.last = Handle, !.made = {s.of}]
<1>1. /\ UNCHANGED <<engine, log, reloads, tape, counts>>
      /\ heaps' = [heaps EXCEPT ![n] = Append(objects, Made(t))]
      /\ Made(t) \in Objects /\ Made(t).type = s.of
      /\ d = [Went(c, Handle) EXCEPT !.object = Len(objects) + 1]
      /\ \A u \in Threads \ {t} : calls'[u] = calls[u]
  BY Makes DEF OneCall, Made
<1>2. /\ c \in Calls /\ c.step = "running"
      /\ c.at \in 1 .. Len(Function(c).body) /\ s = Function(c).body[c.at] /\ s.op = "new"
      /\ s \in Steps
  <2>1. Running(t, "new")
    BY DEF New
  <2> QED BY <2>1, Executing
<1>3. heaps \in Seq(Seq(Objects)) /\ n \in 1 .. Len(heaps) /\ objects \in Seq(Objects)
      /\ log.entries \in Seq(Entries)
  <2>1. heaps \in Seq(Seq(Objects)) /\ n \in 1 .. Len(heaps) /\ log.entries \in Seq(Entries)
    BY DEF Typed
  <2> QED BY <2>1
<1>4. /\ more = Append(objects, Made(t)) /\ Len(heaps') = Len(heaps)
      /\ \A m \in 1 .. Len(heaps) \ {n} : heaps'[m] = heaps[m]
  BY <1>1, <1>3
<1>5. /\ Len(more) = Len(objects) + 1 /\ more[Len(objects) + 1] = Made(t)
      /\ Len(objects) + 1 \in 1 .. Len(more) /\ Grows(objects, more)
  BY <1>1, <1>3, <1>4 DEF Grows
<1>6. HeapsGrow
  <2>1. ASSUME NEW m \in 1 .. Len(heaps) PROVE Grows(heaps[m], heaps'[m])
    <3>1. CASE m = n
      BY <1>5, <3>1
    <3>2. CASE m # n
      BY <1>4, <3>2, Reflexive
    <3> QED BY <3>1, <3>2
  <2> QED BY <1>3, <1>4, <2>1 DEF HeapsGrow
<1>7. /\ d.step = "running" /\ SameSubject(d, c) /\ d.at = c.at + 1 /\ d.last = Handle
      /\ d.session = c.session /\ d.trace = c.trace /\ d.object = Len(objects) + 1
  <2>1. Handle \in Nat
    BY DEF Handle
  <2>2. /\ Went(c, Handle) \in Calls /\ Went(c, Handle).step = "running"
        /\ SameSubject(Went(c, Handle), c) /\ Went(c, Handle).at = c.at + 1
        /\ Went(c, Handle).last = Handle /\ Went(c, Handle).session = c.session
        /\ Went(c, Handle).trace = c.trace
    BY <1>2, <2>1, WentOn DEF SameSubject
  <2> QED BY <1>1, <2>2 DEF Calls, SameSubject
<1>8. ASSUME NEW k \in Nat, NEW v \in Views, Holds(objects, c, k, v)
      PROVE  /\ after(v) \in Views /\ Holds(more, d, k, after(v))
             /\ \A e : Leads(more, c, e, v, s, after(v))
  <2>1. s.of \in STRING /\ Handle \in Nat
    BY <1>2 DEF Steps, Handle
  <2>2. /\ after(v) \in Views /\ after(v).last = Handle /\ after(v).made = {s.of}
        /\ after(v).cursor = v.cursor
    BY <2>1 DEF Views
  <2>3. Holds(more, d, k, after(v))
    <3>1. more[Len(objects) + 1].type = s.of
      BY <1>1, <1>5
    <3>2. v.cursor = k
      BY <1>8 DEF Holds
    <3> HIDE DEF after, d, more, objects
    <3>3. d.object \in 1 .. Len(more) /\ after(v).made = {more[d.object].type}
      BY <1>5, <1>7, <2>2, <3>1
    <3>4. after(v).last = d.last /\ after(v).cursor = k /\ after(v).made # {}
      BY <1>7, <2>2, <3>2
    <3> QED BY <3>3, <3>4 DEF Holds
  <2>4. \A e : Leads(more, c, e, v, s, after(v))
    BY <1>2 DEF Leads
  <2> QED BY <2>2, <2>3, <2>4
<1>9. ASSUME NEW m \in Ends, NEW v \in Views, NEW w \in Views, SameStuff(m, c),
             Holds(objects, c, c.session.cursor, v)
      PROVE  /\ ~EndsAt(objects, m, c.session.entries, v, c.at)
             /\ Leads(objects, m, c.session.entries, v, Function(c).body[c.at], w)
                  => Holds(more, d, d.session.cursor, w)
  <2>1. Function(m) = Function(c)
    BY <1>9, SameStep
  <2>2. ~EndsAt(objects, m, c.session.entries, v, c.at)
    BY <1>2, <2>1 DEF EndsAt, Asking
  <2>3. c.session.cursor \in Nat
    BY <1>2 DEF Calls, Sessions
  <2>4. Holds(more, d, c.session.cursor, after(v))
    BY <1>8, <1>9, <2>3
  <2>5. Leads(objects, m, c.session.entries, v, s, w) => w = after(v)
    BY <1>2 DEF Leads, Asking
  <2> QED BY <1>2, <1>7, <2>2, <2>4, <2>5
<1>10. ASSUME NEW v \in Views, Holds(objects, c, Len(log.entries), v)
       PROVE  \E w \in Views :
                 /\ Leads(more, c, log.entries, v, Function(c).body[c.at], w)
                 /\ Holds(more, d, Len(log.entries), w)
  <2>1. Len(log.entries) \in Nat
    BY <1>3
  <2>2. /\ after(v) \in Views /\ Holds(more, d, Len(log.entries), after(v))
        /\ Leads(more, c, log.entries, v, s, after(v))
    BY <1>8, <1>10, <2>1
  <2> QED BY <1>2, <2>2
<1>11. Grows(log.entries, log'.entries) /\ log' = log /\ tape' = tape
       /\ counts'.recordings = counts.recordings
  BY <1>1, Reflexive
<1> QED BY <1>1, <1>2, <1>6, <1>7, <1>9, <1>10, <1>11, GoingOnReplays

LEMMA GetReplays ==
  ASSUME Typed, KeepsShape, Replays, Typed', NEW t \in Threads, Get(t)
  PROVE  Replays'
<1> DEFINE c == calls[t]
           d == calls'[t]
           objects == heaps[c.heap]
           s == Operand(t)
           value == Read(c, s.of, s.index)
           after(v) == [v EXCEPT !.last = value]
<1>1. /\ UNCHANGED <<engine, heaps, log, reloads, counts>>
      /\ \/ c.object \notin DOMAIN objects /\ EndsAs(t, c, FALSE, "InvalidObjectReference")
         \/ /\ c.object \in DOMAIN objects /\ objects[c.object].type # s.of
            /\ EndsAs(t, c, FALSE, "TypeMismatch")
         \/ /\ c.object \in DOMAIN objects /\ objects[c.object].type = s.of
            /\ tape' = tape /\ d = Went(c, value)
      /\ \A u \in Threads \ {t} : calls'[u] = calls[u]
  BY Reads DEF OneCall
<1>2. /\ c \in Calls /\ c.step = "running" /\ c.session.mode = c.mode
      /\ c.at \in 1 .. Len(Function(c).body) /\ s = Function(c).body[c.at] /\ s.op = "get"
  <2>1. Running(t, "get")
    BY DEF Get
  <2> QED BY <2>1, Executing
<1>3. heaps \in Seq(Seq(Objects)) /\ c.heap \in 1 .. Len(heaps) /\ objects \in Seq(Objects)
      /\ log.entries \in Seq(Entries)
  <2>1. heaps \in Seq(Seq(Objects)) /\ c.heap \in 1 .. Len(heaps) /\ log.entries \in Seq(Entries)
    BY DEF Typed
  <2> QED BY <2>1
<1>4. HeapsGrow
  BY <1>1, <1>3 DEF HeapsGrow, Grows
<1>5. ASSUME NEW k, NEW v \in Views, Holds(objects, c, k, v)
      PROVE  Seen(objects, c, v) = IF c.object \in DOMAIN objects THEN {objects[c.object].type} ELSE {}
  BY <1>3, <1>5, WhatIsSeen
<1>6. Grows(log.entries, log'.entries) /\ log' = log /\ counts'.recordings = counts.recordings
  BY <1>1, Reflexive
<1>7. ASSUME NEW error \in Errors, EndsAs(t, c, FALSE, error),
             \A v \in Views : \A k : Holds(objects, c, k, v) =>
                \/ Seen(objects, c, v) = {} /\ error = "InvalidObjectReference"
                \/ Seen(objects, c, v) \notin {{}, {s.of}} /\ error = "TypeMismatch"
      PROVE  Replays'
  <2>1. AsFar(c, c) /\ FALSE \in BOOLEAN
    BY <1>2, AsFarAsItself
  <2>2. ASSUME NEW v \in Views, Holds(objects, c, Len(log.entries), v)
        PROVE  EndsAt(objects, EndOf(c, FALSE, error), log'.entries, v, c.at)
    <3> DEFINE m == EndOf(c, FALSE, error)
    <3>1. m.last = c.last /\ m.ok = FALSE /\ m.error = error /\ SameStuff(m, c)
      BY DEF EndOf, SameStuff
    <3> HIDE DEF m
    <3>2. Function(m) = Function(c) /\ Seen(objects, m, v) = Seen(objects, c, v)
      BY <3>1, SameStep
    <3>3. v.last = c.last
      BY <2>2 DEF Holds
    <3>4. EndsAt(objects, m, log'.entries, v, c.at)
      BY <1>2, <1>7, <2>2, <3>1, <3>2, <3>3 DEF EndsAt
    <3> QED BY <3>4 DEF m
  <2>3. c.mode = "Replay" => d.ok = FALSE /\ d.error = error
    BY <1>7 DEF EndsAs
  <2>4. ASSUME NEW m \in Ends, NEW v \in Views, NEW w \in Views, SameStuff(m, c),
               Holds(objects, c, c.session.cursor, v), c.mode = "Replay"
        PROVE  /\ ~Leads(objects, m, c.session.entries, v, Function(c).body[c.at], w)
               /\ EndsAt(objects, m, c.session.entries, v, c.at) => m.ok = d.ok /\ m.error = d.error
    <3>1. Function(m) = Function(c) /\ Seen(objects, m, v) = Seen(objects, c, v)
      BY <2>4, SameStep
    <3>2. \/ Seen(objects, c, v) = {} /\ error = "InvalidObjectReference"
          \/ Seen(objects, c, v) \notin {{}, {s.of}} /\ error = "TypeMismatch"
      BY <1>7, <2>4
    <3>3. ~Leads(objects, m, c.session.entries, v, Function(c).body[c.at], w)
      BY <1>2, <3>1, <3>2 DEF Leads, Asking
    <3>4. ASSUME EndsAt(objects, m, c.session.entries, v, c.at)
          PROVE  m.ok = FALSE /\ m.error = error
      <4>1. \/ Seen(objects, m, v) = {} /\ m.ok = FALSE /\ m.error = "InvalidObjectReference"
            \/ Seen(objects, m, v) \notin {{}, {s.of}} /\ m.ok = FALSE /\ m.error = "TypeMismatch"
        BY <1>2, <3>1, <3>4, EndsAtGet
      <4> QED BY <3>1, <3>2, <4>1
    <3> QED BY <2>3, <2>4, <3>3, <3>4
  <2> QED BY <1>1, <1>2, <1>6, <1>7, <2>1, <2>2, <2>3, <2>4, EndingReplays
<1>8. {"InvalidObjectReference", "TypeMismatch"} \subseteq Errors
  BY DEF Errors
<1>9. CASE c.object \notin DOMAIN objects /\ EndsAs(t, c, FALSE, "InvalidObjectReference")
  <2>1. \A v \in Views : \A k : Holds(objects, c, k, v) => Seen(objects, c, v) = {}
    BY <1>5, <1>9
  <2> QED BY <1>7, <1>8, <1>9, <2>1
<1>10. CASE /\ c.object \in DOMAIN objects /\ objects[c.object].type # s.of
            /\ EndsAs(t, c, FALSE, "TypeMismatch")
  <2>1. \A v \in Views : \A k : Holds(objects, c, k, v) => Seen(objects, c, v) \notin {{}, {s.of}}
    BY <1>5, <1>10
  <2> QED BY <1>7, <1>8, <1>10, <2>1
<1>11. CASE /\ c.object \in DOMAIN objects /\ objects[c.object].type = s.of
            /\ tape' = tape /\ d = Went(c, value)
  <2>1. value \in Nat
    BY DEF Read, Handle
  <2> HIDE DEF value
  <2>2. /\ d.step = "running" /\ SameSubject(d, c) /\ d.at = c.at + 1 /\ d.last = value
        /\ d.session = c.session /\ d.trace = c.trace /\ d.object = c.object
        /\ d.passed = c.passed
    <3> DEFINE went == Went(c, value)
    <3>1. /\ went.step = c.step /\ went.program = c.program /\ went.bindings = c.bindings
          /\ went.heap = c.heap /\ went.mode = c.mode /\ went.function = c.function
          /\ went.argument = c.argument /\ went.passed = c.passed /\ went.master = c.master
          /\ went.at = c.at + 1 /\ went.last = value /\ went.session = c.session
          /\ went.trace = c.trace /\ went.object = c.object
      BY <1>2, <2>1, WentOn
    <3>2. d = went
      BY <1>11
    <3> HIDE DEF went, d
    <3> QED BY <1>2, <3>1, <3>2 DEF SameSubject
  <2>3. ASSUME NEW k, NEW v \in Views, Holds(objects, c, k, v)
        PROVE  /\ after(v) \in Views /\ Holds(objects, d, k, after(v))
               /\ Seen(objects, c, v) = {s.of}
    <3>1. /\ after(v) \in Views /\ after(v).last = value /\ after(v).made = v.made
          /\ after(v).cursor = v.cursor
      BY <2>1 DEF Views
    <3>2. Holds(objects, d, k, after(v))
      <4> HIDE DEF after, d, objects
      <4> QED BY <2>2, <2>3, <3>1 DEF Holds
    <3> QED BY <1>5, <1>11, <2>3, <3>1, <3>2
  <2>4. ASSUME NEW v \in Views, Holds(objects, c, Len(log.entries), v)
        PROVE  \E w \in Views :
                  /\ Leads(objects, c, log'.entries, v, Function(c).body[c.at], w)
                  /\ Holds(objects, d, Len(log'.entries), w)
    <3>1. after(v) \in Views /\ Holds(objects, d, Len(log.entries), after(v)) /\ Seen(objects, c, v) = {s.of}
      BY <2>3, <2>4
    <3>2. Leads(objects, c, log'.entries, v, s, after(v))
      BY <1>2, <3>1 DEF Leads, value
    <3> QED BY <1>2, <1>6, <3>1, <3>2
  <2>5. ASSUME NEW m \in Ends, NEW v \in Views, NEW w \in Views, SameStuff(m, c),
               Holds(objects, c, c.session.cursor, v)
        PROVE  /\ ~EndsAt(objects, m, c.session.entries, v, c.at)
               /\ Leads(objects, m, c.session.entries, v, Function(c).body[c.at], w)
                    => Holds(objects, d, d.session.cursor, w)
    <3>1. /\ Function(m) = Function(c) /\ Seen(objects, m, v) = Seen(objects, c, v)
          /\ Read(m, s.of, s.index) = value
      BY <2>5, SameStep DEF value
    <3>2. Holds(objects, d, c.session.cursor, after(v)) /\ Seen(objects, c, v) = {s.of}
      BY <2>3, <2>5
    <3>3. ASSUME EndsAt(objects, m, c.session.entries, v, c.at)
          PROVE  FALSE
      <4>1. \/ Seen(objects, m, v) = {} /\ m.ok = FALSE /\ m.error = "InvalidObjectReference"
            \/ Seen(objects, m, v) \notin {{}, {s.of}} /\ m.ok = FALSE /\ m.error = "TypeMismatch"
        BY <1>2, <3>1, <3>3, EndsAtGet
      <4> QED BY <3>1, <3>2, <4>1
    <3>4. Leads(objects, m, c.session.entries, v, s, w) => w = after(v)
      BY <1>2, <3>1 DEF Leads, Asking
    <3> QED BY <1>2, <2>2, <3>2, <3>3, <3>4
  <2>6. heaps'[c.heap] = objects
    BY <1>1
  <2> QED BY <1>1, <1>2, <1>4, <1>6, <1>11, <2>2, <2>4, <2>5, <2>6, GoingOnReplays
<1> QED BY <1>1, <1>9, <1>10, <1>11

LEMMA ReturnReplays ==
  ASSUME Typed, KeepsShape, Replays, Typed', NEW t \in Threads, Return(t)
  PROVE  Replays'
<1> DEFINE c == calls[t]
           d == calls'[t]
           objects == heaps[c.heap]
           e == c.session.entries
           k == c.session.cursor
<1>1. /\ c \in Calls /\ c.step = "running" /\ c.session.mode = c.mode
      /\ c.at > Len(Function(c).body)
      /\ UNCHANGED <<engine, heaps, log, reloads, counts>> /\ EndsAs(t, c, TRUE, "None")
  BY Returns
<1>2. AsFar(c, c) /\ "None" \in Errors /\ TRUE \in BOOLEAN
  BY <1>1, AsFarAsItself DEF Errors
<1>3. c.at \in Nat /\ Function(c).body \in Seq(Steps)
  <2>1. c.function \in DOMAIN Images[c.program].functions /\ c.program \in DOMAIN Images
    BY <1>1 DEF Typed, Calls
  <2> QED BY <1>1, <2>1, EngineAssumption DEF Calls, Function
<1>4. ~(c.at <= Len(Function(c).body))
  BY <1>1, <1>3
<1>5. Grows(log.entries, log'.entries) /\ log' = log /\ counts'.recordings = counts.recordings
  BY <1>1, Reflexive
<1>6. ASSUME NEW v \in Views, Holds(objects, c, Len(log.entries), v)
      PROVE  EndsAt(objects, EndOf(c, TRUE, "None"), log'.entries, v, c.at)
  <2> DEFINE m == EndOf(c, TRUE, "None")
  <2>1. m.last = c.last /\ m.ok = TRUE /\ m.error = "None" /\ SameStuff(m, c)
    BY DEF EndOf, SameStuff
  <2> HIDE DEF m
  <2>2. Function(m) = Function(c)
    BY <2>1, SameStep
  <2>3. EndsAt(objects, m, log'.entries, v, c.at)
    BY <1>1, <1>5, <1>6, <2>1, <2>2 DEF EndsAt, Holds
  <2> QED BY <2>3 DEF m
<1>7. ASSUME c.mode = "Replay"
      PROVE  /\ d.ok => d.trace = d.session.entries
             /\ k = Len(e) => d.ok = TRUE /\ d.error = "None"
  <2>1. /\ d.session = c.session /\ d.trace = c.trace
        /\ \/ k # Len(e) /\ d.ok = FALSE
           \/ k = Len(e) /\ d.ok = TRUE /\ d.error = "None"
    BY <1>1, <1>7 DEF EndsAs
  <2>2. /\ Len(c.trace) = k /\ \A i \in 1 .. k : c.trace[i] = e[i]
        /\ c.trace \in Seq(Entries) /\ e \in Seq(Entries)
    BY <1>1, <1>7 DEF Replays, InOrder, InStepCall, Calls, Sessions
  <2>3. k = Len(e) => c.trace = e
    BY <2>2
  <2> QED BY <2>1, <2>3
<1>8. ASSUME NEW m \in Ends, NEW v \in Views, SameStuff(m, c), Holds(objects, c, k, v),
             c.mode = "Replay", EndsAt(objects, m, e, v, c.at)
      PROVE  m.ok = d.ok /\ m.error = d.error
  <2>1. Function(m) = Function(c)
    BY <1>8, SameStep
  <2>2. m.ok = TRUE /\ m.error = "None" /\ v.cursor = Len(e)
    BY <1>4, <1>8, <2>1 DEF EndsAt
  <2>3. v.cursor = k
    BY <1>8 DEF Holds
  <2> QED BY <1>7, <1>8, <2>2, <2>3
<1> QED BY <1>1, <1>2, <1>4, <1>5, <1>6, <1>7, <1>8, EndingReplays

LEMMA InvokeReplays ==
  ASSUME Typed, KeepsShape, Replays, Typed', NEW t \in Threads, Invoke(t)
  PROVE  Replays'
<1>1. /\ UNCHANGED <<engine, heaps, log, reloads, tape>> /\ counts'.recordings = counts.recordings
      /\ calls[t].step \in {"idle", "done"} /\ calls'[t].step \in {"snapped", "done"}
      /\ calls'[t].step = "done" => calls'[t].error = "FunctionNotFound"
      /\ calls'[t].at = 1 /\ calls'[t].last = calls'[t].argument
      /\ calls'[t].object = calls'[t].passed /\ calls'[t].trace = <<>>
      /\ \A u \in Threads \ {t} : calls'[u] = calls[u]
  BY Invokes DEF OneCall
<1>2. heaps \in Seq(Seq(Objects)) /\ Len(heaps) \in Nat
  BY DEF Typed
<1>3. HeapsGrow /\ Grows(tape, tape')
  BY <1>1, <1>2, Reflexive DEF HeapsGrow
<1>4. ~Recording(calls[t]) /\ ~Recording(calls'[t])
  BY <1>1 DEF Recording
<1>5. OneRecording'
  BY <1>1, <1>3, <1>4, NoRecordingStep
<1>6. InOrder(heaps', tape', calls'[t])
  BY <1>1 DEF InOrder, FreshCall, InStepCall, ReproducedCall
<1> QED BY <1>1, <1>3, <1>5, <1>6, ReplaysFrame

LEMMA EnterReplays ==
  ASSUME Typed, KeepsShape, Replays, Typed', NEW t \in Threads, Enter(t)
  PROVE  Replays'
<1> DEFINE c == calls[t]
           d == calls'[t]
<1>1. /\ UNCHANGED <<engine, heaps, log, reloads, tape>>
      /\ counts'.recordings = IF c.mode = "Record" THEN counts.recordings + 1 ELSE counts.recordings
      /\ c.step = "snapped" /\ d.step = "running" /\ d.mode = c.mode
      /\ d.at = c.at /\ d.last = c.last /\ d.argument = c.argument /\ d.object = c.object
      /\ d.passed = c.passed /\ d.trace = c.trace /\ d.session = NewSession(c.mode, log)
      /\ d.master = IF counts.recordings = 1 THEN Len(tape) ELSE 0
      /\ \A u \in Threads \ {t} : calls'[u] = calls[u]
  BY Enters DEF OneCall
<1>2. /\ heaps \in Seq(Seq(Objects)) /\ Len(heaps) \in Nat /\ c \in Calls /\ log \in Logs
      /\ tape \in Seq(Ends) /\ counts.recordings \in Nat /\ d \in Calls
  BY DEF Typed, Logs
<1>3. HeapsGrow /\ Grows(tape, tape')
  BY <1>1, <1>2, Reflexive DEF HeapsGrow
<1>4. ~Recording(c)
  BY <1>1 DEF Recording
<1>5. c.at = 1 /\ c.last = c.argument /\ c.object = c.passed /\ c.trace = <<>>
  BY <1>1 DEF Replays, InOrder, FreshCall
<1>6. c.mode \in Modes /\ d.session.cursor = 0
      /\ (c.mode = "Replay" => d.session.entries = log.entries)
  BY <1>1, <1>2, SessionTyped DEF Calls
<1>7. StartOf(d) \in Views /\ d.argument \in Nat
  <2>1. d.argument \in Nat
    BY <1>2 DEF Calls
  <2> QED BY <2>1 DEF StartOf, Views
<1>8. ASSUME NEW objects, NEW v, v = StartOf(d) PROVE Holds(objects, d, 0, v)
  BY <1>1, <1>5, <1>8 DEF Holds, StartOf
<1>9. OneRecording'
  <2>1. CASE c.mode # "Record"
    <3>1. ~Recording(d)
      BY <1>1, <2>1 DEF Recording
    <3> QED BY <1>1, <1>3, <1>4, <2>1, <3>1, NoRecordingStep
  <2>2. CASE c.mode = "Record" /\ counts.recordings # 0
    <3>1. counts'.recordings # 0 /\ counts'.recordings # 1
      BY <1>1, <1>2, <2>2
    <3> QED BY <3>1 DEF OneRecording
  <2>3. CASE c.mode = "Record" /\ counts.recordings = 0
    <3>1. /\ log.entries = <<>> /\ tape = <<>> /\ \A u \in Threads : ~Recording(calls[u])
          /\ counts'.recordings = 1
      BY <1>1, <2>3 DEF Replays, OneRecording
    <3> DEFINE h == <<StartOf(d)>>
    <3>2. h \in Seq(Views) /\ Len(h) = 1 /\ h[1] = StartOf(d) /\ Len(log'.entries) = 0
      BY <1>1, <1>7, <3>1
    <3> HIDE DEF h
    <3>3. Path(heaps'[d.heap], d, log'.entries, h)
      BY <3>2 DEF Path
    <3>4. Len(h) = d.at /\ Holds(heaps'[d.heap], d, Len(log'.entries), h[d.at])
      BY <1>1, <1>5, <1>8, <3>2
    <3>5. Records(heaps', log'.entries, d) /\ Recording(d)
      BY <1>1, <2>3, <3>2, <3>3, <3>4 DEF Records, Recording
    <3>6. tape' = <<>> /\ \A u \in Threads \ {t} : ~Recording(calls'[u])
      BY <1>1, <3>1
    <3> QED BY <3>1, <3>5, <3>6 DEF OneRecording
  <2> QED BY <2>1, <2>2, <2>3
<1>10. InOrder(heaps', tape', d)
  <2>1. ASSUME c.mode = "Replay" PROVE InStepCall(heaps', tape', d)
    <3>1. d.master \in {0, 1}
      BY <1>1 DEF Replays, OneRecording
    <3>2. log.entries \in Seq(Entries) /\ Len(log.entries) \in Nat
      BY <1>2 DEF Logs
    <3>3. ASSUME d.master = 1, SameCall(tape[1], d), Reproducible(tape[1])
          PROVE  \E h \in Seq(Views) :
                    /\ Whole(heaps[d.heap], tape[1], log.entries, h)
                    /\ d.at <= Len(h) /\ Holds(heaps[d.heap], d, 0, h[d.at])
      <4>1. counts.recordings = 1 /\ Len(tape) = 1
        <5>1. d.master = IF counts.recordings = 1 THEN Len(tape) ELSE 0
          BY <1>1
        <5>2. d.master = 1
          BY <3>3
        <5> HIDE DEF d
        <5>3. CASE counts.recordings = 1
          BY <5>1, <5>2, <5>3
        <5>4. CASE counts.recordings # 1
          <6>1. d.master = 0
            BY <5>1, <5>4
          <6> QED BY <5>2, <6>1
        <5> QED BY <5>3, <5>4
      <4>2. PICK h \in Seq(Views) : Whole(heaps[tape[1].heap], tape[1], log.entries, h)
        BY <3>3, <4>1 DEF Replays, OneRecording
      <4>3. tape[1].heap = d.heap /\ tape[1].argument = d.argument
        BY <3>3 DEF SameCall
      <4>4. Len(h) >= 1 /\ h[1] = StartOf(d)
        BY <4>2, <4>3 DEF Whole, Path, StartOf
      <4>5. Holds(heaps[d.heap], d, 0, h[1])
        BY <1>8, <4>4
      <4> QED BY <1>1, <1>5, <4>2, <4>3, <4>4, <4>5
    <3>4. Len(d.trace) = 0
      BY <1>1, <1>5
    <3>5. heaps' = heaps /\ tape' = tape /\ d.session.entries = log.entries
      BY <1>1, <1>6, <2>1
    <3> HIDE DEF d
    <3> QED BY <1>6, <3>1, <3>2, <3>3, <3>4, <3>5 DEF InStepCall
  <2>2. c.mode # "Replay" => InStepCall(heaps', tape', d)
    BY <1>1 DEF InStepCall
  <2> QED BY <1>1, <2>1, <2>2 DEF InOrder, FreshCall, ReproducedCall
<1> QED BY <1>1, <1>3, <1>9, <1>10, ReplaysFrame

LEMMA HostReplays ==
  ASSUME Typed, Replays, Typed', Prepare \/ Replace \/ SetHeap \/ SetBindings
  PROVE  Replays'
<1>1. heaps \in Seq(Seq(Objects)) /\ Len(heaps) \in Nat
      /\ counts \in [invocations : Nat, recordings : Nat, reloads : Nat, swaps : Nat]
  BY DEF Typed
<1>2. /\ UNCHANGED <<log, calls, tape>> /\ counts'.recordings = counts.recordings
      /\ heaps' = heaps \/ heaps' = Append(heaps, <<>>)
  BY <1>1 DEF Prepare, Replace, SetHeap, SetBindings
<1>3. Len(heaps) <= Len(heaps') /\ \A n \in 1 .. Len(heaps) : heaps'[n] = heaps[n]
  BY <1>1, <1>2
<1>4. HeapsGrow /\ Grows(tape, tape')
  BY <1>2, <1>3, Reflexive DEF HeapsGrow
<1>5. OneRecording'
  BY <1>2, <1>4, NoRecordingStep
<1>6. \A u \in Threads : InOrder(heaps', tape', calls'[u])
  BY <1>2, <1>4, OtherCalls
<1>7. \A i \in 1 .. Len(tape') : tape'[i].heap \in 1 .. Len(heaps')
  <2>1. heaps' \in Seq(Seq(Objects))
    BY DEF Typed
  <2>2. \A i \in 1 .. Len(tape) : tape[i].heap \in 1 .. Len(heaps)
    BY DEF Replays
  <2> QED BY <1>1, <1>2, <1>3, <2>1, <2>2
<1> QED BY <1>5, <1>6, <1>7 DEF Replays

\* A call of a host function, as the paths see it.
LEMMA LeadsAtCall ==
  ASSUME NEW m, NEW objects, NEW e, NEW v \in Views, NEW s, s.op = "call", NEW w,
         Leads(objects, m, e, v, s, w)
  PROVE  \/ ~Policed(Registries[m.bindings][s.of]) /\ w = v
         \/ /\ Asking(m, e, v, s) /\ e[v.cursor + 1].ok
            /\ w.last = e[v.cursor + 1].value /\ w.cursor = v.cursor + 1 /\ w.made = v.made
BY DEF Leads, Views

LEMMA EndsAtCall ==
  ASSUME NEW m, NEW c, Function(m) = Function(c), NEW n \in 1 .. Len(Function(c).body),
         NEW objects, NEW e, NEW v, NEW s, s = Function(c).body[n], s.op = "call",
         EndsAt(objects, m, e, v, n)
  PROVE  Asking(m, e, v, s) /\ ~e[v.cursor + 1].ok /\ m.ok = FALSE /\ m.error = "HostError"
<1> DEFINE body == Function(c).body
<1>1. ~(n > Len(body)) /\ "get" # "call"
  OBVIOUS
<1>2. /\ m.last = v.last
      /\ \/ n > Len(body) /\ m.ok = TRUE /\ m.error = "None" /\ v.cursor = Len(e)
         \/ /\ n <= Len(body) /\ body[n].op = "get" /\ Seen(objects, m, v) = {}
            /\ m.ok = FALSE /\ m.error = "InvalidObjectReference"
         \/ /\ n <= Len(body) /\ body[n].op = "get" /\ Seen(objects, m, v) \notin {{}, {body[n].of}}
            /\ m.ok = FALSE /\ m.error = "TypeMismatch"
         \/ /\ n <= Len(body) /\ Asking(m, e, v, body[n]) /\ ~e[v.cursor + 1].ok
            /\ m.ok = FALSE /\ m.error = "HostError"
  BY Zenon DEF EndsAt
<1>3. body[n].op # "get"
  BY <1>1
<1> QED BY <1>1, <1>2, <1>3, Zenon

LEMMA WentFields ==
  ASSUME NEW a \in Calls, NEW c, AsFar(c, a), a.step = "running", NEW value \in Nat,
         NEW d, d = Went(c, value)
  PROVE  /\ d.step = "running" /\ SameSubject(d, a) /\ d.at = a.at + 1 /\ d.last = value
         /\ d.session = c.session /\ d.trace = c.trace /\ d.object = a.object
         /\ d.passed = a.passed
<1>1. /\ c \in Calls /\ c.step = "running" /\ SameSubject(c, a) /\ c.at = a.at
      /\ c.object = a.object
  BY DEF AsFar
<1>2. /\ d.step = c.step /\ d.program = c.program /\ d.bindings = c.bindings
      /\ d.heap = c.heap /\ d.mode = c.mode /\ d.function = c.function
      /\ d.argument = c.argument /\ d.passed = c.passed /\ d.master = c.master
      /\ d.at = c.at + 1 /\ d.last = value /\ d.session = c.session
      /\ d.trace = c.trace /\ d.object = c.object
  BY <1>1, WentOn
<1> QED BY <1>1, <1>2 DEF SameSubject

LEMMA CallReplays ==
  ASSUME Typed, KeepsShape, Replays, Typed', NEW t \in Threads, Call(t)
  PROVE  Replays'
<1> DEFINE a == calls[t]
           d == calls'[t]
           objects == heaps[a.heap]
           s == Operand(t)
           e == a.session.entries
           k == a.session.cursor
           binding == Binding(t)
           entry == NextEntry(a)
<1>1. /\ UNCHANGED <<engine, heaps, reloads, counts>> /\ log' \in Logs
      /\ \A u \in Threads \ {t} : calls'[u] = calls[u]
      /\ \/ AskedFreely(t)
         \/ \E c \in Calls : AskedTheLog(t, c)
         \/ \E c \in Calls, host \in Hosts : AskedForTheLog(t, c, host)
         \/ \E c \in Calls : AskedOtherwise(t, c)
  BY Asks DEF OneCall
<1>2. /\ a \in Calls /\ a.step = "running" /\ a.session.mode = a.mode
      /\ a.at \in 1 .. Len(Function(a).body) /\ s = Function(a).body[a.at] /\ s.op = "call"
      /\ s \in Steps /\ AsFar(a, a)
  <2>1. Running(t, "call")
    BY DEF Call
  <2> QED BY <2>1, Executing, AsFarAsItself
<1>3. heaps \in Seq(Seq(Objects)) /\ Len(heaps) \in Nat /\ log \in Logs /\ log.entries \in Seq(Entries)
      /\ log'.entries \in Seq(Entries)
  BY <1>1 DEF Typed, Logs
<1>4. HeapsGrow /\ counts'.recordings = counts.recordings /\ heaps'[a.heap] = objects
      /\ UNCHANGED heaps
  BY <1>1, <1>3, Reflexive DEF HeapsGrow
<1>5. a.last \in Nat /\ k \in Nat /\ s.of = Name(t) /\ binding = Registries[a.bindings][s.of]
  BY <1>2 DEF Calls, Sessions, Name, Binding
<1>6. ASSUME NEW m, SameStuff(m, a)
      PROVE  /\ Function(m) = Function(a) /\ Registries[m.bindings][s.of] = binding
  BY <1>5, <1>6, SameStep DEF SameStuff
<1>7. CASE AskedFreely(t)
  <2>1. ~Policed(binding) /\ log' = log /\ tape' = tape /\ d = Went(a, a.last)
    BY <1>7 DEF AskedFreely
  <2>2. /\ d.step = "running" /\ SameSubject(d, a) /\ d.at = a.at + 1 /\ d.last = a.last
        /\ d.session = a.session /\ d.trace = a.trace /\ d.object = a.object
        /\ d.passed = a.passed
    BY <1>2, <1>5, <2>1, WentFields
  <2>3. \A v, n : Holds(objects, a, n, v) => Holds(objects, d, n, v)
    BY <2>2 DEF Holds
  <2>4. ASSUME NEW v \in Views, Holds(objects, a, Len(log.entries), v)
        PROVE  \E w \in Views :
                  /\ Leads(objects, a, log'.entries, v, Function(a).body[a.at], w)
                  /\ Holds(objects, d, Len(log'.entries), w)
    <3>1. Leads(objects, a, log'.entries, v, s, v)
      BY <1>2, <1>5, <2>1 DEF Leads
    <3> QED BY <1>2, <2>1, <2>3, <2>4, <3>1
  <2>5. ASSUME NEW m \in Ends, NEW v \in Views, NEW w \in Views, SameStuff(m, a),
               Holds(objects, a, k, v)
        PROVE  /\ ~EndsAt(objects, m, e, v, a.at)
               /\ Leads(objects, m, e, v, Function(a).body[a.at], w)
                    => Holds(objects, d, d.session.cursor, w)
    <3>1. Function(m) = Function(a) /\ Registries[m.bindings][s.of] = binding
      BY <1>6, <2>5
    <3>2. ~Asking(m, e, v, s)
      BY <2>1, <3>1 DEF Asking
    <3>3. ~EndsAt(objects, m, e, v, a.at)
      BY <1>2, <3>1, <3>2, EndsAtCall
    <3>4. Leads(objects, m, e, v, s, w) => w = v
      BY <1>2, <3>2, LeadsAtCall
    <3> QED BY <1>2, <2>2, <2>3, <2>5, <3>3, <3>4
  <2>6. Grows(log.entries, log'.entries)
    BY <2>1, Reflexive
  <2> QED BY <1>1, <1>2, <1>4, <2>1, <2>2, <2>4, <2>5, <2>6, GoingOnReplays
<1>8. ASSUME NEW c \in Calls, AskedTheLog(t, c) PROVE Replays'
  <2>1. Policed(binding) /\ a.mode = "Replay" /\ log' = log /\ AsFar(c, a)
    BY <1>8 DEF AskedTheLog
  <2>2. Grows(log.entries, log'.entries)
    BY <2>1, Reflexive
  <2>3. ASSUME NEW m, SameStuff(m, a), NEW v \in Views, Holds(objects, a, k, v)
        PROVE  (Asking(m, e, v, s) <=> Expected(t)) /\ e[v.cursor + 1] = entry
    <3>1. v.last = a.last /\ v.cursor = k
      BY <2>3 DEF Holds
    <3> QED BY <1>2, <1>5, <1>6, <2>1, <2>3, <3>1 DEF Asking, Expected, NextEntry
  <2>4. ASSUME ~Expected(t), EndsAs(t, c, FALSE, "ReplayMismatch") PROVE Replays'
    <3>1. d.ok = FALSE /\ "ReplayMismatch" \in Errors /\ FALSE \in BOOLEAN
      BY <2>1, <2>4 DEF EndsAs, AsFar, SameSubject, Errors
    <3>2. ASSUME NEW m \in Ends, NEW v \in Views, NEW w \in Views, SameStuff(m, a),
                 Holds(objects, a, k, v)
          PROVE  /\ ~Leads(objects, m, e, v, Function(a).body[a.at], w)
                 /\ ~EndsAt(objects, m, e, v, a.at)
      <4>1. Function(m) = Function(a) /\ Policed(Registries[m.bindings][s.of])
        BY <1>6, <2>1, <3>2
      <4>2. ~Asking(m, e, v, s)
        BY <2>3, <2>4, <3>2
      <4>3. ~EndsAt(objects, m, e, v, a.at)
        BY <1>2, <4>1, <4>2, EndsAtCall
      <4>4. ~Leads(objects, m, e, v, s, w)
        BY <1>2, <4>1, <4>2, LeadsAtCall
      <4> QED BY <1>2, <4>3, <4>4
    <3> QED BY <1>2, <1>4, <2>1, <2>2, <2>4, <3>1, <3>2, EndingReplays
  <2>5. ASSUME Expected(t), ~entry.ok, EndsAs(t, c, FALSE, "HostError") PROVE Replays'
    <3>1. d.ok = FALSE /\ d.error = "HostError" /\ "HostError" \in Errors /\ FALSE \in BOOLEAN
      BY <2>1, <2>5 DEF EndsAs, AsFar, SameSubject, Errors
    <3>2. ASSUME NEW m \in Ends, NEW v \in Views, NEW w \in Views, SameStuff(m, a),
                 Holds(objects, a, k, v)
          PROVE  /\ ~Leads(objects, m, e, v, Function(a).body[a.at], w)
                 /\ EndsAt(objects, m, e, v, a.at) => m.ok = FALSE /\ m.error = "HostError"
      <4>1. Function(m) = Function(a) /\ Policed(Registries[m.bindings][s.of])
        BY <1>6, <2>1, <3>2
      <4>2. e[v.cursor + 1] = entry
        BY <2>3, <3>2
      <4>3. EndsAt(objects, m, e, v, a.at) => m.ok = FALSE /\ m.error = "HostError"
        BY <1>2, <4>1, EndsAtCall
      <4>4. ~Leads(objects, m, e, v, s, w)
        <5> SUFFICES ASSUME Leads(objects, m, e, v, s, w) PROVE FALSE
          OBVIOUS
        <5>1. e[v.cursor + 1].ok
          <6> HIDE DEF objects, e, s, entry, binding
          <6> QED BY <1>2, <4>1, LeadsAtCall
        <5>2. e[v.cursor + 1].ok = entry.ok
          BY <4>2
        <5> HIDE DEF entry, e
        <5> QED BY <2>5, <5>1, <5>2
      <4> QED BY <1>2, <4>3, <4>4
    <3> QED BY <1>2, <1>4, <2>1, <2>2, <2>5, <3>1, <3>2, EndingReplays
  <2>6. ASSUME Expected(t), entry.ok, entry \in Entries, c.session = Advanced(a),
               c.trace = Append(a.trace, entry), tape' = tape, d = Went(c, entry.value)
        PROVE  Replays'
    <3>1. entry.value \in Nat
      BY <2>6 DEF Entries
    <3>2. /\ d.step = "running" /\ SameSubject(d, a) /\ d.at = a.at + 1 /\ d.last = entry.value
          /\ d.session = c.session /\ d.trace = c.trace /\ d.object = a.object
          /\ d.passed = a.passed
      BY <1>2, <2>1, <2>6, <3>1, WentFields
    <3>3. d.session.cursor = k + 1 /\ k < Len(e)
      <4>1. Advanced(a).cursor = k + 1
        BY <1>2 DEF Advanced, Calls, Sessions
      <4> QED BY <2>6, <3>2, <4>1 DEF Expected
    <3>4. ASSUME NEW m \in Ends, NEW v \in Views, NEW w \in Views, SameStuff(m, a),
                 Holds(objects, a, k, v)
          PROVE  /\ ~EndsAt(objects, m, e, v, a.at)
                 /\ Leads(objects, m, e, v, Function(a).body[a.at], w)
                      => Holds(objects, d, d.session.cursor, w)
      <4>1. Function(m) = Function(a) /\ Policed(Registries[m.bindings][s.of])
        BY <1>6, <2>1, <3>4
      <4>2. e[v.cursor + 1] = entry
        BY <2>3, <3>4
      <4>3. ~EndsAt(objects, m, e, v, a.at)
        <5> SUFFICES ASSUME EndsAt(objects, m, e, v, a.at) PROVE FALSE
          OBVIOUS
        <5>1. ~e[v.cursor + 1].ok
          <6> HIDE DEF a, d, objects, e, k, s, entry, binding
          <6>1. /\ a.at \in 1 .. Len(Function(a).body) /\ s = Function(a).body[a.at] /\ s.op = "call"
                /\ Function(m) = Function(a)
            BY <1>2, <4>1
          <6> QED BY <6>1, EndsAtCall, Zenon
        <5>2. e[v.cursor + 1].ok = entry.ok
          BY <4>2
        <5> HIDE DEF entry, e
        <5> QED BY <2>6, <5>1, <5>2
      <4>4. ASSUME Leads(objects, m, e, v, s, w) PROVE Holds(objects, d, k + 1, w)
        <5>1. w.last = e[v.cursor + 1].value /\ w.cursor = v.cursor + 1 /\ w.made = v.made
          <6> HIDE DEF a, d, objects, e, k, s, entry, binding
          <6>1. /\ s.op = "call" /\ Leads(objects, m, e, v, s, w)
                /\ Policed(Registries[m.bindings][s.of]) /\ v \in Views
            BY <1>2, <4>1, <4>4
          <6>2. \/ ~Policed(Registries[m.bindings][s.of]) /\ w = v
                \/ /\ Asking(m, e, v, s) /\ e[v.cursor + 1].ok
                   /\ w.last = e[v.cursor + 1].value /\ w.cursor = v.cursor + 1 /\ w.made = v.made
            BY <6>1, LeadsAtCall
          <6> QED BY <6>1, <6>2, Zenon
        <5>2. v.cursor = k /\ w.last = entry.value /\ w.cursor = v.cursor + 1 /\ w.made = v.made
          <6>1. e[v.cursor + 1].value = entry.value
            BY <4>2
          <6>2. v.cursor = k
            BY <3>4 DEF Holds
          <6> HIDE DEF a, d, objects, e, k, s, entry, binding
          <6> QED BY <5>1, <6>1, <6>2
        <5> HIDE DEF d, objects, k, entry
        <5> QED BY <3>2, <3>4, <5>2 DEF Holds
      <4> QED BY <1>2, <3>3, <4>3, <4>4
    <3> QED BY <1>1, <1>2, <1>4, <2>1, <2>2, <2>6, <3>2, <3>3, <3>4, GoingOnReplays
  <2> QED BY <1>8, <2>4, <2>5, <2>6 DEF AskedTheLog
<1>9. ASSUME NEW c \in Calls, NEW host \in Hosts, AskedForTheLog(t, c, host) PROVE Replays'
  <2> DEFINE x == Entry(Name(t), a.last, host)
  <2>1. Policed(binding) /\ a.mode = "Record" /\ AsFar(c, a)
    BY <1>9 DEF AskedForTheLog
  <2>2. x \in Entries /\ x.name = s.of /\ x.argument = a.last /\ x.ok = host.ok /\ x.value = host.value
        /\ host.ok \in BOOLEAN /\ host.value \in Nat
    <3>1. s.of \in STRING
      BY <1>2 DEF Steps
    <3> QED BY <1>5, <3>1, EntryTyped DEF Hosts
  <2> HIDE DEF x
  <2>3. ASSUME NEW ok, NEW error
        PROVE  /\ EndOf(c, ok, error).last = a.last /\ SameStuff(EndOf(c, ok, error), a)
               /\ EndOf(c, ok, error).ok = ok /\ EndOf(c, ok, error).error = error
    BY <2>1 DEF EndOf, SameStuff, AsFar, SameSubject
  <2>4. ASSUME log' = log, NEW error \in {"DeterminismViolation", "ExternalFunctionUnresolved"},
               EndsAs(t, c, FALSE, error)
        PROVE  Replays'
    <3>1. error \in Errors /\ FALSE \in BOOLEAN
      BY DEF Errors
    <3>2. ~Reproducible(EndOf(c, FALSE, error))
      <4>1. EndOf(c, FALSE, error).error = error
        BY <2>3
      <4> DEFINE m == EndOf(c, FALSE, error)
      <4> HIDE DEF m
      <4>2. m.error = error
        BY <4>1 DEF m
      <4>3. ~Reproducible(m)
        BY <2>4, <4>2 DEF Reproducible, Faithful
      <4> QED BY <4>3 DEF m
    <3>3. Grows(log.entries, log'.entries)
      BY <2>4, Reflexive
    <3> QED BY <1>2, <1>4, <2>1, <2>4, <3>1, <3>2, <3>3, EndingReplays
  <2>5. ASSUME log' = [log EXCEPT !.entries = Append(log.entries, x)]
        PROVE  /\ Grows(log.entries, log'.entries) /\ Len(log'.entries) = Len(log.entries) + 1
               /\ log'.entries[Len(log.entries) + 1] = x /\ Len(log.entries) \in Nat
    <3>1. log'.entries = Append(log.entries, x)
      BY <1>3, <2>5 DEF Logs
    <3> QED BY <1>3, <2>2, <3>1 DEF Grows
  <2>6. ASSUME log' = [log EXCEPT !.entries = Append(log.entries, x)],
               NEW m, SameStuff(m, a), NEW v \in Views, Holds(objects, a, Len(log.entries), v)
        PROVE  Asking(m, log'.entries, v, s) /\ log'.entries[v.cursor + 1] = x
    <3>1. v.last = a.last /\ v.cursor = Len(log.entries)
      BY <2>6 DEF Holds
    <3>2. v.cursor < Len(log'.entries) /\ log'.entries[v.cursor + 1] = x
      BY <2>5, <2>6, <3>1
    <3>3. Policed(Registries[m.bindings][s.of])
      BY <1>6, <2>1, <2>6
    <3> QED BY <1>2, <2>2, <3>1, <3>2, <3>3 DEF Asking, Matches
  <2>7. ASSUME log' = [log EXCEPT !.entries = Append(log.entries, x)], host.ok, tape' = tape,
               d = Went(c, host.value)
        PROVE  Replays'
    <3>1. /\ d.step = "running" /\ SameSubject(d, a) /\ d.at = a.at + 1 /\ d.last = host.value
          /\ d.object = a.object /\ d.passed = a.passed
      BY <1>2, <2>1, <2>2, <2>7, WentFields
    <3>2. ASSUME NEW v \in Views, Holds(objects, a, Len(log.entries), v)
          PROVE  \E w \in Views :
                    /\ Leads(objects, a, log'.entries, v, Function(a).body[a.at], w)
                    /\ Holds(objects, d, Len(log'.entries), w)
      <4> DEFINE w == [v EXCEPT !.last = host.value, !.cursor = v.cursor + 1]
      <4>1. SameStuff(a, a)
        BY DEF SameStuff
      <4>2. Asking(a, log'.entries, v, s) /\ log'.entries[v.cursor + 1] = x
        BY <2>6, <2>7, <3>2, <4>1
      <4>3. Leads(objects, a, log'.entries, v, s, w)
        BY <2>2, <2>7, <4>2 DEF Leads
      <4>4. v.cursor = Len(log.entries) /\ v.cursor \in Nat
        BY <3>2 DEF Holds, Views
      <4>8. v.cursor + 1 \in Nat
        BY <4>4
      <4>5. /\ w \in Views /\ w.last = host.value /\ w.cursor = v.cursor + 1 /\ w.made = v.made
        BY <2>2, <4>8 DEF Views
      <4> HIDE DEF w
      <4>6. w.cursor = Len(log'.entries)
        BY <2>5, <2>7, <4>4, <4>5
      <4>7. Holds(objects, d, Len(log'.entries), w)
        <5> HIDE DEF d, objects
        <5> QED BY <3>1, <3>2, <4>5, <4>6 DEF Holds
      <4> QED BY <1>2, <4>3, <4>5, <4>7
    <3> QED BY <1>1, <1>2, <1>4, <2>1, <2>5, <2>7, <3>1, <3>2, GoingOnReplays
  <2>8. ASSUME log' = [log EXCEPT !.entries = Append(log.entries, x)], ~host.ok,
               EndsAs(t, c, FALSE, "HostError")
        PROVE  Replays'
    <3> DEFINE m == EndOf(c, FALSE, "HostError")
    <3>1. "HostError" \in Errors /\ FALSE \in BOOLEAN
      BY DEF Errors
    <3>2. m.last = a.last /\ SameStuff(m, a) /\ m.ok = FALSE /\ m.error = "HostError"
      BY <2>3
    <3> HIDE DEF m
    <3>3. ASSUME NEW v \in Views, Holds(objects, a, Len(log.entries), v)
          PROVE  EndsAt(objects, m, log'.entries, v, a.at)
      <4>1. Asking(m, log'.entries, v, s) /\ log'.entries[v.cursor + 1] = x
        BY <2>6, <2>8, <3>2, <3>3
      <4>2. Function(m) = Function(a)
        BY <1>6, <3>2
      <4>3. m.last = v.last
        BY <3>2, <3>3 DEF Holds
      <4>4. a.at <= Len(Function(m).body)
        BY <1>2, <4>2
      <4> QED BY <1>2, <2>2, <2>8, <3>2, <4>1, <4>2, <4>3, <4>4 DEF EndsAt
    <3> QED BY <1>2, <1>4, <2>1, <2>5, <2>8, <3>1, <3>3, EndingReplays DEF m
  <2> QED BY <1>9, <2>4, <2>7, <2>8 DEF AskedForTheLog, x
<1>10. ASSUME NEW c \in Calls, AskedOtherwise(t, c) PROVE Replays'
  <2>1. a.mode \in {"Off", "Strict"} /\ log' = log /\ AsFar(c, a)
    BY <1>10 DEF AskedOtherwise
  <2>2. Grows(log.entries, log'.entries) /\ a.mode # "Record" /\ a.mode # "Replay"
    BY <2>1, Reflexive
  <2>3. ASSUME NEW value \in Nat, tape' = tape, d = Went(c, value) PROVE Replays'
    <3>1. d.step = "running" /\ SameSubject(d, a) /\ d.at = a.at + 1
      BY <1>2, <2>1, <2>3, WentFields
    <3> QED BY <1>1, <1>2, <1>4, <2>1, <2>2, <2>3, <3>1, GoingOnReplays
  <2>4. ASSUME NEW error \in Errors, EndsAs(t, c, FALSE, error) PROVE Replays'
    <3>1. FALSE \in BOOLEAN
      OBVIOUS
    <3> QED BY <1>2, <1>4, <2>1, <2>2, <2>4, <3>1, EndingReplays
  <2> QED BY <1>10, <2>3, <2>4 DEF AskedOtherwise
<1> QED BY <1>1, <1>7, <1>8, <1>9, <1>10

LEMMA ReplaysInit ==
  ASSUME EngineInit
  PROVE  Replays
<1>1. /\ heaps = <<<<>>>> /\ log.entries = <<>> /\ tape = <<>> /\ counts.recordings = 0
      /\ \A u \in Threads : calls[u].step = "idle"
  BY DEF EngineInit, Idle
<1>2. \A u \in Threads : InOrder(heaps, tape, calls[u])
  BY <1>1 DEF InOrder, FreshCall, InStepCall, ReproducedCall
<1>3. \A i \in 1 .. Len(tape) : tape[i].heap \in 1 .. Len(heaps)
  BY <1>1
<1>4. OneRecording
  BY <1>1 DEF OneRecording, Recording
<1> QED BY <1>2, <1>3, <1>4 DEF Replays

LEMMA ReplaysStep ==
  ASSUME Typed, KeepsShape, Replays, [EngineNext]_engineVars
  PROVE  Replays'
<1>1. Typed'
  BY ShapeStep
<1>2. CASE UNCHANGED engineVars
  <2>1. UNCHANGED <<heaps, log, calls, tape, counts>>
    BY <1>2 DEF engineVars
  <2>2. \A u \in Threads : InOrder(heaps', tape', calls'[u])
    BY <2>1 DEF Replays
  <2>3. OneRecording'
    BY <2>1 DEF Replays, OneRecording
  <2> QED BY <2>1, <2>2, <2>3 DEF Replays
<1>3. ASSUME NEW t \in Threads, Invoke(t) PROVE Replays'
  BY <1>1, <1>3, InvokeReplays
<1>4. ASSUME NEW t \in Threads, Enter(t) PROVE Replays'
  BY <1>1, <1>4, EnterReplays
<1>5. ASSUME NEW t \in Threads, New(t) PROVE Replays'
  BY <1>1, <1>5, NewReplays
<1>6. ASSUME NEW t \in Threads, Get(t) PROVE Replays'
  BY <1>1, <1>6, GetReplays
<1>7. ASSUME NEW t \in Threads, Call(t) PROVE Replays'
  BY <1>1, <1>7, CallReplays
<1>8. ASSUME NEW t \in Threads, Return(t) PROVE Replays'
  BY <1>1, <1>8, ReturnReplays
<1>9. ASSUME Prepare \/ Replace \/ SetHeap \/ SetBindings PROVE Replays'
  BY <1>1, <1>9, HostReplays
<1> QED BY <1>2, <1>3, <1>4, <1>5, <1>6, <1>7, <1>8, <1>9 DEF EngineNext

\* The recording has a path, and every replay of it is on that path.
THEOREM ReplaysInvariance == EngineSpec => []Replays
<1>1. EngineInit => Replays
  BY ReplaysInit
<1>2. Typed /\ KeepsShape /\ Replays /\ [EngineNext]_engineVars => Replays'
  BY ReplaysStep
<1> QED BY <1>1, <1>2, ShapeInvariance, PTL DEF EngineSpec

\* A replay that succeeds has made every call of its log, and the replay of a recorded
\* invocation ends as that one did, whatever the other threads and the host do between
\* the two and during either (ExecutionServices.cpp:318-474).
THEOREM ReplaysReproduce == EngineSpec => []ReplayReproduces
<1>1. Replays => ReplayReproduces
  <2> SUFFICES ASSUME Replays, NEW t \in Threads,
                      calls[t].step = "done", calls[t].mode = "Replay",
                      calls[t].error # "FunctionNotFound"
               PROVE  /\ calls[t].ok => calls[t].trace = calls[t].session.entries
                      /\ \A master \in {tape[i] : i \in 1 .. calls[t].master} :
                            SameCall(master, calls[t]) /\ Faithful(master) /\ ~Strayed(master)
                                => Outcome(calls[t]) = Outcome(master)
    BY DEF ReplayReproduces
  <2>1. ReproducedCall(tape, calls[t])
    BY DEF Replays, InOrder
  <2> QED BY <2>1 DEF ReproducedCall, Reproducible
<1> QED BY <1>1, ReplaysInvariance, PTL

=============================================================================
