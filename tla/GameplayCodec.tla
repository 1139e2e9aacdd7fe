---------------------------- MODULE GameplayCodec ---------------------------
(***************************************************************************)
(* The save format of the gameplay host (src/game/GameplayStateCodec.cpp), *)
(* the validation a state passes before it is written and after it is read *)
(* (the restore functions of src/game/GameplayPrimitives.cpp and           *)
(* src/game/GameplayScripting.cpp) and the hash that stands in the header. *)
(*                                                                         *)
(* A state is a record with the fields of GameplayHost::State, flattened,  *)
(* in the order in which they are written.  A second is 120 units of time. *)
(***************************************************************************)
EXTENDS Bytes, FiniteSets

-----------------------------------------------------------------------------
(* What a state has to be to be taken over. *)

Elements(s) == {s[i] : i \in 1 .. Len(s)}

Ids(records) == {records[i].id : i \in 1 .. Len(records)}

\* No two entries of a table have the same id, none has id 0 and the next id is free.
NumberedFrom(records, next) ==
    /\ Cardinality(Ids(records)) = Len(records)
    /\ next # 0
    /\ \A id \in Ids(records) : id \in 1 .. next - 1

ValidEntities(s) ==
    LET free == Elements(s.free) IN
    /\ \A i \in 2 .. Len(s.free) : s.free[i - 1] < s.free[i]
    /\ free \subseteq 0 .. Len(s.slots) - 1
    /\ \A i \in 1 .. Len(s.slots) :
        s.slots[i].generation # 0 /\ (s.slots[i].alive <=> i - 1 \notin free)
    /\ s.aliveCount = Len(s.slots) - Len(s.free)

\* The length of a tick.
Delta(rate) == 120 \div rate

NotNegative(time) == IsFinite(time) /\ time \notin NegativeZero + 1 .. 255

ValidClock(s) ==
    /\ s.rate # 0
    /\ NotNegative(s.accumulator) /\ NotNegative(s.dropped)
    /\ Canonical(s.accumulator) < Delta(s.rate)

ValidRandom(s) == s.increment % 2 = 1

RepeatForever == 0

ValidTasks(s) ==
    /\ NumberedFrom(s.tasks, s.nextTimer)
    /\ \A t \in Elements(s.tasks) :
        t.remaining = RepeatForever \/ t.remaining > 1 => t.interval # 0

ValidEvents(s) ==
    /\ NumberedFrom(s.events, s.nextEvent)
    /\ \A e \in Elements(s.events) : e.topic # <<>>

\* A call is the payload of its timer.
ValidCalls(s) ==
    /\ NumberedFrom(s.calls, s.nextPayload)
    /\ \A c \in Elements(s.calls) :
        /\ c.target # 0 /\ c.callback # <<>>
        /\ \E t \in Elements(s.tasks) : t.id = c.timer /\ t.payload = c.id

ValidSubscriptions(s) ==
    /\ NumberedFrom(s.subscriptions, s.nextSubscription)
    /\ \A u \in Elements(s.subscriptions) :
        u.target # 0 /\ u.topic # <<>> /\ u.callback # <<>>

\* The timers of a sequence are timers of calls, each of one sequence and once.
ValidSequences(s) ==
    LET timers == All(s.sequences, LAMBDA q : q.timers) IN
    /\ NumberedFrom(s.sequences, s.nextSequence)
    /\ \A q \in Elements(s.sequences) : q.timers # <<>>
    /\ Elements(timers) \subseteq {c.timer : c \in Elements(s.calls)}
    /\ Cardinality(Elements(timers)) = Len(timers)

Valid(s) ==
    /\ ValidEntities(s) /\ ValidClock(s) /\ ValidRandom(s) /\ ValidTasks(s)
    /\ ValidEvents(s) /\ ValidCalls(s) /\ ValidSubscriptions(s) /\ ValidSequences(s)

-----------------------------------------------------------------------------
(* The hash of what was taken over, in which the tables are ordered maps. *)

ById(records) == SortSeq(records, LAMBDA a, b : a.id < b.id)

\* Values are pairs of a tag and a value: a boolean, a number, the bits of a double, a
\* text or the index and the generation of an entity.
NullTag == 0
BoolTag == 1
IntTag == 2
LongTag == 3
DoubleTag == 4
StringTag == 5
EntityTag == 6

TextWords(text) == <<Len(text)>> \o text

ValueWords(v) ==
    <<v[1]>> \o
    CASE v[1] = NullTag            -> <<>>
      [] v[1] = BoolTag            -> Flag(v[2])
      [] v[1] \in {IntTag, LongTag} -> <<v[2]>>
      [] v[1] = DoubleTag          -> <<Canonical(v[2])>>
      [] v[1] = StringTag          -> TextWords(v[2])
      [] v[1] = EntityTag          -> v[2]

ArgumentWords(arguments) == <<Len(arguments)>> \o All(arguments, ValueWords)

TableWords(records, Of(_)) == <<Len(records)>> \o All(ById(records), Of)

EventWords(s) ==
    LET DueFirst(a, b) == a.due < b.due \/ (a.due = b.due /\ a.id < b.id) IN
    <<Len(s.events)>>
    \o All(SortSeq(s.events, DueFirst),
           LAMBDA e : <<e.due, e.id, e.target>> \o TextWords(e.topic)
                      \o ArgumentWords(e.arguments))

\* Fault: the hash leaves the payloads of the timers out.
StableHashWithoutPayloads(s) ==
    Hash(TableWords(s.tasks, LAMBDA t : <<t.id, t.due, t.interval, t.remaining>>)
         \o EventWords(s)
         \o TableWords(s.calls, LAMBDA c : <<c.id, c.timer, c.target>> \o TextWords(c.callback)))

StableHash(s) ==
    Hash(<<Len(s.slots)>> \o All(s.slots, LAMBDA e : <<e.generation>> \o Flag(e.alive))
         \o <<Len(s.free)>> \o s.free \o <<s.aliveCount>>
         \o <<s.rate, s.tick, Canonical(s.accumulator), Canonical(s.dropped)>>
         \o <<s.random, s.increment>>
         \o <<s.nextTimer>>
         \o TableWords(s.tasks, LAMBDA t : <<t.id, t.due, t.interval, t.remaining, t.payload>>)
         \o <<s.nextEvent>> \o EventWords(s)
         \o <<s.nextPayload, s.nextSubscription, s.nextSequence>>
         \o TableWords(s.calls, LAMBDA c :
                <<c.id, c.timer, c.target>> \o TextWords(c.callback)
                \o ArgumentWords(c.arguments))
         \o TableWords(s.subscriptions, LAMBDA u :
                <<u.id>> \o TextWords(u.topic) \o <<u.target>> \o TextWords(u.callback)
                \o <<u.priority>>)
         \o TableWords(s.sequences, LAMBDA q : <<q.id, Len(q.timers)>> \o q.timers))

-----------------------------------------------------------------------------
(* The writer. *)

TextBytes(text) == U32(Len(text)) \o text

ValueBytes(v) ==
    U8(v[1]) \o
    CASE v[1] = NullTag   -> <<>>
      [] v[1] = BoolTag   -> Flag(v[2])
      [] v[1] = IntTag    -> U32(Unsigned(v[2]))
      [] v[1] = LongTag   -> U64(Unsigned(v[2]))
      [] v[1] = DoubleTag -> U64(Canonical(v[2]))
      [] v[1] = StringTag -> TextBytes(v[2])
      [] v[1] = EntityTag -> U32(v[2][1]) \o U32(v[2][2])

ArgumentBytes(arguments) == Counted(arguments, ValueBytes)

CoreBytes(s) ==
    Counted(s.slots, LAMBDA e : U32(e.generation) \o Flag(e.alive))
    \o Counted(s.free, U32) \o U64(s.aliveCount)
    \o U32(s.rate) \o U64(s.tick) \o U64(Canonical(s.accumulator))
    \o U64(Canonical(s.dropped))
    \o U64(s.random) \o U64(s.increment)
    \o U64(s.nextTimer)
    \o Counted(s.tasks, LAMBDA t :
           U64(t.id) \o U64(t.due) \o U64(t.interval) \o U32(t.remaining) \o U64(t.payload))
    \o U64(s.nextEvent)
    \o Counted(s.events, LAMBDA e :
           U64(e.due) \o U64(e.id) \o U64(e.target) \o TextBytes(e.topic)
           \o ArgumentBytes(e.arguments))

HostBytes(s) ==
    CoreBytes(s)
    \o U64(s.nextPayload) \o U64(s.nextSubscription) \o U64(s.nextSequence)
    \o Counted(s.calls, LAMBDA c :
           U64(c.id) \o U64(c.timer) \o U64(c.target) \o TextBytes(c.callback)
           \o ArgumentBytes(c.arguments))
    \o Counted(s.subscriptions, LAMBDA u :
           U64(u.id) \o TextBytes(u.topic) \o U64(u.target) \o TextBytes(u.callback)
           \o U32(Unsigned(u.priority)))
    \o Counted(s.sequences, LAMBDA q : U64(q.id) \o Counted(q.timers, U64))

\* GameplayStateCodecLimits: at most so many records of each table, arguments of a
\* call and bytes of a string and of the file.
Within(s, limits) ==
    LET arguments == [i \in 1 .. Len(s.events) |-> s.events[i].arguments]
                     \o [i \in 1 .. Len(s.calls) |-> s.calls[i].arguments]
        texts == Elements([i \in 1 .. Len(s.events) |-> s.events[i].topic])
                 \cup UNION {{c.callback} : c \in Elements(s.calls)}
                 \cup UNION {{u.topic, u.callback} : u \in Elements(s.subscriptions)}
                 \cup {v[2] : v \in {x \in UNION {Elements(a) : a \in Elements(arguments)} :
                                        x[1] = StringTag}}
    IN
    /\ \A length \in {Len(s.slots), Len(s.free), Len(s.tasks), Len(s.events), Len(s.calls),
                       Len(s.subscriptions), Len(s.sequences)} :
        length <= limits.records
    /\ \A q \in Elements(s.sequences) : Len(q.timers) <= limits.records
    /\ \A a \in Elements(arguments) : Len(a) <= limits.arguments
    /\ \A text \in texts : Len(text) <= limits.text

StateMagic == <<82, 83, 71, 83>>

StateVersion == 1

StateHeaderSize == 24

EncodeState(s, limits) ==
    LET payload == HostBytes(s)
        room    == IF limits.bytes > StateHeaderSize
                   THEN limits.bytes - StateHeaderSize ELSE 0
    IN
    IF Valid(s) /\ Within(s, limits) /\ Len(payload) <= room
    THEN [ok    |-> TRUE,
          value |-> StateMagic \o U32(StateVersion) \o U64(StableHash(s))
                    \o U64(Len(payload)) \o payload]
    ELSE [ok |-> FALSE, value |-> <<>>]

-----------------------------------------------------------------------------
(* The reader. *)

ValueShape(limits) == Tagged(
    NullTag :> Fields(<<>>) @@ BoolTag :> Bool @@ IntTag :> Negative(UInt32)
    @@ LongTag :> Negative(UInt64) @@ DoubleTag :> UInt64
    @@ StringTag :> Inline(limits.text)
    @@ EntityTag :> Pair(UInt32, UInt32))

Table(of, limits) == List(of, limits.records, 0, 0)

HostShape(limits) ==
    LET TextShape == Inline(limits.text)
        Arguments == List(ValueShape(limits), limits.arguments, 0, 0)
    IN Fields(<<
    <<"slots", Table(Fields(<< <<"generation", UInt32>>, <<"alive", Bool>> >>), limits)>>,
    <<"free", Table(UInt32, limits)>>, <<"aliveCount", UInt64>>,
    <<"rate", UInt32>>, <<"tick", UInt64>>, <<"accumulator", UInt64>>, <<"dropped", UInt64>>,
    <<"random", UInt64>>, <<"increment", UInt64>>,
    <<"nextTimer", UInt64>>,
    <<"tasks", Table(Fields(<<
        <<"id", UInt64>>, <<"due", UInt64>>, <<"interval", UInt64>>, <<"remaining", UInt32>>,
        <<"payload", UInt64>> >>), limits)>>,
    <<"nextEvent", UInt64>>,
    <<"events", Table(Fields(<<
        <<"due", UInt64>>, <<"id", UInt64>>, <<"target", UInt64>>, <<"topic", TextShape>>,
        <<"arguments", Arguments>> >>), limits)>>,
    <<"nextPayload", UInt64>>, <<"nextSubscription", UInt64>>, <<"nextSequence", UInt64>>,
    <<"calls", Table(Fields(<<
        <<"id", UInt64>>, <<"timer", UInt64>>, <<"target", UInt64>>, <<"callback", TextShape>>,
        <<"arguments", Arguments>> >>), limits)>>,
    <<"subscriptions", Table(Fields(<<
        <<"id", UInt64>>, <<"topic", TextShape>>, <<"target", UInt64>>,
        <<"callback", TextShape>>, <<"priority", Negative(UInt32)>> >>), limits)>>,
    <<"sequences", Table(Fields(<<
        <<"id", UInt64>>, <<"timers", Table(UInt64, limits)>> >>), limits)>> >>)

StateHeader == Fields(<<
    <<"magic", UInt32>>, <<"version", UInt32>>, <<"hash", UInt64>>, <<"size", UInt64>> >>)

Verified(bytes, limits, header, payload) ==
    IF /\ Len(bytes) <= limits.bytes
       /\ header.ok
       /\ SubSeq(bytes, 1, 4) = StateMagic
       /\ header.value.version = StateVersion
       /\ header.value.size = Len(bytes) - StateHeaderSize
       /\ Finished(payload)
       /\ Valid(payload.value)
       /\ StableHash(payload.value) = header.value.hash
    THEN [ok |-> TRUE, value |-> payload.value]
    ELSE [ok |-> FALSE, value |-> <<>>]

DecodeState(bytes, limits) ==
    Verified(bytes, limits, Read(Reader(bytes, 0, StateHeaderSize, <<>>), StateHeader),
             Read(Reader(bytes, StateHeaderSize, Len(bytes), <<>>), HostShape(limits)))

\* A state as the host holds it: the order of the tables is not part of it, and
\* doubles are canonical.
CanonicalValue(v) == IF v[1] = DoubleTag THEN <<v[1], Canonical(v[2])>> ELSE v

CanonicalArguments(record) ==
    [record EXCEPT !.arguments = [i \in 1 .. Len(@) |-> CanonicalValue(@[i])]]

Held(s) ==
    [s EXCEPT !.accumulator = Canonical(@), !.dropped = Canonical(@),
              !.tasks = Elements(@), !.subscriptions = Elements(@),
              !.sequences = Elements(@),
              !.events = {CanonicalArguments(e) : e \in Elements(@)},
              !.calls = {CanonicalArguments(c) : c \in Elements(@)}]

=============================================================================
