---------------------------- MODULE GameplayHost ----------------------------
(***************************************************************************)
(* The deterministic gameplay host (src/game/GameplayScripting.cpp) and    *)
(* the tick scheduler and event queue it owns                              *)
(* (src/game/GameplayPrimitives.cpp).                                      *)
(*                                                                         *)
(* The host keeps what a timer calls apart from when it is due: six tables *)
(* refer to one another by id, and every operation has to keep all of them *)
(* in step.  Everything runs on the simulation thread: a step of the       *)
(* driver increments the tick and drains what is due (phase "Timers", then *)
(* "Calls", then "Events"), and in phase "Idle" the drained calls run,     *)
(* which may call any operation of the host, as the engine may between two *)
(* steps.                                                                  *)
(*                                                                         *)
(* Targets, callback names and arguments are left out, and there is one    *)
(* topic.                                                                  *)
(***************************************************************************)
EXTENDS Lists

CONSTANTS
    MaxTick,            \* the largest GameTick: the clock and due ticks stay there
    MaxTimers,          \* bound on the timers ever scheduled
    MaxSequences,       \* bound on the sequences ever started
    MaxEvents,          \* bound on the events ever enqueued
    MaxSubscriptions,   \* bound on the subscriptions ever made
    Delays,             \* delays the callers pass
    Intervals,          \* intervals of repeating calls
    Repeats,            \* repeat counts; 0 is RepeatForever
    Scripts,            \* the sequences the callers start: the delays of the steps
    Priorities,         \* of subscriptions
    TimerBudgets,       \* timers a step may fire
    EventBudgets        \* events a step may deliver

RepeatForever == 0

ASSUME HostAssumption ==
    /\ MaxTick \in Nat
    /\ MaxTimers \in Nat
    /\ MaxSequences \in Nat
    /\ MaxEvents \in Nat
    /\ MaxSubscriptions \in Nat
    /\ Delays \subseteq 0 .. MaxTick
    /\ Intervals \subseteq 1 .. MaxTick
    /\ Repeats \subseteq Nat
    /\ Scripts \subseteq Seq(0 .. MaxTick) \ {<<>>}
    /\ Priorities \subseteq Int
    /\ TimerBudgets \subseteq Nat
    /\ EventBudgets \subseteq Nat

Ticks         == 0 .. MaxTick
Timers        == 1 .. MaxTimers
SequenceIds   == 1 .. MaxSequences
EventIds      == 1 .. MaxEvents
Subscriptions == 1 .. MaxSubscriptions

VARIABLES
    tick,               \* FixedTickClock
    tasks,              \* TickScheduler::tasks_, a map from timers
    queue,              \* TickScheduler::queue_
    nextTimer,          \* TickScheduler::nextId_
    calls,              \* calls_, a map from payloads to timers
    timerToPayload,
    nextPayload,
    sequences,          \* sequences_, a map to the timers left
    timerToSequence,
    nextSequence,
    events,             \* DeterministicEventQueue::events_
    nextEvent,
    subscriptions,      \* a map to priorities
    nextSubscription,
    phase,              \* where step() is
    budget,             \* timers and events it may still take
    fired,              \* the result of runDue not yet looked up
    batch,              \* ScriptDispatchBatch::calls
    expired             \* timers whose next due tick would overflow

schedulerVars == <<tasks, queue>>
callVars      == <<calls, timerToPayload>>
sequenceVars  == <<sequences, timerToSequence>>
counterVars   == <<nextTimer, nextPayload, nextSequence>>
eventVars     == <<events, nextEvent, subscriptions, nextSubscription>>
drainVars     == <<phase, budget, fired, batch>>
vars == <<tick, schedulerVars, callVars, sequenceVars, counterVars, eventVars, drainVars,
          expired>>

-----------------------------------------------------------------------------
(* Maps and the arithmetic of ticks. *)

Put(map, key, value) ==
    [k \in DOMAIN map \cup {key} |-> IF k = key THEN value ELSE map[k]]

Drop(map, keys) == [k \in DOMAIN map \ keys |-> map[k]]

SaturatedAdd(m, n) == IF m + n > MaxTick THEN MaxTick ELSE m + n

NormalizedDelay(delay) == IF delay = 0 THEN 1 ELSE delay

\* A timer with this count fires more than once.
Repeating(count) == count = RepeatForever \/ count > 1

Init ==
    /\ tick = 0
    /\ tasks = <<>>
    /\ queue = {}
    /\ nextTimer = 1
    /\ calls = <<>>
    /\ timerToPayload = <<>>
    /\ nextPayload = 1
    /\ sequences = <<>>
    /\ timerToSequence = <<>>
    /\ nextSequence = 1
    /\ events = {}
    /\ nextEvent = 1
    /\ subscriptions = <<>>
    /\ nextSubscription = 1
    /\ phase = "Idle"
    /\ budget = [timers |-> 0, events |-> 0]
    /\ fired = <<>>
    /\ batch = <<>>
    /\ expired = {}

-----------------------------------------------------------------------------
(* Script calls and sequences. *)

Due(task, timer) == [due |-> task.due, id |-> timer]

\* The tasks of n scheduleCalls, the k-th of them after delays[k] ticks.
Scheduled(n, delays, interval, repeats) ==
    [k \in 1 .. n |-> [due       |-> SaturatedAdd(tick, NormalizedDelay(delays[k])),
                       interval  |-> interval,
                       remaining |-> repeats,
                       payload   |-> nextPayload + k - 1]]

\* n scheduleCalls in a row: the timers get consecutive ids.
AddCalls(n, delays, interval, repeats) ==
    LET new == Scheduled(n, delays, interval, repeats)
        ids == nextTimer .. nextTimer + n - 1
        payloads == nextPayload .. nextPayload + n - 1
    IN
    /\ ids \subseteq Timers
    /\ tasks' = [t \in DOMAIN tasks \cup ids |->
                    IF t \in ids THEN new[t - nextTimer + 1] ELSE tasks[t]]
    /\ queue' = queue \cup {Due(new[t - nextTimer + 1], t) : t \in ids}
    /\ calls' = [p \in DOMAIN calls \cup payloads |->
                    IF p \in payloads THEN nextTimer + p - nextPayload ELSE calls[p]]
    /\ timerToPayload' = [t \in DOMAIN timerToPayload \cup ids |->
                    IF t \in ids THEN nextPayload + t - nextTimer ELSE timerToPayload[t]]
    /\ nextTimer' = nextTimer + n
    /\ nextPayload' = nextPayload + n

ScheduleCall(delay, interval, repeats) ==
    /\ phase = "Idle"
    /\ Repeating(repeats) => interval > 0
    /\ AddCalls(1, <<delay>>, interval, repeats)
    /\ UNCHANGED <<tick, sequenceVars, nextSequence, eventVars, drainVars, expired>>

\* The ticks from the start of a sequence to each of its steps: they add up.
Offsets(script) ==
    {offset \in [0 .. Len(script) -> Ticks] :
        /\ offset[0] = 0
        /\ \A k \in 1 .. Len(script) :
            offset[k] = SaturatedAdd(offset[k - 1], NormalizedDelay(script[k]))}

\* Fault: a cycle is the last delay.
LastDelay(script, offset) == NormalizedDelay(script[Len(script)])

CycleTicks(script, offset) == offset[Len(script)]

\* startSequence: a timer per step, all repeating with the length of the cycle.
StartSequence(script, repeats) ==
    LET steps == Len(script)
        ids   == nextTimer .. nextTimer + steps - 1
    IN
    /\ phase = "Idle"
    /\ nextSequence \in SequenceIds
    /\ \E offset \in Offsets(script) :
        LET cycle == CycleTicks(script, offset) IN
        /\ cycle < MaxTick
        /\ AddCalls(steps, [k \in 1 .. steps |-> offset[k]],
                    IF repeats = 1 THEN 0 ELSE cycle, repeats)
    /\ sequences' = Put(sequences, nextSequence, [k \in 1 .. steps |-> nextTimer + k - 1])
    /\ timerToSequence' = [t \in DOMAIN timerToSequence \cup ids |->
                            IF t \in ids THEN nextSequence ELSE timerToSequence[t]]
    /\ nextSequence' = nextSequence + 1
    /\ UNCHANGED <<tick, eventVars, drainVars, expired>>

\* detachTimerFromSequences: a sequence ends with its last timer.
Detach(timer) ==
    IF timer \notin DOMAIN timerToSequence
    THEN UNCHANGED sequenceVars
    ELSE LET s    == timerToSequence[timer]
             left == Filtered(sequences[s], Timers \ {timer})
         IN
         /\ timerToSequence' = Drop(timerToSequence, {timer})
         /\ sequences' = IF left = <<>> THEN Drop(sequences, {s})
                                        ELSE [sequences EXCEPT ![s] = left]

\* TickScheduler::cancel of the timers that still have a task.
CancelTasks(timers) ==
    /\ queue' = queue \ {Due(tasks[t], t) : t \in timers \cap DOMAIN tasks}
    /\ tasks' = Drop(tasks, timers)

\* Fault: the payload stays.
EraseTimersOnly(timers) ==
    /\ calls' = calls
    /\ timerToPayload' = Drop(timerToPayload, timers)

EraseCalls(timers) ==
    /\ calls' = Drop(calls, {timerToPayload[t] : t \in timers})
    /\ timerToPayload' = Drop(timerToPayload, timers)

CancelCall(timer) ==
    /\ phase = "Idle"
    /\ timer \in DOMAIN timerToPayload
    /\ CancelTasks({timer})
    /\ EraseCalls({timer})
    /\ Detach(timer)
    /\ expired' = expired \ {timer}
    /\ UNCHANGED <<tick, counterVars, eventVars, drainVars>>

CancelSequence(s) ==
    LET timers == Elements(sequences[s]) IN
    /\ phase = "Idle"
    /\ CancelTasks(timers)
    /\ EraseCalls(timers)
    /\ timerToSequence' = Drop(timerToSequence, timers)
    /\ sequences' = Drop(sequences, {s})
    /\ expired' = expired \ timers
    /\ UNCHANGED <<tick, counterVars, eventVars, drainVars>>

-----------------------------------------------------------------------------
(* Events. *)

\* publish, or enqueueDirect to one target.
Enqueue(delay, direct) ==
    /\ phase = "Idle"
    /\ nextEvent \in EventIds
    /\ events' = events \cup {[due    |-> SaturatedAdd(tick, NormalizedDelay(delay)),
                               id     |-> nextEvent,
                               direct |-> direct]}
    /\ nextEvent' = nextEvent + 1
    /\ UNCHANGED <<tick, schedulerVars, callVars, sequenceVars, counterVars, subscriptions,
                   nextSubscription, drainVars, expired>>

CancelEvent(event) ==
    /\ phase = "Idle"
    /\ events' = events \ {event}
    /\ UNCHANGED <<tick, schedulerVars, callVars, sequenceVars, counterVars, nextEvent,
                   subscriptions, nextSubscription, drainVars, expired>>

Subscribe(priority) ==
    /\ phase = "Idle"
    /\ nextSubscription \in Subscriptions
    /\ subscriptions' = Put(subscriptions, nextSubscription, priority)
    /\ nextSubscription' = nextSubscription + 1
    /\ UNCHANGED <<tick, schedulerVars, callVars, sequenceVars, counterVars, events,
                   nextEvent, drainVars, expired>>

Unsubscribe(id) ==
    /\ phase = "Idle"
    /\ subscriptions' = Drop(subscriptions, {id})
    /\ UNCHANGED <<tick, schedulerVars, callVars, sequenceVars, counterVars, events,
                   nextEvent, nextSubscription, drainVars, expired>>

-----------------------------------------------------------------------------
(* A step of the driver. *)

\* clock().step(), then drainDue with the budgets of the options.
BeginStep(timerBudget, eventBudget) ==
    /\ phase = "Idle"
    /\ tick' = SaturatedAdd(tick, 1)
    /\ phase' = "Timers"
    /\ budget' = [timers |-> timerBudget, events |-> eventBudget]
    /\ batch' = <<>>
    /\ UNCHANGED <<schedulerVars, callVars, sequenceVars, counterVars, eventVars, fired,
                   expired>>

\* The order of the queues: by due tick, then by id.
Before(a, b) == a.due < b.due \/ (a.due = b.due /\ a.id < b.id)

\* Fault: the queue is ordered by id.
FirstById(S) == CHOOSE a \in S : \A b \in S : a.id <= b.id

First(S) == CHOOSE a \in S : \A b \in S \ {a} : Before(a, b)

DueNow(S) == S # {} /\ First(S).due <= tick

NextDue(task) == task.due + task.interval

\* One round of runDue.  A timer whose next due tick would overflow loses its
\* task although it was to repeat.
FireTimer ==
    LET key     == First(queue)
        t       == key.id
        task    == tasks[t]
        repeats == Repeating(task.remaining)
        again   == repeats /\ NextDue(task) <= MaxTick
        left    == IF task.remaining = RepeatForever THEN RepeatForever ELSE task.remaining - 1
        moved   == [due |-> NextDue(task), interval |-> task.interval, remaining |-> left,
                    payload |-> task.payload]
    IN
    /\ phase = "Timers"
    /\ budget.timers > 0
    /\ DueNow(queue)
    /\ budget' = [budget EXCEPT !.timers = @ - 1]
    /\ fired' = Append(fired, [due |-> task.due, id |-> t, repeats |-> repeats])
    /\ tasks' = IF again THEN [tasks EXCEPT ![t] = moved] ELSE Drop(tasks, {t})
    /\ queue' = (queue \ {key}) \cup (IF again THEN {Due(moved, t)} ELSE {})
    /\ expired' = IF repeats /\ ~again THEN expired \cup {t} ELSE expired
    /\ UNCHANGED <<tick, callVars, sequenceVars, counterVars, eventVars, phase, batch>>

EndTimers ==
    /\ phase = "Timers"
    /\ budget.timers = 0 \/ ~DueNow(queue)
    /\ phase' = "Calls"
    /\ UNCHANGED <<tick, schedulerVars, callVars, sequenceVars, counterVars, eventVars, budget,
                   fired, batch, expired>>

\* drainDue looks the fired timers up in order; the call of a timer that does not
\* repeat is erased, its task already is.
DispatchTimer ==
    LET task == fired[1] IN
    /\ phase = "Calls"
    /\ fired # <<>>
    /\ fired' = Tail(fired)
    /\ batch' = Append(batch, [kind |-> "Timer", due |-> task.due, id |-> task.id,
                               priority |-> 0, subscription |-> 0])
    /\ IF task.repeats
       THEN UNCHANGED <<callVars, sequenceVars>>
       ELSE EraseCalls({task.id}) /\ Detach(task.id)
    /\ UNCHANGED <<tick, schedulerVars, counterVars, eventVars, phase, budget, expired>>

EndCalls ==
    /\ phase = "Calls"
    /\ fired = <<>>
    /\ phase' = "Events"
    /\ UNCHANGED <<tick, schedulerVars, callVars, sequenceVars, counterVars, eventVars, budget,
                   fired, batch, expired>>

CalledBefore(s, t) ==
    \/ subscriptions[s] < subscriptions[t]
    \/ subscriptions[s] = subscriptions[t] /\ s < t

Subscribers ==
    [n \in 1 .. Cardinality(DOMAIN subscriptions) |->
        CHOOSE s \in DOMAIN subscriptions :
            Cardinality({t \in DOMAIN subscriptions : CalledBefore(t, s)}) = n - 1]

\* One event of popDue: its target is called, or every subscriber in order.
DispatchEvent ==
    LET event == First(events)
        CallOf(s) == [kind |-> "Event", due |-> event.due, id |-> event.id,
                      priority |-> IF s = 0 THEN 0 ELSE subscriptions[s], subscription |-> s]
        receivers == IF event.direct THEN <<0>> ELSE Subscribers
    IN
    /\ phase = "Events"
    /\ budget.events > 0
    /\ DueNow(events)
    /\ budget' = [budget EXCEPT !.events = @ - 1]
    /\ events' = events \ {event}
    /\ batch' = batch \o [n \in 1 .. Len(receivers) |-> CallOf(receivers[n])]
    /\ UNCHANGED <<tick, schedulerVars, callVars, sequenceVars, counterVars, nextEvent,
                   subscriptions, nextSubscription, phase, fired, expired>>

EndStep ==
    /\ phase = "Events"
    /\ budget.events = 0 \/ ~DueNow(events)
    /\ phase' = "Idle"
    /\ UNCHANGED <<tick, schedulerVars, callVars, sequenceVars, counterVars, eventVars, budget,
                   fired, batch, expired>>

-----------------------------------------------------------------------------
(* Snapshots. *)

\* restore() accepts a snapshot of the current state: every call has its task,
\* every timer of a sequence a call and one sequence, and no id is still to come.
Acceptable ==
    /\ \A p \in DOMAIN calls :
        /\ p < nextPayload
        /\ calls[p] \in DOMAIN tasks
        /\ tasks[calls[p]].payload = p
        /\ \A q \in DOMAIN calls : calls[p] = calls[q] => p = q
    /\ \A t \in DOMAIN tasks : t < nextTimer
    /\ \A s \in DOMAIN sequences :
        /\ s < nextSequence
        /\ sequences[s] # <<>>
        /\ \A i \in 1 .. Len(sequences[s]) :
            /\ \E p \in DOMAIN calls : calls[p] = sequences[s][i]
            /\ \A r \in DOMAIN sequences : \A j \in 1 .. Len(sequences[r]) :
                sequences[r][j] = sequences[s][i] => r = s /\ j = i
    /\ \A e \in events : e.id < nextEvent
    /\ \A s \in DOMAIN subscriptions : s < nextSubscription

OwnedTimers(s) == Elements(sequences[s])

\* snapshot() then restore(): the queue and the maps keyed by timer are rebuilt.
\* What follows the restoration of an older snapshot is what follows this action
\* in the state that was captured.
Restore ==
    /\ phase = "Idle"
    /\ Acceptable
    /\ queue' = {Due(tasks[t], t) : t \in DOMAIN tasks}
    /\ timerToPayload' = [t \in {calls[p] : p \in DOMAIN calls} |->
                            CHOOSE p \in DOMAIN calls : calls[p] = t]
    /\ timerToSequence' = [t \in UNION {OwnedTimers(s) : s \in DOMAIN sequences} |->
                            CHOOSE s \in DOMAIN sequences : t \in OwnedTimers(s)]
    /\ UNCHANGED <<tick, tasks, calls, sequences, counterVars, eventVars, drainVars, expired>>

-----------------------------------------------------------------------------
Host ==
    \/ \E delay \in Delays, interval \in Intervals \cup {0}, repeats \in Repeats :
        ScheduleCall(delay, interval, repeats)
    \/ \E script \in Scripts, repeats \in Repeats : StartSequence(script, repeats)
    \/ \E timer \in Timers : CancelCall(timer)
    \/ \E s \in DOMAIN sequences : CancelSequence(s)
    \/ \E delay \in Delays, direct \in BOOLEAN : Enqueue(delay, direct)
    \/ \E event \in events : CancelEvent(event)
    \/ \E priority \in Priorities : Subscribe(priority)
    \/ \E id \in DOMAIN subscriptions : Unsubscribe(id)
    \/ Restore

Drain == FireTimer \/ EndTimers \/ DispatchTimer \/ EndCalls \/ DispatchEvent \/ EndStep

Next ==
    \/ Host
    \/ \E timerBudget \in TimerBudgets, eventBudget \in EventBudgets :
        BeginStep(timerBudget, eventBudget)
    \/ Drain

Spec == Init /\ [][Next]_vars

-----------------------------------------------------------------------------
(* Properties. *)

IsMap(map, S, T) == DOMAIN map \subseteq S /\ map \in [DOMAIN map -> T]

Keys == [due : Ticks, id : Timers]

TypeOK ==
    /\ tick \in Ticks
    /\ IsMap(tasks, Timers, [due : Ticks, interval : Ticks, remaining : Nat, payload : Timers])
    /\ queue \subseteq Keys
    /\ nextTimer \in 1 .. MaxTimers + 1
    /\ IsMap(calls, Timers, Timers)
    /\ IsMap(timerToPayload, Timers, Timers)
    /\ nextPayload = nextTimer
    /\ IsMap(sequences, SequenceIds, Seq(Timers))
    /\ IsMap(timerToSequence, Timers, SequenceIds)
    /\ nextSequence \in 1 .. MaxSequences + 1
    /\ events \subseteq [due : Ticks, id : EventIds, direct : BOOLEAN]
    /\ nextEvent \in 1 .. MaxEvents + 1
    /\ IsMap(subscriptions, Subscriptions, Int)
    /\ nextSubscription \in 1 .. MaxSubscriptions + 1
    /\ phase \in {"Idle", "Timers", "Calls", "Events"}
    /\ budget \in [timers : Nat, events : Nat]
    /\ fired \in Seq([due : Ticks, id : Timers, repeats : BOOLEAN])
    /\ expired \subseteq Timers

\* The scheduler's queue is exactly the due ticks of its tasks: no timer is lost
\* and none fires without a task, however timers are cancelled and repeated.
QueueExact == queue = {Due(tasks[t], t) : t \in DOMAIN tasks}

\* Timers that fired for the last time and whose call is still to be erased.
Finishing == {fired[i].id : i \in {j \in 1 .. Len(fired) : ~fired[j].repeats}}

\* Every task has its call, under the payload it carries, and every call its
\* task, but for timers whose repetition overflowed: the two maps are inverse.
CallsExact ==
    /\ DOMAIN timerToPayload = DOMAIN tasks \cup Finishing \cup expired
    /\ DOMAIN tasks \cap (Finishing \cup expired) = {}
    /\ \A t \in DOMAIN tasks : tasks[t].payload = timerToPayload[t]
    /\ \A t \in DOMAIN timerToPayload :
        timerToPayload[t] \in DOMAIN calls /\ calls[timerToPayload[t]] = t
    /\ \A p \in DOMAIN calls :
        calls[p] \in DOMAIN timerToPayload /\ timerToPayload[calls[p]] = p

\* A sequence lives exactly as long as one of its timers, lists each of them once,
\* and every timer knows its sequence.
SequencesExact ==
    /\ \A s \in DOMAIN sequences :
        /\ sequences[s] # <<>>
        /\ \A i, j \in 1 .. Len(sequences[s]) : sequences[s][i] = sequences[s][j] => i = j
        /\ \A i \in 1 .. Len(sequences[s]) :
            /\ sequences[s][i] \in DOMAIN timerToSequence
            /\ timerToSequence[sequences[s][i]] = s
    /\ \A t \in DOMAIN timerToSequence :
        /\ t \in DOMAIN timerToPayload
        /\ timerToSequence[t] \in DOMAIN sequences
        /\ t \in Elements(sequences[timerToSequence[t]])

\* A host can be restored from the snapshot it has just taken, as long as no
\* repetition overflows.
SnapshotRestorable == phase = "Idle" /\ expired = {} => Acceptable

\* The tables that refer to one another by id agree, however timers, sequences and
\* events end (scheduleCall, eraseCall, drainDue, restore).
BooksExact == TypeOK /\ QueueExact /\ CallsExact /\ SequencesExact /\ SnapshotRestorable

\* Calls are dispatched in the order of their due ticks, timers of one tick by id,
\* events of one tick by number and subscribers by priority: within a batch, and
\* whatever is pending comes after everything that was dispatched, backlogs of
\* exhausted budgets, new timers and repetitions included.
DispatchOrder ==
    LET OfKind(kind) == {i \in 1 .. Len(batch) : batch[i].kind = kind} IN
    /\ \A i \in OfKind("Timer"), j \in OfKind("Event") : i < j
    /\ \A i, j \in OfKind("Timer") : i < j => Before(batch[i], batch[j])
    /\ \A i, j \in OfKind("Event") :
        i < j =>
            \/ Before(batch[i], batch[j])
            \/ /\ batch[i].id = batch[j].id
               /\ \/ batch[i].priority < batch[j].priority
                  \/ /\ batch[i].priority = batch[j].priority
                     /\ batch[i].subscription < batch[j].subscription
    /\ \A i \in OfKind("Timer") : \A key \in queue : Before(batch[i], key)
    /\ \A i \in OfKind("Event") : \A e \in events : Before(batch[i], e)

\* The steps of a repeating sequence never lap one another: of two steps still
\* scheduled, the later one is due within the same cycle, or the earlier one has
\* fired exactly once more and is due in the next.
StepsInterleave ==
    \A s \in DOMAIN sequences : \A i, j \in 1 .. Len(sequences[s]) :
        LET t == sequences[s][i]
            u == sequences[s][j]
        IN
        (i < j /\ {t, u} \subseteq DOMAIN tasks /\ Repeating(tasks[t].remaining)) =>
            LET lead == tasks[t].due - tasks[u].due IN
            /\ lead < tasks[t].interval
            /\ -lead < tasks[t].interval
            /\ lead <= 0 => tasks[t].remaining = tasks[u].remaining
            /\ lead > 0 => \/ tasks[t].remaining = RepeatForever
                           \/ tasks[t].remaining = tasks[u].remaining - 1

=============================================================================
