------------------------- MODULE GameplayHostProofs -------------------------
(***************************************************************************)
(* Proofs about GameplayHost, for any number of timers, sequences, events  *)
(* and subscriptions, any clock, any delays, scripts and budgets: the      *)
(* tables agree (BooksExact), calls are dispatched in their order          *)
(* (DispatchOrder) and the steps of a sequence do not lap one another      *)
(* (StepsInterleave).                                                      *)
(*                                                                         *)
(* The inductive invariant has a part for each question.  Known, Numbered, *)
(* LastFirings and Owned say which timers the tables hold and why; the     *)
(* queue is a function of the tasks (QueueExact).  Dispatched puts what a  *)
(* step has fired and not yet looked up between what it has dispatched and *)
(* what is queued.  Interleaved compares two steps of a sequence by their  *)
(* due ticks and by how often they are still to repeat.                    *)
(***************************************************************************)
EXTENDS GameplayHost, ListLemmas

Dispatches == [kind : {"Timer", "Event"}, due : Ticks, id : Nat, priority : Int,
               subscription : Nat]

Batches == Seq(Dispatches)

Typed == TypeOK /\ batch \in Batches

\* No id has been given out yet that is still to come.
Known ==
    /\ DOMAIN timerToPayload \subseteq 1 .. nextTimer - 1
    /\ DOMAIN sequences \subseteq 1 .. nextSequence - 1
    /\ \A e \in events : e.id < nextEvent
    /\ DOMAIN subscriptions \subseteq 1 .. nextSubscription - 1

\* Payloads and timers are numbered alike.
Numbered ==
    /\ DOMAIN calls = DOMAIN timerToPayload
    /\ \A t \in DOMAIN timerToPayload : timerToPayload[t] = t /\ calls[t] = t
    /\ \A t \in DOMAIN tasks : tasks[t].payload = t

\* A timer has its call until its last firing is looked up, and no task from then on.
LastFirings ==
    /\ DOMAIN timerToPayload = DOMAIN tasks \cup Finishing \cup expired
    /\ DOMAIN tasks \cap (Finishing \cup expired) = {}
    /\ Finishing \cap expired = {}
    /\ \A i, j \in 1 .. Len(fired) : fired[i].id = fired[j].id /\ ~fired[i].repeats => j <= i
    /\ phase \in {"Idle", "Events"} => fired = <<>>

\* The timers of a sequence are those that know it, in ascending order.
Owned ==
    /\ \A t \in DOMAIN timerToSequence :
        t \in DOMAIN timerToPayload /\ timerToSequence[t] \in DOMAIN sequences
    /\ \A s \in DOMAIN sequences :
        /\ sequences[s] # <<>>
        /\ \A i, j \in 1 .. Len(sequences[s]) : i < j => sequences[s][i] < sequences[s][j]
        /\ Elements(sequences[s]) = {t \in DOMAIN timerToSequence : timerToSequence[t] = s}

\* Of two steps of a sequence that are still to repeat, the earlier one is due within a
\* cycle before the later one, or has been fired once more and is due within a cycle
\* after it.
Apart(a, b) ==
    /\ a.interval = b.interval
    /\ \/ /\ a.due <= b.due /\ b.due - a.due < a.interval /\ a.remaining = b.remaining
          /\ a.due = b.due => a.due = MaxTick
       \/ /\ b.due < a.due /\ a.due - b.due < a.interval
          /\ b.remaining = IF a.remaining = RepeatForever THEN a.remaining ELSE a.remaining + 1

Interleaved ==
    /\ \A t \in DOMAIN tasks : Repeating(tasks[t].remaining) => tasks[t].interval > 0
    /\ \A t, u \in DOMAIN tasks \cap DOMAIN timerToSequence :
        t < u /\ timerToSequence[t] = timerToSequence[u] /\ Repeating(tasks[t].remaining)
            => Apart(tasks[t], tasks[u])

\* What is dispatched has been due, and what has been fired comes between what is
\* dispatched and what is queued.
Dispatched ==
    /\ \A i \in 1 .. Len(batch) :
        /\ batch[i].due <= tick
        /\ batch[i].kind = "Timer" => batch[i].id < nextTimer
        /\ batch[i].kind = "Event" => batch[i].id < nextEvent
    /\ phase = "Timers" => batch = <<>>
    /\ phase = "Calls" => \A i \in 1 .. Len(batch) : batch[i].kind = "Timer"
    /\ \A j \in 1 .. Len(fired) :
        /\ fired[j].due <= tick /\ fired[j].id < nextTimer
        /\ \A i \in 1 .. j - 1 : Before(fired[i], fired[j])
        /\ \A i \in 1 .. Len(batch) : Before(batch[i], fired[j])
        /\ \A key \in queue : Before(fired[j], key)

EventsApart == IsFiniteSet(events) /\ \A e, f \in events : e.id = f.id => e = f

IInv == /\ Typed /\ Known /\ Numbered /\ LastFirings /\ Owned /\ Interleaved /\ Dispatched
        /\ EventsApart /\ QueueExact /\ DispatchOrder

-----------------------------------------------------------------------------
(* The order of the queues. *)

\* The first of a finite queue is before all others.
LEMMA FirstIsFirst ==
  ASSUME NEW S, IsFiniteSet(S), S # {},
         \A a \in S : a.due \in Int /\ a.id \in Int,
         \A a, b \in S : a.due = b.due /\ a.id = b.id => a = b
  PROVE  First(S) \in S /\ \A b \in S \ {First(S)} : Before(First(S), b)
<1> DEFINE R == {p \in S \X S : Before(p[1], p[2])}
           rank(a) == Cardinality({x \in S : <<x, a>> \in R})
<1>1. \A a, b \in S : <<a, b>> \in R <=> Before(a, b)
  OBVIOUS
<1> HIDE DEF R
<1>2. \A a \in S : <<a, a>> \notin R
  BY <1>1 DEF Before
<1>3. \A a, b \in S : a # b => <<a, b>> \in R \/ <<b, a>> \in R
  BY <1>1 DEF Before
<1>4. \A a, b, c \in S : <<a, b>> \in R /\ <<b, c>> \in R => <<a, c>> \in R
  BY <1>1 DEF Before
<1>5. 1 \in 1 .. Cardinality(S)
  <2>1. Cardinality(S) \in Nat /\ Cardinality(S) # 0
    BY FS_CardinalityType, FS_EmptySet
  <2> QED BY <2>1
<1>6. PICK a \in S : rank(a) = 0
  <2>1. \A n \in 1 .. Cardinality(S) : \E a \in S : rank(a) = n - 1
    BY <1>2, <1>3, <1>4, OrderRanks
  <2>2. 1 - 1 = 0
    OBVIOUS
  <2> HIDE DEF rank
  <2> QED BY <1>5, <2>1, <2>2
<1>7. \A b \in S : <<b, a>> \notin R
  <2> DEFINE before == {x \in S : <<x, a>> \in R}
  <2>1. before \in SUBSET S
    OBVIOUS
  <2>2. before = {}
    <3> HIDE DEF before
    <3>1. IsFiniteSet(before)
      BY <2>1, FS_Subset
    <3>2. Cardinality(before) = 0
      BY <1>6 DEF before
    <3> QED BY <3>1, <3>2, FS_EmptySet
  <2> QED BY <2>2
<1>8. \A b \in S \ {a} : Before(a, b)
  BY <1>1, <1>3, <1>7
<1> QED BY <1>8 DEF First

Tasks == [due : Ticks, interval : Ticks, remaining : Nat, payload : Timers]

LEMMA Numbers ==
         /\ Ticks \subseteq Nat /\ Timers \subseteq Nat \ {0} /\ SequenceIds \subseteq Nat \ {0}
         /\ EventIds \subseteq Nat \ {0} /\ Subscriptions \subseteq Nat \ {0}
         /\ MaxTick \in Nat /\ MaxTimers \in Nat /\ MaxSequences \in Nat /\ MaxEvents \in Nat
         /\ MaxSubscriptions \in Nat
         /\ \A n \in Ticks : n \in Nat /\ n <= MaxTick
BY HostAssumption DEF Ticks, Timers, SequenceIds, EventIds, Subscriptions

\* A sum of ticks is a tick; it is the largest one if the sum is none.
LEMMA AddedTicks ==
  ASSUME NEW m \in Ticks, NEW n \in Nat
  PROVE  /\ SaturatedAdd(m, n) \in Ticks /\ m <= SaturatedAdd(m, n)
         /\ SaturatedAdd(m, n) = m + n \/ SaturatedAdd(m, n) = MaxTick
         /\ n > 0 /\ SaturatedAdd(m, n) # MaxTick => m < SaturatedAdd(m, n)
         /\ m + n <= MaxTick => SaturatedAdd(m, n) = m + n
BY Numbers DEF SaturatedAdd, Ticks

LEMMA TasksTyped ==
  ASSUME TypeOK
  PROVE  /\ tasks \in [DOMAIN tasks -> Tasks] /\ DOMAIN tasks \subseteq Timers
         /\ IsFiniteSet(DOMAIN tasks)
         /\ \A t \in DOMAIN tasks :
              /\ t \in Timers /\ t \in Nat /\ tasks[t] \in Tasks /\ tasks[t].due \in Ticks
              /\ tasks[t].due \in Nat /\ tasks[t].due <= MaxTick /\ tasks[t].interval \in Ticks
              /\ tasks[t].interval \in Nat /\ tasks[t].remaining \in Nat
              /\ tasks[t].payload \in Timers
<1>1. tasks \in [DOMAIN tasks -> Tasks] /\ DOMAIN tasks \subseteq Timers
  BY DEF TypeOK, IsMap, Tasks
<1>2. IsFiniteSet(DOMAIN tasks)
  <2>1. IsFiniteSet(1 .. MaxTimers)
    BY Numbers, FS_Interval
  <2> QED BY <1>1, <2>1, FS_Subset DEF Timers
<1>3. ASSUME NEW t \in DOMAIN tasks
      PROVE  tasks[t] \in Tasks /\ t \in Timers
  BY <1>1
<1> QED BY <1>1, <1>2, <1>3, Numbers DEF Tasks

\* The first key of the queue is that of a task, and the others come after it.
LEMMA NextKey ==
  ASSUME TypeOK, QueueExact, queue # {}
  PROVE  LET key == First(queue) IN
         /\ key \in queue /\ key.id \in DOMAIN tasks /\ key = Due(tasks[key.id], key.id)
         /\ key.due = tasks[key.id].due
         /\ \A other \in queue \ {key} : Before(key, other)
<1> DEFINE f == [t \in DOMAIN tasks |-> Due(tasks[t], t)]
<1>1. f \in Surjection(DOMAIN tasks, queue)
  BY DEF QueueExact, Surjection
<1>2. IsFiniteSet(queue)
  <2> HIDE DEF f
  <2> QED BY <1>1, TasksTyped, FS_Surjection
<1>3. ASSUME NEW a \in queue
      PROVE  a.id \in DOMAIN tasks /\ a = Due(tasks[a.id], a.id) /\ a.due = tasks[a.id].due
  BY <1>3 DEF QueueExact, Due
<1>4. \A a \in queue : a.due \in Int /\ a.id \in Int
  <2> SUFFICES ASSUME NEW a \in queue PROVE a.due \in Int /\ a.id \in Int
    OBVIOUS
  <2>1. tasks[a.id].due \in Nat /\ a.id \in Nat
    BY <1>3, TasksTyped
  <2> QED BY <1>3, <2>1
<1>5. \A a, b \in queue : a.due = b.due /\ a.id = b.id => a = b
  BY <1>3
<1>6. First(queue) \in queue /\ \A b \in queue \ {First(queue)} : Before(First(queue), b)
  BY <1>2, <1>4, <1>5, FirstIsFirst
<1> QED BY <1>3, <1>6

-----------------------------------------------------------------------------
(* The books when calls are added. *)

LEMMA NoneFinishing ==
  ASSUME fired = <<>>
  PROVE  Finishing = {}
BY DEF Finishing

(* n calls are added, under the next ids. *)
Adds(n, delays, interval, repeats) ==
    LET ids == nextTimer .. nextTimer + n - 1 IN
    /\ ids \subseteq Timers /\ ids # {}
    /\ nextTimer \in Nat \ {0} /\ nextTimer' = nextTimer + n
    /\ nextPayload' = nextTimer' /\ nextTimer' \in 1 .. MaxTimers + 1
    /\ \A t \in ids : t \notin DOMAIN timerToPayload /\ t \notin DOMAIN tasks
    /\ DOMAIN tasks' = DOMAIN tasks \cup ids /\ tasks' \in [DOMAIN tasks' -> Tasks]
    /\ \A t \in DOMAIN tasks : tasks'[t] = tasks[t]
    /\ \A t \in ids :
         tasks'[t] = [due       |-> SaturatedAdd(tick, NormalizedDelay(delays[t - nextTimer + 1])),
                      interval  |-> interval, remaining |-> repeats, payload |-> t]
    /\ queue' = queue \cup {Due(tasks'[t], t) : t \in ids}
    /\ DOMAIN calls' = DOMAIN calls \cup ids /\ calls' \in [DOMAIN calls' -> Timers]
    /\ DOMAIN timerToPayload' = DOMAIN timerToPayload \cup ids
    /\ timerToPayload' \in [DOMAIN timerToPayload' -> Timers]
    /\ \A t \in DOMAIN timerToPayload' : timerToPayload'[t] = t /\ calls'[t] = t

LEMMA AddedCalls ==
  ASSUME TypeOK, Known, Numbered, LastFirings, NEW n \in Nat \ {0},
         NEW delays, \A k \in 1 .. n : delays[k] \in Ticks,
         NEW interval \in Ticks, NEW repeats \in Nat, AddCalls(n, delays, interval, repeats)
  PROVE  Adds(n, delays, interval, repeats)
<1> DEFINE ids == nextTimer .. nextTimer + n - 1
           new == Scheduled(n, delays, interval, repeats)
           due(t) == SaturatedAdd(tick, NormalizedDelay(delays[t - nextTimer + 1]))
           task(t) == [due |-> due(t), interval |-> interval, remaining |-> repeats, payload |-> t]
<1>1. /\ tick \in Ticks /\ nextTimer \in 1 .. MaxTimers + 1 /\ nextPayload = nextTimer
      /\ DOMAIN timerToPayload \subseteq 1 .. nextTimer - 1
      /\ DOMAIN tasks \subseteq DOMAIN timerToPayload /\ DOMAIN calls = DOMAIN timerToPayload
      /\ tasks \in [DOMAIN tasks -> Tasks] /\ calls \in [DOMAIN calls -> Timers]
      /\ timerToPayload \in [DOMAIN timerToPayload -> Timers]
      /\ \A t \in DOMAIN timerToPayload : timerToPayload[t] = t /\ calls[t] = t
  BY TasksTyped DEF TypeOK, Known, Numbered, LastFirings, IsMap
<1>2. nextTimer \in Nat \ {0} /\ MaxTimers \in Nat
  BY <1>1, Numbers
<1>3. /\ ids \subseteq Timers
      /\ tasks' = [t \in DOMAIN tasks \cup ids |->
                      IF t \in ids THEN new[t - nextTimer + 1] ELSE tasks[t]]
      /\ queue' = queue \cup {Due(new[t - nextTimer + 1], t) : t \in ids}
      /\ calls' = [p \in DOMAIN calls \cup ids |->
                      IF p \in ids THEN nextTimer + p - nextTimer ELSE calls[p]]
      /\ timerToPayload' = [t \in DOMAIN timerToPayload \cup ids |->
                      IF t \in ids THEN nextTimer + t - nextTimer ELSE timerToPayload[t]]
      /\ nextTimer' = nextTimer + n /\ nextPayload' = nextTimer + n
  BY <1>1 DEF AddCalls
<1>4. ASSUME NEW t \in ids
      PROVE  new[t - nextTimer + 1] = task(t) /\ t \notin DOMAIN timerToPayload /\ task(t) \in Tasks
  <2>1. t - nextTimer + 1 \in 1 .. n /\ nextTimer + (t - nextTimer + 1) - 1 = t
    BY <1>2
  <2>2. new[t - nextTimer + 1] = task(t)
    BY <1>1, <2>1 DEF Scheduled
  <2>3. t \notin 1 .. nextTimer - 1
    BY <1>2
  <2>4. NormalizedDelay(delays[t - nextTimer + 1]) \in Nat
    BY <2>1, Numbers DEF NormalizedDelay
  <2>5. due(t) \in Ticks
    BY <1>1, <2>4, AddedTicks
  <2>6. task(t) \in Tasks
    <3> HIDE DEF due
    <3> QED BY <1>3, <2>5 DEF Tasks
  <2> QED BY <1>1, <2>2, <2>3, <2>6
<1>5. nextTimer \in ids /\ nextTimer + n - 1 \in ids
  BY <1>2
<1>6. nextTimer' \in 1 .. MaxTimers + 1
  <2>1. nextTimer + n - 1 \in 1 .. MaxTimers
    BY <1>3, <1>5 DEF Timers
  <2> QED BY <1>2, <1>3, <2>1
<1> HIDE DEF new, task
<1>7. /\ DOMAIN tasks' = DOMAIN tasks \cup ids
      /\ \A t \in DOMAIN tasks : tasks'[t] = tasks[t]
      /\ \A t \in ids : tasks'[t] = task(t)
  BY <1>1, <1>3, <1>4
<1>8. tasks' \in [DOMAIN tasks' -> Tasks]
  BY <1>1, <1>3, <1>4
<1>9. {Due(new[t - nextTimer + 1], t) : t \in ids} = {Due(tasks'[t], t) : t \in ids}
  BY <1>4, <1>7
<1>10. \A t \in ids : nextTimer + t - nextTimer = t
  BY <1>2
<1>11. /\ DOMAIN calls' = DOMAIN calls \cup ids
       /\ DOMAIN timerToPayload' = DOMAIN timerToPayload \cup ids
       /\ \A t \in DOMAIN timerToPayload' : timerToPayload'[t] = t /\ calls'[t] = t
  BY <1>1, <1>3, <1>10
<1>12. /\ calls' \in [DOMAIN calls' -> Timers]
       /\ timerToPayload' \in [DOMAIN timerToPayload' -> Timers]
  BY <1>1, <1>3, <1>10
<1>13. \A t \in ids : t \notin DOMAIN timerToPayload /\ t \notin DOMAIN tasks
  BY <1>1, <1>4
<1>14. queue' = queue \cup {Due(tasks'[t], t) : t \in ids}
  BY <1>3, <1>9
<1>15. ids # {}
  BY <1>5
<1> QED BY <1>2, <1>3, <1>6, <1>7, <1>8, <1>11, <1>12, <1>13, <1>14, <1>15 DEF task, Adds

\* Added calls are due after everything that has been dispatched.
LEMMA AddingKeeps ==
  ASSUME IInv, NEW n \in Nat \ {0},
         NEW delays, \A k \in 1 .. n : delays[k] \in Ticks,
         NEW interval \in Ticks, NEW repeats \in Nat, AddCalls(n, delays, interval, repeats),
         phase = "Idle", UNCHANGED <<tick, eventVars, drainVars, expired>>
  PROVE  /\ DOMAIN timerToPayload' \subseteq 1 .. nextTimer' - 1
         /\ Numbered' /\ LastFirings' /\ Dispatched' /\ EventsApart' /\ QueueExact'
         /\ DispatchOrder'
<1> DEFINE ids == nextTimer .. nextTimer + n - 1
<1>1. /\ TypeOK /\ Known /\ Numbered /\ LastFirings /\ Dispatched /\ EventsApart /\ QueueExact
      /\ DispatchOrder /\ batch \in Batches
  BY DEF IInv, Typed
<1>2. /\ ids \subseteq Timers /\ ids # {}
      /\ nextTimer \in Nat \ {0} /\ nextTimer' = nextTimer + n
      /\ \A t \in ids : t \notin DOMAIN timerToPayload /\ t \notin DOMAIN tasks
      /\ DOMAIN tasks' = DOMAIN tasks \cup ids /\ tasks' \in [DOMAIN tasks' -> Tasks]
      /\ \A t \in DOMAIN tasks : tasks'[t] = tasks[t]
      /\ \A t \in ids :
           tasks'[t] = [due       |-> SaturatedAdd(tick, NormalizedDelay(delays[t - nextTimer + 1])),
                        interval  |-> interval, remaining |-> repeats, payload |-> t]
      /\ queue' = queue \cup {Due(tasks'[t], t) : t \in ids}
      /\ DOMAIN calls' = DOMAIN calls \cup ids
      /\ DOMAIN timerToPayload' = DOMAIN timerToPayload \cup ids
      /\ \A t \in DOMAIN timerToPayload' : timerToPayload'[t] = t /\ calls'[t] = t
  <2>1. Adds(n, delays, interval, repeats)
    BY <1>1, AddedCalls
  <2> QED BY <2>1 DEF Adds
<1>3. /\ tick' = tick /\ phase' = phase /\ fired' = fired /\ batch' = batch /\ expired' = expired
      /\ events' = events /\ nextEvent' = nextEvent
  BY DEF eventVars, drainVars
<1>4. fired = <<>>
  BY <1>1 DEF LastFirings
<1>5. Finishing = {} /\ Finishing' = {}
  BY <1>3, <1>4, NoneFinishing DEF Finishing
<1>6. DOMAIN timerToPayload' \subseteq 1 .. nextTimer' - 1
  <2>1. DOMAIN timerToPayload \subseteq 1 .. nextTimer - 1
    BY <1>1 DEF Known
  <2> QED BY <1>2, <2>1
<1>7. Numbered'
  <2>1. \A t \in DOMAIN tasks' : tasks'[t].payload = t
    <3>1. \A t \in ids : tasks'[t].payload = t
      <4> HIDE DEF ids
      <4> QED BY <1>2
    <3>2. \A t \in DOMAIN tasks : tasks'[t].payload = t
      BY <1>1, <1>2 DEF Numbered
    <3> QED BY <1>2, <3>1, <3>2
  <2>2. DOMAIN calls' = DOMAIN timerToPayload'
    BY <1>1, <1>2 DEF Numbered
  <2> QED BY <1>2, <2>1, <2>2 DEF Numbered
<1>8. LastFirings'
  <2>1. \A t \in expired : t \in DOMAIN timerToPayload
    BY <1>1 DEF LastFirings
  <2>2. DOMAIN timerToPayload = DOMAIN tasks \cup expired /\ DOMAIN tasks \cap expired = {}
    BY <1>1, <1>5 DEF LastFirings
  <2>3. DOMAIN timerToPayload' = DOMAIN tasks' \cup expired /\ DOMAIN tasks' \cap expired = {}
    BY <1>2, <2>1, <2>2
  <2> QED BY <1>3, <1>4, <1>5, <2>3 DEF LastFirings
<1>9. QueueExact'
  <2>1. queue = {Due(tasks[t], t) : t \in DOMAIN tasks}
    BY <1>1 DEF QueueExact
  <2>2. queue = {Due(tasks'[t], t) : t \in DOMAIN tasks}
    BY <1>2, <2>1
  <2> QED BY <1>2, <2>2 DEF QueueExact
<1>10. ASSUME NEW t \in ids PROVE Due(tasks'[t], t).id = t /\ tick <= Due(tasks'[t], t).due
  <2> DEFINE delay == NormalizedDelay(delays[t - nextTimer + 1])
  <2>1. t - nextTimer + 1 \in 1 .. n
    BY <1>2
  <2>2. delay \in Nat
    BY <2>1, Numbers DEF NormalizedDelay
  <2> HIDE DEF delay
  <2>3. tick \in Ticks
    BY <1>1 DEF TypeOK
  <2>4. tick <= SaturatedAdd(tick, delay)
    BY <2>2, <2>3, AddedTicks
  <2>5. tasks'[t].due = SaturatedAdd(tick, delay)
    <3> HIDE DEF ids
    <3> QED BY <1>2 DEF delay
  <2>6. Due(tasks'[t], t).id = t /\ Due(tasks'[t], t).due = tasks'[t].due
    BY DEF Due
  <2> QED BY <2>4, <2>5, <2>6
<1>11. ASSUME NEW i \in 1 .. Len(batch)
       PROVE  batch[i].due \in Nat /\ batch[i].due <= tick /\ batch[i].id \in Nat
              /\ (batch[i].kind = "Timer" => batch[i].id < nextTimer)
  <2>1. batch[i].due \in Ticks /\ batch[i].id \in Nat
    <3>1. batch[i] \in Dispatches
      BY <1>1 DEF Batches
    <3> QED BY <3>1 DEF Dispatches
  <2> QED BY <1>1, <2>1, Numbers DEF Dispatched
<1>12. ASSUME NEW i \in 1 .. Len(batch), batch[i].kind = "Timer", NEW key \in queue'
       PROVE  Before(batch[i], key)
  <2>1. CASE key \in queue
    BY <1>1, <1>12, <2>1 DEF DispatchOrder
  <2>2. CASE key \notin queue
    <3>1. PICK t \in ids : key = Due(tasks'[t], t)
      BY <1>2, <2>2
    <3>2. key.id = t /\ tick <= key.due /\ nextTimer <= t /\ t \in Nat
      BY <1>2, <1>10, <3>1
    <3>3. key.due \in Nat /\ tick \in Nat
      <4>1. tasks'[t].due \in Ticks /\ tick \in Ticks
        BY <1>1, <1>2 DEF Tasks, TypeOK
      <4> QED BY <3>1, <4>1, Numbers DEF Due
    <3>4. batch[i].due <= key.due /\ batch[i].id < key.id
      BY <1>2, <1>11, <1>12, <3>2, <3>3
    <3> QED BY <1>11, <3>3, <3>4 DEF Before
  <2> QED BY <2>1, <2>2
<1>13. DispatchOrder'
  BY <1>1, <1>3, <1>12 DEF DispatchOrder
<1>14. Dispatched'
  <2>1. \A i \in 1 .. Len(batch) :
          /\ batch[i].due <= tick /\ (batch[i].kind = "Timer" => batch[i].id < nextTimer')
          /\ (batch[i].kind = "Event" => batch[i].id < nextEvent)
    BY <1>1, <1>2, <1>11 DEF Dispatched
  <2> QED BY <1>3, <1>4, <2>1 DEF Dispatched
<1>15. EventsApart'
  BY <1>1, <1>3 DEF EventsApart
<1> QED BY <1>6, <1>7, <1>8, <1>9, <1>13, <1>14, <1>15

LEMMA KeysTyped ==
  ASSUME NEW D \in SUBSET Timers, NEW f \in [D -> Tasks]
  PROVE  {Due(f[t], t) : t \in D} \subseteq Keys
<1> SUFFICES ASSUME NEW t \in D PROVE Due(f[t], t) \in Keys
  OBVIOUS
<1>1. f[t] \in Tasks /\ t \in Timers
  OBVIOUS
<1> QED BY <1>1 DEF Tasks, Due, Keys

LEMMA AddingTyped ==
  ASSUME IInv, NEW n \in Nat \ {0},
         NEW delays, \A k \in 1 .. n : delays[k] \in Ticks,
         NEW interval \in Ticks, NEW repeats \in Nat, AddCalls(n, delays, interval, repeats),
         phase = "Idle", UNCHANGED <<tick, eventVars, drainVars, expired>>,
         IsMap(sequences, SequenceIds, Seq(Timers))',
         IsMap(timerToSequence, Timers, SequenceIds)',
         nextSequence' \in 1 .. MaxSequences + 1
  PROVE  Typed'
<1> DEFINE ids == nextTimer .. nextTimer + n - 1
<1>1. TypeOK /\ Known /\ Numbered /\ LastFirings /\ batch \in Batches
  BY DEF IInv, Typed
<1>2. Adds(n, delays, interval, repeats) /\ QueueExact'
  BY <1>1, AddedCalls, AddingKeeps
<1>3. /\ ids \subseteq Timers /\ nextPayload' = nextTimer' /\ nextTimer' \in 1 .. MaxTimers + 1
      /\ DOMAIN tasks' = DOMAIN tasks \cup ids /\ tasks' \in [DOMAIN tasks' -> Tasks]
      /\ DOMAIN calls' = DOMAIN calls \cup ids /\ calls' \in [DOMAIN calls' -> Timers]
      /\ DOMAIN timerToPayload' = DOMAIN timerToPayload \cup ids
      /\ timerToPayload' \in [DOMAIN timerToPayload' -> Timers]
  BY <1>2 DEF Adds
<1>4. DOMAIN tasks \subseteq Timers /\ DOMAIN calls \subseteq Timers /\ DOMAIN timerToPayload \subseteq Timers
  BY <1>1 DEF TypeOK, IsMap
<1>5. DOMAIN tasks' \subseteq Timers /\ DOMAIN calls' \subseteq Timers
      /\ DOMAIN timerToPayload' \subseteq Timers
  BY <1>3, <1>4
<1>6. queue' \subseteq Keys
  <2>1. {Due(tasks'[t], t) : t \in DOMAIN tasks'} \subseteq Keys
    BY <1>3, <1>5, KeysTyped
  <2> QED BY <1>2, <2>1 DEF QueueExact
<1>7. IsMap(tasks, Timers, Tasks)' /\ IsMap(calls, Timers, Timers)'
      /\ IsMap(timerToPayload, Timers, Timers)'
  BY <1>3, <1>5 DEF IsMap
<1>8. /\ tick' = tick /\ phase' = phase /\ fired' = fired /\ batch' = batch /\ expired' = expired
      /\ events' = events /\ nextEvent' = nextEvent /\ budget' = budget
      /\ subscriptions' = subscriptions /\ nextSubscription' = nextSubscription
  BY DEF eventVars, drainVars
<1>9. IsMap(subscriptions, Subscriptions, Int)'
  BY <1>1, <1>8 DEF TypeOK, IsMap
<1> QED BY <1>1, <1>3, <1>6, <1>7, <1>8, <1>9 DEF TypeOK, Typed, Tasks

LEMMA ScheduleCallKeeps ==
  ASSUME IInv, NEW delay \in Delays, NEW interval \in Intervals \cup {0}, NEW repeats \in Repeats,
         ScheduleCall(delay, interval, repeats)
  PROVE  IInv'
<1>1. /\ phase = "Idle" /\ (Repeating(repeats) => interval > 0)
      /\ AddCalls(1, <<delay>>, interval, repeats)
      /\ UNCHANGED <<tick, sequenceVars, nextSequence, eventVars, drainVars, expired>>
  BY DEF ScheduleCall
<1>2. interval \in Ticks /\ repeats \in Nat /\ 1 \in Nat \ {0}
      /\ \A k \in 1 .. 1 : <<delay>>[k] \in Ticks
  <2>1. delay \in Ticks /\ interval \in Ticks /\ repeats \in Nat
    BY HostAssumption DEF Ticks
  <2> QED BY <2>1
<1>3. /\ Typed /\ TypeOK /\ Known /\ Numbered /\ LastFirings /\ Owned /\ Interleaved
  BY DEF IInv, Typed
<1>4. /\ sequences' = sequences /\ timerToSequence' = timerToSequence
      /\ nextSequence' = nextSequence
      /\ UNCHANGED <<tick, eventVars, drainVars, expired>>
  BY <1>1 DEF sequenceVars
<1>5. Typed'
  <2>1. /\ IsMap(sequences, SequenceIds, Seq(Timers))' /\ IsMap(timerToSequence, Timers, SequenceIds)'
        /\ nextSequence' \in 1 .. MaxSequences + 1
    BY <1>3, <1>4 DEF TypeOK, IsMap
  <2> QED BY <1>1, <1>2, <1>4, <2>1, AddingTyped
<1>6. /\ DOMAIN timerToPayload' \subseteq 1 .. nextTimer' - 1
      /\ Numbered' /\ LastFirings' /\ Dispatched' /\ EventsApart' /\ QueueExact'
      /\ DispatchOrder'
  BY <1>1, <1>2, <1>4, AddingKeeps
<1>7. Known'
  BY <1>3, <1>4, <1>6 DEF Known, eventVars
<1>8. Adds(1, <<delay>>, interval, repeats)
  BY <1>1, <1>2, <1>3, AddedCalls
<1> DEFINE ids == nextTimer .. nextTimer + 1 - 1
<1>9. /\ \A t \in ids : t \notin DOMAIN timerToPayload
      /\ DOMAIN timerToPayload' = DOMAIN timerToPayload \cup ids
      /\ DOMAIN tasks' = DOMAIN tasks \cup ids
      /\ \A t \in DOMAIN tasks : tasks'[t] = tasks[t]
      /\ \A t \in ids : tasks'[t].remaining = repeats /\ tasks'[t].interval = interval
  <2>1. /\ \A t \in ids : t \notin DOMAIN timerToPayload
        /\ DOMAIN timerToPayload' = DOMAIN timerToPayload \cup ids
        /\ DOMAIN tasks' = DOMAIN tasks \cup ids
        /\ \A t \in DOMAIN tasks : tasks'[t] = tasks[t]
        /\ \A t \in ids :
             tasks'[t] = [due |-> SaturatedAdd(tick, NormalizedDelay(<<delay>>[t - nextTimer + 1])),
                          interval |-> interval, remaining |-> repeats, payload |-> t]
    BY <1>8 DEF Adds
  <2> HIDE DEF ids
  <2> QED BY <2>1
<1>10. Owned'
  BY <1>3, <1>4, <1>9 DEF Owned
<1>11. Interleaved'
  <2>1. ASSUME NEW t \in DOMAIN tasks' \cap DOMAIN timerToSequence
        PROVE  t \in DOMAIN tasks /\ tasks'[t] = tasks[t]
    BY <1>3, <1>9, <2>1 DEF Owned
  <2>2. ASSUME NEW t \in DOMAIN tasks', Repeating(tasks'[t].remaining)
        PROVE  tasks'[t].interval > 0
    <3>1. CASE t \in ids
      BY <1>1, <1>9, <2>2, <3>1
    <3>2. CASE t \notin ids
      BY <1>3, <1>9, <2>2, <3>2 DEF Interleaved
    <3> QED BY <3>1, <3>2
  <2> QED BY <1>3, <1>4, <2>1, <2>2 DEF Interleaved
<1> QED BY <1>5, <1>6, <1>7, <1>10, <1>11 DEF IInv

\* The offsets of the steps of a sequence grow up to its cycle.
LEMMA OffsetsGrow ==
  ASSUME NEW script \in Scripts, NEW offset \in Offsets(script),
         CycleTicks(script, offset) < MaxTick
  PROVE  /\ Len(script) \in Nat \ {0}
         /\ \A k \in 0 .. Len(script) : offset[k] \in Nat /\ offset[k] \in Ticks
         /\ \A k \in 1 .. Len(script) : 0 < offset[k] /\ offset[k] <= CycleTicks(script, offset)
         /\ \A i, j \in 1 .. Len(script) : i < j => offset[i] < offset[j]
<1> DEFINE n == Len(script)
           cycle == CycleTicks(script, offset)
<1>1. script \in Seq(0 .. MaxTick) /\ script # <<>>
  BY HostAssumption
<1>2. n \in Nat \ {0} /\ \A k \in 1 .. n : script[k] \in Nat
  <2>1. n \in Nat \ {0}
    BY <1>1, EmptySeq
  <2>2. \A k \in 1 .. n : script[k] \in 0 .. MaxTick
    BY <1>1, ElementOfSeq
  <2>3. \A k \in 1 .. n : script[k] \in Nat
    <3> HIDE DEF n
    <3> QED BY <2>2, Numbers DEF Ticks
  <2> QED BY <2>1, <2>3
<1>3. /\ offset \in [0 .. n -> Ticks] /\ offset[0] = 0
      /\ \A k \in 1 .. n : offset[k] = SaturatedAdd(offset[k - 1], NormalizedDelay(script[k]))
  BY DEF Offsets
<1> HIDE DEF n
<1>4. ASSUME NEW k \in 0 .. n PROVE offset[k] \in Ticks /\ offset[k] \in Nat
  BY <1>3, Numbers
<1>5. ASSUME NEW k \in 1 .. n
      PROVE  /\ offset[k - 1] <= offset[k]
             /\ offset[k] # MaxTick => offset[k - 1] < offset[k]
  <2>1. NormalizedDelay(script[k]) \in Nat /\ NormalizedDelay(script[k]) > 0
    BY <1>2 DEF NormalizedDelay
  <2>2. k - 1 \in 0 .. n
    BY <1>2
  <2>3. offset[k - 1] \in Ticks
    BY <1>4, <2>2
  <2> HIDE DEF NormalizedDelay
  <2> QED BY <1>3, <2>1, <2>3, AddedTicks
<1>6. offset \in [0 .. n -> Int] /\ n \in Nat
  <2>1. Ticks \subseteq Int
    BY Numbers
  <2> QED BY <1>2, <1>3, <2>1
<1>7. \A i, j \in 0 .. n : i < j => offset[i] <= offset[j]
  <2>1. \A k \in 1 .. n : offset[k - 1] <= offset[k]
    BY <1>5
  <2> QED BY <1>6, <2>1, RisingNumbers
<1>8. ASSUME NEW k \in 0 .. n PROVE offset[k] <= cycle /\ offset[k] # MaxTick
  <2>1. cycle = offset[n] /\ n \in 0 .. n /\ cycle \in Nat
    BY <1>2, <1>4 DEF CycleTicks, n
  <2>2. offset[k] <= cycle
    <3>1. CASE k = n
      BY <2>1, <3>1
    <3>2. CASE k # n
      <4>1. k < n
        BY <1>2, <3>2
      <4> QED BY <1>7, <2>1, <4>1
    <3> QED BY <3>1, <3>2
  <2> QED BY <1>4, <2>1, <2>2, Numbers
<1>9. \A i, j \in 0 .. n : i < j => offset[i] < offset[j]
  <2>1. \A k \in 1 .. n : offset[k - 1] < offset[k]
    BY <1>2, <1>5, <1>8
  <2> QED BY <1>6, <2>1, ClimbingNumbers
<1>10. \A k \in 1 .. n : 0 < offset[k]
  <2> SUFFICES ASSUME NEW k \in 1 .. n PROVE 0 < offset[k]
    OBVIOUS
  <2>1. 0 \in 0 .. n /\ k \in 0 .. n /\ 0 < k
    BY <1>2
  <2>2. offset[0] < offset[k]
    BY <1>9, <2>1
  <2> QED BY <1>3, <2>2
<1>11. \A k \in 1 .. n : k \in 0 .. n
  BY <1>2
<1> QED BY <1>2, <1>4, <1>8, <1>9, <1>10, <1>11 DEF n

\* Two delays within a cycle lead to ticks within a cycle of one another.
LEMMA AddedGap ==
  ASSUME NEW m \in Ticks, NEW i \in Nat, NEW j \in Nat, NEW c \in Nat, 0 < i, i < j, j <= c
  PROVE  /\ SaturatedAdd(m, i) <= SaturatedAdd(m, j)
         /\ SaturatedAdd(m, j) - SaturatedAdd(m, i) < c
         /\ SaturatedAdd(m, i) = SaturatedAdd(m, j) => SaturatedAdd(m, i) = MaxTick
BY Numbers DEF SaturatedAdd, Ticks

\* A new sequence has the timers that have just been added.
LEMMA NewSequence ==
  ASSUME TypeOK, Known, Owned, NEW n \in Nat \ {0},
         nextTimer .. nextTimer + n - 1 \subseteq Timers, nextSequence \in SequenceIds,
         DOMAIN timerToPayload' = DOMAIN timerToPayload \cup (nextTimer .. nextTimer + n - 1),
         sequences' = Put(sequences, nextSequence, [k \in 1 .. n |-> nextTimer + k - 1]),
         timerToSequence' = [t \in DOMAIN timerToSequence \cup (nextTimer .. nextTimer + n - 1) |->
                              IF t \in nextTimer .. nextTimer + n - 1
                              THEN nextSequence ELSE timerToSequence[t]],
         nextSequence' = nextSequence + 1
  PROVE  /\ IsMap(sequences, SequenceIds, Seq(Timers))'
         /\ IsMap(timerToSequence, Timers, SequenceIds)'
         /\ nextSequence' \in 1 .. MaxSequences + 1
         /\ DOMAIN sequences' \subseteq 1 .. nextSequence' - 1
         /\ Owned'
<1> DEFINE ids == nextTimer .. nextTimer + n - 1
           list == [k \in 1 .. n |-> nextTimer + k - 1]
<1>1. /\ nextTimer \in 1 .. MaxTimers + 1 /\ nextSequence \in 1 .. MaxSequences + 1
      /\ DOMAIN sequences \subseteq SequenceIds /\ sequences \in [DOMAIN sequences -> Seq(Timers)]
      /\ DOMAIN timerToSequence \subseteq Timers
      /\ timerToSequence \in [DOMAIN timerToSequence -> SequenceIds]
  BY DEF TypeOK, IsMap
<1>2. /\ DOMAIN timerToPayload \subseteq 1 .. nextTimer - 1
      /\ DOMAIN sequences \subseteq 1 .. nextSequence - 1
  BY DEF Known
<1>3. nextTimer \in Nat \ {0} /\ nextSequence \in Nat \ {0} /\ MaxSequences \in Nat
  BY <1>1, Numbers
<1>4. nextSequence \notin DOMAIN sequences
  BY <1>2, <1>3
<1>5. \A t \in DOMAIN timerToSequence :
        t \in DOMAIN timerToPayload /\ timerToSequence[t] \in DOMAIN sequences
  BY DEF Owned
<1>6. \A t \in ids : t \notin DOMAIN timerToPayload /\ t \in Timers
  BY <1>2, <1>3
<1>7. list \in Seq(Timers) /\ Len(list) = n /\ list # <<>> /\ Elements(list) = ids
      /\ \A i, j \in 1 .. n : i < j => list[i] < list[j]
  <2>1. \A k \in 1 .. n : list[k] = nextTimer + k - 1 /\ nextTimer + k - 1 \in ids
    BY <1>3
  <2>2. list \in [1 .. n -> Timers]
    <3> HIDE DEF ids
    <3> QED BY <1>6, <2>1
  <2>3. list \in Seq(Timers) /\ Len(list) = n
    <3> HIDE DEF list
    <3> QED BY <2>2
  <2>4. list # <<>>
    <3> HIDE DEF list
    <3>1. Len(<<>>) = 0
      OBVIOUS
    <3> QED BY <2>3, <3>1
  <2>5. \A t \in ids : t - nextTimer + 1 \in 1 .. n /\ nextTimer + (t - nextTimer + 1) - 1 = t
    BY <1>3
  <2>6. Elements(list) = ids
    <3> HIDE DEF ids, list
    <3>1. \A t \in ids : \E k \in 1 .. n : list[k] = t
      BY <2>1, <2>5
    <3> QED BY <2>1, <2>3, <3>1 DEF Elements
  <2>7. \A i, j \in 1 .. n : i < j => list[i] < list[j]
    BY <1>3
  <2> QED BY <2>3, <2>4, <2>6, <2>7
<1>8. /\ DOMAIN sequences' = DOMAIN sequences \cup {nextSequence}
      /\ sequences'[nextSequence] = list
      /\ \A s \in DOMAIN sequences : sequences'[s] = sequences[s]
  BY <1>4 DEF Put
<1>9. /\ DOMAIN timerToSequence' = DOMAIN timerToSequence \cup ids
      /\ \A t \in ids : timerToSequence'[t] = nextSequence
      /\ \A t \in DOMAIN timerToSequence : timerToSequence'[t] = timerToSequence[t]
  BY <1>5, <1>6
<1> HIDE DEF ids, list
<1>10. IsMap(sequences, SequenceIds, Seq(Timers))'
  <2>1. sequences' \in [DOMAIN sequences' -> Seq(Timers)]
    <3>1. \A s \in DOMAIN sequences' : sequences'[s] \in Seq(Timers)
      BY <1>1, <1>7, <1>8
    <3>2. sequences' = [s \in DOMAIN sequences' |-> sequences'[s]]
      BY DEF Put
    <3> QED BY <3>1, <3>2
  <2> QED BY <1>1, <1>8, <2>1 DEF IsMap
<1>11. IsMap(timerToSequence, Timers, SequenceIds)'
  <2>1. \A t \in DOMAIN timerToSequence' : timerToSequence'[t] \in SequenceIds /\ t \in Timers
    BY <1>1, <1>6, <1>9
  <2>2. timerToSequence' = [t \in DOMAIN timerToSequence' |-> timerToSequence'[t]]
    OBVIOUS
  <2> QED BY <2>1, <2>2 DEF IsMap
<1>12. nextSequence' \in 1 .. MaxSequences + 1
  BY <1>3 DEF SequenceIds
<1>13. DOMAIN sequences' \subseteq 1 .. nextSequence' - 1
  BY <1>2, <1>3, <1>8
<1>14. \A t \in DOMAIN timerToSequence' :
          t \in DOMAIN timerToPayload' /\ timerToSequence'[t] \in DOMAIN sequences'
  BY <1>5, <1>8, <1>9 DEF ids
<1>15. ASSUME NEW s \in DOMAIN sequences'
       PROVE  /\ sequences'[s] # <<>>
              /\ \A i, j \in 1 .. Len(sequences'[s]) : i < j => sequences'[s][i] < sequences'[s][j]
              /\ Elements(sequences'[s]) = {t \in DOMAIN timerToSequence' : timerToSequence'[t] = s}
  <2>1. CASE s = nextSequence
    <3>1. {t \in DOMAIN timerToSequence' : timerToSequence'[t] = s} = ids
      BY <1>4, <1>5, <1>9, <2>1
    <3> QED BY <1>7, <1>8, <2>1, <3>1
  <2>2. CASE s # nextSequence
    <3>1. s \in DOMAIN sequences /\ sequences'[s] = sequences[s]
      BY <1>8, <2>2
    <3>2. {t \in DOMAIN timerToSequence' : timerToSequence'[t] = s}
            = {t \in DOMAIN timerToSequence : timerToSequence[t] = s}
      BY <1>9, <2>2
    <3> QED BY <3>1, <3>2 DEF Owned
  <2> QED BY <2>1, <2>2
<1>16. Owned'
  BY <1>14, <1>15 DEF Owned
<1> QED BY <1>10, <1>11, <1>12, <1>13, <1>16


LEMMA StartSequenceKeeps ==
  ASSUME IInv, NEW script \in Scripts, NEW repeats \in Repeats, StartSequence(script, repeats)
  PROVE  IInv'
<1> DEFINE n == Len(script)
           ids == nextTimer .. nextTimer + n - 1
<1>1. PICK offset \in Offsets(script) :
        /\ CycleTicks(script, offset) < MaxTick
        /\ AddCalls(n, [k \in 1 .. n |-> offset[k]],
                    IF repeats = 1 THEN 0 ELSE CycleTicks(script, offset), repeats)
  BY DEF StartSequence
<1> DEFINE cycle == CycleTicks(script, offset)
           delays == [k \in 1 .. n |-> offset[k]]
           interval == IF repeats = 1 THEN 0 ELSE cycle
<1>2. /\ n \in Nat \ {0}
      /\ \A k \in 0 .. n : offset[k] \in Nat /\ offset[k] \in Ticks
      /\ \A k \in 1 .. n : 0 < offset[k] /\ offset[k] <= cycle
      /\ \A i, j \in 1 .. n : i < j => offset[i] < offset[j]
  BY <1>1, OffsetsGrow
<1>3. /\ phase = "Idle" /\ nextSequence \in SequenceIds
      /\ sequences' = Put(sequences, nextSequence, [k \in 1 .. n |-> nextTimer + k - 1])
      /\ timerToSequence' = [t \in DOMAIN timerToSequence \cup ids |->
                              IF t \in ids THEN nextSequence ELSE timerToSequence[t]]
      /\ nextSequence' = nextSequence + 1
      /\ UNCHANGED <<tick, eventVars, drainVars, expired>>
  BY DEF StartSequence
<1>4. /\ Typed /\ TypeOK /\ Known /\ Numbered /\ LastFirings /\ Owned /\ Interleaved
      /\ tick \in Ticks
  BY DEF IInv, Typed, TypeOK
<1> HIDE DEF n
<1>5. cycle \in Ticks /\ cycle \in Nat /\ cycle > 0
  <2>1. n \in 0 .. n /\ n \in 1 .. n
    BY <1>2
  <2>2. cycle = offset[n]
    BY DEF CycleTicks, n
  <2> QED BY <1>2, <2>1, <2>2
<1> HIDE DEF cycle
<1>6. interval \in Ticks /\ repeats \in Nat /\ (Repeating(repeats) => interval = cycle)
  <2>1. 0 \in Ticks /\ repeats \in Nat
    BY Numbers, HostAssumption DEF Ticks
  <2> QED BY <1>5, <2>1 DEF Repeating, RepeatForever
<1>7. \A k \in 1 .. n : delays[k] \in Ticks /\ delays[k] = offset[k]
  <2>1. \A k \in 1 .. n : k \in 0 .. n
    BY <1>2
  <2> QED BY <1>2, <2>1
<1>8. AddCalls(n, delays, interval, repeats)
  BY <1>1 DEF cycle
<1> HIDE DEF interval, delays
<1>9. Adds(n, delays, interval, repeats)
  BY <1>2, <1>4, <1>6, <1>7, <1>8, AddedCalls
<1>10. /\ ids \subseteq Timers /\ \A t \in ids : t \notin DOMAIN timerToPayload
       /\ DOMAIN timerToPayload' = DOMAIN timerToPayload \cup ids
       /\ DOMAIN tasks' = DOMAIN tasks \cup ids
       /\ nextTimer \in Nat \ {0}
       /\ \A t \in DOMAIN tasks : tasks'[t] = tasks[t]
       /\ \A t \in ids :
            tasks'[t] = [due       |-> SaturatedAdd(tick, NormalizedDelay(delays[t - nextTimer + 1])),
                         interval  |-> interval, remaining |-> repeats, payload |-> t]
  BY <1>9 DEF Adds
<1>11. /\ IsMap(sequences, SequenceIds, Seq(Timers))'
       /\ IsMap(timerToSequence, Timers, SequenceIds)'
       /\ nextSequence' \in 1 .. MaxSequences + 1
       /\ DOMAIN sequences' \subseteq 1 .. nextSequence' - 1
       /\ Owned'
  BY <1>2, <1>3, <1>4, <1>10, NewSequence
<1>12. Typed'
  BY <1>2, <1>3, <1>6, <1>7, <1>8, <1>11, AddingTyped
<1>13. /\ DOMAIN timerToPayload' \subseteq 1 .. nextTimer' - 1
       /\ Numbered' /\ LastFirings' /\ Dispatched' /\ EventsApart' /\ QueueExact'
       /\ DispatchOrder'
  BY <1>2, <1>3, <1>6, <1>7, <1>8, AddingKeeps
<1>14. Known'
  BY <1>3, <1>4, <1>11, <1>13 DEF Known, eventVars
<1>15. nextSequence \notin DOMAIN sequences
  <2>1. DOMAIN sequences \subseteq 1 .. nextSequence - 1 /\ nextSequence \in Nat
    BY <1>3, <1>4, Numbers DEF Known
  <2> QED BY <2>1
<1>16. \A t \in DOMAIN timerToSequence :
          t \in DOMAIN timerToPayload /\ timerToSequence[t] # nextSequence
  BY <1>4, <1>15 DEF Owned
<1>17. /\ DOMAIN timerToSequence' = DOMAIN timerToSequence \cup ids
       /\ \A t \in ids : timerToSequence'[t] = nextSequence
       /\ \A t \in DOMAIN timerToSequence : timerToSequence'[t] = timerToSequence[t] /\ t \notin ids
  <2> HIDE DEF ids
  <2> QED BY <1>3, <1>10, <1>16
<1>18. ASSUME NEW t \in ids
       PROVE  /\ t - nextTimer + 1 \in 1 .. n /\ t \in Nat
              /\ tasks'[t].due = SaturatedAdd(tick, offset[t - nextTimer + 1])
              /\ tasks'[t].interval = interval /\ tasks'[t].remaining = repeats
  <2>1. t - nextTimer + 1 \in 1 .. n /\ t \in Nat
    BY <1>2, <1>10
  <2>2. NormalizedDelay(delays[t - nextTimer + 1]) = offset[t - nextTimer + 1]
    BY <1>2, <1>7, <2>1 DEF NormalizedDelay
  <2> HIDE DEF ids
  <2> QED BY <1>10, <2>1, <2>2
<1>19. ASSUME NEW t \in DOMAIN tasks', Repeating(tasks'[t].remaining)
       PROVE  tasks'[t].interval > 0
  <2>1. CASE t \in ids
    <3>1. tasks'[t].interval = interval /\ tasks'[t].remaining = repeats
      BY <1>18, <2>1
    <3> QED BY <1>5, <1>6, <1>19, <3>1
  <2>2. CASE t \notin ids
    <3>1. t \in DOMAIN tasks /\ tasks'[t] = tasks[t]
      BY <1>10, <2>2
    <3> QED BY <1>4, <1>19, <3>1 DEF Interleaved
  <2> QED BY <2>1, <2>2
<1>20. ASSUME NEW t \in DOMAIN tasks' \cap DOMAIN timerToSequence',
              NEW u \in DOMAIN tasks' \cap DOMAIN timerToSequence',
              t < u, timerToSequence'[t] = timerToSequence'[u], Repeating(tasks'[t].remaining)
       PROVE  Apart(tasks'[t], tasks'[u])
  <2>1. CASE t \in ids
    <3>1. u \in ids
      BY <1>16, <1>17, <1>20, <2>1
    <3> DEFINE i == t - nextTimer + 1
               j == u - nextTimer + 1
    <3>2. i \in 1 .. n /\ j \in 1 .. n /\ i < j
      <4>1. t \in Nat /\ u \in Nat /\ nextTimer \in Nat
        BY <1>10, <1>18, <2>1, <3>1
      <4>2. i < j
        BY <1>20, <4>1
      <4> QED BY <1>18, <2>1, <3>1, <4>2
    <3>3. /\ tasks'[t].due = SaturatedAdd(tick, offset[i])
          /\ tasks'[u].due = SaturatedAdd(tick, offset[j])
          /\ tasks'[t].interval = interval /\ tasks'[u].interval = interval
          /\ tasks'[t].remaining = repeats /\ tasks'[u].remaining = repeats
      BY <1>18, <2>1, <3>1
    <3>4. interval = cycle
      BY <1>6, <1>20, <3>3
    <3> HIDE DEF i, j
    <3>5. /\ i \in 0 .. n /\ j \in 0 .. n
      BY <1>2, <3>2
    <3>6. /\ offset[i] \in Nat /\ offset[j] \in Nat /\ 0 < offset[i] /\ offset[i] < offset[j]
          /\ offset[j] <= cycle
      BY <1>2, <3>2, <3>5
    <3>7. /\ SaturatedAdd(tick, offset[i]) <= SaturatedAdd(tick, offset[j])
          /\ SaturatedAdd(tick, offset[j]) - SaturatedAdd(tick, offset[i]) < cycle
          /\ SaturatedAdd(tick, offset[i]) = SaturatedAdd(tick, offset[j])
                => SaturatedAdd(tick, offset[i]) = MaxTick
      BY <1>4, <1>5, <3>6, AddedGap
    <3> QED BY <3>3, <3>4, <3>7 DEF Apart
  <2>2. CASE t \notin ids
    <3>1. t \in DOMAIN tasks /\ tasks'[t] = tasks[t] /\ t \in DOMAIN timerToSequence
          /\ timerToSequence'[t] = timerToSequence[t]
      BY <1>10, <1>17, <2>2
    <3>2. u \notin ids
      BY <1>16, <1>17, <1>20, <3>1
    <3>3. u \in DOMAIN tasks /\ tasks'[u] = tasks[u] /\ u \in DOMAIN timerToSequence
          /\ timerToSequence'[u] = timerToSequence[u]
      BY <1>10, <1>17, <3>2
    <3> QED BY <1>4, <1>20, <3>1, <3>3 DEF Interleaved
  <2> QED BY <2>1, <2>2
<1>21. Interleaved'
  BY <1>19, <1>20 DEF Interleaved
<1> QED BY <1>11, <1>12, <1>13, <1>14, <1>21 DEF IInv


-----------------------------------------------------------------------------
(* The books when calls are erased. *)

LEMMA DroppedKeys ==
  ASSUME NEW map, NEW keys, NEW S, NEW T, IsMap(map, S, T)
  PROVE  /\ IsMap(Drop(map, keys), S, T)
         /\ DOMAIN Drop(map, keys) = DOMAIN map \ keys
         /\ \A k \in DOMAIN map \ keys : Drop(map, keys)[k] = map[k]
BY DEF IsMap, Drop

\* A timer leaves its sequence, and the sequence ends with its last timer.
LEMMA Detached ==
  ASSUME TypeOK, Owned, NEW timer \in Timers, Detach(timer),
         DOMAIN timerToPayload' = DOMAIN timerToPayload \ {timer}
  PROVE  /\ DOMAIN timerToSequence' = DOMAIN timerToSequence \ {timer}
         /\ \A t \in DOMAIN timerToSequence' : timerToSequence'[t] = timerToSequence[t]
         /\ DOMAIN sequences' \subseteq DOMAIN sequences
         /\ IsMap(sequences, SequenceIds, Seq(Timers))'
         /\ IsMap(timerToSequence, Timers, SequenceIds)'
         /\ Owned'
<1>1. /\ IsMap(sequences, SequenceIds, Seq(Timers)) /\ IsMap(timerToSequence, Timers, SequenceIds)
  BY DEF TypeOK
<1>2. /\ \A t \in DOMAIN timerToSequence :
           t \in DOMAIN timerToPayload /\ timerToSequence[t] \in DOMAIN sequences
      /\ \A r \in DOMAIN sequences :
           /\ sequences[r] # <<>>
           /\ \A i, j \in 1 .. Len(sequences[r]) : i < j => sequences[r][i] < sequences[r][j]
           /\ Elements(sequences[r]) = {t \in DOMAIN timerToSequence : timerToSequence[t] = r}
  BY DEF Owned
<1>3. CASE timer \notin DOMAIN timerToSequence
  <2>1. sequences' = sequences /\ timerToSequence' = timerToSequence
    BY <1>3 DEF Detach, sequenceVars
  <2>2. \A t \in DOMAIN timerToSequence : t \in DOMAIN timerToPayload'
    BY <1>2, <1>3
  <2>3. Owned'
    BY <1>2, <2>1, <2>2 DEF Owned
  <2> QED BY <1>1, <1>3, <2>1, <2>3 DEF IsMap
<1>4. CASE timer \in DOMAIN timerToSequence
  <2> DEFINE s == timerToSequence[timer]
             others == Timers \ {timer}
             left == Filtered(sequences[s], others)
  <2>1. /\ timerToSequence' = Drop(timerToSequence, {timer})
        /\ sequences' = IF left = <<>> THEN Drop(sequences, {s}) ELSE [sequences EXCEPT ![s] = left]
    BY <1>4 DEF Detach
  <2>2. s \in DOMAIN sequences /\ sequences[s] \in Seq(Timers) /\ DOMAIN sequences \subseteq SequenceIds
    BY <1>1, <1>2, <1>4 DEF IsMap
  <2>3. /\ DOMAIN timerToSequence' = DOMAIN timerToSequence \ {timer}
        /\ \A t \in DOMAIN timerToSequence' : timerToSequence'[t] = timerToSequence[t]
        /\ IsMap(timerToSequence', Timers, SequenceIds)
    BY <1>1, <2>1, DroppedKeys
  <2>4. left \in Seq(Timers) /\ Elements(left) = Elements(sequences[s]) \cap others
    BY <2>2, FilteredEntries
  <2>5. \A i, j \in 1 .. Len(left) : i < j => left[i] < left[j]
    <3>1. Timers \in SUBSET Int
      BY Numbers
    <3> QED BY <1>2, <2>2, <3>1, FilteredIncreases
  <2> HIDE DEF left
  <2>6. Elements(left) = {t \in DOMAIN timerToSequence' : timerToSequence'[t] = s}
    <3>1. Elements(left) = {t \in DOMAIN timerToSequence : timerToSequence[t] = s} \cap others
      BY <1>2, <2>2, <2>4
    <3>2. DOMAIN timerToSequence \subseteq Timers
      BY <1>1 DEF IsMap
    <3> QED BY <2>3, <3>1, <3>2
  <2>7. /\ DOMAIN sequences' = IF left = <<>> THEN DOMAIN sequences \ {s} ELSE DOMAIN sequences
        /\ \A r \in DOMAIN sequences' : sequences'[r] = IF r = s THEN left ELSE sequences[r]
        /\ sequences' = [r \in DOMAIN sequences' |-> sequences'[r]]
    <3>1. CASE left = <<>>
      <4>1. sequences' = [r \in DOMAIN sequences \ {s} |-> sequences[r]]
        BY <2>1, <3>1 DEF Drop
      <4> QED BY <3>1, <4>1
    <3>2. CASE left # <<>>
      <4>1. sequences' = [sequences EXCEPT ![s] = left] /\ s \in DOMAIN sequences
        BY <2>1, <2>2, <3>2
      <4>2. sequences = [r \in DOMAIN sequences |-> sequences[r]]
        BY <1>1 DEF IsMap
      <4> HIDE DEF s
      <4> QED BY <3>2, <4>1, <4>2
    <3> QED BY <3>1, <3>2
  <2>8. left = <<>> <=> {t \in DOMAIN timerToSequence' : timerToSequence'[t] = s} = {}
    <3>1. left = <<>> => Elements(left) = {}
      BY DEF Elements
    <3>2. ASSUME left # <<>> PROVE Elements(left) # {}
      <4>1. Len(left) \in Nat \ {0}
        BY <2>4, <3>2, EmptySeq
      <4>2. 1 \in 1 .. Len(left)
        BY <4>1
      <4> QED BY <4>2 DEF Elements
    <3> QED BY <2>6, <3>1, <3>2
  <2>9. IsMap(sequences', SequenceIds, Seq(Timers))
    <3>1. \A r \in DOMAIN sequences' : sequences'[r] \in Seq(Timers)
      BY <1>1, <2>4, <2>7 DEF IsMap
    <3> QED BY <2>2, <2>7, <3>1 DEF IsMap
  <2> HIDE DEF s
  <2>10. ASSUME NEW t \in DOMAIN timerToSequence'
         PROVE  t \in DOMAIN timerToPayload' /\ timerToSequence'[t] \in DOMAIN sequences'
    <3>1. t \in DOMAIN timerToPayload /\ t # timer /\ timerToSequence[t] \in DOMAIN sequences
      BY <1>2, <2>3
    <3>2. timerToSequence'[t] = s => left # <<>>
      BY <2>8
    <3> QED BY <2>3, <2>7, <3>1, <3>2
  <2>11. ASSUME NEW r \in DOMAIN sequences'
         PROVE  /\ sequences'[r] # <<>>
                /\ \A i, j \in 1 .. Len(sequences'[r]) : i < j => sequences'[r][i] < sequences'[r][j]
                /\ Elements(sequences'[r]) = {t \in DOMAIN timerToSequence' : timerToSequence'[t] = r}
    <3>1. CASE r = s
      BY <2>5, <2>6, <2>7, <3>1
    <3>2. CASE r # s
      <4>1. r \in DOMAIN sequences /\ sequences'[r] = sequences[r]
        BY <2>7, <3>2
      <4>2. {t \in DOMAIN timerToSequence' : timerToSequence'[t] = r}
              = {t \in DOMAIN timerToSequence : timerToSequence[t] = r}
        BY <2>3, <3>2 DEF s
      <4> QED BY <1>2, <4>1, <4>2
    <3> QED BY <3>1, <3>2
  <2>12. Owned'
    BY <2>10, <2>11 DEF Owned
  <2>13. IsMap(sequences, SequenceIds, Seq(Timers))' /\ IsMap(timerToSequence, Timers, SequenceIds)'
    BY <2>3, <2>9 DEF IsMap
  <2> QED BY <2>3, <2>7, <2>12, <2>13
<1> QED BY <1>3, <1>4

\* A sequence ends with all its timers.
LEMMA Ended ==
  ASSUME TypeOK, Owned, NEW s \in DOMAIN sequences,
         timerToSequence' = Drop(timerToSequence, Elements(sequences[s])),
         sequences' = Drop(sequences, {s}),
         DOMAIN timerToPayload' = DOMAIN timerToPayload \ Elements(sequences[s])
  PROVE  /\ DOMAIN timerToSequence' = DOMAIN timerToSequence \ Elements(sequences[s])
         /\ \A t \in DOMAIN timerToSequence' : timerToSequence'[t] = timerToSequence[t]
         /\ DOMAIN sequences' \subseteq DOMAIN sequences
         /\ IsMap(sequences, SequenceIds, Seq(Timers))'
         /\ IsMap(timerToSequence, Timers, SequenceIds)'
         /\ Owned'
<1> DEFINE timers == Elements(sequences[s])
<1>1. /\ IsMap(sequences, SequenceIds, Seq(Timers)) /\ IsMap(timerToSequence, Timers, SequenceIds)
  BY DEF TypeOK
<1>2. /\ \A t \in DOMAIN timerToSequence :
           t \in DOMAIN timerToPayload /\ timerToSequence[t] \in DOMAIN sequences
      /\ \A r \in DOMAIN sequences :
           /\ sequences[r] # <<>>
           /\ \A i, j \in 1 .. Len(sequences[r]) : i < j => sequences[r][i] < sequences[r][j]
           /\ Elements(sequences[r]) = {t \in DOMAIN timerToSequence : timerToSequence[t] = r}
  BY DEF Owned
<1>3. timers = {t \in DOMAIN timerToSequence : timerToSequence[t] = s}
  BY <1>2
<1> HIDE DEF timers
<1>4. /\ DOMAIN timerToSequence' = DOMAIN timerToSequence \ timers
      /\ \A t \in DOMAIN timerToSequence' : timerToSequence'[t] = timerToSequence[t]
      /\ IsMap(timerToSequence', Timers, SequenceIds)
  BY <1>1, DroppedKeys DEF timers
<1>5. /\ DOMAIN sequences' = DOMAIN sequences \ {s}
      /\ \A r \in DOMAIN sequences' : sequences'[r] = sequences[r]
      /\ IsMap(sequences', SequenceIds, Seq(Timers))
  <2> DEFINE kept == Drop(sequences, {s})
  <2>1. /\ IsMap(kept, SequenceIds, Seq(Timers))
        /\ DOMAIN kept = DOMAIN sequences \ {s}
        /\ \A r \in DOMAIN sequences \ {s} : kept[r] = sequences[r]
    BY <1>1, DroppedKeys
  <2>2. sequences' = kept
    OBVIOUS
  <2> HIDE DEF kept
  <2> QED BY <2>1, <2>2
<1>6. \A t \in DOMAIN timerToSequence' :
         t \in DOMAIN timerToPayload' /\ timerToSequence'[t] \in DOMAIN sequences'
  BY <1>2, <1>3, <1>4, <1>5 DEF timers
<1>7. ASSUME NEW r \in DOMAIN sequences'
      PROVE  {t \in DOMAIN timerToSequence' : timerToSequence'[t] = r}
               = {t \in DOMAIN timerToSequence : timerToSequence[t] = r}
  BY <1>3, <1>4, <1>5
<1>8. Owned'
  BY <1>2, <1>5, <1>6, <1>7 DEF Owned
<1>9. IsMap(sequences, SequenceIds, Seq(Timers))' /\ IsMap(timerToSequence, Timers, SequenceIds)'
  BY <1>4, <1>5 DEF IsMap
<1> QED BY <1>4, <1>5, <1>8, <1>9 DEF timers


LEMMA ErasedCalls ==
  ASSUME TypeOK, Numbered, NEW D \in SUBSET DOMAIN timerToPayload, EraseCalls(D)
  PROVE  /\ DOMAIN timerToPayload' = DOMAIN timerToPayload \ D
         /\ DOMAIN calls' = DOMAIN timerToPayload \ D
         /\ \A t \in DOMAIN timerToPayload' : timerToPayload'[t] = t /\ calls'[t] = t
         /\ IsMap(calls, Timers, Timers)' /\ IsMap(timerToPayload, Timers, Timers)'
<1>1. IsMap(calls, Timers, Timers) /\ IsMap(timerToPayload, Timers, Timers)
  BY DEF TypeOK
<1>2. /\ DOMAIN calls = DOMAIN timerToPayload
      /\ \A t \in DOMAIN timerToPayload : timerToPayload[t] = t /\ calls[t] = t
  BY DEF Numbered
<1>3. {timerToPayload[t] : t \in D} = D
  BY <1>2
<1>4. calls' = Drop(calls, D) /\ timerToPayload' = Drop(timerToPayload, D)
  BY <1>3 DEF EraseCalls
<1>5. /\ IsMap(Drop(calls, D), Timers, Timers) /\ DOMAIN Drop(calls, D) = DOMAIN calls \ D
      /\ \A t \in DOMAIN calls \ D : Drop(calls, D)[t] = calls[t]
  BY <1>1, DroppedKeys
<1>6. /\ IsMap(Drop(timerToPayload, D), Timers, Timers)
      /\ DOMAIN Drop(timerToPayload, D) = DOMAIN timerToPayload \ D
      /\ \A t \in DOMAIN timerToPayload \ D : Drop(timerToPayload, D)[t] = timerToPayload[t]
  BY <1>1, DroppedKeys
<1>7. DOMAIN timerToPayload' = DOMAIN timerToPayload \ D /\ DOMAIN calls' = DOMAIN timerToPayload \ D
  BY <1>2, <1>4, <1>5, <1>6
<1>8. \A t \in DOMAIN timerToPayload' : timerToPayload'[t] = t /\ calls'[t] = t
  BY <1>2, <1>4, <1>5, <1>6
<1>9. IsMap(calls, Timers, Timers)' /\ IsMap(timerToPayload, Timers, Timers)'
  BY <1>4, <1>5, <1>6 DEF IsMap
<1> QED BY <1>7, <1>8, <1>9

\* Timers are cancelled between two steps, with their sequences.
LEMMA Cancelled ==
  ASSUME IInv, phase = "Idle", NEW D \in SUBSET DOMAIN timerToPayload,
         CancelTasks(D), EraseCalls(D), expired' = expired \ D,
         UNCHANGED <<tick, counterVars, eventVars, drainVars>>,
         DOMAIN timerToSequence' = DOMAIN timerToSequence \ D,
         \A t \in DOMAIN timerToSequence' : timerToSequence'[t] = timerToSequence[t],
         DOMAIN sequences' \subseteq DOMAIN sequences,
         IsMap(sequences, SequenceIds, Seq(Timers))',
         IsMap(timerToSequence, Timers, SequenceIds)', Owned'
  PROVE  IInv'
<1>1. /\ TypeOK /\ Known /\ Numbered /\ LastFirings /\ Interleaved /\ Dispatched /\ EventsApart
      /\ QueueExact /\ DispatchOrder /\ batch \in Batches
  BY DEF IInv, Typed
<1>2. /\ tick' = tick /\ phase' = phase /\ fired' = fired /\ batch' = batch /\ budget' = budget
      /\ events' = events /\ nextEvent' = nextEvent /\ nextTimer' = nextTimer
      /\ nextPayload' = nextPayload /\ nextSequence' = nextSequence
      /\ subscriptions' = subscriptions /\ nextSubscription' = nextSubscription
  BY DEF eventVars, drainVars, counterVars
<1>3. /\ DOMAIN timerToPayload' = DOMAIN timerToPayload \ D
      /\ DOMAIN calls' = DOMAIN timerToPayload \ D
      /\ \A t \in DOMAIN timerToPayload' : timerToPayload'[t] = t /\ calls'[t] = t
      /\ IsMap(calls, Timers, Timers)' /\ IsMap(timerToPayload, Timers, Timers)'
  BY <1>1, ErasedCalls
<1>4. /\ IsMap(tasks', Timers, Tasks) /\ DOMAIN tasks' = DOMAIN tasks \ D
      /\ \A t \in DOMAIN tasks' : t \in DOMAIN tasks /\ tasks'[t] = tasks[t]
  <2>1. IsMap(tasks, Timers, Tasks) /\ tasks' = Drop(tasks, D)
    BY <1>1 DEF TypeOK, Tasks, CancelTasks
  <2> DEFINE kept == Drop(tasks, D)
  <2>2. /\ IsMap(kept, Timers, Tasks) /\ DOMAIN kept = DOMAIN tasks \ D
        /\ \A t \in DOMAIN tasks \ D : kept[t] = tasks[t]
    BY <2>1, DroppedKeys
  <2>3. tasks' = kept
    BY <2>1
  <2> HIDE DEF kept
  <2> QED BY <2>2, <2>3
<1>5. queue' = {Due(tasks'[t], t) : t \in DOMAIN tasks'}
  <2>1. /\ queue = {Due(tasks[t], t) : t \in DOMAIN tasks}
        /\ queue' = queue \ {Due(tasks[t], t) : t \in D \cap DOMAIN tasks}
    BY <1>1 DEF QueueExact, CancelTasks
  <2>2. \A t, u \in DOMAIN tasks : Due(tasks[t], t) = Due(tasks[u], u) => t = u
    BY DEF Due
  <2>3. queue' = {Due(tasks[t], t) : t \in DOMAIN tasks \ D}
    BY <2>1, <2>2
  <2>4. {Due(tasks[t], t) : t \in DOMAIN tasks \ D} = {Due(tasks'[t], t) : t \in DOMAIN tasks'}
    BY <1>4
  <2> QED BY <2>3, <2>4
<1>6. queue' \subseteq queue
  BY DEF CancelTasks
<1>7. fired = <<>> /\ Finishing = {} /\ Finishing' = {}
  <2>1. fired = <<>>
    BY <1>1 DEF LastFirings
  <2> QED BY <1>2, <2>1, NoneFinishing DEF Finishing
<1>8. Typed'
  <2>1. queue' \subseteq Keys
    BY <1>1, <1>6 DEF TypeOK
  <2>2. expired' \subseteq Timers
    BY <1>1 DEF TypeOK
  <2>3. IsMap(subscriptions, Subscriptions, Int)' /\ IsMap(tasks, Timers, Tasks)'
    BY <1>1, <1>2, <1>4 DEF TypeOK, IsMap
  <2> QED BY <1>1, <1>2, <1>3, <2>1, <2>2, <2>3 DEF Typed, TypeOK, Tasks
<1>9. Known'
  BY <1>1, <1>2, <1>3 DEF Known
<1>10. Numbered'
  <2>1. \A t \in DOMAIN tasks' : tasks'[t].payload = t
    BY <1>1, <1>4 DEF Numbered
  <2> QED BY <1>3, <2>1 DEF Numbered
<1>11. LastFirings'
  <2>1. DOMAIN timerToPayload = DOMAIN tasks \cup expired /\ DOMAIN tasks \cap expired = {}
    BY <1>1, <1>7 DEF LastFirings
  <2>2. DOMAIN timerToPayload' = DOMAIN tasks' \cup expired' /\ DOMAIN tasks' \cap expired' = {}
    BY <1>3, <1>4, <2>1
  <2> QED BY <1>2, <1>7, <2>2 DEF LastFirings
<1>12. Interleaved'
  <2>1. \A t \in DOMAIN tasks' \cap DOMAIN timerToSequence' :
           t \in DOMAIN tasks \cap DOMAIN timerToSequence
    BY <1>4
  <2> QED BY <1>1, <1>4, <2>1 DEF Interleaved
<1>13. Dispatched'
  BY <1>1, <1>2, <1>7 DEF Dispatched
<1>14. EventsApart' /\ QueueExact'
  BY <1>1, <1>2, <1>5 DEF EventsApart, QueueExact
<1>15. DispatchOrder'
  BY <1>1, <1>2, <1>6 DEF DispatchOrder
<1> QED BY <1>8, <1>9, <1>10, <1>11, <1>12, <1>13, <1>14, <1>15 DEF IInv

LEMMA CancelCallKeeps ==
  ASSUME IInv, NEW timer \in Timers, CancelCall(timer)
  PROVE  IInv'
<1>1. /\ phase = "Idle" /\ timer \in DOMAIN timerToPayload
      /\ CancelTasks({timer}) /\ EraseCalls({timer}) /\ Detach(timer)
      /\ expired' = expired \ {timer}
      /\ UNCHANGED <<tick, counterVars, eventVars, drainVars>>
  BY DEF CancelCall
<1>2. TypeOK /\ Numbered /\ Owned
  BY DEF IInv, Typed
<1>3. DOMAIN timerToPayload' = DOMAIN timerToPayload \ {timer}
  BY <1>1, <1>2, ErasedCalls
<1>4. /\ DOMAIN timerToSequence' = DOMAIN timerToSequence \ {timer}
      /\ \A t \in DOMAIN timerToSequence' : timerToSequence'[t] = timerToSequence[t]
      /\ DOMAIN sequences' \subseteq DOMAIN sequences
      /\ IsMap(sequences, SequenceIds, Seq(Timers))'
      /\ IsMap(timerToSequence, Timers, SequenceIds)' /\ Owned'
  BY <1>1, <1>2, <1>3, Detached
<1> QED BY <1>1, <1>4, Cancelled

LEMMA CancelSequenceKeeps ==
  ASSUME IInv, NEW s \in DOMAIN sequences, CancelSequence(s)
  PROVE  IInv'
<1> DEFINE timers == Elements(sequences[s])
<1>1. /\ phase = "Idle"
      /\ CancelTasks(timers) /\ EraseCalls(timers)
      /\ timerToSequence' = Drop(timerToSequence, timers)
      /\ sequences' = Drop(sequences, {s})
      /\ expired' = expired \ timers
      /\ UNCHANGED <<tick, counterVars, eventVars, drainVars>>
  BY DEF CancelSequence
<1>2. TypeOK /\ Numbered /\ Owned
  BY DEF IInv, Typed
<1>3. timers \subseteq DOMAIN timerToPayload
  BY <1>2 DEF Owned
<1>4. DOMAIN timerToPayload' = DOMAIN timerToPayload \ timers
  BY <1>1, <1>2, <1>3, ErasedCalls
<1>5. /\ DOMAIN timerToSequence' = DOMAIN timerToSequence \ timers
      /\ \A t \in DOMAIN timerToSequence' : timerToSequence'[t] = timerToSequence[t]
      /\ DOMAIN sequences' \subseteq DOMAIN sequences
      /\ IsMap(sequences, SequenceIds, Seq(Timers))'
      /\ IsMap(timerToSequence, Timers, SequenceIds)' /\ Owned'
  BY <1>1, <1>2, <1>4, Ended
<1> HIDE DEF timers
<1> QED BY <1>1, <1>3, <1>5, Cancelled


-----------------------------------------------------------------------------
(* Events and subscriptions. *)

LEMMA BooksKept ==
  ASSUME IInv, UNCHANGED <<schedulerVars, callVars, sequenceVars, fired, expired>>,
         phase' \in {"Idle", "Events"} => fired = <<>>
  PROVE  Numbered' /\ LastFirings' /\ Owned' /\ Interleaved' /\ QueueExact'
<1>1. /\ tasks' = tasks /\ queue' = queue /\ calls' = calls /\ timerToPayload' = timerToPayload
      /\ sequences' = sequences /\ timerToSequence' = timerToSequence /\ fired' = fired
      /\ expired' = expired
  BY DEF schedulerVars, callVars, sequenceVars
<1>2. Numbered /\ LastFirings /\ Owned /\ Interleaved /\ QueueExact
  BY DEF IInv
<1>3. Numbered' /\ Owned' /\ Interleaved' /\ QueueExact'
  BY <1>1, <1>2 DEF Numbered, Owned, Interleaved, QueueExact
<1>4. LastFirings'
  BY <1>1, <1>2 DEF LastFirings, Finishing
<1> QED BY <1>3, <1>4

\* What is dispatched has been due under a number that was given out.
LEMMA DispatchesTyped ==
  ASSUME batch \in Batches, Dispatched, NEW i \in 1 .. Len(batch)
  PROVE  /\ batch[i] \in Dispatches /\ batch[i].due \in Nat /\ batch[i].due <= tick
         /\ batch[i].id \in Nat /\ batch[i].kind \in {"Timer", "Event"}
         /\ batch[i].priority \in Int /\ batch[i].subscription \in Nat
         /\ batch[i].kind = "Timer" => batch[i].id < nextTimer
         /\ batch[i].kind = "Event" => batch[i].id < nextEvent
<1>1. batch[i] \in Dispatches
  BY DEF Batches
<1> QED BY <1>1, Numbers DEF Dispatches, Dispatched

LEMMA EnqueueKeeps ==
  ASSUME IInv, NEW delay \in Delays, NEW direct \in BOOLEAN, Enqueue(delay, direct)
  PROVE  IInv'
<1> DEFINE due == SaturatedAdd(tick, NormalizedDelay(delay))
           event == [due |-> due, id |-> nextEvent, direct |-> direct]
<1>1. /\ phase = "Idle" /\ nextEvent \in EventIds /\ events' = events \cup {event}
      /\ nextEvent' = nextEvent + 1
      /\ UNCHANGED <<tick, schedulerVars, callVars, sequenceVars, counterVars, subscriptions,
                     nextSubscription, drainVars, expired>>
  BY DEF Enqueue
<1>2. /\ TypeOK /\ Known /\ LastFirings /\ Dispatched /\ EventsApart /\ DispatchOrder
      /\ batch \in Batches /\ tick \in Ticks
  BY DEF IInv, Typed, TypeOK
<1>3. /\ tick' = tick /\ tasks' = tasks /\ queue' = queue /\ calls' = calls
      /\ timerToPayload' = timerToPayload /\ sequences' = sequences
      /\ timerToSequence' = timerToSequence /\ nextTimer' = nextTimer
      /\ nextPayload' = nextPayload /\ nextSequence' = nextSequence
      /\ subscriptions' = subscriptions /\ nextSubscription' = nextSubscription
      /\ phase' = phase /\ budget' = budget /\ fired' = fired /\ batch' = batch
      /\ expired' = expired
  BY <1>1 DEF schedulerVars, callVars, sequenceVars, counterVars, drainVars
<1>4. fired = <<>>
  BY <1>1, <1>2 DEF LastFirings
<1>5. Numbered' /\ LastFirings' /\ Owned' /\ Interleaved' /\ QueueExact'
  BY <1>1, <1>3, <1>4, BooksKept DEF schedulerVars, callVars, sequenceVars
<1>6. due \in Ticks /\ tick <= due /\ due \in Nat /\ tick \in Nat
  <2>1. NormalizedDelay(delay) \in Nat
    BY HostAssumption DEF NormalizedDelay
  <2> QED BY <1>2, <2>1, AddedTicks, Numbers
<1> HIDE DEF due
<1>7. nextEvent \in Nat /\ MaxEvents \in Nat /\ \A e \in events : e.id \in Nat /\ e.id < nextEvent
  BY <1>1, <1>2, Numbers DEF TypeOK, Known
<1>8. Typed'
  <2>1. event \in [due : Ticks, id : EventIds, direct : BOOLEAN]
    BY <1>1, <1>6
  <2>2. nextEvent' \in 1 .. MaxEvents + 1
    BY <1>1, <1>7 DEF EventIds
  <2> HIDE DEF event
  <2>3. events' \subseteq [due : Ticks, id : EventIds, direct : BOOLEAN]
    BY <1>1, <1>2, <2>1 DEF TypeOK
  <2> QED BY <1>2, <1>3, <2>2, <2>3 DEF Typed, TypeOK, IsMap
<1>9. Known'
  <2>1. \A e \in events' : e.id < nextEvent'
    BY <1>1, <1>7
  <2> QED BY <1>2, <1>3, <2>1 DEF Known
<1>10. EventsApart'
  <2>1. IsFiniteSet(events')
    BY <1>1, <1>2, FS_AddElement DEF EventsApart
  <2>2. \A e, f \in events' : e.id = f.id => e = f
    BY <1>1, <1>2, <1>7 DEF EventsApart
  <2> QED BY <2>1, <2>2 DEF EventsApart
<1>11. ASSUME NEW i \in 1 .. Len(batch), batch[i].kind = "Event"
       PROVE  Before(batch[i], event)
  <2>1. /\ batch[i].due \in Nat /\ batch[i].due <= tick /\ batch[i].id \in Nat
        /\ batch[i].id < nextEvent
    BY <1>2, <1>11, DispatchesTyped
  <2> QED BY <1>6, <1>7, <2>1 DEF Before
<1>12. DispatchOrder'
  BY <1>1, <1>2, <1>3, <1>11 DEF DispatchOrder
<1>13. Dispatched'
  <2>1. \A i \in 1 .. Len(batch) : batch[i].kind = "Event" => batch[i].id < nextEvent'
    BY <1>1, <1>2, <1>7, DispatchesTyped
  <2> QED BY <1>2, <1>3, <2>1 DEF Dispatched
<1> QED BY <1>5, <1>8, <1>9, <1>10, <1>12, <1>13 DEF IInv

LEMMA CancelEventKeeps ==
  ASSUME IInv, NEW event \in events, CancelEvent(event)
  PROVE  IInv'
<1>1. /\ phase = "Idle" /\ events' = events \ {event}
      /\ UNCHANGED <<tick, schedulerVars, callVars, sequenceVars, counterVars, nextEvent,
                     subscriptions, nextSubscription, drainVars, expired>>
  BY DEF CancelEvent
<1>2. /\ TypeOK /\ Known /\ LastFirings /\ Dispatched /\ EventsApart /\ DispatchOrder
      /\ batch \in Batches
  BY DEF IInv, Typed
<1>3. /\ tick' = tick /\ tasks' = tasks /\ queue' = queue /\ calls' = calls
      /\ timerToPayload' = timerToPayload /\ sequences' = sequences
      /\ timerToSequence' = timerToSequence /\ nextTimer' = nextTimer
      /\ nextPayload' = nextPayload /\ nextSequence' = nextSequence
      /\ subscriptions' = subscriptions /\ nextSubscription' = nextSubscription
      /\ phase' = phase /\ budget' = budget /\ fired' = fired /\ batch' = batch
      /\ expired' = expired /\ nextEvent' = nextEvent
  BY <1>1 DEF schedulerVars, callVars, sequenceVars, counterVars, drainVars
<1>4. fired = <<>>
  BY <1>1, <1>2 DEF LastFirings
<1>5. Numbered' /\ LastFirings' /\ Owned' /\ Interleaved' /\ QueueExact'
  BY <1>1, <1>3, <1>4, BooksKept DEF schedulerVars, callVars, sequenceVars
<1>6. \A e \in events' : e \in events
  BY <1>1
<1>7. Typed'
  BY <1>2, <1>3, <1>6 DEF Typed, TypeOK, IsMap
<1>8. Known' /\ Dispatched' /\ DispatchOrder'
  BY <1>2, <1>3, <1>6 DEF Known, Dispatched, DispatchOrder
<1>9. EventsApart'
  <2>1. IsFiniteSet(events')
    BY <1>2, <1>6, FS_Subset DEF EventsApart
  <2> QED BY <1>2, <1>6, <2>1 DEF EventsApart
<1> QED BY <1>5, <1>7, <1>8, <1>9 DEF IInv

\* A change of the subscriptions between two steps.
LEMMA Resubscribed ==
  ASSUME IInv, phase = "Idle", IsMap(subscriptions, Subscriptions, Int)',
         nextSubscription' \in 1 .. MaxSubscriptions + 1,
         DOMAIN subscriptions' \subseteq 1 .. nextSubscription' - 1,
         UNCHANGED <<tick, schedulerVars, callVars, sequenceVars, counterVars, events,
                     nextEvent, drainVars, expired>>
  PROVE  IInv'
<1>2. /\ TypeOK /\ Known /\ LastFirings /\ Dispatched /\ EventsApart /\ DispatchOrder
      /\ batch \in Batches
  BY DEF IInv, Typed
<1>3. /\ tick' = tick /\ tasks' = tasks /\ queue' = queue /\ calls' = calls
      /\ timerToPayload' = timerToPayload /\ sequences' = sequences
      /\ timerToSequence' = timerToSequence /\ nextTimer' = nextTimer
      /\ nextPayload' = nextPayload /\ nextSequence' = nextSequence
      /\ phase' = phase /\ budget' = budget /\ fired' = fired /\ batch' = batch
      /\ expired' = expired /\ events' = events /\ nextEvent' = nextEvent
  BY DEF schedulerVars, callVars, sequenceVars, counterVars, drainVars
<1>4. fired = <<>>
  BY <1>2 DEF LastFirings
<1>5. Numbered' /\ LastFirings' /\ Owned' /\ Interleaved' /\ QueueExact'
  BY <1>3, <1>4, BooksKept DEF schedulerVars, callVars, sequenceVars
<1>6. Typed'
  BY <1>2, <1>3 DEF Typed, TypeOK, IsMap
<1>7. Known' /\ Dispatched' /\ DispatchOrder' /\ EventsApart'
  BY <1>2, <1>3 DEF Known, Dispatched, DispatchOrder, EventsApart
<1> QED BY <1>5, <1>6, <1>7 DEF IInv

LEMMA SubscribeKeeps ==
  ASSUME IInv, NEW priority \in Priorities, Subscribe(priority)
  PROVE  IInv'
<1>1. /\ phase = "Idle" /\ nextSubscription \in Subscriptions
      /\ subscriptions' = Put(subscriptions, nextSubscription, priority)
      /\ nextSubscription' = nextSubscription + 1
      /\ UNCHANGED <<tick, schedulerVars, callVars, sequenceVars, counterVars, events,
                     nextEvent, drainVars, expired>>
  BY DEF Subscribe
<1>2. /\ IsMap(subscriptions, Subscriptions, Int)
      /\ DOMAIN subscriptions \subseteq 1 .. nextSubscription - 1
  BY DEF IInv, Typed, TypeOK, Known
<1>3. priority \in Int /\ nextSubscription \in Nat \ {0} /\ MaxSubscriptions \in Nat
  BY <1>1, HostAssumption, Numbers
<1>4. /\ DOMAIN subscriptions' = DOMAIN subscriptions \cup {nextSubscription}
      /\ \A s \in DOMAIN subscriptions' : subscriptions'[s] \in Int
      /\ subscriptions' = [s \in DOMAIN subscriptions' |-> subscriptions'[s]]
  BY <1>1, <1>2, <1>3 DEF Put, IsMap
<1>5. IsMap(subscriptions, Subscriptions, Int)'
  BY <1>1, <1>2, <1>4 DEF IsMap
<1>6. /\ nextSubscription' \in 1 .. MaxSubscriptions + 1
      /\ DOMAIN subscriptions' \subseteq 1 .. nextSubscription' - 1
  BY <1>1, <1>2, <1>3, <1>4 DEF Subscriptions
<1> QED BY <1>1, <1>5, <1>6, Resubscribed

LEMMA UnsubscribeKeeps ==
  ASSUME IInv, NEW id \in DOMAIN subscriptions, Unsubscribe(id)
  PROVE  IInv'
<1>1. /\ phase = "Idle" /\ subscriptions' = Drop(subscriptions, {id})
      /\ nextSubscription' = nextSubscription
      /\ UNCHANGED <<tick, schedulerVars, callVars, sequenceVars, counterVars, events,
                     nextEvent, drainVars, expired>>
  BY DEF Unsubscribe
<1>2. /\ IsMap(subscriptions, Subscriptions, Int)
      /\ DOMAIN subscriptions \subseteq 1 .. nextSubscription - 1
      /\ nextSubscription \in 1 .. MaxSubscriptions + 1
  BY DEF IInv, Typed, TypeOK, Known
<1> DEFINE kept == Drop(subscriptions, {id})
<1>3. IsMap(kept, Subscriptions, Int) /\ DOMAIN kept = DOMAIN subscriptions \ {id}
  BY <1>2, DroppedKeys
<1>4. subscriptions' = kept
  BY <1>1
<1> HIDE DEF kept
<1>5. IsMap(subscriptions, Subscriptions, Int)'
  BY <1>3, <1>4 DEF IsMap
<1>6. /\ nextSubscription' \in 1 .. MaxSubscriptions + 1
      /\ DOMAIN subscriptions' \subseteq 1 .. nextSubscription' - 1
  BY <1>1, <1>2, <1>3, <1>4
<1> QED BY <1>1, <1>5, <1>6, Resubscribed


-----------------------------------------------------------------------------
(* Snapshots and the ends of the phases. *)

LEMMA Stutters ==
  ASSUME IInv, UNCHANGED vars
  PROVE  IInv'
<1>1. /\ tick' = tick /\ tasks' = tasks /\ queue' = queue /\ calls' = calls
      /\ timerToPayload' = timerToPayload /\ sequences' = sequences
      /\ timerToSequence' = timerToSequence /\ nextTimer' = nextTimer
      /\ nextPayload' = nextPayload /\ nextSequence' = nextSequence
      /\ phase' = phase /\ budget' = budget /\ fired' = fired /\ batch' = batch
      /\ expired' = expired /\ events' = events /\ nextEvent' = nextEvent
      /\ subscriptions' = subscriptions /\ nextSubscription' = nextSubscription
  BY DEF vars, schedulerVars, callVars, sequenceVars, counterVars, eventVars, drainVars
<1>2. /\ TypeOK /\ Known /\ LastFirings /\ Dispatched /\ EventsApart /\ DispatchOrder
      /\ batch \in Batches
  BY DEF IInv, Typed
<1>3. Numbered' /\ LastFirings' /\ Owned' /\ Interleaved' /\ QueueExact'
  <2>1. phase' \in {"Idle", "Events"} => fired = <<>>
    BY <1>1, <1>2 DEF LastFirings
  <2> QED BY <1>1, <2>1, BooksKept DEF schedulerVars, callVars, sequenceVars
<1>4. Typed'
  BY <1>1, <1>2 DEF Typed, TypeOK, IsMap
<1>5. Known' /\ Dispatched' /\ DispatchOrder' /\ EventsApart'
  BY <1>1, <1>2 DEF Known, Dispatched, DispatchOrder, EventsApart
<1> QED BY <1>3, <1>4, <1>5 DEF IInv

\* What a snapshot leaves out is rebuilt as it was.
LEMMA RestoreKeeps ==
  ASSUME IInv, Restore
  PROVE  IInv'
<1>1. TypeOK /\ Numbered /\ Owned /\ QueueExact
  BY DEF IInv, Typed
<1>2. queue' = queue
  BY <1>1 DEF Restore, QueueExact
<1>3. timerToPayload' = timerToPayload
  <2>1. /\ DOMAIN calls = DOMAIN timerToPayload
        /\ \A t \in DOMAIN timerToPayload : timerToPayload[t] = t /\ calls[t] = t
        /\ timerToPayload = [t \in DOMAIN timerToPayload |-> timerToPayload[t]]
    BY <1>1 DEF Numbered, TypeOK, IsMap
  <2>2. {calls[p] : p \in DOMAIN calls} = DOMAIN timerToPayload
    BY <2>1
  <2>3. ASSUME NEW t \in DOMAIN timerToPayload
        PROVE  (CHOOSE p \in DOMAIN calls : calls[p] = t) = timerToPayload[t]
    <3>1. t \in DOMAIN calls /\ calls[t] = t
      BY <2>1
    <3>2. \A p \in DOMAIN calls : calls[p] = t => p = t
      BY <2>1
    <3> QED BY <2>1, <3>1, <3>2
  <2>4. timerToPayload' = [t \in DOMAIN timerToPayload |->
                            CHOOSE p \in DOMAIN calls : calls[p] = t]
    BY <2>2 DEF Restore
  <2> QED BY <2>1, <2>3, <2>4
<1>4. timerToSequence' = timerToSequence
  <2>1. /\ timerToSequence = [t \in DOMAIN timerToSequence |-> timerToSequence[t]]
        /\ \A t \in DOMAIN timerToSequence : timerToSequence[t] \in DOMAIN sequences
        /\ \A s \in DOMAIN sequences :
             OwnedTimers(s) = {t \in DOMAIN timerToSequence : timerToSequence[t] = s}
    BY <1>1 DEF TypeOK, IsMap, Owned, OwnedTimers
  <2>2. UNION {OwnedTimers(s) : s \in DOMAIN sequences} = DOMAIN timerToSequence
    BY <2>1
  <2>3. ASSUME NEW t \in DOMAIN timerToSequence
        PROVE  (CHOOSE s \in DOMAIN sequences : t \in OwnedTimers(s)) = timerToSequence[t]
    <3>1. /\ timerToSequence[t] \in DOMAIN sequences /\ t \in OwnedTimers(timerToSequence[t])
          /\ \A s \in DOMAIN sequences : t \in OwnedTimers(s) => s = timerToSequence[t]
      BY <2>1
    <3> QED BY <3>1
  <2>4. timerToSequence' = [t \in DOMAIN timerToSequence |->
                             CHOOSE s \in DOMAIN sequences : t \in OwnedTimers(s)]
    BY <2>2 DEF Restore
  <2> QED BY <2>1, <2>3, <2>4
<1>5. UNCHANGED <<tick, tasks, calls, sequences, counterVars, eventVars, drainVars, expired>>
  BY DEF Restore
<1>6. UNCHANGED vars
  BY <1>2, <1>3, <1>4, <1>5 DEF vars, schedulerVars, callVars, sequenceVars
<1> QED BY <1>6, Stutters

Firings == [due : Ticks, id : Timers, repeats : BOOLEAN]

LEMMA FiringsTyped ==
  ASSUME TypeOK, NEW j \in 1 .. Len(fired)
  PROVE  /\ fired[j] \in Firings /\ fired[j].due \in Ticks /\ fired[j].due \in Nat
         /\ fired[j].id \in Timers /\ fired[j].repeats \in BOOLEAN
<1>1. fired \in Seq(Firings)
  BY DEF TypeOK, Firings
<1>2. fired[j] \in Firings
  BY <1>1, ElementOfSeq
<1> QED BY <1>2, Numbers DEF Firings

\* A phase ends with nothing pending that it was to take.
LEMMA PhaseEnds ==
  ASSUME IInv, UNCHANGED <<schedulerVars, callVars, sequenceVars, counterVars, eventVars,
                           fired, expired>>,
         tick' \in Ticks, tick <= tick', budget' \in [timers : Nat, events : Nat],
         phase' \in {"Idle", "Timers", "Calls", "Events"},
         batch' = batch \/ batch' = <<>>,
         phase' \in {"Idle", "Events"} => fired = <<>>,
         phase' = "Timers" => batch' = <<>>,
         phase' = "Calls" => batch' = <<>>
  PROVE  IInv'
<1>1. /\ tasks' = tasks /\ queue' = queue /\ calls' = calls
      /\ timerToPayload' = timerToPayload /\ sequences' = sequences
      /\ timerToSequence' = timerToSequence /\ nextTimer' = nextTimer
      /\ nextPayload' = nextPayload /\ nextSequence' = nextSequence
      /\ fired' = fired /\ expired' = expired /\ events' = events /\ nextEvent' = nextEvent
      /\ subscriptions' = subscriptions /\ nextSubscription' = nextSubscription
  BY DEF schedulerVars, callVars, sequenceVars, counterVars, eventVars
<1>2. /\ TypeOK /\ Known /\ LastFirings /\ Dispatched /\ EventsApart /\ DispatchOrder
      /\ batch \in Batches /\ tick \in Nat /\ tick' \in Nat
  BY Numbers DEF IInv, Typed, TypeOK
<1>3. Numbered' /\ LastFirings' /\ Owned' /\ Interleaved' /\ QueueExact'
  BY <1>1, <1>2, BooksKept
<1>4. batch' \in Batches
  <2>1. <<>> \in Batches
    BY EmptySeq DEF Batches
  <2> QED BY <1>2, <2>1
<1>5. Typed'
  BY <1>1, <1>2, <1>4 DEF Typed, TypeOK, IsMap
<1>6. Known' /\ EventsApart'
  BY <1>1, <1>2 DEF Known, EventsApart
<1>7. DispatchOrder'
  <2>1. CASE batch' = batch
    BY <1>1, <1>2, <2>1 DEF DispatchOrder
  <2>2. CASE batch' = <<>>
    <3>1. 1 .. Len(batch') = {}
      BY <2>2
    <3> QED BY <3>1 DEF DispatchOrder
  <2> QED BY <2>1, <2>2
<1>8. Dispatched'
  <2>1. Len(<<>>) = 0
    OBVIOUS
  <2>2. \A i \in 1 .. Len(batch') :
          /\ batch' = batch
          /\ batch[i].due <= tick' /\ (batch[i].kind = "Timer" => batch[i].id < nextTimer)
          /\ (batch[i].kind = "Event" => batch[i].id < nextEvent)
    <3> SUFFICES ASSUME NEW i \in 1 .. Len(batch')
                 PROVE  /\ batch' = batch /\ batch[i].due <= tick'
                        /\ (batch[i].kind = "Timer" => batch[i].id < nextTimer)
                        /\ (batch[i].kind = "Event" => batch[i].id < nextEvent)
      OBVIOUS
    <3>1. batch' = batch
      BY <2>1
    <3>2. /\ batch[i].due \in Nat /\ batch[i].due <= tick
          /\ (batch[i].kind = "Timer" => batch[i].id < nextTimer)
          /\ (batch[i].kind = "Event" => batch[i].id < nextEvent)
      BY <1>2, <3>1, DispatchesTyped
    <3> QED BY <1>2, <3>1, <3>2
  <2>3. ASSUME NEW j \in 1 .. Len(fired)
        PROVE  /\ fired[j].due <= tick' /\ fired[j].id < nextTimer
               /\ \A i \in 1 .. j - 1 : Before(fired[i], fired[j])
               /\ \A i \in 1 .. Len(batch') : Before(batch[i], fired[j])
               /\ \A key \in queue : Before(fired[j], key)
    <3>1. fired[j].due \in Nat
      BY <1>2, FiringsTyped
    <3>2. fired[j].due <= tick /\ fired[j].id < nextTimer
          /\ (\A i \in 1 .. j - 1 : Before(fired[i], fired[j]))
          /\ (\A i \in 1 .. Len(batch) : Before(batch[i], fired[j]))
          /\ \A key \in queue : Before(fired[j], key)
      BY <1>2 DEF Dispatched
    <3>3. fired[j].due <= tick'
      BY <1>2, <3>1, <3>2
    <3>4. \A i \in 1 .. Len(batch') : i \in 1 .. Len(batch)
      BY <2>2
    <3> QED BY <3>2, <3>3, <3>4
  <2>4. phase' = "Calls" => \A i \in 1 .. Len(batch') : batch'[i].kind = "Timer"
    BY <2>1
  <2> QED BY <1>1, <2>2, <2>3, <2>4 DEF Dispatched
<1> QED BY <1>3, <1>5, <1>6, <1>7, <1>8 DEF IInv

LEMMA BeginStepKeeps ==
  ASSUME IInv, NEW timerBudget \in TimerBudgets, NEW eventBudget \in EventBudgets,
         BeginStep(timerBudget, eventBudget)
  PROVE  IInv'
<1>1. tick' \in Ticks /\ tick <= tick'
  <2>1. tick \in Ticks /\ 1 \in Nat
    BY DEF IInv, Typed, TypeOK
  <2> QED BY <2>1, AddedTicks DEF BeginStep
<1>2. budget' \in [timers : Nat, events : Nat]
  BY HostAssumption DEF BeginStep
<1>3. phase' = "Timers" /\ batch' = <<>>
      /\ UNCHANGED <<schedulerVars, callVars, sequenceVars, counterVars, eventVars, fired, expired>>
  BY DEF BeginStep
<1> QED BY <1>1, <1>2, <1>3, PhaseEnds

LEMMA EndTimersKeeps ==
  ASSUME IInv, EndTimers
  PROVE  IInv'
<1>1. /\ tick \in Ticks /\ tick <= tick /\ budget \in [timers : Nat, events : Nat]
  BY Numbers DEF IInv, Typed, TypeOK
<1>2. batch = <<>>
  BY DEF IInv, Dispatched, EndTimers
<1> QED BY <1>1, <1>2, PhaseEnds DEF EndTimers

LEMMA EndCallsKeeps ==
  ASSUME IInv, EndCalls
  PROVE  IInv'
<1>1. /\ tick \in Ticks /\ tick <= tick /\ budget \in [timers : Nat, events : Nat]
  BY Numbers DEF IInv, Typed, TypeOK
<1> QED BY <1>1, PhaseEnds DEF EndCalls

LEMMA EndStepKeeps ==
  ASSUME IInv, EndStep
  PROVE  IInv'
<1>1. /\ tick \in Ticks /\ tick <= tick /\ budget \in [timers : Nat, events : Nat]
  BY Numbers DEF IInv, Typed, TypeOK
<1>2. fired = <<>>
  BY DEF IInv, LastFirings, EndStep
<1> QED BY <1>1, <1>2, PhaseEnds DEF EndStep


-----------------------------------------------------------------------------
(* A timer fires. *)

Again(t) == Repeating(tasks[t].remaining) /\ NextDue(tasks[t]) <= MaxTick

\* Timer t is the next one and fires; its task is moved if it fires again.
Fires(t) ==
    LET n == Len(fired) IN
    /\ t \in DOMAIN tasks /\ t \in Timers /\ n \in Nat
    /\ Due(tasks[t], t) \in queue /\ tasks[t].due <= tick
    /\ \A other \in queue \ {Due(tasks[t], t)} : Before(Due(tasks[t], t), other)
    /\ fired' \in Seq(Firings) /\ Len(fired') = n + 1
    /\ \A i \in 1 .. n : fired'[i] = fired[i]
    /\ fired'[n + 1].due = tasks[t].due /\ fired'[n + 1].id = t
    /\ fired'[n + 1].repeats <=> Repeating(tasks[t].remaining)
    /\ DOMAIN tasks' = IF Again(t) THEN DOMAIN tasks ELSE DOMAIN tasks \ {t}
    /\ tasks' \in [DOMAIN tasks' -> Tasks]
    /\ \A u \in DOMAIN tasks' : u # t => tasks'[u] = tasks[u]
    /\ Again(t) =>
         /\ tasks'[t].due = tasks[t].due + tasks[t].interval
         /\ tasks'[t].interval = tasks[t].interval /\ tasks'[t].payload = tasks[t].payload
         /\ tasks'[t].remaining = IF tasks[t].remaining = RepeatForever THEN RepeatForever
                                  ELSE tasks[t].remaining - 1
    /\ \A key \in queue' :
         (key \in queue /\ key # Due(tasks[t], t)) \/ (Again(t) /\ key = Due(tasks'[t], t))
    /\ QueueExact'
    /\ expired' = IF Repeating(tasks[t].remaining) /\ ~Again(t) THEN expired \cup {t} ELSE expired

LEMMA FiredTimer ==
  ASSUME TypeOK, QueueExact, FireTimer
  PROVE  \E t \in DOMAIN tasks : Fires(t)
<1> DEFINE key == First(queue)
           t == key.id
           task == tasks[t]
           next == IF task.remaining = RepeatForever THEN RepeatForever ELSE task.remaining - 1
           moved == [due |-> NextDue(task), interval |-> task.interval, remaining |-> next,
                     payload |-> task.payload]
           entry == [due |-> task.due, id |-> t, repeats |-> Repeating(task.remaining)]
<1>1. /\ DueNow(queue)
      /\ fired' = Append(fired, entry)
      /\ tasks' = IF Again(t) THEN [tasks EXCEPT ![t] = moved] ELSE Drop(tasks, {t})
      /\ queue' = (queue \ {key}) \cup (IF Again(t) THEN {Due(moved, t)} ELSE {})
      /\ expired' = IF Repeating(task.remaining) /\ ~Again(t) THEN expired \cup {t} ELSE expired
  BY DEF FireTimer, Again
<1>2. /\ key \in queue /\ t \in DOMAIN tasks /\ key = Due(task, t) /\ key.due = task.due
      /\ \A other \in queue \ {key} : Before(key, other)
  BY <1>1, NextKey DEF DueNow
<1>3. task.due <= tick
  BY <1>1, <1>2 DEF DueNow
<1> HIDE DEF key
<1>4. /\ t \in Timers /\ task \in Tasks /\ task.due \in Nat /\ task.interval \in Nat
      /\ task.remaining \in Nat /\ task.payload \in Timers /\ tasks \in [DOMAIN tasks -> Tasks]
      /\ task.interval \in Ticks /\ task.due \in Ticks
  BY <1>2, TasksTyped
<1> HIDE DEF t
<1>5. /\ moved = [due |-> task.due + task.interval, interval |-> task.interval,
                  remaining |-> next, payload |-> task.payload]
      /\ moved.due = task.due + task.interval /\ moved.interval = task.interval
      /\ moved.payload = task.payload /\ moved.remaining = next
  <2>1. moved = [due |-> task.due + task.interval, interval |-> task.interval,
                 remaining |-> next, payload |-> task.payload]
    BY DEF NextDue
  <2> HIDE DEF moved, task, next
  <2> QED BY <2>1
<1>6. ASSUME Again(t) PROVE moved \in Tasks
  <2>1. task.due + task.interval \in Ticks
    BY <1>4, <1>6, Numbers DEF Again, NextDue, Ticks
  <2>2. next \in Nat
    <3>1. Repeating(task.remaining)
      BY <1>6 DEF Again
    <3> QED BY <1>4, <3>1 DEF Repeating, RepeatForever
  <2> HIDE DEF moved, next, task
  <2> QED BY <1>4, <1>5, <2>1, <2>2 DEF Tasks
<1> HIDE DEF moved
<1>7. entry \in Firings
  <2>1. Repeating(task.remaining) \in BOOLEAN
    BY DEF Repeating
  <2> HIDE DEF task
  <2> QED BY <1>4, <2>1 DEF Firings
<1>8. entry.due = task.due /\ entry.id = t /\ (entry.repeats <=> Repeating(task.remaining))
  OBVIOUS
<1> HIDE DEF entry
<1>9. /\ fired' \in Seq(Firings) /\ Len(fired) \in Nat /\ Len(fired') = Len(fired) + 1
      /\ \A i \in 1 .. Len(fired) : fired'[i] = fired[i]
      /\ fired'[Len(fired) + 1] = entry
  <2>1. fired \in Seq(Firings)
    BY DEF TypeOK, Firings
  <2> QED BY <1>1, <1>7, <2>1, AppendedEntry
<1>10. CASE Again(t)
  <2>1. tasks' = [tasks EXCEPT ![t] = moved] /\ queue' = (queue \ {key}) \cup {Due(moved, t)}
        /\ expired' = expired
    BY <1>1, <1>10
  <2>2. /\ DOMAIN tasks' = DOMAIN tasks /\ tasks' \in [DOMAIN tasks' -> Tasks]
        /\ \A u \in DOMAIN tasks' : u # t => tasks'[u] = tasks[u]
        /\ tasks'[t] = moved
    BY <1>2, <1>4, <1>6, <1>10, <2>1 DEF t
  <2>3. queue' = {Due(tasks'[u], u) : u \in DOMAIN tasks'}
    <3>1. queue = {Due(tasks[u], u) : u \in DOMAIN tasks}
      BY DEF QueueExact
    <3>2. \A u \in DOMAIN tasks : Due(tasks[u], u).id = u
      BY DEF Due
    <3>3. queue \ {key} = {Due(tasks[u], u) : u \in DOMAIN tasks \ {t}}
      BY <1>2, <3>1, <3>2 DEF t
    <3>4. {Due(tasks[u], u) : u \in DOMAIN tasks \ {t}}
            = {Due(tasks'[u], u) : u \in DOMAIN tasks \ {t}}
      BY <2>2
    <3>5. t \in DOMAIN tasks /\ Due(moved, t) = Due(tasks'[t], t)
      BY <1>2, <2>2 DEF t
    <3> QED BY <2>1, <2>2, <3>3, <3>4, <3>5
  <2>4. \A k \in queue' :
          (k \in queue /\ k # Due(tasks[t], t)) \/ (Again(t) /\ k = Due(tasks'[t], t))
    BY <1>2, <1>10, <2>1, <2>2 DEF t
  <2>5. QueueExact'
    BY <2>3 DEF QueueExact
  <2>6. Fires(t)
    BY <1>2, <1>3, <1>4, <1>5, <1>8, <1>9, <1>10, <2>1, <2>2, <2>4, <2>5 DEF Fires, t
  <2> QED BY <1>2, <2>6 DEF t
<1>11. CASE ~Again(t)
  <2>1. tasks' = Drop(tasks, {t}) /\ queue' = queue \ {key}
    BY <1>1, <1>11
  <2>2. /\ DOMAIN tasks' = DOMAIN tasks \ {t} /\ tasks' \in [DOMAIN tasks' -> Tasks]
        /\ \A u \in DOMAIN tasks' : tasks'[u] = tasks[u]
    BY <1>4, <2>1 DEF Drop
  <2>3. queue' = {Due(tasks'[u], u) : u \in DOMAIN tasks'}
    <3>1. queue = {Due(tasks[u], u) : u \in DOMAIN tasks}
      BY DEF QueueExact
    <3>2. \A u \in DOMAIN tasks : Due(tasks[u], u).id = u
      BY DEF Due
    <3>3. queue \ {key} = {Due(tasks[u], u) : u \in DOMAIN tasks \ {t}}
      BY <1>2, <3>1, <3>2 DEF t
    <3> QED BY <2>1, <2>2, <3>3
  <2>4. \A k \in queue' : k \in queue /\ k # Due(tasks[t], t)
    BY <1>2, <2>1 DEF t
  <2>5. QueueExact'
    BY <2>3 DEF QueueExact
  <2>6. Fires(t)
    BY <1>1, <1>2, <1>3, <1>4, <1>8, <1>9, <1>11, <2>2, <2>4, <2>5 DEF Fires, t
  <2> QED BY <1>2, <2>6 DEF t
<1> QED BY <1>10, <1>11


\* The earlier one of two steps is fired: it is ahead by one repetition.
LEMMA FirstStepMoves ==
  ASSUME NEW a \in Tasks, NEW b \in Tasks, NEW c \in Tasks, Apart(a, b), a.due <= b.due,
         a.interval > 0, a.due + a.interval <= MaxTick, Repeating(a.remaining),
         c.due = a.due + a.interval, c.interval = a.interval,
         c.remaining = IF a.remaining = RepeatForever THEN RepeatForever ELSE a.remaining - 1
  PROVE  Apart(c, b)
<1>1. /\ a.due \in Nat /\ b.due \in Nat /\ c.due \in Nat /\ a.interval \in Nat
      /\ a.remaining \in Nat /\ b.remaining \in Nat /\ MaxTick \in Nat
  BY Numbers DEF Tasks
<1>2. /\ a.interval = b.interval /\ b.due - a.due < a.interval /\ a.remaining = b.remaining
      /\ a.due = b.due => a.due = MaxTick
  BY <1>1 DEF Apart
<1>3. a.due < b.due
  BY <1>1, <1>2
<1>4. b.due < c.due /\ c.due - b.due < c.interval
  BY <1>1, <1>2, <1>3
<1>5. b.remaining = IF c.remaining = RepeatForever THEN c.remaining ELSE c.remaining + 1
  BY <1>1, <1>2 DEF Repeating, RepeatForever
<1> QED BY <1>2, <1>4, <1>5 DEF Apart

\* The later one is fired: both have been fired equally often again.
LEMMA LastStepMoves ==
  ASSUME NEW a \in Tasks, NEW b \in Tasks, NEW c \in Tasks, Apart(a, b), b.due < a.due,
         Repeating(a.remaining), c.due = b.due + b.interval, c.interval = b.interval,
         c.remaining = IF b.remaining = RepeatForever THEN RepeatForever ELSE b.remaining - 1
  PROVE  Apart(a, c)
<1>1. /\ a.due \in Nat /\ b.due \in Nat /\ c.due \in Nat /\ a.interval \in Nat
      /\ a.remaining \in Nat /\ b.remaining \in Nat
  BY Numbers DEF Tasks
<1>2. /\ a.interval = b.interval /\ a.due - b.due < a.interval
      /\ b.remaining = IF a.remaining = RepeatForever THEN a.remaining ELSE a.remaining + 1
  BY <1>1 DEF Apart
<1>3. a.due < c.due /\ c.due - a.due < a.interval
  BY <1>1, <1>2
<1>4. a.remaining = c.remaining
  BY <1>1, <1>2 DEF Repeating, RepeatForever
<1> QED BY <1>1, <1>2, <1>3, <1>4 DEF Apart

LEMMA FireInterleaved ==
  ASSUME TypeOK, Interleaved, QueueExact, NEW t \in DOMAIN tasks, Fires(t),
         timerToSequence' = timerToSequence
  PROVE  Interleaved'
<1>1. /\ t \in Timers
      /\ \A other \in queue \ {Due(tasks[t], t)} : Before(Due(tasks[t], t), other)
      /\ DOMAIN tasks' = IF Again(t) THEN DOMAIN tasks ELSE DOMAIN tasks \ {t}
      /\ tasks' \in [DOMAIN tasks' -> Tasks]
      /\ \A u \in DOMAIN tasks' : u # t => tasks'[u] = tasks[u]
      /\ Again(t) =>
           /\ tasks'[t].due = tasks[t].due + tasks[t].interval
           /\ tasks'[t].interval = tasks[t].interval
           /\ tasks'[t].remaining = IF tasks[t].remaining = RepeatForever THEN RepeatForever
                                    ELSE tasks[t].remaining - 1
  BY DEF Fires
<1>2. \A u \in DOMAIN tasks' : u \in DOMAIN tasks /\ (u = t => Again(t))
  BY <1>1
<1>3. \A u \in DOMAIN tasks : Repeating(tasks[u].remaining) => tasks[u].interval > 0
  BY DEF Interleaved
<1>4. ASSUME Again(t)
      PROVE  /\ Repeating(tasks[t].remaining) /\ tasks[t].interval > 0
             /\ tasks[t].due + tasks[t].interval <= MaxTick
  BY <1>3, <1>4 DEF Again, NextDue
<1>5. ASSUME NEW u \in DOMAIN tasks', Repeating(tasks'[u].remaining)
      PROVE  tasks'[u].interval > 0
  <2>1. CASE u = t
    BY <1>1, <1>2, <1>4, <2>1
  <2>2. CASE u # t
    BY <1>1, <1>2, <1>3, <1>5, <2>2
  <2> QED BY <2>1, <2>2
<1>6. ASSUME NEW u \in DOMAIN tasks, u # t
      PROVE  tasks[t].due < tasks[u].due \/ (tasks[t].due = tasks[u].due /\ t < u)
  <2>1. Due(tasks[u], u) \in queue \ {Due(tasks[t], t)}
    BY <1>6 DEF QueueExact, Due
  <2>2. Before(Due(tasks[t], t), Due(tasks[u], u))
    BY <1>1, <2>1
  <2> QED BY <2>2 DEF Before, Due
<1>7. ASSUME NEW u \in DOMAIN tasks' \cap DOMAIN timerToSequence,
             NEW v \in DOMAIN tasks' \cap DOMAIN timerToSequence,
             u < v, timerToSequence[u] = timerToSequence[v], Repeating(tasks'[u].remaining)
      PROVE  Apart(tasks'[u], tasks'[v])
  <2>1. /\ u \in DOMAIN tasks /\ v \in DOMAIN tasks /\ u \in Nat /\ v \in Nat /\ u # v
        /\ tasks[u] \in Tasks /\ tasks[v] \in Tasks /\ tasks'[u] \in Tasks /\ tasks'[v] \in Tasks
        /\ tasks[u].due \in Nat /\ tasks[v].due \in Nat
    <3>1. u \in DOMAIN tasks /\ v \in DOMAIN tasks
      BY <1>2
    <3>2. /\ u \in Nat /\ v \in Nat /\ tasks[u] \in Tasks /\ tasks[v] \in Tasks
          /\ tasks[u].due \in Nat /\ tasks[v].due \in Nat
      BY <3>1, TasksTyped
    <3>3. tasks'[u] \in Tasks /\ tasks'[v] \in Tasks
      BY <1>1
    <3>4. u # v
      BY <1>7, <3>2
    <3> QED BY <3>1, <3>2, <3>3, <3>4
  <2>2. Repeating(tasks[u].remaining) => Apart(tasks[u], tasks[v])
    BY <1>7, <2>1 DEF Interleaved
  <2>3. CASE u = t
    <3>1. /\ Again(t) /\ Repeating(tasks[u].remaining) /\ tasks[u].interval > 0
          /\ tasks[u].due + tasks[u].interval <= MaxTick
      BY <1>2, <1>4, <2>3
    <3>2. tasks[u].due <= tasks[v].due
      BY <1>6, <2>1, <2>3
    <3>3. tasks'[v] = tasks[v]
      BY <1>1, <2>1, <2>3
    <3>4. /\ tasks'[u].due = tasks[u].due + tasks[u].interval
          /\ tasks'[u].interval = tasks[u].interval
          /\ tasks'[u].remaining = IF tasks[u].remaining = RepeatForever THEN RepeatForever
                                   ELSE tasks[u].remaining - 1
      BY <1>1, <2>3, <3>1
    <3>5. Apart(tasks'[u], tasks[v])
      BY <2>1, <2>2, <3>1, <3>2, <3>4, FirstStepMoves
    <3> QED BY <3>3, <3>5
  <2>4. CASE v = t
    <3>1. Again(t) /\ tasks'[u] = tasks[u]
      BY <1>1, <1>2, <2>1, <2>4
    <3>2. tasks[v].due < tasks[u].due
      BY <1>6, <1>7, <2>1, <2>4
    <3>3. /\ tasks'[v].due = tasks[v].due + tasks[v].interval
          /\ tasks'[v].interval = tasks[v].interval
          /\ tasks'[v].remaining = IF tasks[v].remaining = RepeatForever THEN RepeatForever
                                   ELSE tasks[v].remaining - 1
      BY <1>1, <2>4, <3>1
    <3>4. Repeating(tasks[u].remaining) /\ Apart(tasks[u], tasks[v])
      BY <1>7, <2>2, <3>1
    <3>5. Apart(tasks[u], tasks'[v])
      BY <2>1, <3>2, <3>3, <3>4, LastStepMoves
    <3> QED BY <3>1, <3>5
  <2>5. CASE u # t /\ v # t
    BY <1>1, <1>7, <2>2, <2>5
  <2> QED BY <2>3, <2>4, <2>5
<1> QED BY <1>5, <1>7 DEF Interleaved


\* The firings of a step, with one more.
LEMMA FireFinishing ==
  ASSUME NEW t, Fires(t)
  PROVE  Finishing' = IF Repeating(tasks[t].remaining) THEN Finishing ELSE Finishing \cup {t}
<1> DEFINE n == Len(fired)
<1>1. /\ n \in Nat /\ Len(fired') = n + 1 /\ \A i \in 1 .. n : fired'[i] = fired[i]
      /\ fired'[n + 1].id = t /\ (fired'[n + 1].repeats <=> Repeating(tasks[t].remaining))
  BY DEF Fires
<1> HIDE DEF n
<1>2. \A i \in 1 .. n + 1 : i \in 1 .. n \/ i = n + 1
  BY <1>1
<1>3. n + 1 \in 1 .. n + 1 /\ \A i \in 1 .. n : i \in 1 .. n + 1
  BY <1>1
<1>4. Finishing = {fired[i].id : i \in {j \in 1 .. n : ~fired[j].repeats}}
  BY DEF Finishing, n
<1>5. Finishing' = {fired'[i].id : i \in {j \in 1 .. n + 1 : ~fired'[j].repeats}}
  BY <1>1 DEF Finishing
<1>6. CASE Repeating(tasks[t].remaining)
  <2>1. {j \in 1 .. n + 1 : ~fired'[j].repeats} = {j \in 1 .. n : ~fired[j].repeats}
    BY <1>1, <1>2, <1>3, <1>6
  <2>2. \A i \in {j \in 1 .. n : ~fired[j].repeats} : fired'[i].id = fired[i].id
    BY <1>1
  <2> QED BY <1>4, <1>5, <1>6, <2>1, <2>2
<1>7. CASE ~Repeating(tasks[t].remaining)
  <2>1. {j \in 1 .. n + 1 : ~fired'[j].repeats} = {j \in 1 .. n : ~fired[j].repeats} \cup {n + 1}
    BY <1>1, <1>2, <1>3, <1>7
  <2>2. \A i \in {j \in 1 .. n : ~fired[j].repeats} : fired'[i].id = fired[i].id
    BY <1>1
  <2> QED BY <1>1, <1>4, <1>5, <1>7, <2>1, <2>2
<1> QED BY <1>6, <1>7

LEMMA FireLast ==
  ASSUME LastFirings, NEW t, Fires(t), phase = "Timers", phase' = phase,
         timerToPayload' = timerToPayload
  PROVE  LastFirings'
<1> DEFINE n == Len(fired)
<1>1. /\ n \in Nat /\ Len(fired') = n + 1 /\ \A i \in 1 .. n : fired'[i] = fired[i]
      /\ fired'[n + 1].id = t
      /\ t \in DOMAIN tasks
      /\ DOMAIN tasks' = IF Again(t) THEN DOMAIN tasks ELSE DOMAIN tasks \ {t}
      /\ expired' = IF Repeating(tasks[t].remaining) /\ ~Again(t) THEN expired \cup {t} ELSE expired
  BY DEF Fires
<1>2. Finishing' = IF Repeating(tasks[t].remaining) THEN Finishing ELSE Finishing \cup {t}
  BY FireFinishing
<1>3. Again(t) => Repeating(tasks[t].remaining)
  BY DEF Again
<1>4. /\ DOMAIN timerToPayload = DOMAIN tasks \cup Finishing \cup expired
      /\ DOMAIN tasks \cap (Finishing \cup expired) = {} /\ Finishing \cap expired = {}
      /\ \A i, j \in 1 .. n : fired[i].id = fired[j].id /\ ~fired[i].repeats => j <= i
  BY DEF LastFirings
<1>5. /\ DOMAIN timerToPayload' = DOMAIN tasks' \cup Finishing' \cup expired'
      /\ DOMAIN tasks' \cap (Finishing' \cup expired') = {} /\ Finishing' \cap expired' = {}
  <2>1. CASE Again(t)
    BY <1>1, <1>2, <1>3, <1>4, <2>1
  <2>2. CASE ~Again(t) /\ Repeating(tasks[t].remaining)
    BY <1>1, <1>2, <1>4, <2>2
  <2>3. CASE ~Repeating(tasks[t].remaining)
    BY <1>1, <1>2, <1>3, <1>4, <2>3
  <2> QED BY <2>1, <2>2, <2>3
<1>6. \A i \in 1 .. n : ~fired[i].repeats => fired[i].id # t
  <2> SUFFICES ASSUME NEW i \in 1 .. n, ~fired[i].repeats PROVE fired[i].id # t
    OBVIOUS
  <2>1. fired[i].id \in Finishing
    BY DEF Finishing
  <2> QED BY <1>1, <1>4, <2>1
<1> HIDE DEF n
<1>7. ASSUME NEW i \in 1 .. n + 1, NEW j \in 1 .. n + 1,
             fired'[i].id = fired'[j].id, ~fired'[i].repeats
      PROVE  j <= i
  <2>1. CASE i = n + 1
    BY <1>1, <2>1
  <2>2. CASE i # n + 1
    <3>1. i \in 1 .. n /\ fired'[i] = fired[i]
      BY <1>1, <2>2
    <3>2. j # n + 1
      BY <1>1, <1>6, <1>7, <3>1
    <3>3. j \in 1 .. n /\ fired'[j] = fired[j]
      BY <1>1, <3>2
    <3> QED BY <1>4, <1>7, <3>1, <3>3
  <2> QED BY <2>1, <2>2
<1>8. \A i, j \in 1 .. Len(fired') : fired'[i].id = fired'[j].id /\ ~fired'[i].repeats => j <= i
  BY <1>1, <1>7
<1> QED BY <1>5, <1>8 DEF LastFirings

LEMMA BeforeChains ==
  ASSUME NEW a, NEW b, NEW c, a.due \in Int, b.due \in Int, c.due \in Int,
         a.id \in Int, b.id \in Int, c.id \in Int, Before(a, b), Before(b, c)
  PROVE  Before(a, c)
BY DEF Before

\* What is fired comes before what is queued, a repetition of it included.
LEMMA FireDispatched ==
  ASSUME TypeOK, Known, LastFirings, Interleaved, Dispatched, NEW t, Fires(t),
         phase = "Timers", phase' = phase,
         UNCHANGED <<tick, nextTimer, nextEvent, batch>>
  PROVE  Dispatched' /\ batch = <<>>
<1> DEFINE n == Len(fired)
           key == Due(tasks[t], t)
           last == fired'[n + 1]
<1>1. /\ n \in Nat /\ Len(fired') = n + 1 /\ \A i \in 1 .. n : fired'[i] = fired[i]
      /\ last.due = tasks[t].due /\ last.id = t
      /\ t \in DOMAIN tasks /\ t \in Timers /\ key \in queue /\ tasks[t].due <= tick
      /\ \A other \in queue \ {key} : Before(key, other)
      /\ \A k \in queue' : (k \in queue /\ k # key) \/ (Again(t) /\ k = Due(tasks'[t], t))
      /\ Again(t) => tasks'[t].due = tasks[t].due + tasks[t].interval
  BY DEF Fires
<1>2. batch = <<>>
  BY DEF Dispatched
<1>3. \A j \in 1 .. n :
        /\ fired[j].due <= tick /\ fired[j].id < nextTimer
        /\ \A i \in 1 .. j - 1 : Before(fired[i], fired[j])
        /\ \A k \in queue : Before(fired[j], k)
  BY DEF Dispatched
<1>4. key.due = tasks[t].due /\ key.id = t /\ key.due \in Nat /\ key.id \in Nat
      /\ tasks[t].interval \in Nat
  BY <1>1, TasksTyped DEF Due
<1>5. t < nextTimer
  <2>1. t \in DOMAIN timerToPayload
    BY <1>1 DEF LastFirings
  <2>2. t \in 1 .. nextTimer - 1 /\ nextTimer \in Int
    BY <2>1 DEF Known, TypeOK
  <2> QED BY <2>2
<1>6. \A i \in 1 .. n : fired[i].due \in Nat /\ fired[i].id \in Nat
  BY FiringsTyped, Numbers
<1>7. ASSUME NEW k \in queue'
      PROVE  Before(key, k) /\ k.due \in Nat /\ k.id \in Nat
  <2>1. CASE k \in queue /\ k # key
    <3>1. k.due \in Ticks /\ k.id \in Timers
      BY <2>1 DEF TypeOK, Keys
    <3> QED BY <1>1, <2>1, <3>1, Numbers
  <2>2. CASE Again(t) /\ k = Due(tasks'[t], t)
    <3>1. k.due = tasks[t].due + tasks[t].interval /\ k.id = t
      BY <1>1, <2>2 DEF Due
    <3>2. tasks[t].interval > 0
      BY <1>1, <2>2 DEF Interleaved, Again
    <3> HIDE DEF key
    <3>3. key.due < k.due /\ k.due \in Nat
      BY <1>4, <3>1, <3>2
    <3> QED BY <1>4, <3>1, <3>3 DEF Before
  <2> QED BY <1>1, <1>7, <2>1, <2>2
<1> HIDE DEF n, key, last
<1>8. ASSUME NEW j \in 1 .. n + 1
      PROVE  /\ fired'[j].due <= tick /\ fired'[j].id < nextTimer
             /\ \A i \in 1 .. j - 1 : Before(fired'[i], fired'[j])
             /\ \A k \in queue' : Before(fired'[j], k)
  <2>1. CASE j \in 1 .. n
    <3>1. fired'[j] = fired[j]
      BY <1>1, <2>1
    <3>2. \A i \in 1 .. j - 1 : i \in 1 .. n
      BY <1>1, <2>1
    <3>3. \A i \in 1 .. j - 1 : fired'[i] = fired[i] /\ Before(fired[i], fired[j])
      BY <1>1, <1>3, <2>1, <3>2
    <3>4. Before(fired[j], key)
      BY <1>1, <1>3, <2>1
    <3>5. \A k \in queue' : Before(fired[j], k)
      BY <1>4, <1>6, <1>7, <2>1, <3>4, BeforeChains
    <3> QED BY <1>3, <2>1, <3>1, <3>3, <3>5
  <2>2. CASE j = n + 1
    <3>1. fired'[j] = last /\ \A i \in 1 .. j - 1 : i \in 1 .. n
      BY <1>1, <2>2 DEF last
    <3>2. last.due = key.due /\ last.id = key.id
      BY <1>1, <1>4
    <3>3. \A i \in 1 .. j - 1 : Before(fired'[i], last)
      <4>1. \A i \in 1 .. n : Before(fired[i], key)
        BY <1>1, <1>3
      <4>2. \A i \in 1 .. n : Before(fired[i], last)
        BY <3>2, <4>1 DEF Before
      <4> QED BY <1>1, <3>1, <4>2
    <3>4. \A k \in queue' : Before(last, k)
      BY <1>7, <3>2 DEF Before
    <3> QED BY <1>1, <1>5, <3>1, <3>3, <3>4
  <2> QED BY <1>1, <2>1, <2>2
<1>9. Dispatched'
  <2>1. 1 .. Len(batch) = {}
    BY <1>2
  <2>2. \A j \in 1 .. Len(fired') :
          /\ fired'[j].due <= tick' /\ fired'[j].id < nextTimer'
          /\ \A i \in 1 .. j - 1 : Before(fired'[i], fired'[j])
          /\ \A k \in queue' : Before(fired'[j], k)
    BY <1>1, <1>8
  <2> QED BY <1>2, <2>1, <2>2 DEF Dispatched
<1> QED BY <1>2, <1>9

LEMMA FireTimerKeeps ==
  ASSUME IInv, FireTimer
  PROVE  IInv'
<1>1. /\ TypeOK /\ Known /\ Numbered /\ LastFirings /\ Owned /\ Interleaved /\ Dispatched
      /\ EventsApart /\ QueueExact /\ batch \in Batches
  BY DEF IInv, Typed
<1>2. PICK t \in DOMAIN tasks : Fires(t)
  BY <1>1, FiredTimer
<1>3. /\ phase = "Timers" /\ phase' = phase /\ budget.timers > 0
      /\ budget' = [budget EXCEPT !.timers = @ - 1]
      /\ tick' = tick /\ calls' = calls /\ timerToPayload' = timerToPayload
      /\ sequences' = sequences /\ timerToSequence' = timerToSequence
      /\ nextTimer' = nextTimer /\ nextPayload' = nextPayload /\ nextSequence' = nextSequence
      /\ batch' = batch /\ events' = events /\ nextEvent' = nextEvent
      /\ subscriptions' = subscriptions /\ nextSubscription' = nextSubscription
  BY DEF FireTimer, callVars, sequenceVars, counterVars, eventVars
<1>4. /\ t \in Timers /\ fired' \in Seq(Firings) /\ tasks' \in [DOMAIN tasks' -> Tasks]
      /\ DOMAIN tasks' \subseteq DOMAIN tasks /\ QueueExact'
      /\ \A u \in DOMAIN tasks' : tasks'[u].payload = tasks[u].payload
      /\ expired' \subseteq expired \cup {t}
  <2>1. /\ t \in Timers /\ fired' \in Seq(Firings) /\ tasks' \in [DOMAIN tasks' -> Tasks]
        /\ QueueExact'
        /\ DOMAIN tasks' = IF Again(t) THEN DOMAIN tasks ELSE DOMAIN tasks \ {t}
        /\ \A u \in DOMAIN tasks' : u # t => tasks'[u] = tasks[u]
        /\ Again(t) => tasks'[t].payload = tasks[t].payload
        /\ expired' = IF Repeating(tasks[t].remaining) /\ ~Again(t) THEN expired \cup {t} ELSE expired
    BY <1>2 DEF Fires
  <2>2. \A u \in DOMAIN tasks' : tasks'[u].payload = tasks[u].payload
    BY <2>1
  <2> QED BY <2>1, <2>2
<1>5. Typed'
  <2>1. DOMAIN tasks' \subseteq Timers
    BY <1>1, <1>4, TasksTyped
  <2>2. queue' \subseteq Keys
    <3>1. {Due(tasks'[u], u) : u \in DOMAIN tasks'} \subseteq Keys
      BY <1>4, <2>1, KeysTyped
    <3> QED BY <1>4, <3>1 DEF QueueExact
  <2>3. budget' \in [timers : Nat, events : Nat]
    <3>1. budget \in [timers : Nat, events : Nat]
      BY <1>1 DEF TypeOK
    <3> QED BY <1>3, <3>1
  <2>4. expired' \subseteq Timers
    BY <1>1, <1>4 DEF TypeOK
  <2>5. IsMap(tasks, Timers, Tasks)'
    BY <1>4, <2>1 DEF IsMap
  <2>6. fired' \in Seq([due : Ticks, id : Timers, repeats : BOOLEAN])
    BY <1>4 DEF Firings
  <2> QED BY <1>1, <1>3, <2>2, <2>3, <2>4, <2>5, <2>6 DEF Typed, TypeOK, Tasks, IsMap
<1>6. Known' /\ Owned' /\ EventsApart'
  BY <1>1, <1>3 DEF Known, Owned, EventsApart
<1>7. Numbered'
  BY <1>1, <1>3, <1>4 DEF Numbered
<1>8. LastFirings'
  BY <1>1, <1>2, <1>3, FireLast
<1>9. Interleaved'
  BY <1>1, <1>2, <1>3, FireInterleaved
<1>10. Dispatched' /\ batch = <<>>
  BY <1>1, <1>2, <1>3, FireDispatched
<1>11. DispatchOrder'
  <2>1. 1 .. Len(batch') = {}
    BY <1>3, <1>10
  <2> QED BY <2>1 DEF DispatchOrder
<1> QED BY <1>4, <1>5, <1>6, <1>7, <1>8, <1>9, <1>10, <1>11 DEF IInv


-----------------------------------------------------------------------------
(* A fired timer is looked up. *)

LEMMA TailOfFired ==
  ASSUME TypeOK, fired # <<>>, fired' = Tail(fired)
  PROVE  /\ Len(fired) \in Nat \ {0} /\ fired' \in Seq(Firings) /\ Len(fired') = Len(fired) - 1
         /\ 1 \in 1 .. Len(fired)
         /\ \A i \in 1 .. Len(fired') : fired'[i] = fired[i + 1] /\ i + 1 \in 2 .. Len(fired)
         /\ \A i \in 2 .. Len(fired) : i - 1 \in 1 .. Len(fired') /\ fired'[i - 1] = fired[i]
<1> DEFINE n == Len(fired)
<1>1. fired \in Seq(Firings)
  BY DEF TypeOK, Firings
<1>2. n \in Nat \ {0}
  BY <1>1, EmptySeq
<1>3. /\ Tail(fired) \in Seq(Firings) /\ Len(Tail(fired)) = n - 1
      /\ \A i \in 1 .. n - 1 : Tail(fired)[i] = fired[i + 1]
  BY <1>1, HeadTailProperties
<1> HIDE DEF n
<1>4. \A i \in 2 .. n : i - 1 \in 1 .. n - 1 /\ (i - 1) + 1 = i
  BY <1>2
<1>5. \A i \in 1 .. n - 1 : i + 1 \in 2 .. n
  BY <1>2
<1>6. \A i \in 2 .. n : Tail(fired)[i - 1] = fired[i]
  BY <1>3, <1>4
<1>7. 1 \in 1 .. n
  BY <1>2
<1> QED BY <1>2, <1>3, <1>4, <1>5, <1>6, <1>7 DEF n

\* Only the last firing of a timer that does not repeat erases its call.
LEMMA LookedUpFinishing ==
  ASSUME TypeOK, LastFirings, fired # <<>>, fired' = Tail(fired)
  PROVE  IF fired[1].repeats THEN Finishing' = Finishing
         ELSE fired[1].id \in Finishing /\ Finishing' = Finishing \ {fired[1].id}
<1> DEFINE n == Len(fired)
           t == fired[1].id
<1>1. /\ n \in Nat \ {0} /\ 1 \in 1 .. n
      /\ \A i \in 1 .. Len(fired') : fired'[i] = fired[i + 1] /\ i + 1 \in 2 .. n
      /\ \A i \in 2 .. n : i - 1 \in 1 .. Len(fired') /\ fired'[i - 1] = fired[i]
  BY TailOfFired
<1> HIDE DEF n
<1>2. Finishing = {fired[i].id : i \in {j \in 1 .. n : ~fired[j].repeats}}
  BY DEF Finishing, n
<1>3. Finishing' = {fired'[i].id : i \in {j \in 1 .. Len(fired') : ~fired'[j].repeats}}
  BY DEF Finishing
<1>4. Finishing' = {fired[i].id : i \in {j \in 2 .. n : ~fired[j].repeats}}
  <2>1. ASSUME NEW e \in Finishing'
        PROVE  e \in {fired[i].id : i \in {j \in 2 .. n : ~fired[j].repeats}}
    <3>1. PICK i \in 1 .. Len(fired') : ~fired'[i].repeats /\ e = fired'[i].id
      BY <1>3, <2>1
    <3>2. i + 1 \in 2 .. n /\ ~fired[i + 1].repeats /\ e = fired[i + 1].id
      BY <1>1, <3>1
    <3> QED BY <3>2
  <2>2. ASSUME NEW e \in {fired[i].id : i \in {j \in 2 .. n : ~fired[j].repeats}}
        PROVE  e \in Finishing'
    <3>1. PICK i \in 2 .. n : ~fired[i].repeats /\ e = fired[i].id
      BY <2>2
    <3>2. i - 1 \in 1 .. Len(fired') /\ ~fired'[i - 1].repeats /\ e = fired'[i - 1].id
      BY <1>1, <3>1
    <3> QED BY <1>3, <3>2
  <2> QED BY <2>1, <2>2
<1>5. \A i \in 1 .. n : i = 1 \/ i \in 2 .. n
  BY <1>1
<1>6. \A i \in 2 .. n : i \in 1 .. n /\ ~(i <= 1)
  BY <1>1
<1>7. CASE fired[1].repeats
  BY <1>2, <1>4, <1>5, <1>6, <1>7
<1>8. CASE ~fired[1].repeats
  <2>1. \A i \in 2 .. n : fired[i].id # t
    <3>1. \A i, j \in 1 .. n : fired[i].id = fired[j].id /\ ~fired[i].repeats => j <= i
      BY DEF LastFirings, n
    <3> QED BY <1>1, <1>6, <1>8, <3>1
  <2>2. t \in Finishing
    BY <1>1, <1>2, <1>8
  <2>3. \A i \in 1 .. n : fired[i].id # t => i \in 2 .. n
    BY <1>5
  <2>4. Finishing' = Finishing \ {t}
    BY <1>2, <1>4, <1>6, <2>1, <2>3
  <2> QED BY <1>8, <2>2, <2>4
<1> QED BY <1>7, <1>8

\* The books when a fired timer is looked up.
LEMMA LookedUpBooks ==
  ASSUME IInv, DispatchTimer
  PROVE  /\ DOMAIN timerToPayload' \subseteq DOMAIN timerToPayload
         /\ DOMAIN sequences' \subseteq DOMAIN sequences
         /\ IsMap(sequences, SequenceIds, Seq(Timers))'
         /\ IsMap(timerToSequence, Timers, SequenceIds)'
         /\ IsMap(calls, Timers, Timers)' /\ IsMap(timerToPayload, Timers, Timers)'
         /\ Numbered' /\ LastFirings' /\ Owned' /\ Interleaved'
<1> DEFINE t == fired[1].id
<1>1. /\ TypeOK /\ Numbered /\ LastFirings /\ Owned /\ Interleaved
  BY DEF IInv, Typed
<1>2. /\ phase = "Calls" /\ phase' = phase /\ fired # <<>> /\ fired' = Tail(fired)
      /\ tasks' = tasks /\ expired' = expired
      /\ fired[1].repeats => /\ calls' = calls /\ timerToPayload' = timerToPayload
                             /\ sequences' = sequences /\ timerToSequence' = timerToSequence
      /\ ~fired[1].repeats => EraseCalls({t}) /\ Detach(t)
  BY DEF DispatchTimer, schedulerVars, callVars, sequenceVars
<1>3. IF fired[1].repeats THEN Finishing' = Finishing
      ELSE t \in Finishing /\ Finishing' = Finishing \ {t}
  BY <1>1, <1>2, LookedUpFinishing
<1>4. 1 \in 1 .. Len(fired) /\ Len(fired) \in Nat
      /\ \A i \in 1 .. Len(fired') : fired'[i] = fired[i + 1] /\ i + 1 \in 1 .. Len(fired)
  <2>1. /\ Len(fired) \in Nat \ {0} /\ 1 \in 1 .. Len(fired)
        /\ \A i \in 1 .. Len(fired') : fired'[i] = fired[i + 1] /\ i + 1 \in 2 .. Len(fired)
    BY <1>1, <1>2, TailOfFired
  <2>2. \A i \in 2 .. Len(fired) : i \in 1 .. Len(fired)
    BY <2>1
  <2> QED BY <2>1, <2>2
<1>5. t \in Timers
  BY <1>1, <1>4, FiringsTyped
<1>6. /\ DOMAIN timerToPayload = DOMAIN tasks \cup Finishing \cup expired
      /\ DOMAIN tasks \cap (Finishing \cup expired) = {} /\ Finishing \cap expired = {}
      /\ \A i, j \in 1 .. Len(fired) : fired[i].id = fired[j].id /\ ~fired[i].repeats => j <= i
  BY <1>1 DEF LastFirings
<1> HIDE DEF t
<1>7. ASSUME DOMAIN timerToPayload' = DOMAIN tasks' \cup Finishing' \cup expired',
             Finishing' \subseteq Finishing
      PROVE  LastFirings'
  <2>1. \A i, j \in 1 .. Len(fired') :
           fired'[i].id = fired'[j].id /\ ~fired'[i].repeats => j <= i
    <3> SUFFICES ASSUME NEW i \in 1 .. Len(fired'), NEW j \in 1 .. Len(fired'),
                        fired'[i].id = fired'[j].id, ~fired'[i].repeats
                 PROVE  j <= i
      OBVIOUS
    <3>1. /\ i + 1 \in 1 .. Len(fired) /\ j + 1 \in 1 .. Len(fired)
          /\ fired[i + 1].id = fired[j + 1].id /\ ~fired[i + 1].repeats
      BY <1>4
    <3>2. j + 1 <= i + 1
      BY <1>6, <3>1
    <3> QED BY <3>2
  <2>2. DOMAIN tasks' \cap (Finishing' \cup expired') = {} /\ Finishing' \cap expired' = {}
    BY <1>2, <1>6, <1>7
  <2> QED BY <1>2, <1>7, <2>1, <2>2 DEF LastFirings
<1>8. CASE fired[1].repeats
  <2>1. Numbered' /\ Owned' /\ Interleaved'
    BY <1>1, <1>2, <1>8 DEF Numbered, Owned, Interleaved
  <2>2. LastFirings'
    BY <1>2, <1>3, <1>6, <1>7, <1>8
  <2> QED BY <1>1, <1>2, <1>8, <2>1, <2>2 DEF TypeOK, IsMap
<1>9. CASE ~fired[1].repeats
  <2>1. t \in Finishing /\ Finishing' = Finishing \ {t} /\ {t} \subseteq DOMAIN timerToPayload
    BY <1>3, <1>6, <1>9
  <2>2. /\ DOMAIN timerToPayload' = DOMAIN timerToPayload \ {t}
        /\ DOMAIN calls' = DOMAIN timerToPayload \ {t}
        /\ \A u \in DOMAIN timerToPayload' : timerToPayload'[u] = u /\ calls'[u] = u
        /\ IsMap(calls, Timers, Timers)' /\ IsMap(timerToPayload, Timers, Timers)'
    BY <1>1, <1>2, <1>9, <2>1, ErasedCalls
  <2>3. /\ DOMAIN timerToSequence' = DOMAIN timerToSequence \ {t}
        /\ \A u \in DOMAIN timerToSequence' : timerToSequence'[u] = timerToSequence[u]
        /\ DOMAIN sequences' \subseteq DOMAIN sequences
        /\ IsMap(sequences, SequenceIds, Seq(Timers))'
        /\ IsMap(timerToSequence, Timers, SequenceIds)' /\ Owned'
    BY <1>1, <1>2, <1>5, <1>9, <2>2, Detached
  <2>4. Numbered'
    BY <1>1, <1>2, <2>2 DEF Numbered
  <2>5. LastFirings'
    <3>1. DOMAIN timerToPayload' = DOMAIN tasks' \cup Finishing' \cup expired'
      BY <1>2, <1>6, <2>1, <2>2
    <3> QED BY <1>7, <2>1, <3>1
  <2>6. Interleaved'
    <3>1. DOMAIN timerToSequence' \subseteq DOMAIN timerToSequence
      BY <2>3
    <3> QED BY <1>1, <1>2, <2>3, <3>1 DEF Interleaved
  <2>7. DOMAIN timerToPayload' \subseteq DOMAIN timerToPayload
    BY <2>2
  <2> QED BY <2>2, <2>3, <2>4, <2>5, <2>6, <2>7
<1> QED BY <1>8, <1>9


LEMMA DispatchTimerKeeps ==
  ASSUME IInv, DispatchTimer
  PROVE  IInv'
<1> DEFINE n == Len(batch)
           m == Len(fired)
           first == fired[1]
           call == [kind |-> "Timer", due |-> first.due, id |-> first.id,
                    priority |-> 0, subscription |-> 0]
<1>1. /\ TypeOK /\ Known /\ Dispatched /\ EventsApart /\ QueueExact /\ DispatchOrder
      /\ batch \in Batches
  BY DEF IInv, Typed
<1>2. /\ phase = "Calls" /\ fired # <<>> /\ fired' = Tail(fired) /\ batch' = Append(batch, call)
      /\ tick' = tick /\ tasks' = tasks /\ queue' = queue /\ nextTimer' = nextTimer
      /\ nextPayload' = nextPayload /\ nextSequence' = nextSequence /\ events' = events
      /\ nextEvent' = nextEvent /\ subscriptions' = subscriptions
      /\ nextSubscription' = nextSubscription /\ phase' = phase /\ budget' = budget
      /\ expired' = expired
  BY DEF DispatchTimer, schedulerVars, counterVars, eventVars
<1>3. /\ DOMAIN timerToPayload' \subseteq DOMAIN timerToPayload
      /\ DOMAIN sequences' \subseteq DOMAIN sequences
      /\ IsMap(sequences, SequenceIds, Seq(Timers))'
      /\ IsMap(timerToSequence, Timers, SequenceIds)'
      /\ IsMap(calls, Timers, Timers)' /\ IsMap(timerToPayload, Timers, Timers)'
      /\ Numbered' /\ LastFirings' /\ Owned' /\ Interleaved'
  BY LookedUpBooks
<1>4. /\ m \in Nat \ {0} /\ fired' \in Seq(Firings) /\ 1 \in 1 .. m
      /\ \A i \in 1 .. Len(fired') : fired'[i] = fired[i + 1] /\ i + 1 \in 2 .. m
  BY <1>1, <1>2, TailOfFired
<1>5. first.due \in Ticks /\ first.id \in Timers
  BY <1>1, <1>4, FiringsTyped
<1>6. /\ \A j \in 1 .. m :
           /\ fired[j].due <= tick /\ fired[j].id < nextTimer
           /\ \A i \in 1 .. j - 1 : Before(fired[i], fired[j])
           /\ \A i \in 1 .. n : Before(batch[i], fired[j])
           /\ \A key \in queue : Before(fired[j], key)
      /\ \A i \in 1 .. n :
           /\ batch[i].due <= tick /\ batch[i].kind = "Timer"
           /\ batch[i].id < nextTimer
  BY <1>1, <1>2 DEF Dispatched
<1> HIDE DEF m, first
<1>7. call \in Dispatches /\ call.kind = "Timer" /\ call.due = first.due /\ call.id = first.id
  <2>1. first.id \in Nat
    BY <1>5, Numbers
  <2>2. call \in Dispatches
    BY <1>5, <2>1 DEF Dispatches
  <2>3. call.kind = "Timer" /\ call.due = first.due /\ call.id = first.id
    OBVIOUS
  <2> QED BY <2>2, <2>3
<1> HIDE DEF call
<1>8. /\ batch' \in Batches /\ Len(batch') = n + 1 /\ n \in Nat
      /\ \A i \in 1 .. n : batch'[i] = batch[i]
      /\ batch'[n + 1] = call
  BY <1>1, <1>2, <1>7, AppendedEntry DEF Batches
<1> HIDE DEF n
<1>9. \A i \in 1 .. n + 1 : i \in 1 .. n \/ i = n + 1
  BY <1>8
<1>10. \A i \in 1 .. n + 1 :
          /\ batch'[i].due <= tick /\ batch'[i].kind = "Timer" /\ batch'[i].id < nextTimer
  BY <1>4, <1>6, <1>7, <1>8, <1>9 DEF first
<1>11. ASSUME NEW i \in 1 .. n + 1, NEW key \in queue
       PROVE  Before(batch'[i], key)
  <2>1. CASE i \in 1 .. n
    BY <1>1, <1>6, <1>8, <2>1 DEF DispatchOrder, n
  <2>2. CASE i = n + 1
    <3>1. Before(first, key)
      BY <1>4, <1>6 DEF first
    <3> QED BY <1>7, <1>8, <2>2, <3>1 DEF Before
  <2> QED BY <1>9, <2>1, <2>2
<1>12. ASSUME NEW i \in 1 .. n + 1, NEW j \in 2 .. m
       PROVE  Before(batch'[i], fired[j])
  <2>1. j \in 1 .. m /\ 1 \in 1 .. j - 1
    BY <1>4
  <2>2. CASE i \in 1 .. n
    BY <1>6, <1>8, <2>1, <2>2
  <2>3. CASE i = n + 1
    <3>1. Before(first, fired[j])
      BY <1>6, <2>1 DEF first
    <3> QED BY <1>7, <1>8, <2>3, <3>1 DEF Before
  <2> QED BY <1>9, <2>2, <2>3
<1>13. ASSUME NEW i \in 1 .. n + 1, NEW j \in 1 .. n + 1, i < j
       PROVE  Before(batch'[i], batch'[j])
  <2>1. i \in 1 .. n
    BY <1>8, <1>13
  <2>2. CASE j \in 1 .. n
    <3>1. Before(batch[i], batch[j])
      BY <1>1, <1>6, <1>13, <2>1, <2>2 DEF DispatchOrder, n
    <3> QED BY <1>8, <2>1, <2>2, <3>1
  <2>3. CASE j = n + 1
    <3>1. Before(batch[i], first)
      BY <1>4, <1>6, <2>1 DEF first
    <3>2. Before(batch[i], call)
      BY <1>7, <3>1 DEF Before
    <3> QED BY <1>8, <2>1, <2>3, <3>2
  <2> QED BY <1>9, <2>2, <2>3
<1>14. DispatchOrder'
  <2>1. \A i \in 1 .. Len(batch') : batch'[i].kind # "Event"
    BY <1>8, <1>10
  <2>2. \A i, j \in 1 .. Len(batch') : i < j => Before(batch'[i], batch'[j])
    BY <1>8, <1>13
  <2>3. \A i \in 1 .. Len(batch') : \A key \in queue' : Before(batch'[i], key)
    BY <1>2, <1>8, <1>11
  <2> QED BY <2>1, <2>2, <2>3 DEF DispatchOrder
<1>15. Dispatched'
  <2>1. \A i \in 1 .. Len(batch') :
           /\ batch'[i].due <= tick' /\ batch'[i].kind = "Timer" /\ batch'[i].id < nextTimer'
    BY <1>2, <1>8, <1>10
  <2>2. \A j \in 1 .. Len(fired') : \A i \in 1 .. j - 1 : i \in 1 .. Len(fired') /\ i + 1 \in 1 .. j
    <3>1. Len(fired') \in Nat
      BY <1>4
    <3> QED BY <3>1
  <2>3. ASSUME NEW j \in 1 .. Len(fired')
        PROVE  /\ fired'[j].due <= tick' /\ fired'[j].id < nextTimer'
               /\ \A i \in 1 .. j - 1 : Before(fired'[i], fired'[j])
               /\ \A i \in 1 .. Len(batch') : Before(batch'[i], fired'[j])
               /\ \A key \in queue' : Before(fired'[j], key)
    <3>1. fired'[j] = fired[j + 1] /\ j + 1 \in 2 .. m /\ j + 1 \in 1 .. m
      BY <1>4
    <3>2. \A i \in 1 .. j - 1 : Before(fired'[i], fired'[j])
      <4> SUFFICES ASSUME NEW i \in 1 .. j - 1 PROVE Before(fired'[i], fired'[j])
        OBVIOUS
      <4>1. fired'[i] = fired[i + 1] /\ i + 1 \in 1 .. (j + 1) - 1
        BY <1>4, <2>2
      <4>2. Before(fired[i + 1], fired[j + 1])
        BY <1>6, <3>1, <4>1
      <4> QED BY <3>1, <4>1, <4>2
    <3>3. \A i \in 1 .. Len(batch') : Before(batch'[i], fired'[j])
      BY <1>8, <1>12, <3>1
    <3> QED BY <1>2, <1>6, <3>1, <3>2, <3>3
  <2>4. phase' = "Calls"
    BY <1>2
  <2> QED BY <2>1, <2>3, <2>4 DEF Dispatched
<1>16. Typed'
  <2>1. fired' \in Seq([due : Ticks, id : Timers, repeats : BOOLEAN])
    BY <1>4 DEF Firings
  <2>2. /\ IsMap(tasks, Timers, Tasks)' /\ IsMap(subscriptions, Subscriptions, Int)'
    BY <1>1, <1>2 DEF TypeOK, IsMap, Tasks
  <2> QED BY <1>1, <1>2, <1>3, <1>8, <2>1, <2>2 DEF Typed, TypeOK, Tasks
<1>17. Known'
  <2>1. DOMAIN timerToPayload \subseteq 1 .. nextTimer - 1 /\ DOMAIN sequences \subseteq 1 .. nextSequence - 1
    BY <1>1 DEF Known
  <2>2. DOMAIN timerToPayload' \subseteq 1 .. nextTimer' - 1 /\ DOMAIN sequences' \subseteq 1 .. nextSequence' - 1
    BY <1>2, <1>3, <2>1
  <2> QED BY <1>1, <1>2, <2>2 DEF Known
<1>18. EventsApart' /\ QueueExact'
  BY <1>1, <1>2 DEF EventsApart, QueueExact
<1> QED BY <1>3, <1>14, <1>15, <1>16, <1>17, <1>18 DEF IInv


-----------------------------------------------------------------------------
(* An event is delivered. *)

\* The subscribers are listed in the order in which they are called.
LEMMA SubscribersInOrder ==
  ASSUME IsMap(subscriptions, Subscriptions, Int)
  PROVE  /\ Len(Subscribers) \in Nat
         /\ \A i \in 1 .. Len(Subscribers) :
              Subscribers[i] \in Nat \ {0} /\ subscriptions[Subscribers[i]] \in Int
         /\ \A i, j \in 1 .. Len(Subscribers) :
              i < j => CalledBefore(Subscribers[i], Subscribers[j])
<1> DEFINE S == DOMAIN subscriptions
           R == {p \in S \X S : CalledBefore(p[1], p[2])}
           before(s) == {t \in S : <<t, s>> \in R}
           c == Cardinality(S)
<1>1. /\ IsFiniteSet(S) /\ c \in Nat
      /\ \A s \in S : s \in Nat \ {0} /\ subscriptions[s] \in Int
  <2>1. S \subseteq Subscriptions /\ \A s \in S : subscriptions[s] \in Int
    BY DEF IsMap
  <2>2. IsFiniteSet(1 .. MaxSubscriptions)
    BY Numbers, FS_Interval
  <2>3. IsFiniteSet(S)
    BY <2>1, <2>2, FS_Subset DEF Subscriptions
  <2>4. \A s \in S : s \in Nat \ {0}
    BY <2>1, Numbers
  <2> QED BY <2>1, <2>3, <2>4, FS_CardinalityType
<1>2. \A a, b \in S : <<a, b>> \in R <=> CalledBefore(a, b)
  OBVIOUS
<1> HIDE DEF R
<1>3. /\ \A a \in S : <<a, a>> \notin R
      /\ \A a, b \in S : a # b => <<a, b>> \in R \/ <<b, a>> \in R
      /\ \A a, b, d \in S : <<a, b>> \in R /\ <<b, d>> \in R => <<a, d>> \in R
  <2> HIDE DEF S
  <2> QED BY <1>1, <1>2 DEF CalledBefore
<1>4. /\ \A a, b \in S : <<a, b>> \in R <=> Cardinality(before(a)) < Cardinality(before(b))
      /\ \A n \in 1 .. c : \E a \in S : Cardinality(before(a)) = n - 1
  <2> HIDE DEF S
  <2> QED BY <1>1, <1>3, OrderRanks DEF S
<1>5. \A s \in S : {t \in S : CalledBefore(t, s)} = before(s)
  BY <1>2
<1>6. ASSUME NEW n \in 1 .. c
      PROVE  Subscribers[n] \in S /\ Cardinality(before(Subscribers[n])) = n - 1
  <2>1. Subscribers[n] = CHOOSE s \in S : Cardinality({t \in S : CalledBefore(t, s)}) = n - 1
    BY <1>6 DEF Subscribers
  <2>2. PICK a \in S : Cardinality(before(a)) = n - 1
    BY <1>4
  <2>3. Cardinality({t \in S : CalledBefore(t, a)}) = n - 1
    BY <1>5, <2>2
  <2>4. Subscribers[n] \in S /\ Cardinality({t \in S : CalledBefore(t, Subscribers[n])}) = n - 1
    BY <2>1, <2>3
  <2>5. {t \in S : CalledBefore(t, Subscribers[n])} = before(Subscribers[n])
    BY <1>5, <2>4
  <2> HIDE DEF before
  <2> QED BY <2>4, <2>5
<1>7. Len(Subscribers) = c
  BY <1>1 DEF Subscribers
<1> HIDE DEF before, S, c
<1>8. ASSUME NEW i \in 1 .. c, NEW j \in 1 .. c, i < j
      PROVE  CalledBefore(Subscribers[i], Subscribers[j])
  <2>1. /\ Subscribers[i] \in S /\ Subscribers[j] \in S
        /\ Cardinality(before(Subscribers[i])) = i - 1
        /\ Cardinality(before(Subscribers[j])) = j - 1
    BY <1>6
  <2>2. i - 1 < j - 1
    BY <1>1, <1>8
  <2>3. <<Subscribers[i], Subscribers[j]>> \in R
    BY <1>4, <2>1, <2>2
  <2> QED BY <1>2, <2>1, <2>3
<1> QED BY <1>1, <1>6, <1>7, <1>8

\* The first event is delivered, to its receivers in their order.
Delivered(event, sent) ==
    /\ event \in events /\ event.due <= tick /\ event.due \in Ticks /\ event.id \in Nat
    /\ \A e \in events \ {event} : Before(event, e)
    /\ events' = events \ {event}
    /\ sent \in Batches /\ batch' = batch \o sent
    /\ \A i \in 1 .. Len(sent) :
         sent[i].kind = "Event" /\ sent[i].due = event.due /\ sent[i].id = event.id
    /\ \A i, j \in 1 .. Len(sent) :
         i < j => \/ sent[i].priority < sent[j].priority
                  \/ /\ sent[i].priority = sent[j].priority
                     /\ sent[i].subscription < sent[j].subscription

LEMMA EventDelivered ==
  ASSUME TypeOK, EventsApart, DispatchEvent
  PROVE  \E event \in events, sent \in Batches : Delivered(event, sent)
<1> DEFINE event == First(events)
           CallOf(s) == [kind |-> "Event", due |-> event.due, id |-> event.id,
                         priority |-> IF s = 0 THEN 0 ELSE subscriptions[s], subscription |-> s]
           receivers == IF event.direct THEN <<0>> ELSE Subscribers
           sent == [n \in 1 .. Len(receivers) |-> CallOf(receivers[n])]
<1>1. /\ DueNow(events) /\ events' = events \ {event} /\ batch' = batch \o sent
  BY DEF DispatchEvent
<1>2. \A e \in events : e.due \in Ticks /\ e.due \in Int /\ e.id \in Int /\ e.id \in Nat
  <2> SUFFICES ASSUME NEW e \in events
               PROVE  e.due \in Ticks /\ e.due \in Int /\ e.id \in Int /\ e.id \in Nat
    OBVIOUS
  <2>1. e.due \in Ticks /\ e.id \in EventIds
    BY DEF TypeOK
  <2>2. Ticks \subseteq Nat /\ EventIds \subseteq Nat
    BY Numbers
  <2>3. e.due \in Nat /\ e.id \in Nat
    BY <2>1, <2>2
  <2> QED BY <2>1, <2>3
<1>3. event \in events /\ \A e \in events \ {event} : Before(event, e)
  <2>1. /\ IsFiniteSet(events) /\ events # {}
        /\ \A e, f \in events : e.due = f.due /\ e.id = f.id => e = f
    BY <1>1 DEF EventsApart, DueNow
  <2> QED BY <1>2, <2>1, FirstIsFirst
<1>4. event.due <= tick
  BY <1>1 DEF DueNow
<1> HIDE DEF event
<1>5. event.due \in Ticks /\ event.id \in Nat
  BY <1>2, <1>3
<1>6. /\ Len(receivers) \in Nat
      /\ \A i \in 1 .. Len(receivers) : receivers[i] \in Nat
      /\ \A i \in 1 .. Len(receivers) : receivers[i] # 0 => subscriptions[receivers[i]] \in Int
      /\ \A i, j \in 1 .. Len(receivers) :
           i < j => /\ receivers[i] # 0 /\ receivers[j] # 0
                    /\ CalledBefore(receivers[i], receivers[j])
  <2>1. CASE event.direct
    <3>1. receivers = <<0>>
      BY <2>1
    <3>2. Len(<<0>>) = 1 /\ <<0>>[1] = 0
      OBVIOUS
    <3> HIDE DEF receivers
    <3> QED BY <3>1, <3>2
  <2>2. CASE ~event.direct
    <3>1. receivers = Subscribers
      BY <2>2
    <3>2. /\ Len(Subscribers) \in Nat
          /\ \A i \in 1 .. Len(Subscribers) :
               Subscribers[i] \in Nat \ {0} /\ subscriptions[Subscribers[i]] \in Int
          /\ \A i, j \in 1 .. Len(Subscribers) :
               i < j => CalledBefore(Subscribers[i], Subscribers[j])
      BY SubscribersInOrder DEF TypeOK
    <3> HIDE DEF receivers
    <3> QED BY <3>1, <3>2
  <2> QED BY <2>1, <2>2
<1> HIDE DEF receivers
<1>7. ASSUME NEW i \in 1 .. Len(receivers)
      PROVE  CallOf(receivers[i]) \in Dispatches
  <2>1. (IF receivers[i] = 0 THEN 0 ELSE subscriptions[receivers[i]]) \in Int
    BY <1>6
  <2> QED BY <1>5, <1>6, <2>1 DEF Dispatches
<1>8. sent \in Batches /\ Len(sent) = Len(receivers)
      /\ \A i \in 1 .. Len(receivers) : sent[i] = CallOf(receivers[i])
  <2> HIDE DEF CallOf
  <2>1. sent \in [1 .. Len(receivers) -> Dispatches]
    BY <1>7
  <2> QED BY <1>6, <2>1 DEF Batches
<1> HIDE DEF sent
<1>9. ASSUME NEW i \in 1 .. Len(sent)
      PROVE  /\ sent[i].kind = "Event" /\ sent[i].due = event.due /\ sent[i].id = event.id
             /\ sent[i].subscription = receivers[i]
             /\ receivers[i] # 0 => sent[i].priority = subscriptions[receivers[i]]
  <2>1. sent[i] = CallOf(receivers[i])
    BY <1>8
  <2> QED BY <2>1
<1>10. ASSUME NEW i \in 1 .. Len(sent), NEW j \in 1 .. Len(sent), i < j
       PROVE  \/ sent[i].priority < sent[j].priority
              \/ /\ sent[i].priority = sent[j].priority
                 /\ sent[i].subscription < sent[j].subscription
  <2>1. receivers[i] # 0 /\ receivers[j] # 0 /\ CalledBefore(receivers[i], receivers[j])
    BY <1>6, <1>8, <1>10
  <2>2. /\ sent[i].priority = subscriptions[receivers[i]] /\ sent[i].subscription = receivers[i]
        /\ sent[j].priority = subscriptions[receivers[j]] /\ sent[j].subscription = receivers[j]
    BY <1>9, <2>1
  <2> QED BY <2>1, <2>2 DEF CalledBefore
<1>11. Delivered(event, sent)
  BY <1>1, <1>3, <1>4, <1>5, <1>8, <1>9, <1>10 DEF Delivered
<1> QED BY <1>3, <1>8, <1>11


LEMMA DispatchEventKeeps ==
  ASSUME IInv, DispatchEvent
  PROVE  IInv'
<1>1. /\ TypeOK /\ Known /\ LastFirings /\ Dispatched /\ EventsApart /\ DispatchOrder
      /\ batch \in Batches
  BY DEF IInv, Typed
<1>2. PICK event \in events, sent \in Batches : Delivered(event, sent)
  BY <1>1, EventDelivered
<1>3. /\ phase = "Events" /\ budget.events > 0 /\ budget' = [budget EXCEPT !.events = @ - 1]
      /\ tick' = tick /\ tasks' = tasks /\ queue' = queue /\ calls' = calls
      /\ timerToPayload' = timerToPayload /\ sequences' = sequences
      /\ timerToSequence' = timerToSequence /\ nextTimer' = nextTimer
      /\ nextPayload' = nextPayload /\ nextSequence' = nextSequence
      /\ phase' = phase /\ fired' = fired /\ expired' = expired /\ nextEvent' = nextEvent
      /\ subscriptions' = subscriptions /\ nextSubscription' = nextSubscription
  BY DEF DispatchEvent, schedulerVars, callVars, sequenceVars, counterVars
<1> DEFINE n == Len(batch)
           m == Len(sent)
<1>4. /\ event.due <= tick /\ event.due \in Ticks /\ event.id \in Nat
      /\ \A e \in events \ {event} : Before(event, e)
      /\ events' = events \ {event}
      /\ batch' = batch \o sent
      /\ \A i \in 1 .. m :
           sent[i].kind = "Event" /\ sent[i].due = event.due /\ sent[i].id = event.id
      /\ \A i, j \in 1 .. m :
           i < j => \/ sent[i].priority < sent[j].priority
                    \/ /\ sent[i].priority = sent[j].priority
                       /\ sent[i].subscription < sent[j].subscription
  BY <1>2 DEF Delivered
<1>5. fired = <<>> /\ event.id < nextEvent
  BY <1>1, <1>3 DEF LastFirings, Known
<1>6. Numbered' /\ LastFirings' /\ Owned' /\ Interleaved' /\ QueueExact'
  BY <1>3, <1>5, BooksKept DEF schedulerVars, callVars, sequenceVars
<1>7. /\ batch' \in Batches /\ Len(batch') = n + m /\ n \in Nat /\ m \in Nat
      /\ \A i \in 1 .. n + m : batch'[i] = IF i <= n THEN batch[i] ELSE sent[i - n]
  BY <1>1, <1>4, ConcatProperties, LenProperties DEF Batches
<1> HIDE DEF n, m
<1>8. ASSUME NEW i \in 1 .. n + m
      PROVE  \/ i \in 1 .. n /\ batch'[i] = batch[i]
             \/ /\ n < i /\ i - n \in 1 .. m /\ batch'[i] = sent[i - n] /\ batch'[i].kind = "Event"
                /\ batch'[i].due = event.due /\ batch'[i].id = event.id
  <2>1. CASE i <= n
    BY <1>7, <2>1
  <2>2. CASE ~(i <= n)
    <3>1. n < i /\ i - n \in 1 .. m /\ batch'[i] = sent[i - n]
      BY <1>7, <2>2
    <3> QED BY <1>4, <3>1
  <2> QED BY <2>1, <2>2
<1>9. Typed'
  <2>1. budget' \in [timers : Nat, events : Nat]
    <3>1. budget \in [timers : Nat, events : Nat]
      BY <1>1 DEF TypeOK
    <3> QED BY <1>3, <3>1
  <2>2. \A e \in events' : e \in events
    BY <1>4
  <2> QED BY <1>1, <1>3, <1>7, <2>1, <2>2 DEF Typed, TypeOK, IsMap
<1>10. Known' /\ EventsApart'
  <2>1. \A e \in events' : e \in events
    BY <1>4
  <2>2. IsFiniteSet(events')
    BY <1>1, <2>1, FS_Subset DEF EventsApart
  <2> QED BY <1>1, <1>3, <2>1, <2>2 DEF Known, EventsApart
<1>11. Dispatched'
  <2>1. ASSUME NEW i \in 1 .. n + m
        PROVE  /\ batch'[i].due <= tick /\ (batch'[i].kind = "Timer" => batch'[i].id < nextTimer)
               /\ (batch'[i].kind = "Event" => batch'[i].id < nextEvent)
    <3>1. CASE i \in 1 .. n /\ batch'[i] = batch[i]
      BY <1>1, <3>1 DEF Dispatched, n
    <3>2. CASE /\ batch'[i].kind = "Event" /\ batch'[i].due = event.due /\ batch'[i].id = event.id
      BY <1>4, <1>5, <3>2
    <3> QED BY <1>8, <3>1, <3>2
  <2>2. 1 .. Len(fired') = {}
    BY <1>3, <1>5
  <2> QED BY <1>3, <1>7, <2>1, <2>2 DEF Dispatched
<1>12. DispatchOrder'
  <2>1. ASSUME NEW i \in 1 .. n + m, batch'[i].kind = "Timer"
        PROVE  i \in 1 .. n /\ batch'[i] = batch[i] /\ batch[i].kind = "Timer"
    BY <1>8, <2>1
  <2>2. ASSUME NEW i \in 1 .. n + m, NEW j \in 1 .. n + m,
               batch'[i].kind = "Timer", batch'[j].kind = "Event"
        PROVE  i < j
    <3>1. i \in 1 .. n /\ batch[i].kind = "Timer"
      BY <2>1, <2>2
    <3>2. CASE j \in 1 .. n /\ batch'[j] = batch[j]
      BY <1>1, <2>2, <3>1, <3>2 DEF DispatchOrder, n
    <3>3. CASE n < j
      BY <1>7, <3>1, <3>3
    <3> QED BY <1>8, <3>2, <3>3
  <2>3. ASSUME NEW i \in 1 .. n + m, NEW j \in 1 .. n + m, i < j,
               batch'[i].kind = "Timer", batch'[j].kind = "Timer"
        PROVE  Before(batch'[i], batch'[j])
    <3>1. /\ i \in 1 .. n /\ batch'[i] = batch[i] /\ batch[i].kind = "Timer"
          /\ j \in 1 .. n /\ batch'[j] = batch[j] /\ batch[j].kind = "Timer"
      BY <2>1, <2>3
    <3> QED BY <1>1, <2>3, <3>1 DEF DispatchOrder, n
  <2>4. ASSUME NEW i \in 1 .. n + m, NEW j \in 1 .. n + m, i < j,
               batch'[i].kind = "Event", batch'[j].kind = "Event"
        PROVE  \/ Before(batch'[i], batch'[j])
               \/ /\ batch'[i].id = batch'[j].id
                  /\ \/ batch'[i].priority < batch'[j].priority
                     \/ /\ batch'[i].priority = batch'[j].priority
                        /\ batch'[i].subscription < batch'[j].subscription
    <3>1. CASE i \in 1 .. n /\ batch'[i] = batch[i]
      <4>1. CASE j \in 1 .. n /\ batch'[j] = batch[j]
        BY <1>1, <2>4, <3>1, <4>1 DEF DispatchOrder, n
      <4>2. CASE batch'[j].due = event.due /\ batch'[j].id = event.id
        <5>1. Before(batch[i], event)
          BY <1>1, <2>4, <3>1 DEF DispatchOrder, n
        <5> QED BY <3>1, <4>2, <5>1 DEF Before
      <4> QED BY <1>8, <4>1, <4>2
    <3>2. CASE /\ n < i /\ i - n \in 1 .. m /\ batch'[i] = sent[i - n]
               /\ batch'[i].id = event.id
      <4>1. n < j
        BY <1>7, <2>4, <3>2
      <4>2. j - n \in 1 .. m /\ batch'[j] = sent[j - n] /\ batch'[j].id = event.id /\ i - n < j - n
        <5>1. j \notin 1 .. n
          BY <1>7, <4>1
        <5>2. j - n \in 1 .. m /\ batch'[j] = sent[j - n] /\ batch'[j].id = event.id
          BY <1>8, <5>1
        <5>3. i - n < j - n
          BY <1>7, <2>4
        <5> QED BY <5>2, <5>3
      <4>3. \/ sent[i - n].priority < sent[j - n].priority
            \/ /\ sent[i - n].priority = sent[j - n].priority
               /\ sent[i - n].subscription < sent[j - n].subscription
        BY <1>4, <3>2, <4>2
      <4> QED BY <3>2, <4>2, <4>3
    <3> QED BY <1>8, <3>1, <3>2
  <2>5. ASSUME NEW i \in 1 .. n + m, batch'[i].kind = "Timer", NEW key \in queue
        PROVE  Before(batch'[i], key)
    <3>1. i \in 1 .. n /\ batch'[i] = batch[i] /\ batch[i].kind = "Timer"
      BY <2>1, <2>5
    <3> QED BY <1>1, <3>1 DEF DispatchOrder, n
  <2>6. ASSUME NEW i \in 1 .. n + m, batch'[i].kind = "Event", NEW e \in events'
        PROVE  Before(batch'[i], e)
    <3>1. e \in events /\ Before(event, e)
      BY <1>4
    <3>2. CASE i \in 1 .. n /\ batch'[i] = batch[i]
      BY <1>1, <2>6, <3>1, <3>2 DEF DispatchOrder, n
    <3>3. CASE batch'[i].due = event.due /\ batch'[i].id = event.id
      BY <3>1, <3>3 DEF Before
    <3> QED BY <1>8, <3>2, <3>3
  <2> QED BY <1>3, <1>7, <2>2, <2>3, <2>4, <2>5, <2>6 DEF DispatchOrder
<1> QED BY <1>6, <1>9, <1>10, <1>11, <1>12 DEF IInv

-----------------------------------------------------------------------------
(* The theorems. *)

LEMMA Initial ==
  ASSUME Init
  PROVE  IInv
<1>1. /\ tick = 0 /\ tasks = <<>> /\ queue = {} /\ nextTimer = 1 /\ calls = <<>>
      /\ timerToPayload = <<>> /\ nextPayload = 1 /\ sequences = <<>>
      /\ timerToSequence = <<>> /\ nextSequence = 1 /\ events = {} /\ nextEvent = 1
      /\ subscriptions = <<>> /\ nextSubscription = 1 /\ phase = "Idle"
      /\ budget = [timers |-> 0, events |-> 0] /\ fired = <<>> /\ batch = <<>> /\ expired = {}
  BY DEF Init
<1>2. DOMAIN <<>> = {} /\ Len(<<>>) = 0 /\ \A S : <<>> \in [{} -> S]
  OBVIOUS
<1>3. \A S, T : IsMap(<<>>, S, T)
  BY <1>2 DEF IsMap
<1>4. Typed
  <2>1. /\ <<>> \in Batches /\ <<>> \in Seq([due : Ticks, id : Timers, repeats : BOOLEAN])
    BY EmptySeq DEF Batches
  <2>2. /\ 0 \in Ticks /\ 1 \in 1 .. MaxTimers + 1 /\ 1 \in 1 .. MaxSequences + 1
        /\ 1 \in 1 .. MaxEvents + 1 /\ 1 \in 1 .. MaxSubscriptions + 1
    BY Numbers DEF Ticks
  <2>3. [timers |-> 0, events |-> 0] \in [timers : Nat, events : Nat]
    OBVIOUS
  <2> QED BY <1>1, <1>3, <2>1, <2>2, <2>3 DEF Typed, TypeOK
<1>5. Known
  BY <1>1, <1>2 DEF Known
<1>6. Numbered /\ Owned /\ Interleaved /\ QueueExact
  BY <1>1, <1>2 DEF Numbered, Owned, Interleaved, QueueExact
<1>7. 1 .. Len(fired) = {} /\ 1 .. Len(batch) = {}
  BY <1>1, <1>2
<1>8. LastFirings
  <2>1. Finishing = {}
    BY <1>1, NoneFinishing
  <2> QED BY <1>1, <1>2, <1>7, <2>1 DEF LastFirings
<1>9. Dispatched /\ DispatchOrder
  BY <1>1, <1>7 DEF Dispatched, DispatchOrder
<1>10. EventsApart
  BY <1>1, FS_EmptySet DEF EventsApart
<1> QED BY <1>4, <1>5, <1>6, <1>8, <1>9, <1>10 DEF IInv


LEMMA Step ==
  ASSUME IInv, [Next]_vars
  PROVE  IInv'
<1>1. CASE UNCHANGED vars
  BY <1>1, Stutters
<1>2. CASE Host
  <2>1. CASE \E delay \in Delays, interval \in Intervals \cup {0}, repeats \in Repeats :
               ScheduleCall(delay, interval, repeats)
    BY <2>1, ScheduleCallKeeps
  <2>2. CASE \E script \in Scripts, repeats \in Repeats : StartSequence(script, repeats)
    BY <2>2, StartSequenceKeeps
  <2>3. CASE \E timer \in Timers : CancelCall(timer)
    BY <2>3, CancelCallKeeps
  <2>4. CASE \E s \in DOMAIN sequences : CancelSequence(s)
    BY <2>4, CancelSequenceKeeps
  <2>5. CASE \E delay \in Delays, direct \in BOOLEAN : Enqueue(delay, direct)
    BY <2>5, EnqueueKeeps
  <2>6. CASE \E event \in events : CancelEvent(event)
    BY <2>6, CancelEventKeeps
  <2>7. CASE \E priority \in Priorities : Subscribe(priority)
    BY <2>7, SubscribeKeeps
  <2>8. CASE \E id \in DOMAIN subscriptions : Unsubscribe(id)
    BY <2>8, UnsubscribeKeeps
  <2>9. CASE Restore
    BY <2>9, RestoreKeeps
  <2> QED BY <1>2, <2>1, <2>2, <2>3, <2>4, <2>5, <2>6, <2>7, <2>8, <2>9 DEF Host
<1>3. CASE \E timerBudget \in TimerBudgets, eventBudget \in EventBudgets :
             BeginStep(timerBudget, eventBudget)
  BY <1>3, BeginStepKeeps
<1>4. CASE Drain
  <2>1. CASE FireTimer
    BY <2>1, FireTimerKeeps
  <2>2. CASE EndTimers
    BY <2>2, EndTimersKeeps
  <2>3. CASE DispatchTimer
    BY <2>3, DispatchTimerKeeps
  <2>4. CASE EndCalls
    BY <2>4, EndCallsKeeps
  <2>5. CASE DispatchEvent
    BY <2>5, DispatchEventKeeps
  <2>6. CASE EndStep
    BY <2>6, EndStepKeeps
  <2> QED BY <1>4, <2>1, <2>2, <2>3, <2>4, <2>5, <2>6 DEF Drain
<1> QED BY <1>1, <1>2, <1>3, <1>4 DEF Next

\* The inductive invariant holds throughout: the tables of the gameplay host, its queues
\* and what a step has taken from them are as described at the head of this module.
THEOREM Invariance == Spec => []IInv
<1>1. Init => IInv
  BY Initial
<1>2. IInv /\ [Next]_vars => IInv'
  BY Step
<1> QED BY <1>1, <1>2, PTL DEF Spec

\* A timer is at one place of its sequence.
LEMMA OnePlace ==
  ASSUME TypeOK, Owned, NEW s \in DOMAIN sequences
  PROVE  /\ \A i \in 1 .. Len(sequences[s]) :
              /\ sequences[s][i] \in DOMAIN timerToSequence /\ sequences[s][i] \in Nat
              /\ timerToSequence[sequences[s][i]] = s
              /\ sequences[s][i] \in DOMAIN timerToPayload
         /\ \A i, j \in 1 .. Len(sequences[s]) : sequences[s][i] = sequences[s][j] => i = j
<1> DEFINE list == sequences[s]
<1>1. list \in Seq(Timers)
  BY DEF TypeOK, IsMap
<1>2. Elements(list) = {t \in DOMAIN timerToSequence : timerToSequence[t] = s}
      /\ \A i, j \in 1 .. Len(list) : i < j => list[i] < list[j]
  BY DEF Owned
<1> HIDE DEF list
<1>3. ASSUME NEW i \in 1 .. Len(list)
      PROVE  /\ list[i] \in DOMAIN timerToSequence /\ list[i] \in Nat
             /\ timerToSequence[list[i]] = s /\ list[i] \in DOMAIN timerToPayload
  <2>1. list[i] \in Timers
    BY <1>1, ElementOfSeq
  <2>2. list[i] \in Elements(list)
    BY DEF Elements
  <2> QED BY <1>2, <2>1, <2>2, Numbers DEF Owned
<1>4. ASSUME NEW i \in 1 .. Len(list), NEW j \in 1 .. Len(list), list[i] = list[j]
      PROVE  i = j
  <2>1. list[i] \in Nat /\ ~(list[i] < list[j]) /\ ~(list[j] < list[i])
    BY <1>3, <1>4
  <2>2. i \in Int /\ j \in Int /\ ~(i < j) /\ ~(j < i)
    BY <1>2, <2>1
  <2> QED BY <2>2
<1> QED BY <1>3, <1>4 DEF list

LEMMA SnapshotsFit ==
  ASSUME IInv
  PROVE  SnapshotRestorable
<1> SUFFICES ASSUME phase = "Idle", expired = {} PROVE Acceptable
  BY DEF SnapshotRestorable
<1>1. TypeOK /\ Known /\ Numbered /\ LastFirings /\ Owned /\ nextPayload = nextTimer
      /\ nextTimer \in Int /\ nextSequence \in Int /\ nextSubscription \in Int
  BY DEF IInv, Typed, TypeOK
<1>2. DOMAIN timerToPayload = DOMAIN tasks
  <2>1. fired = <<>>
    BY <1>1 DEF LastFirings
  <2>2. Finishing = {}
    BY <2>1, NoneFinishing
  <2> QED BY <1>1, <2>2 DEF LastFirings
<1>3. /\ DOMAIN calls = DOMAIN tasks
      /\ \A t \in DOMAIN tasks : calls[t] = t /\ tasks[t].payload = t
  BY <1>1, <1>2 DEF Numbered
<1>4. \A t \in DOMAIN tasks : t < nextTimer
  <2>1. DOMAIN tasks \subseteq 1 .. nextTimer - 1
    BY <1>1, <1>2 DEF Known
  <2> QED BY <1>1, <2>1
<1>5. \A p \in DOMAIN calls :
         /\ p < nextPayload /\ calls[p] \in DOMAIN tasks /\ tasks[calls[p]].payload = p
         /\ \A q \in DOMAIN calls : calls[p] = calls[q] => p = q
  BY <1>1, <1>3, <1>4
<1>6. ASSUME NEW s \in DOMAIN sequences
      PROVE  /\ s < nextSequence /\ sequences[s] # <<>>
             /\ \A i \in 1 .. Len(sequences[s]) :
                  /\ \E p \in DOMAIN calls : calls[p] = sequences[s][i]
                  /\ \A r \in DOMAIN sequences : \A j \in 1 .. Len(sequences[r]) :
                       sequences[r][j] = sequences[s][i] => r = s /\ j = i
  <2>1. s < nextSequence
    <3>1. s \in 1 .. nextSequence - 1
      BY <1>1 DEF Known
    <3> QED BY <1>1, <3>1
  <2>2. sequences[s] # <<>>
    BY <1>1 DEF Owned
  <2>3. ASSUME NEW i \in 1 .. Len(sequences[s])
        PROVE  \E p \in DOMAIN calls : calls[p] = sequences[s][i]
    BY <1>1, <1>2, <1>3, OnePlace
  <2>4. ASSUME NEW i \in 1 .. Len(sequences[s]), NEW r \in DOMAIN sequences,
               NEW j \in 1 .. Len(sequences[r]), sequences[r][j] = sequences[s][i]
        PROVE  r = s /\ j = i
    <3>1. timerToSequence[sequences[s][i]] = s /\ timerToSequence[sequences[r][j]] = r
      BY <1>1, OnePlace
    <3>2. r = s
      BY <2>4, <3>1
    <3> QED BY <1>1, <2>4, <3>2, OnePlace
  <2> QED BY <2>1, <2>2, <2>3, <2>4
<1>7. \A s \in DOMAIN subscriptions : s < nextSubscription
  <2>1. DOMAIN subscriptions \subseteq 1 .. nextSubscription - 1
    BY <1>1 DEF Known
  <2> QED BY <1>1, <2>1
<1>8. \A e \in events : e.id < nextEvent
  BY <1>1 DEF Known
<1> QED BY <1>4, <1>5, <1>6, <1>7, <1>8 DEF Acceptable

\* The six tables of calls, timers and sequences and the queue of the scheduler agree, in
\* every state a host with any number of timers and sequences can reach, and a snapshot
\* taken between two steps can be restored as long as no repetition has overflowed.
THEOREM TablesAgree == Spec => []BooksExact
<1>1. ASSUME IInv PROVE BooksExact
  <2>1. TypeOK /\ Numbered /\ LastFirings /\ Owned /\ QueueExact
    BY <1>1 DEF IInv, Typed
  <2>2. CallsExact
    <3>1. \A t \in DOMAIN tasks : t \in DOMAIN timerToPayload
      BY <2>1 DEF LastFirings
    <3> QED BY <2>1, <3>1 DEF CallsExact, Numbered, LastFirings
  <2>3. SequencesExact
    <3>1. \A t \in DOMAIN timerToSequence :
            /\ t \in DOMAIN timerToPayload /\ timerToSequence[t] \in DOMAIN sequences
            /\ t \in Elements(sequences[timerToSequence[t]])
      BY <2>1 DEF Owned
    <3>2. \A s \in DOMAIN sequences : sequences[s] # <<>>
      BY <2>1 DEF Owned
    <3> QED BY <2>1, <3>1, <3>2, OnePlace DEF SequencesExact
  <2> QED BY <1>1, <2>1, <2>2, <2>3, SnapshotsFit DEF BooksExact
<1> QED BY <1>1, Invariance, PTL

\* Within a batch calls are in the order of their due ticks, then of their timers, events
\* or subscribers, and everything that is still queued comes after what was dispatched.
THEOREM DispatchedInOrder == Spec => []DispatchOrder
<1>1. IInv => DispatchOrder
  BY DEF IInv
<1> QED BY <1>1, Invariance, PTL

LEMMA ApartByTheLead ==
  ASSUME NEW a \in Tasks, NEW b \in Tasks, Apart(a, b), a.interval > 0
  PROVE  /\ a.due - b.due < a.interval /\ -(a.due - b.due) < a.interval
         /\ a.due - b.due <= 0 => a.remaining = b.remaining
         /\ a.due - b.due > 0 => a.remaining = RepeatForever \/ a.remaining = b.remaining - 1
<1>1. /\ a.due \in Nat /\ b.due \in Nat /\ a.interval \in Nat
      /\ a.remaining \in Nat /\ b.remaining \in Nat
  BY Numbers DEF Tasks
<1>2. CASE a.due <= b.due /\ b.due - a.due < a.interval /\ a.remaining = b.remaining
  BY <1>1, <1>2
<1>3. CASE /\ b.due < a.due /\ a.due - b.due < a.interval
           /\ b.remaining = IF a.remaining = RepeatForever THEN a.remaining ELSE a.remaining + 1
  BY <1>1, <1>3
<1> QED BY <1>2, <1>3 DEF Apart

\* The steps of a repeating sequence do not lap one another, whatever is cancelled and
\* however far the budgets let the dispatches fall behind.
THEOREM SequencesKeepTime == Spec => []StepsInterleave
<1>1. ASSUME IInv, NEW s \in DOMAIN sequences, NEW i \in 1 .. Len(sequences[s]),
             NEW j \in 1 .. Len(sequences[s]), i < j,
             sequences[s][i] \in DOMAIN tasks, sequences[s][j] \in DOMAIN tasks,
             Repeating(tasks[sequences[s][i]].remaining)
      PROVE  LET a == tasks[sequences[s][i]]
                 b == tasks[sequences[s][j]]
             IN  /\ a.due - b.due < a.interval /\ -(a.due - b.due) < a.interval
                 /\ a.due - b.due <= 0 => a.remaining = b.remaining
                 /\ a.due - b.due > 0 => a.remaining = RepeatForever
                                           \/ a.remaining = b.remaining - 1
  <2> DEFINE t == sequences[s][i]
             u == sequences[s][j]
  <2>1. TypeOK /\ Owned /\ Interleaved
    BY <1>1 DEF IInv, Typed
  <2>2. /\ t \in DOMAIN timerToSequence /\ u \in DOMAIN timerToSequence
        /\ timerToSequence[t] = s /\ timerToSequence[u] = s
    BY <2>1, OnePlace
  <2>3. t < u
    BY <1>1, <2>1 DEF Owned
  <2>4. t \in DOMAIN tasks /\ u \in DOMAIN tasks /\ Repeating(tasks[t].remaining)
    BY <1>1
  <2> HIDE DEF t, u
  <2>5. Apart(tasks[t], tasks[u]) /\ tasks[t].interval > 0
    BY <2>1, <2>2, <2>3, <2>4 DEF Interleaved
  <2>6. tasks[t] \in Tasks /\ tasks[u] \in Tasks
    BY <2>1, <2>4, TasksTyped
  <2>7. /\ tasks[t].due - tasks[u].due < tasks[t].interval
        /\ -(tasks[t].due - tasks[u].due) < tasks[t].interval
        /\ tasks[t].due - tasks[u].due <= 0 => tasks[t].remaining = tasks[u].remaining
        /\ tasks[t].due - tasks[u].due > 0 => tasks[t].remaining = RepeatForever
                                                \/ tasks[t].remaining = tasks[u].remaining - 1
    BY <2>5, <2>6, ApartByTheLead
  <2> QED BY <2>7 DEF t, u
<1>2. IInv => StepsInterleave
  BY <1>1 DEF StepsInterleave
<1> QED BY <1>2, Invariance, PTL


=============================================================================
