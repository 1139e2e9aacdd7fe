--------------------------- MODULE FiberScheduler ---------------------------
(***************************************************************************)
(* The cooperative fiber scheduler (src/runtime/FiberScheduler.cpp): fiber *)
(* ids recycled through a free list, a timing wheel, a ready queue, a list *)
(* of fibers waiting for an event, and the instructions that move fibers   *)
(* between them.                                                           *)
(*                                                                         *)
(* One thread runs everything.  A call of stepTick is StepTick, then       *)
(* NextReady and one action per instruction until EndTick; the host calls  *)
(* the other operations between two ticks or, re-entering the scheduler,   *)
(* from onHostCommand.                                                     *)
(*                                                                         *)
(* A program is a constant.  Instructions that only compute are "Nop", and *)
(* a jump whose condition depends on registers, random numbers or the host *)
(* is a "Branch" that may go either way.  An unregistered program behaves  *)
(* as an empty one, that is as an entry point past the end of the code.    *)
(* The owner group, channel and key of an event are one Key.               *)
(***************************************************************************)
EXTENDS Lists

CONSTANTS
    MaxFibers,       \* bound on fibers_.size() - 1, within the reserved capacity
    WheelSlots,      \* WHEEL_SLOTS
    TickMod,         \* 2^32: ticks are unsigned and wrap
    Code,            \* the program: a function from 0 .. Len - 1 to instructions
    CallLimit,       \* callStack.size()
    SliceBudget,     \* instructions a fiber may execute in one tick
    Keys,            \* (owner group, channel, key) of an event
    Levels,          \* values an event may carry
    Entries,         \* entry points the host spawns at
    Redirects,       \* entry points the host interrupts to
    HostFibers,      \* bound on the live fibers when the host spawns one
    QueueLimit,      \* bound on the entries of all queues when the host calls
    Callbacks,       \* operations the host calls from onHostCommand
    TickSteps,       \* increments between two ticks the host passes
    LastTick         \* bound on the ticks; from TickMod on they wrap

\* "KillCaller" kills the fiber whose command is being handled, or one of its
\* ancestors.
Operations == {"Spawn", "Interrupt", "Kill", "KillCaller", "Notify"}

Ops == {"Nop", "Jump", "Branch", "Call", "Return", "Yield", "Wait", "Fork",
        "Kill", "SetUnbreakable", "HostCommand"}

CodePcs == DOMAIN Code
EndPc   == Cardinality(CodePcs)
Pcs     == 0 .. EndPc

ASSUME SchedulerAssumption ==
    /\ MaxFibers \in Nat \ {0}
    /\ WheelSlots \in Nat \ {0}
    /\ TickMod \in Nat \ {0}
    /\ TickMod % WheelSlots = 0
    /\ IsFiniteSet(CodePcs)
    /\ CodePcs = 0 .. EndPc - 1
    /\ \A p \in CodePcs :
        /\ Code[p].op \in Ops
        /\ Code[p].target \in Pcs
        /\ Code[p].ticks \subseteq 0 .. TickMod - 1
        /\ Code[p].key \in Keys
        /\ Code[p].level \in Nat
        /\ Code[p].flag \in BOOLEAN
    /\ CallLimit \in Nat
    /\ SliceBudget \in Nat
    /\ Keys # {}
    /\ Levels \subseteq Nat
    /\ Entries \subseteq Pcs
    /\ Redirects \subseteq Pcs
    /\ HostFibers \in Nat
    /\ QueueLimit \in Nat
    /\ Callbacks \subseteq Operations
    /\ TickSteps \subseteq Nat
    /\ LastTick \in Nat

Ids   == 1 .. MaxFibers
Ticks == 0 .. TickMod - 1
Slot(t) == t % WheelSlots

VARIABLES
    count,          \* fibers_.size() - 1
    status,         \* FiberContext::status
    parent,         \* parentFiberId, 0 for none
    pc,
    callStack,
    unbreakable,    \* unbreakableSection
    wakeTick,
    waitFor,        \* the key and the level a fiber waits for
    freeIds,        \* freeFiberIds_, reused from the back
    readyQueue,
    wheel,          \* timingWheel_
    waiters,        \* predicateWaitList_
    tick,           \* currentTick_
    index,          \* readyQueue_ entries taken by the running stepTick
    stepping,       \* inside stepTick
    running,        \* the fiber whose slice is executed, 0 for none
    budget,         \* sliceBudget
    inCallback      \* inside onHostCommand

fiberVars == <<parent, pc, callStack, unbreakable, waitFor>>
queueVars == <<readyQueue, wheel, waiters>>
sliceVars == <<index, stepping, running, budget, inCallback>>
vars == <<count, status, fiberVars, wakeTick, freeIds, queueVars, tick, sliceVars>>

Live(f) == status[f] \in {"Ready", "Sleeping", "Waiting"}
LiveIds == {f \in Ids : Live(f)}

-----------------------------------------------------------------------------
Init ==
    /\ count = 0
    /\ status = [f \in Ids |-> "Inactive"]
    /\ parent = [f \in Ids |-> 0]
    /\ pc = [f \in Ids |-> 0]
    /\ callStack = [f \in Ids |-> <<>>]
    /\ unbreakable = [f \in Ids |-> FALSE]
    /\ wakeTick = [f \in Ids |-> 0]
    /\ waitFor \in [Ids -> {[key |-> k, level |-> 0] : k \in {CHOOSE k \in Keys : TRUE}}]
    /\ freeIds = <<>>
    /\ readyQueue = <<>>
    /\ wheel = [s \in 0 .. WheelSlots - 1 |-> <<>>]
    /\ waiters = <<>>
    /\ tick = 0
    /\ index = 0
    /\ stepping = FALSE
    /\ running = 0
    /\ budget = 0
    /\ inCallback = FALSE

-----------------------------------------------------------------------------
(* What the operations and the instructions share. *)

\* The id the next spawn takes: the last freed one, else a new one.
NextId == IF freeIds # <<>> THEN freeIds[Len(freeIds)] ELSE count + 1

\* Fault: a recycled id stays in the free list.
SpawnKeepsFreeId(entry, parentId) ==
    /\ NextId \in Ids
    /\ count' = IF freeIds # <<>> THEN count ELSE count + 1
    /\ freeIds' = freeIds
    /\ parent' = [parent EXCEPT ![NextId] = parentId]
    /\ callStack' = [callStack EXCEPT ![NextId] = <<>>]
    /\ unbreakable' = [unbreakable EXCEPT ![NextId] = FALSE]
    /\ readyQueue' = Append(readyQueue, NextId)

\* spawnFiberByProgram: the context of the id is overwritten.
SpawnFiber(entry, parentId) ==
    /\ NextId \in Ids
    /\ IF freeIds # <<>>
       THEN freeIds' = SubSeq(freeIds, 1, Len(freeIds) - 1) /\ count' = count
       ELSE freeIds' = freeIds /\ count' = count + 1
    /\ parent' = [parent EXCEPT ![NextId] = parentId]
    /\ callStack' = [callStack EXCEPT ![NextId] = <<>>]
    /\ unbreakable' = [unbreakable EXCEPT ![NextId] = FALSE]
    /\ readyQueue' = Append(readyQueue, NextId)

\* The live fibers below f: the smallest set with f and the live children of
\* its members.
Tree(f) ==
    {g \in LiveIds :
        \A S \in SUBSET LiveIds :
            f \in S /\ (\A h \in LiveIds : parent[h] \in S => h \in S) => g \in S}

\* The order of killFiberTree's recursion: a fiber before its descendants,
\* siblings and their trees by id.
KilledBefore(g, h) ==
    \/ h \in Tree(g)
    \/ \E a, b \in LiveIds :
        parent[a] = parent[b] /\ a < b /\ g \in Tree(a) /\ h \in Tree(b)

\* killFiberTree: the tree is terminated and its ids are free at once; entries
\* in the queues and the wheel stay.
KillFiberTree(f) ==
    IF ~Live(f)
    THEN UNCHANGED <<status, unbreakable, freeIds>>
    ELSE LET killed == Tree(f) IN
         /\ status' = [g \in Ids |-> IF g \in killed THEN "Terminated" ELSE status[g]]
         /\ unbreakable' = [g \in Ids |-> g \notin killed /\ unbreakable[g]]
         /\ \E order \in [1 .. Cardinality(killed) -> killed] :
                /\ Elements(order) = killed
                /\ \A i, j \in DOMAIN order :
                    i < j => order[i] # order[j] /\ KilledBefore(order[i], order[j])
                /\ freeIds' = freeIds \o order

\* scheduleAtTick; the sum wraps.
ScheduleAtTick(f, ticks) ==
    LET at == (tick + ticks) % TickMod IN
    /\ wakeTick' = [wakeTick EXCEPT ![f] = at]
    /\ wheel' = [wheel EXCEPT ![Slot(at)] = Append(@, f)]

-----------------------------------------------------------------------------
(* The operations of the host. *)

HostMayCall(operation) ==
    /\ ~stepping \/ (inCallback /\ operation \in Callbacks)
    /\ Len(readyQueue) + Len(waiters)
        + Cardinality(UNION {{s} \X DOMAIN wheel[s] : s \in DOMAIN wheel}) < QueueLimit

\* spawnFiber with a parent the host knows to be alive.
Spawn(entry, parentId) ==
    /\ HostMayCall("Spawn")
    /\ Cardinality(LiveIds) < HostFibers
    /\ parentId \in LiveIds \cup {0}
    /\ SpawnFiber(entry, parentId)
    /\ status' = [status EXCEPT ![NextId] = "Ready"]
    /\ pc' = [pc EXCEPT ![NextId] = entry]
    /\ wakeTick' = [wakeTick EXCEPT ![NextId] = tick]
    /\ UNCHANGED <<waitFor, wheel, waiters, tick, sliceVars>>

\* interruptFiber; the entries of the wheel and of the waiters stay.
Interrupt(f, entry, force) ==
    /\ HostMayCall("Interrupt")
    /\ Live(f)
    /\ unbreakable[f] => force
    /\ pc' = [pc EXCEPT ![f] = entry]
    /\ callStack' = [callStack EXCEPT ![f] = <<>>]
    /\ status' = [status EXCEPT ![f] = "Ready"]
    /\ readyQueue' = IF status[f] = "Ready" THEN readyQueue ELSE Append(readyQueue, f)
    /\ UNCHANGED <<count, parent, unbreakable, waitFor, wakeTick, freeIds, wheel, waiters,
                   tick, sliceVars>>

Kill(f) ==
    /\ HostMayCall(IF running # 0 /\ running \in Tree(f) THEN "KillCaller" ELSE "Kill")
    /\ KillFiberTree(f)
    /\ UNCHANGED <<count, parent, pc, callStack, waitFor, wakeTick, queueVars, tick, sliceVars>>

Satisfied(f, key, level) ==
    status[f] = "Waiting" /\ waitFor[f].key = key /\ level >= waitFor[f].level

\* notifyBlackboardEvent: entries of fibers that no longer wait are dropped.
Notify(key, level) ==
    LET woken == {f \in Elements(waiters) : Satisfied(f, key, level)}
        stay  == {f \in Ids : status[f] = "Waiting"} \ woken
    IN
    /\ HostMayCall("Notify")
    /\ status' = [f \in Ids |-> IF f \in woken THEN "Ready" ELSE status[f]]
    /\ readyQueue' = readyQueue \o Firsts(waiters, woken)
    /\ waiters' = Filtered(waiters, stay)
    /\ UNCHANGED <<count, fiberVars, wakeTick, freeIds, wheel, tick, sliceVars>>

\* Fault: the waiting fibers are not put back.
RestoreWithoutWaiters ==
    /\ ~stepping
    /\ readyQueue' = Ascending({f \in Ids : status[f] = "Ready"})
    /\ waiters' = <<>>
    /\ freeIds' = Ascending({f \in Ids : status[f] = "Terminated"})
    /\ wheel' = [s \in DOMAIN wheel |->
                    Ascending({f \in Ids : status[f] = "Sleeping" /\ Slot(wakeTick[f]) = s})]
    /\ UNCHANGED <<count, status, fiberVars, wakeTick, tick, sliceVars>>

\* captureBinarySnapshot then restoreBinarySnapshot: the contexts survive and
\* every queue is rebuilt from them.  What follows the restoration of an older
\* snapshot is what follows this action in the state that was captured.
Restore ==
    /\ ~stepping
    /\ readyQueue' = Ascending({f \in Ids : status[f] = "Ready"})
    /\ waiters' = Ascending({f \in Ids : status[f] = "Waiting"})
    /\ freeIds' = Ascending({f \in Ids : status[f] = "Terminated"})
    /\ wheel' = [s \in DOMAIN wheel |->
                    Ascending({f \in Ids : status[f] = "Sleeping" /\ Slot(wakeTick[f]) = s})]
    /\ UNCHANGED <<count, status, fiberVars, wakeTick, tick, sliceVars>>

-----------------------------------------------------------------------------
(* stepTick. *)

\* Fault: whatever sleeps in the bucket is due.
AnySleeper(f, now) == status[f] = "Sleeping"

\* Fault: a fiber is due after its tick.
DueAfter(f, now) == status[f] = "Sleeping" /\ wakeTick[f] < now

Due(f, now) == status[f] = "Sleeping" /\ wakeTick[f] <= now

\* The bucket of the tick is emptied of the fibers that are due and of stale
\* entries; long waits stay in it.
StepTick ==
    /\ ~stepping
    /\ tick < LastTick
    /\ \E step \in TickSteps :
        LET now    == (tick + step) % TickMod
            bucket == wheel[Slot(now)]
            woken  == {f \in Elements(bucket) : Due(f, now)}
            stay   == {f \in Ids : status[f] = "Sleeping"} \ woken
        IN
        /\ tick' = now
        /\ status' = [f \in Ids |-> IF f \in woken THEN "Ready" ELSE status[f]]
        /\ readyQueue' = readyQueue \o Firsts(bucket, woken)
        /\ wheel' = [wheel EXCEPT ![Slot(now)] = Filtered(bucket, stay)]
    /\ stepping' = TRUE
    /\ UNCHANGED <<count, fiberVars, wakeTick, freeIds, waiters, index, running, budget,
                   inCallback>>

\* The next entry of the ready queue; one whose fiber is not ready is skipped.
NextReady ==
    /\ stepping
    /\ running = 0
    /\ index < Len(readyQueue)
    /\ index' = index + 1
    /\ IF status[readyQueue[index + 1]] = "Ready"
       THEN running' = readyQueue[index + 1] /\ budget' = SliceBudget
       ELSE UNCHANGED <<running, budget>>
    /\ UNCHANGED <<count, status, fiberVars, wakeTick, freeIds, queueVars, tick, stepping,
                   inCallback>>

EndTick ==
    /\ stepping
    /\ running = 0
    /\ index >= Len(readyQueue)
    /\ readyQueue' = <<>>
    /\ index' = 0
    /\ stepping' = FALSE
    /\ UNCHANGED <<count, status, fiberVars, wakeTick, freeIds, wheel, waiters, tick, running,
                   budget, inCallback>>

-----------------------------------------------------------------------------
(* executeFiberSlice: one action per kind of instruction. *)

\* Fault: instructions cost nothing.
ExecutesFree(op) ==
    /\ running # 0
    /\ ~inCallback
    /\ budget > 0
    /\ pc[running] \in CodePcs
    /\ Code[pc[running]].op = op
    /\ budget' = budget

\* The running fiber executes an instruction of this kind.
Executes(op) ==
    /\ running # 0
    /\ ~inCallback
    /\ budget > 0
    /\ pc[running] \in CodePcs
    /\ Code[pc[running]].op = op
    /\ budget' = budget - 1

Instruction == Code[pc[running]]

Continue == UNCHANGED <<index, stepping, running, inCallback>>

Leave == running' = 0 /\ UNCHANGED <<index, stepping, inCallback>>

GoTo(target) == pc' = [pc EXCEPT ![running] = target]

Advance == GoTo(pc[running] + 1)

\* Instructions that only move the program counter.
Step ==
    /\ \/ Executes("Nop") /\ Advance
       \/ Executes("Jump") /\ GoTo(Instruction.target)
       \/ Executes("Branch") /\ (Advance \/ GoTo(Instruction.target))
    /\ Continue
    /\ UNCHANGED <<count, status, parent, callStack, unbreakable, waitFor, wakeTick, freeIds,
                   queueVars, tick>>

\* A call on a full call stack is skipped.
Call ==
    /\ Executes("Call")
    /\ IF Len(callStack[running]) < CallLimit
       THEN /\ callStack' = [callStack EXCEPT ![running] = Append(@, pc[running] + 1)]
            /\ GoTo(Instruction.target)
       ELSE Advance /\ UNCHANGED callStack
    /\ Continue
    /\ UNCHANGED <<count, status, parent, unbreakable, waitFor, wakeTick, freeIds, queueVars,
                   tick>>

Return ==
    /\ Executes("Return")
    /\ callStack[running] # <<>>
    /\ LET stack == callStack[running] IN
        /\ GoTo(stack[Len(stack)])
        /\ callStack' = [callStack EXCEPT ![running] = SubSeq(stack, 1, Len(stack) - 1)]
    /\ Continue
    /\ UNCHANGED <<count, status, parent, unbreakable, waitFor, wakeTick, freeIds, queueVars,
                   tick>>

\* KillFiber, and a return from the outermost call.
Exit ==
    /\ Executes("Kill") \/ (Executes("Return") /\ callStack[running] = <<>>)
    /\ KillFiberTree(running)
    /\ Leave
    /\ UNCHANGED <<count, parent, pc, callStack, waitFor, wakeTick, queueVars, tick>>

\* YieldTicks, of at least one tick.
Yield ==
    /\ Executes("Yield")
    /\ \E ticks \in Instruction.ticks :
        ScheduleAtTick(running, IF ticks > 0 THEN ticks ELSE 1)
    /\ status' = [status EXCEPT ![running] = "Sleeping"]
    /\ Advance
    /\ Leave
    /\ UNCHANGED <<count, parent, callStack, unbreakable, waitFor, freeIds, readyQueue,
                   waiters, tick>>

\* YieldUntilPredicate.
Wait ==
    /\ Executes("Wait")
    /\ status' = [status EXCEPT ![running] = "Waiting"]
    /\ waitFor' = [waitFor EXCEPT ![running] =
                    [key |-> Instruction.key, level |-> Instruction.level]]
    /\ waiters' = Append(waiters, running)
    /\ Advance
    /\ Leave
    /\ UNCHANGED <<count, parent, callStack, unbreakable, wakeTick, freeIds, readyQueue,
                   wheel, tick>>

\* ForkFiber: the parent sleeps to the next tick, the child runs in this one.
Fork ==
    /\ Executes("Fork")
    /\ LET at == (tick + 1) % TickMod IN
        /\ wheel' = [wheel EXCEPT ![Slot(at)] = Append(@, running)]
        /\ SpawnFiber(Instruction.target, running)
        /\ status' = [status EXCEPT ![running] = "Sleeping", ![NextId] = "Ready"]
        /\ wakeTick' = [wakeTick EXCEPT ![running] = at, ![NextId] = tick]
        /\ pc' = [pc EXCEPT ![running] = @ + 1, ![NextId] = Instruction.target]
    /\ Leave
    /\ UNCHANGED <<waitFor, waiters, tick>>

SetUnbreakable ==
    /\ Executes("SetUnbreakable")
    /\ unbreakable' = [unbreakable EXCEPT ![running] = Instruction.flag]
    /\ Advance
    /\ Continue
    /\ UNCHANGED <<count, status, parent, callStack, waitFor, wakeTick, freeIds, queueVars,
                   tick>>

\* The host is called and may call the scheduler before it returns.
HostCommand ==
    /\ Executes("HostCommand")
    /\ inCallback' = TRUE
    /\ UNCHANGED <<count, status, fiberVars, wakeTick, freeIds, queueVars, tick, index,
                   stepping, running>>

HostReturns ==
    /\ inCallback
    /\ inCallback' = FALSE
    /\ pc' = [pc EXCEPT ![running] = IF @ < EndPc THEN @ + 1 ELSE @]
    /\ UNCHANGED <<count, status, parent, callStack, unbreakable, waitFor, wakeTick, freeIds,
                   queueVars, tick, index, stepping, running, budget>>

\* The end of the code kills the fiber; an exhausted budget makes it sleep to
\* the next tick.
EndSlice ==
    /\ running # 0
    /\ ~inCallback
    /\ IF pc[running] \notin CodePcs
       THEN KillFiberTree(running) /\ UNCHANGED <<wakeTick, wheel>>
       ELSE /\ budget = 0
            /\ IF status[running] = "Ready"
               THEN /\ ScheduleAtTick(running, 1)
                    /\ status' = [status EXCEPT ![running] = "Sleeping"]
               ELSE UNCHANGED <<wakeTick, wheel, status>>
            /\ UNCHANGED <<unbreakable, freeIds>>
    /\ Leave
    /\ UNCHANGED <<count, parent, pc, callStack, waitFor, readyQueue, waiters, tick, budget>>

-----------------------------------------------------------------------------
Host ==
    \/ \E entry \in Entries, p \in Ids \cup {0} : Spawn(entry, p)
    \/ \E f \in Ids, entry \in Redirects, force \in BOOLEAN : Interrupt(f, entry, force)
    \/ \E f \in Ids : Kill(f)
    \/ \E key \in Keys, level \in Levels : Notify(key, level)
    \/ Restore

Slice ==
    \/ NextReady \/ EndTick
    \/ Step \/ Call \/ Return \/ Exit \/ Yield \/ Wait \/ Fork \/ SetUnbreakable
    \/ HostCommand \/ HostReturns \/ EndSlice

Next == Host \/ StepTick \/ Slice

Spec == Init /\ [][Next]_vars

\* The game loop calls stepTick again and again, and a call runs to its end.
FairSpec == Spec /\ WF_vars(StepTick) /\ WF_vars(Slice)

-----------------------------------------------------------------------------
(* Properties. *)

TypeOK ==
    /\ count \in 0 .. MaxFibers
    /\ status \in [Ids -> {"Inactive", "Ready", "Sleeping", "Waiting", "Terminated"}]
    /\ parent \in [Ids -> Ids \cup {0}]
    /\ pc \in [Ids -> Pcs]
    /\ callStack \in [Ids -> Seq(Pcs)]
    /\ unbreakable \in [Ids -> BOOLEAN]
    /\ wakeTick \in [Ids -> Ticks]
    /\ waitFor \in [Ids -> [key : Keys, level : Nat]]
    /\ freeIds \in Seq(Ids)
    /\ readyQueue \in Seq(Ids)
    /\ wheel \in [0 .. WheelSlots - 1 -> Seq(Ids)]
    /\ waiters \in Seq(Ids)
    /\ tick \in Ticks
    /\ index \in 0 .. Len(readyQueue)
    /\ stepping \in BOOLEAN
    /\ running \in Ids \cup {0}
    /\ budget \in Nat
    /\ inCallback \in BOOLEAN

\* The free list is exactly the ids of the dead fibers, each once: no id is
\* handed to two live fibers and none is lost, however trees are killed and ids
\* recycled.
FreeIdsExact ==
    /\ \A i, j \in 1 .. Len(freeIds) : freeIds[i] = freeIds[j] => i = j
    /\ Elements(freeIds) = {f \in Ids : f <= count /\ ~Live(f)}

\* Ids and tables are sound (spawnFiber, killFiber, restore).
IdsExact == TypeOK /\ FreeIdsExact

\* No live fiber is forgotten: a sleeping fiber is in the bucket of its wake
\* tick, a waiting one among the waiters, and a ready one still has an entry the
\* drain of the ready queue will reach, whatever stale entries are around.
EntriesHold ==
    \A f \in Ids :
        /\ status[f] = "Sleeping" => f \in Elements(wheel[Slot(wakeTick[f])])
        /\ status[f] = "Waiting" => f \in Elements(waiters)
        /\ status[f] = "Ready" =>
            f = running \/ \E i \in index + 1 .. Len(readyQueue) : readyQueue[i] = f

\* A live fiber's parent is alive: killing a tree takes every descendant, and a
\* recycled id never adopts the children of the fiber that had it before.
OrphanFree == \A f \in LiveIds : parent[f] # 0 => Live(parent[f])

\* Every live fiber is where the tick loop and its family look for it
\* (scheduleAtTick, notifyBlackboardEvent, killFiberTree).
Scheduled == EntriesHold /\ OrphanFree

\* The fiber that executes is a ready one and its id is not free.
RunningIsLive == running # 0 => status[running] = "Ready"

\* The ticks a fiber still has to sleep.
Remaining(f) ==
    IF status[f] # "Sleeping" THEN 0
    ELSE IF wakeTick[f] = tick THEN TickMod
    ELSE (wakeTick[f] - tick) % TickMod

Clock == INSTANCE AlarmClock WITH
    Sleepers <- Ids, now <- tick, remaining <- [f \in Ids |-> Remaining(f)]

\* The wheel implements an alarm clock: no fiber wakes early or late, in spite of
\* the stale entries that interrupted and killed fibers leave in it.
WakesOnTime == Clock!Spec

\* A sleeping fiber wakes, if the host steps every tick and no sleep is longer
\* than a turn of the wheel.
SleepersWake == \A f \in Ids : status[f] = "Sleeping" ~> status[f] # "Sleeping"

\* A call of stepTick ends.
TickEnds == stepping ~> ~stepping

=============================================================================
