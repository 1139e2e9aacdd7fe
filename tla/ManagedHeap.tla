---------------------------- MODULE ManagedHeap ----------------------------
(***************************************************************************)
(* The incremental tri-color collector of the managed heap                 *)
(* (src/runtime/ManagedHeap.cpp).                                          *)
(*                                                                         *)
(* One thread owns a heap.  A call of step() is a burst of micro-steps     *)
(* (BeginStep, then one action per turn of its loop) during which the      *)
(* mutator waits; between two calls the mutator allocates, loads, stores   *)
(* and changes its roots in any order and any number of times.             *)
(*                                                                         *)
(* A managed value is abstracted to the SET of object references in it:    *)
(* {} is a primitive or a null, a singleton is an object, array or string  *)
(* reference, a larger set is a struct.  Every field of a payload that can *)
(* hold a reference is traced (the interpreter and the host builder put    *)
(* each of them in referenceFields), so payloads have traced fields only.  *)
(***************************************************************************)
EXTENDS Integers, Sequences, FiniteSets

CONSTANTS
    MaxSlots,           \* handle space: ObjectRef::InvalidSlot
    GenLimit,           \* last generation before the counter wraps to 1
    Fields,             \* traced fields of an object
    Sizes,              \* sizes in bytes an allocation may have
    Registers,          \* value slots of the shadow stack's frames
    MaxToken,           \* bound on the calls of addPersistentRoot
    StructWidth,        \* bound on the references in one value
    WorkBudget,         \* ExecutionLimits::gcWorkBudget of the caller of step
    WeakHandles,        \* may a host pass references it has not rooted?
    InitialThreshold,   \* HeapConfig::initialCollectionThresholdBytes
    MaximumHeap         \* HeapConfig::maximumHeapBytes

ASSUME HeapAssumption ==
    /\ MaxSlots \in Nat \ {0}
    /\ GenLimit \in Nat \ {0}
    /\ Sizes \subseteq Nat \ {0}
    /\ MaxToken \in Nat
    /\ StructWidth \in Nat
    /\ WorkBudget \in Nat \ {0}
    /\ WeakHandles \in BOOLEAN
    /\ InitialThreshold \in Nat \ {0}
    /\ MaximumHeap \in Nat
    /\ MaximumHeap >= InitialThreshold

Slots == 0 .. MaxSlots - 1
Ref   == [slot : Slots, gen : 1 .. GenLimit]
Value == SUBSET Ref
Token == 1 .. MaxToken

VARIABLES
    slotCount,        \* slots.size()
    live,             \* the slots that hold an object
    generation,       \* Slot::generation
    fields,           \* payload of each object
    sizeBytes,        \* Header::sizeBytes of each object
    marked,           \* the slots whose object has Header::marked
    freeSlots,        \* recycled slots, reused from the back
    markStack,        \* grey objects; their order is abstracted away
    registers,        \* the shadow stack
    persistentRoots,  \* a set of [token, value]
    nextRootToken,
    phase,
    requested,
    resumeSweep,
    sweepIndex,
    sweepLimit,
    liveBytes,
    nextThreshold,    \* nextCollectionThreshold
    work,             \* units left in the running call of step; 0 outside it
    full              \* progress of collectFull: "no", "drain" or "fresh"

objectVars == <<slotCount, live, generation, fields, sizeBytes, freeSlots, liveBytes>>
rootVars   == <<registers, persistentRoots, nextRootToken>>
colorVars  == <<marked, markStack>>
sweepVars  == <<resumeSweep, sweepIndex, sweepLimit>>
paceVars   == <<requested, nextThreshold>>
vars == <<objectVars, rootVars, colorVars, sweepVars, paceVars, phase, work, full>>

-----------------------------------------------------------------------------
(* The object graph. *)

\* Impl::get: a reference resolves while its slot holds the object that the
\* reference was issued for.
Resolves(r) == r.slot \in live /\ generation[r.slot] = r.gen

RootRefs ==
    (UNION {registers[r] : r \in Registers})
        \cup (UNION {p.value : p \in persistentRoots})

Children(s) == UNION {fields[s][f] : f \in Fields}

SlotsOf(R) == {r.slot : r \in R}

ClosedUnderChildren(S) ==
    \A s \in S : \A c \in Children(s) : Resolves(c) => c.slot \in S

\* The objects a root can reach: those in every closed set that contains the
\* objects the roots resolve to.
Reachable ==
    {s \in live :
        \A S \in SUBSET live :
            /\ SlotsOf({r \in RootRefs : Resolves(r)}) \subseteq S
            /\ ClosedUnderChildren(S)
            => s \in S}

-----------------------------------------------------------------------------
Init ==
    /\ slotCount = 0
    /\ live = {}
    /\ generation = [s \in Slots |-> 1]
    /\ fields = [s \in Slots |-> [f \in Fields |-> {}]]
    /\ sizeBytes = [s \in Slots |-> 0]
    /\ marked = {}
    /\ freeSlots = <<>>
    /\ markStack = {}
    /\ registers = [r \in Registers |-> {}]
    /\ persistentRoots = {}
    /\ nextRootToken = 1
    /\ phase = "Idle"
    /\ requested = FALSE
    /\ resumeSweep = FALSE
    /\ sweepIndex = 0
    /\ sweepLimit = 0
    /\ liveBytes = 0
    /\ nextThreshold = InitialThreshold
    /\ work = 0
    /\ full = "no"

\* The mutator runs only between two calls of step and outside collectFull.
MutatorTurn == work = 0 /\ full = "no"

-----------------------------------------------------------------------------
(* The mutator. *)

\* Impl::mark and markValue: white objects become grey.
White(R) == {r \in R : Resolves(r) /\ r.slot \notin marked}

MarkRefs(R) ==
    /\ marked' = marked \cup SlotsOf(White(R))
    /\ markStack' = markStack \cup White(R)

\* Fault: an object allocated during a collection is born white.
BornWhite(s, size, payload, d) ==
    LET ref == [slot |-> s, gen |-> generation[s]] IN
    /\ live' = live \cup {s}
    /\ fields' = [fields EXCEPT ![s] = payload]
    /\ sizeBytes' = [sizeBytes EXCEPT ![s] = size]
    /\ liveBytes' = liveBytes + size
    /\ requested' = (requested \/ liveBytes + size >= nextThreshold)
    /\ registers' = [registers EXCEPT ![d] = {ref}]
    /\ marked' = marked \ {s}
    /\ UNCHANGED <<markStack, phase, resumeSweep, generation, sweepIndex, sweepLimit,
                   nextThreshold, work, full, persistentRoots, nextRootToken>>

\* An object (s, g) born with the given payload: black-to-be and on the mark
\* stack while a collection runs, which sends a sweep back to marking.
Born(s, size, payload, d) ==
    LET ref == [slot |-> s, gen |-> generation[s]] IN
    /\ live' = live \cup {s}
    /\ fields' = [fields EXCEPT ![s] = payload]
    /\ sizeBytes' = [sizeBytes EXCEPT ![s] = size]
    /\ liveBytes' = liveBytes + size
    /\ requested' = (requested \/ liveBytes + size >= nextThreshold)
    /\ registers' = [registers EXCEPT ![d] = {ref}]
    /\ marked' = IF phase = "Idle" THEN marked \ {s} ELSE marked \cup {s}
    /\ markStack' = IF phase = "Idle" THEN markStack ELSE markStack \cup {ref}
    /\ phase' = IF phase = "Sweep" THEN "Mark" ELSE phase
    /\ resumeSweep' = (resumeSweep \/ phase = "Sweep")
    /\ UNCHANGED <<generation, sweepIndex, sweepLimit, nextThreshold, work, full,
                   persistentRoots, nextRootToken>>

\* Values an allocation may put in the new object's fields.
InitialPayloads == [Fields -> {{}} \cup {registers[r] : r \in Registers}]

AllocateReused(d, size, payload) ==
    /\ freeSlots # <<>>
    /\ freeSlots' = SubSeq(freeSlots, 1, Len(freeSlots) - 1)
    /\ slotCount' = slotCount
    /\ Born(freeSlots[Len(freeSlots)], size, payload, d)

AllocateNew(d, size, payload) ==
    /\ freeSlots = <<>>
    /\ slotCount < MaxSlots
    /\ slotCount' = slotCount + 1
    /\ freeSlots' = freeSlots
    /\ Born(slotCount, size, payload, d)

Allocate(d) ==
    /\ MutatorTurn
    /\ \E size \in Sizes, payload \in InitialPayloads :
        /\ liveBytes + size <= MaximumHeap
        /\ AllocateReused(d, size, payload) \/ AllocateNew(d, size, payload)

\* The out-of-memory exit asks for a collection and allocates nothing.
AllocateFails ==
    /\ MutatorTurn
    /\ \E size \in Sizes : liveBytes + size > MaximumHeap
    /\ requested' = TRUE
    /\ UNCHANGED <<objectVars, rootVars, colorVars, sweepVars, nextThreshold,
                   phase, work, full>>

\* A register takes a value built from references the registers hold (a move,
\* a struct built or taken apart) or {} (a primitive, or its frame is popped).
SetRegister(d) ==
    /\ MutatorTurn
    /\ \E v \in SUBSET UNION {registers[r] : r \in Registers} :
        /\ Cardinality(v) <= StructWidth
        /\ registers' = [registers EXCEPT ![d] = v]
    /\ UNCHANGED <<objectVars, persistentRoots, nextRootToken, colorVars, sweepVars,
                   paceVars, phase, work, full>>

\* arrayGet and fieldGet.
Load(d, o, f) ==
    /\ MutatorTurn
    /\ \E r \in registers[o] :
        /\ Resolves(r)
        /\ registers' = [registers EXCEPT ![d] = fields[r.slot][f]]
    /\ UNCHANGED <<objectVars, persistentRoots, nextRootToken, colorVars, sweepVars,
                   paceVars, phase, work, full>>

\* A host invokes a script with an ObjectRef it kept without rooting it: any
\* object the collector has not reclaimed yet comes back to the shadow stack.
PassUnrooted(d) ==
    /\ MutatorTurn
    /\ WeakHandles
    /\ \E s \in live :
        registers' = [registers EXCEPT ![d] = {[slot |-> s, gen |-> generation[s]]}]
    /\ UNCHANGED <<objectVars, persistentRoots, nextRootToken, colorVars, sweepVars,
                   paceVars, phase, work, full>>

\* Fault: no write barrier.
NoBarrier(s, v) == UNCHANGED <<colorVars, phase, resumeSweep>>

\* Impl::writeBarrier: a value stored into a marked owner is marked.
WriteBarrier(s, v) ==
    IF phase = "Idle" \/ s \notin marked
    THEN UNCHANGED <<colorVars, phase, resumeSweep>>
    ELSE LET back == phase = "Sweep" /\ (markStack # {} \/ White(v) # {}) IN
         /\ MarkRefs(v)
         /\ phase' = IF back THEN "Mark" ELSE phase
         /\ resumeSweep' = (resumeSweep \/ back)

\* arraySet and fieldSet: the barrier, then the store.
Store(o, f) ==
    /\ MutatorTurn
    /\ \E r \in registers[o], v \in {{}} \cup {registers[x] : x \in Registers} :
        /\ Resolves(r)
        /\ WriteBarrier(r.slot, v)
        /\ fields' = [fields EXCEPT ![r.slot][f] = v]
    /\ UNCHANGED <<slotCount, live, generation, sizeBytes, freeSlots, liveBytes,
                   rootVars, sweepIndex, sweepLimit, paceVars, work, full>>

\* addPersistentRoot: validRootValue, then the next token.
AddPersistentRoot(o) ==
    /\ MutatorTurn
    /\ nextRootToken <= MaxToken
    /\ \A r \in registers[o] : Resolves(r)
    /\ persistentRoots' = persistentRoots
                            \cup {[token |-> nextRootToken, value |-> registers[o]]}
    /\ nextRootToken' = nextRootToken + 1
    /\ UNCHANGED <<objectVars, registers, colorVars, sweepVars, paceVars, phase, work, full>>

UpdatePersistentRoot(p, o) ==
    /\ MutatorTurn
    /\ \A r \in registers[o] : Resolves(r)
    /\ persistentRoots' = (persistentRoots \ {p})
                            \cup {[token |-> p.token, value |-> registers[o]]}
    /\ UNCHANGED <<objectVars, registers, nextRootToken, colorVars, sweepVars, paceVars,
                   phase, work, full>>

RemovePersistentRoot(p) ==
    /\ MutatorTurn
    /\ persistentRoots' = persistentRoots \ {p}
    /\ UNCHANGED <<objectVars, registers, nextRootToken, colorVars, sweepVars, paceVars,
                   phase, work, full>>

RequestCollection ==
    /\ MutatorTurn
    /\ requested' = TRUE
    /\ UNCHANGED <<objectVars, rootVars, colorVars, sweepVars, nextThreshold, phase,
                   work, full>>

-----------------------------------------------------------------------------
(* One call of step(). *)

Budget == IF full = "no" THEN WorkBudget ELSE slotCount + 1

\* Fault: a request restarts a collection that is already running.
RestartCollection ==
    /\ work = 0
    /\ requested
    /\ marked' = SlotsOf({r \in RootRefs : Resolves(r)})
    /\ markStack' = {r \in RootRefs : Resolves(r)}
    /\ sweepIndex' = 0
    /\ sweepLimit' = slotCount
    /\ resumeSweep' = FALSE
    /\ phase' = "Mark"
    /\ work' = Budget
    /\ UNCHANGED <<objectVars, rootVars, paceVars, full>>

\* Fault: the marks of the last collection are not cleared.
StartWithOldMarks ==
    /\ work = 0
    /\ phase = "Idle"
    /\ requested
    /\ MarkRefs(RootRefs)
    /\ sweepIndex' = 0
    /\ sweepLimit' = slotCount
    /\ resumeSweep' = FALSE
    /\ phase' = "Mark"
    /\ work' = Budget
    /\ UNCHANGED <<objectVars, rootVars, paceVars, full>>

\* step() on an idle heap with a pending request: startCollection.
StartCollection ==
    /\ work = 0
    /\ phase = "Idle"
    /\ requested
    /\ marked' = SlotsOf({r \in RootRefs : Resolves(r)})
    /\ markStack' = {r \in RootRefs : Resolves(r)}
    /\ sweepIndex' = 0
    /\ sweepLimit' = slotCount
    /\ resumeSweep' = FALSE
    /\ phase' = "Mark"
    /\ work' = Budget
    /\ UNCHANGED <<objectVars, rootVars, paceVars, full>>

\* Fault: the roots are marked only when a collection starts.
ContinueWithoutRoots ==
    /\ work = 0
    /\ phase # "Idle"
    /\ work' = Budget
    /\ UNCHANGED <<objectVars, rootVars, colorVars, sweepVars, paceVars, phase, full>>

\* step() during a collection: the roots are marked again.
ContinueCollection ==
    /\ work = 0
    /\ phase # "Idle"
    /\ MarkRefs(RootRefs)
    /\ work' = Budget
    /\ UNCHANGED <<objectVars, rootVars, sweepVars, paceVars, phase, full>>

BackToMark ==
    /\ work > 0
    /\ phase = "Sweep"
    /\ markStack # {}
    /\ phase' = "Mark"
    /\ resumeSweep' = TRUE
    /\ UNCHANGED <<objectVars, rootVars, colorVars, sweepIndex, sweepLimit, paceVars,
                   work, full>>

\* Impl::scan of the object on top of the mark stack.
MarkOne ==
    /\ work > 0
    /\ phase = "Mark"
    /\ \E r \in markStack :
        LET found == IF Resolves(r) THEN White(Children(r.slot)) ELSE {} IN
        /\ marked' = marked \cup SlotsOf(found)
        /\ markStack' = (markStack \ {r}) \cup found
    /\ work' = work - 1
    /\ UNCHANGED <<objectVars, rootVars, sweepVars, paceVars, phase, full>>

StartSweep ==
    /\ work > 0
    /\ phase = "Mark"
    /\ markStack = {}
    /\ phase' = "Sweep"
    /\ sweepIndex' = IF resumeSweep THEN sweepIndex ELSE 0
    /\ resumeSweep' = FALSE
    /\ UNCHANGED <<objectVars, rootVars, colorVars, sweepLimit, paceVars, work, full>>

NextGeneration(g) == IF g = GenLimit THEN 1 ELSE g + 1

\* Fault: an empty slot is recycled again.
ReclaimEmpty(s) ==
    IF s \notin marked
    THEN /\ live' = live \ {s}
         /\ generation' = [generation EXCEPT ![s] = NextGeneration(@)]
         /\ fields' = [fields EXCEPT ![s] = [f \in Fields |-> {}]]
         /\ sizeBytes' = [sizeBytes EXCEPT ![s] = 0]
         /\ liveBytes' = liveBytes - sizeBytes[s]
         /\ freeSlots' = Append(freeSlots, s)
         /\ slotCount' = slotCount
    ELSE UNCHANGED objectVars

\* Fault: the bytes of a reclaimed object stay accounted.
ReclaimKeepsBytes(s) ==
    IF s \in live /\ s \notin marked
    THEN /\ live' = live \ {s}
         /\ generation' = [generation EXCEPT ![s] = NextGeneration(@)]
         /\ fields' = [fields EXCEPT ![s] = [f \in Fields |-> {}]]
         /\ sizeBytes' = [sizeBytes EXCEPT ![s] = 0]
         /\ freeSlots' = Append(freeSlots, s)
         /\ UNCHANGED <<liveBytes, slotCount>>
    ELSE UNCHANGED objectVars

\* The slot at sweepIndex loses an unmarked object and joins the free slots.
Reclaim(s) ==
    IF s \in live /\ s \notin marked
    THEN /\ live' = live \ {s}
         /\ generation' = [generation EXCEPT ![s] = NextGeneration(@)]
         /\ fields' = [fields EXCEPT ![s] = [f \in Fields |-> {}]]
         /\ sizeBytes' = [sizeBytes EXCEPT ![s] = 0]
         /\ liveBytes' = liveBytes - sizeBytes[s]
         /\ freeSlots' = Append(freeSlots, s)
         /\ slotCount' = slotCount
    ELSE UNCHANGED objectVars

SweepOne ==
    /\ work > 0
    /\ phase = "Sweep"
    /\ markStack = {}
    /\ sweepIndex < sweepLimit
    /\ Reclaim(sweepIndex)
    /\ sweepIndex' = sweepIndex + 1
    /\ work' = work - 1
    /\ UNCHANGED <<rootVars, colorVars, resumeSweep, sweepLimit, paceVars, phase, full>>

Larger(a, b)  == IF a >= b THEN a ELSE b
Smaller(a, b) == IF a <= b THEN a ELSE b

FinishCollection ==
    /\ work > 0
    /\ phase = "Sweep"
    /\ markStack = {}
    /\ sweepIndex >= sweepLimit
    /\ phase' = "Idle"
    /\ requested' = FALSE
    /\ resumeSweep' = FALSE
    /\ sweepIndex' = 0
    /\ sweepLimit' = 0
    /\ nextThreshold' = Larger(InitialThreshold, Smaller(MaximumHeap, 2 * liveBytes))
    /\ work' = 0
    /\ UNCHANGED <<objectVars, rootVars, colorVars, full>>

-----------------------------------------------------------------------------
(* collectFull: drain the running collection, then run a fresh one. *)

\* Fault: the running collection counts as the full one.
CollectFullWithoutDrain ==
    /\ MutatorTurn
    /\ full' = "fresh"
    /\ requested' = TRUE
    /\ UNCHANGED <<objectVars, rootVars, colorVars, sweepVars, nextThreshold, phase, work>>

CollectFull ==
    /\ MutatorTurn
    /\ IF phase # "Idle"
       THEN full' = "drain" /\ UNCHANGED requested
       ELSE full' = "fresh" /\ requested' = TRUE
    /\ UNCHANGED <<objectVars, rootVars, colorVars, sweepVars, nextThreshold, phase, work>>

Drained == work = 0 /\ phase = "Idle" /\ ~requested

CollectFullAgain ==
    /\ full = "drain"
    /\ Drained
    /\ full' = "fresh"
    /\ requested' = TRUE
    /\ UNCHANGED <<objectVars, rootVars, colorVars, sweepVars, nextThreshold, phase, work>>

CollectFullReturns ==
    /\ full = "fresh"
    /\ Drained
    /\ full' = "no"
    /\ UNCHANGED <<objectVars, rootVars, colorVars, sweepVars, paceVars, phase, work>>

-----------------------------------------------------------------------------
Mutator ==
    \/ \E d \in Registers : Allocate(d) \/ SetRegister(d) \/ PassUnrooted(d)
    \/ \E o \in Registers : AddPersistentRoot(o)
    \/ \E d, o \in Registers, f \in Fields : Load(d, o, f)
    \/ \E o \in Registers, f \in Fields : Store(o, f)
    \/ \E p \in persistentRoots : RemovePersistentRoot(p)
    \/ \E p \in persistentRoots, o \in Registers : UpdatePersistentRoot(p, o)
    \/ AllocateFails
    \/ RequestCollection
    \/ CollectFull

Collector ==
    \/ StartCollection
    \/ ContinueCollection
    \/ BackToMark
    \/ MarkOne
    \/ StartSweep
    \/ SweepOne
    \/ FinishCollection
    \/ CollectFullAgain
    \/ CollectFullReturns

Next == Mutator \/ Collector

Spec == Init /\ [][Next]_vars

\* The interpreter calls step at the safepoint before every instruction and a
\* call of step runs its loop to the end, so the collector is never starved.
FairSpec == Spec /\ WF_vars(Collector)

-----------------------------------------------------------------------------
(* Properties. *)

TypeOK ==
    /\ slotCount \in 0 .. MaxSlots
    /\ live \subseteq 0 .. slotCount - 1
    /\ generation \in [Slots -> 1 .. GenLimit]
    /\ fields \in [Slots -> [Fields -> Value]]
    /\ sizeBytes \in [Slots -> Nat]
    /\ marked \subseteq live
    /\ freeSlots \in Seq(Slots)
    /\ markStack \subseteq Ref
    /\ registers \in [Registers -> Value]
    /\ persistentRoots \subseteq [token : Token, value : Value]
    /\ nextRootToken \in 1 .. MaxToken + 1
    /\ phase \in {"Idle", "Mark", "Sweep"}
    /\ requested \in BOOLEAN
    /\ resumeSweep \in BOOLEAN
    /\ sweepIndex \in Nat
    /\ sweepLimit \in 0 .. slotCount
    /\ liveBytes \in Int
    /\ nextThreshold \in Nat
    /\ work \in Nat
    /\ full \in {"no", "drain", "fresh"}

\* No root is ever left with a reference the collector has invalidated: what a
\* script or a rooted host value holds still resolves, whatever the interleaving
\* of step() calls, allocations and stores.
RootsResolve == \A r \in RootRefs : Resolves(r)

\* Nothing a root can reach has been reclaimed: every reference stored in a
\* reachable object resolves.
ReachableIntact ==
    \A s \in Reachable : \A c \in Children(s) : Resolves(c)

\* Between collections even garbage is self-consistent: the whole heap has no
\* dangling reference, which is what restore() demands of a snapshot.
IdleHeapClosed ==
    phase = "Idle" => \A s \in live : \A c \in Children(s) : Resolves(c)

\* The free list is exactly the empty slots, each of them once: a slot is never
\* handed out twice and never lost.
FreeListExact ==
    /\ \A i \in 1 .. Len(freeSlots) : freeSlots[i] \in (0 .. slotCount - 1) \ live
    /\ \A s \in (0 .. slotCount - 1) \ live : \E i \in 1 .. Len(freeSlots) : freeSlots[i] = s
    /\ \A i, j \in 1 .. Len(freeSlots) : freeSlots[i] = freeSlots[j] => i = j

\* liveBytes is the sum of the sizes of the live objects, which the totals up to each
\* slot add up to, and never exceeds the configured heap limit, so that the subtraction
\* of allocate() cannot wrap.
BytesAccounted ==
    \E total \in [0 .. slotCount -> 0 .. MaximumHeap] :
        /\ total[0] = 0
        /\ total[slotCount] = liveBytes
        /\ \A s \in 0 .. slotCount - 1 :
            total[s + 1] = total[s] + (IF s \in live THEN sizeBytes[s] ELSE 0)

\* The tri-color invariant: a black object (marked, off the mark stack) has no
\* white child, through every store, allocation and resumed sweep.
NoBlackToWhite ==
    phase # "Idle" =>
        \A s \in marked \ SlotsOf(markStack) : White(Children(s)) = {}

\* A step reclaims an object only when no root can reach it.
OnlyGarbageReclaimed ==
    [][\A s \in live : s \notin live' => s \notin Reachable]_vars

\* A running collection ends, however much the mutator allocates and stores
\* between two calls of step() and whatever its work budget.
CollectionEnds == phase # "Idle" ~> phase = "Idle"

\* Garbage present when a collection is asked for is reclaimed.
GarbageReclaimed ==
    \A s \in Slots :
        (phase = "Idle" /\ requested /\ s \in live \ Reachable) ~> s \notin live

\* collectFull returns with exactly the reachable objects left in the heap, even
\* when it is called in the middle of a collection.
FullCollectionExact ==
    full = "fresh" /\ Drained => live = Reachable

=============================================================================
