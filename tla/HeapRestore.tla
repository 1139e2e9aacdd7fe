---------------------------- MODULE HeapRestore ----------------------------
(***************************************************************************)
(* Snapshots of the managed heap and their restoration                     *)
(* (src/runtime/ManagedHeap.cpp), with what a host holds across it: the    *)
(* references it was given and its PersistentRoot objects.                 *)
(*                                                                         *)
(* ManagedHeap shows that collectFull leaves exactly what the roots reach, *)
(* so a collection is one step here.  Objects have no fields, and a handle *)
(* remembers which object it was issued for: the number of the object is   *)
(* not in the code.                                                        *)
(***************************************************************************)
EXTENDS Lists

CONSTANTS
    MaxSlots,       \* handle space
    MaxObjects,     \* bound on the objects ever allocated
    MaxToken,       \* bound on the calls of addPersistentRoot
    RootWidth       \* references in the value of a root: more than 1 is a struct

ASSUME RestoreAssumption ==
    /\ MaxSlots \in Nat
    /\ MaxObjects \in Nat
    /\ MaxToken \in Nat
    /\ RootWidth \in Nat

Slots == 0 .. MaxSlots - 1
Empty == 0

VARIABLES
    slotCount,        \* slots.size()
    object,           \* the number of the object in each slot, or Empty
    generation,       \* Slot::generation
    freeSlots,
    persistentRoots,  \* a set of [token, value]; a value is a set of handles
    nextRootToken,
    created,          \* objects allocated so far
    handles,          \* the references the host was given: [slot, gen, object]
    held,             \* its PersistentRoot objects: [token, value]
    orphaned,         \* those whose root a restoration dropped
    saved,            \* the last snapshot
    restored          \* has a snapshot been restored?

heapVars == <<slotCount, object, generation, freeSlots>>
rootVars == <<persistentRoots, nextRootToken>>
hostVars == <<created, handles, held, orphaned, saved, restored>>
restoreVars == <<heapVars, rootVars, hostVars>>

Live == {s \in Slots : object[s] # Empty}

\* Impl::get.
Resolves(h) == object[h.slot] # Empty /\ generation[h.slot] = h.gen

HandleOf(s) == [slot |-> s, gen |-> generation[s], object |-> object[s]]

RestoreInit ==
    /\ slotCount = 0
    /\ object = [s \in Slots |-> Empty]
    /\ generation = [s \in Slots |-> 1]
    /\ freeSlots = <<>>
    /\ persistentRoots = {}
    /\ nextRootToken = 1
    /\ created = 0
    /\ handles = {}
    /\ held = {}
    /\ orphaned = {}
    /\ saved = [objects |-> {}, roots |-> {}]
    /\ restored = FALSE

-----------------------------------------------------------------------------
\* Impl::allocate.
Allocate ==
    LET reused == freeSlots # <<>>
        s == IF reused THEN freeSlots[Len(freeSlots)] ELSE slotCount
    IN
    /\ created < MaxObjects
    /\ s \in Slots
    /\ freeSlots' = IF reused THEN SubSeq(freeSlots, 1, Len(freeSlots) - 1) ELSE freeSlots
    /\ slotCount' = IF reused THEN slotCount ELSE slotCount + 1
    /\ object' = [object EXCEPT ![s] = created + 1]
    /\ created' = created + 1
    /\ handles' = handles \cup {[slot |-> s, gen |-> generation[s], object |-> created + 1]}
    /\ UNCHANGED <<generation, rootVars, held, orphaned, saved, restored>>

\* retain, addPersistentRoot: a PersistentRoot with the next token.
Retain(value) ==
    /\ nextRootToken <= MaxToken
    /\ \A h \in value : Resolves(h)
    /\ LET root == [token |-> nextRootToken, value |-> value] IN
        /\ persistentRoots' = persistentRoots \cup {root}
        /\ held' = held \cup {root}
    /\ nextRootToken' = nextRootToken + 1
    /\ UNCHANGED <<heapVars, created, handles, orphaned, saved, restored>>

\* PersistentRoot::reset removes whatever root has its token.
Reset(root) ==
    /\ held' = held \ {root}
    /\ orphaned' = orphaned \ {root}
    /\ persistentRoots' = {r \in persistentRoots : r.token # root.token}
    /\ UNCHANGED <<heapVars, nextRootToken, created, handles, saved, restored>>

Rooted == {h.slot : h \in UNION {r.value : r \in persistentRoots}}

\* Fault: a recycled slot keeps its generation.
CollectSameGeneration ==
    LET garbage == Live \ Rooted IN
    /\ object' = [s \in Slots |-> IF s \in garbage THEN Empty ELSE object[s]]
    /\ freeSlots' = freeSlots \o Ascending(garbage)
    /\ UNCHANGED <<slotCount, generation, rootVars, hostVars>>

\* collectFull, called between invocations: only persistent roots are roots.
Collect ==
    LET garbage == Live \ Rooted IN
    /\ object' = [s \in Slots |-> IF s \in garbage THEN Empty ELSE object[s]]
    /\ generation' = [s \in Slots |->
                        IF s \in garbage THEN generation[s] + 1 ELSE generation[s]]
    /\ freeSlots' = freeSlots \o Ascending(garbage)
    /\ UNCHANGED <<slotCount, rootVars, hostVars>>

\* snapshot(): the live objects, and one entry per reference of a root.
SnapshotHeap ==
    /\ saved' = [objects |-> {HandleOf(s) : s \in Live},
                 roots |-> UNION {{[token |-> r.token, value |-> h] : h \in r.value} :
                                    r \in persistentRoots}]
    /\ UNCHANGED <<heapVars, rootVars, created, handles, held, orphaned, restored>>

\* restore() accepts one root entry per token.
Acceptable(snapshot) ==
    \A r, t \in snapshot.roots : r.token = t.token => r = t

Largest(S, least) == IF S = {} THEN least ELSE CHOOSE n \in S : \A m \in S : m <= n

RestoredSlots == {h.slot : h \in saved.objects}

SavedAt(s) == CHOOSE h \in saved.objects : h.slot = s

\* Empty slots start again at the first generation.
RestoredGeneration(s) == IF s \in RestoredSlots THEN SavedAt(s).gen ELSE 1

\* The slot table restore() builds ends with the last object.
RestoredCount == Largest({s + 1 : s \in RestoredSlots}, 0)

\* Fault: the free slots are not recomputed.
OldFreeSlots == freeSlots

RestoredFreeSlots == Ascending((0 .. RestoredCount - 1) \ RestoredSlots)

\* restore(), which the host may call while it holds PersistentRoots: those that
\* the snapshot does not know lose their root but keep their token.
RestoreHeap ==
    /\ Acceptable(saved)
    /\ slotCount' = RestoredCount
    /\ object' = [s \in Slots |-> IF s \in RestoredSlots THEN SavedAt(s).object ELSE Empty]
    /\ generation' = [s \in Slots |-> RestoredGeneration(s)]
    /\ freeSlots' = RestoredFreeSlots
    /\ persistentRoots' = {[token |-> r.token, value |-> {r.value}] : r \in saved.roots}
    /\ nextRootToken' = Largest({r.token + 1 : r \in saved.roots}, 1)
    /\ held' = held \cap persistentRoots'
    /\ orphaned' = orphaned \cup (held \ persistentRoots')
    /\ restored' = TRUE
    /\ UNCHANGED <<created, handles, saved>>

-----------------------------------------------------------------------------
RestoreNext ==
    \/ Allocate
    \/ \E value \in SUBSET handles :
        Cardinality(value) \in 1 .. RootWidth /\ Retain(value)
    \/ \E root \in held \cup orphaned : Reset(root)
    \/ Collect
    \/ SnapshotHeap
    \/ RestoreHeap

Spec == RestoreInit /\ [][RestoreNext]_restoreVars

-----------------------------------------------------------------------------
(* Properties. *)

TypeOK ==
    /\ slotCount \in 0 .. MaxSlots
    /\ object \in [Slots -> 0 .. MaxObjects]
    /\ generation \in [Slots -> Nat \ {0}]
    /\ freeSlots \in Seq(Slots)
    /\ created \in 0 .. MaxObjects
    /\ nextRootToken \in 1 .. MaxToken + 1
    /\ \A h \in handles : h.slot \in Slots /\ h.gen \in Nat \ {0} /\ h.object \in 1 .. created

\* A reference resolves to the object it was issued for or not at all, however
\* often its slot is recycled.
StaleRejected == \A h \in handles : Resolves(h) => object[h.slot] = h.object

\* That holds until a snapshot is restored.
StaleRejectedAtFirst == ~restored => StaleRejected

\* An object that is in the heap, restored or not, resolves through every
\* reference the host was ever given to it.
LiveResolves ==
    \A h \in handles : (\E s \in Live : object[s] = h.object) => Resolves(h)

\* The free list is the empty slots of the table, each once, after restorations
\* that shrink or grow the table too.
FreeSlotsExact ==
    /\ Elements(freeSlots) = (0 .. slotCount - 1) \ Live
    /\ Len(freeSlots) = Cardinality(Elements(freeSlots))
    /\ Live \subseteq 0 .. slotCount - 1

\* Until a snapshot is restored a PersistentRoot keeps the objects of its value alive until it is
\* reset.
RootsRetain ==
    ~restored => \A r \in held : \A h \in r.value : Resolves(h) /\ object[h.slot] = h.object

\* What the host holds of the heap holds: references to live objects, the roots
\* that keep them alive, and free slots that are free.
HandlesHold == TypeOK /\ LiveResolves /\ RootsRetain /\ FreeSlotsExact

=============================================================================
