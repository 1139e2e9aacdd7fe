------------------------------- MODULE Handles -------------------------------
(***************************************************************************)
(* The two tables of generational handles: NativeHandleRegistry            *)
(* (src/runtime/ManagedHeap.cpp), which gives scripts handles to host      *)
(* resources, and EntityRegistry (src/game/GameplayPrimitives.cpp).  A     *)
(* slot is reused; its generation tells the handles to what it held before *)
(* from the handle to what it holds now.  Generations are 32 bits wide and *)
(* skip 0; here they are 1..Generations.                                   *)
(***************************************************************************)
EXTENDS Naturals, Sequences, SequencesExt

CONSTANTS
    HandleRegistries,     \* native handle registries, whose ids are never reused
    ResourceTypes,  \* the types of native resources, positive numbers; 0 is any type
    Generations,    \* how many generations there are before they repeat
    MaxGiven        \* bound: handles given, of either kind

ASSUME HandlesAssumption == Generations \in Nat \ {0}

VARIABLES
    natives,        \* registry -> [slots: seq of [live, type, generation], free]
    given,          \* the native handles given: [registry, slot, generation, type], and
                    \* how often the slot has been released since (aged)
    entities,       \* EntityRegistry: [slots: seq of [generation, alive], free, count]
    ids,            \* the entity ids given since the last clear(), with their age
    kept           \* State of a snapshot() and the ids of that time, or of none

handleVars == <<natives, given, entities, ids, kept>>

NoEntities == [slots |-> <<>>, free |-> <<>>, count |-> 0]

HandlesInit ==
    /\ natives = [r \in HandleRegistries |-> [slots |-> <<>>, free |-> <<>>]]
    /\ given = <<>>
    /\ entities = NoEntities
    /\ ids = <<>>
    /\ kept = [taken |-> FALSE, state |-> NoEntities, ids |-> <<>>]

\* Fault: a slot that keeps its generation when it is released.
SameGeneration(generation) == generation

NextGeneration(generation) == IF generation = Generations THEN 1 ELSE generation + 1

-----------------------------------------------------------------------------
(* NativeHandleRegistry.  The slot released last is used first. *)

CreateNative ==
    /\ Len(given) < MaxGiven
    /\ \E r \in HandleRegistries, type \in ResourceTypes :
        LET slots  == natives[r].slots
            free   == natives[r].free
            slot   == IF free = <<>> THEN Len(slots) + 1 ELSE Last(free)
            holder == [live |-> TRUE, type |-> type,
                       generation |-> IF free = <<>> THEN 1 ELSE slots[slot].generation]
        IN
        /\ natives' = [natives EXCEPT
                ![r].slots = IF free = <<>> THEN Append(slots, holder)
                                            ELSE [slots EXCEPT ![slot] = holder],
                ![r].free  = IF free = <<>> THEN free ELSE Front(free)]
        /\ given' = Append(given, [registry |-> r, slot |-> slot, type |-> type,
                                   generation |-> holder.generation, aged |-> 0])
    /\ UNCHANGED <<entities, ids, kept>>

IsAlive(r, handle) ==
    LET slots == natives[r].slots IN
    /\ handle.registry = r
    /\ handle.slot \in DOMAIN slots
    /\ slots[handle.slot].live
    /\ slots[handle.slot].generation = handle.generation
    /\ slots[handle.slot].type = handle.type

\* What resolve() gives, the resource or an error.
Resolve(r, handle, expected) ==
    IF handle.registry # r \/ handle.slot \notin DOMAIN natives[r].slots THEN "invalid"
    ELSE IF ~IsAlive(r, handle) THEN "stale"
    ELSE IF expected # 0 /\ handle.type # expected THEN "TypeMismatch"
    ELSE "resource"

Freed(slot) == [live |-> FALSE, type |-> 0, generation |-> NextGeneration(slot.generation)]

Aged(handles, Released(_)) ==
    [i \in DOMAIN handles |->
        IF Released(handles[i]) THEN [handles[i] EXCEPT !.aged = @ + 1] ELSE handles[i]]

ReleaseNative ==
    /\ \E r \in HandleRegistries, i \in DOMAIN given :
        LET handle == given[i] IN
        /\ IsAlive(r, handle)
        /\ natives' = [natives EXCEPT ![r].slots[handle.slot] = Freed(@),
                                      ![r].free = Append(@, handle.slot)]
        /\ given' = Aged(given, LAMBDA h : h.registry = r /\ h.slot = handle.slot)
    /\ UNCHANGED <<entities, ids, kept>>

\* Every slot is free then; those that held nothing keep their generation.
ClearNatives ==
    /\ \E r \in HandleRegistries :
        LET slots == natives[r].slots IN
        /\ slots # <<>>
        /\ natives' = [natives EXCEPT
                ![r].slots = [i \in DOMAIN slots |-> IF slots[i].live THEN Freed(slots[i]) ELSE slots[i]],
                ![r].free  = [i \in DOMAIN slots |-> i]]
        /\ given' = Aged(given, LAMBDA h : h.registry = r /\ slots[h.slot].live)
    /\ UNCHANGED <<entities, ids, kept>>

-----------------------------------------------------------------------------
(* EntityRegistry.  The free slot of the lowest index is used first. *)

CreateEntity ==
    /\ Len(ids) < MaxGiven
    /\ LET fresh == entities.free = <<>>
           index == IF fresh THEN Len(entities.slots) + 1 ELSE Head(entities.free)
           slot  == [alive |-> TRUE,
                     generation |-> IF fresh THEN 1 ELSE entities.slots[index].generation]
       IN
       /\ entities' = [slots |-> IF fresh THEN Append(entities.slots, slot)
                                          ELSE [entities.slots EXCEPT ![index] = slot],
                       free  |-> IF fresh THEN <<>> ELSE Tail(entities.free),
                       count |-> entities.count + 1]
       /\ ids' = Append(ids, [index |-> index, generation |-> slot.generation, aged |-> 0])
    /\ UNCHANGED <<natives, given, kept>>

Alive(id) ==
    /\ id.index \in DOMAIN entities.slots
    /\ entities.slots[id.index].alive
    /\ entities.slots[id.index].generation = id.generation

\* lower_bound() finds where the index belongs: after the ones below it.
InOrder(free, index) ==
    InsertAt(free, Cardinality({i \in DOMAIN free : free[i] < index}) + 1, index)

DestroyEntity ==
    /\ \E i \in DOMAIN ids :
        LET index == ids[i].index IN
        /\ Alive(ids[i])
        /\ entities' = [entities EXCEPT
                !.slots[index] = [alive |-> FALSE, generation |-> NextGeneration(@.generation)],
                !.free  = InOrder(@, index),
                !.count = @ - 1]
        /\ ids' = Aged(ids, LAMBDA id : id.index = index)
    /\ UNCHANGED <<natives, given, kept>>

\* The generations go too: an id given before may name another entity afterwards.
ClearEntities ==
    /\ entities.slots # <<>>
    /\ entities' = NoEntities
    /\ ids' = <<>>
    /\ UNCHANGED <<natives, given, kept>>

Snapshot ==
    /\ kept' = [taken |-> TRUE, state |-> entities, ids |-> ids]
    /\ UNCHANGED <<natives, given, entities, ids>>

\* What restore() checks before it changes anything.
Restorable(state) ==
    /\ \A i, j \in DOMAIN state.free : i < j => state.free[i] < state.free[j]
    /\ ToSet(state.free) \subseteq DOMAIN state.slots
    /\ \A i \in DOMAIN state.slots :
        /\ state.slots[i].generation # 0
        /\ state.slots[i].alive # (i \in ToSet(state.free))
    /\ state.count = Cardinality({i \in DOMAIN state.slots : state.slots[i].alive})

\* The ids of the time that is taken back mean nothing any more.
Restore ==
    /\ kept.taken /\ Restorable(kept.state)
    /\ entities' = kept.state
    /\ ids' = kept.ids
    /\ UNCHANGED <<natives, given, kept>>

NativeNext == CreateNative \/ ReleaseNative \/ ClearNatives
EntityNext == CreateEntity \/ DestroyEntity \/ ClearEntities \/ Snapshot \/ Restore

HandlesSpec == HandlesInit /\ [][NativeNext \/ EntityNext]_handleVars

-----------------------------------------------------------------------------

\* Until the generations of its slot repeat, a native handle resolves, in its own registry
\* and as its own type, exactly as long as what it was given for has not been released;
\* a slot that is free is free once.
NativesResolve ==
    /\ \A i \in DOMAIN given, r \in HandleRegistries, expected \in ResourceTypes \cup {0} :
        given[i].aged < Generations =>
            (Resolve(r, given[i], expected) = "resource" <=>
                /\ given[i].aged = 0
                /\ given[i].registry = r
                /\ expected \in {0, given[i].type})
    /\ \A r \in HandleRegistries :
        /\ IsInjective(natives[r].free)
        /\ ToSet(natives[r].free) = {s \in DOMAIN natives[r].slots : ~natives[r].slots[s].live}

\* An entity id names its entity and no other, back and forth through snapshots; and
\* restore() accepts every snapshot.  Ids given before a clear() are not covered: it
\* forgets the generations.
EntitiesResolve ==
    /\ \A i \in DOMAIN ids : ids[i].aged < Generations => (Alive(ids[i]) <=> ids[i].aged = 0)
    /\ kept.taken => Restorable(kept.state)

\* A handle resolves to what it was created for, or not at all.
HandlesResolve == NativesResolve /\ EntitiesResolve

=============================================================================
