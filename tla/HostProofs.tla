-------------------------------- MODULE HostProofs ---------------------------------
(***************************************************************************)
(* Theorems about the parts around the runtime that keep no machine of their *)
(* own: the tables of handles (Handles), a heap that is rolled back        *)
(* (HeapRestore) and the scene (Scene), for every value of their constants. *)
(* The parts are independent: no proof about one uses another.             *)
(***************************************************************************)
EXTENDS Handles, HeapRestore, Scene, ListLemmas

(***************************************************************************)
(* Handles.                                                                *)
(***************************************************************************)

\* The generation that follows n releases of a slot, as long as they do not repeat.
Later(first, n) ==
    IF first + n <= Generations THEN first + n ELSE first + n - Generations

NativeSlot == [live : BOOLEAN, type : ResourceTypes \cup {0}, generation : 1 .. Generations]
NativeHandle == [registry : HandleRegistries, slot : Nat, type : ResourceTypes,
                 generation : 1 .. Generations, aged : Nat]

\* A native registry: its free list is its free slots, each once.
RegistrySound(registry) ==
    /\ IsInjective(registry.free)
    /\ ToSet(registry.free) = {s \in DOMAIN registry.slots : ~registry.slots[s].live}

\* What a registry holds for a handle to it: the slot was released as often as the
\* handle is aged, and if never, it still is what it was given for.
HandleSound(registry, handle) ==
    /\ handle.slot \in DOMAIN registry.slots
    /\ LET slot == registry.slots[handle.slot] IN
        /\ handle.aged < Generations => slot.generation = Later(handle.generation, handle.aged)
        /\ handle.aged = 0 => slot.live /\ slot.type = handle.type

NativesInv ==
    /\ natives \in [HandleRegistries -> [slots : Seq(NativeSlot), free : Seq(Nat)]]
    /\ \A r \in HandleRegistries : RegistrySound(natives[r])
    /\ given \in Seq(NativeHandle)
    /\ \A i \in DOMAIN given : HandleSound(natives[given[i].registry], given[i])

EntitySlot == [alive : BOOLEAN, generation : 1 .. Generations]
Entity == [index : Nat, generation : 1 .. Generations, aged : Nat]

Sorted(free) == \A i, j \in DOMAIN free : i < j => free[i] < free[j]

Living(slots) == {i \in DOMAIN slots : slots[i].alive}

\* An entity registry restore() would accept, and the ids given from it.
EntitiesSound(state, given_ids) ==
    /\ state \in [slots : Seq(EntitySlot), free : Seq(Nat), count : Nat]
    /\ Sorted(state.free)
    /\ ToSet(state.free) = DOMAIN state.slots \ Living(state.slots)
    /\ state.count = Cardinality(Living(state.slots))
    /\ given_ids \in Seq(Entity)
    /\ \A i \in DOMAIN given_ids :
        LET id == given_ids[i] IN
        /\ id.index \in DOMAIN state.slots
        /\ id.aged < Generations => state.slots[id.index].generation = Later(id.generation, id.aged)
        /\ id.aged = 0 => state.slots[id.index].alive

EntitiesInv ==
    /\ EntitiesSound(entities, ids)
    /\ EntitiesSound(kept.state, kept.ids)

HandlesInv == NativesInv /\ EntitiesInv

-----------------------------------------------------------------------------
(* Generations and lists. *)

LEMMA LaterNext ==
  ASSUME NEW g \in 1 .. Generations, NEW n \in Nat, n < Generations
  PROVE  /\ Later(g, n) \in 1 .. Generations
         /\ n = 0 <=> Later(g, n) = g
         /\ n + 1 < Generations => Later(g, n + 1) = NextGeneration(Later(g, n))
BY HandlesAssumption DEF Later, NextGeneration

LEMMA NextInRange ==
  ASSUME NEW g \in 1 .. Generations
  PROVE  NextGeneration(g) \in 1 .. Generations
BY HandlesAssumption DEF NextGeneration

\* A list without its last entry, if no entry is repeated.
LEMMA FrontOf ==
  ASSUME NEW S, NEW f \in Seq(S), f # <<>>, IsInjective(f)
  PROVE  /\ Last(f) \in S /\ Last(f) \in ToSet(f)
         /\ Front(f) \in Seq(S) /\ IsInjective(Front(f))
         /\ ToSet(Front(f)) = ToSet(f) \ {Last(f)}
<1> DEFINE n == Len(f)
           g == Front(f)
<1>1. n \in Nat \ {0} /\ f \in [1 .. n -> S]
  OBVIOUS
<1>2. g \in Seq(S) /\ Len(g) = n - 1 /\ \A i \in 1 .. n - 1 : g[i] = f[i]
  BY <1>1 DEF Front
<1>3. DOMAIN f = 1 .. n /\ DOMAIN g = 1 .. n - 1
  BY <1>1, <1>2
<1>4. Last(f) = f[n] /\ n \in 1 .. n
  BY <1>1 DEF Last
<1> HIDE DEF n, g
<1>5. \A i \in 1 .. n - 1 : i \in 1 .. n /\ i # n
  BY <1>1
<1>6. IsInjective(g)
  BY <1>2, <1>3, <1>5 DEF IsInjective
<1>7. \A i \in 1 .. n - 1 : f[i] # f[n]
  BY <1>3, <1>4, <1>5 DEF IsInjective
<1>8. \A i \in 1 .. n : i \in 1 .. n - 1 \/ i = n
  BY <1>1
<1>9. ToSet(g) \subseteq ToSet(f) \ {f[n]}
  BY <1>2, <1>3, <1>5, <1>7 DEF ToSet
<1>10. ToSet(f) \ {f[n]} \subseteq ToSet(g)
  BY <1>2, <1>3, <1>8 DEF ToSet
<1> QED BY <1>1, <1>2, <1>3, <1>4, <1>6, <1>9, <1>10 DEF ToSet, g

\* A list with an entry appended that it did not have.
LEMMA Appended ==
  ASSUME NEW S, NEW f \in Seq(S), NEW e \in S
  PROVE  /\ Append(f, e) \in Seq(S)
         /\ DOMAIN Append(f, e) = 1 .. Len(f) + 1 /\ DOMAIN f = 1 .. Len(f) /\ Len(f) \in Nat
         /\ \A i \in 1 .. Len(f) : Append(f, e)[i] = f[i]
         /\ Append(f, e)[Len(f) + 1] = e
         /\ ToSet(Append(f, e)) = ToSet(f) \cup {e}
         /\ IsInjective(f) /\ e \notin ToSet(f) => IsInjective(Append(f, e))
<1> DEFINE n == Len(f)
           g == Append(f, e)
<1>1. /\ g \in Seq(S) /\ DOMAIN g = 1 .. n + 1 /\ DOMAIN f = 1 .. n /\ n \in Nat
      /\ \A i \in 1 .. n : g[i] = f[i]
      /\ g[n + 1] = e
  OBVIOUS
<1> HIDE DEF n, g
<1>2. \A i \in 1 .. n + 1 : i \in 1 .. n \/ i = n + 1
  BY <1>1
<1>3. n + 1 \in 1 .. n + 1 /\ \A i \in 1 .. n : i \in 1 .. n + 1
  BY <1>1
<1>4. ToSet(g) \subseteq ToSet(f) \cup {e}
  BY <1>1, <1>2 DEF ToSet
<1>5. ToSet(f) \cup {e} \subseteq ToSet(g)
  BY <1>1, <1>3 DEF ToSet
<1>6. ASSUME IsInjective(f), e \notin ToSet(f) PROVE IsInjective(g)
  <2>1. \A i \in 1 .. n : g[i] # e
    BY <1>1, <1>6 DEF ToSet
  <2> QED BY <1>1, <1>2, <1>6, <2>1 DEF IsInjective
<1> QED BY <1>1, <1>4, <1>5, <1>6 DEF n, g

-----------------------------------------------------------------------------
(* The native registries. *)

LEMMA NativeTypes ==
  ASSUME NativesInv, NEW r \in HandleRegistries
  PROVE  /\ natives[r].slots \in Seq(NativeSlot) /\ natives[r].free \in Seq(Nat)
         /\ natives[r] = [slots |-> natives[r].slots, free |-> natives[r].free]
         /\ RegistrySound(natives[r])
BY DEF NativesInv

\* A registry changes, and the handles that are aged are those of the slots it releases.
LEMMA RegistryChanged ==
  ASSUME NativesInv, NEW r \in HandleRegistries,
         NEW registry \in [slots : Seq(NativeSlot), free : Seq(Nat)],
         RegistrySound(registry),
         natives' = [natives EXCEPT ![r] = registry],
         given' \in Seq(NativeHandle),
         \A i \in DOMAIN given' : HandleSound(natives'[given'[i].registry], given'[i])
  PROVE  NativesInv'
<1>1. natives' \in [HandleRegistries -> [slots : Seq(NativeSlot), free : Seq(Nat)]]
  BY DEF NativesInv
<1>2. \A q \in HandleRegistries : RegistrySound(natives'[q])
  BY DEF NativesInv
<1> QED BY <1>1, <1>2 DEF NativesInv

LEMMA CreateNativeKeeps == NativesInv /\ CreateNative => NativesInv'
<1> SUFFICES ASSUME NativesInv, CreateNative PROVE NativesInv'
  OBVIOUS
<1> DEFINE Held(r) == natives[r].slots
           Free(r)  == natives[r].free
           Slot(r)  == IF Free(r) = <<>> THEN Len(Held(r)) + 1 ELSE Last(Free(r))
           Holder(r, type) ==
             [live |-> TRUE, type |-> type,
              generation |-> IF Free(r) = <<>> THEN 1 ELSE Held(r)[Slot(r)].generation]
           Changed(r, type) ==
             [slots |-> IF Free(r) = <<>> THEN Append(Held(r), Holder(r, type))
                        ELSE [Held(r) EXCEPT ![Slot(r)] = Holder(r, type)],
              free |-> IF Free(r) = <<>> THEN Free(r) ELSE Front(Free(r))]
           Handle(r, type) ==
             [registry |-> r, slot |-> Slot(r), type |-> type,
              generation |-> Holder(r, type).generation, aged |-> 0]
<1>1. PICK r \in HandleRegistries, type \in ResourceTypes :
        /\ natives' = [natives EXCEPT ![r].slots = Changed(r, type).slots,
                                      ![r].free = Changed(r, type).free]
        /\ given' = Append(given, Handle(r, type))
  BY ZenonT(40) DEF CreateNative
<1> DEFINE registry == Changed(r, type)
           holder == Holder(r, type)
           slot == Slot(r)
           handle == Handle(r, type)
<1>2. natives' = [natives EXCEPT ![r] = registry]
  BY <1>1, NativeTypes DEF NativesInv
<1>3. /\ Held(r) \in Seq(NativeSlot) /\ Free(r) \in Seq(Nat) /\ IsInjective(Free(r))
      /\ ToSet(Free(r)) = {s \in DOMAIN Held(r) : ~Held(r)[s].live}
  BY NativeTypes DEF RegistrySound
<1>4. /\ registry \in [slots : Seq(NativeSlot), free : Seq(Nat)] /\ RegistrySound(registry)
      /\ holder \in NativeSlot /\ slot \in Nat /\ slot \in DOMAIN registry.slots
      /\ registry.slots[slot] = holder
      /\ \A s \in DOMAIN Held(r) : s \in DOMAIN registry.slots
      /\ \A s \in DOMAIN Held(r) : Held(r)[s].live => registry.slots[s] = Held(r)[s]
      /\ \A s \in DOMAIN Held(r) : registry.slots[s].generation = Held(r)[s].generation
  <2> DEFINE slots == Held(r)
             free == Free(r)
  <2>1. CASE free = <<>>
    <3>1. holder = [live |-> TRUE, type |-> type, generation |-> 1] /\ slot = Len(slots) + 1
          /\ registry = [slots |-> Append(slots, holder), free |-> free]
      BY <2>1
    <3>2. holder \in NativeSlot
      BY <3>1, HandlesAssumption DEF NativeSlot
    <3> HIDE DEF holder, slot, registry
    <3>3. /\ registry.slots \in Seq(NativeSlot) /\ registry.free = free
          /\ DOMAIN registry.slots = 1 .. Len(slots) + 1 /\ DOMAIN slots = 1 .. Len(slots)
          /\ Len(slots) \in Nat
          /\ \A i \in 1 .. Len(slots) : registry.slots[i] = slots[i]
          /\ registry.slots[Len(slots) + 1] = holder
      BY <1>3, <3>1, <3>2, Appended
    <3> HIDE DEF slots, free
    <3>4. RegistrySound(registry)
      BY <1>3, <3>1, <3>3 DEF RegistrySound, slots, free
    <3>5. registry \in [slots : Seq(NativeSlot), free : Seq(Nat)]
      BY <1>3, <3>1, <3>3 DEF slots, free
    <3>6. slot \in Nat /\ slot \in DOMAIN registry.slots /\ registry.slots[slot] = holder
      BY <3>1, <3>3
    <3>7. \A s \in DOMAIN slots : s \in DOMAIN registry.slots /\ registry.slots[s] = slots[s]
      BY <3>3
    <3> QED BY <3>2, <3>4, <3>5, <3>6, <3>7 DEF slots
  <2>2. CASE free # <<>>
    <3>1. holder = [live |-> TRUE, type |-> type, generation |-> slots[slot].generation]
          /\ slot = Last(free)
          /\ registry = [slots |-> [slots EXCEPT ![slot] = holder], free |-> Front(free)]
      BY <2>2
    <3> HIDE DEF holder, slot, registry, slots, free
    <3>2. /\ slot \in Nat /\ slot \in ToSet(free) /\ Front(free) \in Seq(Nat)
          /\ IsInjective(Front(free)) /\ ToSet(Front(free)) = ToSet(free) \ {slot}
      BY <1>3, <2>2, <3>1, FrontOf DEF slots, free
    <3>3. /\ slots \in Seq(NativeSlot) /\ slot \in DOMAIN slots /\ slots[slot] \in NativeSlot
          /\ ~slots[slot].live
      BY <1>3, <3>2 DEF slots, free
    <3>4. holder \in NativeSlot
      BY <3>1, <3>3 DEF NativeSlot
    <3>5. /\ registry.slots \in Seq(NativeSlot) /\ DOMAIN registry.slots = DOMAIN slots
          /\ registry.slots[slot] = holder
          /\ \A s \in DOMAIN slots : s # slot => registry.slots[s] = slots[s]
      BY <3>1, <3>3, <3>4
    <3>6. RegistrySound(registry)
      BY <1>3, <3>1, <3>2, <3>5 DEF RegistrySound, slots, free
    <3> QED BY <3>1, <3>2, <3>3, <3>4, <3>5, <3>6 DEF slots, free
  <2> QED BY <2>1, <2>2
<1>5. handle \in NativeHandle
  BY <1>4 DEF NativeHandle, NativeSlot
<1>6. given' \in Seq(NativeHandle)
  BY <1>1, <1>5 DEF NativesInv
<1>7. ASSUME NEW i \in DOMAIN given'
      PROVE  HandleSound(natives'[given'[i].registry], given'[i])
  <2> HIDE DEF handle, registry
  <2>1. CASE given'[i] = handle
    <3>1. natives'[r] = registry /\ handle.registry = r
      BY <1>2, NativeTypes DEF NativesInv, handle
    <3>2. HandleSound(registry, handle)
      <4>1. /\ handle.slot = slot /\ handle.generation = holder.generation /\ handle.aged = 0
            /\ handle.type = holder.type /\ holder.live /\ holder.generation \in 1 .. Generations
        BY <1>4 DEF handle, NativeSlot
      <4>2. Later(handle.generation, 0) = handle.generation
        BY <4>1, LaterNext, HandlesAssumption
      <4> HIDE DEF slot, holder
      <4> QED BY <1>4, <4>1, <4>2 DEF HandleSound
    <3> QED BY <2>1, <3>1, <3>2
  <2>2. CASE i \in DOMAIN given /\ given'[i] = given[i]
    <3>1. given[i] \in NativeHandle /\ HandleSound(natives[given[i].registry], given[i])
      BY <2>2 DEF NativesInv
    <3>2. CASE given[i].registry # r
      BY <1>2, <2>2, <3>1, <3>2 DEF NativesInv, NativeHandle
    <3>3. CASE given[i].registry = r
      <4>1. natives'[r] = registry
        BY <1>2 DEF NativesInv
      <4> HIDE DEF slot, holder
      <4>2. HandleSound(registry, given[i])
        BY <1>4, <3>1, <3>3 DEF HandleSound
      <4> QED BY <2>2, <3>3, <4>1, <4>2
    <3> QED BY <3>2, <3>3
  <2>3. given \in Seq(NativeHandle) /\ handle \in NativeHandle /\ given' = Append(given, handle)
    BY <1>1, <1>5 DEF NativesInv, handle
  <2> QED BY <2>1, <2>2, <2>3, Appended
<1> HIDE DEF registry
<1> QED BY <1>2, <1>4, <1>6, <1>7, RegistryChanged

\* The handles of some slots of a registry are aged and the slots released.
LEMMA ReleasedHandles ==
  ASSUME NativesInv, NEW r \in HandleRegistries, NEW registry,
         NEW released \in SUBSET DOMAIN natives[r].slots,
         natives' = [natives EXCEPT ![r] = registry],
         DOMAIN registry.slots = DOMAIN natives[r].slots,
         \A s \in DOMAIN natives[r].slots :
            registry.slots[s] =
                IF s \in released THEN Freed(natives[r].slots[s]) ELSE natives[r].slots[s],
         given' = [i \in DOMAIN given |->
                     IF given[i].registry = r /\ given[i].slot \in released
                     THEN [given[i] EXCEPT !.aged = @ + 1] ELSE given[i]]
  PROVE  /\ given' \in Seq(NativeHandle)
         /\ \A i \in DOMAIN given' : HandleSound(natives'[given'[i].registry], given'[i])
<1>1. given \in Seq(NativeHandle) /\ \A i \in DOMAIN given : given[i] \in NativeHandle
  BY DEF NativesInv
<1>2. ASSUME NEW i \in DOMAIN given PROVE given'[i] \in NativeHandle
  <2>1. given[i] \in NativeHandle /\ given[i].aged + 1 \in Nat
    BY <1>1 DEF NativeHandle
  <2>2. [given[i] EXCEPT !.aged = @ + 1] \in NativeHandle
    BY <2>1 DEF NativeHandle
  <2> QED BY <2>1, <2>2
<1>3. given' \in Seq(NativeHandle)
  <2>1. Len(given) \in Nat /\ DOMAIN given = 1 .. Len(given)
    BY <1>1
  <2>2. given' \in [1 .. Len(given) -> NativeHandle]
    BY <1>2, <2>1
  <2> QED BY <2>1, <2>2
<1>4. ASSUME NEW i \in DOMAIN given
      PROVE  HandleSound(natives'[given'[i].registry], given'[i])
  <2> DEFINE h == given[i]
  <2>1. h \in NativeHandle /\ HandleSound(natives[h.registry], h)
    BY <1>1 DEF NativesInv
  <2>2. given'[i].registry = h.registry /\ given'[i].slot = h.slot
        /\ given'[i].type = h.type /\ given'[i].generation = h.generation
    BY <2>1 DEF NativeHandle
  <2>3. CASE h.registry # r
    <3>1. given'[i] = h /\ natives'[h.registry] = natives[h.registry]
      BY <2>1, <2>3 DEF NativeHandle, NativesInv
    <3> QED BY <2>1, <3>1
  <2>4. CASE h.registry = r /\ h.slot \notin released
    <3>1. given'[i] = h /\ natives'[h.registry] = registry
      BY <2>1, <2>4 DEF NativesInv
    <3> QED BY <2>1, <2>4, <3>1 DEF HandleSound
  <2>5. CASE h.registry = r /\ h.slot \in released
    <3>1. natives'[h.registry] = registry /\ given'[i].aged = h.aged + 1
      BY <2>1, <2>5 DEF NativesInv, NativeHandle
    <3>2. /\ h.slot \in DOMAIN registry.slots
          /\ registry.slots[h.slot].generation = NextGeneration(natives[r].slots[h.slot].generation)
      <4>1. h.slot \in DOMAIN natives[r].slots
        BY <2>1, <2>5 DEF HandleSound
      <4>2. registry.slots[h.slot] = Freed(natives[r].slots[h.slot])
        BY <2>5, <4>1
      <4> QED BY <4>1, <4>2 DEF Freed
    <3>3. h.aged \in Nat /\ h.generation \in 1 .. Generations
      BY <2>1 DEF NativeHandle
    <3>4. h.aged + 1 < Generations =>
            registry.slots[h.slot].generation = Later(h.generation, h.aged + 1)
      <4> SUFFICES ASSUME h.aged + 1 < Generations
                   PROVE  registry.slots[h.slot].generation = Later(h.generation, h.aged + 1)
        OBVIOUS
      <4>1. h.aged < Generations
        BY <3>3, HandlesAssumption
      <4>2. natives[r].slots[h.slot].generation = Later(h.generation, h.aged)
        BY <2>1, <2>5, <4>1 DEF HandleSound
      <4> QED BY <3>2, <3>3, <4>1, <4>2, LaterNext
    <3>5. h.aged + 1 # 0
      BY <3>3
    <3> QED BY <2>2, <3>1, <3>2, <3>4, <3>5 DEF HandleSound
  <2> QED BY <2>3, <2>4, <2>5
<1> QED BY <1>3, <1>4

LEMMA FreedSlot ==
  ASSUME NEW slot \in NativeSlot
  PROVE  Freed(slot) \in NativeSlot /\ ~Freed(slot).live
BY NextInRange DEF NativeSlot, Freed

LEMMA ReleaseNativeKeeps == NativesInv /\ ReleaseNative => NativesInv'
<1> SUFFICES ASSUME NativesInv, ReleaseNative PROVE NativesInv'
  OBVIOUS
<1>1. PICK r \in HandleRegistries, i \in DOMAIN given :
        /\ IsAlive(r, given[i])
        /\ natives' = [natives EXCEPT ![r].slots[given[i].slot] = Freed(@),
                                      ![r].free = Append(@, given[i].slot)]
        /\ given' = Aged(given, LAMBDA h : h.registry = r /\ h.slot = given[i].slot)
  BY DEF ReleaseNative
<1> DEFINE slot == given[i].slot
           slots == natives[r].slots
           free == natives[r].free
           registry == [slots |-> [slots EXCEPT ![slot] = Freed(@)], free |-> Append(free, slot)]
<1>2. /\ slots \in Seq(NativeSlot) /\ free \in Seq(Nat) /\ IsInjective(free)
      /\ ToSet(free) = {s \in DOMAIN slots : ~slots[s].live}
  BY NativeTypes DEF RegistrySound
<1>3. slot \in DOMAIN slots /\ slots[slot].live /\ slot \in Nat
  BY <1>1, <1>2 DEF IsAlive
<1>4. natives' = [natives EXCEPT ![r] = registry]
  <2> DEFINE newSlots == [slots EXCEPT ![slot] = Freed(@)]
             newFree == Append(free, slot)
  <2>1. natives' = [natives EXCEPT ![r].slots = newSlots, ![r].free = newFree]
    BY <1>1, NativeTypes DEF NativesInv
  <2>2. registry = [slots |-> newSlots, free |-> newFree]
    OBVIOUS
  <2> HIDE DEF newSlots, newFree, registry
  <2>3. natives \in [HandleRegistries -> [slots : Seq(NativeSlot), free : Seq(Nat)]]
    BY DEF NativesInv
  <2>4. natives'[r] = registry
    BY <2>1, <2>2, <2>3
  <2>5. natives' = [natives EXCEPT ![r] = natives'[r]]
    BY <2>1, <2>3
  <2> QED BY <2>4, <2>5
<1>5. given' = [j \in DOMAIN given |->
                  IF given[j].registry = r /\ given[j].slot \in {slot}
                  THEN [given[j] EXCEPT !.aged = @ + 1] ELSE given[j]]
  BY <1>1 DEF Aged
<1>6. /\ registry.slots \in Seq(NativeSlot) /\ DOMAIN registry.slots = DOMAIN slots
      /\ \A s \in DOMAIN slots :
            registry.slots[s] = IF s \in {slot} THEN Freed(slots[s]) ELSE slots[s]
      /\ ~registry.slots[slot].live
  BY <1>2, <1>3, FreedSlot
<1> HIDE DEF slot, slots, free
<1>7. /\ registry.free \in Seq(Nat) /\ IsInjective(registry.free)
      /\ ToSet(registry.free) = ToSet(free) \cup {slot}
  BY <1>2, <1>3, Appended
<1>8. registry \in [slots : Seq(NativeSlot), free : Seq(Nat)]
  BY <1>6, <1>7
<1> HIDE DEF registry
<1>9. RegistrySound(registry)
  BY <1>2, <1>3, <1>6, <1>7 DEF RegistrySound
<1>10. /\ given' \in Seq(NativeHandle)
       /\ \A j \in DOMAIN given' : HandleSound(natives'[given'[j].registry], given'[j])
  <2>1. {slot} \in SUBSET DOMAIN natives[r].slots
    BY <1>3 DEF slots
  <2> QED BY <1>4, <1>5, <1>6, <2>1, ReleasedHandles DEF slots
<1> QED BY <1>4, <1>8, <1>9, <1>10, RegistryChanged

LEMMA ClearNativesKeeps == NativesInv /\ ClearNatives => NativesInv'
<1> SUFFICES ASSUME NativesInv, ClearNatives PROVE NativesInv'
  OBVIOUS
<1>1. PICK r \in HandleRegistries :
        /\ natives' = [natives EXCEPT
              ![r].slots = [i \in DOMAIN natives[r].slots |->
                              IF natives[r].slots[i].live THEN Freed(natives[r].slots[i])
                                                          ELSE natives[r].slots[i]],
              ![r].free  = [i \in DOMAIN natives[r].slots |-> i]]
        /\ given' = Aged(given, LAMBDA h : h.registry = r /\ natives[r].slots[h.slot].live)
  BY DEF ClearNatives
<1> DEFINE slots == natives[r].slots
           cleared == [i \in DOMAIN slots |-> IF slots[i].live THEN Freed(slots[i]) ELSE slots[i]]
           all == [i \in DOMAIN slots |-> i]
           registry == [slots |-> cleared, free |-> all]
           released == {s \in DOMAIN slots : slots[s].live}
<1>2. slots \in Seq(NativeSlot) /\ Len(slots) \in Nat /\ DOMAIN slots = 1 .. Len(slots)
  <2>1. slots \in Seq(NativeSlot)
    BY NativeTypes
  <2> HIDE DEF slots
  <2> QED BY <2>1
<1>3. natives' = [natives EXCEPT ![r] = registry]
  <2>1. natives' = [natives EXCEPT ![r].slots = cleared, ![r].free = all]
    BY <1>1
  <2>2. registry = [slots |-> cleared, free |-> all]
    OBVIOUS
  <2> HIDE DEF cleared, all, registry
  <2>3. natives \in [HandleRegistries -> [slots : Seq(NativeSlot), free : Seq(Nat)]]
    BY DEF NativesInv
  <2>4. natives'[r] = registry
    BY <2>1, <2>2, <2>3
  <2>5. natives' = [natives EXCEPT ![r] = natives'[r]]
    BY <2>1, <2>3
  <2> QED BY <2>4, <2>5
<1>4. given' = [j \in DOMAIN given |->
                  IF given[j].registry = r /\ given[j].slot \in released
                  THEN [given[j] EXCEPT !.aged = @ + 1] ELSE given[j]]
  <2>1. \A j \in DOMAIN given : given[j].registry = r => given[j].slot \in DOMAIN slots
    BY DEF NativesInv, HandleSound
  <2> QED BY <1>1, <2>1 DEF Aged
<1> HIDE DEF slots
<1>5. \A s \in DOMAIN slots : cleared[s] \in NativeSlot /\ ~cleared[s].live
  BY <1>2, FreedSlot
<1>6. cleared \in Seq(NativeSlot) /\ DOMAIN cleared = DOMAIN slots
  <2>1. cleared \in [1 .. Len(slots) -> NativeSlot]
    BY <1>2, <1>5
  <2> QED BY <1>2, <2>1
<1>7. all \in Seq(Nat) /\ IsInjective(all) /\ ToSet(all) = DOMAIN slots
  <2>1. all \in [1 .. Len(slots) -> Nat]
    BY <1>2
  <2>2. all \in Seq(Nat)
    BY <1>2, <2>1
  <2>3. IsInjective(all) /\ ToSet(all) = DOMAIN slots
    BY DEF IsInjective, ToSet
  <2> QED BY <2>2, <2>3
<1>8. /\ registry \in [slots : Seq(NativeSlot), free : Seq(Nat)]
      /\ registry.slots = cleared /\ registry.free = all
  <2> HIDE DEF cleared, all
  <2> QED BY <1>6, <1>7
<1>9. RegistrySound(registry)
  <2> HIDE DEF cleared, all, registry
  <2> QED BY <1>5, <1>6, <1>7, <1>8 DEF RegistrySound
<1>10. \A s \in DOMAIN slots :
         registry.slots[s] = IF s \in released THEN Freed(slots[s]) ELSE slots[s]
  OBVIOUS
<1> HIDE DEF registry
<1>11. /\ given' \in Seq(NativeHandle)
       /\ \A j \in DOMAIN given' : HandleSound(natives'[given'[j].registry], given'[j])
  <2>1. released \in SUBSET DOMAIN natives[r].slots
    BY DEF slots
  <2>2. DOMAIN registry.slots = DOMAIN natives[r].slots
    BY <1>6, <1>8 DEF slots
  <2>3. \A s \in DOMAIN natives[r].slots :
          registry.slots[s] =
            IF s \in released THEN Freed(natives[r].slots[s]) ELSE natives[r].slots[s]
    BY <1>10 DEF slots
  <2> HIDE DEF released
  <2> QED BY <1>3, <1>4, <2>1, <2>2, <2>3, ReleasedHandles
<1> QED BY <1>3, <1>8, <1>9, <1>11, RegistryChanged

-----------------------------------------------------------------------------
(* The free list of the entity registry. *)

LEMMA TailOf ==
  ASSUME NEW f \in Seq(Nat), Sorted(f), f # <<>>
  PROVE  /\ Head(f) \in Nat /\ Head(f) \in ToSet(f)
         /\ Tail(f) \in Seq(Nat) /\ Sorted(Tail(f))
         /\ ToSet(Tail(f)) = ToSet(f) \ {Head(f)}
<1> DEFINE n == Len(f)
           g == Tail(f)
<1>1. n \in Nat \ {0} /\ f \in [1 .. n -> Nat] /\ DOMAIN f = 1 .. n /\ Head(f) = f[1]
  OBVIOUS
<1>2. /\ g \in Seq(Nat) /\ DOMAIN g = 1 .. n - 1
      /\ \A i \in 1 .. n - 1 : g[i] = f[i + 1] /\ i + 1 \in 1 .. n /\ 1 < i + 1
  BY <1>1
<1> HIDE DEF n, g
<1>3. \A i \in 1 .. n - 1 : g[i] # f[1]
  <2> SUFFICES ASSUME NEW i \in 1 .. n - 1 PROVE g[i] # f[1]
    OBVIOUS
  <2>1. 1 \in 1 .. n /\ i + 1 \in 1 .. n /\ 1 < i + 1
    BY <1>1, <1>2
  <2>2. f[1] < f[i + 1] /\ f[1] \in Nat
    BY <1>1, <2>1 DEF Sorted
  <2> QED BY <1>2, <2>2
<1>4. ToSet(g) \subseteq ToSet(f) \ {f[1]}
  BY <1>1, <1>2, <1>3 DEF ToSet
<1>5. ASSUME NEW i \in 1 .. n, i # 1 PROVE f[i] \in ToSet(g)
  <2>1. i - 1 \in 1 .. n - 1 /\ (i - 1) + 1 = i
    BY <1>1, <1>5
  <2>2. g[i - 1] = f[i]
    BY <1>2, <2>1
  <2> QED BY <1>2, <2>1, <2>2 DEF ToSet
<1>6. ToSet(g) = ToSet(f) \ {f[1]}
  BY <1>1, <1>4, <1>5 DEF ToSet
<1>7. Sorted(g)
  <2> SUFFICES ASSUME NEW i \in 1 .. n - 1, NEW j \in 1 .. n - 1, i < j PROVE g[i] < g[j]
    BY <1>2 DEF Sorted
  <2>1. i + 1 \in 1 .. n /\ j + 1 \in 1 .. n /\ i + 1 < j + 1
    BY <1>1
  <2> QED BY <1>1, <1>2, <2>1 DEF Sorted
<1>8. 1 \in 1 .. n
  BY <1>1
<1> QED BY <1>1, <1>2, <1>6, <1>7, <1>8, SMTT(30) DEF ToSet, g

\* lower_bound() on an ascending list: the entries below an index come first.
LEMMA BelowComeFirst ==
  ASSUME NEW f \in Seq(Nat), Sorted(f), NEW e \in Nat
  PROVE  LET k == Cardinality({i \in DOMAIN f : f[i] < e})
         IN  k \in 0 .. Len(f) /\ \A i \in DOMAIN f : f[i] < e <=> i <= k
<1> DEFINE n == Len(f)
           below == {i \in DOMAIN f : f[i] < e}
           k == Cardinality(below)
<1>1. n \in Nat /\ f \in [1 .. n -> Nat] /\ DOMAIN f = 1 .. n
  OBVIOUS
<1> HIDE DEF n
<1>2. \A m \in Nat : IsFiniteSet(1 .. m) /\ Cardinality(1 .. m) = m
  BY FS_Interval
<1>3. IsFiniteSet(below) /\ k <= n /\ k \in Nat
  <2>1. below \in SUBSET (1 .. n)
    BY <1>1
  <2> HIDE DEF below
  <2> QED BY <1>1, <1>2, <2>1, FS_Subset, FS_CardinalityType, ZenonT(40)
<1>4. ASSUME NEW j \in below PROVE j \in 1 .. k
  <2>1. j \in 1 .. n /\ f[j] < e
    BY <1>1
  <2>2. \A i \in 1 .. j : i \in below
    <3> SUFFICES ASSUME NEW i \in 1 .. j PROVE i \in 1 .. n /\ f[i] < e
      BY <1>1
    <3>1. i \in 1 .. n /\ (i < j \/ i = j)
      BY <1>1, <2>1
    <3>2. f[i] <= f[j] /\ f[i] \in Nat /\ f[j] \in Nat
      BY <1>1, <2>1, <3>1 DEF Sorted
    <3> QED BY <2>1, <3>1, <3>2
  <2>3. 1 .. j \in SUBSET below /\ j \in Nat
    BY <2>1, <2>2
  <2> HIDE DEF below
  <2>4. j <= k
    BY <1>2, <1>3, <2>3, FS_Subset
  <2> QED BY <1>3, <2>1, <2>4
<1>5. below = 1 .. k
  <2>1. below \in SUBSET (1 .. k)
    BY <1>4
  <2> HIDE DEF below
  <2>2. IsFiniteSet(1 .. k) /\ Cardinality(1 .. k) = k
    BY <1>2, <1>3
  <2> QED BY <2>1, <2>2, FS_Subset DEF k
<1>6. \A i \in 1 .. n : f[i] < e <=> i <= k
  BY <1>1, <1>3, <1>5
<1> QED BY <1>1, <1>3, <1>6 DEF n

\* An index goes into the free list at its place.
LEMMA InOrderKeeps ==
  ASSUME NEW f \in Seq(Nat), Sorted(f), NEW e \in Nat, e \notin ToSet(f)
  PROVE  /\ InOrder(f, e) \in Seq(Nat) /\ Sorted(InOrder(f, e))
         /\ ToSet(InOrder(f, e)) = ToSet(f) \cup {e}
<1> DEFINE n == Len(f)
           k == Cardinality({i \in DOMAIN f : f[i] < e})
           front == SubSeq(f, 1, k)
           back == SubSeq(f, k + 1, n)
           g == InOrder(f, e)
<1>1. n \in Nat /\ f \in [1 .. n -> Nat] /\ DOMAIN f = 1 .. n
  OBVIOUS
<1>2. k \in 0 .. n /\ \A i \in 1 .. n : f[i] < e <=> i <= k
  BY <1>1, BelowComeFirst
<1>3. g = front \o <<e>> \o back
  <2>1. (k + 1) - 1 = k
    BY <1>1, <1>2
  <2> QED BY <2>1 DEF InOrder, InsertAt
<1> HIDE DEF k, g
<1>4. /\ front \in Seq(Nat) /\ Len(front) = k /\ \A i \in 1 .. k : front[i] = f[i]
  BY <1>1, <1>2
<1>5. /\ back \in Seq(Nat) /\ Len(back) = n - k /\ \A i \in 1 .. n - k : back[i] = f[k + i]
  <2> HIDE DEF back
  <2>1. k + 1 \in 1 .. n + 1 /\ n - (k + 1) + 1 = n - k /\ k \in Nat
    BY <1>1, <1>2
  <2>2. /\ SubSeq(f, k + 1, n) \in Seq(Nat)
        /\ Len(SubSeq(f, k + 1, n)) = IF k + 1 <= n THEN n - (k + 1) + 1 ELSE 0
        /\ \A i \in 1 .. n - (k + 1) + 1 : SubSeq(f, k + 1, n)[i] = f[(k + 1) + i - 1]
    <3>1. k + 1 \in Int /\ n \in Int /\ \A i \in k + 1 .. n : f[i] \in Nat
      BY <1>1, <2>1
    <3> QED BY <3>1, SubSeqProperties
  <2>3. \A i \in 1 .. n - k : (k + 1) + i - 1 = k + i
    BY <2>1
  <2>4. Len(SubSeq(f, k + 1, n)) = n - k
    <3>1. k \in Int /\ n \in Int /\ k <= n
      BY <1>1, <1>2
    <3>2. CASE k + 1 <= n
      BY <2>1, <2>2, <3>2
    <3>3. CASE ~(k + 1 <= n)
      <4>1. n - k = 0
        BY <3>1, <3>3
      <4> QED BY <2>2, <3>3, <4>1
    <3> QED BY <3>2, <3>3
  <2> QED BY <2>1, <2>2, <2>3, <2>4 DEF back
<1> HIDE DEF front, back
<1>6. /\ front \o <<e>> \in Seq(Nat) /\ Len(front \o <<e>>) = k + 1
      /\ \A i \in 1 .. k : (front \o <<e>>)[i] = f[i]
      /\ (front \o <<e>>)[k + 1] = e
  BY <1>2, <1>4
<1>7. /\ g \in Seq(Nat) /\ Len(g) = n + 1
      /\ \A i \in 1 .. k + 1 : g[i] = (front \o <<e>>)[i]
      /\ \A i \in k + 2 .. n + 1 : g[i] = back[i - (k + 1)]
  <2> DEFINE h == front \o <<e>>
  <2>1. h \in Seq(Nat) /\ Len(h) = k + 1 /\ g = h \o back
    BY <1>3, <1>6
  <2> HIDE DEF h
  <2>2. /\ h \o back \in Seq(Nat) /\ Len(h \o back) = Len(h) + Len(back)
        /\ \A i \in 1 .. Len(h) + Len(back) :
              (h \o back)[i] = IF i <= Len(h) THEN h[i] ELSE back[i - Len(h)]
    BY <1>5, <2>1, ConcatProperties
  <2>3. /\ (k + 1) + (n - k) = n + 1
        /\ \A i \in 1 .. k + 1 : i \in 1 .. n + 1 /\ i <= k + 1
        /\ \A i \in k + 2 .. n + 1 : i \in 1 .. n + 1 /\ ~(i <= k + 1)
    BY <1>1, <1>2
  <2> QED BY <1>5, <2>1, <2>2, <2>3 DEF h
<1>8. /\ \A i \in 1 .. k : g[i] = f[i] /\ i \in 1 .. n
      /\ g[k + 1] = e /\ k + 1 \in 1 .. n + 1
      /\ \A i \in k + 2 .. n + 1 : g[i] = f[i - 1] /\ i - 1 \in 1 .. n /\ i - 1 > k
  <2>1. \A i \in 1 .. k : i \in 1 .. k + 1 /\ i \in 1 .. n
    BY <1>1, <1>2
  <2>2. k + 1 \in 1 .. k + 1 /\ k + 1 \in 1 .. n + 1
    BY <1>1, <1>2
  <2>3. ASSUME NEW i \in k + 2 .. n + 1
        PROVE  /\ i - (k + 1) \in 1 .. n - k /\ k + (i - (k + 1)) = i - 1
               /\ i - 1 \in 1 .. n /\ i - 1 > k
    BY <1>1, <1>2
  <2> QED BY <1>5, <1>6, <1>7, <2>1, <2>2, <2>3
<1>9. DOMAIN g = 1 .. n + 1 /\ \A i \in 1 .. n + 1 : i \in 1 .. k \/ i = k + 1 \/ i \in k + 2 .. n + 1
  BY <1>1, <1>2, <1>7
<1>10. ToSet(g) \subseteq ToSet(f) \cup {e}
  BY <1>1, <1>8, <1>9 DEF ToSet
<1>11. ASSUME NEW i \in 1 .. n PROVE f[i] \in ToSet(g)
  <2>1. CASE i <= k
    <3>1. i \in 1 .. k /\ i \in 1 .. n + 1
      BY <1>1, <1>2, <2>1
    <3> QED BY <1>8, <1>9, <3>1 DEF ToSet
  <2>2. CASE ~(i <= k)
    <3>1. i + 1 \in k + 2 .. n + 1 /\ (i + 1) - 1 = i /\ i + 1 \in 1 .. n + 1
      BY <1>1, <1>2, <2>2
    <3>2. g[i + 1] = f[i]
      BY <1>8, <3>1
    <3> QED BY <1>9, <3>1, <3>2 DEF ToSet
  <2> QED BY <2>1, <2>2
<1>12. ToSet(g) = ToSet(f) \cup {e}
  BY <1>1, <1>8, <1>9, <1>10, <1>11, ZenonT(40) DEF ToSet
<1>13. \A i \in 1 .. n : f[i] # e
  BY <1>1 DEF ToSet
<1>14. Sorted(g)
  <2> SUFFICES ASSUME NEW i \in 1 .. n + 1, NEW j \in 1 .. n + 1, i < j PROVE g[i] < g[j]
    BY <1>9 DEF Sorted
  <2>1. CASE i \in 1 .. k /\ j \in 1 .. k
    BY <1>1, <1>8, <2>1 DEF Sorted
  <2>2. CASE i \in 1 .. k /\ j = k + 1
    BY <1>1, <1>2, <1>8, <2>2
  <2>3. CASE i \in 1 .. k /\ j \in k + 2 .. n + 1
    <3>1. i \in 1 .. n /\ j - 1 \in 1 .. n /\ i < j - 1
      BY <1>1, <1>2, <1>8, <2>3
    <3> QED BY <1>1, <1>8, <2>3, <3>1 DEF Sorted
  <2>4. CASE i = k + 1 /\ j \in k + 2 .. n + 1
    <3>1. j - 1 \in 1 .. n /\ ~(j - 1 <= k) /\ g[j] = f[j - 1]
      BY <1>1, <1>2, <1>8, <2>4
    <3>2. ~(f[j - 1] < e) /\ f[j - 1] # e /\ f[j - 1] \in Nat
      BY <1>1, <1>2, <1>13, <3>1
    <3> QED BY <1>8, <2>4, <3>1, <3>2
  <2>5. CASE i \in k + 2 .. n + 1 /\ j \in k + 2 .. n + 1
    <3>1. i - 1 \in 1 .. n /\ j - 1 \in 1 .. n /\ i - 1 < j - 1
      BY <1>1, <1>8, <2>5
    <3> QED BY <1>1, <1>8, <2>5, <3>1 DEF Sorted
  <2>6. ~(i = k + 1 /\ j = k + 1) /\ ~(i = k + 1 /\ j \in 1 .. k)
        /\ ~(i \in k + 2 .. n + 1 /\ (j \in 1 .. k \/ j = k + 1))
    BY <1>1, <1>2
  <2> QED BY <1>9, <2>1, <2>2, <2>3, <2>4, <2>5, <2>6
<1> QED BY <1>7, <1>12, <1>14 DEF g

-----------------------------------------------------------------------------
(* The entity registry. *)

LEMMA LivingFinite ==
  ASSUME NEW S, NEW slots \in Seq(S)
  PROVE  IsFiniteSet(Living(slots)) /\ Cardinality(Living(slots)) \in Nat
<1>1. Len(slots) \in Int /\ DOMAIN slots = 1 .. Len(slots)
  OBVIOUS
<1>2. IsFiniteSet(1 .. Len(slots))
  BY <1>1, FS_Interval
<1>3. Living(slots) \in SUBSET (1 .. Len(slots))
  BY <1>1 DEF Living
<1>4. IsFiniteSet(Living(slots))
  BY <1>2, <1>3, FS_Subset
<1> QED BY <1>4, FS_CardinalityType

LEMMA CreateEntityKeeps ==
  ASSUME EntitiesSound(entities, ids), CreateEntity
  PROVE  EntitiesSound(entities', ids')
<1> DEFINE slots == entities.slots
           free == entities.free
           fresh == free = <<>>
           index == IF fresh THEN Len(slots) + 1 ELSE Head(free)
           slot == [alive |-> TRUE, generation |-> IF fresh THEN 1 ELSE slots[index].generation]
           newSlots == IF fresh THEN Append(slots, slot) ELSE [slots EXCEPT ![index] = slot]
           newFree == IF fresh THEN <<>> ELSE Tail(free)
           id == [index |-> index, generation |-> slot.generation, aged |-> 0]
<1>1. /\ entities' = [slots |-> newSlots, free |-> newFree, count |-> entities.count + 1]
      /\ ids' = Append(ids, id)
  BY DEF CreateEntity
<1>2. /\ slots \in Seq(EntitySlot) /\ free \in Seq(Nat) /\ entities.count \in Nat
      /\ Sorted(free) /\ ToSet(free) = DOMAIN slots \ Living(slots)
      /\ entities.count = Cardinality(Living(slots))
      /\ ids \in Seq(Entity)
  BY DEF EntitiesSound
<1>3. /\ newSlots \in Seq(EntitySlot) /\ newFree \in Seq(Nat) /\ Sorted(newFree)
      /\ DOMAIN newSlots = DOMAIN slots \cup {index} /\ index \in Nat
      /\ index \notin Living(slots) /\ slot \in EntitySlot
      /\ newSlots[index] = slot
      /\ \A i \in DOMAIN slots : i # index => newSlots[i] = slots[i]
      /\ \A i \in DOMAIN slots : newSlots[i].generation = slots[i].generation
      /\ ToSet(newFree) = ToSet(free) \ {index}
  <2>1. CASE fresh
    <3>1. index = Len(slots) + 1 /\ slot = [alive |-> TRUE, generation |-> 1]
          /\ newSlots = Append(slots, slot) /\ newFree = <<>> /\ free = <<>>
      BY <2>1
    <3>2. slot \in EntitySlot
      BY <3>1, HandlesAssumption DEF EntitySlot
    <3> HIDE DEF slots, free, index, slot, newSlots, newFree
    <3>3. /\ newSlots \in Seq(EntitySlot)
          /\ DOMAIN newSlots = 1 .. Len(slots) + 1 /\ DOMAIN slots = 1 .. Len(slots)
          /\ Len(slots) \in Nat /\ newSlots[index] = slot
          /\ \A i \in 1 .. Len(slots) : newSlots[i] = slots[i]
      BY <1>2, <3>1, <3>2, Appended
    <3>4. newFree \in Seq(Nat) /\ Sorted(newFree) /\ ToSet(newFree) = {} /\ ToSet(free) = {}
      BY <3>1 DEF Sorted, ToSet
    <3>5. DOMAIN newSlots = DOMAIN slots \cup {index} /\ index \notin DOMAIN slots /\ index \in Nat
      BY <3>1, <3>3
    <3>6. index \notin Living(slots)
      BY <3>5 DEF Living
    <3> QED BY <3>2, <3>3, <3>4, <3>5, <3>6
  <2>2. CASE ~fresh
    <3>1. index = Head(free) /\ slot = [alive |-> TRUE, generation |-> slots[index].generation]
          /\ newSlots = [slots EXCEPT ![index] = slot] /\ newFree = Tail(free) /\ free # <<>>
      BY <2>2
    <3> HIDE DEF slots, free, index, slot, newSlots, newFree
    <3>2. /\ index \in Nat /\ index \in ToSet(free) /\ newFree \in Seq(Nat) /\ Sorted(newFree)
          /\ ToSet(newFree) = ToSet(free) \ {index}
      BY <1>2, <3>1, TailOf
    <3>3. index \in DOMAIN slots /\ index \notin Living(slots) /\ slots[index] \in EntitySlot
      BY <1>2, <3>2
    <3>4. slot \in EntitySlot
      BY <3>1, <3>3 DEF EntitySlot
    <3>5. /\ newSlots \in Seq(EntitySlot) /\ DOMAIN newSlots = DOMAIN slots
          /\ newSlots[index] = slot
          /\ \A i \in DOMAIN slots : i # index => newSlots[i] = slots[i]
      BY <1>2, <3>1, <3>3, <3>4
    <3> QED BY <3>1, <3>2, <3>3, <3>4, <3>5
  <2> QED BY <2>1, <2>2
<1>4. slot.alive /\ id \in Entity /\ slot.generation \in 1 .. Generations
  BY <1>3 DEF Entity, EntitySlot
<1> HIDE DEF index, newSlots, newFree, slot
<1>5. Living(newSlots) = Living(slots) \cup {index}
  BY <1>3, <1>4 DEF Living
<1>6. entities.count + 1 = Cardinality(Living(newSlots))
  <2>1. IsFiniteSet(Living(slots))
    BY <1>2, LivingFinite
  <2>2. Cardinality(Living(slots) \cup {index}) = Cardinality(Living(slots)) + 1
    BY <1>3, <2>1, FS_AddElement
  <2> QED BY <1>2, <1>5, <2>2
<1>7. ToSet(newFree) = DOMAIN newSlots \ Living(newSlots)
  BY <1>2, <1>3, <1>5
<1>8. ids' \in Seq(Entity)
  BY <1>1, <1>2, <1>4
<1>9. ASSUME NEW i \in DOMAIN ids'
      PROVE  /\ ids'[i].index \in DOMAIN newSlots
             /\ ids'[i].aged < Generations =>
                  newSlots[ids'[i].index].generation = Later(ids'[i].generation, ids'[i].aged)
             /\ ids'[i].aged = 0 => newSlots[ids'[i].index].alive
  <2>1. CASE ids'[i] = id
    <3>1. Later(slot.generation, 0) = slot.generation
      BY <1>4, LaterNext, HandlesAssumption
    <3> QED BY <1>3, <1>4, <2>1, <3>1
  <2>2. CASE i \in DOMAIN ids /\ ids'[i] = ids[i]
    <3>1. /\ ids[i].index \in DOMAIN slots
          /\ ids[i].aged < Generations =>
               slots[ids[i].index].generation = Later(ids[i].generation, ids[i].aged)
          /\ ids[i].aged = 0 => slots[ids[i].index].alive
      BY <2>2 DEF EntitiesSound
    <3> HIDE DEF slots
    <3> QED BY <1>3, <1>4, <2>2, <3>1
  <2> HIDE DEF id
  <2>3. i \in 1 .. Len(ids) + 1 /\ DOMAIN ids = 1 .. Len(ids) /\ Len(ids) \in Nat
        /\ (\A j \in 1 .. Len(ids) : ids'[j] = ids[j]) /\ ids'[Len(ids) + 1] = id
    BY <1>1, <1>2, <1>4, Appended
  <2> QED BY <2>1, <2>2, <2>3
<1>10. /\ entities'.slots = newSlots /\ entities'.free = newFree
       /\ entities'.count = entities.count + 1
       /\ entities' \in [slots : Seq(EntitySlot), free : Seq(Nat), count : Nat]
  BY <1>1, <1>2, <1>3
<1> HIDE DEF slots, free, id
<1> QED BY <1>3, <1>6, <1>7, <1>8, <1>9, <1>10 DEF EntitiesSound

LEMMA DestroyEntityKeeps ==
  ASSUME EntitiesSound(entities, ids), DestroyEntity
  PROVE  EntitiesSound(entities', ids')
<1>1. PICK n \in DOMAIN ids :
        /\ Alive(ids[n])
        /\ entities' = [entities EXCEPT
              !.slots[ids[n].index] = [alive |-> FALSE, generation |-> NextGeneration(@.generation)],
              !.free  = InOrder(@, ids[n].index),
              !.count = @ - 1]
        /\ ids' = Aged(ids, LAMBDA id : id.index = ids[n].index)
  BY DEF DestroyEntity
<1> DEFINE slots == entities.slots
           free == entities.free
           index == ids[n].index
           slot == [alive |-> FALSE, generation |-> NextGeneration(slots[index].generation)]
           newSlots == [slots EXCEPT ![index] = slot]
           newFree == InOrder(free, index)
<1>2. /\ slots \in Seq(EntitySlot) /\ free \in Seq(Nat) /\ entities.count \in Nat
      /\ Sorted(free) /\ ToSet(free) = DOMAIN slots \ Living(slots)
      /\ entities.count = Cardinality(Living(slots))
      /\ ids \in Seq(Entity)
      /\ entities = [slots |-> slots, free |-> free, count |-> entities.count]
  BY DEF EntitiesSound
<1>3. index \in DOMAIN slots /\ slots[index].alive /\ slots[index] \in EntitySlot /\ index \in Nat
  BY <1>1, <1>2 DEF Alive
<1>4. entities' = [slots |-> newSlots, free |-> newFree, count |-> entities.count - 1]
  BY <1>1, <1>2
<1>5. ids' = [i \in DOMAIN ids |-> IF ids[i].index = index
                                   THEN [ids[i] EXCEPT !.aged = @ + 1] ELSE ids[i]]
  BY <1>1 DEF Aged
<1>6. slot \in EntitySlot
  BY <1>3, NextInRange DEF EntitySlot
<1> HIDE DEF slots, free, index, slot
<1>7. /\ newSlots \in Seq(EntitySlot) /\ DOMAIN newSlots = DOMAIN slots
      /\ newSlots[index] = slot
      /\ \A i \in DOMAIN slots : i # index => newSlots[i] = slots[i]
  BY <1>2, <1>3, <1>6
<1> HIDE DEF newSlots
<1>8. index \in Living(slots) /\ index \notin ToSet(free)
  BY <1>2, <1>3 DEF Living
<1>9. newFree \in Seq(Nat) /\ Sorted(newFree) /\ ToSet(newFree) = ToSet(free) \cup {index}
  BY <1>2, <1>3, <1>8, InOrderKeeps
<1> HIDE DEF newFree
<1>10. Living(newSlots) = Living(slots) \ {index}
  BY <1>3, <1>7 DEF Living, slot
<1>11. entities.count - 1 = Cardinality(Living(newSlots)) /\ entities.count - 1 \in Nat
  <2>1. Cardinality(Living(newSlots)) = Cardinality(Living(slots)) - 1
    BY <1>2, <1>8, <1>10, LivingFinite, FS_RemoveElement
  <2>2. Cardinality(Living(newSlots)) \in Nat
    BY <1>7, LivingFinite
  <2> QED BY <1>2, <2>1, <2>2
<1>12. ToSet(newFree) = DOMAIN newSlots \ Living(newSlots)
  BY <1>2, <1>3, <1>7, <1>9, <1>10
<1>13. ids' \in Seq(Entity)
  <2>1. \A i \in DOMAIN ids : ids[i] \in Entity
    BY <1>2
  <2>2. \A i \in DOMAIN ids : ids'[i] \in Entity
    BY <1>5, <2>1 DEF Entity
  <2>3. Len(ids) \in Nat /\ DOMAIN ids = 1 .. Len(ids)
    BY <1>2
  <2>4. ids' \in [1 .. Len(ids) -> Entity]
    BY <1>5, <2>2, <2>3
  <2> QED BY <2>3, <2>4
<1>14. ASSUME NEW i \in DOMAIN ids'
       PROVE  /\ ids'[i].index \in DOMAIN newSlots
              /\ ids'[i].aged < Generations =>
                   newSlots[ids'[i].index].generation = Later(ids'[i].generation, ids'[i].aged)
              /\ ids'[i].aged = 0 => newSlots[ids'[i].index].alive
  <2>1. i \in DOMAIN ids /\ ids[i] \in Entity
    BY <1>2, <1>5
  <2>2. /\ ids[i].index \in DOMAIN slots
        /\ ids[i].aged < Generations =>
             slots[ids[i].index].generation = Later(ids[i].generation, ids[i].aged)
        /\ ids[i].aged = 0 => slots[ids[i].index].alive
    BY <2>1 DEF EntitiesSound, slots
  <2>3. CASE ids[i].index # index
    BY <1>5, <1>7, <2>1, <2>2, <2>3
  <2>4. CASE ids[i].index = index
    <3>1. /\ ids'[i].index = index /\ ids'[i].aged = ids[i].aged + 1
          /\ ids'[i].generation = ids[i].generation
          /\ ids[i].aged \in Nat /\ ids[i].generation \in 1 .. Generations
      BY <1>5, <2>1, <2>4 DEF Entity
    <3>2. newSlots[index].generation = NextGeneration(slots[index].generation)
      BY <1>7 DEF slot
    <3>3. ASSUME ids[i].aged + 1 < Generations
          PROVE  newSlots[index].generation = Later(ids[i].generation, ids[i].aged + 1)
      <4>1. ids[i].aged < Generations
        BY <3>1, <3>3, HandlesAssumption
      <4> QED BY <2>2, <2>4, <3>1, <3>2, <3>3, <4>1, LaterNext
    <3> QED BY <1>3, <1>7, <3>1, <3>3
  <2> QED BY <2>3, <2>4
<1>15. /\ entities'.slots = newSlots /\ entities'.free = newFree
       /\ entities'.count = entities.count - 1
       /\ entities' \in [slots : Seq(EntitySlot), free : Seq(Nat), count : Nat]
  BY <1>4, <1>7, <1>9, <1>11
<1> QED BY <1>9, <1>11, <1>12, <1>13, <1>14, <1>15 DEF EntitiesSound

LEMMA NothingSound == EntitiesSound(NoEntities, <<>>)
<1>1. Living(<<>>) = {} /\ Cardinality({}) = 0
  BY FS_EmptySet DEF Living
<1>2. ToSet(<<>>) = {} /\ Sorted(<<>>)
  BY DEF ToSet, Sorted
<1> QED BY <1>1, <1>2 DEF EntitiesSound, NoEntities

-----------------------------------------------------------------------------
(* The invariant and what follows from it. *)

LEMMA HandlesStarts == HandlesInit => HandlesInv
<1> SUFFICES ASSUME HandlesInit PROVE HandlesInv
  OBVIOUS
<1>1. NativesInv
  <2>1. IsInjective(<<>>) /\ ToSet(<<>>) = {}
    BY DEF IsInjective, ToSet
  <2> QED BY <2>1 DEF HandlesInit, NativesInv, RegistrySound
<1>2. EntitiesInv
  BY NothingSound DEF HandlesInit, EntitiesInv
<1> QED BY <1>1, <1>2 DEF HandlesInv

LEMMA HandlesStep == HandlesInv /\ [NativeNext \/ EntityNext]_handleVars => HandlesInv'
<1> SUFFICES ASSUME HandlesInv, [NativeNext \/ EntityNext]_handleVars PROVE HandlesInv'
  OBVIOUS
<1>1. ASSUME UNCHANGED <<natives, given>> PROVE NativesInv'
  BY <1>1 DEF HandlesInv, NativesInv
<1>2. ASSUME UNCHANGED <<entities, ids, kept>> PROVE EntitiesInv'
  BY <1>2 DEF HandlesInv, EntitiesInv
<1>3. CASE NativeNext
  <2>1. NativesInv'
    BY <1>3, CreateNativeKeeps, ReleaseNativeKeeps, ClearNativesKeeps DEF HandlesInv, NativeNext
  <2>2. UNCHANGED <<entities, ids, kept>>
    BY <1>3 DEF NativeNext, CreateNative, ReleaseNative, ClearNatives
  <2> QED BY <1>2, <2>1, <2>2 DEF HandlesInv
<1>4. CASE EntityNext
  <2>1. UNCHANGED <<natives, given>>
    BY <1>4 DEF EntityNext, CreateEntity, DestroyEntity, ClearEntities, Snapshot, Restore
  <2>2. EntitiesInv'
    <3>1. CASE CreateEntity
      BY <3>1, CreateEntityKeeps DEF HandlesInv, EntitiesInv, CreateEntity
    <3>2. CASE DestroyEntity
      BY <3>2, DestroyEntityKeeps DEF HandlesInv, EntitiesInv, DestroyEntity
    <3>3. CASE ClearEntities
      BY <3>3, NothingSound DEF HandlesInv, EntitiesInv, ClearEntities
    <3>4. CASE Snapshot
      BY <3>4 DEF HandlesInv, EntitiesInv, Snapshot
    <3>5. CASE Restore
      BY <3>5 DEF HandlesInv, EntitiesInv, Restore
    <3> QED BY <1>4, <3>1, <3>2, <3>3, <3>4, <3>5 DEF EntityNext
  <2> QED BY <1>1, <2>1, <2>2 DEF HandlesInv
<1>5. CASE UNCHANGED handleVars
  BY <1>1, <1>2, <1>5 DEF handleVars, HandlesInv
<1> QED BY <1>3, <1>4, <1>5

\* What the tables hold for each handle and each entity id, and for the snapshot that is
\* kept, stays as HandlesInv says under every operation of both registries.
THEOREM HandlesInvariance == HandlesSpec => []HandlesInv
<1>1. HandlesInit => HandlesInv
  BY HandlesStarts
<1>2. HandlesInv /\ [NativeNext \/ EntityNext]_handleVars => HandlesInv'
  BY HandlesStep
<1> QED BY <1>1, <1>2, PTL DEF HandlesSpec

LEMMA NativesResolveFromInv == NativesInv => NativesResolve
<1> SUFFICES ASSUME NativesInv PROVE NativesResolve
  OBVIOUS
<1>1. \A r \in HandleRegistries : RegistrySound(natives[r])
  BY DEF NativesInv
<1>2. ASSUME NEW i \in DOMAIN given, NEW r \in HandleRegistries,
             NEW expected \in ResourceTypes \cup {0},
             given[i].aged < Generations
      PROVE  Resolve(r, given[i], expected) = "resource" <=>
                given[i].aged = 0 /\ given[i].registry = r /\ expected \in {0, given[i].type}
  <2> DEFINE h == given[i]
  <2>1. h \in NativeHandle /\ HandleSound(natives[h.registry], h)
    BY DEF NativesInv
  <2>2. h.aged \in Nat /\ h.generation \in 1 .. Generations
    BY <2>1 DEF NativeHandle
  <2> HIDE DEF h
  <2>3. h.aged = 0 <=> Later(h.generation, h.aged) = h.generation
    BY <1>2, <2>2, LaterNext DEF h
  <2>4. natives[h.registry].slots[h.slot].generation = Later(h.generation, h.aged)
    BY <1>2, <2>1 DEF HandleSound, h
  <2>5. h.registry = r => (IsAlive(r, h) <=> h.aged = 0)
    BY <2>1, <2>3, <2>4 DEF IsAlive, HandleSound
  <2>6. h.registry = r => h.slot \in DOMAIN natives[r].slots
    BY <2>1 DEF HandleSound
  <2>7. Resolve(r, h, expected) = "resource" <=>
            h.aged = 0 /\ h.registry = r /\ expected \in {0, h.type}
    BY <2>5, <2>6 DEF Resolve
  <2> QED BY <2>7 DEF h
<1> QED BY <1>1, <1>2 DEF NativesResolve, RegistrySound

LEMMA EntitiesResolveFromInv == EntitiesInv => EntitiesResolve
<1> SUFFICES ASSUME EntitiesInv PROVE EntitiesResolve
  OBVIOUS
<1>1. ASSUME NEW i \in DOMAIN ids, ids[i].aged < Generations
      PROVE  Alive(ids[i]) <=> ids[i].aged = 0
  <2>1. /\ ids[i] \in Entity /\ ids[i].index \in DOMAIN entities.slots
        /\ entities.slots[ids[i].index].generation = Later(ids[i].generation, ids[i].aged)
        /\ ids[i].aged = 0 => entities.slots[ids[i].index].alive
    BY <1>1 DEF EntitiesInv, EntitiesSound
  <2>2. ids[i].aged = 0 <=> Later(ids[i].generation, ids[i].aged) = ids[i].generation
    BY <1>1, <2>1, LaterNext DEF Entity
  <2> QED BY <2>1, <2>2 DEF Alive
<1>2. Restorable(kept.state)
  <2> DEFINE state == kept.state
  <2>1. /\ state.slots \in Seq(EntitySlot) /\ Sorted(state.free)
        /\ ToSet(state.free) = DOMAIN state.slots \ Living(state.slots)
        /\ state.count = Cardinality(Living(state.slots))
    BY DEF EntitiesInv, EntitiesSound
  <2> HIDE DEF state
  <2>2. \A i \in DOMAIN state.slots :
          state.slots[i].generation # 0 /\ state.slots[i].alive \in BOOLEAN
    <3> SUFFICES ASSUME NEW i \in DOMAIN state.slots
                 PROVE  state.slots[i].generation # 0 /\ state.slots[i].alive \in BOOLEAN
      OBVIOUS
    <3>1. state.slots[i] \in EntitySlot
      BY <2>1
    <3> QED BY <3>1, HandlesAssumption DEF EntitySlot
  <2>3. \A i \in DOMAIN state.slots : state.slots[i].alive # (i \in ToSet(state.free))
    BY <2>1, <2>2 DEF Living
  <2>4. Restorable(state)
    BY <2>1, <2>2, <2>3 DEF Restorable, Sorted, Living
  <2> QED BY <2>4 DEF state
<1> QED BY <1>1, <1>2 DEF EntitiesResolve

\* However native resources and entities come and go, a handle resolves, in its own
\* registry and as its own type, exactly until what it was given for is released, and an
\* entity id is alive exactly until its entity is destroyed, as long as the generations
\* of the slot do not repeat; free slots are free once, which is what create() relies
\* on; and restore() accepts every snapshot().
THEOREM HandlesAlwaysResolve == HandlesSpec => []HandlesResolve
<1>1. HandlesInv => HandlesResolve
  BY NativesResolveFromInv, EntitiesResolveFromInv DEF HandlesInv, HandlesResolve
<1> QED BY <1>1, HandlesInvariance, PTL

-----------------------------------------------------------------------------
(***************************************************************************)
(* HeapRestore.                                                            *)
(***************************************************************************)

\* Every reference there is to an object - given to the host, read off the heap
\* or kept in the snapshot - names the same slot and generation.
Known == handles \cup {HandleOf(s) : s \in Live} \cup saved.objects

OneHome ==
    \A x, y \in Known : x.object = y.object => x.slot = y.slot /\ x.gen = y.gen

\* A snapshot is of a heap: one object per slot.
SnapshotSound ==
    /\ saved.objects \subseteq [slot : Slots, gen : Nat \ {0}, object : 1 .. created]
    /\ \A g, h \in saved.objects : g.slot = h.slot => g = h
    /\ \A r \in saved.roots : r.token \in 1 .. MaxToken

\* Until a restoration the generation of a slot only grows, and a handle of the
\* current generation is the handle of the object in the slot.
GenerationsPast ==
    ~restored =>
        \A h \in handles :
            \/ h.gen < generation[h.slot]
            \/ h.gen = generation[h.slot] /\ object[h.slot] = h.object

\* Until a restoration each PersistentRoot the host holds has its own root.
RootsHeld ==
    /\ \A r \in persistentRoots : r.token \in 1 .. nextRootToken - 1
    /\ ~restored =>
        /\ orphaned = {}
        /\ held \subseteq persistentRoots
        /\ \A r, t \in persistentRoots : r.token = t.token => r = t
        /\ \A r \in held : r.value \subseteq handles

ObjectsPast == \A s \in Slots : object[s] <= created

RestoreInv ==
    /\ TypeOK
    /\ FreeSlotsExact
    /\ ObjectsPast
    /\ OneHome
    /\ SnapshotSound
    /\ GenerationsPast
    /\ RootsHeld
    /\ RootsRetain

-----------------------------------------------------------------------------

\* Largest is the largest element of a finite set that has one.
LEMMA LargestIs ==
  ASSUME NEW S \in SUBSET Int, IsFiniteSet(S), S # {}, NEW least
  PROVE  Largest(S, least) \in S /\ \A t \in S : t <= Largest(S, least)
<1> DEFINE c == Cardinality(S)
<1>1. c \in Nat \ {0}
  BY FS_EmptySet, FS_CardinalityType
<1>2. PICK s \in S : Rank(S, s) = c
  BY <1>1, RankBijective
<1>3. {t \in S : t <= s} = S
  BY <1>2, FS_Subset DEF Rank
<1>4. \A t \in S : t <= s
  BY <1>3
<1> QED BY <1>4 DEF Largest

LEMMA SlotSets ==
  ASSUME NEW T \in SUBSET Slots
  PROVE  T \in SUBSET Int /\ IsFiniteSet(T)
<1>1. 0 \in Int /\ MaxSlots - 1 \in Int /\ T \in SUBSET (0 .. MaxSlots - 1)
  BY RestoreAssumption DEF Slots
<1> QED BY <1>1, PartsOfIntervals

-----------------------------------------------------------------------------
(* The parts of the state an action leaves alone. *)

LEMMA FreeSlotsKept ==
  ASSUME FreeSlotsExact, UNCHANGED heapVars
  PROVE  FreeSlotsExact'
BY DEF FreeSlotsExact, heapVars, Live

LEMMA KnownPast ==
  ASSUME RestoreInv, NEW x \in Known
  PROVE  x.slot \in Slots /\ x.object \in 1 .. created
<1>1. CASE x \in handles
  BY <1>1 DEF RestoreInv, TypeOK
<1>2. CASE x \in saved.objects
  BY <1>2 DEF RestoreInv, SnapshotSound
<1>3. CASE \E s \in Live : x = HandleOf(s)
  <2>1. PICK s \in Live : x = HandleOf(s)
    BY <1>3
  <2>2. s \in Slots /\ object[s] # 0 /\ object[s] \in 0 .. MaxObjects
    BY <2>1 DEF RestoreInv, TypeOK, Live, Empty
  <2>3. object[s] <= created /\ created \in 0 .. MaxObjects
    BY <2>2 DEF RestoreInv, TypeOK, ObjectsPast
  <2>4. object[s] \in 1 .. created
    BY <2>2, <2>3, RestoreAssumption
  <2> QED BY <2>1, <2>2, <2>3, <2>4 DEF HandleOf
<1> QED BY <1>1, <1>2, <1>3 DEF Known

LEMMA OneHomeKept ==
  ASSUME OneHome, Known' \subseteq Known
  PROVE  OneHome'
BY DEF OneHome

-----------------------------------------------------------------------------
(* Allocation. *)

\* The slot allocate() takes is empty, and the free list stays exact.
LEMMA AllocatedSlot ==
  ASSUME RestoreInv, Allocate
  PROVE  \E s \in Slots :
            /\ object[s] = Empty
            /\ object' = [object EXCEPT ![s] = created + 1]
            /\ handles' = handles \cup
                  {[slot |-> s, gen |-> generation[s], object |-> created + 1]}
            /\ freeSlots' \in Seq(Slots)
            /\ slotCount' \in 0 .. MaxSlots
            /\ FreeSlotsExact'
<1> DEFINE n == Len(freeSlots)
<1>1. /\ freeSlots \in Seq(Slots) /\ n \in Nat /\ slotCount \in 0 .. MaxSlots
      /\ created \in Nat /\ object \in [Slots -> 0 .. MaxObjects] /\ MaxSlots \in Nat
  BY RestoreAssumption DEF RestoreInv, TypeOK
<1>2. /\ Elements(freeSlots) = (0 .. slotCount - 1) \ Live
      /\ Live \subseteq 0 .. slotCount - 1
      /\ \A i, j \in 1 .. n : freeSlots[i] = freeSlots[j] => i = j
  BY <1>1, NoRepetition DEF RestoreInv, FreeSlotsExact
<1>3. CASE freeSlots = <<>>
  <2>1. /\ slotCount \in Slots /\ freeSlots' = freeSlots /\ slotCount' = slotCount + 1
        /\ object' = [object EXCEPT ![slotCount] = created + 1]
        /\ handles' = handles \cup
              {[slot |-> slotCount, gen |-> generation[slotCount], object |-> created + 1]}
    BY <1>3 DEF Allocate
  <2>2. object[slotCount] = Empty
    BY <1>1, <1>2, <2>1 DEF Live, Empty
  <2>3. Live' = Live \cup {slotCount}
    BY <1>1, <2>1 DEF Live, Empty
  <2>4. Elements(freeSlots) = {}
    BY <1>3 DEF Elements
  <2>5. Elements(freeSlots') = (0 .. slotCount' - 1) \ Live'
    BY <1>1, <1>2, <2>1, <2>3, <2>4
  <2>6. Live' \subseteq 0 .. slotCount' - 1
    BY <1>1, <1>2, <2>1, <2>3
  <2>7. slotCount' \in 0 .. MaxSlots
    BY <1>1, <2>1 DEF Slots
  <2>8. FreeSlotsExact'
    BY <2>1, <2>5, <2>6 DEF FreeSlotsExact, RestoreInv
  <2> QED BY <1>1, <2>1, <2>2, <2>7, <2>8
<1>4. CASE freeSlots # <<>>
  <2> DEFINE s == freeSlots[n]
  <2>1. n >= 1 /\ s \in Slots /\ s \in Elements(freeSlots)
    BY <1>1, <1>4 DEF Elements
  <2>2. /\ freeSlots' = SubSeq(freeSlots, 1, n - 1) /\ slotCount' = slotCount
        /\ object' = [object EXCEPT ![s] = created + 1]
        /\ handles' = handles \cup
              {[slot |-> s, gen |-> generation[s], object |-> created + 1]}
    BY <1>4 DEF Allocate
  <2>3. object[s] = Empty
    BY <1>1, <1>2, <2>1 DEF Live, Empty
  <2>4. Live' = Live \cup {s}
    BY <1>1, <2>1, <2>2 DEF Live, Empty
  <2>5. /\ freeSlots' \in Seq(Slots) /\ Len(freeSlots') = n - 1
        /\ \A i \in 1 .. n - 1 : freeSlots'[i] = freeSlots[i]
    <3>1. n \in Nat \ {0} /\ freeSlots \in [1 .. n -> Slots] /\ freeSlots \in Seq(Slots)
      BY <1>1, <2>1
    <3>2. /\ SubSeq(freeSlots, 1, n - 1) \in Seq(Slots)
          /\ Len(SubSeq(freeSlots, 1, n - 1)) = n - 1
          /\ \A i \in 1 .. n - 1 : SubSeq(freeSlots, 1, n - 1)[i] = freeSlots[i]
      BY <3>1
    <3> QED BY <2>2, <3>2
  <2>6. Elements(freeSlots') = Elements(freeSlots) \ {s}
    <3>1. \A i \in 1 .. n - 1 : i \in 1 .. n /\ i # n
      BY <1>1
    <3>2. \A i \in 1 .. n : i \in 1 .. n - 1 \/ i = n
      BY <1>1
    <3>3. n \in 1 .. n
      BY <1>1, <2>1
    <3>4. Elements(freeSlots') \subseteq Elements(freeSlots) \ {s}
      <4> SUFFICES ASSUME NEW i \in 1 .. n - 1
                   PROVE  freeSlots[i] \in Elements(freeSlots) /\ freeSlots[i] # s
        BY <2>5 DEF Elements
      <4> QED BY <1>2, <3>1, <3>3 DEF Elements
    <3>5. Elements(freeSlots) \ {s} \subseteq Elements(freeSlots')
      BY <2>5, <3>2 DEF Elements
    <3> QED BY <3>4, <3>5
  <2>7. \A i, j \in 1 .. Len(freeSlots') : freeSlots'[i] = freeSlots'[j] => i = j
    <3> SUFFICES ASSUME NEW i \in 1 .. n - 1, NEW j \in 1 .. n - 1, freeSlots[i] = freeSlots[j]
                 PROVE  i = j
      BY <2>5
    <3>1. i \in 1 .. n /\ j \in 1 .. n
      BY <1>1
    <3> QED BY <1>2, <3>1
  <2>8. Len(freeSlots') = Cardinality(Elements(freeSlots'))
    BY <2>5, <2>7, NoRepetition
  <2>9. FreeSlotsExact'
    BY <1>2, <2>1, <2>2, <2>4, <2>6, <2>8 DEF FreeSlotsExact
  <2> QED BY <1>1, <2>1, <2>2, <2>3, <2>5, <2>9
<1> QED BY <1>3, <1>4

LEMMA AllocateKeeps == RestoreInv /\ Allocate => RestoreInv'
<1> SUFFICES ASSUME RestoreInv, Allocate PROVE RestoreInv'
  OBVIOUS
<1>1. PICK s \in Slots :
        /\ object[s] = Empty
        /\ object' = [object EXCEPT ![s] = created + 1]
        /\ handles' = handles \cup
              {[slot |-> s, gen |-> generation[s], object |-> created + 1]}
        /\ freeSlots' \in Seq(Slots)
        /\ slotCount' \in 0 .. MaxSlots
        /\ FreeSlotsExact'
  BY AllocatedSlot
<1> DEFINE new == [slot |-> s, gen |-> generation[s], object |-> created + 1]
<1>2. /\ created' = created + 1 /\ created < MaxObjects
      /\ UNCHANGED <<generation, persistentRoots, nextRootToken, held, orphaned, saved, restored>>
  BY DEF Allocate, rootVars
<1>3. TypeOK
  BY DEF RestoreInv
<1>4. created' \in 1 .. MaxObjects /\ created \in 0 .. MaxObjects /\ generation[s] \in Nat \ {0}
  BY <1>2, <1>3, RestoreAssumption DEF TypeOK
<1>5. TypeOK'
  <2>1. object' \in [Slots -> 0 .. MaxObjects]
    BY <1>1, <1>2, <1>3, <1>4 DEF TypeOK
  <2>2. \A h \in handles' : h.slot \in Slots /\ h.gen \in Nat \ {0} /\ h.object \in 1 .. created'
    BY <1>1, <1>2, <1>3, <1>4 DEF TypeOK
  <2> QED BY <1>1, <1>2, <1>3, <1>4, <2>1, <2>2 DEF TypeOK
<1>6. ObjectsPast'
  BY <1>1, <1>2, <1>3, <1>4 DEF ObjectsPast, RestoreInv, TypeOK
<1>7. OneHome'
  <2>1. \A x \in Known' : x \in Known \/ x = new
    <3> SUFFICES ASSUME NEW x \in Known' PROVE x \in Known \/ x = new
      OBVIOUS
    <3>1. CASE x \in handles'
      BY <1>1, <3>1 DEF Known
    <3>2. CASE x \in saved.objects'
      BY <1>2, <3>2 DEF Known
    <3>3. CASE \E u \in Live' : x = HandleOf(u)'
      <4>1. PICK u \in Slots : object'[u] # Empty /\ x = [slot |-> u, gen |-> generation[u], object |-> object'[u]]
        BY <1>2, <3>3 DEF Live, HandleOf
      <4>2. CASE u = s
        BY <1>1, <1>3, <4>1, <4>2 DEF TypeOK
      <4>3. CASE u # s
        <5>1. object'[u] = object[u]
          BY <1>1, <1>3, <4>3 DEF TypeOK
        <5> QED BY <4>1, <5>1 DEF Known, Live, HandleOf
      <4> QED BY <4>2, <4>3
    <3> QED BY <3>1, <3>2, <3>3 DEF Known
  <2>2. \A x \in Known : x.object # created + 1
    BY <1>4, KnownPast
  <2> QED BY <2>1, <2>2 DEF OneHome, RestoreInv
<1>8. SnapshotSound'
  BY <1>2, <1>4 DEF SnapshotSound, RestoreInv
<1>9. GenerationsPast'
  <2> SUFFICES ASSUME ~restored, NEW h \in handles'
               PROVE  \/ h.gen < generation[h.slot]
                      \/ h.gen = generation[h.slot] /\ object'[h.slot] = h.object
    BY <1>2 DEF GenerationsPast
  <2>1. CASE h = new
    BY <1>1, <1>3, <2>1 DEF TypeOK
  <2>2. CASE h \in handles
    <3>1. h.slot \in Slots /\ h.object >= 1
      BY <1>3, <2>2 DEF TypeOK
    <3>2. CASE h.slot = s
      BY <1>1, <2>2, <3>1, <3>2 DEF GenerationsPast, RestoreInv, Empty
    <3>3. CASE h.slot # s
      BY <1>1, <1>3, <2>2, <3>1, <3>3 DEF GenerationsPast, RestoreInv, TypeOK
    <3> QED BY <3>2, <3>3
  <2> QED BY <1>1, <2>1, <2>2
<1>10. RootsHeld'
  BY <1>1, <1>2 DEF RootsHeld, RestoreInv
<1>11. RootsRetain'
  <2> SUFFICES ASSUME ~restored, NEW r \in held, NEW h \in r.value
               PROVE  Resolves(h)' /\ object'[h.slot] = h.object
    BY <1>2 DEF RootsRetain
  <2>1. h \in handles
    BY DEF RestoreInv, RootsHeld
  <2>2. Resolves(h) /\ object[h.slot] = h.object /\ h.slot \in Slots
    BY <1>3, <2>1 DEF RestoreInv, RootsRetain, TypeOK
  <2>3. h.slot # s
    BY <1>1, <2>2 DEF Resolves
  <2> QED BY <1>1, <1>2, <1>3, <2>2, <2>3 DEF Resolves, TypeOK
<1> QED BY <1>1, <1>5, <1>6, <1>7, <1>8, <1>9, <1>10, <1>11 DEF RestoreInv

-----------------------------------------------------------------------------
(* PersistentRoots. *)

LEMMA RetainKeeps ==
  ASSUME RestoreInv, NEW value \in SUBSET handles, Retain(value)
  PROVE  RestoreInv'
<1> DEFINE root == [token |-> nextRootToken, value |-> value]
<1>1. /\ persistentRoots' = persistentRoots \cup {root}
      /\ held' = held \cup {root}
      /\ nextRootToken' = nextRootToken + 1
      /\ nextRootToken <= MaxToken
      /\ \A h \in value : Resolves(h)
      /\ UNCHANGED <<slotCount, object, generation, freeSlots, created, handles, orphaned,
                     saved, restored>>
  BY DEF Retain, heapVars
<1>2. TypeOK /\ nextRootToken \in 1 .. MaxToken + 1
  BY DEF RestoreInv, TypeOK
<1>3. TypeOK'
  BY <1>1, <1>2, RestoreAssumption DEF TypeOK
<1>4. FreeSlotsExact'
  BY <1>1, FreeSlotsKept DEF RestoreInv, heapVars
<1>5. ObjectsPast' /\ SnapshotSound' /\ GenerationsPast'
  BY <1>1 DEF RestoreInv, ObjectsPast, SnapshotSound, GenerationsPast
<1>6. OneHome'
  BY <1>1, OneHomeKept DEF RestoreInv, Known, Live, HandleOf
<1>7. RootsHeld'
  <2>1. \A r \in persistentRoots' : r.token \in 1 .. nextRootToken' - 1
    BY <1>1, <1>2, RestoreAssumption DEF RestoreInv, RootsHeld
  <2>2. \A r \in persistentRoots : r.token # nextRootToken
    BY <1>2, RestoreAssumption DEF RestoreInv, RootsHeld
  <2>3. ASSUME ~restored
        PROVE  \A r, u \in persistentRoots' : r.token = u.token => r = u
    BY <1>1, <2>2, <2>3 DEF RestoreInv, RootsHeld
  <2>4. ASSUME ~restored
        PROVE  orphaned' = {} /\ held' \subseteq persistentRoots' /\ \A r \in held' : r.value \subseteq handles'
    BY <1>1, <2>4 DEF RestoreInv, RootsHeld
  <2> QED BY <1>1, <2>1, <2>3, <2>4 DEF RootsHeld
<1>8. RootsRetain'
  <2>1. ASSUME ~restored, NEW h \in value PROVE object[h.slot] = h.object
    BY <1>1, <1>2, <2>1 DEF RestoreInv, GenerationsPast, Resolves, TypeOK
  <2> QED BY <1>1, <2>1 DEF RestoreInv, RootsRetain, Resolves
<1> QED BY <1>3, <1>4, <1>5, <1>6, <1>7, <1>8 DEF RestoreInv

LEMMA ResetKeeps ==
  ASSUME RestoreInv, NEW root \in held \cup orphaned, Reset(root)
  PROVE  RestoreInv'
<1>1. /\ held' = held \ {root}
      /\ orphaned' = orphaned \ {root}
      /\ persistentRoots' = {r \in persistentRoots : r.token # root.token}
      /\ UNCHANGED <<slotCount, object, generation, freeSlots, nextRootToken, created, handles,
                     saved, restored>>
  BY DEF Reset, heapVars
<1>2. TypeOK'
  BY <1>1 DEF RestoreInv, TypeOK
<1>3. FreeSlotsExact'
  BY <1>1, FreeSlotsKept DEF RestoreInv, heapVars
<1>4. ObjectsPast' /\ SnapshotSound' /\ GenerationsPast'
  BY <1>1 DEF RestoreInv, ObjectsPast, SnapshotSound, GenerationsPast
<1>5. OneHome'
  BY <1>1, OneHomeKept DEF RestoreInv, Known, Live, HandleOf
<1>6. RootsHeld'
  BY <1>1 DEF RestoreInv, RootsHeld
<1>7. RootsRetain'
  BY <1>1 DEF RestoreInv, RootsRetain, Resolves
<1> QED BY <1>2, <1>3, <1>4, <1>5, <1>6, <1>7 DEF RestoreInv

-----------------------------------------------------------------------------
(* Collection. *)

LEMMA CollectKeeps == RestoreInv /\ Collect => RestoreInv'
<1> SUFFICES ASSUME RestoreInv, Collect PROVE RestoreInv'
  OBVIOUS
<1> DEFINE garbage == Live \ Rooted
           added == Ascending(garbage)
<1>1. /\ object' = [s \in Slots |-> IF s \in garbage THEN Empty ELSE object[s]]
      /\ generation' = [s \in Slots |->
                          IF s \in garbage THEN generation[s] + 1 ELSE generation[s]]
      /\ freeSlots' = freeSlots \o added
      /\ UNCHANGED <<slotCount, persistentRoots, nextRootToken, created, handles, held, orphaned,
                     saved, restored>>
  BY DEF Collect, rootVars, hostVars
<1>2. TypeOK
  BY DEF RestoreInv
<1>3. garbage \in SUBSET Slots
  BY DEF Live
<1> HIDE DEF garbage
<1>4. /\ added \in Seq(garbage) /\ Elements(added) = garbage
      /\ \A i, j \in 1 .. Len(added) : added[i] = added[j] => i = j
  BY <1>3, SlotSets, AscendingLists
<1>5. Live' = Live \ garbage
  BY <1>1, <1>2, <1>3 DEF Live, Empty, TypeOK, garbage
<1>6. FreeSlotsExact' /\ freeSlots' \in Seq(Slots)
  <2>1. added \in Seq(Slots) /\ freeSlots \in Seq(Slots)
    BY <1>2, <1>3, <1>4 DEF TypeOK
  <2>2. \A i, j \in 1 .. Len(freeSlots) : freeSlots[i] = freeSlots[j] => i = j
    BY <2>1, NoRepetition DEF RestoreInv, FreeSlotsExact
  <2>3. garbage \subseteq Live
    BY DEF garbage
  <2>4. Elements(freeSlots) \cap Elements(added) = {}
    BY <1>4, <2>3 DEF RestoreInv, FreeSlotsExact
  <2>5. /\ Elements(freeSlots') = Elements(freeSlots) \cup garbage
        /\ \A i, j \in 1 .. Len(freeSlots') : freeSlots'[i] = freeSlots'[j] => i = j
    <3> HIDE DEF added
    <3>1. /\ Elements(freeSlots \o added) = Elements(freeSlots) \cup Elements(added)
          /\ \A i, j \in 1 .. Len(freeSlots \o added) :
                (freeSlots \o added)[i] = (freeSlots \o added)[j] => i = j
      BY <1>4, <2>1, <2>2, <2>4, ConcatLists
    <3> QED BY <1>1, <1>4, <3>1
  <2>6. freeSlots' \in Seq(Slots)
    BY <1>1, <2>1
  <2>7. Len(freeSlots') = Cardinality(Elements(freeSlots'))
    BY <2>5, <2>6, NoRepetition
  <2>8. Elements(freeSlots') = (0 .. slotCount' - 1) \ Live'
    BY <1>1, <1>5, <2>3, <2>5 DEF RestoreInv, FreeSlotsExact
  <2>9. Live' \subseteq 0 .. slotCount' - 1
    BY <1>1, <1>5 DEF RestoreInv, FreeSlotsExact
  <2> QED BY <2>6, <2>7, <2>8, <2>9 DEF FreeSlotsExact
<1>7. TypeOK'
  BY <1>1, <1>2, <1>6, RestoreAssumption DEF TypeOK, Empty
<1>8. ObjectsPast'
  BY <1>1, <1>2 DEF RestoreInv, ObjectsPast, TypeOK, Empty
<1>9. OneHome'
  <2>1. \A s \in Live' : HandleOf(s)' = HandleOf(s) /\ s \in Live
    BY <1>1, <1>5 DEF HandleOf, Live
  <2>2. Known' \subseteq Known
    BY <1>1, <2>1 DEF Known
  <2> QED BY <2>2, OneHomeKept DEF RestoreInv
<1>10. SnapshotSound'
  BY <1>1 DEF RestoreInv, SnapshotSound
<1>11. GenerationsPast'
  <2> SUFFICES ASSUME ~restored, NEW h \in handles
               PROVE  \/ h.gen < generation'[h.slot]
                      \/ h.gen = generation'[h.slot] /\ object'[h.slot] = h.object
    BY <1>1 DEF GenerationsPast
  <2>1. h.slot \in Slots /\ generation[h.slot] \in Nat
    BY <1>2 DEF TypeOK
  <2>2. \/ h.gen < generation[h.slot]
        \/ h.gen = generation[h.slot] /\ object[h.slot] = h.object
    BY DEF RestoreInv, GenerationsPast
  <2>3. CASE h.slot \in garbage
    <3>1. generation'[h.slot] = generation[h.slot] + 1
      BY <1>1, <2>1, <2>3
    <3>2. h.gen \in Nat
      BY <1>2 DEF TypeOK
    <3> QED BY <2>1, <2>2, <3>1, <3>2
  <2>4. CASE h.slot \notin garbage
    BY <1>1, <2>1, <2>2, <2>4
  <2> QED BY <2>3, <2>4
<1>12. RootsHeld'
  BY <1>1 DEF RestoreInv, RootsHeld
<1>13. RootsRetain'
  <2> SUFFICES ASSUME ~restored, NEW r \in held, NEW h \in r.value
               PROVE  Resolves(h)' /\ object'[h.slot] = h.object
    BY <1>1 DEF RootsRetain
  <2>1. h \in handles /\ r \in persistentRoots
    BY DEF RestoreInv, RootsHeld
  <2>2. Resolves(h) /\ object[h.slot] = h.object /\ h.slot \in Slots
    BY <1>2, <2>1 DEF RestoreInv, RootsRetain, TypeOK
  <2>3. h.slot \in Rooted
    BY <2>1 DEF Rooted
  <2>4. h.slot \notin garbage
    BY <2>3 DEF garbage
  <2> QED BY <1>1, <2>2, <2>4 DEF Resolves
<1> QED BY <1>6, <1>7, <1>8, <1>9, <1>10, <1>11, <1>12, <1>13 DEF RestoreInv

-----------------------------------------------------------------------------
(* Snapshots. *)

LEMMA SnapshotKeeps == RestoreInv /\ SnapshotHeap => RestoreInv'
<1> SUFFICES ASSUME RestoreInv, SnapshotHeap PROVE RestoreInv'
  OBVIOUS
<1>1. /\ saved'.objects = {HandleOf(s) : s \in Live}
      /\ saved'.roots = UNION {{[token |-> r.token, value |-> h] : h \in r.value} :
                                  r \in persistentRoots}
      /\ UNCHANGED <<slotCount, object, generation, freeSlots, persistentRoots, nextRootToken,
                     created, handles, held, orphaned, restored>>
  BY DEF SnapshotHeap, heapVars, rootVars
<1>2. TypeOK /\ TypeOK'
  BY <1>1 DEF RestoreInv, TypeOK
<1>3. FreeSlotsExact'
  BY <1>1, FreeSlotsKept DEF RestoreInv, heapVars
<1>4. ObjectsPast' /\ GenerationsPast' /\ RootsHeld' /\ RootsRetain'
  BY <1>1 DEF RestoreInv, ObjectsPast, GenerationsPast, RootsHeld, RootsRetain, Resolves
<1>5. Known' \subseteq Known
  BY <1>1 DEF Known, Live, HandleOf
<1>6. OneHome'
  BY <1>5, OneHomeKept DEF RestoreInv
<1>7. SnapshotSound'
  <2>1. ASSUME NEW s \in Live
        PROVE  HandleOf(s) \in [slot : Slots, gen : Nat \ {0}, object : 1 .. created]
    <3>1. s \in Slots /\ generation[s] \in Nat \ {0}
      BY <1>2 DEF Live, TypeOK
    <3>2. HandleOf(s) \in Known
      BY DEF Known
    <3>3. HandleOf(s).object \in 1 .. created
      BY <3>2, KnownPast
    <3> QED BY <3>1, <3>3 DEF HandleOf
  <2>2. \A r \in saved'.roots : r.token \in 1 .. MaxToken
    <3> SUFFICES ASSUME NEW r \in persistentRoots PROVE r.token \in 1 .. MaxToken
      BY <1>1
    <3> QED BY <1>2, RestoreAssumption DEF RestoreInv, RootsHeld, TypeOK
  <2>3. \A g, h \in saved'.objects : g.slot = h.slot => g = h
    BY <1>1 DEF HandleOf
  <2> QED BY <1>1, <2>1, <2>2, <2>3 DEF SnapshotSound
<1> QED BY <1>2, <1>3, <1>4, <1>6, <1>7 DEF RestoreInv

LEMMA RestoreKeeps == RestoreInv /\ RestoreHeap => RestoreInv'
<1> SUFFICES ASSUME RestoreInv, RestoreHeap PROVE RestoreInv'
  OBVIOUS
<1> DEFINE ends == {s + 1 : s \in RestoredSlots}
           tokens == {r.token + 1 : r \in saved.roots}
           free == (0 .. RestoredCount - 1) \ RestoredSlots
<1>1. /\ slotCount' = RestoredCount
      /\ object' = [s \in Slots |-> IF s \in RestoredSlots THEN SavedAt(s).object ELSE Empty]
      /\ generation' = [s \in Slots |-> RestoredGeneration(s)]
      /\ freeSlots' = Ascending(free)
      /\ persistentRoots' = {[token |-> r.token, value |-> {r.value}] : r \in saved.roots}
      /\ nextRootToken' = Largest(tokens, 1)
      /\ restored' = TRUE
      /\ UNCHANGED <<created, handles, saved>>
  BY DEF RestoreHeap, RestoredFreeSlots
<1>2. TypeOK /\ SnapshotSound
  BY DEF RestoreInv
<1>3. ASSUME NEW s \in RestoredSlots
      PROVE  /\ s \in Slots /\ SavedAt(s) \in saved.objects /\ SavedAt(s).slot = s
             /\ SavedAt(s).object \in 1 .. created /\ SavedAt(s).gen \in Nat \ {0}
  <2>1. \E h \in saved.objects : h.slot = s
    BY DEF RestoredSlots
  <2>2. SavedAt(s) \in saved.objects /\ SavedAt(s).slot = s
    BY <2>1 DEF SavedAt
  <2> QED BY <1>2, <2>2 DEF SnapshotSound
<1>4. RestoredCount \in 0 .. MaxSlots /\ \A s \in RestoredSlots : s < RestoredCount
  <2>1. ends \in SUBSET (1 .. MaxSlots)
    BY <1>3, RestoreAssumption DEF Slots
  <2>2. ends \in SUBSET Int /\ IsFiniteSet(ends)
    <3> HIDE DEF ends
    <3>1. 1 \in Int /\ MaxSlots \in Int
      BY RestoreAssumption
    <3> QED BY <2>1, <3>1, PartsOfIntervals
  <2>3. CASE ends = {}
    BY <2>3, RestoreAssumption DEF RestoredCount, Largest
  <2>4. CASE ends # {}
    <3>1. Largest(ends, 0) \in ends /\ \A e \in ends : e <= Largest(ends, 0)
      BY <2>2, <2>4, LargestIs
    <3>2. RestoredCount \in 1 .. MaxSlots /\ \A s \in RestoredSlots : s + 1 <= RestoredCount
      BY <2>1, <3>1 DEF RestoredCount
    <3> QED BY <1>3, <3>2, RestoreAssumption DEF Slots
  <2> QED BY <2>3, <2>4
<1>5. Live' = RestoredSlots
  BY <1>1, <1>2, <1>3 DEF Live, Empty, TypeOK
<1>6. free \in SUBSET Slots
  BY <1>4, RestoreAssumption DEF Slots
<1>7. FreeSlotsExact' /\ freeSlots' \in Seq(Slots)
  <2> HIDE DEF free
  <2>1. /\ freeSlots' \in Seq(free) /\ Elements(freeSlots') = free
        /\ Len(freeSlots') = Cardinality(free)
    BY <1>1, <1>6, SlotSets, AscendingLists
  <2>2. RestoredSlots \subseteq 0 .. RestoredCount - 1
    BY <1>3, <1>4, RestoreAssumption DEF Slots
  <2>3. freeSlots' \in Seq(Slots)
    BY <1>6, <2>1
  <2> QED BY <1>1, <1>5, <2>1, <2>2, <2>3 DEF FreeSlotsExact, free
<1>8. nextRootToken' \in 1 .. MaxToken + 1 /\ \A r \in saved.roots : r.token < nextRootToken'
  <2>1. tokens \in SUBSET (2 .. MaxToken + 1)
    BY <1>2, RestoreAssumption DEF SnapshotSound
  <2>2. tokens \in SUBSET Int /\ IsFiniteSet(tokens)
    <3> HIDE DEF tokens
    <3>1. 2 \in Int /\ MaxToken + 1 \in Int
      BY RestoreAssumption
    <3> QED BY <2>1, <3>1, PartsOfIntervals
  <2>3. CASE tokens = {}
    <3>1. saved.roots = {}
      BY <2>3
    <3>2. nextRootToken' = 1
      BY <1>1, <2>3 DEF Largest
    <3> QED BY <3>1, <3>2, RestoreAssumption
  <2>4. CASE tokens # {}
    <3>1. nextRootToken' \in tokens /\ \A n \in tokens : n <= nextRootToken'
      BY <1>1, <2>2, <2>4, LargestIs
    <3>2. \A r \in saved.roots : r.token + 1 <= nextRootToken' /\ r.token \in Int
      BY <1>2, <3>1 DEF SnapshotSound
    <3> QED BY <2>1, <3>1, <3>2, RestoreAssumption
  <2> QED BY <2>3, <2>4
<1>9. TypeOK'
  <2>1. object' \in [Slots -> 0 .. MaxObjects]
    BY <1>1, <1>2, <1>3, RestoreAssumption DEF TypeOK, Empty
  <2>2. generation' \in [Slots -> Nat \ {0}]
    BY <1>1, <1>3 DEF RestoredGeneration
  <2> QED BY <1>1, <1>2, <1>4, <1>7, <1>8, <2>1, <2>2 DEF TypeOK
<1>10. ObjectsPast'
  BY <1>1, <1>2, <1>3, RestoreAssumption DEF ObjectsPast, TypeOK, Empty
<1>11. OneHome'
  <2>1. ASSUME NEW s \in Live' PROVE HandleOf(s)' \in saved.objects
    <3>1. s \in RestoredSlots /\ s \in Slots
      BY <1>3, <1>5
    <3>2. HandleOf(s)' = [slot |-> s, gen |-> SavedAt(s).gen, object |-> SavedAt(s).object]
      BY <1>1, <3>1 DEF HandleOf, RestoredGeneration
    <3>3. SavedAt(s) \in [slot : Slots, gen : Nat \ {0}, object : 1 .. created] /\ SavedAt(s).slot = s
      BY <1>2, <1>3, <3>1 DEF SnapshotSound
    <3>4. SavedAt(s) = [slot |-> s, gen |-> SavedAt(s).gen, object |-> SavedAt(s).object]
      BY <3>3
    <3> QED BY <1>3, <3>1, <3>2, <3>4
  <2>2. Known' \subseteq Known
    BY <1>1, <2>1 DEF Known
  <2> QED BY <2>2, OneHomeKept DEF RestoreInv
<1>12. SnapshotSound' /\ GenerationsPast' /\ RootsRetain'
  BY <1>1, <1>2 DEF SnapshotSound, GenerationsPast, RootsRetain
<1>13. RootsHeld'
  <2>1. \A r \in saved.roots : r.token \in 1 .. nextRootToken' - 1
    BY <1>2, <1>8, RestoreAssumption DEF SnapshotSound
  <2> QED BY <1>1, <2>1 DEF RootsHeld
<1> QED BY <1>7, <1>9, <1>10, <1>11, <1>12, <1>13 DEF RestoreInv

-----------------------------------------------------------------------------
(* The invariant and what follows from it. *)

LEMMA RestoreStarts == RestoreInit => RestoreInv
<1> SUFFICES ASSUME RestoreInit PROVE RestoreInv
  OBVIOUS
<1> USE RestoreAssumption DEF RestoreInit
<1>1. Live = {}
  BY DEF Live, Empty
<1>2. TypeOK
  BY DEF TypeOK, Empty
<1>3. FreeSlotsExact
  <2>1. Elements(freeSlots) = {}
    BY DEF Elements
  <2>2. Len(freeSlots) = 0 /\ Cardinality({}) = 0
    BY FS_EmptySet
  <2>3. (0 .. slotCount - 1) \ Live = {}
    BY <1>1
  <2> QED BY <1>1, <2>1, <2>2, <2>3 DEF FreeSlotsExact
<1>4. ObjectsPast /\ OneHome /\ SnapshotSound /\ GenerationsPast /\ RootsHeld /\ RootsRetain
  BY <1>1 DEF ObjectsPast, OneHome, Known, SnapshotSound, GenerationsPast, RootsHeld, RootsRetain,
              Empty
<1> QED BY <1>2, <1>3, <1>4 DEF RestoreInv

LEMMA RestoreStep == RestoreInv /\ [RestoreNext]_restoreVars => RestoreInv'
<1> SUFFICES ASSUME RestoreInv, [RestoreNext]_restoreVars PROVE RestoreInv'
  OBVIOUS
<1>1. CASE Allocate
  BY <1>1, AllocateKeeps
<1>2. ASSUME NEW value \in SUBSET handles, Retain(value) PROVE RestoreInv'
  BY <1>2, RetainKeeps
<1>3. ASSUME NEW root \in held \cup orphaned, Reset(root) PROVE RestoreInv'
  BY <1>3, ResetKeeps
<1>4. CASE Collect
  BY <1>4, CollectKeeps
<1>5. CASE SnapshotHeap
  BY <1>5, SnapshotKeeps
<1>6. CASE RestoreHeap
  BY <1>6, RestoreKeeps
<1>7. CASE UNCHANGED restoreVars
  <2> USE <1>7 DEF restoreVars, heapVars, rootVars, hostVars
  <2>1. Live' = Live /\ Known' = Known
    BY DEF Live, Known, HandleOf
  <2>2. TypeOK' /\ FreeSlotsExact' /\ ObjectsPast'
    BY <2>1 DEF RestoreInv, TypeOK, FreeSlotsExact, ObjectsPast
  <2>3. OneHome' /\ SnapshotSound' /\ GenerationsPast' /\ RootsHeld' /\ RootsRetain'
    BY <2>1 DEF RestoreInv, OneHome, SnapshotSound, GenerationsPast, RootsHeld, RootsRetain, Resolves
  <2> QED BY <2>2, <2>3 DEF RestoreInv
<1> QED BY <1>1, <1>2, <1>3, <1>4, <1>5, <1>6, <1>7 DEF RestoreNext

\* References, snapshots and roots stay as RestoreInv says through every allocation,
\* collection, snapshot and restoration.
THEOREM RestoreInvariance == Spec => []RestoreInv
<1>1. RestoreInit => RestoreInv
  BY RestoreStarts
<1>2. RestoreInv /\ [RestoreNext]_restoreVars => RestoreInv'
  BY RestoreStep
<1> QED BY <1>1, <1>2, PTL DEF Spec

\* Until a snapshot is restored no reference the host was ever given resolves to an
\* object other than its own, however often collections recycle its slot: Impl::get
\* compares generations, and a slot that is freed gets the next one.
THEOREM NoReferenceGoesAstray == Spec => []StaleRejectedAtFirst
<1>1. RestoreInv => StaleRejectedAtFirst
  <2> SUFFICES ASSUME RestoreInv, ~restored, NEW h \in handles, Resolves(h)
               PROVE  object[h.slot] = h.object
    BY DEF StaleRejectedAtFirst, StaleRejected
  <2>1. h.slot \in Slots /\ generation[h.slot] \in Nat
    BY DEF RestoreInv, TypeOK
  <2> QED BY <2>1 DEF RestoreInv, GenerationsPast, Resolves
<1> QED BY <1>1, RestoreInvariance, PTL

\* What a host holds of the heap stays good through allocations, collections,
\* snapshots and restorations: a live object resolves through every reference given to
\* it, a PersistentRoot keeps its objects alive until it is reset (or a snapshot is
\* restored), and the free list is the empty slots of the table, each once.
THEOREM HostHoldsTheHeap == Spec => []HandlesHold
<1>1. RestoreInv => LiveResolves
  <2> SUFFICES ASSUME RestoreInv, NEW h \in handles, NEW s \in Live, object[s] = h.object
               PROVE  Resolves(h)
    BY DEF LiveResolves
  <2>1. h \in Known /\ HandleOf(s) \in Known /\ HandleOf(s).object = h.object
    BY DEF Known, HandleOf
  <2>2. HandleOf(s).slot = h.slot /\ HandleOf(s).gen = h.gen
    BY <2>1 DEF RestoreInv, OneHome
  <2> QED BY <2>2 DEF HandleOf, Resolves, Live
<1>2. RestoreInv => HandlesHold
  BY <1>1 DEF RestoreInv, HandlesHold
<1> QED BY <1>2, RestoreInvariance, PTL

-----------------------------------------------------------------------------
(***************************************************************************)
(* Scene.                                                                  *)
(***************************************************************************)

-----------------------------------------------------------------------------
(* The invariant. *)

Names ==
    Lifecycle \cup Callbacks \cup
    {"", "new", "OnCreate", "OnCreate0", "OnCreate1", "OnEnable", "OnDisable", "OnDestroy"}
Targets == Entities \cup {BroadcastTarget}
Instance == [type : DOMAIN Methods, enabled : BOOLEAN, started : BOOLEAN]
Event == [id : Nat, target : Targets, callback : Callbacks]
Trigger ==
    [target : Targets, callback : Callbacks, once : BOOLEAN, fired : BOOLEAN, fires : Nat,
     nested : BOOLEAN]
FrameOps ==
    {"script", "attach", "detach", "enable", "loop", "invoke", "flush", "triggers"}
Frames ==
    [op : FrameOps, entity : Nat, name : Names, type : DOMAIN Methods \cup {""},
     enabled : BOOLEAN, owner : BOOLEAN, events : Seq(Event), due : SUBSET Entities,
     seen : SUBSET Entities]

SceneTyped ==
    /\ DOMAIN instances \subseteq Entities
    /\ \A e \in DOMAIN instances : instances[e] \in Instance
    /\ queue \in Seq(Event)
    /\ DOMAIN triggers \subseteq Triggers
    /\ \A id \in DOMAIN triggers : triggers[id] \in Trigger
    /\ answer \in {"none", "ok", "failed"}
    /\ issued \in Nat
    /\ handled \in Seq(Nat)

\* What holds of one frame: only a flush has events, and a loop has called those it owed
\* a call up to where it stands.
FrameSound(f) ==
    /\ f.op # "flush" => f.events = <<>>
    /\ f.op = "attach" => f.entity \in Entities /\ f.type \in DOMAIN Methods
    /\ f.op = "loop" =>
        /\ f.entity \in Entities \cup {0, End}
        /\ f.entity \in Entities => f.entity \in f.seen
        /\ \A e \in f.due : e < f.entity => e \in f.seen

StackSound(frames) ==
    /\ frames \in Seq(Frames)
    /\ \A i \in 1 .. Len(frames) : FrameSound(frames[i])

\* The events that wait in each frame, and the trigger it evaluates.
EventsIn(frames) == [i \in Nat |-> IF i \in 1 .. Len(frames) THEN frames[i].events ELSE <<>>]
Evaluating(frames) ==
    [i \in Nat |-> IF i \in 1 .. Len(frames) /\ frames[i].op = "triggers"
                   THEN frames[i].entity ELSE 0]

\* EventsOnce, with the events of each frame given as lists and the queue behind them.
EventsSound(lists, waiting, done, last) ==
    /\ \A i \in Nat : \A k \in 1 .. Len(lists[i]) :
        /\ lists[i][k].id \in 1 .. last
        /\ \A n \in 1 .. Len(done) : done[n] # lists[i][k].id
        /\ \A l \in 1 .. Len(lists[i]) : k < l => lists[i][k].id < lists[i][l].id
        /\ \A j \in Nat : \A l \in 1 .. Len(lists[j]) : i < j => lists[i][k].id < lists[j][l].id
        /\ \A l \in 1 .. Len(waiting) : lists[i][k].id < waiting[l].id
    /\ \A k \in 1 .. Len(waiting) :
        /\ waiting[k].id \in 1 .. last
        /\ \A n \in 1 .. Len(done) : done[n] # waiting[k].id
        /\ \A l \in 1 .. Len(waiting) : k < l => waiting[k].id < waiting[l].id
    /\ \A m, n \in 1 .. Len(done) : done[m] \in 1 .. last /\ (done[m] = done[n] => m = n)
    /\ \A id \in 1 .. last :
        \/ \E i \in Nat : \E k \in 1 .. Len(lists[i]) : lists[i][k].id = id
        \/ \E k \in 1 .. Len(waiting) : waiting[k].id = id
        \/ \E n \in 1 .. Len(done) : done[n] = id

\* A trigger that may fire once and was never evaluated inside its own evaluation has
\* not fired while one evaluation, the only one, stands on it.
TriggersSound(on, map) ==
    /\ \A i \in Nat : on[i] # 0 => on[i] \in DOMAIN map
    /\ \A id \in DOMAIN map : map[id].once /\ ~map[id].nested =>
        /\ map[id].fires <= 1
        /\ map[id].fires = 1 => map[id].fired
        /\ \A i \in Nat : on[i] = id =>
            /\ map[id].fires = 0
            /\ \A j \in Nat : on[j] = id => i = j

SceneInv ==
    /\ SceneTyped
    /\ StackSound(stack)
    /\ EventsSound(EventsIn(stack), queue, handled, issued)
    /\ TriggersSound(Evaluating(stack), triggers)

-----------------------------------------------------------------------------
(* Entities and the end of a loop. *)

LEMMA GreatestIs ==
  ASSUME NEW S \in SUBSET Int, IsFiniteSet(S), S # {}
  PROVE  \E s \in S : \A t \in S : t <= s
<1> DEFINE n == Cardinality(S)
           a == Ascending(S)
<1>1. n \in Nat \ {0}
  BY FS_EmptySet, FS_CardinalityType
<1>2. a \in Seq(S) /\ Len(a) = n /\ Elements(a) = S
  BY AscendingLists
<1>3. \A i, j \in 1 .. n : i < j => a[i] < a[j]
  BY AscendingIncreases
<1> HIDE DEF n, a
<1>4. n \in 1 .. n /\ a[n] \in S
  BY <1>1, <1>2
<1>5. \A t \in S : t <= a[n]
  <2> TAKE t \in S
  <2>1. PICK i \in 1 .. n : a[i] = t
    BY <1>2 DEF Elements
  <2>2. CASE i = n
    BY <2>1, <2>2
  <2>3. CASE i # n
    <3>1. i < n
      BY <1>1, <2>3
    <3>2. a[i] < a[n] /\ a[i] \in Int /\ a[n] \in Int
      BY <1>3, <1>4, <2>1, <3>1
    <3> QED BY <2>1, <3>2
  <2> QED BY <2>2, <2>3
<1> QED BY <1>4, <1>5

LEMMA EndIs == End \in Nat \ {0} /\ \A e \in Entities : e \in Nat /\ e # 0 /\ e < End
<1>1. Entities \in SUBSET Int /\ IsFiniteSet(Entities) /\ Entities # {}
  BY SceneAssumption
<1>2. \E n \in Entities : \A m \in Entities : m <= n
  BY <1>1, GreatestIs
<1> DEFINE last == CHOOSE n \in Entities : \A m \in Entities : m <= n
<1>3. last \in Entities /\ \A m \in Entities : m <= last
  BY <1>2
<1>4. End = 1 + last
  BY DEF End
<1> HIDE DEF last
<1> QED BY <1>3, <1>4, SceneAssumption

LEMMA MinimumIs ==
  ASSUME NEW S \in SUBSET Entities, S # {}
  PROVE  Minimum(S) \in S /\ \A e \in S : Minimum(S) <= e
<1>1. S \in SUBSET Int
  BY SceneAssumption
<1>2. IsFiniteSet(S)
  <2>1. IsFiniteSet(Entities)
    BY SceneAssumption
  <2> QED BY <2>1, FS_Subset
<1>3. \E n \in S : \A m \in S : n <= m
  BY <1>1, <1>2, LeastIs
<1> QED BY <1>3 DEF Minimum

-----------------------------------------------------------------------------
(* Stacks: what pushing and popping a frame does to the events and the evaluations. *)

LEMMA EmptyStack ==
  /\ StackSound(<<>>)
  /\ EventsIn(<<>>) = [i \in Nat |-> <<>>]
  /\ Evaluating(<<>>) = [i \in Nat |-> 0]
BY DEF StackSound, EventsIn, Evaluating

LEMMA PushedFrame ==
  ASSUME NEW frames, StackSound(frames), NEW f \in Frames, FrameSound(f)
  PROVE  /\ StackSound(Append(frames, f))
         /\ EventsIn(Append(frames, f)) = [EventsIn(frames) EXCEPT ![Len(frames) + 1] = f.events]
         /\ Evaluating(Append(frames, f)) =
                [Evaluating(frames) EXCEPT ![Len(frames) + 1] =
                    IF f.op = "triggers" THEN f.entity ELSE 0]
<1> DEFINE pushed == Append(frames, f)
           n == Len(frames)
<1>1. /\ pushed \in Seq(Frames) /\ Len(pushed) = n + 1 /\ n \in Nat
      /\ \A i \in 1 .. n : pushed[i] = frames[i]
      /\ pushed[n + 1] = f
  BY AppendedEntry DEF StackSound
<1> HIDE DEF pushed, n
<1>2. \A i \in 1 .. n + 1 : FrameSound(pushed[i])
  BY <1>1 DEF StackSound, n
<1>3. \A i \in Nat : i \in 1 .. n + 1 <=> i \in 1 .. n \/ i = n + 1
  BY <1>1
<1>4. n + 1 \in Nat /\ n + 1 \notin 1 .. n
  BY <1>1
<1>5. EventsIn(pushed) = [EventsIn(frames) EXCEPT ![n + 1] = f.events]
  BY <1>1, <1>3, <1>4 DEF EventsIn, n
<1>6. Evaluating(pushed) = [Evaluating(frames) EXCEPT ![n + 1] =
                                IF f.op = "triggers" THEN f.entity ELSE 0]
  BY <1>1, <1>3, <1>4 DEF Evaluating, n
<1> QED BY <1>1, <1>2, <1>5, <1>6 DEF StackSound, pushed, n

LEMMA PoppedFrame ==
  ASSUME NEW frames, StackSound(frames), frames # <<>>
  PROVE  LET n == Len(frames)
             popped == SubSeq(frames, 1, n - 1) IN
         /\ n \in Nat \ {0} /\ frames[n] \in Frames /\ FrameSound(frames[n])
         /\ StackSound(popped) /\ Len(popped) = n - 1
         /\ EventsIn(popped) = [EventsIn(frames) EXCEPT ![n] = <<>>]
         /\ Evaluating(popped) = [Evaluating(frames) EXCEPT ![n] = 0]
         /\ EventsIn(frames)[n] = frames[n].events
         /\ Evaluating(frames)[n] = IF frames[n].op = "triggers" THEN frames[n].entity ELSE 0
<1> DEFINE n == Len(frames)
           popped == SubSeq(frames, 1, n - 1)
<1>1. /\ n \in Nat \ {0} /\ frames[n] \in Frames
      /\ popped \in Seq(Frames) /\ Len(popped) = n - 1
      /\ \A i \in 1 .. n - 1 : popped[i] = frames[i]
  BY PoppedEntry DEF StackSound
<1> HIDE DEF popped
<1>2. n \in 1 .. n /\ \A i \in 1 .. n - 1 : i \in 1 .. n
  BY <1>1
<1>3. FrameSound(frames[n]) /\ \A i \in 1 .. n - 1 : FrameSound(popped[i])
  BY <1>1, <1>2 DEF StackSound
<1>4. \A i \in Nat : i \in 1 .. n - 1 <=> i \in 1 .. n /\ i # n
  BY <1>1
<1>5. EventsIn(popped) = [EventsIn(frames) EXCEPT ![n] = <<>>]
  BY <1>1, <1>4 DEF EventsIn
<1>6. Evaluating(popped) = [Evaluating(frames) EXCEPT ![n] = 0]
  BY <1>1, <1>4 DEF Evaluating
<1>7. EventsIn(frames)[n] = frames[n].events
      /\ Evaluating(frames)[n] = IF frames[n].op = "triggers" THEN frames[n].entity ELSE 0
  BY <1>1, <1>2 DEF EventsIn, Evaluating
<1>8. StackSound(popped)
  BY <1>1, <1>3 DEF StackSound
<1> QED BY <1>1, <1>3, <1>5, <1>6, <1>7, <1>8 DEF popped

\* The same events wait, and the same triggers are evaluated.
Alike(frames, others) ==
    EventsIn(frames) = EventsIn(others) /\ Evaluating(frames) = Evaluating(others)

LEMMA RefreshedStack ==
  ASSUME NEW frames, StackSound(frames), NEW map
  PROVE  /\ StackSound(Refreshed(frames, map)) /\ Alike(Refreshed(frames, map), frames)
         /\ Len(Refreshed(frames, map)) = Len(frames)
         /\ \A i \in 1 .. Len(frames) :
                Refreshed(frames, map)[i] =
                    [frames[i] EXCEPT !.due = @ \cap EligibleOf(frames[i].name, map)]
<1> DEFINE n == Len(frames)
           fresh(i) == [frames[i] EXCEPT !.due = @ \cap EligibleOf(frames[i].name, map)]
           owing == Refreshed(frames, map)
<1>1. n \in Nat /\ DOMAIN frames = 1 .. n /\ \A i \in 1 .. n : frames[i] \in Frames
  BY DEF StackSound
<1>2. \A i \in 1 .. n : /\ fresh(i) \in Frames
                        /\ fresh(i).op = frames[i].op /\ fresh(i).entity = frames[i].entity
                        /\ fresh(i).type = frames[i].type /\ fresh(i).events = frames[i].events
                        /\ fresh(i).seen = frames[i].seen /\ fresh(i).due \subseteq frames[i].due
  BY <1>1 DEF Frames
<1>3. \A i \in 1 .. n : FrameSound(fresh(i))
  <2> TAKE i \in 1 .. n
  <2>1. FrameSound(frames[i])
    BY DEF StackSound
  <2> HIDE DEF fresh
  <2> QED BY <1>2, <2>1 DEF FrameSound
<1>4. owing = [i \in 1 .. n |-> fresh(i)]
  BY <1>1 DEF Refreshed
<1> HIDE DEF fresh, n
<1>5. owing \in Seq(Frames) /\ Len(owing) = n /\ \A i \in 1 .. n : owing[i] = fresh(i)
  BY <1>1, <1>2, <1>4
<1> HIDE DEF owing
<1>6. StackSound(owing)
  BY <1>3, <1>5 DEF StackSound
<1>7. EventsIn(owing) = EventsIn(frames) /\ Evaluating(owing) = Evaluating(frames)
  BY <1>2, <1>5 DEF EventsIn, Evaluating, n
<1> QED BY <1>5, <1>6, <1>7 DEF Alike, fresh, n, owing

Answers == {"none", "ok", "failed"}

LEMMA PushedQuietly ==
  ASSUME NEW frames, StackSound(frames), NEW f \in Frames, FrameSound(f),
         f.op \notin {"flush", "triggers"}
  PROVE  StackSound(Append(frames, f)) /\ Alike(Append(frames, f), frames)
<1>1. f.events = <<>>
  BY DEF FrameSound
<1>2. Len(frames) \in Nat /\ Len(frames) + 1 \in Nat /\ Len(frames) + 1 \notin 1 .. Len(frames)
  BY DEF StackSound
<1>3. [EventsIn(frames) EXCEPT ![Len(frames) + 1] = <<>>] = EventsIn(frames)
  BY <1>2 DEF EventsIn
<1>4. [Evaluating(frames) EXCEPT ![Len(frames) + 1] = 0] = Evaluating(frames)
  BY <1>2 DEF Evaluating
<1> QED BY <1>1, <1>3, <1>4, PushedFrame DEF Alike

LEMMA PoppedQuietly ==
  ASSUME NEW frames, StackSound(frames), frames # <<>>,
         frames[Len(frames)].op # "triggers", frames[Len(frames)].events = <<>>
  PROVE  StackSound(SubSeq(frames, 1, Len(frames) - 1))
         /\ Alike(SubSeq(frames, 1, Len(frames) - 1), frames)
<1> DEFINE n == Len(frames)
<1>1. /\ n \in Nat \ {0} /\ StackSound(SubSeq(frames, 1, n - 1))
      /\ EventsIn(SubSeq(frames, 1, n - 1)) = [EventsIn(frames) EXCEPT ![n] = <<>>]
      /\ Evaluating(SubSeq(frames, 1, n - 1)) = [Evaluating(frames) EXCEPT ![n] = 0]
      /\ EventsIn(frames)[n] = <<>> /\ Evaluating(frames)[n] = 0
  BY PoppedFrame
<1> HIDE DEF n
<1>2. /\ EventsIn(frames) = [i \in Nat |-> EventsIn(frames)[i]]
      /\ Evaluating(frames) = [i \in Nat |-> Evaluating(frames)[i]]
  BY DEF EventsIn, Evaluating
<1>3. [EventsIn(frames) EXCEPT ![n] = <<>>] = EventsIn(frames)
  BY <1>1, <1>2
<1>4. [Evaluating(frames) EXCEPT ![n] = 0] = Evaluating(frames)
  BY <1>1, <1>2
<1> QED BY <1>1, <1>3, <1>4 DEF Alike, n

LEMMA FreshFrame ==
  ASSUME NEW op \in FrameOps, NEW e \in Nat, NEW name \in Names, NEW f, f = Frame(op, e, name)
  PROVE  /\ f \in Frames /\ f.op = op /\ f.entity = e /\ f.name = name /\ f.events = <<>>
         /\ f.due = {} /\ f.seen = {}
<1>1. <<>> \in Seq(Event) /\ {} \in SUBSET Entities /\ "" \in DOMAIN Methods \cup {""}
      /\ TRUE \in BOOLEAN /\ FALSE \in BOOLEAN
  OBVIOUS
<1> QED BY <1>1 DEF Frame, Frames

\* A script that is called, and a callback there is none of.
LEMMA CalledStack ==
  ASSUME NEW frames, StackSound(frames), NEW f \in Frames, FrameSound(f),
         NEW e \in Nat, NEW callback \in Names, NEW type, Calls(frames, f, e, callback, type)
  PROVE  StackSound(stack') /\ Alike(stack', Append(frames, f)) /\ answer' \in Answers
<1> DEFINE pushed == Append(frames, f)
           script == Frame("script", e, callback)
<1>1. StackSound(pushed)
  BY PushedFrame
<1>2. script \in Frames /\ FrameSound(script) /\ script.op = "script"
  <2>1. "script" \in FrameOps
    BY DEF FrameOps
  <2>2. script = Frame("script", e, callback)
    OBVIOUS
  <2> HIDE DEF script
  <2>3. script \in Frames /\ script.op = "script" /\ script.events = <<>>
    BY <2>1, <2>2, FreshFrame
  <2> QED BY <2>3 DEF FrameSound
<1>3. StackSound(Append(pushed, script)) /\ Alike(Append(pushed, script), pushed)
  <2> HIDE DEF pushed, script
  <2> QED BY <1>1, <1>2, PushedQuietly
<1>4. frames \o <<f, script>> = Append(pushed, script)
  BY <1>2 DEF StackSound
<1>5. stack' = frames \o <<f, script>> \/ stack' = pushed
  BY DEF Calls
<1>6. answer' \in Answers
  BY DEF Calls, Answers
<1> QED BY <1>1, <1>3, <1>4, <1>5, <1>6 DEF Alike

LEMMA ReturnedStack ==
  ASSUME NEW frames, StackSound(frames), NEW result \in Answers, ReturnsTo(frames, result)
  PROVE  stack' = frames /\ answer' \in Answers
BY DEF ReturnsTo, Answers

LEMMA LoopFrame ==
  ASSUME DOMAIN instances \subseteq Entities, NEW callback \in Names
  PROVE  Loop(callback) \in Frames /\ FrameSound(Loop(callback)) /\ Loop(callback).op = "loop"
<1>1. EligibleOf(callback, instances) \subseteq Entities
  BY DEF EligibleOf
<1> DEFINE f == Frame("loop", 0, callback)
<1>2. f \in Frames /\ f.op = "loop" /\ f.entity = 0 /\ f.events = <<>>
  <2>1. "loop" \in FrameOps /\ 0 \in Nat
    BY DEF FrameOps
  <2> QED BY <2>1, FreshFrame
<1>3. Loop(callback) = [f EXCEPT !.due = EligibleOf(callback, instances)]
  BY DEF Loop
<1> HIDE DEF f
<1>4. Loop(callback) \in Frames /\ Loop(callback).op = "loop" /\ Loop(callback).entity = 0
      /\ Loop(callback).due \subseteq Entities /\ Loop(callback).events = <<>>
  BY <1>1, <1>2, <1>3 DEF Frames
<1>5. \A e \in Entities : ~(e < 0)
  BY EndIs
<1>6. 0 \notin Entities
  BY EndIs
<1> QED BY <1>4, <1>5, <1>6 DEF FrameSound

LEMMA DispatchedStack ==
  ASSUME NEW frames, StackSound(frames), DOMAIN instances \subseteq Entities,
         NEW target \in Targets, NEW callback \in Callbacks, Dispatch(frames, target, callback)
  PROVE  StackSound(stack') /\ Alike(stack', frames) /\ answer' \in Answers
<1>1. callback \in Names
  BY DEF Names
<1>2. CASE target = BroadcastTarget
  BY <1>1, <1>2, LoopFrame, PushedQuietly DEF Dispatch, Answers
<1>3. CASE /\ target # BroadcastTarget /\ target \in DOMAIN instances
           /\ callback \in Methods[instances[target].type]
  <2> DEFINE f == Frame("invoke", target, callback)
  <2>1. target \in Nat
    BY <1>3, EndIs
  <2>2. f \in Frames /\ FrameSound(f) /\ f.op = "invoke"
    <3>1. "invoke" \in FrameOps
      BY DEF FrameOps
    <3>2. f \in Frames /\ f.op = "invoke" /\ f.events = <<>>
      BY <1>1, <2>1, <3>1, FreshFrame
    <3> QED BY <3>2 DEF FrameSound
  <2>3. Calls(frames, f, target, callback, instances[target].type)
    BY <1>3 DEF Dispatch
  <2> HIDE DEF f
  <2>4. StackSound(stack') /\ Alike(stack', Append(frames, f)) /\ answer' \in Answers
    BY <1>1, <2>1, <2>2, <2>3, CalledStack
  <2>5. Alike(Append(frames, f), frames)
    BY <2>2, PushedQuietly
  <2> QED BY <2>4, <2>5 DEF Alike
<1>4. CASE /\ target # BroadcastTarget
           /\ ~(target \in DOMAIN instances /\ callback \in Methods[instances[target].type])
  BY <1>4 DEF Dispatch, ReturnsTo, Alike, Answers
<1> QED BY <1>2, <1>3, <1>4

-----------------------------------------------------------------------------
(* Steps that neither queue nor dispatch an event and fire no trigger. *)

Quiet == Alike(stack', stack) /\ UNCHANGED <<queue, triggers, issued, handled>>

LEMMA QuietKeeps ==
  ASSUME SceneInv, Quiet, StackSound(stack'), answer' \in Answers,
         DOMAIN instances' \subseteq Entities, \A e \in DOMAIN instances' : instances'[e] \in Instance
  PROVE  SceneInv'
BY DEF SceneInv, Quiet, Alike, SceneTyped, Answers, StackSound, EventsIn, Evaluating

LEMMA TopFrame ==
  ASSUME SceneInv, stack # <<>>
  PROVE  /\ Top \in Frames /\ FrameSound(Top) /\ StackSound(Below)
         /\ Top.op \notin {"flush", "triggers"} => Alike(Below, stack)
<1>1. Top \in Frames /\ FrameSound(Top) /\ StackSound(Below)
  BY PoppedFrame DEF SceneInv, Top, Below
<1>2. ASSUME Top.op \notin {"flush", "triggers"} PROVE Alike(Below, stack)
  <2>1. Top.events = <<>>
    BY <1>1, <1>2 DEF FrameSound
  <2> QED BY <1>2, <2>1, PoppedQuietly DEF SceneInv, Top, Below
<1> QED BY <1>1, <1>2

LEMMA CalledQuietly ==
  ASSUME NEW frames, StackSound(frames), NEW f \in Frames, FrameSound(f),
         f.op \notin {"flush", "triggers"},
         NEW e \in Nat, NEW callback \in Names, NEW type, Calls(frames, f, e, callback, type)
  PROVE  StackSound(stack') /\ Alike(stack', frames) /\ answer' \in Answers
<1>1. StackSound(stack') /\ Alike(stack', Append(frames, f)) /\ answer' \in Answers
  BY CalledStack
<1>2. Alike(Append(frames, f), frames)
  BY PushedQuietly
<1> QED BY <1>1, <1>2 DEF Alike

\* A frame under another name.
LEMMA RenamedFrame ==
  ASSUME NEW f \in Frames, FrameSound(f), NEW name \in Names
  PROVE  LET g == [f EXCEPT !.name = name] IN
         g \in Frames /\ FrameSound(g) /\ g.op = f.op /\ g.entity = f.entity
<1> DEFINE g == [f EXCEPT !.name = name]
<1>1. /\ g \in Frames /\ g.op = f.op /\ g.entity = f.entity /\ g.type = f.type
      /\ g.events = f.events /\ g.due = f.due /\ g.seen = f.seen
  BY DEF Frames
<1> HIDE DEF g
<1>2. FrameSound(g)
  BY <1>1 DEF FrameSound
<1> QED BY <1>1, <1>2 DEF g

LEMMA NamesOf == /\ {"new", "OnCreate", "OnEnable", "OnDisable", "OnDestroy", ""} \subseteq Names
                 /\ Callbacks \subseteq Names /\ Lifecycle \subseteq Names
                 /\ \A f, type : OnCreate(f, type) \in Names
BY DEF Names, OnCreate

LEMMA ScriptKeeps == ASSUME SceneInv, Script PROVE SceneInv'
<1>1. StackSound(stack') /\ Alike(stack', stack)
  BY TopFrame DEF Script
<1> QED BY <1>1, QuietKeeps DEF Script, Quiet, Answers, SceneInv, SceneTyped

LEMMA AttachKeeps == ASSUME SceneInv, Attach PROVE SceneInv'
<1>1. PICK e \in Entities \ DOMAIN instances, type \in DOMAIN Methods, enabled, owner \in BOOLEAN :
        Calls(stack, [Frame("attach", e, "new") EXCEPT
                        !.type = type, !.enabled = enabled, !.owner = owner], e, "new", type)
  BY DEF Attach
<1> DEFINE fresh == Frame("attach", e, "new")
           f == [fresh EXCEPT !.type = type, !.enabled = enabled, !.owner = owner]
<1>2. e \in Nat /\ "new" \in Names /\ "attach" \in FrameOps
  BY EndIs, NamesOf DEF FrameOps
<1>3. fresh \in Frames /\ fresh.op = "attach" /\ fresh.entity = e /\ fresh.events = <<>>
  BY <1>2, FreshFrame
<1> HIDE DEF fresh
<1>4. f \in Frames /\ f.op = "attach" /\ f.entity = e /\ f.events = <<>> /\ f.type = type
  BY <1>3 DEF Frames
<1> HIDE DEF f
<1>5. FrameSound(f)
  BY <1>4 DEF FrameSound
<1>6. StackSound(stack') /\ Alike(stack', stack) /\ answer' \in Answers
  BY <1>1, <1>2, <1>4, <1>5, CalledQuietly DEF f, fresh, SceneInv
<1> QED BY <1>6, QuietKeeps DEF Attach, Quiet, SceneInv, SceneTyped

LEMMA AttachCreatesKeeps == ASSUME SceneInv, AttachCreates PROVE SceneInv'
<1> DEFINE e == Top.entity
<1>1. /\ Top \in Frames /\ FrameSound(Top) /\ StackSound(Below) /\ Alike(Below, stack)
      /\ Top.op = "attach"
  BY TopFrame DEF AttachCreates, Resumes
<1>2. Top.entity \in Entities /\ Top.entity \in Nat /\ Top.type \in DOMAIN Methods
      /\ Top.enabled \in BOOLEAN
  BY <1>1, EndIs DEF FrameSound, Frames
<1>3. CASE answer = "failed"
  <2>1. stack' = Below /\ answer' \in Answers /\ UNCHANGED instances
    BY <1>1, <1>3, ReturnedStack DEF AttachCreates, Answers
  <2> QED BY <1>1, <2>1, QuietKeeps DEF AttachCreates, Quiet, SceneInv, SceneTyped
<1>4. CASE answer # "failed"
  <2> DEFINE f == [Top EXCEPT !.name = "OnCreate"]
             type == instances'[Top.entity].type
             frames == Refreshed(Below, instances')
  <2>1. instances' = Stored(Top) /\ Calls(frames, f, Top.entity, OnCreate(Top, type), type)
    BY <1>4 DEF AttachCreates
  <2>2. f \in Frames /\ FrameSound(f) /\ f.op = "attach"
    BY <1>1, NamesOf, RenamedFrame
  <2>3. StackSound(frames) /\ Alike(frames, stack)
    BY <1>1, RefreshedStack DEF Alike
  <2>4. OnCreate(Top, type) \in Names
    BY NamesOf
  <2> HIDE DEF f, frames, type
  <2>5. StackSound(stack') /\ Alike(stack', frames) /\ answer' \in Answers
    BY <1>2, <2>1, <2>2, <2>3, <2>4, CalledQuietly
  <2>6. /\ DOMAIN instances' \subseteq Entities
        /\ \A x \in DOMAIN instances' : instances'[x] \in Instance
    <3>1. CASE Top.entity \in DOMAIN instances
      BY <2>1, <3>1 DEF Stored, SceneInv, SceneTyped
    <3>2. CASE Top.entity \notin DOMAIN instances
      <4> DEFINE new == [type |-> Top.type, enabled |-> Top.enabled, started |-> FALSE]
      <4>1. new \in Instance
        BY <1>2 DEF Instance
      <4>2. instances' = [x \in DOMAIN instances \cup {Top.entity} |->
                            IF x = Top.entity THEN new ELSE instances[x]]
        BY <2>1, <3>2 DEF Stored, With
      <4> HIDE DEF new
      <4> QED BY <1>2, <4>1, <4>2 DEF SceneInv, SceneTyped
    <3> QED BY <3>1, <3>2
  <2> QED BY <2>3, <2>5, <2>6, QuietKeeps DEF AttachCreates, Quiet, Alike
<1> QED BY <1>3, <1>4

LEMMA AttachGoesOnKeeps == ASSUME SceneInv, AttachGoesOn PROVE SceneInv'
<1>1. /\ Top \in Frames /\ FrameSound(Top) /\ StackSound(Below) /\ Alike(Below, stack)
      /\ Top.op = "attach"
  BY TopFrame DEF AttachGoesOn, Resumes
<1>2. Top.entity \in Entities /\ Top.entity \in Nat
  BY <1>1, EndIs DEF FrameSound
<1>3. CASE answer = "failed"
  <2>1. instances' = Without(instances, Top.entity)
        /\ ReturnsTo(Refreshed(Below, instances'), "failed")
    BY <1>3 DEF AttachGoesOn
  <2>2. StackSound(Refreshed(Below, instances')) /\ Alike(Refreshed(Below, instances'), stack)
    BY <1>1, RefreshedStack DEF Alike
  <2>3. StackSound(stack') /\ Alike(stack', stack) /\ answer' \in Answers
    BY <2>1, <2>2, ReturnedStack DEF Answers
  <2>4. /\ DOMAIN instances' \subseteq Entities
        /\ \A x \in DOMAIN instances' : instances'[x] \in Instance
    BY <2>1 DEF Without, SceneInv, SceneTyped
  <2> QED BY <2>3, <2>4, QuietKeeps DEF AttachGoesOn, Quiet
<1>4. CASE /\ answer # "failed" /\ Top.name = "OnCreate" /\ instances[Top.entity].enabled
  <2> DEFINE f == [Top EXCEPT !.name = "OnEnable"]
  <2>1. Calls(Below, f, Top.entity, "OnEnable", instances[Top.entity].type) /\ UNCHANGED instances
    BY <1>4 DEF AttachGoesOn
  <2>2. f \in Frames /\ FrameSound(f) /\ f.op = "attach" /\ "OnEnable" \in Names
    BY <1>1, NamesOf, RenamedFrame
  <2> HIDE DEF f
  <2>3. StackSound(stack') /\ Alike(stack', Below) /\ answer' \in Answers
    BY <1>1, <1>2, <2>1, <2>2, CalledQuietly
  <2> QED BY <1>1, <2>1, <2>3, QuietKeeps DEF AttachGoesOn, Quiet, Alike, SceneInv, SceneTyped
<1>5. CASE /\ answer # "failed" /\ ~(Top.name = "OnCreate" /\ instances[Top.entity].enabled)
  <2>1. ReturnsTo(Below, "ok") /\ UNCHANGED instances
    BY <1>5 DEF AttachGoesOn
  <2>2. stack' = Below /\ answer' \in Answers
    BY <1>1, <2>1, ReturnedStack DEF Answers
  <2> QED BY <1>1, <2>1, <2>2, QuietKeeps DEF AttachGoesOn, Quiet, SceneInv, SceneTyped
<1> QED BY <1>3, <1>4, <1>5

LEMMA DetachKeeps == ASSUME SceneInv, Detach PROVE SceneInv'
<1>1. PICK e \in DOMAIN instances :
        LET name == IF instances[e].enabled THEN "OnDisable" ELSE "OnDestroy" IN
        Calls(stack, Frame("detach", e, name), e, name, instances[e].type)
  BY DEF Detach
<1>2. PICK name \in {"OnDisable", "OnDestroy"} :
        Calls(stack, Frame("detach", e, name), e, name, instances[e].type)
  BY <1>1
<1> DEFINE f == Frame("detach", e, name)
<1>3. e \in Nat /\ name \in Names /\ "detach" \in FrameOps
  BY EndIs, NamesOf DEF FrameOps, SceneInv, SceneTyped
<1>4. f \in Frames /\ f.op = "detach" /\ f.events = <<>>
  BY <1>3, FreshFrame
<1> HIDE DEF f
<1>5. FrameSound(f)
  BY <1>4 DEF FrameSound
<1>6. StackSound(stack') /\ Alike(stack', stack) /\ answer' \in Answers
  BY <1>2, <1>3, <1>4, <1>5, CalledQuietly DEF f, SceneInv
<1> QED BY <1>6, QuietKeeps DEF Detach, Quiet, SceneInv, SceneTyped

LEMMA DetachGoesOnKeeps == ASSUME SceneInv, DetachGoesOn PROVE SceneInv'
<1>1. /\ Top \in Frames /\ FrameSound(Top) /\ StackSound(Below) /\ Alike(Below, stack)
      /\ Top.op = "detach" /\ Top.entity \in Nat
  BY TopFrame DEF DetachGoesOn, Resumes, Frames
<1>2. CASE Top.name = "OnDisable"
  <2> DEFINE f == [Top EXCEPT !.name = "OnDestroy"]
  <2>1. Calls(Below, f, Top.entity, "OnDestroy", instances[Top.entity].type) /\ UNCHANGED instances
    BY <1>2 DEF DetachGoesOn
  <2>2. f \in Frames /\ FrameSound(f) /\ f.op = "detach" /\ "OnDestroy" \in Names
    BY <1>1, NamesOf, RenamedFrame
  <2> HIDE DEF f
  <2>3. StackSound(stack') /\ Alike(stack', Below) /\ answer' \in Answers
    BY <1>1, <2>1, <2>2, CalledQuietly
  <2> QED BY <1>1, <2>1, <2>3, QuietKeeps DEF DetachGoesOn, Quiet, Alike, SceneInv, SceneTyped
<1>3. CASE Top.name # "OnDisable"
  <2>1. instances' = Without(instances, Top.entity)
        /\ ReturnsTo(Refreshed(Below, instances'), "ok")
    BY <1>3 DEF DetachGoesOn
  <2>2. StackSound(Refreshed(Below, instances')) /\ Alike(Refreshed(Below, instances'), stack)
    BY <1>1, RefreshedStack DEF Alike
  <2>3. StackSound(stack') /\ Alike(stack', stack) /\ answer' \in Answers
    BY <2>1, <2>2, ReturnedStack DEF Answers
  <2>4. /\ DOMAIN instances' \subseteq Entities
        /\ \A x \in DOMAIN instances' : instances'[x] \in Instance
    BY <2>1 DEF Without, SceneInv, SceneTyped
  <2> QED BY <2>3, <2>4, QuietKeeps DEF DetachGoesOn, Quiet
<1> QED BY <1>2, <1>3

LEMMA SetEnabledKeeps == ASSUME SceneInv, SetEnabled PROVE SceneInv'
<1>1. PICK e \in DOMAIN instances :
        LET value == ~instances[e].enabled
            name  == IF value THEN "OnEnable" ELSE "OnDisable"
        IN
        Calls(stack, [Frame("enable", e, name) EXCEPT !.enabled = value],
              e, name, instances[e].type)
  BY DEF SetEnabled
<1>2. PICK name \in {"OnEnable", "OnDisable"}, value \in BOOLEAN :
        Calls(stack, [Frame("enable", e, name) EXCEPT !.enabled = value], e, name, instances[e].type)
  <2>1. (~instances[e].enabled) \in BOOLEAN
    OBVIOUS
  <2> QED BY <1>1, <2>1
<1> DEFINE fresh == Frame("enable", e, name)
           f == [fresh EXCEPT !.enabled = value]
<1>3. e \in Nat /\ name \in Names /\ "enable" \in FrameOps
  BY EndIs, NamesOf DEF FrameOps, SceneInv, SceneTyped
<1>4. fresh \in Frames /\ fresh.op = "enable" /\ fresh.events = <<>>
  BY <1>3, FreshFrame
<1> HIDE DEF fresh
<1>5. f \in Frames /\ f.op = "enable" /\ f.events = <<>>
  BY <1>4 DEF Frames
<1> HIDE DEF f
<1>6. FrameSound(f)
  BY <1>5 DEF FrameSound
<1>7. StackSound(stack') /\ Alike(stack', stack) /\ answer' \in Answers
  BY <1>2, <1>3, <1>5, <1>6, CalledQuietly DEF f, fresh, SceneInv
<1> QED BY <1>7, QuietKeeps DEF SetEnabled, Quiet, SceneInv, SceneTyped

LEMMA SetEnabledGoesOnKeeps == ASSUME SceneInv, SetEnabledGoesOn PROVE SceneInv'
<1>1. /\ Top \in Frames /\ FrameSound(Top) /\ StackSound(Below) /\ Alike(Below, stack)
      /\ answer \in Answers
  BY TopFrame DEF SetEnabledGoesOn, Resumes, SceneInv, SceneTyped, Answers
<1>2. ReturnsTo(Refreshed(Below, instances'), answer)
  BY DEF SetEnabledGoesOn
<1>3. StackSound(Refreshed(Below, instances')) /\ Alike(Refreshed(Below, instances'), stack)
  BY <1>1, RefreshedStack DEF Alike
<1>4. StackSound(stack') /\ Alike(stack', stack) /\ answer' \in Answers
  BY <1>1, <1>2, <1>3, ReturnedStack
<1>5. /\ DOMAIN instances' \subseteq Entities
      /\ \A x \in DOMAIN instances' : instances'[x] \in Instance
  <2>1. Top.enabled \in BOOLEAN
    BY <1>1 DEF Frames
  <2>2. \A x \in DOMAIN instances : [instances[x] EXCEPT !.enabled = Top.enabled] \in Instance
    BY <2>1 DEF SceneInv, SceneTyped, Instance
  <2>3. instances' = instances
        \/ instances' = [instances EXCEPT ![Top.entity].enabled = Top.enabled]
    BY DEF SetEnabledGoesOn
  <2> QED BY <2>2, <2>3 DEF SceneInv, SceneTyped
<1> QED BY <1>4, <1>5, QuietKeeps DEF SetEnabledGoesOn, Quiet

LEMMA StartLoopKeeps == ASSUME SceneInv, StartLoop PROVE SceneInv'
<1>1. PICK callback \in Lifecycle : stack' = Append(stack, Loop(callback))
  BY DEF StartLoop
<1>2. Loop(callback) \in Frames /\ FrameSound(Loop(callback)) /\ Loop(callback).op = "loop"
  BY NamesOf, LoopFrame DEF SceneInv, SceneTyped
<1>3. StackSound(stack') /\ Alike(stack', stack)
  BY <1>1, <1>2, PushedQuietly DEF SceneInv
<1> QED BY <1>3, QuietKeeps DEF StartLoop, Quiet, Answers, SceneInv, SceneTyped

\* A loop goes on from where it stands to the next entity that is eligible, so whoever is
\* still owed a call and lies before that entity has had it.
LEMMA LoopGoesOnKeeps == ASSUME SceneInv, LoopGoesOn PROVE SceneInv'
<1> DEFINE loop  == [Top EXCEPT !.enabled = @ /\ answer = "ok"]
           next  == Following(loop, answer, instances')
           frames == Append(Below, loop)
           owing == Refreshed(frames, instances')
           below == SubSeq(owing, 1, Len(Below))
           mine  == owing[Len(owing)]
<1>1. /\ Top \in Frames /\ FrameSound(Top) /\ StackSound(Below) /\ Alike(Below, stack)
      /\ Top.op = "loop" /\ Top.entity # End
  BY TopFrame DEF LoopGoesOn, Resumes
<1>2. /\ DOMAIN instances' \subseteq Entities
      /\ \A x \in DOMAIN instances' : instances'[x] \in Instance
  <2>1. \A x \in DOMAIN instances : [instances[x] EXCEPT !.started = TRUE] \in Instance
    BY DEF SceneInv, SceneTyped, Instance
  <2>2. instances' = instances \/ instances' = [instances EXCEPT ![Top.entity].started = TRUE]
    BY DEF LoopGoesOn
  <2> QED BY <2>1, <2>2 DEF SceneInv, SceneTyped
<1>3. /\ loop \in Frames /\ loop.op = "loop" /\ loop.entity = Top.entity /\ loop.name = Top.name
      /\ loop.seen = Top.seen /\ loop.due = Top.due /\ loop.events = Top.events
  BY <1>1 DEF Frames
<1> HIDE DEF loop
<1>4. FrameSound(loop)
  BY <1>1, <1>3 DEF FrameSound
<1>5. /\ StackSound(frames) /\ Alike(frames, stack) /\ Len(frames) = Len(Below) + 1
      /\ Len(Below) \in Nat /\ frames[Len(frames)] = loop
  <2>1. StackSound(frames) /\ Alike(frames, Below)
    BY <1>1, <1>3, <1>4, PushedQuietly
  <2>2. Len(frames) = Len(Below) + 1 /\ Len(Below) \in Nat /\ frames[Len(Below) + 1] = loop
    BY <1>1, <1>3, AppendedEntry DEF StackSound
  <2> QED BY <1>1, <2>1, <2>2 DEF Alike
<1> HIDE DEF frames
<1>6. /\ StackSound(owing) /\ Alike(owing, frames) /\ Len(owing) = Len(frames)
      /\ mine = [loop EXCEPT !.due = @ \cap EligibleOf(loop.name, instances')]
  BY <1>5, RefreshedStack
<1>7. mine \in Frames /\ mine.op = "loop" /\ mine.entity = Top.entity /\ mine.name = Top.name
      /\ mine.seen = Top.seen /\ mine.events = <<>> /\ mine.due \subseteq Top.due
      /\ mine.due \subseteq EligibleOf(Top.name, instances')
  <2>1. loop.events = <<>>
    BY <1>3, <1>4 DEF FrameSound
  <2> HIDE DEF mine
  <2> QED BY <1>3, <1>6, <2>1 DEF Frames
<1> HIDE DEF owing, mine
<1>8. StackSound(below) /\ Alike(below, stack)
  <2>1. owing # <<>> /\ Len(Below) = Len(owing) - 1
    BY <1>5, <1>6
  <2>2. owing[Len(owing)].op = "loop" /\ owing[Len(owing)].events = <<>>
    BY <1>7 DEF mine
  <2>3. StackSound(below) /\ Alike(below, owing)
    BY <1>6, <2>1, <2>2, PoppedQuietly
  <2> QED BY <1>5, <1>6, <2>3 DEF Alike
<1> HIDE DEF below
<1>9. next = {e \in EligibleOf(Top.name, instances') : e > Top.entity} /\ next \subseteq Entities
      /\ EligibleOf(Top.name, instances') \subseteq Entities
  BY <1>2, <1>3 DEF Following, EligibleOf
<1>10. \A e \in mine.due : e < Top.entity \/ e = Top.entity => e \in Top.seen
  <2>1. Top.entity \in Entities => Top.entity \in Top.seen
    BY <1>1 DEF FrameSound
  <2> QED BY <1>1, <1>7, <1>9, <2>1 DEF FrameSound
<1>11. /\ Top.entity \in Nat
       /\ \A e \in Entities : e \in Nat /\ e < End /\ e # 0
       /\ End \in Nat /\ End \notin Entities
  <2>1. Top.entity \in Nat
    BY <1>1 DEF Frames
  <2>2. End \in Nat /\ ~(End < End)
    BY EndIs
  <2> QED BY <2>1, <2>2, EndIs
<1>12. CASE next = {}
  <2> DEFINE f == [mine EXCEPT !.entity = End]
  <2>1. stack' = Append(below, f) /\ answer' = "ok"
    BY <1>12 DEF LoopGoesOn, loop, frames, owing, below, mine
  <2>2. f \in Frames /\ f.op = "loop" /\ f.entity = End /\ f.seen = mine.seen
        /\ f.due = mine.due /\ f.events = <<>>
    <3>1. mine \in Frames /\ mine.op = "loop" /\ mine.events = <<>> /\ End \in Nat
      BY <1>7, <1>11
    <3> HIDE DEF mine
    <3> QED BY <3>1 DEF Frames
  <2> HIDE DEF f, next
  <2>3. \A e \in mine.due : e \in Top.seen
    BY <1>7, <1>9, <1>10, <1>11, <1>12
  <2>4. FrameSound(f)
    BY <1>7, <1>11, <2>2, <2>3 DEF FrameSound
  <2>5. StackSound(stack') /\ Alike(stack', below)
    BY <1>8, <2>1, <2>2, <2>4, PushedQuietly
  <2> QED BY <1>2, <1>8, <2>1, <2>5, QuietKeeps DEF LoopGoesOn, Quiet, Alike, Answers
<1>13. CASE next # {}
  <2> DEFINE e == Minimum(next)
             f == [mine EXCEPT !.entity = e, !.seen = @ \cup {e}]
  <2>1. Calls(below, f, e, mine.name, instances[e].type)
    BY <1>13 DEF LoopGoesOn, loop, frames, owing, below, mine
  <2> HIDE DEF next
  <2>2. e \in next /\ e \in Entities /\ \A x \in next : e <= x
    BY <1>9, <1>13, MinimumIs
  <2> HIDE DEF e
  <2>3. f \in Frames /\ f.op = "loop" /\ f.entity = e /\ f.seen = mine.seen \cup {e}
        /\ f.due = mine.due /\ f.events = <<>>
    BY <1>7, <1>11, <2>2 DEF Frames
  <2> HIDE DEF f
  <2>4. \A x \in mine.due : x < e => x \in Top.seen
    <3> SUFFICES ASSUME NEW x \in mine.due, x < e PROVE x \in Top.seen
      OBVIOUS
    <3>1. x \in Entities /\ x \in EligibleOf(Top.name, instances')
      BY <1>7, <1>9
    <3>2. x \notin next
      BY <1>11, <2>2, <3>1
    <3>3. ~(x > Top.entity)
      BY <1>9, <3>1, <3>2
    <3>4. x < Top.entity \/ x = Top.entity
      BY <1>11, <3>1, <3>3
    <3> QED BY <1>10, <3>4
  <2>5. FrameSound(f)
    BY <1>7, <2>2, <2>3, <2>4 DEF FrameSound
  <2>6. e \in Nat /\ mine.name \in Names
    BY <1>7, <1>11, <2>2 DEF Frames
  <2>7. StackSound(stack') /\ Alike(stack', below) /\ answer' \in Answers
    BY <1>8, <2>1, <2>3, <2>5, <2>6, CalledQuietly
  <2> QED BY <1>2, <1>8, <2>7, QuietKeeps DEF LoopGoesOn, Quiet, Alike
<1> QED BY <1>12, <1>13

LEMMA LoopEndsKeeps == ASSUME SceneInv, LoopEnds PROVE SceneInv'
<1>1. StackSound(Below) /\ Alike(Below, stack)
  BY TopFrame DEF LoopEnds, Resumes
<1>2. stack' = Below /\ answer' \in Answers
  BY <1>1, ReturnedStack DEF LoopEnds, Answers
<1> QED BY <1>1, <1>2, QuietKeeps DEF LoopEnds, Quiet, SceneInv, SceneTyped

LEMMA DispatchNowKeeps == ASSUME SceneInv, DispatchNow PROVE SceneInv'
<1>1. StackSound(stack') /\ Alike(stack', stack) /\ answer' \in Answers
  BY DispatchedStack DEF DispatchNow, Targets, SceneInv, SceneTyped
<1> QED BY <1>1, QuietKeeps DEF DispatchNow, Quiet, SceneInv, SceneTyped

LEMMA InvokeReturnsKeeps == ASSUME SceneInv, InvokeReturns PROVE SceneInv'
<1>1. StackSound(Below) /\ Alike(Below, stack) /\ answer \in Answers
  BY TopFrame DEF InvokeReturns, Resumes, SceneInv, SceneTyped, Answers
<1>2. stack' = Below /\ answer' \in Answers
  BY <1>1, ReturnedStack DEF InvokeReturns
<1> QED BY <1>1, <1>2, QuietKeeps DEF InvokeReturns, Quiet, SceneInv, SceneTyped

-----------------------------------------------------------------------------
(* Events. *)

LEMMA EnqueueKeeps == ASSUME SceneInv, Enqueue PROVE SceneInv'
<1> DEFINE lists == EventsIn(stack)
<1>1. PICK target \in Targets, callback \in Callbacks :
        queue' = Append(queue, [id |-> issued + 1, target |-> target, callback |-> callback])
  BY DEF Enqueue, Targets
<1> DEFINE event == [id |-> issued + 1, target |-> target, callback |-> callback]
<1>2. issued \in Nat /\ issued' = issued + 1 /\ queue \in Seq(Event) /\ handled \in Seq(Nat)
      /\ UNCHANGED <<instances, triggers, stack, answer, handled>>
  BY DEF Enqueue, SceneInv, SceneTyped
<1>3. event \in Event /\ event.id = issued + 1
  BY <1>2 DEF Event
<1> HIDE DEF event
<1>4. /\ queue' \in Seq(Event) /\ Len(queue') = Len(queue) + 1 /\ Len(queue) \in Nat
      /\ \A k \in 1 .. Len(queue) : queue'[k] = queue[k]
      /\ queue'[Len(queue) + 1] = event
  BY <1>1, <1>2, <1>3, AppendedEntry DEF event
<1>5. EventsSound(lists, queue, handled, issued)
  BY DEF SceneInv
<1> HIDE DEF lists
<1>6. EventsSound(lists, queue', handled, issued + 1)
  <2>1. \A k \in 1 .. Len(queue') : k \in 1 .. Len(queue) \/ k = Len(queue) + 1
    BY <1>4
  <2>2. Len(handled) \in Nat /\ \A n \in 1 .. Len(handled) : handled[n] \in 1 .. issued
    BY <1>2, <1>5 DEF EventsSound
  <2>3. \A i \in Nat : \A k \in 1 .. Len(lists[i]) :
            \A l \in 1 .. Len(queue') : lists[i][k].id < queue'[l].id
    <3> TAKE i \in Nat
    <3> TAKE k \in 1 .. Len(lists[i])
    <3> TAKE l \in 1 .. Len(queue')
    <3>1. CASE l \in 1 .. Len(queue)
      BY <1>4, <1>5, <3>1 DEF EventsSound
    <3>2. CASE l = Len(queue) + 1
      <4>1. lists[i][k].id \in 1 .. issued
        BY <1>5 DEF EventsSound
      <4> QED BY <1>2, <1>3, <1>4, <3>2, <4>1
    <3> QED BY <2>1, <3>1, <3>2
  <2>4. \A k \in 1 .. Len(queue') :
            /\ queue'[k].id \in 1 .. issued + 1
            /\ \A n \in 1 .. Len(handled) : handled[n] # queue'[k].id
            /\ \A l \in 1 .. Len(queue') : k < l => queue'[k].id < queue'[l].id
    <3> TAKE k \in 1 .. Len(queue')
    <3>1. CASE k \in 1 .. Len(queue)
      <4>1. /\ queue'[k] = queue[k] /\ queue[k].id \in 1 .. issued
            /\ \A n \in 1 .. Len(handled) : handled[n] # queue[k].id
            /\ \A l \in 1 .. Len(queue) : k < l => queue[k].id < queue[l].id
        BY <1>4, <1>5, <3>1 DEF EventsSound
      <4>2. \A l \in 1 .. Len(queue') : k < l => queue'[k].id < queue'[l].id
        <5> TAKE l \in 1 .. Len(queue')
        <5>1. CASE l \in 1 .. Len(queue)
          BY <1>4, <4>1, <5>1
        <5>2. CASE l = Len(queue) + 1
          BY <1>2, <1>3, <1>4, <4>1, <5>2
        <5> QED BY <2>1, <5>1, <5>2
      <4> QED BY <1>2, <4>1, <4>2
    <3>2. CASE k = Len(queue) + 1
      <4>1. queue'[k].id = issued + 1 /\ issued + 1 \in 1 .. issued + 1
        BY <1>2, <1>3, <1>4, <3>2
      <4>2. \A n \in 1 .. Len(handled) : handled[n] # issued + 1
        BY <1>2, <2>2
      <4>3. \A l \in 1 .. Len(queue') : ~(k < l)
        BY <1>4, <3>2
      <4> QED BY <4>1, <4>2, <4>3
    <3> QED BY <2>1, <3>1, <3>2
  <2>5. \A id \in 1 .. issued + 1 :
        \/ \E i \in Nat : \E k \in 1 .. Len(lists[i]) : lists[i][k].id = id
        \/ \E k \in 1 .. Len(queue') : queue'[k].id = id
        \/ \E n \in 1 .. Len(handled) : handled[n] = id
    <3> TAKE id \in 1 .. issued + 1
    <3>1. CASE id = issued + 1
      <4>1. Len(queue) + 1 \in 1 .. Len(queue')
        BY <1>4
      <4>2. queue'[Len(queue) + 1].id = id
        BY <1>3, <1>4, <3>1
      <4> QED BY <4>1, <4>2
    <3>2. CASE id # issued + 1
      <4>1. id \in 1 .. issued
        BY <1>2, <3>2
      <4>2. \A k \in 1 .. Len(queue) : k \in 1 .. Len(queue') /\ queue'[k] = queue[k]
        BY <1>4
      <4>3. \/ \E i \in Nat : \E k \in 1 .. Len(lists[i]) : lists[i][k].id = id
            \/ \E k \in 1 .. Len(queue) : queue[k].id = id
            \/ \E n \in 1 .. Len(handled) : handled[n] = id
        BY <1>5, <4>1 DEF EventsSound
      <4> QED BY <4>2, <4>3
    <3> QED BY <3>1, <3>2
  <2>6. \A i \in Nat : \A k \in 1 .. Len(lists[i]) : lists[i][k].id \in 1 .. issued + 1
    <3>1. \A i \in Nat : \A k \in 1 .. Len(lists[i]) : lists[i][k].id \in 1 .. issued
      BY <1>5 DEF EventsSound
    <3> QED BY <1>2, <3>1
  <2>7. \A m, n \in 1 .. Len(handled) :
            handled[m] \in 1 .. issued + 1 /\ (handled[m] = handled[n] => m = n)
    BY <1>2, <1>5 DEF EventsSound
  <2> QED BY <1>5, <2>3, <2>4, <2>5, <2>6, <2>7 DEF EventsSound
<1> QED BY <1>2, <1>4, <1>6 DEF SceneInv, SceneTyped, lists

\* The queue becomes the list of a flush behind all others.
LEMMA FlushKeeps == ASSUME SceneInv, Flush PROVE SceneInv'
<1> DEFINE lists == EventsIn(stack)
           n == Len(stack) + 1
           f == [Frame("flush", 0, "") EXCEPT !.events = queue]
           empty == Frame("flush", 0, "")
<1>1. stack' = Append(stack, f) /\ queue' = <<>> /\ answer' = "ok"
      /\ UNCHANGED <<instances, triggers, issued, handled>>
  BY DEF Flush
<1>2. queue \in Seq(Event) /\ StackSound(stack) /\ issued \in Nat
  BY DEF SceneInv, SceneTyped
<1>3. f \in Frames /\ f.op = "flush" /\ f.events = queue
  <2>1. "flush" \in FrameOps /\ "" \in Names /\ 0 \in Nat
    BY NamesOf DEF FrameOps
  <2>2. empty \in Frames /\ empty.op = "flush"
    <3>1. \A name \in Names :
            Frame("flush", 0, name) \in Frames /\ Frame("flush", 0, name).op = "flush"
      <4> TAKE name \in Names
      <4> DEFINE fl == "flush"
      <4>1. fl \in FrameOps /\ 0 \in Nat
        BY <2>1
      <4> HIDE DEF fl
      <4>2. Frame(fl, 0, name) \in Frames /\ Frame(fl, 0, name).op = fl
        BY <4>1, FreshFrame
      <4> QED BY <4>2 DEF fl
    <3>2. "" \in Names
      BY <2>1
    <3>3. PICK name \in Names : name = ""
      BY <3>2, Zenon
    <3>4. empty = Frame("flush", 0, name)
      BY <3>3, Zenon
    <3> HIDE DEF empty
    <3> QED BY <3>1, <3>4
  <2>3. f = [empty EXCEPT !.events = queue]
    OBVIOUS
  <2> HIDE DEF f, empty
  <2> QED BY <2>3, <1>2, <2>2 DEF Frames
<1> HIDE DEF f
<1>4. FrameSound(f)
  BY <1>3 DEF FrameSound
<1>5. /\ StackSound(stack')
      /\ EventsIn(stack') = [lists EXCEPT ![n] = queue]
      /\ Evaluating(stack') = [Evaluating(stack) EXCEPT ![n] = 0]
  BY <1>1, <1>2, <1>3, <1>4, PushedFrame
<1>6. n \in Nat /\ lists = [i \in Nat |-> lists[i]] /\ \A i \in Nat : i >= n => lists[i] = <<>>
  BY <1>2 DEF StackSound, EventsIn
<1>7. Evaluating(stack') = Evaluating(stack)
  <2>1. n \in Nat /\ n \notin 1 .. Len(stack)
    BY <1>2 DEF StackSound
  <2> HIDE DEF n
  <2> QED BY <1>5, <2>1 DEF Evaluating
<1>8. EventsSound(lists, queue, handled, issued)
  BY DEF SceneInv
<1> HIDE DEF lists, n
<1> DEFINE fresh == [lists EXCEPT ![n] = queue]
<1>9. fresh[n] = queue /\ \A i \in Nat : i # n => fresh[i] = lists[i]
  BY <1>6
<1>10. \A i \in Nat : Len(lists[i]) # 0 => i < n
  BY <1>6
<1> HIDE DEF fresh
<1>11. EventsSound(fresh, <<>>, handled, issued)
  <2>1. \A i \in Nat : \A k \in 1 .. Len(fresh[i]) :
          \/ i = n /\ k \in 1 .. Len(queue) /\ fresh[i][k] = queue[k]
          \/ i < n /\ k \in 1 .. Len(lists[i]) /\ fresh[i][k] = lists[i][k]
    <3> TAKE i \in Nat
    <3> TAKE k \in 1 .. Len(fresh[i])
    <3>1. CASE i = n
      BY <1>9, <3>1
    <3>2. CASE i # n
      <4>1. fresh[i] = lists[i] /\ (i > n => lists[i] = <<>>)
        BY <1>6, <1>9, <3>2
      <4>2. ~(i > n)
        BY <4>1
      <4>3. n \in Nat
        BY <1>6
      <4> QED BY <3>2, <4>1, <4>2, <4>3
    <3> QED BY <3>1, <3>2
  <2>2. \A i \in Nat : \A k \in 1 .. Len(fresh[i]) :
          /\ fresh[i][k].id \in 1 .. issued
          /\ \A m \in 1 .. Len(handled) : handled[m] # fresh[i][k].id
    <3> TAKE i \in Nat
    <3> TAKE k \in 1 .. Len(fresh[i])
    <3>1. CASE i = n
      BY <1>8, <2>1, <3>1 DEF EventsSound
    <3>2. CASE i # n
      BY <1>8, <2>1, <3>2 DEF EventsSound
    <3> QED BY <3>1, <3>2
  <2>3. \A i \in Nat : \A k, l \in 1 .. Len(fresh[i]) : k < l => fresh[i][k].id < fresh[i][l].id
    <3> TAKE i \in Nat
    <3>1. CASE i = n
      BY <1>8, <1>9, <3>1 DEF EventsSound
    <3>2. CASE i # n
      BY <1>8, <1>9, <3>2 DEF EventsSound
    <3> QED BY <3>1, <3>2
  <2>4. \A i, j \in Nat : \A k \in 1 .. Len(fresh[i]), l \in 1 .. Len(fresh[j]) :
          i < j => fresh[i][k].id < fresh[j][l].id
    <3> TAKE i, j \in Nat
    <3> TAKE k \in 1 .. Len(fresh[i]), l \in 1 .. Len(fresh[j])
    <3> HAVE i < j
    <3>1. i < n /\ k \in 1 .. Len(lists[i]) /\ fresh[i][k] = lists[i][k]
      BY <1>6, <2>1
    <3>2. CASE j = n
      BY <1>8, <1>9, <3>1, <3>2 DEF EventsSound
    <3>3. CASE j # n
      <4>1. j < n /\ l \in 1 .. Len(lists[j]) /\ fresh[j][l] = lists[j][l]
        BY <2>1, <3>3
      <4> QED BY <1>8, <3>1, <4>1 DEF EventsSound
    <3> QED BY <3>2, <3>3
  <2>5. \A id \in 1 .. issued :
        \/ \E i \in Nat : \E k \in 1 .. Len(fresh[i]) : fresh[i][k].id = id
        \/ \E m \in 1 .. Len(handled) : handled[m] = id
    <3> TAKE id \in 1 .. issued
    <3>1. CASE \E i \in Nat : \E k \in 1 .. Len(lists[i]) : lists[i][k].id = id
      <4>1. PICK i \in Nat : \E k \in 1 .. Len(lists[i]) : lists[i][k].id = id
        BY <3>1
      <4>2. lists[i] # <<>> /\ i # n
        BY <1>6, <4>1
      <4> QED BY <1>9, <4>1, <4>2
    <3>2. CASE \E k \in 1 .. Len(queue) : queue[k].id = id
      BY <1>6, <1>9, <3>2
    <3> QED BY <1>8, <3>1, <3>2 DEF EventsSound
  <2> QED BY <1>8, <2>2, <2>3, <2>4, <2>5 DEF EventsSound
<1> QED BY <1>1, <1>5, <1>7, <1>11 DEF SceneInv, SceneTyped, fresh

\* The first event of a list is dispatched.
LEMMA FirstDispatched ==
  ASSUME NEW lists, lists = [i \in Nat |-> lists[i]], NEW n \in Nat,
         lists[n] \in Seq(Event), lists[n] # <<>>,
         NEW waiting, NEW done \in Seq(Nat), NEW last \in Nat,
         EventsSound(lists, waiting, done, last)
  PROVE  EventsSound([lists EXCEPT ![n] = Tail(lists[n])], waiting,
                     Append(done, Head(lists[n]).id), last)
<1> DEFINE first == lists[n][1].id
           rest == Tail(lists[n])
           fresh == [lists EXCEPT ![n] = rest]
           longer == Append(done, first)
           At(i, k) == IF i = n THEN k + 1 ELSE k
<1>1. /\ Head(lists[n]) = lists[n][1]
      /\ Len(lists[n]) \in Nat \ {0}
      /\ Len(rest) = Len(lists[n]) - 1
      /\ \A k \in 1 .. Len(rest) : rest[k] = lists[n][k + 1]
  BY HeadTailProperties
<1>2. 1 \in 1 .. Len(lists[n])
  BY <1>1
<1>3. \A i \in Nat : \A k \in 1 .. Len(lists[i]) :
        /\ lists[i][k].id \in 1 .. last
        /\ \A m \in 1 .. Len(done) : done[m] # lists[i][k].id
        /\ \A l \in 1 .. Len(waiting) : lists[i][k].id < waiting[l].id
  BY DEF EventsSound
<1>4. \A i \in Nat : \A k, l \in 1 .. Len(lists[i]) : k < l => lists[i][k].id < lists[i][l].id
  BY DEF EventsSound
<1>5. \A i, j \in Nat : \A k \in 1 .. Len(lists[i]), l \in 1 .. Len(lists[j]) :
        i < j => lists[i][k].id < lists[j][l].id
  BY DEF EventsSound
<1>6. /\ first \in 1 .. last /\ first \in Nat
      /\ \A m \in 1 .. Len(done) : done[m] # first
      /\ \A l \in 1 .. Len(waiting) : first < waiting[l].id
  BY <1>2, <1>3
<1>7. /\ longer \in Seq(Nat) /\ Len(longer) = Len(done) + 1 /\ Len(done) \in Nat
      /\ \A m \in 1 .. Len(done) : longer[m] = done[m]
      /\ longer[Len(done) + 1] = first
  BY <1>6, AppendedEntry
<1>8. fresh[n] = rest /\ \A i \in Nat : i # n => fresh[i] = lists[i]
  OBVIOUS
<1> HIDE DEF fresh, rest, longer
<1>9. \A i \in Nat : \A k \in 1 .. Len(fresh[i]) :
        At(i, k) \in 1 .. Len(lists[i]) /\ fresh[i][k] = lists[i][At(i, k)]
  <2> TAKE i \in Nat
  <2> TAKE k \in 1 .. Len(fresh[i])
  <2>1. CASE i = n
    <3>1. fresh[i] = rest /\ k \in 1 .. Len(rest) /\ rest[k] = lists[n][k + 1]
      BY <1>1, <1>8, <2>1
    <3>2. k + 1 \in 1 .. Len(lists[n])
      BY <1>1, <3>1
    <3> QED BY <2>1, <3>1, <3>2
  <2>2. CASE i # n
    BY <1>8, <2>2
  <2> QED BY <2>1, <2>2
<1>10. \A i \in Nat : \A k \in 1 .. Len(fresh[i]) : fresh[i][k].id # first
  <2> TAKE i \in Nat
  <2> TAKE k \in 1 .. Len(fresh[i])
  <2> DEFINE at == At(i, k)
             id == lists[i][at].id
  <2>1. at \in 1 .. Len(lists[i]) /\ fresh[i][k].id = id
    BY <1>9
  <2>2. id \in Nat /\ (i = n => 1 < at)
    BY <1>3, <2>1
  <2> HIDE DEF at, id, At
  <2>3. i = n => first < id
    BY <1>2, <1>4, <2>1, <2>2 DEF id
  <2>4. i < n => id < first
    BY <1>2, <1>5, <2>1 DEF id
  <2>5. n < i => first < id
    BY <1>2, <1>5, <2>1 DEF id
  <2> HIDE DEF first
  <2> QED BY <1>6, <2>1, <2>2, <2>3, <2>4, <2>5
<1> HIDE DEF first
<1>11. \A i \in Nat : \A k, l \in 1 .. Len(fresh[i]) : k < l => fresh[i][k].id < fresh[i][l].id
  <2> TAKE i \in Nat
  <2> TAKE k, l \in 1 .. Len(fresh[i])
  <2> HAVE k < l
  <2>1. At(i, k) < At(i, l)
    OBVIOUS
  <2> HIDE DEF At
  <2> QED BY <1>4, <1>9, <2>1
<1> HIDE DEF At
<1>12. \A i, j \in Nat : \A k \in 1 .. Len(fresh[i]), l \in 1 .. Len(fresh[j]) :
        i < j => fresh[i][k].id < fresh[j][l].id
  BY <1>5, <1>9
<1>13. \A m \in 1 .. Len(longer) : m \in 1 .. Len(done) \/ m = Len(done) + 1
  BY <1>7
<1>14. \A m, l \in 1 .. Len(done) : done[m] \in 1 .. last /\ (done[m] = done[l] => m = l)
  BY DEF EventsSound
<1>15. \A m, l \in 1 .. Len(longer) : longer[m] \in 1 .. last /\ (longer[m] = longer[l] => m = l)
  <2> TAKE m, l \in 1 .. Len(longer)
  <2> QED BY <1>6, <1>7, <1>13, <1>14
<1>16. \A i \in Nat : \A k \in 1 .. Len(fresh[i]) :
        /\ fresh[i][k].id \in 1 .. last
        /\ \A m \in 1 .. Len(longer) : longer[m] # fresh[i][k].id
        /\ \A l \in 1 .. Len(waiting) : fresh[i][k].id < waiting[l].id
  <2> TAKE i \in Nat
  <2> TAKE k \in 1 .. Len(fresh[i])
  <2>1. /\ fresh[i][k].id \in 1 .. last
        /\ \A m \in 1 .. Len(done) : done[m] # fresh[i][k].id
        /\ \A l \in 1 .. Len(waiting) : fresh[i][k].id < waiting[l].id
    <3>1. At(i, k) \in 1 .. Len(lists[i]) /\ fresh[i][k] = lists[i][At(i, k)]
      BY <1>9
    <3> QED BY <1>3, <3>1
  <2>2. fresh[i][k].id # first
    BY <1>10
  <2> QED BY <1>7, <1>13, <2>1, <2>2
<1>17. \A k \in 1 .. Len(waiting) :
        /\ waiting[k].id \in 1 .. last
        /\ \A m \in 1 .. Len(done) : done[m] # waiting[k].id
        /\ \A l \in 1 .. Len(waiting) : k < l => waiting[k].id < waiting[l].id
  BY DEF EventsSound
<1>18. \A k \in 1 .. Len(waiting) : \A m \in 1 .. Len(longer) : longer[m] # waiting[k].id
  <2> TAKE k \in 1 .. Len(waiting)
  <2>1. first # waiting[k].id
    BY <1>6, <1>17
  <2> QED BY <1>7, <1>13, <1>17, <2>1
<1>19. \A id \in 1 .. last :
        \/ \E i \in Nat : \E k \in 1 .. Len(fresh[i]) : fresh[i][k].id = id
        \/ \E k \in 1 .. Len(waiting) : waiting[k].id = id
        \/ \E m \in 1 .. Len(longer) : longer[m] = id
  <2> TAKE id \in 1 .. last
  <2>1. CASE \E i \in Nat : \E k \in 1 .. Len(lists[i]) : lists[i][k].id = id
    <3>1. PICK i \in Nat : \E k \in 1 .. Len(lists[i]) : lists[i][k].id = id
      BY <2>1
    <3>2. PICK k \in 1 .. Len(lists[i]) : lists[i][k].id = id
      BY <3>1
    <3>3. CASE i # n
      <4>1. k \in 1 .. Len(fresh[i]) /\ fresh[i][k].id = id
        BY <1>8, <3>2, <3>3
      <4> QED BY <4>1
    <3>4. CASE i = n /\ k = 1
      <4>1. Len(done) + 1 \in 1 .. Len(longer) /\ longer[Len(done) + 1] = id
        BY <1>7, <3>2, <3>4 DEF first
      <4> QED BY <4>1
    <3>5. CASE i = n /\ k # 1
      <4>1. k - 1 \in 1 .. Len(rest) /\ rest[k - 1] = lists[n][k]
        BY <1>1, <3>5
      <4>2. k - 1 \in 1 .. Len(fresh[i]) /\ fresh[i][k - 1].id = id
        BY <1>8, <3>2, <3>5, <4>1
      <4> QED BY <4>2
    <3> QED BY <3>3, <3>4, <3>5
  <2>2. CASE \E m \in 1 .. Len(done) : done[m] = id
    <3>1. PICK m \in 1 .. Len(done) : done[m] = id
      BY <2>2
    <3>2. m \in 1 .. Len(longer) /\ longer[m] = id
      BY <1>7, <3>1
    <3> QED BY <3>2
  <2>3. \/ \E i \in Nat : \E k \in 1 .. Len(lists[i]) : lists[i][k].id = id
        \/ \E k \in 1 .. Len(waiting) : waiting[k].id = id
        \/ \E m \in 1 .. Len(done) : done[m] = id
    BY DEF EventsSound
  <2> QED BY <2>1, <2>2, <2>3
<1>20. EventsSound(fresh, waiting, longer, last)
  BY <1>11, <1>12, <1>15, <1>16, <1>17, <1>18, <1>19 DEF EventsSound
<1>21. Head(lists[n]).id = first
  BY <1>1 DEF first
<1> QED BY <1>20, <1>21 DEF fresh, longer, rest

LEMMA FlushGoesOnKeeps == ASSUME SceneInv, FlushGoesOn PROVE SceneInv'
<1> DEFINE rest == Top.events
           n == Len(stack)
           lists == EventsIn(stack)
<1>1. /\ Top \in Frames /\ FrameSound(Top) /\ StackSound(Below)
      /\ Top.op = "flush" /\ stack # <<>>
  BY TopFrame DEF FlushGoesOn, Resumes
<1>2. UNCHANGED <<instances, queue, triggers, issued>>
  BY DEF FlushGoesOn
<1>3. CASE rest = <<>>
  <2>1. Alike(Below, stack)
    BY <1>1, <1>3, PoppedQuietly DEF SceneInv, Top, Below
  <2>2. stack' = Below /\ answer' \in Answers /\ UNCHANGED handled
    BY <1>1, <1>3, ReturnedStack DEF FlushGoesOn, Answers
  <2> QED BY <1>1, <1>2, <2>1, <2>2, QuietKeeps DEF Quiet, SceneInv, SceneTyped
<1>4. CASE rest # <<>>
  <2> DEFINE f == [Top EXCEPT !.events = Tail(rest)]
             frames == Append(Below, f)
  <2>1. handled' = Append(handled, Head(rest).id)
        /\ Dispatch(frames, Head(rest).target, Head(rest).callback)
    BY <1>4 DEF FlushGoesOn
  <2>2. rest \in Seq(Event) /\ Tail(rest) \in Seq(Event) /\ Head(rest) \in Event
    BY <1>1, <1>4, HeadTailProperties DEF Frames
  <2> HIDE DEF rest
  <2>3. f \in Frames /\ f.op = "flush" /\ f.events = Tail(rest)
    BY <1>1, <2>2 DEF Frames
  <2> HIDE DEF f
  <2>4. FrameSound(f)
    BY <2>3 DEF FrameSound
  <2>5. /\ n \in Nat \ {0} /\ Len(Below) = n - 1
        /\ EventsIn(Below) = [lists EXCEPT ![n] = <<>>]
        /\ Evaluating(Below) = [Evaluating(stack) EXCEPT ![n] = 0]
        /\ lists[n] = rest /\ Evaluating(stack)[n] = 0
    BY <1>1, PoppedFrame DEF SceneInv, Top, Below, rest
  <2>6. /\ StackSound(frames)
        /\ EventsIn(frames) = [EventsIn(Below) EXCEPT ![n] = Tail(rest)]
        /\ Evaluating(frames) = [Evaluating(Below) EXCEPT ![n] = 0]
    <3>1. Len(Below) + 1 = n
      BY <2>5
    <3> QED BY <1>1, <2>3, <2>4, <3>1, PushedFrame
  <2> HIDE DEF frames, n
  <2>7. lists = [i \in Nat |-> lists[i]]
        /\ Evaluating(stack) = [i \in Nat |-> Evaluating(stack)[i]]
    BY DEF EventsIn, Evaluating
  <2> HIDE DEF lists
  <2>8. EventsIn(frames) = [lists EXCEPT ![n] = Tail(lists[n])]
        /\ Evaluating(frames) = Evaluating(stack)
    BY <2>5, <2>6, <2>7
  <2>9. Head(rest).target \in Targets /\ Head(rest).callback \in Callbacks /\ Head(rest).id \in Nat
    BY <2>2 DEF Event
  <2>10. StackSound(stack') /\ Alike(stack', frames) /\ answer' \in Answers
    BY <2>1, <2>6, <2>9, DispatchedStack DEF SceneInv, SceneTyped
  <2>11. EventsSound(lists, queue, handled, issued) /\ handled \in Seq(Nat) /\ issued \in Nat
    BY DEF SceneInv, SceneTyped, lists
  <2>12. EventsSound([lists EXCEPT ![n] = Tail(lists[n])], queue,
                     Append(handled, Head(lists[n]).id), issued)
    BY <1>4, <2>2, <2>5, <2>7, <2>11, FirstDispatched
  <2>13. EventsSound(EventsIn(stack'), queue', handled', issued')
    BY <1>2, <2>1, <2>5, <2>8, <2>10, <2>12 DEF Alike
  <2>14. TriggersSound(Evaluating(stack'), triggers')
    BY <1>2, <2>8, <2>10 DEF Alike, SceneInv
  <2>15. handled' \in Seq(Nat)
    BY <2>1, <2>9, <2>11
  <2> QED BY <1>2, <2>10, <2>13, <2>14, <2>15 DEF SceneInv, SceneTyped, Answers
<1> QED BY <1>3, <1>4

-----------------------------------------------------------------------------
(* Triggers. *)

LEMMA AddTriggerKeeps == ASSUME SceneInv, AddTrigger PROVE SceneInv'
<1>1. PICK id \in Triggers \ DOMAIN triggers, target \in Targets, callback \in Callbacks,
           once \in BOOLEAN :
        triggers' = With(triggers, id,
            [target |-> target, callback |-> callback, once |-> once, fired |-> FALSE,
             fires |-> 0, nested |-> FALSE])
  BY DEF AddTrigger, Targets
<1> DEFINE new == [target |-> target, callback |-> callback, once |-> once, fired |-> FALSE,
                   fires |-> 0, nested |-> FALSE]
           on == Evaluating(stack)
<1>2. new \in Trigger /\ new.fires = 0
  BY DEF Trigger
<1>3. /\ DOMAIN triggers' = DOMAIN triggers \cup {id}
      /\ triggers'[id] = new
      /\ \A x \in DOMAIN triggers : triggers'[x] = triggers[x]
  BY <1>1 DEF With
<1> HIDE DEF new, on
<1>4. TriggersSound(on, triggers)
  BY DEF SceneInv, on
<1>5. \A i \in Nat : on[i] # id
  <2>1. id # 0
    BY SceneAssumption
  <2> QED BY <1>4, <2>1 DEF TriggersSound
<1>6. TriggersSound(on, triggers')
  <2> SUFFICES ASSUME NEW x \in DOMAIN triggers', triggers'[x].once, ~triggers'[x].nested
               PROVE  /\ triggers'[x].fires <= 1
                      /\ triggers'[x].fires = 1 => triggers'[x].fired
                      /\ \A i \in Nat : on[i] = x =>
                            /\ triggers'[x].fires = 0
                            /\ \A j \in Nat : on[j] = x => i = j
    BY <1>3, <1>4 DEF TriggersSound
  <2>1. CASE x = id
    BY <1>2, <1>3, <1>5, <2>1
  <2>2. CASE x # id
    BY <1>3, <1>4, <2>2 DEF TriggersSound
  <2> QED BY <2>1, <2>2
<1>7. UNCHANGED <<instances, queue, stack, answer, issued, handled>>
  BY DEF AddTrigger
<1> QED BY <1>2, <1>3, <1>6, <1>7 DEF SceneInv, SceneTyped, on

LEMMA RemoveTriggerKeeps == ASSUME SceneInv, RemoveTrigger PROVE SceneInv'
<1> DEFINE on == Evaluating(stack)
<1>1. PICK id \in DOMAIN triggers : ~Evaluated(id) /\ triggers' = Without(triggers, id)
  BY DEF RemoveTrigger
<1>2. /\ DOMAIN triggers' = DOMAIN triggers \ {id}
      /\ \A x \in DOMAIN triggers' : triggers'[x] = triggers[x]
  BY <1>1 DEF Without
<1>3. \A i \in Nat : on[i] # id
  <2>1. id # 0
    BY SceneAssumption DEF SceneInv, SceneTyped
  <2>2. DOMAIN stack = 1 .. Len(stack)
    BY DEF SceneInv, StackSound
  <2> QED BY <1>1, <2>1, <2>2 DEF Evaluated, Evaluating
<1>4. UNCHANGED <<instances, queue, stack, answer, issued, handled>>
  BY DEF RemoveTrigger
<1>5. TriggersSound(on, triggers)
  BY DEF SceneInv
<1> HIDE DEF on
<1>6. TriggersSound(on, triggers')
  BY <1>2, <1>3, <1>5 DEF TriggersSound
<1> QED BY <1>2, <1>4, <1>6 DEF SceneInv, SceneTyped, on

LEMMA EvaluateTriggersKeeps == ASSUME SceneInv, EvaluateTriggers PROVE SceneInv'
<1> DEFINE f == Frame("triggers", 0, "")
           n == Len(stack) + 1
<1>1. stack' = Append(stack, f) /\ answer' = "ok"
      /\ UNCHANGED <<instances, queue, triggers, issued, handled>>
  BY DEF EvaluateTriggers
<1>2. f \in Frames /\ f.op = "triggers" /\ f.entity = 0 /\ f.events = <<>>
  <2>1. "triggers" \in FrameOps /\ 0 \in Nat
    BY DEF FrameOps
  <2>2. PICK name \in Names : name = ""
    BY NamesOf, Zenon
  <2>3. f = Frame("triggers", 0, name)
    BY <2>2, Zenon
  <2> HIDE DEF f
  <2> QED BY <2>1, <2>3, FreshFrame
<1> HIDE DEF f
<1>3. FrameSound(f)
  BY <1>2 DEF FrameSound
<1>4. StackSound(stack) /\ n \in Nat /\ n \notin 1 .. Len(stack)
  BY DEF SceneInv, StackSound
<1>5. /\ StackSound(stack')
      /\ EventsIn(stack') = [EventsIn(stack) EXCEPT ![n] = <<>>]
      /\ Evaluating(stack') = [Evaluating(stack) EXCEPT ![n] = 0]
  BY <1>1, <1>2, <1>3, <1>4, PushedFrame
<1> HIDE DEF n
<1>6. Alike(stack', stack)
  <2>1. EventsIn(stack') = EventsIn(stack)
    BY <1>4, <1>5 DEF EventsIn
  <2>2. Evaluating(stack') = Evaluating(stack)
    BY <1>4, <1>5 DEF Evaluating
  <2> QED BY <2>1, <2>2 DEF Alike
<1> QED BY <1>1, <1>5, <1>6, QuietKeeps DEF Quiet, Answers, SceneInv, SceneTyped

\* The evaluation that stands on a trigger ends, with or without its having fired.
LEMMA EvaluationEnds ==
  ASSUME NEW on, on = [i \in Nat |-> on[i]], TriggersSound(on, triggers), NEW n \in Nat,
         NEW result, NEW after, after = Fired(on[n], result),
         DOMAIN triggers \subseteq Triggers, \A id \in DOMAIN triggers : triggers[id] \in Trigger
  PROVE  /\ DOMAIN after = DOMAIN triggers
         /\ \A id \in DOMAIN after : after[id] \in Trigger
         /\ TriggersSound([on EXCEPT ![n] = 0], after)
<1> DEFINE id == on[n]
           free == [on EXCEPT ![n] = 0]
<1>1. free[n] = 0 /\ \A i \in Nat : i # n => free[i] = on[i]
  OBVIOUS
<1> HIDE DEF free
<1>2. CASE id # 0 /\ result = "ok"
  <2>1. id \in DOMAIN triggers /\ triggers[id] \in Trigger
    BY <1>2 DEF TriggersSound
  <2>2. after = [triggers EXCEPT ![id].fired = TRUE, ![id].fires = @ + 1]
    BY <1>2 DEF Fired
  <2>3. /\ DOMAIN after = DOMAIN triggers
        /\ after[id] = [triggers[id] EXCEPT !.fired = TRUE, !.fires = @ + 1]
        /\ \A x \in DOMAIN triggers : x # id => after[x] = triggers[x]
    BY <2>1, <2>2 DEF Trigger
  <2>4. /\ after[id] \in Trigger /\ after[id].once = triggers[id].once
        /\ after[id].nested = triggers[id].nested /\ after[id].fired
        /\ after[id].fires = triggers[id].fires + 1
    <3> DEFINE t == triggers[id]
               u == after[id]
    <3>1. t \in Trigger /\ u = [t EXCEPT !.fired = TRUE, !.fires = @ + 1]
      BY <2>1, <2>3
    <3> HIDE DEF t, u
    <3>2. t.fires + 1 \in Nat
      BY <3>1 DEF Trigger
    <3>3. u \in Trigger
      BY <3>1, <3>2 DEF Trigger
    <3>4. u.fired = TRUE /\ u.fires = t.fires + 1
      BY <3>1 DEF Trigger
    <3>5. u.once = t.once /\ u.nested = t.nested
      BY <3>1 DEF Trigger
    <3> QED BY <3>3, <3>4, <3>5 DEF t, u
  <2>5. ASSUME NEW x \in DOMAIN after, after[x].once, ~after[x].nested
        PROVE  /\ after[x].fires <= 1
               /\ after[x].fires = 1 => after[x].fired
               /\ \A i \in Nat : free[i] = x =>
                     /\ after[x].fires = 0
                     /\ \A j \in Nat : free[j] = x => i = j
    <3>1. CASE x = id
      <4>1. triggers[id].fires = 0 /\ \A j \in Nat : on[j] = id => n = j
        BY <2>1, <2>4, <2>5, <3>1 DEF TriggersSound
      <4>2. \A i \in Nat : free[i] # id
        BY <1>1, <1>2, <4>1
      <4> QED BY <2>4, <3>1, <4>1, <4>2
    <3>2. CASE x # id
      <4>1. x \in DOMAIN triggers /\ after[x] = triggers[x]
        BY <2>3, <2>5, <3>2
      <4>2. x # 0
        BY <4>1, SceneAssumption
      <4>3. \A i \in Nat : free[i] = x => on[i] = x
        BY <1>1, <4>2
      <4> QED BY <2>5, <4>1, <4>3 DEF TriggersSound
    <3> QED BY <3>1, <3>2
  <2>6. \A i \in Nat : free[i] # 0 => free[i] \in DOMAIN after
    BY <1>1, <2>3 DEF TriggersSound
  <2>7. TriggersSound(free, after)
    BY <2>5, <2>6 DEF TriggersSound
  <2> QED BY <1>2, <2>1, <2>3, <2>4, <2>7 DEF free
<1>3. CASE ~(id # 0 /\ result = "ok")
  <2>1. after = triggers
    BY <1>3 DEF Fired
  <2>2. \A i \in Nat : free[i] # 0 => free[i] = on[i]
    BY <1>1
  <2>3. TriggersSound(free, triggers)
    <3>1. \A i \in Nat : free[i] # 0 => free[i] \in DOMAIN triggers
      BY <2>2 DEF TriggersSound
    <3>2. \A x \in DOMAIN triggers : x # 0
      BY SceneAssumption
    <3>3. \A x \in DOMAIN triggers : \A i \in Nat : free[i] = x => on[i] = x
      BY <2>2, <3>2
    <3> QED BY <3>1, <3>3 DEF TriggersSound
  <2> QED BY <2>1, <2>3 DEF free
<1> QED BY <1>2, <1>3

LEMMA TriggersGoOnKeeps == ASSUME SceneInv, TriggersGoOn PROVE SceneInv'
<1> DEFINE on == Evaluating(stack)
           n == Len(stack)
           after == Fired(Top.entity, answer)
           free == [on EXCEPT ![n] = 0]
<1>1. /\ Top \in Frames /\ FrameSound(Top) /\ StackSound(Below)
      /\ Top.op = "triggers" /\ stack # <<>> /\ Top.events = <<>>
  BY TopFrame DEF TriggersGoOn, Resumes, FrameSound
<1>2. UNCHANGED <<instances, queue, issued, handled>>
  BY DEF TriggersGoOn
<1>3. /\ n \in Nat \ {0} /\ Len(Below) = n - 1
      /\ EventsIn(Below) = [EventsIn(stack) EXCEPT ![n] = <<>>]
      /\ Evaluating(Below) = free
      /\ EventsIn(stack)[n] = <<>> /\ on[n] = Top.entity
  BY <1>1, PoppedFrame DEF SceneInv, Top, Below
<1>4. on = [i \in Nat |-> on[i]] /\ EventsIn(stack) = [i \in Nat |-> EventsIn(stack)[i]]
  BY DEF Evaluating, EventsIn
<1>5. /\ TriggersSound(on, triggers) /\ DOMAIN triggers \subseteq Triggers
      /\ \A id \in DOMAIN triggers : triggers[id] \in Trigger
  BY DEF SceneInv, SceneTyped
<1> HIDE DEF on
<1>6. /\ DOMAIN after = DOMAIN triggers
      /\ \A id \in DOMAIN after : after[id] \in Trigger
      /\ TriggersSound(free, after)
  <2>1. after = Fired(on[n], answer) /\ n \in Nat
    BY <1>3
  <2> HIDE DEF after, n
  <2> QED BY <1>4, <1>5, <2>1, EvaluationEnds
<1>7. EventsIn(Below) = EventsIn(stack)
  <2> HIDE DEF n
  <2> QED BY <1>3, <1>4
<1>8. EventsSound(EventsIn(stack), queue, handled, issued)
  BY DEF SceneInv
<1>9. CASE triggers' = after /\ ReturnsTo(Below, "ok")
  <2>1. stack' = Below /\ answer' \in Answers
    BY <1>1, <1>9, ReturnedStack DEF Answers
  <2> HIDE DEF after, free
  <2> QED BY <1>1, <1>2, <1>3, <1>6, <1>7, <1>8, <1>9, <2>1 DEF SceneInv, SceneTyped, Answers
<1>10. ASSUME NEW id \in {i \in DOMAIN after : i > Top.entity /\ ~(after[i].once /\ after[i].fired)},
              triggers' = [after EXCEPT ![id].nested =
                    @ \/ \E i \in DOMAIN Below : Below[i].op = "triggers" /\ Below[i].entity = id],
              Dispatch(Append(Below, [Top EXCEPT !.entity = id]),
                       after[id].target, after[id].callback)
       PROVE  SceneInv'
  <2> DEFINE f == [Top EXCEPT !.entity = id]
             frames == Append(Below, f)
             inside == \E i \in DOMAIN Below : Below[i].op = "triggers" /\ Below[i].entity = id
  <2>1. /\ id \in DOMAIN after /\ after[id] \in Trigger /\ ~(after[id].once /\ after[id].fired)
        /\ id \in Nat /\ id # 0 /\ inside \in BOOLEAN
    BY <1>6, <1>10, SceneAssumption DEF SceneInv, SceneTyped
  <2>2. f \in Frames /\ f.op = "triggers" /\ f.entity = id /\ f.events = <<>>
    BY <1>1, <2>1 DEF Frames
  <2> HIDE DEF f
  <2>3. FrameSound(f)
    BY <2>2 DEF FrameSound
  <2>4. /\ StackSound(frames)
        /\ EventsIn(frames) = [EventsIn(Below) EXCEPT ![n] = <<>>]
        /\ Evaluating(frames) = [free EXCEPT ![n] = id]
    <3>1. Len(Below) + 1 = n
      BY <1>3
    <3> HIDE DEF free, n
    <3> QED BY <1>1, <1>3, <2>2, <2>3, <3>1, PushedFrame
  <2> HIDE DEF frames
  <2>5. EventsIn(frames) = EventsIn(stack)
    <3> HIDE DEF n
    <3> QED BY <1>3, <1>4, <1>7, <2>4
  <2>6. after[id].target \in Targets /\ after[id].callback \in Callbacks
    BY <2>1 DEF Trigger
  <2> HIDE DEF after
  <2>7. StackSound(stack') /\ Alike(stack', frames) /\ answer' \in Answers
    BY <1>10, <2>4, <2>6, DispatchedStack DEF f, frames, SceneInv, SceneTyped
  <2>8. inside <=> \E i \in Nat : free[i] = id
    <3>1. DOMAIN Below = 1 .. Len(Below) /\ Len(Below) \in Nat
      BY <1>1 DEF StackSound
    <3>2. \A i \in Nat : free[i] = IF i \in DOMAIN Below /\ Below[i].op = "triggers"
                                   THEN Below[i].entity ELSE 0
      BY <1>3, <3>1 DEF Evaluating
    <3> HIDE DEF free
    <3>3. ASSUME inside PROVE \E i \in Nat : free[i] = id
      <4>1. PICK i \in DOMAIN Below : Below[i].op = "triggers" /\ Below[i].entity = id
        BY <3>3
      <4> QED BY <3>1, <3>2, <4>1
    <3>4. ASSUME NEW i \in Nat, free[i] = id PROVE inside
      BY <2>1, <3>2, <3>4
    <3> QED BY <3>3, <3>4
  <2> HIDE DEF inside
  <2>9. /\ DOMAIN triggers' = DOMAIN after
        /\ triggers'[id] = [after[id] EXCEPT !.nested = @ \/ inside]
        /\ \A x \in DOMAIN after : x # id => triggers'[x] = after[x]
    BY <1>10, <2>1 DEF inside
  <2>10. /\ triggers'[id] \in Trigger /\ triggers'[id].once = after[id].once
         /\ triggers'[id].fired = after[id].fired /\ triggers'[id].fires = after[id].fires
         /\ triggers'[id].nested <=> after[id].nested \/ inside
    <3>1. (after[id].nested \/ inside) \in BOOLEAN
      OBVIOUS
    <3> QED BY <2>1, <2>9, <3>1 DEF Trigger
  <2> DEFINE now == [free EXCEPT ![n] = id]
  <2>11. now[n] = id /\ free[n] = 0 /\ \A i \in Nat : i # n => now[i] = free[i]
    BY <1>3, <1>4
  <2> HIDE DEF free, now
  <2>12. TriggersSound(now, triggers')
    <3>1. \A i \in Nat : now[i] # 0 => now[i] \in DOMAIN triggers'
      BY <1>6, <2>1, <2>9, <2>11 DEF TriggersSound
    <3>2. ASSUME NEW x \in DOMAIN triggers', triggers'[x].once, ~triggers'[x].nested
          PROVE  /\ triggers'[x].fires <= 1
                 /\ triggers'[x].fires = 1 => triggers'[x].fired
                 /\ \A i \in Nat : now[i] = x =>
                       /\ triggers'[x].fires = 0
                       /\ \A j \in Nat : now[j] = x => i = j
      <4>1. CASE x = id
        <5>1. after[id].once /\ ~after[id].nested /\ ~inside /\ ~after[id].fired
          BY <2>1, <2>10, <3>2, <4>1
        <5>2. after[id].fires = 0
          BY <1>6, <2>1, <5>1 DEF TriggersSound, Trigger
        <5>3. \A i \in Nat : now[i] = id => i = n
          BY <2>8, <2>11, <5>1
        <5> QED BY <2>10, <4>1, <5>2, <5>3
      <4>2. CASE x # id
        <5>1. x \in DOMAIN after /\ triggers'[x] = after[x]
              /\ \A i \in Nat : now[i] = x => free[i] = x
          BY <2>9, <2>11, <4>2
        <5> QED BY <1>6, <3>2, <5>1 DEF TriggersSound
      <4> QED BY <4>1, <4>2
    <3> QED BY <3>1, <3>2 DEF TriggersSound
  <2>13. \A x \in DOMAIN triggers' : triggers'[x] \in Trigger
    BY <1>6, <2>9, <2>10
  <2>14. Evaluating(stack') = now /\ EventsIn(stack') = EventsIn(stack)
    BY <2>4, <2>5, <2>7 DEF Alike, now
  <2> QED BY <1>2, <1>6, <1>8, <2>7, <2>9, <2>12, <2>13, <2>14 DEF SceneInv, SceneTyped, Answers
<1> QED BY <1>9, <1>10 DEF TriggersGoOn

-----------------------------------------------------------------------------
(* The theorem. *)

LEMMA SceneStarts == ASSUME SceneInit PROVE SceneInv
<1>1. stack = <<>> /\ queue = <<>> /\ handled = <<>> /\ issued = 0 /\ answer = "none"
      /\ DOMAIN instances = {} /\ DOMAIN triggers = {}
  BY DEF SceneInit
<1>2. SceneTyped
  BY <1>1 DEF SceneTyped
<1>3. EventsSound([i \in Nat |-> <<>>], <<>>, <<>>, 0)
  BY DEF EventsSound
<1>4. TriggersSound([i \in Nat |-> 0], triggers)
  BY <1>1 DEF TriggersSound
<1> QED BY <1>1, <1>2, <1>3, <1>4, EmptyStack DEF SceneInv

LEMMA SceneStep == ASSUME SceneInv, [SceneNext]_sceneVars PROVE SceneInv'
<1>1. CASE UNCHANGED sceneVars
  BY <1>1 DEF sceneVars, SceneInv, SceneTyped, StackSound, EventsIn, Evaluating
<1>2. CASE SceneNext
  BY <1>2, ScriptKeeps, AttachKeeps, AttachCreatesKeeps, AttachGoesOnKeeps, DetachKeeps,
     DetachGoesOnKeeps, SetEnabledKeeps, SetEnabledGoesOnKeeps, StartLoopKeeps, LoopGoesOnKeeps,
     LoopEndsKeeps, DispatchNowKeeps, InvokeReturnsKeeps, EnqueueKeeps, FlushKeeps,
     FlushGoesOnKeeps, AddTriggerKeeps, RemoveTriggerKeeps, EvaluateTriggersKeeps,
     TriggersGoOnKeeps DEF SceneNext
<1> QED BY <1>1, <1>2

LEMMA SoundDelivers == ASSUME SceneInv PROVE SceneDelivers
<1> DEFINE n == Len(stack)
           lists == EventsIn(stack)
<1>1. /\ stack \in Seq(Frames) /\ n \in Nat /\ DOMAIN stack = 1 .. n
      /\ queue \in Seq(Event) /\ DOMAIN queue = 1 .. Len(queue)
      /\ handled \in Seq(Nat) /\ DOMAIN handled = 1 .. Len(handled) /\ issued \in Nat
      /\ \A i \in 1 .. n : stack[i].events \in Seq(Event)
  <2>1. stack \in Seq(Frames) /\ queue \in Seq(Event) /\ handled \in Seq(Nat) /\ issued \in Nat
    BY DEF SceneInv, SceneTyped, StackSound
  <2>2. \A i \in 1 .. n : stack[i] \in Frames
    BY <2>1
  <2>3. \A f \in Frames : f.events \in Seq(Event)
    BY DEF Frames
  <2> QED BY <2>1, <2>2, <2>3
<1>2. EventsOnce
  <2> DEFINE inner == [i \in DOMAIN stack |-> stack[i].events]
  <2>1. inner \in Seq(Seq(Event)) /\ Len(inner) = n /\ \A i \in 1 .. n : inner[i] = stack[i].events
    BY <1>1
  <2> HIDE DEF inner
  <2>2. /\ Waiting \in Seq(Seq(Event)) /\ Len(Waiting) = n + 1
        /\ \A i \in 1 .. n : Waiting[i] = stack[i].events
        /\ Waiting[n + 1] = queue
    BY <1>1, <2>1, AppendedEntry DEF Waiting, inner
  <2>3. /\ DOMAIN Waiting = 1 .. n + 1
        /\ \A i \in 1 .. n + 1 : DOMAIN Waiting[i] = 1 .. Len(Waiting[i])
        /\ \A i \in 1 .. n + 1 : i \in 1 .. n \/ i = n + 1
        /\ \A i \in 1 .. n : i \in Nat /\ Waiting[i] = lists[i]
    BY <1>1, <2>2 DEF EventsIn
  <2>4. EventsSound(lists, queue, handled, issued)
    BY DEF SceneInv
  <2>5. \A i \in Nat : i \notin 1 .. n => lists[i] = <<>>
    BY DEF EventsIn
  <2> HIDE DEF lists, n
  <2>6. \A i \in DOMAIN Waiting : \A k \in DOMAIN Waiting[i] :
            /\ Waiting[i][k].id \in 1..issued
            /\ \A m \in DOMAIN handled : handled[m] # Waiting[i][k].id
    <3> TAKE i \in DOMAIN Waiting
    <3>1. CASE i \in 1 .. n
      <4>1. /\ i \in Nat /\ Waiting[i] = lists[i] /\ DOMAIN Waiting[i] = 1 .. Len(lists[i])
        BY <2>3, <3>1
      <4> QED BY <1>1, <2>4, <4>1 DEF EventsSound
    <3>2. CASE i = n + 1
      BY <1>1, <2>2, <2>3, <2>4, <3>2 DEF EventsSound
    <3> QED BY <2>3, <3>1, <3>2
  <2>7. \A i \in DOMAIN Waiting : \A k \in DOMAIN Waiting[i] :
            \A j \in i..Len(Waiting) : \A l \in DOMAIN Waiting[j] :
                i < j \/ k < l => Waiting[i][k].id < Waiting[j][l].id
    <3> TAKE i \in DOMAIN Waiting
    <3> TAKE k \in DOMAIN Waiting[i]
    <3> TAKE j \in i..Len(Waiting)
    <3> TAKE l \in DOMAIN Waiting[j]
    <3> HAVE i < j \/ k < l
    <3>1. i \in 1 .. n + 1 /\ j \in 1 .. n + 1 /\ (i = j \/ i < j)
      BY <1>1, <2>2, <2>3
    <3>2. CASE i \in 1 .. n /\ j \in 1 .. n
      <4>1. /\ i \in Nat /\ Waiting[i] = lists[i] /\ DOMAIN Waiting[i] = 1 .. Len(lists[i])
            /\ j \in Nat /\ Waiting[j] = lists[j] /\ DOMAIN Waiting[j] = 1 .. Len(lists[j])
        BY <2>3, <3>2
      <4>2. CASE i < j
        BY <2>4, <4>1, <4>2 DEF EventsSound
      <4>3. CASE i = j /\ k < l
        BY <2>4, <4>1, <4>3 DEF EventsSound
      <4> QED BY <3>1, <4>1, <4>2, <4>3
    <3>3. CASE i \in 1 .. n /\ j = n + 1
      <4>1. i \in Nat /\ k \in 1 .. Len(lists[i]) /\ l \in 1 .. Len(queue)
            /\ Waiting[i] = lists[i] /\ Waiting[j] = queue
        BY <2>2, <2>3, <3>3
      <4> QED BY <2>4, <4>1 DEF EventsSound
    <3>4. CASE i = n + 1
      <4>1. j = n + 1 /\ k < l
        BY <1>1, <3>1, <3>4
      <4>2. k \in 1 .. Len(queue) /\ l \in 1 .. Len(queue)
            /\ Waiting[i] = queue /\ Waiting[j] = queue
        BY <2>2, <2>3, <3>4, <4>1
      <4> QED BY <2>4, <4>1, <4>2 DEF EventsSound
    <3> QED BY <2>3, <3>1, <3>2, <3>3, <3>4
  <2>8. \A id \in 1..issued :
            \/ \E i \in DOMAIN Waiting : \E k \in DOMAIN Waiting[i] : Waiting[i][k].id = id
            \/ \E m \in DOMAIN handled : handled[m] = id
    <3> TAKE id \in 1..issued
    <3>1. CASE \E i \in Nat : \E k \in 1 .. Len(lists[i]) : lists[i][k].id = id
      <4>1. PICK i \in Nat : \E k \in 1 .. Len(lists[i]) : lists[i][k].id = id
        BY <3>1
      <4>2. i \in 1 .. n
        BY <2>5, <4>1
      <4>3. i \in DOMAIN Waiting /\ Waiting[i] = lists[i]
            /\ DOMAIN Waiting[i] = 1 .. Len(lists[i])
        BY <1>1, <2>3, <4>2
      <4> QED BY <4>1, <4>3
    <3>2. CASE \E k \in 1 .. Len(queue) : queue[k].id = id
      <4>1. n + 1 \in DOMAIN Waiting /\ DOMAIN Waiting[n + 1] = 1 .. Len(queue)
        BY <1>1, <2>2, <2>3
      <4> QED BY <2>2, <3>2, <4>1
    <3> QED BY <1>1, <2>4, <3>1, <3>2 DEF EventsSound
  <2>9. \A m, l \in DOMAIN handled :
            handled[m] \in 1..issued /\ (handled[m] = handled[l] => m = l)
    BY <1>1, <2>4 DEF EventsSound
  <2> QED BY <2>6, <2>7, <2>8, <2>9 DEF EventsOnce
<1>3. LoopsReachEveryone
  <2> SUFFICES ASSUME NEW i \in DOMAIN stack, stack[i].op = "loop", NEW e \in stack[i].due,
                      e < stack[i].entity
               PROVE  e \in stack[i].seen
    BY DEF LoopsReachEveryone
  <2>1. FrameSound(stack[i])
    BY <1>1 DEF SceneInv, StackSound
  <2> QED BY <2>1 DEF FrameSound
<1>4. OneShot
  BY DEF OneShot, SceneInv, TriggersSound
<1> QED BY <1>2, <1>3, <1>4 DEF SceneDelivers

\* However callbacks nest, fail and call back: every event that was queued is dispatched
\* once and in order, a loop reaches everyone it owes a call, and a trigger that fires
\* once does.
THEOREM ScenesDeliver == SceneSpec => []SceneDelivers
<1>1. SceneInit => SceneInv
  BY SceneStarts
<1>2. SceneInv /\ [SceneNext]_sceneVars => SceneInv'
  BY SceneStep
<1>3. SceneInv => SceneDelivers
  BY SoundDelivers
<1> QED BY <1>1, <1>2, <1>3, PTL DEF SceneSpec

=============================================================================
