------------------------- MODULE ManagedHeapProofs -------------------------
(* Theorems about ManagedHeap, for every value of its constants. *)
EXTENDS ManagedHeap, TLAPS

GreyMarked == \A r \in markStack : Resolves(r) /\ r.slot \in marked

\* While a call of step() runs, what the roots resolve to is marked.
RootsMarkedInStep ==
    work > 0 =>
        /\ phase # "Idle"
        /\ \A r \in RootRefs : Resolves(r) => r.slot \in marked

\* The inductive invariant behind the safety of reclamation.
IInv ==
    /\ TypeOK
    /\ FreeListExact
    /\ GreyMarked
    /\ NoBlackToWhite
    /\ RootsMarkedInStep

-----------------------------------------------------------------------------
(* The initial state. *)

LEMMA InitIInv == Init => IInv
<1> SUFFICES ASSUME Init PROVE IInv
  OBVIOUS
<1> USE HeapAssumption DEF Init
<1>1. TypeOK
  BY DEF TypeOK, Value, Token, Slots
<1>2. FreeListExact
  BY DEF FreeListExact
<1>3. GreyMarked /\ NoBlackToWhite /\ RootsMarkedInStep
  BY DEF GreyMarked, NoBlackToWhite, RootsMarkedInStep
<1> QED BY <1>1, <1>2, <1>3 DEF IInv

LEMMA LiveSlots == TypeOK => live \subseteq Slots /\ marked \subseteq Slots
<1> SUFFICES ASSUME TypeOK, NEW s \in live PROVE s \in Slots
  BY DEF TypeOK
<1>1. s \in 0 .. slotCount - 1 /\ slotCount \in 0 .. MaxSlots
  BY DEF TypeOK
<1> QED BY <1>1, HeapAssumption DEF Slots

LEMMA ChildrenAreRefs ==
  ASSUME TypeOK, NEW s \in Slots, NEW f \in Fields, NEW c \in fields[s][f]
  PROVE  c \in Ref
BY DEF TypeOK, Value

\* NoBlackToWhite, child by child.
LEMMA BlackChildren ==
  NoBlackToWhite <=>
    (phase # "Idle" =>
        \A s \in marked : s \notin SlotsOf(markStack) =>
            \A f \in Fields : \A c \in fields[s][f] :
                Resolves(c) => c.slot \in marked)
BY DEF NoBlackToWhite, White, Children

-----------------------------------------------------------------------------
(* Allocation. *)

LEMMA ReusedSlot ==
  ASSUME TypeOK, FreeListExact, freeSlots # <<>>,
         freeSlots' = SubSeq(freeSlots, 1, Len(freeSlots) - 1),
         slotCount' = slotCount,
         live' = live \cup {freeSlots[Len(freeSlots)]}
  PROVE  /\ freeSlots[Len(freeSlots)] \in (0 .. slotCount - 1) \ live
         /\ freeSlots' \in Seq(Slots)
         /\ FreeListExact'
<1> DEFINE n == Len(freeSlots)
<1>1. n \in Nat \ {0} /\ freeSlots \in [1 .. n -> Slots]
  BY DEF TypeOK
<1>2. /\ freeSlots' \in Seq(Slots)
      /\ Len(freeSlots') = n - 1
      /\ \A i \in 1 .. n - 1 : freeSlots'[i] = freeSlots[i]
  BY <1>1 DEF TypeOK
<1>3. freeSlots[n] \in (0 .. slotCount - 1) \ live
  BY <1>1 DEF FreeListExact
<1>4. ASSUME NEW i \in 1 .. n - 1
      PROVE  freeSlots'[i] \in (0 .. slotCount' - 1) \ live'
  BY <1>1, <1>2 DEF FreeListExact
<1>5. ASSUME NEW s \in (0 .. slotCount' - 1) \ live'
      PROVE  \E i \in 1 .. n - 1 : freeSlots'[i] = s
  <2>1. s \in (0 .. slotCount - 1) \ live /\ s # freeSlots[n]
    OBVIOUS
  <2>2. PICK i \in 1 .. n : freeSlots[i] = s
    BY <2>1 DEF FreeListExact
  <2> QED BY <1>1, <1>2, <2>1, <2>2
<1>6. ASSUME NEW i \in 1 .. n - 1, NEW j \in 1 .. n - 1, freeSlots'[i] = freeSlots'[j]
      PROVE  i = j
  BY <1>1, <1>2, <1>6 DEF FreeListExact
<1>7. FreeListExact'
  BY <1>2, <1>4, <1>5, <1>6 DEF FreeListExact
<1> QED BY <1>2, <1>3, <1>7

LEMMA NewSlot ==
  ASSUME TypeOK, FreeListExact, freeSlots = <<>>, freeSlots' = freeSlots,
         slotCount < MaxSlots, slotCount' = slotCount + 1,
         live' = live \cup {slotCount}
  PROVE  /\ slotCount \in Slots \ live
         /\ live' \subseteq 0 .. slotCount' - 1
         /\ FreeListExact'
<1>1. slotCount \in Slots \ live /\ live' \subseteq 0 .. slotCount' - 1
  BY HeapAssumption DEF TypeOK, Slots
<1>2. \A x \in 0 .. slotCount - 1 : x \in live
  <2>1. Len(freeSlots) = 0
    OBVIOUS
  <2> QED BY <2>1 DEF FreeListExact, TypeOK
<1>3. FreeListExact'
  BY <1>2, HeapAssumption DEF FreeListExact, TypeOK
<1> QED BY <1>1, <1>3

LEMMA BornIInv ==
  ASSUME IInv, work = 0,
         NEW s \in Slots \ live, NEW size \in Sizes,
         NEW payload \in InitialPayloads, NEW d \in Registers,
         Born(s, size, payload, d),
         slotCount' \in slotCount .. MaxSlots,
         live' \subseteq 0 .. slotCount' - 1,
         freeSlots' \in Seq(Slots),
         FreeListExact'
  PROVE  IInv'
<1> DEFINE ref == [slot |-> s, gen |-> generation[s]]
<1> USE HeapAssumption DEF IInv
<1>1. payload \in [Fields -> Value] /\ ref \in Ref
  <2>1. \A r \in Registers : registers[r] \in Value
    BY DEF TypeOK
  <2>2. {{}} \cup {registers[r] : r \in Registers} \subseteq Value
    BY <2>1 DEF Value
  <2>3. payload \in [Fields -> Value]
    BY <2>2 DEF InitialPayloads
  <2>4. ref \in Ref
    BY DEF TypeOK, Ref
  <2> QED BY <2>3, <2>4
<1>2. TypeOK'
  <2>1. slotCount' \in 0 .. MaxSlots /\ sweepLimit' \in 0 .. slotCount'
    BY DEF TypeOK, Born
  <2>2. fields' \in [Slots -> [Fields -> Value]] /\ sizeBytes' \in [Slots -> Nat]
    BY <1>1 DEF TypeOK, Born
  <2>3. registers' \in [Registers -> Value]
    BY <1>1 DEF TypeOK, Born, Value
  <2>4. marked' \subseteq live' /\ markStack' \subseteq Ref
    BY <1>1 DEF TypeOK, Born
  <2>5. liveBytes' \in Int
    BY DEF TypeOK, Born
  <2>6. /\ generation' \in [Slots -> 1 .. GenLimit]
        /\ persistentRoots' \subseteq [token : Token, value : Value]
        /\ nextRootToken' \in 1 .. MaxToken + 1
        /\ phase' \in {"Idle", "Mark", "Sweep"}
        /\ sweepIndex' \in Nat
        /\ nextThreshold' \in Nat
        /\ work' \in Nat
        /\ full' \in {"no", "drain", "fresh"}
    BY DEF TypeOK, Born
  <2>7. requested' \in BOOLEAN /\ resumeSweep' \in BOOLEAN
    BY Zenon DEF TypeOK, Born
  <2> QED BY <2>1, <2>2, <2>3, <2>4, <2>5, <2>6, <2>7 DEF TypeOK
<1>3. ASSUME NEW r \in Ref, Resolves(r)'
      PROVE  Resolves(r) \/ r = ref
  BY <1>3 DEF Resolves, Born, Ref
<1>4. ASSUME NEW r \in Ref, Resolves(r)
      PROVE  Resolves(r)' /\ r.slot # s
  BY <1>4 DEF Resolves, Born
<1>5. GreyMarked'
  <2> SUFFICES ASSUME NEW r \in markStack' PROVE Resolves(r)' /\ r.slot \in marked'
    BY DEF GreyMarked
  <2>1. CASE r \in markStack
    BY <2>1, <1>4 DEF GreyMarked, Born, TypeOK
  <2>2. CASE r = ref /\ phase # "Idle"
    BY <2>2, <1>1 DEF Resolves, Born, TypeOK
  <2> QED BY <2>1, <2>2 DEF Born
<1>6. NoBlackToWhite'
  <2> SUFFICES ASSUME phase' # "Idle", NEW t \in marked', t \notin SlotsOf(markStack)',
                      NEW f \in Fields, NEW c \in (fields[t][f])', Resolves(c)'
               PROVE  c.slot \in marked'
    BY DEF NoBlackToWhite, White, Children
  <2>1. phase # "Idle" /\ marked' = marked \cup {s} /\ markStack' = markStack \cup {ref}
    BY DEF Born
  <2>2. t # s /\ t \in marked /\ t \notin SlotsOf(markStack)
    BY <2>1 DEF SlotsOf
  <2>3. c \in fields[t][f] /\ c \in Ref
    <3>1. t \in Slots
      BY <2>2, LiveSlots
    <3>2. c \in fields[t][f]
      BY <2>2, <3>1 DEF Born, TypeOK
    <3>3. fields[t][f] \in Value
      BY <3>1 DEF TypeOK
    <3> QED BY <3>2, <3>3 DEF Value
  <2>4. CASE Resolves(c)
    BY <2>1, <2>2, <2>3, <2>4 DEF NoBlackToWhite, White, Children
  <2>5. CASE c = ref
    BY <2>1, <2>5
  <2> QED BY <2>3, <2>4, <2>5, <1>3
<1>7. RootsMarkedInStep'
  BY DEF RootsMarkedInStep, Born
<1> QED BY <1>2, <1>5, <1>6, <1>7

LEMMA AllocateIInv == ASSUME IInv, NEW d \in Registers, Allocate(d) PROVE IInv'
<1> USE HeapAssumption
<1>1. PICK size \in Sizes, payload \in InitialPayloads :
        AllocateReused(d, size, payload) \/ AllocateNew(d, size, payload)
  BY DEF Allocate
<1>2. work = 0 /\ TypeOK /\ FreeListExact
  BY DEF Allocate, MutatorTurn, IInv
<1>3. CASE AllocateReused(d, size, payload)
  <2> DEFINE s == freeSlots[Len(freeSlots)]
  <2>1. Born(s, size, payload, d) /\ slotCount' = slotCount
    BY <1>3 DEF AllocateReused
  <2>2. /\ s \in (0 .. slotCount - 1) \ live
        /\ freeSlots' \in Seq(Slots)
        /\ FreeListExact'
    BY <1>2, <1>3, ReusedSlot DEF AllocateReused, Born
  <2>3. s \in Slots /\ live' \subseteq 0 .. slotCount' - 1
    <3>1. live' = live \cup {s} /\ slotCount \in 0 .. MaxSlots
      BY <1>2, <2>1 DEF Born, TypeOK
    <3>2. live \subseteq 0 .. slotCount - 1
      BY <1>2 DEF TypeOK
    <3>3. s \in 0 .. slotCount - 1 /\ slotCount' = slotCount
      BY <2>1, <2>2
    <3>4. ASSUME NEW x \in 0 .. slotCount - 1 PROVE x \in Slots
      BY <3>1 DEF Slots
    <3>5. s \in Slots
      BY <3>3, <3>4
    <3>6. live' \subseteq 0 .. slotCount' - 1
      BY <3>1, <3>2, <3>3
    <3> QED BY <3>5, <3>6
  <2>4. slotCount' \in slotCount .. MaxSlots
    BY <1>2, <2>1 DEF TypeOK
  <2> QED BY <1>2, <2>1, <2>2, <2>3, <2>4, BornIInv
<1>4. CASE AllocateNew(d, size, payload)
  <2>1. /\ Born(slotCount, size, payload, d)
        /\ slotCount' = slotCount + 1
        /\ slotCount < MaxSlots
    BY <1>4 DEF AllocateNew
  <2>2. /\ slotCount \in Slots \ live
        /\ live' \subseteq 0 .. slotCount' - 1
        /\ FreeListExact'
    BY <1>2, <1>4, NewSlot DEF AllocateNew, Born
  <2>3. slotCount' \in slotCount .. MaxSlots /\ freeSlots' \in Seq(Slots)
    BY <1>2, <1>4, <2>1 DEF TypeOK, AllocateNew
  <2> QED BY <1>2, <2>1, <2>2, <2>3, BornIInv
<1> QED BY <1>1, <1>3, <1>4

-----------------------------------------------------------------------------
(* The rest of the mutator. *)

\* Steps that change neither objects nor colours: only roots, requests and the
\* progress of collectFull move.
LEMMA SameObjects ==
  ASSUME IInv, TypeOK', work' = 0, phase' = phase,
         UNCHANGED <<objectVars, colorVars>>
  PROVE  IInv'
<1> USE DEF objectVars, colorVars
<1>1. \A r : Resolves(r)' = Resolves(r)
  BY DEF Resolves
<1>2. FreeListExact' /\ GreyMarked'
  BY <1>1 DEF IInv, FreeListExact, GreyMarked
<1>3. NoBlackToWhite'
  BY <1>1 DEF IInv, NoBlackToWhite, White, Children, SlotsOf
<1>4. RootsMarkedInStep'
  BY DEF RootsMarkedInStep
<1> QED BY <1>2, <1>3, <1>4 DEF IInv

LEMMA RootChangesIInv ==
  ASSUME IInv,
         \/ AllocateFails
         \/ RequestCollection
         \/ CollectFull
         \/ CollectFullAgain
         \/ CollectFullReturns
         \/ \E d \in Registers : SetRegister(d) \/ PassUnrooted(d) \/ AddPersistentRoot(d)
         \/ \E d, o \in Registers, f \in Fields : Load(d, o, f)
         \/ \E p \in persistentRoots : RemovePersistentRoot(p)
         \/ \E p \in persistentRoots, o \in Registers : UpdatePersistentRoot(p, o)
  PROVE  IInv'
<1> USE HeapAssumption DEF objectVars, colorVars, rootVars, sweepVars, paceVars, MutatorTurn
<1>0. TypeOK
  BY DEF IInv
<1>a. \A r \in Registers : registers[r] \subseteq Ref
  BY <1>0 DEF TypeOK, Value
<1>1. CASE AllocateFails \/ RequestCollection \/ CollectFull
  <2>1. TypeOK' /\ work' = 0 /\ phase' = phase /\ UNCHANGED <<objectVars, colorVars>>
    BY <1>0, <1>1 DEF TypeOK, AllocateFails, RequestCollection, CollectFull
  <2> QED BY <2>1, SameObjects
<1>2. CASE CollectFullAgain \/ CollectFullReturns
  <2>1. TypeOK' /\ work' = 0 /\ phase' = phase /\ UNCHANGED <<objectVars, colorVars>>
    BY <1>0, <1>2 DEF TypeOK, CollectFullAgain, CollectFullReturns, Drained
  <2> QED BY <2>1, SameObjects
<1>3. ASSUME NEW d \in Registers, NEW v \in Value,
             registers' = [registers EXCEPT ![d] = v], work = 0,
             UNCHANGED <<objectVars, persistentRoots, nextRootToken, colorVars,
                         sweepVars, paceVars, phase, work, full>>
      PROVE  IInv'
  <2>1. registers' \in [Registers -> Value]
    BY <1>0, <1>3 DEF TypeOK
  <2>2. TypeOK'
    BY <1>0, <1>3, <2>1 DEF TypeOK
  <2> QED BY <1>3, <2>2, SameObjects
<1>4. ASSUME NEW d \in Registers, SetRegister(d) PROVE IInv'
  <2>1. PICK v \in SUBSET UNION {registers[r] : r \in Registers} :
          registers' = [registers EXCEPT ![d] = v]
    BY <1>4 DEF SetRegister
  <2>2. v \in Value
    BY <1>a DEF Value
  <2> QED BY <1>3, <1>4, <2>1, <2>2 DEF SetRegister
<1>5. ASSUME NEW d \in Registers, PassUnrooted(d) PROVE IInv'
  <2>1. PICK s \in live :
          registers' = [registers EXCEPT ![d] = {[slot |-> s, gen |-> generation[s]]}]
    BY <1>5 DEF PassUnrooted
  <2>2. [slot |-> s, gen |-> generation[s]] \in Ref
    BY <1>0, LiveSlots DEF Ref, TypeOK
  <2>3. {[slot |-> s, gen |-> generation[s]]} \in Value
    BY <2>2 DEF Value
  <2> QED BY <1>3, <1>5, <2>1, <2>3 DEF PassUnrooted
<1>6. ASSUME NEW d \in Registers, NEW o \in Registers, NEW f \in Fields, Load(d, o, f)
      PROVE  IInv'
  <2>1. PICK r \in registers[o] :
          registers' = [registers EXCEPT ![d] = fields[r.slot][f]]
    BY <1>6 DEF Load
  <2>2. r.slot \in Slots
    BY <1>a DEF Ref
  <2>3. fields[r.slot][f] \in Value
    BY <1>0, <2>2 DEF TypeOK
  <2> QED BY <1>3, <1>6, <2>1, <2>3 DEF Load
<1>7. ASSUME NEW o \in Registers, AddPersistentRoot(o) PROVE IInv'
  <2>1. [token |-> nextRootToken, value |-> registers[o]] \in [token : Token, value : Value]
    BY <1>0, <1>7 DEF TypeOK, AddPersistentRoot, Token
  <2>2. TypeOK'
    BY <1>0, <1>7, <2>1 DEF TypeOK, AddPersistentRoot
  <2> QED BY <1>7, <2>2, SameObjects DEF AddPersistentRoot
<1>8. ASSUME NEW p \in persistentRoots, RemovePersistentRoot(p) PROVE IInv'
  <2>1. TypeOK'
    BY <1>0, <1>8 DEF TypeOK, RemovePersistentRoot
  <2> QED BY <1>8, <2>1, SameObjects DEF RemovePersistentRoot
<1>9. ASSUME NEW p \in persistentRoots, NEW o \in Registers, UpdatePersistentRoot(p, o)
      PROVE  IInv'
  <2>1. [token |-> p.token, value |-> registers[o]] \in [token : Token, value : Value]
    BY <1>0 DEF TypeOK
  <2>2. TypeOK'
    BY <1>0, <1>9, <2>1 DEF TypeOK, UpdatePersistentRoot
  <2> QED BY <1>9, <2>2, SameObjects DEF UpdatePersistentRoot
<1> QED BY <1>1, <1>2, <1>4, <1>5, <1>6, <1>7, <1>8, <1>9

\* A write barrier leaves the stored value's objects marked if the owner is, and
\* keeps grey objects grey or marked.
LEMMA StoreIInv ==
  ASSUME IInv, NEW o \in Registers, NEW f \in Fields, Store(o, f)
  PROVE  IInv'
<1> USE HeapAssumption DEF rootVars, paceVars
<1>0. TypeOK /\ work = 0 /\ work' = 0
  BY DEF IInv, Store, MutatorTurn
<1>1. PICK r \in registers[o], v \in {{}} \cup {registers[x] : x \in Registers} :
        /\ Resolves(r)
        /\ WriteBarrier(r.slot, v)
        /\ fields' = [fields EXCEPT ![r.slot][f] = v]
  BY DEF Store
<1>2. v \subseteq Ref /\ r \in Ref /\ r.slot \in live /\ r.slot \in Slots
  BY <1>0, <1>1 DEF TypeOK, Value, Ref, Resolves
<1>3. /\ UNCHANGED <<slotCount, live, generation, sizeBytes, freeSlots, liveBytes,
                     registers, persistentRoots, nextRootToken, sweepIndex, sweepLimit,
                     requested, nextThreshold, work, full>>
      /\ \A x : Resolves(x)' = Resolves(x)
  BY DEF Store, Resolves
<1>4. /\ (phase' = "Idle") <=> (phase = "Idle")
      /\ phase' \in {"Idle", "Mark", "Sweep"}
      /\ resumeSweep' \in BOOLEAN
  BY <1>0, <1>1, Zenon DEF WriteBarrier, TypeOK
<1>5. \/ /\ phase = "Idle" \/ r.slot \notin marked
         /\ UNCHANGED colorVars
      \/ MarkRefs(v)
  BY <1>1 DEF WriteBarrier
<1>6. /\ marked \subseteq marked' /\ marked' \subseteq live'
      /\ markStack \subseteq markStack' /\ markStack' \subseteq Ref
      /\ marked' \subseteq marked \cup SlotsOf(markStack')
  BY <1>0, <1>2, <1>3, <1>5 DEF colorVars, MarkRefs, White, SlotsOf, Resolves, TypeOK
<1>7. TypeOK'
  <2>1. fields' \in [Slots -> [Fields -> Value]]
    BY <1>0, <1>1, <1>2 DEF TypeOK, Value
  <2> QED BY <1>0, <1>3, <1>4, <1>6, <2>1 DEF TypeOK
<1>8. FreeListExact'
  BY <1>3 DEF IInv, FreeListExact
<1>9. GreyMarked'
  BY <1>2, <1>3, <1>5 DEF IInv, GreyMarked, colorVars, MarkRefs, White, SlotsOf
<1>10. NoBlackToWhite'
  <2> SUFFICES ASSUME phase # "Idle", NEW t \in marked', t \notin SlotsOf(markStack'),
                      NEW g \in Fields, NEW c \in fields'[t][g], Resolves(c)
               PROVE  c.slot \in marked'
    BY <1>3, <1>4 DEF NoBlackToWhite, White, Children, SlotsOf
  <2>1. t \in marked /\ t \notin SlotsOf(markStack) /\ t \in Slots
    BY <1>0, <1>6, LiveSlots DEF SlotsOf
  <2>2. CASE c \in fields[t][g]
    BY <1>6, <2>1, <2>2, BlackChildren DEF IInv
  <2>3. CASE t = r.slot /\ c \in v
    <3>1. MarkRefs(v)
      BY <1>1, <2>1, <2>3 DEF WriteBarrier
    <3> QED BY <2>3, <3>1 DEF MarkRefs, White, SlotsOf
  <2>4. fields'[t][g] = IF t = r.slot /\ g = f THEN v ELSE fields[t][g]
    BY <1>0, <1>1, <1>2, <2>1 DEF TypeOK
  <2> QED BY <2>2, <2>3, <2>4
<1>11. RootsMarkedInStep'
  BY <1>0 DEF RootsMarkedInStep
<1> QED BY <1>7, <1>8, <1>9, <1>10, <1>11 DEF IInv

-----------------------------------------------------------------------------
(* The collector. *)

\* Marking a set of references keeps the invariant and marks what they resolve to.
LEMMA MarkingKeepsColours ==
  ASSUME TypeOK, GreyMarked, NEW R \in SUBSET Ref,
         marked' = marked \cup SlotsOf(White(R)),
         UNCHANGED objectVars
  PROVE  /\ \A r : Resolves(r)' = Resolves(r)
         /\ marked' \subseteq live'
         /\ marked \subseteq marked'
         /\ \A r \in R : Resolves(r) => r.slot \in marked'
         /\ \A r \in White(R) : r.slot \in marked' /\ r \in Ref /\ Resolves(r)
         /\ \A s \in marked' : s \in marked \/ s \in SlotsOf(White(R))
BY DEF objectVars, White, SlotsOf, Resolves, TypeOK, GreyMarked

LEMMA RootRefsAreRefs == TypeOK => RootRefs \subseteq Ref
<1> SUFFICES ASSUME TypeOK PROVE RootRefs \subseteq Ref
  OBVIOUS
<1>1. \A r \in Registers : registers[r] \subseteq Ref
  BY DEF TypeOK, Value
<1>2. \A p \in persistentRoots : p.value \subseteq Ref
  BY DEF TypeOK, Value
<1>3. ASSUME NEW x \in RootRefs PROVE x \in Ref
  <2>1. CASE x \in UNION {registers[r] : r \in Registers}
    <3>1. PICK S \in {registers[r] : r \in Registers} : x \in S
      BY <2>1
    <3>2. PICK r \in Registers : S = registers[r]
      BY <3>1
    <3> QED BY <1>1, <3>1, <3>2
  <2>2. CASE x \in UNION {p.value : p \in persistentRoots}
    <3>1. PICK S \in {p.value : p \in persistentRoots} : x \in S
      BY <2>2
    <3>2. PICK p \in persistentRoots : S = p.value
      BY <3>1
    <3> QED BY <1>2, <3>1, <3>2
  <2> QED BY <1>3, <2>1, <2>2 DEF RootRefs
<1> QED BY <1>3

LEMMA StartCollectionIInv == ASSUME IInv, StartCollection PROVE IInv'
<1> USE HeapAssumption DEF objectVars, rootVars, paceVars
<1>0. TypeOK
  BY DEF IInv
<1>1. \A r : Resolves(r)' = Resolves(r)
  BY DEF StartCollection, Resolves
<1>2. RootRefs' = RootRefs /\ RootRefs \subseteq Ref
  BY <1>0, RootRefsAreRefs DEF StartCollection, RootRefs
<1>3. Budget \in Nat
  BY <1>0 DEF Budget, TypeOK
<1>4. TypeOK'
  <2>1. marked' \subseteq live' /\ markStack' \subseteq Ref
    BY <1>2 DEF StartCollection, SlotsOf, Resolves
  <2>2. sweepLimit' \in 0 .. slotCount' /\ sweepIndex' \in Nat /\ work' \in Nat
    BY <1>0, <1>3 DEF StartCollection, TypeOK
  <2> QED BY <1>0, <2>1, <2>2 DEF StartCollection, TypeOK
<1>5. FreeListExact'
  BY DEF StartCollection, IInv, FreeListExact
<1>6. GreyMarked'
  BY <1>1 DEF StartCollection, GreyMarked, SlotsOf
<1>7. NoBlackToWhite'
  BY DEF StartCollection, NoBlackToWhite, SlotsOf
<1>8. RootsMarkedInStep'
  BY <1>1, <1>2 DEF StartCollection, RootsMarkedInStep, SlotsOf
<1> QED BY <1>4, <1>5, <1>6, <1>7, <1>8 DEF IInv

LEMMA ContinueCollectionIInv == ASSUME IInv, ContinueCollection PROVE IInv'
<1> USE HeapAssumption DEF objectVars, rootVars, sweepVars, paceVars
<1>0. TypeOK /\ GreyMarked
  BY DEF IInv
<1>1. /\ marked' = marked \cup SlotsOf(White(RootRefs))
      /\ markStack' = markStack \cup White(RootRefs)
      /\ RootRefs' = RootRefs
      /\ RootRefs \in SUBSET Ref
      /\ UNCHANGED objectVars
  BY <1>0, RootRefsAreRefs DEF ContinueCollection, MarkRefs, RootRefs
<1>2. /\ \A r : Resolves(r)' = Resolves(r)
      /\ marked' \subseteq live'
      /\ marked \subseteq marked'
      /\ \A r \in RootRefs : Resolves(r) => r.slot \in marked'
      /\ \A r \in White(RootRefs) : r.slot \in marked' /\ r \in Ref /\ Resolves(r)
      /\ \A s \in marked' : s \in marked \/ s \in SlotsOf(White(RootRefs))
  BY <1>0, <1>1, MarkingKeepsColours
<1>3. TypeOK'
  <2>1. work' \in Nat
    BY <1>0 DEF ContinueCollection, Budget, TypeOK
  <2>2. markStack' \subseteq Ref
    BY <1>0, <1>1, <1>2 DEF TypeOK
  <2> QED BY <1>0, <1>2, <2>1, <2>2 DEF ContinueCollection, TypeOK
<1>4. FreeListExact'
  BY DEF ContinueCollection, IInv, FreeListExact
<1>5. GreyMarked'
  BY <1>0, <1>1, <1>2 DEF GreyMarked
<1>6. NoBlackToWhite'
  <2> SUFFICES ASSUME phase # "Idle", NEW t \in marked', t \notin SlotsOf(markStack'),
                      NEW g \in Fields, NEW c \in fields[t][g], Resolves(c)
               PROVE  c.slot \in marked'
    BY <1>2 DEF NoBlackToWhite, White, Children, SlotsOf, ContinueCollection
  <2>1. t \in marked /\ t \notin SlotsOf(markStack)
    BY <1>1, <1>2 DEF SlotsOf
  <2> QED BY <1>2, <2>1, BlackChildren DEF IInv
<1>7. RootsMarkedInStep'
  BY <1>1, <1>2 DEF ContinueCollection, RootsMarkedInStep
<1> QED BY <1>3, <1>4, <1>5, <1>6, <1>7 DEF IInv

LEMMA MarkOneIInv == ASSUME IInv, MarkOne PROVE IInv'
<1> USE HeapAssumption DEF objectVars, rootVars, sweepVars, paceVars
<1>0. TypeOK /\ GreyMarked
  BY DEF IInv
<1>1. PICK top \in markStack :
        LET found == IF Resolves(top) THEN White(Children(top.slot)) ELSE {} IN
        /\ marked' = marked \cup SlotsOf(found)
        /\ markStack' = (markStack \ {top}) \cup found
  BY DEF MarkOne
<1>2. Resolves(top) /\ top \in Ref /\ top.slot \in Slots /\ top.slot \in marked
  BY <1>0 DEF GreyMarked, TypeOK, Ref
<1> DEFINE R == Children(top.slot)
<1>3. R \in SUBSET Ref
  BY <1>0, <1>2 DEF TypeOK, Value, Children
<1>4. /\ marked' = marked \cup SlotsOf(White(R))
      /\ markStack' = (markStack \ {top}) \cup White(R)
      /\ UNCHANGED objectVars
      /\ RootRefs' = RootRefs
  BY <1>1, <1>2 DEF MarkOne, RootRefs
<1>5. /\ \A r : Resolves(r)' = Resolves(r)
      /\ marked' \subseteq live'
      /\ marked \subseteq marked'
      /\ \A r \in R : Resolves(r) => r.slot \in marked'
      /\ \A r \in White(R) : r.slot \in marked' /\ r \in Ref /\ Resolves(r)
      /\ \A s \in marked' : s \in marked \/ s \in SlotsOf(White(R))
  BY <1>0, <1>3, <1>4, MarkingKeepsColours
<1>6. TypeOK'
  <2>1. work' \in Nat
    BY <1>0 DEF MarkOne, TypeOK
  <2>2. markStack' \subseteq Ref
    BY <1>0, <1>4, <1>5 DEF TypeOK
  <2> QED BY <1>0, <1>5, <2>1, <2>2 DEF MarkOne, TypeOK
<1>7. FreeListExact'
  BY DEF MarkOne, IInv, FreeListExact
<1>8. GreyMarked'
  BY <1>0, <1>4, <1>5 DEF GreyMarked
<1>9. NoBlackToWhite'
  <2> SUFFICES ASSUME phase # "Idle", NEW t \in marked', t \notin SlotsOf(markStack'),
                      NEW g \in Fields, NEW c \in fields[t][g], Resolves(c)
               PROVE  c.slot \in marked'
    BY <1>5 DEF NoBlackToWhite, White, Children, SlotsOf, MarkOne
  <2>1. CASE t = top.slot
    BY <1>5, <2>1 DEF Children
  <2>2. CASE t # top.slot
    <3>1. t \in marked /\ t \notin SlotsOf(markStack)
      BY <1>4, <1>5, <2>2 DEF SlotsOf
    <3> QED BY <1>5, <3>1, BlackChildren DEF IInv
  <2> QED BY <2>1, <2>2
<1>10. RootsMarkedInStep'
  BY <1>4, <1>5 DEF MarkOne, RootsMarkedInStep, IInv
<1> QED BY <1>6, <1>7, <1>8, <1>9, <1>10 DEF IInv

LEMMA PhaseChangesIInv ==
  ASSUME IInv, BackToMark \/ StartSweep \/ FinishCollection
  PROVE  IInv'
<1> USE HeapAssumption DEF objectVars, colorVars, rootVars, sweepVars, paceVars
<1>0. TypeOK
  BY DEF IInv
<1>1. /\ UNCHANGED <<objectVars, colorVars, rootVars>>
      /\ \A r : Resolves(r)' = Resolves(r)
      /\ RootRefs' = RootRefs
      /\ phase # "Idle"
  BY DEF BackToMark, StartSweep, FinishCollection, Resolves, RootRefs
<1>2. TypeOK'
  <2>1. CASE BackToMark \/ StartSweep
    <3>1. sweepIndex' \in Nat
      BY <1>0, <2>1 DEF TypeOK, BackToMark, StartSweep
    <3>2. resumeSweep' \in BOOLEAN /\ phase' \in {"Idle", "Mark", "Sweep"}
      BY <2>1 DEF BackToMark, StartSweep
    <3>3. UNCHANGED <<sweepLimit, requested, nextThreshold, work, full>>
      BY <2>1 DEF BackToMark, StartSweep
    <3> QED BY <1>0, <1>1, <3>1, <3>2, <3>3 DEF TypeOK
  <2>2. CASE FinishCollection
    <3>1. nextThreshold' \in Nat
      BY <1>0, <2>2 DEF TypeOK, FinishCollection, Larger, Smaller
    <3>2. sweepLimit' \in 0 .. slotCount' /\ sweepIndex' \in Nat /\ work' \in Nat
      BY <1>0, <2>2 DEF TypeOK, FinishCollection
    <3> QED BY <1>0, <2>2, <3>1, <3>2 DEF TypeOK, FinishCollection
  <2> QED BY <2>1, <2>2
<1>3. FreeListExact' /\ GreyMarked'
  BY <1>1 DEF IInv, FreeListExact, GreyMarked
<1>4. NoBlackToWhite'
  BY <1>1 DEF IInv, NoBlackToWhite, White, Children, SlotsOf
<1>5. RootsMarkedInStep'
  BY <1>1 DEF IInv, RootsMarkedInStep, BackToMark, StartSweep, FinishCollection
<1> QED BY <1>2, <1>3, <1>4, <1>5 DEF IInv

\* Sweeping a slot: an unmarked object is not grey, no root of the running step
\* resolves to it and no black object refers to it.
LEMMA SweepOneIInv == ASSUME IInv, SweepOne PROVE IInv'
<1> USE HeapAssumption DEF objectVars, colorVars, rootVars, paceVars
<1> DEFINE s == sweepIndex
<1>0. TypeOK /\ FreeListExact /\ work > 0 /\ phase = "Sweep"
  BY DEF IInv, SweepOne
<1>1. CASE ~(s \in live /\ s \notin marked)
  <2>1. UNCHANGED objectVars
    BY <1>1 DEF SweepOne, Reclaim
  <2>2. (\A r : Resolves(r)' = Resolves(r)) /\ RootRefs' = RootRefs
    BY <2>1 DEF Resolves, SweepOne, RootRefs
  <2>3. TypeOK'
    BY <1>0, <2>1 DEF TypeOK, SweepOne
  <2>4. FreeListExact' /\ GreyMarked'
    BY <2>1, <2>2 DEF IInv, FreeListExact, GreyMarked, SweepOne
  <2>5. NoBlackToWhite'
    BY <2>1, <2>2 DEF IInv, NoBlackToWhite, White, Children, SlotsOf, SweepOne
  <2>6. RootsMarkedInStep'
    BY <2>1, <2>2 DEF IInv, RootsMarkedInStep, SweepOne
  <2> QED BY <2>3, <2>4, <2>5, <2>6 DEF IInv
<1>2. CASE s \in live /\ s \notin marked
  <2>1. /\ s \in live /\ s \in Slots /\ s \notin marked
        /\ live' = live \ {s}
        /\ generation' = [generation EXCEPT ![s] = NextGeneration(@)]
        /\ fields' = [fields EXCEPT ![s] = [f \in Fields |-> {}]]
        /\ sizeBytes' = [sizeBytes EXCEPT ![s] = 0]
        /\ liveBytes' = liveBytes - sizeBytes[s]
        /\ freeSlots' = Append(freeSlots, s)
        /\ slotCount' = slotCount
    BY <1>0, <1>2, LiveSlots DEF SweepOne, Reclaim
  <2>2. /\ sweepIndex' = sweepIndex + 1 /\ work' = work - 1
        /\ UNCHANGED <<rootVars, colorVars, resumeSweep, sweepLimit, paceVars, phase, full>>
    BY DEF SweepOne
  <2>3. ASSUME NEW r, r.slot \in Slots
        PROVE  Resolves(r)' <=> Resolves(r) /\ r.slot # s
    BY <1>0, <2>1, <2>3 DEF Resolves, TypeOK
  <2>4. TypeOK'
    <3>1. live' \subseteq 0 .. slotCount' - 1 /\ marked' \subseteq live'
      BY <1>0, <2>1, <2>2 DEF TypeOK
    <3>2. generation' \in [Slots -> 1 .. GenLimit]
      BY <1>0, <2>1 DEF TypeOK, NextGeneration
    <3>3. fields' \in [Slots -> [Fields -> Value]] /\ sizeBytes' \in [Slots -> Nat]
      BY <1>0, <2>1 DEF TypeOK, Value
    <3>4. freeSlots' \in Seq(Slots) /\ liveBytes' \in Int
      BY <1>0, <2>1 DEF TypeOK
    <3>5. sweepIndex' \in Nat /\ work' \in Nat /\ slotCount' \in 0 .. MaxSlots
          /\ sweepLimit' \in 0 .. slotCount'
      BY <1>0, <2>1, <2>2 DEF TypeOK
    <3> QED BY <1>0, <2>2, <3>1, <3>2, <3>3, <3>4, <3>5 DEF TypeOK
  <2>5. FreeListExact'
    <3>1. /\ Len(freeSlots') = Len(freeSlots) + 1
          /\ Len(freeSlots) \in Nat
          /\ \A i \in 1 .. Len(freeSlots) : freeSlots'[i] = freeSlots[i]
          /\ freeSlots'[Len(freeSlots) + 1] = s
      BY <1>0, <2>1 DEF TypeOK
    <3>2. s \in 0 .. slotCount - 1
      BY <1>0, <2>1 DEF TypeOK
    <3>3. \A i \in 1 .. Len(freeSlots') : freeSlots'[i] \in (0 .. slotCount' - 1) \ live'
      BY <1>0, <2>1, <3>1, <3>2 DEF FreeListExact
    <3>4. ASSUME NEW x \in (0 .. slotCount' - 1) \ live'
          PROVE  \E i \in 1 .. Len(freeSlots') : freeSlots'[i] = x
      <4>1. CASE x = s
        BY <3>1, <4>1
      <4>2. CASE x # s
        <5>1. PICK i \in 1 .. Len(freeSlots) : freeSlots[i] = x
          BY <1>0, <2>1, <4>2 DEF FreeListExact
        <5> QED BY <3>1, <5>1
      <4> QED BY <4>1, <4>2
    <3>5. \A i, j \in 1 .. Len(freeSlots') : freeSlots'[i] = freeSlots'[j] => i = j
      BY <1>0, <2>1, <3>1 DEF FreeListExact
    <3> QED BY <3>3, <3>4, <3>5 DEF FreeListExact
  <2>6. GreyMarked'
    BY <1>0, <2>1, <2>2, <2>3 DEF IInv, GreyMarked, TypeOK, Ref
  <2>7. NoBlackToWhite'
    <3> SUFFICES ASSUME NEW t \in marked, t \notin SlotsOf(markStack),
                        NEW g \in Fields, NEW c \in fields'[t][g], Resolves(c)'
                 PROVE  c.slot \in marked
      BY <2>2 DEF NoBlackToWhite, White, Children, SlotsOf
    <3>1. t # s /\ t \in Slots
      BY <1>0, <2>1, LiveSlots
    <3>2. c \in fields[t][g]
      BY <1>0, <2>1, <3>1 DEF TypeOK
    <3>3. c.slot \in Slots
      BY <1>0, <3>1, <3>2, ChildrenAreRefs DEF Ref
    <3> QED BY <1>0, <2>3, <3>2, <3>3, BlackChildren DEF IInv
  <2>8. RootsMarkedInStep'
    <3>1. RootRefs' = RootRefs /\ RootRefs \subseteq Ref
      BY <1>0, <2>2, RootRefsAreRefs DEF RootRefs
    <3> QED BY <1>0, <2>2, <2>3, <3>1 DEF IInv, RootsMarkedInStep, Ref
  <2> QED BY <2>4, <2>5, <2>6, <2>7, <2>8 DEF IInv
<1> QED BY <1>1, <1>2

LEMMA StutterIInv == IInv /\ UNCHANGED vars => IInv'
<1> SUFFICES ASSUME IInv, UNCHANGED vars PROVE IInv'
  OBVIOUS
<1> USE DEF vars, objectVars, rootVars, colorVars, sweepVars, paceVars
<1>1. (\A r : Resolves(r)' = Resolves(r)) /\ RootRefs' = RootRefs
  BY DEF Resolves, RootRefs
<1>2. TypeOK'
  BY DEF IInv, TypeOK
<1>3. FreeListExact' /\ GreyMarked' /\ RootsMarkedInStep'
  BY <1>1 DEF IInv, FreeListExact, GreyMarked, RootsMarkedInStep
<1>4. NoBlackToWhite'
  BY <1>1 DEF IInv, NoBlackToWhite, White, Children, SlotsOf
<1> QED BY <1>2, <1>3, <1>4 DEF IInv

LEMMA NextIInv == IInv /\ [Next]_vars => IInv'
<1> SUFFICES ASSUME IInv, [Next]_vars PROVE IInv'
  OBVIOUS
<1>1. CASE Mutator
  <2>1. CASE \E d \in Registers : Allocate(d)
    BY <2>1, AllocateIInv
  <2>2. CASE \E o \in Registers, f \in Fields : Store(o, f)
    BY <2>2, StoreIInv
  <2> QED BY <1>1, <2>1, <2>2, RootChangesIInv DEF Mutator
<1>2. CASE Collector
  BY <1>2, StartCollectionIInv, ContinueCollectionIInv, MarkOneIInv, PhaseChangesIInv,
     SweepOneIInv, RootChangesIInv DEF Collector
<1>3. CASE UNCHANGED vars
  BY <1>3, StutterIInv
<1> QED BY <1>1, <1>2, <1>3 DEF Next

THEOREM InductiveInvariant == Spec => []IInv
BY InitIInv, NextIInv, PTL DEF Spec

\* Every variable keeps its type, with unbounded allocations, slots and steps.
THEOREM TypeCorrect == Spec => []TypeOK
<1>1. IInv => TypeOK
  BY DEF IInv
<1> QED BY <1>1, InductiveInvariant, PTL

\* The free list holds each empty slot exactly once.
THEOREM FreeListCorrect == Spec => []FreeListExact
<1>1. IInv => FreeListExact
  BY DEF IInv
<1> QED BY <1>1, InductiveInvariant, PTL

\* No store, allocation or resumed sweep leaves a black object with a white child.
THEOREM TriColor == Spec => []NoBlackToWhite
<1>1. IInv => NoBlackToWhite
  BY DEF IInv
<1> QED BY <1>1, InductiveInvariant, PTL

\* In a step that sweeps, the marked objects are a closed set that contains all
\* the roots resolve to, so what is not marked is not reachable.
LEMMA SweptIsGarbage ==
  ASSUME IInv, SweepOne PROVE Reachable \subseteq marked
<1>1. marked \in SUBSET live
  BY DEF IInv, TypeOK
<1>2. SlotsOf({r \in RootRefs : Resolves(r)}) \subseteq marked
  BY DEF IInv, RootsMarkedInStep, SweepOne, SlotsOf
<1>3. ClosedUnderChildren(marked)
  BY DEF IInv, NoBlackToWhite, SweepOne, SlotsOf, White, ClosedUnderChildren
<1> QED BY <1>1, <1>2, <1>3 DEF Reachable

\* A step of the heap reclaims an object only if no root can reach it, even when
\* hosts hand back references they never rooted.
THEOREM ReclamationIsSafe == Spec => OnlyGarbageReclaimed
<1> DEFINE Safe == \A s \in live : s \notin live' => s \notin Reachable
<1>1. ASSUME IInv, [Next]_vars PROVE [Safe]_vars
  <2>1. CASE SweepOne
    <3>1. live' = live \/ (sweepIndex \notin marked /\ live' = live \ {sweepIndex})
      BY <2>1 DEF SweepOne, Reclaim, objectVars
    <3>2. Reachable \subseteq marked
      BY <1>1, <2>1, SweptIsGarbage
    <3> QED BY <3>1, <3>2
  <2>2. CASE UNCHANGED vars
    BY <2>2
  <2>3. CASE Mutator
    <3>1. live \subseteq live'
      BY <2>3 DEF Mutator, Allocate, AllocateReused, AllocateNew, Born, SetRegister,
         PassUnrooted, AddPersistentRoot, Load, Store, RemovePersistentRoot,
         UpdatePersistentRoot, AllocateFails, RequestCollection, CollectFull, objectVars
    <3> QED BY <3>1
  <2>4. CASE Collector /\ ~SweepOne
    <3>1. live \subseteq live'
      BY <2>4 DEF Collector, StartCollection, ContinueCollection, BackToMark, MarkOne,
         StartSweep, FinishCollection, CollectFullAgain, CollectFullReturns, objectVars
    <3> QED BY <3>1
  <2> QED BY <1>1, <2>1, <2>2, <2>3, <2>4 DEF Next
<1> QED BY <1>1, InductiveInvariant, PTL DEF Spec, OnlyGarbageReclaimed

-----------------------------------------------------------------------------
(* The bytes of the heap. *)

\* The bytes of the objects in the first slots of n.
Totals(total, n, objects, sizes) ==
    /\ total \in [0 .. n -> Nat]
    /\ total[0] = 0
    /\ \A s \in 0 .. n - 1 :
        total[s + 1] = total[s] + (IF s \in objects THEN sizes[s] ELSE 0)
    /\ \A i, j \in 0 .. n : i <= j => total[i] <= total[j]

\* The totals are part of the invariant: that they can be added up for every heap is
\* what makes it inductive.
Accounted ==
    /\ liveBytes <= MaximumHeap
    /\ \E total \in [0 .. slotCount -> Nat] :
        Totals(total, slotCount, live, sizeBytes) /\ total[slotCount] = liveBytes

\* An object that is born in slot s is in every total past s.
LEMMA TotalsWith ==
  ASSUME NEW n \in 0 .. MaxSlots, NEW total, NEW objects, NEW sizes \in [Slots -> Nat],
         Totals(total, n, objects, sizes),
         NEW s \in 0 .. n - 1, s \notin objects, NEW size \in Nat
  PROVE  LET more == [i \in 0 .. n |-> IF i > s THEN total[i] + size ELSE total[i]]
         IN  /\ Totals(more, n, objects \cup {s}, [sizes EXCEPT ![s] = size])
             /\ more[n] = total[n] + size
<1> DEFINE more == [i \in 0 .. n |-> IF i > s THEN total[i] + size ELSE total[i]]
           after == [sizes EXCEPT ![s] = size]
<1>1. n \in Nat /\ s \in Slots /\ n - 1 < MaxSlots
  BY HeapAssumption DEF Slots
<1>2. total \in [0 .. n -> Nat] /\ total[0] = 0
  BY DEF Totals
<1>3. more \in [0 .. n -> Nat] /\ more[0] = 0 /\ more[n] = total[n] + size
  BY <1>1, <1>2
<1>4. ASSUME NEW i \in 0 .. n - 1
      PROVE  more[i + 1] = more[i] + (IF i \in objects \cup {s} THEN after[i] ELSE 0)
  <2>1. /\ i \in 0 .. n /\ i + 1 \in 0 .. n /\ i \in Slots
        /\ total[i + 1] = total[i] + (IF i \in objects THEN sizes[i] ELSE 0)
        /\ total[i] \in Nat /\ total[i + 1] \in Nat
    BY <1>1, <1>2, HeapAssumption DEF Totals, Slots
  <2>2. CASE i = s
    BY <1>1, <2>1, <2>2
  <2>3. CASE i # s
    <3>1. after[i] = sizes[i] /\ (i \in objects \cup {s} <=> i \in objects)
      BY <2>1, <2>3
    <3>2. i + 1 > s <=> i > s
      BY <1>1, <2>3
    <3> HIDE DEF after
    <3> QED BY <2>1, <3>1, <3>2
  <2> QED BY <2>2, <2>3
<1>5. ASSUME NEW i \in 0 .. n, NEW j \in 0 .. n, i <= j PROVE more[i] <= more[j]
  <2>1. total[i] <= total[j] /\ total[i] \in Nat /\ total[j] \in Nat
    BY <1>2, <1>5 DEF Totals
  <2> QED BY <1>1, <1>5, <2>1
<1> QED BY <1>3, <1>4, <1>5 DEF Totals

\* The totals without size bytes of slot s.
Less(total, n, s, size) == [i \in 0 .. n |-> IF i > s THEN total[i] - size ELSE total[i]]

\* An object that is reclaimed is in none.
LEMMA TotalsWithout ==
  ASSUME NEW n \in 0 .. MaxSlots, NEW total, NEW objects, NEW sizes \in [Slots -> Nat],
         Totals(total, n, objects, sizes), NEW s \in 0 .. n - 1, s \in objects
  PROVE  /\ Totals(Less(total, n, s, sizes[s]), n, objects \ {s}, [sizes EXCEPT ![s] = 0])
         /\ Less(total, n, s, sizes[s])[n] = total[n] - sizes[s]
<1> DEFINE fewer == [i \in 0 .. n |-> IF i > s THEN total[i] - sizes[s] ELSE total[i]]
           after == [sizes EXCEPT ![s] = 0]
<1>1. n \in Nat /\ s \in Slots /\ n - 1 < MaxSlots /\ sizes[s] \in Nat
  BY HeapAssumption DEF Slots
<1>2. total \in [0 .. n -> Nat] /\ total[0] = 0
  BY DEF Totals
<1>3. s \in 0 .. n /\ s + 1 \in 0 .. n /\ total[s + 1] = total[s] + sizes[s]
  BY <1>1 DEF Totals
<1>4. \A i \in 0 .. n : i > s => total[i] >= total[s] + sizes[s]
  <2> SUFFICES ASSUME NEW i \in 0 .. n, i > s PROVE total[i] >= total[s] + sizes[s]
    OBVIOUS
  <2>1. s + 1 <= i
    BY <1>1
  <2>2. total[s + 1] <= total[i]
    BY <1>3, <2>1 DEF Totals
  <2> QED BY <1>1, <1>2, <1>3, <2>2
<1>5. fewer \in [0 .. n -> Nat] /\ fewer[0] = 0 /\ fewer[n] = total[n] - sizes[s]
  <2>1. ASSUME NEW i \in 0 .. n PROVE fewer[i] \in Nat
    <3>1. total[i] \in Nat /\ total[s] \in Nat
      BY <1>2, <1>3
    <3> QED BY <1>1, <1>4, <3>1
  <2> QED BY <1>1, <1>2, <2>1
<1>6. ASSUME NEW i \in 0 .. n - 1
      PROVE  fewer[i + 1] = fewer[i] + (IF i \in objects \ {s} THEN after[i] ELSE 0)
  <2>1. /\ i \in 0 .. n /\ i + 1 \in 0 .. n /\ i \in Slots
        /\ total[i + 1] = total[i] + (IF i \in objects THEN sizes[i] ELSE 0)
        /\ total[i] \in Nat /\ total[i + 1] \in Nat
    BY <1>1, <1>2, HeapAssumption DEF Totals, Slots
  <2>2. CASE i = s
    BY <1>1, <2>1, <2>2
  <2>3. CASE i # s
    <3>1. after[i] = sizes[i] /\ (i \in objects \ {s} <=> i \in objects) /\ sizes[i] \in Nat
      BY <2>1, <2>3
    <3>2. i + 1 > s <=> i > s
      BY <1>1, <2>3
    <3> HIDE DEF after
    <3> QED BY <1>1, <2>1, <3>1, <3>2
  <2> QED BY <2>2, <2>3
<1>7. ASSUME NEW i \in 0 .. n, NEW j \in 0 .. n, i <= j PROVE fewer[i] <= fewer[j]
  <2>1. /\ total[i] <= total[j] /\ total[i] \in Nat /\ total[j] \in Nat
        /\ i <= s => total[i] <= total[s]
        /\ total[s] \in Nat
    BY <1>2, <1>3, <1>7 DEF Totals
  <2>2. j > s => total[j] >= total[s] + sizes[s]
    BY <1>4
  <2> QED BY <1>1, <1>7, <2>1, <2>2
<1>8. fewer = Less(total, n, s, sizes[s])
  BY DEF Less
<1>9. Totals(fewer, n, objects \ {s}, after)
  BY <1>5, <1>6, <1>7 DEF Totals
<1> QED BY <1>5, <1>8, <1>9

\* A new slot is empty.
LEMMA TotalsExtended ==
  ASSUME NEW n \in 0 .. MaxSlots - 1, NEW total, NEW objects, NEW sizes,
         Totals(total, n, objects, sizes), n \notin objects
  PROVE  LET longer == [i \in 0 .. n + 1 |-> IF i <= n THEN total[i] ELSE total[n]]
         IN  Totals(longer, n + 1, objects, sizes) /\ longer[n + 1] = total[n]
<1> DEFINE longer == [i \in 0 .. n + 1 |-> IF i <= n THEN total[i] ELSE total[n]]
<1>1. n \in Nat /\ total \in [0 .. n -> Nat] /\ total[0] = 0
  BY HeapAssumption DEF Totals
<1>2. longer \in [0 .. n + 1 -> Nat] /\ longer[0] = 0 /\ longer[n + 1] = total[n]
  BY <1>1
<1>3. ASSUME NEW i \in 0 .. (n + 1) - 1
      PROVE  longer[i + 1] = longer[i] + (IF i \in objects THEN sizes[i] ELSE 0)
  <2>1. CASE i = n
    BY <1>1, <2>1
  <2>2. CASE i # n
    <3>1. i \in 0 .. n - 1 /\ i \in 0 .. n + 1 /\ i + 1 \in 0 .. n + 1 /\ i + 1 <= n /\ i <= n
      BY <1>1, <2>2
    <3>2. total[i + 1] = total[i] + (IF i \in objects THEN sizes[i] ELSE 0)
      BY <3>1 DEF Totals
    <3> QED BY <3>1, <3>2
  <2> QED BY <2>1, <2>2
<1>4. ASSUME NEW i \in 0 .. n + 1, NEW j \in 0 .. n + 1, i <= j PROVE longer[i] <= longer[j]
  <2>1. \A x, y \in 0 .. n : x <= y => total[x] <= total[y]
    BY DEF Totals
  <2> QED BY <1>1, <1>4, <2>1
<1> QED BY <1>2, <1>3, <1>4 DEF Totals

\* Objects are born within the limit and with their bytes.
LEMMA BornAccounted ==
  ASSUME TypeOK, NEW n \in 0 .. MaxSlots, slotCount' = n,
         NEW total, Totals(total, n, live, sizeBytes), total[n] = liveBytes,
         NEW s \in 0 .. n - 1, s \notin live, NEW size \in Sizes,
         liveBytes + size <= MaximumHeap,
         NEW payload, NEW d, Born(s, size, payload, d)
  PROVE  Accounted'
<1>1. sizeBytes \in [Slots -> Nat] /\ size \in Nat
  BY HeapAssumption DEF TypeOK
<1>2. /\ live' = live \cup {s} /\ sizeBytes' = [sizeBytes EXCEPT ![s] = size]
      /\ liveBytes' = liveBytes + size
  BY DEF Born
<1> DEFINE more == [i \in 0 .. n |-> IF i > s THEN total[i] + size ELSE total[i]]
<1>3. Totals(more, n, live \cup {s}, [sizeBytes EXCEPT ![s] = size])
      /\ more[n] = total[n] + size
  BY <1>1, TotalsWith
<1> HIDE DEF more
<1>4. more \in [0 .. n -> Nat]
  BY <1>3 DEF Totals
<1> QED BY <1>2, <1>3, <1>4 DEF Accounted

LEMMA AllocateAccounted ==
  ASSUME IInv, Accounted, NEW d \in Registers, Allocate(d) PROVE Accounted'
<1>1. TypeOK /\ FreeListExact
  BY DEF IInv
<1>2. PICK size \in Sizes, payload \in InitialPayloads :
        /\ liveBytes + size <= MaximumHeap
        /\ AllocateReused(d, size, payload) \/ AllocateNew(d, size, payload)
  BY DEF Allocate
<1>3. PICK total \in [0 .. slotCount -> Nat] :
        Totals(total, slotCount, live, sizeBytes) /\ total[slotCount] = liveBytes
  BY DEF Accounted
<1>4. slotCount \in 0 .. MaxSlots /\ live \subseteq 0 .. slotCount - 1
  BY <1>1 DEF TypeOK
<1>5. CASE AllocateReused(d, size, payload)
  <2> DEFINE s == freeSlots[Len(freeSlots)]
  <2>1. Born(s, size, payload, d) /\ slotCount' = slotCount
    BY <1>5 DEF AllocateReused
  <2>2. s \in (0 .. slotCount - 1) \ live
    BY <1>1, <1>5, ReusedSlot DEF AllocateReused, Born
  <2> HIDE DEF s
  <2> QED BY <1>1, <1>2, <1>3, <1>4, <2>1, <2>2, BornAccounted
<1>6. CASE AllocateNew(d, size, payload)
  <2> DEFINE n == slotCount + 1
             longer == [i \in 0 .. n |-> IF i <= slotCount THEN total[i] ELSE total[slotCount]]
  <2>1. /\ Born(slotCount, size, payload, d) /\ slotCount' = n /\ slotCount < MaxSlots
    BY <1>6 DEF AllocateNew
  <2>2. /\ slotCount \in 0 .. MaxSlots - 1 /\ slotCount \notin live
        /\ n \in 0 .. MaxSlots /\ slotCount \in 0 .. n - 1
    BY <1>4, <2>1, HeapAssumption
  <2>3. Totals(longer, n, live, sizeBytes) /\ longer[n] = total[slotCount]
    BY <1>3, <2>2, TotalsExtended
  <2> HIDE DEF longer, n
  <2> QED BY <1>1, <1>2, <1>3, <2>1, <2>2, <2>3, BornAccounted
<1> QED BY <1>2, <1>5, <1>6

LEMMA SweepAccounted == ASSUME IInv, Accounted, SweepOne PROVE Accounted'
<1> DEFINE s == sweepIndex
<1>1. TypeOK
  BY DEF IInv
<1>2. CASE ~(s \in live /\ s \notin marked)
  <2>1. UNCHANGED <<slotCount, live, sizeBytes, liveBytes>>
    BY <1>2 DEF SweepOne, Reclaim, objectVars
  <2> QED BY <2>1 DEF Accounted, Totals
<1>3. CASE s \in live /\ s \notin marked
  <2>1. /\ live' = live \ {s} /\ sizeBytes' = [sizeBytes EXCEPT ![s] = 0]
        /\ liveBytes' = liveBytes - sizeBytes[s] /\ slotCount' = slotCount
    BY <1>3 DEF SweepOne, Reclaim
  <2>2. PICK total \in [0 .. slotCount -> Nat] :
          Totals(total, slotCount, live, sizeBytes) /\ total[slotCount] = liveBytes
    BY DEF Accounted
  <2>3. slotCount \in 0 .. MaxSlots /\ s \in 0 .. slotCount - 1 /\ s \in Slots
    BY <1>1, <1>3, LiveSlots DEF TypeOK
  <2>4. sizeBytes \in [Slots -> Nat] /\ sizeBytes[s] \in Nat
    BY <1>1, <2>3 DEF TypeOK
  <2> DEFINE fewer == Less(total, slotCount, s, sizeBytes[s])
  <2>5. Totals(fewer, slotCount, live \ {s}, [sizeBytes EXCEPT ![s] = 0])
        /\ fewer[slotCount] = total[slotCount] - sizeBytes[s]
    BY <1>3, <2>2, <2>3, <2>4, TotalsWithout, ZenonT(40)
  <2>6. liveBytes' <= MaximumHeap
    BY <1>1, <2>1, <2>4, HeapAssumption DEF Accounted, TypeOK
  <2> HIDE DEF fewer
  <2>7. fewer \in [0 .. slotCount -> Nat]
    BY <2>5 DEF Totals
  <2> QED BY <2>1, <2>2, <2>5, <2>6, <2>7 DEF Accounted
<1> QED BY <1>2, <1>3

LEMMA NextAccounted == ASSUME IInv, Accounted, [Next]_vars PROVE Accounted'
<1>1. CASE \E d \in Registers : Allocate(d)
  BY <1>1, AllocateAccounted
<1>2. CASE SweepOne
  BY <1>2, SweepAccounted
<1>3. CASE UNCHANGED <<slotCount, live, sizeBytes, liveBytes>>
  BY <1>3 DEF Accounted, Totals
<1>4. ASSUME Mutator, ~\E d \in Registers : Allocate(d)
      PROVE  UNCHANGED <<slotCount, live, sizeBytes, liveBytes>>
  BY <1>4 DEF Mutator, SetRegister, PassUnrooted, AddPersistentRoot, Load, Store,
     RemovePersistentRoot, UpdatePersistentRoot, AllocateFails, RequestCollection,
     CollectFull, objectVars
<1>5. ASSUME Collector, ~SweepOne
      PROVE  UNCHANGED <<slotCount, live, sizeBytes, liveBytes>>
  BY <1>5 DEF Collector, StartCollection, ContinueCollection, BackToMark, MarkOne,
     StartSweep, FinishCollection, CollectFullAgain, CollectFullReturns, objectVars
<1>6. CASE UNCHANGED vars
  BY <1>6, <1>3 DEF vars, objectVars
<1> QED BY <1>1, <1>2, <1>3, <1>4, <1>5, <1>6 DEF Next

\* liveBytes is the sum of the sizes of the live objects and stays within the limit,
\* whatever is allocated, refused and reclaimed in which order.
THEOREM BytesAreAccounted == Spec => []BytesAccounted
<1>1. Init => IInv /\ Accounted
  <2> SUFFICES ASSUME Init PROVE Accounted
    BY InitIInv
  <2> DEFINE zero == [i \in 0 .. 0 |-> 0]
  <2>1. Totals(zero, 0, {}, sizeBytes)
    BY DEF Totals
  <2>2. zero \in [0 .. 0 -> Nat] /\ zero[0] = 0
    OBVIOUS
  <2> HIDE DEF zero
  <2> QED BY <2>1, <2>2, HeapAssumption DEF Init, Accounted
<1>2. IInv /\ Accounted /\ [Next]_vars => (IInv /\ Accounted)'
  BY NextIInv, NextAccounted
<1>3. IInv /\ Accounted => BytesAccounted
  <2> SUFFICES ASSUME IInv, Accounted PROVE BytesAccounted
    OBVIOUS
  <2>1. PICK total \in [0 .. slotCount -> Nat] :
          Totals(total, slotCount, live, sizeBytes) /\ total[slotCount] = liveBytes
    BY DEF Accounted
  <2>2. slotCount \in Nat /\ liveBytes <= MaximumHeap /\ liveBytes \in Int
    BY HeapAssumption DEF Accounted, IInv, TypeOK
  <2>3. ASSUME NEW i \in 0 .. slotCount PROVE total[i] \in 0 .. MaximumHeap
    <3>1. total[i] <= total[slotCount] /\ total[i] \in Nat
      BY <2>1, <2>2 DEF Totals
    <3> QED BY <2>1, <2>2, <3>1, HeapAssumption
  <2>4. total \in [0 .. slotCount -> 0 .. MaximumHeap]
    BY <2>1, <2>3
  <2> QED BY <2>1, <2>4 DEF BytesAccounted, Totals
<1> QED BY <1>1, <1>2, <1>3, PTL DEF Spec

-----------------------------------------------------------------------------
(* Referential integrity, when hosts pass only references they hold rooted.  *)

\* The sweep of this collection has begun, even if marking was resumed.
Sweeping == phase = "Sweep" \/ resumeSweep

\* Before the sweep nothing dangles anywhere.
WholeHeapIntact ==
    ~Sweeping => \A s \in live, f \in Fields : \A c \in fields[s][f] : Resolves(c)

\* Once the sweep has begun the marked objects are closed and hold every root.
MarkedIntact ==
    Sweeping =>
        /\ \A s \in marked, f \in Fields :
                \A c \in fields[s][f] : Resolves(c) /\ c.slot \in marked
        /\ \A r \in RootRefs : r.slot \in marked

\* Only the slots the sweep has not come to yet can hold unmarked objects.
SweepProgress ==
    /\ phase = "Idle" => ~resumeSweep
    /\ phase # "Idle" => \A s \in live : s >= sweepLimit => s \in marked
    /\ Sweeping => \A s \in live : s < sweepIndex => s \in marked

Integrity ==
    /\ RootsResolve
    /\ WholeHeapIntact
    /\ MarkedIntact
    /\ SweepProgress

LEMMA InitIntegrity == Init => Integrity
<1> SUFFICES ASSUME Init PROVE Integrity
  OBVIOUS
<1>1. RootRefs = {}
  BY DEF Init, RootRefs
<1> QED BY <1>1 DEF Init, Integrity, RootsResolve, WholeHeapIntact, MarkedIntact,
       SweepProgress, Sweeping

\* The objects a mutator can name are intact: their slots are live, their fields
\* resolve and, once the sweep has begun, both are marked.
LEMMA NamedObjects ==
  ASSUME IInv, Integrity, NEW r \in RootRefs, NEW f \in Fields
  PROVE  /\ Resolves(r) /\ r.slot \in live
         /\ Sweeping => r.slot \in marked
         /\ \A c \in fields[r.slot][f] :
               Resolves(c) /\ (Sweeping => c.slot \in marked)
BY DEF Integrity, RootsResolve, WholeHeapIntact, MarkedIntact, Resolves

LEMMA RootRefsOf ==
  /\ \A r \in Registers : registers[r] \subseteq RootRefs
  /\ \A p \in persistentRoots : p.value \subseteq RootRefs
BY DEF RootRefs

LEMMA RegisterRefs ==
  ASSUME TypeOK, registers' \in [Registers -> Value], persistentRoots' = persistentRoots,
         NEW d \in Registers, NEW v,
         registers' = [registers EXCEPT ![d] = v]
  PROVE  RootRefs' \subseteq RootRefs \cup v
<1> SUFFICES ASSUME NEW x \in RootRefs', x \notin v PROVE x \in RootRefs
  OBVIOUS
<1>1. \A r \in Registers : registers'[r] = IF r = d THEN v ELSE registers[r]
  BY DEF TypeOK
<1>2. CASE x \in UNION {registers'[r] : r \in Registers}
  <2>1. PICK S \in {registers'[r] : r \in Registers} : x \in S
    BY <1>2
  <2>2. PICK r \in Registers : S = registers'[r]
    BY <2>1
  <2>3. x \in registers[r]
    BY <1>1, <2>1, <2>2
  <2> QED BY <2>3, RootRefsOf
<1>3. CASE x \in UNION {p.value : p \in persistentRoots}
  BY <1>3 DEF RootRefs
<1> QED BY <1>2, <1>3 DEF RootRefs

\* Steps that leave objects, colours and the sweep alone, and whose new roots
\* refer to intact objects.
LEMMA RootsMove ==
  ASSUME IInv, Integrity,
         UNCHANGED <<objectVars, colorVars, sweepVars, phase>>,
         \A x \in RootRefs' : Resolves(x) /\ (Sweeping => x.slot \in marked)
  PROVE  Integrity'
<1> USE DEF objectVars, colorVars, sweepVars
<1>1. (\A r : Resolves(r)' = Resolves(r)) /\ Sweeping' = Sweeping
  BY DEF Resolves, Sweeping
<1>2. RootsResolve' /\ WholeHeapIntact' /\ MarkedIntact'
  BY <1>1 DEF Integrity, RootsResolve, WholeHeapIntact, MarkedIntact
<1>3. SweepProgress'
  BY <1>1 DEF Integrity, SweepProgress
<1> QED BY <1>2, <1>3 DEF Integrity

LEMMA RootsIntact ==
  ASSUME Integrity, NEW x \in RootRefs
  PROVE  Resolves(x) /\ (Sweeping => x.slot \in marked)
BY DEF Integrity, RootsResolve, MarkedIntact

LEMMA RegisterMoves ==
  ASSUME IInv, Integrity, ~WeakHandles, TypeOK',
         \/ \E d \in Registers : SetRegister(d) \/ PassUnrooted(d)
         \/ \E d, o \in Registers, f \in Fields : Load(d, o, f)
  PROVE  Integrity'
<1>0. TypeOK /\ registers' \in [Registers -> Value]
  BY DEF IInv, TypeOK
<1>1. ASSUME NEW d \in Registers, SetRegister(d) PROVE Integrity'
  <2>1. PICK v \in SUBSET UNION {registers[r] : r \in Registers} :
          registers' = [registers EXCEPT ![d] = v]
    BY <1>1 DEF SetRegister
  <2>2. v \subseteq RootRefs
    BY DEF RootRefs
  <2>3. RootRefs' \subseteq RootRefs
    BY <1>0, <1>1, <2>1, <2>2, RegisterRefs DEF SetRegister
  <2> QED BY <1>1, <2>3, RootsIntact, RootsMove DEF SetRegister
<1>2. ASSUME NEW d \in Registers, PassUnrooted(d) PROVE Integrity'
  BY <1>2 DEF PassUnrooted
<1>3. ASSUME NEW d \in Registers, NEW o \in Registers, NEW f \in Fields, Load(d, o, f)
      PROVE  Integrity'
  <2>1. PICK r \in registers[o] :
          registers' = [registers EXCEPT ![d] = fields[r.slot][f]]
    BY <1>3 DEF Load
  <2>2. r \in RootRefs
    BY RootRefsOf
  <2>3. \A c \in fields[r.slot][f] : Resolves(c) /\ (Sweeping => c.slot \in marked)
    BY <2>2, NamedObjects
  <2>4. RootRefs' \subseteq RootRefs \cup fields[r.slot][f]
    BY <1>0, <1>3, <2>1, RegisterRefs DEF Load
  <2> QED BY <1>3, <2>3, <2>4, RootsIntact, RootsMove DEF Load
<1> QED BY <1>1, <1>2, <1>3

LEMMA OtherMovesIntegrity ==
  ASSUME IInv, Integrity, TypeOK',
         \/ AllocateFails
         \/ RequestCollection
         \/ CollectFull
         \/ CollectFullAgain
         \/ CollectFullReturns
         \/ \E o \in Registers : AddPersistentRoot(o)
         \/ \E p \in persistentRoots : RemovePersistentRoot(p)
         \/ \E p \in persistentRoots, o \in Registers : UpdatePersistentRoot(p, o)
  PROVE  Integrity'
<1> USE DEF objectVars, colorVars, rootVars, sweepVars
<1>1. CASE AllocateFails \/ RequestCollection \/ CollectFull \/ CollectFullAgain
             \/ CollectFullReturns
  <2>1. UNCHANGED <<objectVars, colorVars, sweepVars, phase, registers, persistentRoots>>
    BY <1>1 DEF AllocateFails, RequestCollection, CollectFull, CollectFullAgain,
       CollectFullReturns
  <2>2. RootRefs' = RootRefs
    BY <2>1 DEF RootRefs
  <2> QED BY <2>1, <2>2, RootsIntact, RootsMove
<1>2. ASSUME NEW S \in SUBSET [token : Token, value : Value],
             \A p \in S : p.value \subseteq RootRefs,
             persistentRoots' = S, registers' = registers,
             UNCHANGED <<objectVars, colorVars, sweepVars, phase>>
      PROVE  Integrity'
  <2>1. ASSUME NEW x \in RootRefs' PROVE x \in RootRefs
    <3>1. CASE x \in UNION {p.value : p \in S}
      <4>1. PICK V \in {p.value : p \in S} : x \in V
        BY <3>1
      <4>2. PICK p \in S : V = p.value
        BY <4>1
      <4> QED BY <1>2, <4>1, <4>2
    <3>2. CASE x \in UNION {registers[r] : r \in Registers}
      BY <3>2 DEF RootRefs
    <3> QED BY <1>2, <2>1, <3>1, <3>2 DEF RootRefs
  <2> QED BY <1>2, <2>1, RootsIntact, RootsMove
<1>3. ASSUME NEW o \in Registers, AddPersistentRoot(o) PROVE Integrity'
  <2>1. \A p \in persistentRoots' : p.value \subseteq RootRefs
    BY <1>3, RootRefsOf DEF AddPersistentRoot
  <2> QED BY <1>2, <1>3, <2>1 DEF AddPersistentRoot, TypeOK
<1>4. ASSUME NEW p \in persistentRoots, RemovePersistentRoot(p) PROVE Integrity'
  <2>1. \A q \in persistentRoots' : q.value \subseteq RootRefs
    BY <1>4, RootRefsOf DEF RemovePersistentRoot
  <2> QED BY <1>2, <1>4, <2>1 DEF RemovePersistentRoot, TypeOK
<1>5. ASSUME NEW p \in persistentRoots, NEW o \in Registers, UpdatePersistentRoot(p, o)
      PROVE  Integrity'
  <2>1. \A q \in persistentRoots' : q.value \subseteq RootRefs
    BY <1>5, RootRefsOf DEF UpdatePersistentRoot
  <2> QED BY <1>2, <1>5, <2>1 DEF UpdatePersistentRoot, TypeOK
<1> QED BY <1>1, <1>3, <1>4, <1>5

LEMMA BornIntegrity ==
  ASSUME IInv, Integrity, IInv',
         NEW s \in Slots \ live, NEW size \in Sizes,
         NEW payload \in InitialPayloads, NEW d \in Registers,
         Born(s, size, payload, d),
         slotCount' = slotCount \/ s = slotCount
  PROVE  Integrity'
<1> DEFINE ref == [slot |-> s, gen |-> generation[s]]
<1>0. TypeOK /\ TypeOK'
  BY DEF IInv
<1>1. \A r : Resolves(r) => Resolves(r)' /\ r.slot # s
  BY DEF Resolves, Born
<1>2. Resolves(ref)' /\ (phase # "Idle" => s \in marked')
  BY DEF Resolves, Born
<1>3. Sweeping' = Sweeping /\ (Sweeping => phase # "Idle")
  BY DEF Sweeping, Born, Integrity, SweepProgress
<1>4. ASSUME NEW f \in Fields, NEW c \in payload[f]
      PROVE  Resolves(c)' /\ (Sweeping => c.slot \in marked')
  <2>1. PICK r \in Registers : c \in registers[r]
    BY <1>4 DEF InitialPayloads
  <2>2. c \in RootRefs
    BY <2>1, RootRefsOf
  <2> QED BY <1>1, <1>3, <2>2, RootsIntact DEF Born
<1>5. \A t \in Slots : fields'[t] = IF t = s THEN payload ELSE fields[t]
  BY <1>0 DEF Born, TypeOK
<1>6. \A x \in RootRefs' : x \in RootRefs \/ x = ref
  <2>1. RootRefs' \subseteq RootRefs \cup {ref}
    BY <1>0, RegisterRefs DEF Born, TypeOK
  <2> QED BY <2>1
<1>7. RootsResolve'
  <2>1. ref' = ref
    BY DEF Born
  <2> QED BY <1>1, <1>2, <1>6, <2>1, RootsIntact DEF RootsResolve
<1>8. WholeHeapIntact'
  <2> SUFFICES ASSUME ~Sweeping, NEW t \in live', NEW f \in Fields, NEW c \in fields'[t][f]
               PROVE  Resolves(c)'
    BY <1>3 DEF WholeHeapIntact
  <2>1. CASE t = s
    BY <1>4, <1>5, <2>1
  <2>2. CASE t # s
    <3>1. t \in live /\ t \in Slots
      BY <1>0, <2>2, LiveSlots DEF Born
    <3> QED BY <1>1, <1>5, <2>2, <3>1 DEF Integrity, WholeHeapIntact
  <2> QED BY <2>1, <2>2
<1>9. MarkedIntact'
  <2> SUFFICES ASSUME Sweeping
               PROVE  /\ \A t \in marked', f \in Fields :
                           \A c \in fields'[t][f] : Resolves(c)' /\ c.slot \in marked'
                      /\ \A r \in RootRefs' : r.slot \in marked'
    BY <1>3 DEF MarkedIntact
  <2>1. marked' = marked \cup {s}
    BY <1>3 DEF Born
  <2>2. \A r \in RootRefs' : r.slot \in marked'
    BY <1>6, <2>1, RootsIntact
  <2>3. ASSUME NEW t \in marked', NEW f \in Fields, NEW c \in fields'[t][f]
        PROVE  Resolves(c)' /\ c.slot \in marked'
    <3>1. CASE t = s
      BY <1>4, <1>5, <2>3, <3>1
    <3>2. CASE t # s
      <4>1. t \in marked /\ t \in Slots
        BY <1>0, <2>1, <3>2, LiveSlots
      <4> QED BY <1>1, <1>5, <2>1, <2>3, <3>2, <4>1 DEF Integrity, MarkedIntact
    <3> QED BY <3>1, <3>2
  <2> QED BY <2>2, <2>3
<1>10. SweepProgress'
  BY <1>3 DEF Integrity, SweepProgress, Born
<1> QED BY <1>7, <1>8, <1>9, <1>10 DEF Integrity

LEMMA AllocateIntegrity ==
  ASSUME IInv, IInv', Integrity, NEW d \in Registers, Allocate(d)
  PROVE  Integrity'
<1>1. PICK size \in Sizes, payload \in InitialPayloads :
        AllocateReused(d, size, payload) \/ AllocateNew(d, size, payload)
  BY DEF Allocate
<1>2. TypeOK /\ FreeListExact
  BY DEF IInv
<1>3. CASE AllocateReused(d, size, payload)
  <2> DEFINE s == freeSlots[Len(freeSlots)]
  <2>1. Born(s, size, payload, d) /\ slotCount' = slotCount
    BY <1>3 DEF AllocateReused
  <2>2. s \notin live
    BY <1>2, <1>3, ReusedSlot DEF AllocateReused, Born
  <2>3. s \in Slots
    BY <1>2, <1>3 DEF AllocateReused, TypeOK
  <2> QED BY <2>1, <2>2, <2>3, BornIntegrity
<1>4. CASE AllocateNew(d, size, payload)
  <2>1. Born(slotCount, size, payload, d)
    BY <1>4 DEF AllocateNew
  <2>2. slotCount \in Slots \ live
    BY <1>2, <1>4, NewSlot DEF AllocateNew, Born
  <2> QED BY <2>1, <2>2, BornIntegrity
<1> QED BY <1>1, <1>3, <1>4

LEMMA StoreIntegrity ==
  ASSUME IInv, Integrity, NEW o \in Registers, NEW f \in Fields, Store(o, f)
  PROVE  Integrity'
<1> USE DEF rootVars, paceVars
<1>0. TypeOK
  BY DEF IInv
<1>1. PICK r \in registers[o], v \in {{}} \cup {registers[x] : x \in Registers} :
        /\ Resolves(r)
        /\ WriteBarrier(r.slot, v)
        /\ fields' = [fields EXCEPT ![r.slot][f] = v]
  BY DEF Store
<1>2. /\ (\A x : Resolves(x)' = Resolves(x))
      /\ RootRefs' = RootRefs
      /\ UNCHANGED <<live, sweepIndex, sweepLimit>>
  BY DEF Store, Resolves, RootRefs
<1>3. /\ v \subseteq RootRefs
      /\ \A c \in v : Resolves(c) /\ (Sweeping => c.slot \in marked)
  BY <1>1, RootRefsOf, RootsIntact
<1>4. /\ marked \subseteq marked'
      /\ Sweeping => marked' = marked
      /\ Sweeping' = Sweeping
      /\ (phase' = "Idle") <=> (phase = "Idle")
      /\ phase = "Idle" => resumeSweep' = resumeSweep
  <2>1. CASE phase = "Idle" \/ r.slot \notin marked
    BY <1>1, <2>1 DEF WriteBarrier, colorVars, Sweeping
  <2>2. CASE ~(phase = "Idle" \/ r.slot \notin marked)
    <3> DEFINE back == phase = "Sweep" /\ (markStack # {} \/ White(v) # {})
    <3>1. /\ MarkRefs(v)
          /\ phase' = IF back THEN "Mark" ELSE phase
          /\ resumeSweep' = (resumeSweep \/ back)
      BY <1>1, <2>2 DEF WriteBarrier
    <3>2. Sweeping => SlotsOf(White(v)) = {}
      BY <1>3 DEF White, SlotsOf
    <3> QED BY <2>2, <3>1, <3>2 DEF MarkRefs, Sweeping
  <2> QED BY <2>1, <2>2
<1>5. \A t \in Slots, g \in Fields :
        fields'[t][g] = IF t = r.slot /\ g = f THEN v ELSE fields[t][g]
  <2>1. r.slot \in Slots
    BY <1>0, <1>1, LiveSlots DEF Resolves
  <2> QED BY <1>0, <1>1, <2>1 DEF TypeOK
<1>6. RootsResolve'
  BY <1>2 DEF Integrity, RootsResolve
<1>7. WholeHeapIntact'
  <2> SUFFICES ASSUME ~Sweeping, NEW t \in live, NEW g \in Fields, NEW c \in fields'[t][g]
               PROVE  Resolves(c)
    BY <1>2, <1>4 DEF WholeHeapIntact
  <2>1. t \in Slots
    BY <1>0, LiveSlots
  <2> QED BY <1>3, <1>5, <2>1 DEF Integrity, WholeHeapIntact
<1>8. MarkedIntact'
  <2> SUFFICES ASSUME Sweeping
               PROVE  /\ \A t \in marked, g \in Fields :
                           \A c \in fields'[t][g] : Resolves(c) /\ c.slot \in marked
                      /\ \A x \in RootRefs : x.slot \in marked
    BY <1>2, <1>4 DEF MarkedIntact
  <2>1. ASSUME NEW t \in marked, NEW g \in Fields, NEW c \in fields'[t][g]
        PROVE  Resolves(c) /\ c.slot \in marked
    <3>1. t \in Slots
      BY <1>0, LiveSlots
    <3> QED BY <1>3, <1>5, <2>1, <3>1 DEF Integrity, MarkedIntact
  <2> QED BY <2>1 DEF Integrity, MarkedIntact
<1>9. SweepProgress'
  BY <1>2, <1>4 DEF Integrity, SweepProgress
<1> QED BY <1>6, <1>7, <1>8, <1>9 DEF Integrity

\* Colouring steps: nothing is reclaimed, and marking only ever adds.
LEMMA ColouringIntegrity ==
  ASSUME IInv, Integrity, StartCollection \/ ContinueCollection \/ MarkOne \/ BackToMark
  PROVE  Integrity'
<1> USE DEF objectVars, rootVars, sweepVars, colorVars
<1>0. TypeOK
  BY DEF IInv
<1>1. (\A r : Resolves(r)' = Resolves(r)) /\ RootRefs' = RootRefs /\ UNCHANGED <<live, fields>>
  BY DEF StartCollection, ContinueCollection, MarkOne, BackToMark, Resolves, RootRefs
<1>2. RootsResolve'
  BY <1>1 DEF Integrity, RootsResolve
<1>3. CASE StartCollection
  <2>1. ~Sweeping /\ ~Sweeping'
    BY <1>3 DEF StartCollection, Sweeping, Integrity, SweepProgress
  <2>2. WholeHeapIntact' /\ MarkedIntact'
    BY <1>1, <2>1 DEF Integrity, WholeHeapIntact, MarkedIntact
  <2>3. SweepProgress'
    BY <1>0, <1>3, <2>1 DEF SweepProgress, StartCollection, TypeOK
  <2> QED BY <1>2, <2>2, <2>3 DEF Integrity
<1>4. CASE ContinueCollection \/ MarkOne \/ BackToMark
  <2>1. /\ marked \subseteq marked'
        /\ Sweeping' = Sweeping
        /\ UNCHANGED <<sweepIndex, sweepLimit>>
        /\ phase # "Idle" /\ phase' # "Idle"
    BY <1>4 DEF ContinueCollection, MarkOne, BackToMark, MarkRefs, Sweeping
  <2>2. Sweeping => marked' = marked
    <3>1. CASE ContinueCollection
      <4>1. Sweeping => SlotsOf(White(RootRefs)) = {}
        BY RootsIntact DEF White, SlotsOf
      <4> QED BY <3>1, <4>1 DEF ContinueCollection, MarkRefs
    <3>2. CASE MarkOne
      <4>1. PICK top \in markStack :
              LET found == IF Resolves(top) THEN White(Children(top.slot)) ELSE {} IN
              marked' = marked \cup SlotsOf(found)
        BY <3>2 DEF MarkOne
      <4>2. top.slot \in marked
        BY DEF IInv, GreyMarked
      <4>3. Sweeping => SlotsOf(White(Children(top.slot))) = {}
        BY <4>2 DEF Integrity, MarkedIntact, White, SlotsOf, Children
      <4> QED BY <4>1, <4>3 DEF SlotsOf
    <3>3. CASE BackToMark
      BY <3>3 DEF BackToMark
    <3> QED BY <1>4, <3>1, <3>2, <3>3
  <2>3. WholeHeapIntact' /\ MarkedIntact'
    BY <1>1, <2>1, <2>2 DEF Integrity, WholeHeapIntact, MarkedIntact
  <2>4. SweepProgress'
    BY <1>1, <2>1 DEF Integrity, SweepProgress
  <2> QED BY <1>2, <2>3, <2>4 DEF Integrity
<1> QED BY <1>3, <1>4

\* The sweep begins when every root is marked and no grey object is left.
LEMMA StartSweepIntegrity == ASSUME IInv, Integrity, StartSweep PROVE Integrity'
<1> USE DEF objectVars, rootVars, colorVars
<1>1. /\ (\A r : Resolves(r)' = Resolves(r)) /\ RootRefs' = RootRefs
      /\ UNCHANGED <<live, fields, marked, sweepLimit>>
      /\ Sweeping' /\ phase # "Idle"
  BY DEF StartSweep, Resolves, RootRefs, Sweeping
<1>2. RootsResolve' /\ WholeHeapIntact'
  BY <1>1 DEF Integrity, RootsResolve, WholeHeapIntact
<1>3. MarkedIntact'
  <2>1. \A r \in RootRefs : r.slot \in marked
    BY DEF IInv, RootsMarkedInStep, StartSweep, Integrity, RootsResolve
  <2>2. ASSUME NEW s \in marked, NEW f \in Fields, NEW c \in fields[s][f]
        PROVE  Resolves(c) /\ c.slot \in marked
    <3>1. CASE Sweeping
      BY <3>1 DEF Integrity, MarkedIntact
    <3>2. CASE ~Sweeping
      <4>1. Resolves(c)
        BY <3>2 DEF IInv, TypeOK, Integrity, WholeHeapIntact
      <4>2. s \notin SlotsOf(markStack)
        BY DEF StartSweep, SlotsOf
      <4> QED BY <1>1, <4>1, <4>2, BlackChildren DEF IInv
    <3> QED BY <3>1, <3>2
  <2> QED BY <1>1, <2>1, <2>2 DEF MarkedIntact
<1>4. SweepProgress'
  <2>1. \A s \in live : s >= sweepLimit => s \in marked
    BY <1>1 DEF Integrity, SweepProgress
  <2>2. \A s \in live : s < sweepIndex' => s \in marked
    <3>1. CASE resumeSweep
      BY <3>1 DEF StartSweep, Integrity, SweepProgress, Sweeping
    <3>2. CASE ~resumeSweep
      <4>1. sweepIndex' = 0
        BY <3>2 DEF StartSweep
      <4>2. \A s \in live : s \in Nat
        BY DEF IInv, TypeOK
      <4> QED BY <4>1, <4>2
    <3> QED BY <3>1, <3>2, Zenon DEF IInv, TypeOK
  <2>3. phase' # "Idle"
    BY DEF StartSweep
  <2> QED BY <1>1, <2>1, <2>2, <2>3 DEF SweepProgress
<1> QED BY <1>2, <1>3, <1>4 DEF Integrity

\* Sweeping one slot can only cut references nobody intact holds.
LEMMA SweepOneIntegrity == ASSUME IInv, Integrity, SweepOne PROVE Integrity'
<1> USE DEF objectVars, rootVars, colorVars
<1> DEFINE s == sweepIndex
<1>0. TypeOK /\ Sweeping /\ Sweeping' /\ phase # "Idle" /\ phase' # "Idle"
  BY DEF IInv, SweepOne, Sweeping
<1>1. /\ RootRefs' = RootRefs
      /\ UNCHANGED <<marked, sweepLimit>>
      /\ sweepIndex' = sweepIndex + 1
      /\ live' \subseteq live
      /\ s \notin live' \/ s \in marked
  BY DEF SweepOne, Reclaim, RootRefs
<1>2. ASSUME NEW r, Resolves(r), r.slot \in marked
      PROVE  Resolves(r)'
  <2>1. r.slot \in live /\ generation[r.slot] = r.gen /\ r.slot \in Slots
    BY <1>0, <1>2, LiveSlots DEF Resolves
  <2>2. generation'[r.slot] = generation[r.slot] /\ r.slot \in live'
    BY <1>0, <1>2, <2>1 DEF SweepOne, Reclaim, TypeOK
  <2> QED BY <2>1, <2>2 DEF Resolves
<1>3. ASSUME NEW t \in marked PROVE fields'[t] = fields[t]
  BY <1>0, <1>3, LiveSlots DEF SweepOne, Reclaim, TypeOK
<1>4. RootsResolve'
  BY <1>0, <1>1, <1>2, RootsIntact DEF RootsResolve
<1>5. WholeHeapIntact'
  BY <1>0 DEF WholeHeapIntact
<1>6. MarkedIntact'
  <2>1. ASSUME NEW t \in marked, NEW f \in Fields, NEW c \in fields'[t][f]
        PROVE  Resolves(c)' /\ c.slot \in marked
    <3>1. c \in fields[t][f]
      BY <1>3, <2>1
    <3>2. Resolves(c) /\ c.slot \in marked
      BY <1>0, <3>1 DEF Integrity, MarkedIntact
    <3> QED BY <1>2, <3>2
  <2>2. \A r \in RootRefs : r.slot \in marked
    BY <1>0 DEF Integrity, MarkedIntact
  <2> QED BY <1>1, <2>1, <2>2 DEF MarkedIntact
<1>7. SweepProgress'
  <2>1. ASSUME NEW t \in live', t < sweepIndex + 1 PROVE t \in marked
    <3>1. t \in live /\ t \in Int /\ s \in Int
      BY <1>0, <1>1, LiveSlots DEF TypeOK, Slots
    <3>2. CASE t = s
      BY <1>1, <3>2
    <3>3. CASE t < s
      BY <1>0, <3>1, <3>3 DEF Integrity, SweepProgress
    <3> QED BY <2>1, <3>1, <3>2, <3>3
  <2> QED BY <1>0, <1>1, <2>1 DEF Integrity, SweepProgress
<1> QED BY <1>4, <1>5, <1>6, <1>7 DEF Integrity

\* When the sweep ends every object left is marked, so the whole heap is intact.
LEMMA FinishIntegrity == ASSUME IInv, Integrity, FinishCollection PROVE Integrity'
<1> USE DEF objectVars, rootVars, colorVars
<1>0. TypeOK /\ Sweeping /\ phase # "Idle"
  BY DEF IInv, FinishCollection, Sweeping
<1>1. /\ (\A r : Resolves(r)' = Resolves(r)) /\ RootRefs' = RootRefs
      /\ UNCHANGED <<live, fields, marked>>
      /\ ~Sweeping' /\ phase' = "Idle" /\ ~resumeSweep'
  BY DEF FinishCollection, Resolves, RootRefs, Sweeping
<1>2. live \subseteq marked
  <2> SUFFICES ASSUME NEW s \in live PROVE s \in marked
    OBVIOUS
  <2>1. s \in Int /\ sweepIndex \in Int /\ sweepLimit \in Int /\ sweepIndex >= sweepLimit
    BY <1>0 DEF TypeOK, FinishCollection
  <2>2. s < sweepIndex \/ s >= sweepLimit
    BY <2>1
  <2> QED BY <1>0, <2>2 DEF Integrity, SweepProgress
<1>3. RootsResolve'
  BY <1>1 DEF Integrity, RootsResolve
<1>4. WholeHeapIntact'
  BY <1>0, <1>1, <1>2 DEF Integrity, MarkedIntact, WholeHeapIntact
<1>5. MarkedIntact' /\ SweepProgress'
  BY <1>1 DEF MarkedIntact, SweepProgress
<1> QED BY <1>3, <1>4, <1>5 DEF Integrity

LEMMA NextIntegrity ==
  ASSUME IInv, IInv', Integrity, ~WeakHandles, [Next]_vars PROVE Integrity'
<1>0. TypeOK'
  BY DEF IInv
<1>1. CASE Mutator
  <2>1. CASE \E d \in Registers : Allocate(d)
    BY <2>1, AllocateIntegrity
  <2>2. CASE \E o \in Registers, f \in Fields : Store(o, f)
    BY <2>2, StoreIntegrity
  <2>3. CASE \/ \E d \in Registers : SetRegister(d) \/ PassUnrooted(d)
             \/ \E d, o \in Registers, f \in Fields : Load(d, o, f)
    BY <1>0, <2>3, RegisterMoves
  <2> QED BY <1>0, <1>1, <2>1, <2>2, <2>3, OtherMovesIntegrity DEF Mutator
<1>2. CASE Collector
  BY <1>0, <1>2, ColouringIntegrity, StartSweepIntegrity, SweepOneIntegrity, FinishIntegrity,
     OtherMovesIntegrity DEF Collector
<1>3. CASE UNCHANGED vars
  <2>1. UNCHANGED <<objectVars, colorVars, sweepVars, phase>> /\ RootRefs' = RootRefs
    BY <1>3 DEF vars, rootVars, RootRefs
  <2> QED BY <2>1, RootsIntact, RootsMove
<1> QED BY <1>1, <1>2, <1>3 DEF Next

LEMMA IntegrityInvariant == ASSUME ~WeakHandles PROVE Spec => [](IInv /\ Integrity)
<1>1. Init => IInv /\ Integrity
  BY InitIInv, InitIntegrity
<1>2. (IInv /\ Integrity) /\ [Next]_vars => (IInv /\ Integrity)'
  <2> SUFFICES ASSUME IInv, Integrity, [Next]_vars PROVE IInv' /\ Integrity'
    OBVIOUS
  <2>1. IInv'
    BY NextIInv
  <2> QED BY <2>1, NextIntegrity
<1> QED BY <1>1, <1>2, PTL DEF Spec

\* With hosts that root what they keep, no root is ever left with a reference the
\* collector has invalidated.
THEOREM RootsNeverDangle == ASSUME ~WeakHandles PROVE Spec => []RootsResolve
<1>1. IInv /\ Integrity => RootsResolve
  BY DEF Integrity
<1> QED BY <1>1, IntegrityInvariant, PTL

\* Nor is any object a root can reach: its fields resolve too.
THEOREM ReachableNeverDangles == ASSUME ~WeakHandles PROVE Spec => []ReachableIntact
<1>1. ASSUME IInv, Integrity PROVE ReachableIntact
  <2> SUFFICES ASSUME NEW s \in Reachable, NEW f \in Fields, NEW c \in fields[s][f]
               PROVE  Resolves(c)
    BY DEF ReachableIntact, Children
  <2>1. CASE Sweeping
    <3>1. marked \in SUBSET live
      BY <1>1 DEF IInv, TypeOK
    <3>2. SlotsOf({r \in RootRefs : Resolves(r)}) \subseteq marked
      BY <1>1, <2>1 DEF Integrity, MarkedIntact, SlotsOf
    <3>3. ClosedUnderChildren(marked)
      BY <1>1, <2>1 DEF Integrity, MarkedIntact, ClosedUnderChildren, Children
    <3>4. s \in marked
      BY <3>1, <3>2, <3>3 DEF Reachable
    <3> QED BY <1>1, <2>1, <3>4 DEF Integrity, MarkedIntact
  <2>2. CASE ~Sweeping
    BY <1>1, <2>2 DEF Integrity, WholeHeapIntact, Reachable
  <2> QED BY <2>1, <2>2
<1> QED BY <1>1, IntegrityInvariant, PTL

\* Between collections the whole heap, garbage included, has no dangling reference.
THEOREM IdleHeapNeverDangles == ASSUME ~WeakHandles PROVE Spec => []IdleHeapClosed
<1>1. ASSUME IInv, Integrity PROVE IdleHeapClosed
  BY <1>1 DEF Integrity, WholeHeapIntact, SweepProgress, Sweeping, IdleHeapClosed, Children
<1> QED BY <1>1, IntegrityInvariant, PTL

-----------------------------------------------------------------------------
(* collectFull leaves what is reachable. *)

\* The collection that collectFull starts afresh marks only what is reachable, sweeps
\* all slots, and ends with the marked objects.
FullMarksReachable ==
    full = "fresh" =>
        /\ phase # "Idle" =>
            /\ marked \subseteq Reachable
            /\ sweepLimit = slotCount
            /\ Sweeping => \A s \in live : s < sweepIndex => s \in marked
        /\ phase = "Idle" /\ ~requested => live = Reachable

\* What can be reached depends on objects and roots alone.
LEMMA SameReachable ==
  ASSUME UNCHANGED <<live, generation, fields, registers, persistentRoots>>
  PROVE  Reachable' = Reachable
BY DEF Reachable, RootRefs, Resolves, ClosedUnderChildren, Children, SlotsOf

\* What a root or a reachable object refers to can be reached.
LEMMA RootsReachable ==
  ASSUME NEW r \in RootRefs, Resolves(r) PROVE r.slot \in Reachable
BY DEF Reachable, Resolves, SlotsOf

LEMMA ChildrenReachable ==
  ASSUME NEW s \in Reachable, NEW c \in Children(s), Resolves(c)
  PROVE  c.slot \in Reachable
BY DEF Reachable, Resolves, ClosedUnderChildren

\* Marks move on to reachable objects only; StartCollection forgets those of the
\* collection before.
LEMMA MarksReachable ==
  ASSUME IInv, marked \subseteq Reachable, ContinueCollection \/ MarkOne
  PROVE  marked' \subseteq Reachable
<1>1. CASE ContinueCollection
  <2>1. marked' = marked \cup SlotsOf(White(RootRefs))
    BY <1>1 DEF ContinueCollection, MarkRefs
  <2> QED BY <2>1, RootsReachable DEF SlotsOf, White
<1>2. CASE MarkOne
  <2>1. PICK r \in markStack :
          marked' = marked \cup
              SlotsOf(IF Resolves(r) THEN White(Children(r.slot)) ELSE {})
    BY <1>2 DEF MarkOne
  <2>2. r.slot \in Reachable
    BY DEF IInv, GreyMarked
  <2>3. \A c \in White(Children(r.slot)) : c.slot \in Reachable
    BY <2>2, ChildrenReachable DEF White
  <2> QED BY <2>1, <2>3 DEF SlotsOf
<1> QED BY <1>1, <1>2

LEMMA MarkedClosed ==
  ASSUME IInv, work > 0, phase # "Idle", markStack = {}
  PROVE  /\ Reachable \subseteq marked
         /\ \A r \in RootRefs : Resolves(r) => r.slot \in marked
         /\ \A s \in marked : \A c \in Children(s) : Resolves(c) => c.slot \in marked
<1>1. marked \in SUBSET live
  BY DEF IInv, TypeOK
<1>2. \A r \in RootRefs : Resolves(r) => r.slot \in marked
  BY DEF IInv, RootsMarkedInStep
<1>3. \A s \in marked : \A c \in Children(s) : Resolves(c) => c.slot \in marked
  BY DEF IInv, NoBlackToWhite, SlotsOf, White
<1>4. SlotsOf({r \in RootRefs : Resolves(r)}) \subseteq marked /\ ClosedUnderChildren(marked)
  BY <1>2, <1>3 DEF SlotsOf, ClosedUnderChildren
<1> QED BY <1>1, <1>2, <1>3, <1>4 DEF Reachable

\* Reclaiming an object leaves all others within reach: a set that is closed without it
\* was closed with it, as far as it is marked.
LEMMA SweepKeepsReach ==
  ASSUME IInv, SweepOne, marked \subseteq Reachable
  PROVE  marked \subseteq Reachable'
<1> DEFINE s == sweepIndex
<1>1. TypeOK /\ work > 0 /\ phase # "Idle" /\ markStack = {} /\ UNCHANGED rootVars
  BY DEF IInv, SweepOne
<1>2. CASE ~(s \in live /\ s \notin marked)
  <2>1. UNCHANGED objectVars
    BY <1>2 DEF SweepOne, Reclaim
  <2>2. UNCHANGED <<live, generation, fields, registers, persistentRoots>>
    BY <1>1, <2>1 DEF objectVars, rootVars
  <2> QED BY <2>2, SameReachable
<1>3. CASE s \in live /\ s \notin marked
  <2>1. /\ live' = live \ {s}
        /\ generation' = [generation EXCEPT ![s] = NextGeneration(@)]
        /\ fields' = [fields EXCEPT ![s] = [f \in Fields |-> {}]]
    BY <1>3 DEF SweepOne, Reclaim
  <2>2. /\ marked \subseteq live /\ live \subseteq Slots /\ s \in Slots
        /\ RootRefs' = RootRefs /\ RootRefs \subseteq Ref
    BY <1>1, <1>3, LiveSlots, RootRefsAreRefs DEF TypeOK, RootRefs, rootVars
  <2>3. ASSUME NEW r \in Ref, Resolves(r), r.slot # s PROVE Resolves(r)'
    BY <1>1, <2>1, <2>3 DEF Resolves, TypeOK, Ref
  <2>4. \A t \in marked : Children(t)' = Children(t) /\ Children(t) \subseteq Ref
    <3> SUFFICES ASSUME NEW t \in marked
                 PROVE  Children(t)' = Children(t) /\ Children(t) \subseteq Ref
      OBVIOUS
    <3>1. t \in Slots /\ t # s
      BY <1>3, <2>2
    <3>2. fields'[t] = fields[t]
      BY <1>1, <2>1, <3>1 DEF TypeOK
    <3>3. \A f \in Fields : \A c \in fields[t][f] : c \in Ref
      BY <1>1, <3>1, ChildrenAreRefs
    <3> QED BY <3>2, <3>3 DEF Children
  <2>5. ASSUME NEW S \in SUBSET live',
               SlotsOf({r \in RootRefs' : Resolves(r)'}) \subseteq S,
               ClosedUnderChildren(S)'
        PROVE  marked \subseteq S
    <3> DEFINE T == S \cap marked
    <3>1. T \in SUBSET live
      BY <2>2
    <3>2. SlotsOf({r \in RootRefs : Resolves(r)}) \subseteq T
      <4> SUFFICES ASSUME NEW r \in RootRefs, Resolves(r) PROVE r.slot \in T
        BY DEF SlotsOf
      <4>1. r.slot \in marked /\ r.slot # s
        BY <1>1, <1>3, MarkedClosed
      <4>2. Resolves(r)' /\ r \in RootRefs'
        BY <2>2, <2>3, <4>1
      <4>3. r.slot \in SlotsOf({x \in RootRefs' : Resolves(x)'})
        BY <4>2 DEF SlotsOf
      <4> QED BY <2>5, <4>1, <4>3
    <3>3. ClosedUnderChildren(T)
      <4> SUFFICES ASSUME NEW t \in T, NEW c \in Children(t), Resolves(c) PROVE c.slot \in T
        BY DEF ClosedUnderChildren
      <4>1. c.slot \in marked /\ c.slot # s
        BY <1>1, <1>3, MarkedClosed
      <4>2. c \in Children(t)' /\ Resolves(c)'
        BY <2>3, <2>4, <4>1
      <4> QED BY <2>5, <4>1, <4>2 DEF ClosedUnderChildren
    <3> QED BY <3>1, <3>2, <3>3 DEF Reachable
  <2>6. marked \subseteq live'
    BY <1>3, <2>1, <2>2
  <2> QED BY <2>5, <2>6 DEF Reachable
<1> QED BY <1>2, <1>3

LEMMA SweepFull == ASSUME IInv, FullMarksReachable, SweepOne PROVE FullMarksReachable'
<1> SUFFICES ASSUME full = "fresh" PROVE FullMarksReachable'
  BY DEF SweepOne, FullMarksReachable
<1>1. /\ phase = "Sweep" /\ phase' = phase /\ marked' = marked /\ sweepLimit' = sweepLimit
      /\ sweepIndex' = sweepIndex + 1
  BY DEF SweepOne, colorVars
<1>2. /\ marked \subseteq Reachable /\ sweepLimit = slotCount
      /\ \A s \in live : s < sweepIndex => s \in marked
  BY <1>1 DEF FullMarksReachable, Sweeping
<1>3. marked \subseteq Reachable'
  BY <1>2, SweepKeepsReach
<1>4. slotCount' = slotCount /\ live' \subseteq live
      /\ (sweepIndex \in live' => sweepIndex \in marked)
  BY DEF SweepOne, Reclaim, objectVars
<1>5. live \subseteq Int /\ sweepIndex \in Int
  BY DEF IInv, TypeOK
<1>6. \A s \in live' : s < sweepIndex + 1 => s \in marked
  BY <1>2, <1>4, <1>5
<1> QED BY <1>1, <1>2, <1>3, <1>4, <1>6 DEF FullMarksReachable

LEMMA FinishFull ==
  ASSUME IInv, FullMarksReachable, FinishCollection PROVE FullMarksReachable'
<1> SUFFICES ASSUME full = "fresh" PROVE FullMarksReachable'
  BY DEF FinishCollection, FullMarksReachable
<1>1. /\ work > 0 /\ phase = "Sweep" /\ markStack = {} /\ sweepIndex >= sweepLimit
      /\ phase' = "Idle" /\ UNCHANGED objectVars /\ UNCHANGED rootVars
  BY DEF FinishCollection
<1>2. /\ marked \subseteq Reachable /\ sweepLimit = slotCount
      /\ \A s \in live : s < sweepIndex => s \in marked
  BY <1>1 DEF FullMarksReachable, Sweeping
<1>3. live \subseteq marked
  <2> SUFFICES ASSUME NEW s \in live PROVE s \in marked
    OBVIOUS
  <2>1. s \in 0 .. slotCount - 1 /\ slotCount \in Nat /\ sweepIndex \in Nat
    BY HeapAssumption DEF IInv, TypeOK
  <2> QED BY <1>1, <1>2, <2>1
<1>4. live = Reachable
  BY <1>2, <1>3 DEF Reachable
<1>5. Reachable' = Reachable /\ live' = live
  BY <1>1, SameReachable DEF objectVars, rootVars
<1> QED BY <1>1, <1>4, <1>5 DEF FullMarksReachable

LEMMA MarkingFull ==
  ASSUME IInv, FullMarksReachable,
         StartCollection \/ ContinueCollection \/ BackToMark \/ MarkOne \/ StartSweep
  PROVE  FullMarksReachable'
<1> SUFFICES ASSUME full = "fresh" PROVE FullMarksReachable'
  BY DEF FullMarksReachable, StartCollection, ContinueCollection, BackToMark, MarkOne,
     StartSweep
<1>1. UNCHANGED objectVars /\ UNCHANGED rootVars /\ phase' # "Idle"
  BY DEF StartCollection, ContinueCollection, BackToMark, MarkOne, StartSweep
<1>2. Reachable' = Reachable /\ live' = live /\ slotCount' = slotCount
  BY <1>1, SameReachable DEF objectVars, rootVars
<1>3. CASE StartCollection
  <2>1. /\ marked' = SlotsOf({r \in RootRefs : Resolves(r)})
        /\ sweepLimit' = slotCount /\ ~Sweeping'
    BY <1>3 DEF StartCollection, Sweeping
  <2>2. marked' \subseteq Reachable
    BY <2>1, RootsReachable DEF SlotsOf
  <2> QED BY <1>1, <1>2, <2>1, <2>2 DEF FullMarksReachable
<1>4. CASE ContinueCollection \/ MarkOne
  <2>1. /\ phase # "Idle" /\ phase' = phase /\ marked \subseteq marked'
        /\ UNCHANGED <<resumeSweep, sweepIndex, sweepLimit>>
    BY <1>4 DEF ContinueCollection, MarkOne, MarkRefs, sweepVars
  <2>2. /\ marked \subseteq Reachable /\ sweepLimit = slotCount
        /\ Sweeping => \A s \in live : s < sweepIndex => s \in marked
    BY <2>1 DEF FullMarksReachable
  <2>3. marked' \subseteq Reachable
    BY <1>4, <2>2, MarksReachable
  <2>4. Sweeping' = Sweeping
    BY <2>1 DEF Sweeping
  <2> QED BY <1>1, <1>2, <2>1, <2>2, <2>3, <2>4 DEF FullMarksReachable
<1>5. CASE BackToMark \/ StartSweep
  <2>1. /\ phase # "Idle" /\ marked' = marked /\ sweepLimit' = sweepLimit
        /\ (Sweeping /\ sweepIndex' = sweepIndex) \/ sweepIndex' = 0
    BY <1>5 DEF BackToMark, StartSweep, colorVars, Sweeping
  <2>2. live \subseteq Nat
    BY DEF IInv, TypeOK
  <2>3. \A s \in live : s < sweepIndex' => s \in marked
    BY <2>1, <2>2 DEF FullMarksReachable
  <2> QED BY <1>1, <1>2, <2>1, <2>3 DEF FullMarksReachable
<1> QED BY <1>3, <1>4, <1>5

LEMMA NextFull == ASSUME IInv, FullMarksReachable, [Next]_vars PROVE FullMarksReachable'
<1>1. CASE Mutator /\ ~CollectFull
  <2>1. full' # "fresh"
    BY <1>1 DEF Mutator, Allocate, AllocateReused, AllocateNew, Born, SetRegister,
       PassUnrooted, AddPersistentRoot, Load, Store, RemovePersistentRoot,
       UpdatePersistentRoot, AllocateFails, RequestCollection, MutatorTurn
  <2> QED BY <2>1 DEF FullMarksReachable
<1>2. CASE CollectFull \/ CollectFullAgain \/ CollectFullReturns
  <2>1. full' # "fresh" \/ (phase' = "Idle" /\ requested')
    BY <1>2 DEF CollectFull, CollectFullAgain, CollectFullReturns, Drained
  <2> QED BY <2>1 DEF FullMarksReachable
<1>3. CASE SweepOne
  BY <1>3, SweepFull
<1>4. CASE FinishCollection
  BY <1>4, FinishFull
<1>5. CASE StartCollection \/ ContinueCollection \/ BackToMark \/ MarkOne \/ StartSweep
  BY <1>5, MarkingFull
<1>6. CASE UNCHANGED vars
  <2>1. Reachable' = Reachable
    BY <1>6, SameReachable DEF vars, objectVars, rootVars
  <2> QED BY <1>6, <2>1 DEF FullMarksReachable, Sweeping, vars, objectVars, colorVars,
             sweepVars, paceVars
<1> QED BY <1>1, <1>2, <1>3, <1>4, <1>5, <1>6 DEF Next, Collector, Mutator

\* When collectFull returns exactly the reachable objects are left, with any hosts, any
\* budget, and whatever collection was running when it was called.
THEOREM FullCollectionLeavesReachable == Spec => []FullCollectionExact
<1>1. Init => IInv /\ FullMarksReachable
  BY InitIInv DEF Init, FullMarksReachable
<1>2. IInv /\ FullMarksReachable /\ [Next]_vars => (IInv /\ FullMarksReachable)'
  BY NextIInv, NextFull
<1>3. FullMarksReachable => FullCollectionExact
  BY DEF FullMarksReachable, FullCollectionExact, Drained
<1> QED BY <1>1, <1>2, <1>3, PTL DEF Spec

=============================================================================
