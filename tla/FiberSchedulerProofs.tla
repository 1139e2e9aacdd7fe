------------------------ MODULE FiberSchedulerProofs ------------------------
(* Theorems about FiberScheduler, for every program and every value of its constants. *)
EXTENDS FiberScheduler, ListLemmas

\* Where the scheduler is in a tick, and which ids have been used.
Progress ==
    /\ \A f \in Ids : f > count <=> status[f] = "Inactive"
    /\ ~stepping => index = 0 /\ running = 0
    /\ running = 0 => ~inCallback
    /\ RunningIsLive

IInv == TypeOK /\ FreeIdsExact /\ EntriesHold /\ OrphanFree /\ Progress

\* EntriesHold, fiber by fiber.
Held(f) ==
    /\ status[f] = "Sleeping" => f \in Elements(wheel[Slot(wakeTick[f])])
    /\ status[f] = "Waiting" => f \in Elements(waiters)
    /\ status[f] = "Ready" =>
        f = running \/ \E i \in index + 1 .. Len(readyQueue) : readyQueue[i] = f

Statuses == {"Inactive", "Ready", "Sleeping", "Waiting", "Terminated"}

-----------------------------------------------------------------------------
(* Constants and lists. *)

LEMMA Program ==
  /\ EndPc \in Nat /\ CodePcs \in SUBSET Pcs
  /\ \A p \in CodePcs : p + 1 \in Pcs /\ Code[p].target \in Pcs
<1>1. EndPc \in Nat
  BY SchedulerAssumption, FS_CardinalityType DEF EndPc
<1>2. CodePcs = 0 .. EndPc - 1
  BY SchedulerAssumption
<1>3. \A p \in CodePcs : Code[p].target \in Pcs
  BY SchedulerAssumption
<1> HIDE DEF EndPc, CodePcs
<1> QED BY <1>1, <1>2, <1>3 DEF Pcs

LEMMA TicksWrap ==
  /\ Ticks \in SUBSET Nat /\ 0 \in Ticks
  /\ \A n \in Nat : n % TickMod \in Ticks
  /\ \A n \in Nat : Slot(n) \in 0 .. WheelSlots - 1
BY SchedulerAssumption DEF Ticks, Slot

LEMMA IdSets ==
  ASSUME NEW T \in SUBSET Ids
  PROVE  T \in SUBSET Int /\ IsFiniteSet(T) /\ Cardinality(T) \in Nat
<1>1. 1 \in Int /\ MaxFibers \in Int /\ T \in SUBSET (1 .. MaxFibers)
  BY SchedulerAssumption DEF Ids
<1>2. T \in SUBSET Int /\ IsFiniteSet(T)
  BY <1>1, PartsOfIntervals
<1> QED BY <1>2, FS_CardinalityType

LEMMA AscendingIds ==
  ASSUME NEW T \in SUBSET Ids
  PROVE  /\ Ascending(T) \in Seq(Ids) /\ Elements(Ascending(T)) = T
         /\ \A i, j \in 1 .. Len(Ascending(T)) : Ascending(T)[i] = Ascending(T)[j] => i = j
<1>1. /\ Ascending(T) \in Seq(T) /\ Elements(Ascending(T)) = T
      /\ Len(Ascending(T)) = Cardinality(T)
      /\ \A i, j \in 1 .. Cardinality(T) : Ascending(T)[i] = Ascending(T)[j] => i = j
  BY IdSets, AscendingLists
<1> QED BY <1>1

-----------------------------------------------------------------------------
(* Trees of fibers. *)

LEMMA TreeClosed ==
  ASSUME NEW f \in LiveIds
  PROVE  /\ Tree(f) \in SUBSET LiveIds /\ f \in Tree(f)
         /\ \A h \in LiveIds : parent[h] \in Tree(f) => h \in Tree(f)
<1>1. Tree(f) \in SUBSET LiveIds /\ f \in Tree(f)
  BY DEF Tree
<1>2. ASSUME NEW h \in LiveIds, parent[h] \in Tree(f)
      PROVE  h \in Tree(f)
  <2> SUFFICES ASSUME NEW S \in SUBSET LiveIds, f \in S,
                      \A g \in LiveIds : parent[g] \in S => g \in S
               PROVE  h \in S
    BY DEF Tree
  <2>1. parent[h] \in S
    BY <1>2 DEF Tree
  <2> QED BY <2>1
<1> QED BY <1>1, <1>2

\* killFiberTree frees exactly the ids of the tree and leaves no live child of it.
LEMMA KillTree ==
  ASSUME TypeOK, FreeIdsExact, OrphanFree,
         \A g \in Ids : g > count <=> status[g] = "Inactive",
         NEW f \in Ids, KillFiberTree(f), UNCHANGED <<count, parent>>
  PROVE  /\ status' \in [Ids -> Statuses]
         /\ unbreakable' \in [Ids -> BOOLEAN]
         /\ freeIds' \in Seq(Ids)
         /\ FreeIdsExact' /\ OrphanFree'
         /\ \A g \in Ids : g > count <=> status'[g] = "Inactive"
         /\ \A g \in Ids :
              \/ status'[g] = status[g]
              \/ Live(f) /\ g \in Tree(f) /\ status'[g] = "Terminated"
         /\ status'[f] \in {"Inactive", "Terminated"}
<1>1. /\ status \in [Ids -> Statuses] /\ unbreakable \in [Ids -> BOOLEAN]
      /\ freeIds \in Seq(Ids) /\ count \in Nat
  BY SchedulerAssumption DEF TypeOK, Statuses
<1>2. CASE ~Live(f)
  <2>1. UNCHANGED <<status, unbreakable, freeIds>>
    BY <1>2 DEF KillFiberTree
  <2>2. FreeIdsExact' /\ OrphanFree'
    BY <2>1 DEF FreeIdsExact, OrphanFree, LiveIds, Live
  <2>3. status[f] \in {"Inactive", "Terminated"}
    BY <1>1, <1>2 DEF Live, Statuses
  <2> QED BY <1>1, <2>1, <2>2, <2>3
<1>3. CASE Live(f)
  <2> DEFINE killed == Tree(f)
  <2>1. killed \in SUBSET LiveIds /\ f \in killed
        /\ \A h \in LiveIds : parent[h] \in killed => h \in killed
    BY <1>3, TreeClosed DEF LiveIds
  <2>2. PICK order \in [1 .. Cardinality(killed) -> killed] :
          /\ Elements(order) = killed
          /\ \A i, j \in DOMAIN order : i < j => order[i] # order[j] /\ KilledBefore(order[i], order[j])
          /\ freeIds' = freeIds \o order
    BY <1>3 DEF KillFiberTree
  <2>3. /\ status' = [g \in Ids |-> IF g \in killed THEN "Terminated" ELSE status[g]]
        /\ unbreakable' = [g \in Ids |-> g \notin killed /\ unbreakable[g]]
    BY <1>3 DEF KillFiberTree
  <2> HIDE DEF killed
  <2>4. killed \in SUBSET Ids
    BY <2>1 DEF LiveIds
  <2>5. /\ order \in Seq(Ids) /\ Len(order) = Cardinality(killed)
        /\ \A i, j \in 1 .. Len(order) : order[i] = order[j] => i = j
    <3>1. Cardinality(killed) \in Nat
      BY <2>4, IdSets
    <3>2. order \in Seq(Ids) /\ Len(order) = Cardinality(killed) /\ DOMAIN order = 1 .. Cardinality(killed)
      BY <2>4, <3>1
    <3>3. \A i, j \in 1 .. Cardinality(killed) : order[i] = order[j] => ~(i < j) /\ ~(j < i)
      BY <2>2, <3>2
    <3>4. \A i, j \in 1 .. Cardinality(killed) : ~(i < j) /\ ~(j < i) => i = j
      BY <3>1
    <3> QED BY <3>2, <3>3, <3>4
  <2>6. LiveIds' = LiveIds \ killed /\ \A g \in Ids : Live(g)' <=> Live(g) /\ g \notin killed
    BY <2>3 DEF LiveIds, Live
  <2>7. freeIds' \in Seq(Ids)
    BY <1>1, <2>2, <2>5
  <2>8. FreeIdsExact'
    <3>1. Elements(freeIds) \cap Elements(order) = {}
      BY <2>1, <2>2 DEF FreeIdsExact, LiveIds
    <3>2. /\ Elements(freeIds \o order) = Elements(freeIds) \cup killed
          /\ \A i, j \in 1 .. Len(freeIds \o order) : (freeIds \o order)[i] = (freeIds \o order)[j] => i = j
      <4>1. /\ order \in Seq(Ids) /\ freeIds \in Seq(Ids)
            /\ Elements(freeIds) \cap Elements(order) = {}
            /\ \A i, j \in 1 .. Len(order) : order[i] = order[j] => i = j
        BY <1>1, <2>5, <3>1
      <4>2. \A i, j \in 1 .. Len(freeIds) : freeIds[i] = freeIds[j] => i = j
        BY DEF FreeIdsExact
      <4>3. /\ Elements(freeIds \o order) = Elements(freeIds) \cup Elements(order)
            /\ \A i, j \in 1 .. Len(freeIds \o order) :
                (freeIds \o order)[i] = (freeIds \o order)[j] => i = j
        BY ONLY <4>1, <4>2, ConcatLists
      <4> QED BY <2>2, <4>3
    <3>3. \A g \in killed : g <= count
      <4> SUFFICES ASSUME NEW g \in killed PROVE g <= count
        OBVIOUS
      <4>1. g \in Ids /\ status[g] # "Inactive" /\ g \in Int
        BY <2>1, <2>4, IdSets DEF LiveIds, Live
      <4> QED BY <1>1, <4>1
    <3>4. Elements(freeIds') = {g \in Ids : g <= count' /\ ~Live(g)'}
      BY <2>2, <2>4, <2>6, <3>2, <3>3 DEF FreeIdsExact
    <3> QED BY <2>2, <3>2, <3>4 DEF FreeIdsExact
  <2>9. OrphanFree'
    <3> SUFFICES ASSUME NEW g \in LiveIds', parent[g] # 0 PROVE Live(parent[g])'
      BY DEF OrphanFree
    <3>1. g \in LiveIds /\ g \notin killed /\ g \in Ids
      BY <2>6 DEF LiveIds
    <3>2. Live(parent[g]) /\ parent[g] \in Ids /\ parent[g] \notin killed
      BY <2>1, <3>1 DEF OrphanFree, TypeOK
    <3> QED BY <2>6, <3>2
  <2>10. status' \in [Ids -> Statuses] /\ unbreakable' \in [Ids -> BOOLEAN]
    BY <1>1, <2>3 DEF Statuses
  <2>11. \A g \in Ids : g > count <=> status'[g] = "Inactive"
    BY <2>1, <2>3 DEF LiveIds, Live
  <2>12. \A g \in Ids : status'[g] = status[g] \/ (g \in killed /\ status'[g] = "Terminated")
    BY <2>3
  <2> QED BY <1>3, <2>1, <2>3, <2>7, <2>8, <2>9, <2>10, <2>11, <2>12 DEF killed
<1> QED BY <1>2, <1>3

-----------------------------------------------------------------------------
(* What the operations share. *)

\* Entries are only added.
QueuesGrow ==
    /\ \A b \in 0 .. WheelSlots - 1 : Elements(wheel[b]) \subseteq Elements(wheel'[b])
    /\ Elements(waiters) \subseteq Elements(waiters')
    /\ Len(readyQueue) <= Len(readyQueue')
    /\ \A i \in 1 .. Len(readyQueue) : readyQueue'[i] = readyQueue[i]

LEMMA UntouchedStayHeld ==
  ASSUME TypeOK, EntriesHold, QueuesGrow, index' = index, NEW f \in Ids,
         f = running => running' = running \/ status'[f] # "Ready",
         status'[f] = status[f], wakeTick'[f] = wakeTick[f]
  PROVE  Held(f)'
<1>1. Held(f) /\ wakeTick[f] \in Ticks
  BY DEF EntriesHold, Held, TypeOK
<1>2. Slot(wakeTick[f]) \in 0 .. WheelSlots - 1
  BY <1>1, TicksWrap
<1>3. status'[f] = "Sleeping" => f \in Elements(wheel'[Slot(wakeTick'[f])])
  BY <1>1, <1>2 DEF Held, QueuesGrow
<1>4. status'[f] = "Waiting" => f \in Elements(waiters')
  BY <1>1 DEF Held, QueuesGrow
<1>5. ASSUME status'[f] = "Ready"
      PROVE  f = running' \/ \E i \in index' + 1 .. Len(readyQueue') : readyQueue'[i] = f
  <2>1. CASE f = running
    BY <1>5, <2>1
  <2>2. CASE f # running
    <3>1. PICK i \in index + 1 .. Len(readyQueue) : readyQueue[i] = f
      BY <1>1, <1>5, <2>2 DEF Held
    <3>2. index \in Nat /\ Len(readyQueue) \in Nat /\ Len(readyQueue') >= Len(readyQueue)
          /\ (\A j \in 1 .. Len(readyQueue) : readyQueue'[j] = readyQueue[j])
      BY DEF TypeOK, QueuesGrow
    <3>3. i \in 1 .. Len(readyQueue) /\ i \in index' + 1 .. Len(readyQueue')
      <4> HIDE DEF QueuesGrow
      <4> QED BY <3>1, <3>2
    <3> QED BY <3>1, <3>2, <3>3
  <2> QED BY <2>1, <2>2
<1> QED BY <1>3, <1>4, <1>5 DEF Held, Elements

LEMMA HeldEach == (\A f \in Ids : Held(f)') => EntriesHold'
BY DEF Held, EntriesHold, Elements

\* A spawn takes a dead id and leaves the other dead ids free.
LEMMA SpawnTakesDead ==
  ASSUME TypeOK, FreeIdsExact, \A g \in Ids : g > count <=> status[g] = "Inactive",
         OrphanFree,
         NEW entry, NEW p \in LiveIds \cup {0}, SpawnFiber(entry, p),
         NEW id, id = NextId, status'[id] = "Ready",
         \A g \in Ids \ {id} : Live(g)' <=> Live(g)
  PROVE  /\ id \in Ids /\ ~Live(id)
         /\ count' \in 0 .. MaxFibers /\ freeIds' \in Seq(Ids)
         /\ parent' = [parent EXCEPT ![id] = p]
         /\ callStack' = [callStack EXCEPT ![id] = <<>>]
         /\ unbreakable' = [unbreakable EXCEPT ![id] = FALSE]
         /\ readyQueue' = Append(readyQueue, id)
         /\ FreeIdsExact' /\ OrphanFree'
         /\ \A g \in Ids : g > count' <=> g > count /\ g # id
<1>1. /\ id \in Ids
      /\ parent' = [parent EXCEPT ![id] = p]
      /\ callStack' = [callStack EXCEPT ![id] = <<>>]
      /\ unbreakable' = [unbreakable EXCEPT ![id] = FALSE]
      /\ readyQueue' = Append(readyQueue, id)
  BY DEF SpawnFiber
<1>2. /\ count \in 0 .. MaxFibers /\ freeIds \in Seq(Ids) /\ MaxFibers \in Nat
      /\ status \in [Ids -> Statuses]
      /\ Ids = 1 .. MaxFibers
  BY SchedulerAssumption DEF TypeOK, Statuses, Ids
<1>3. /\ \A i, j \in 1 .. Len(freeIds) : freeIds[i] = freeIds[j] => i = j
      /\ \A f \in Ids : f \in Elements(freeIds) <=> f <= count /\ ~Live(f)
      /\ \A i \in 1 .. Len(freeIds) : freeIds[i] \in Ids
  BY <1>2 DEF FreeIdsExact
<1>4. Live(id)'
  BY DEF Live
<1>5. ASSUME ~Live(id) PROVE OrphanFree'
  <2> SUFFICES ASSUME NEW g \in LiveIds'
               PROVE  (parent[g] # 0 => Live(parent[g]))'
    BY DEF OrphanFree
  <2>1. parent \in [Ids -> Ids \cup {0}] /\ g \in Ids /\ Live(g)'
    BY DEF TypeOK, LiveIds
  <2>2. CASE g = id
    <3>0. id \in Ids /\ 0 \notin Ids
      BY <1>1, <1>2
    <3>1. parent'[g] = p /\ p # id
      BY <1>1, <1>5, <2>1, <2>2, <3>0 DEF LiveIds
    <3>2. p # 0 => p \in Ids /\ Live(p)
      BY DEF LiveIds
    <3> QED BY <3>1, <3>2 DEF Live
  <2>3. CASE g # id
    <3>1. Live(g) /\ parent'[g] = parent[g]
      BY <1>1, <2>1, <2>3
    <3>2. parent[g] # 0 => Live(parent[g]) /\ parent[g] \in Ids \ {id}
      BY <1>5, <2>1, <3>1 DEF OrphanFree, LiveIds
    <3>3. \A h \in Ids \ {id} : Live(h) => Live(h)'
      OBVIOUS
    <3> QED BY <3>1, <3>2, <3>3 DEF Live
  <2> QED BY <2>2, <2>3
<1>6. CASE freeIds # <<>>
  <2> DEFINE n == Len(freeIds)
  <2>1. freeIds' = SubSeq(freeIds, 1, n - 1) /\ count' = count /\ id = freeIds[n]
    BY <1>6 DEF SpawnFiber, NextId
  <2>2. n \in Nat \ {0}
    BY <1>2, <1>6
  <2>3. /\ freeIds' \in Seq(Ids) /\ Len(freeIds') = n - 1
        /\ \A i \in 1 .. n - 1 : freeIds'[i] = freeIds[i]
    BY <1>2, <1>6, <2>1, PoppedEntry
  <2>4. id \in Elements(freeIds) /\ id <= count /\ ~Live(id)
    BY <1>1, <1>3, <2>1, <2>2 DEF Elements
  <2> HIDE DEF n
  <2>5. \A f \in Ids : f \in Elements(freeIds') <=> f \in Elements(freeIds) /\ f # id
    <3> SUFFICES ASSUME NEW f \in Ids
                 PROVE  f \in Elements(freeIds') <=> f \in Elements(freeIds) /\ f # id
      OBVIOUS
    <3>1. ASSUME f \in Elements(freeIds') PROVE f \in Elements(freeIds) /\ f # id
      <4>1. PICK i \in 1 .. n - 1 : freeIds'[i] = f
        BY <2>3, <3>1 DEF Elements
      <4>2. i \in 1 .. n /\ n \in 1 .. n /\ i # n /\ freeIds[i] = f
        BY <2>2, <2>3, <4>1
      <4> QED BY <1>3, <2>1, <4>2 DEF Elements, n
    <3>2. ASSUME f \in Elements(freeIds), f # id PROVE f \in Elements(freeIds')
      <4>1. PICK i \in 1 .. n : freeIds[i] = f
        BY <3>2 DEF Elements, n
      <4>2. i \in 1 .. n - 1 /\ freeIds'[i] = f
        BY <2>1, <2>2, <2>3, <3>2, <4>1
      <4> QED BY <2>3, <4>2 DEF Elements
    <3> QED BY <3>1, <3>2
  <2>6. \A f \in Ids : f \in Elements(freeIds') <=> f <= count' /\ ~Live(f)'
    BY <1>3, <1>4, <2>1, <2>5
  <2>7. \A i, j \in 1 .. Len(freeIds') : freeIds'[i] = freeIds'[j] => i = j
    <3>1. \A i \in 1 .. n - 1 : i \in 1 .. n
      BY <2>2
    <3> QED BY <1>3, <2>3, <3>1 DEF n
  <2>8. FreeIdsExact'
    <3>1. Elements(freeIds') \subseteq Ids
      BY <2>3 DEF Elements
    <3>2. Elements(freeIds') = {f \in Ids : f <= count' /\ ~Live(f)'}
      BY <2>6, <3>1
    <3> QED BY <2>7, <3>2 DEF FreeIdsExact
  <2> QED BY <1>1, <1>2, <2>1, <2>3, <2>4, <2>8, <1>5
<1>7. CASE freeIds = <<>>
  <2>1. freeIds' = freeIds /\ count' = count + 1 /\ id = count + 1
    BY <1>7 DEF SpawnFiber, NextId
  <2>2. id > count /\ status[id] = "Inactive" /\ ~Live(id)
    BY <1>1, <1>2, <2>1 DEF Live
  <2>3. \A f \in Ids : f <= count' /\ ~Live(f)' <=> f <= count /\ ~Live(f)
    BY <1>1, <1>2, <1>4, <2>1, <2>2
  <2>4. FreeIdsExact'
    BY <1>3, <2>1, <2>3 DEF FreeIdsExact
  <2>5. count' \in 0 .. MaxFibers
    BY <1>1, <1>2, <2>1
  <2>6. \A g \in Ids : g > count' <=> g > count /\ g # id
    BY <1>2, <2>1
  <2> QED BY <1>1, <1>2, <2>1, <2>2, <2>4, <2>5, <2>6, <1>5
<1> QED BY <1>6, <1>7

\* The same ids are alive, of the same parents.
SameLife ==
    /\ UNCHANGED <<count, parent, freeIds>>
    /\ \A g \in Ids : Live(g)' <=> Live(g)
    /\ \A g \in Ids : status'[g] = "Inactive" <=> status[g] = "Inactive"

LEMMA SameLifeKeeps ==
  ASSUME TypeOK, FreeIdsExact, OrphanFree, \A g \in Ids : g > count <=> status[g] = "Inactive",
         SameLife
  PROVE  /\ FreeIdsExact' /\ OrphanFree'
         /\ \A g \in Ids : g > count' <=> status'[g] = "Inactive"
<1>1. LiveIds' = LiveIds
  BY DEF LiveIds, SameLife
<1>2. \A g \in LiveIds : parent'[g] # 0 => parent'[g] \in Ids /\ Live(parent[g])
  BY DEF OrphanFree, TypeOK, LiveIds, SameLife
<1>3. OrphanFree'
  BY <1>1, <1>2 DEF OrphanFree, Live, SameLife
<1> QED BY <1>3 DEF FreeIdsExact, Elements, SameLife

\* The members of S are queued after what was queued.
AddedReady(S) ==
    /\ readyQueue' \in Seq(Ids)
    /\ index \in 0 .. Len(readyQueue')
    /\ \A g \in Ids :
        (g \in S \/ \E i \in index + 1 .. Len(readyQueue) : readyQueue[i] = g)
            => \E i \in index + 1 .. Len(readyQueue') : readyQueue'[i] = g

LEMMA AppendedReady ==
  ASSUME readyQueue \in Seq(Ids), index \in 0 .. Len(readyQueue),
         NEW added \in Seq(Ids), readyQueue' = readyQueue \o added
  PROVE  AddedReady(Elements(added))
<1>1. /\ Len(readyQueue) \in Nat /\ Len(added) \in Nat
      /\ readyQueue' \in Seq(Ids) /\ Len(readyQueue') = Len(readyQueue) + Len(added)
      /\ \A i \in 1 .. Len(readyQueue) : readyQueue'[i] = readyQueue[i]
      /\ \A i \in 1 .. Len(added) : readyQueue'[Len(readyQueue) + i] = added[i]
  OBVIOUS
<1>2. ASSUME NEW i \in index + 1 .. Len(readyQueue)
      PROVE  i \in index + 1 .. Len(readyQueue') /\ readyQueue'[i] = readyQueue[i]
  BY <1>1
<1>3. ASSUME NEW g \in Elements(added)
      PROVE  \E i \in index + 1 .. Len(readyQueue') : readyQueue'[i] = g
  <2>1. PICK i \in 1 .. Len(added) : added[i] = g
    BY DEF Elements
  <2>2. Len(readyQueue) + i \in index + 1 .. Len(readyQueue')
    BY <1>1
  <2> QED BY <1>1, <2>1, <2>2
<1>4. index \in 0 .. Len(readyQueue')
  BY <1>1
<1> QED BY <1>1, <1>2, <1>3, <1>4 DEF AddedReady

-----------------------------------------------------------------------------
(* The operations of the host. *)

LEMMA HostSpawns ==
  ASSUME IInv, NEW entry \in Entries, NEW p \in Ids \cup {0}, Spawn(entry, p)
  PROVE  IInv'
<1> USE DEF IInv, Progress
<1> PICK id \in Ids : id = NextId
  BY DEF Spawn, SpawnFiber
<1>1. /\ p \in LiveIds \cup {0} /\ SpawnFiber(entry, p) /\ id \in Ids
      /\ status' = [status EXCEPT ![id] = "Ready"]
      /\ pc' = [pc EXCEPT ![id] = entry]
      /\ wakeTick' = [wakeTick EXCEPT ![id] = tick]
      /\ UNCHANGED <<waitFor, wheel, waiters, tick, sliceVars>>
  BY DEF Spawn, SpawnFiber
<1>2. status \in [Ids -> Statuses] /\ status'[id] = "Ready"
      /\ \A g \in Ids \ {id} : status'[g] = status[g] /\ wakeTick'[g] = wakeTick[g]
  BY <1>1 DEF TypeOK, Statuses
<1>3. \A g \in Ids \ {id} : Live(g)' <=> Live(g)
  BY <1>2 DEF Live
<1>4. /\ ~Live(id)
      /\ count' \in 0 .. MaxFibers /\ freeIds' \in Seq(Ids)
      /\ parent' = [parent EXCEPT ![id] = p]
      /\ callStack' = [callStack EXCEPT ![id] = <<>>]
      /\ unbreakable' = [unbreakable EXCEPT ![id] = FALSE]
      /\ readyQueue' = Append(readyQueue, id)
      /\ FreeIdsExact' /\ OrphanFree'
      /\ \A g \in Ids : g > count' <=> g > count /\ g # id
  BY <1>1, <1>2, <1>3, SpawnTakesDead
<1>5. /\ readyQueue \in Seq(Ids) /\ readyQueue' \in Seq(Ids) /\ Len(readyQueue) \in Nat
      /\ Len(readyQueue') = Len(readyQueue) + 1 /\ readyQueue'[Len(readyQueue) + 1] = id
      /\ \A i \in 1 .. Len(readyQueue) : readyQueue'[i] = readyQueue[i]
  BY <1>1, <1>4, AppendedEntry DEF TypeOK
<1>6. index' = index /\ index \in 0 .. Len(readyQueue) /\ index' \in 0 .. Len(readyQueue')
      /\ Len(readyQueue') \in index' + 1 .. Len(readyQueue')
  BY <1>1, <1>5 DEF TypeOK, sliceVars
<1>7. TypeOK'
  <2>1. status' \in [Ids -> Statuses]
    BY <1>1, <1>2 DEF Statuses
  <2>2. pc' \in [Ids -> Pcs] /\ callStack' \in [Ids -> Seq(Pcs)]
        /\ unbreakable' \in [Ids -> BOOLEAN] /\ parent' \in [Ids -> Ids \cup {0}]
        /\ wakeTick' \in [Ids -> Ticks]
    BY <1>1, <1>4, SchedulerAssumption DEF TypeOK
  <2> QED BY <1>1, <1>4, <1>5, <1>6, <2>1, <2>2 DEF TypeOK, Statuses, sliceVars
<1>8. QueuesGrow
  BY <1>1, <1>5 DEF QueuesGrow
<1>9. EntriesHold'
  <2>1. Held(id)'
    BY <1>2, <1>5, <1>6 DEF Held
  <2>2. \A f \in Ids \ {id} : Held(f)'
    BY <1>1, <1>2, <1>6, <1>8, UntouchedStayHeld DEF sliceVars
  <2> QED BY <2>1, <2>2, HeldEach
<1>10. Progress'
  <2>1. \A f \in Ids : f > count' <=> status'[f] = "Inactive"
    BY <1>2, <1>4
  <2>2. running' # 0 => status'[running'] = "Ready"
    BY <1>1, <1>2 DEF RunningIsLive, sliceVars, TypeOK
  <2> QED BY <1>1, <2>1, <2>2 DEF RunningIsLive, sliceVars
<1> QED BY <1>4, <1>7, <1>9, <1>10

LEMMA HostInterrupts ==
  ASSUME IInv, NEW f \in Ids, NEW entry \in Redirects, NEW force, Interrupt(f, entry, force)
  PROVE  IInv'
<1> USE DEF IInv, Progress
<1>1. /\ Live(f)
      /\ pc' = [pc EXCEPT ![f] = entry]
      /\ callStack' = [callStack EXCEPT ![f] = <<>>]
      /\ status' = [status EXCEPT ![f] = "Ready"]
      /\ readyQueue' = IF status[f] = "Ready" THEN readyQueue ELSE Append(readyQueue, f)
      /\ UNCHANGED <<count, parent, unbreakable, waitFor, wakeTick, freeIds, wheel, waiters,
                     tick, sliceVars>>
  BY DEF Interrupt
<1>2. status \in [Ids -> Statuses] /\ status'[f] = "Ready" /\ status' \in [Ids -> Statuses]
      /\ \A g \in Ids \ {f} : status'[g] = status[g]
  BY <1>1 DEF TypeOK, Statuses
<1>3. /\ readyQueue \in Seq(Ids) /\ readyQueue' \in Seq(Ids) /\ Len(readyQueue) \in Nat
      /\ Len(readyQueue') \in Nat /\ Len(readyQueue) <= Len(readyQueue')
      /\ (\A i \in 1 .. Len(readyQueue) : readyQueue'[i] = readyQueue[i])
      /\ (status[f] # "Ready" =>
            Len(readyQueue') = Len(readyQueue) + 1 /\ readyQueue'[Len(readyQueue) + 1] = f)
  BY <1>1, AppendedEntry DEF TypeOK
<1>4. index' = index /\ index \in 0 .. Len(readyQueue) /\ index' \in 0 .. Len(readyQueue')
  BY <1>1, <1>3 DEF TypeOK, sliceVars
<1>5. TypeOK'
  <2>1. pc' \in [Ids -> Pcs] /\ callStack' \in [Ids -> Seq(Pcs)]
    BY <1>1, SchedulerAssumption DEF TypeOK
  <2> QED BY <1>1, <1>2, <1>3, <1>4, <2>1 DEF TypeOK, Statuses, sliceVars
<1>6. QueuesGrow
  BY <1>1, <1>3 DEF QueuesGrow
<1>7. EntriesHold'
  <2>1. Held(f)'
    <3>1. CASE status[f] = "Ready"
      BY <1>1, <1>2, <1>4, <1>6, <3>1, UntouchedStayHeld DEF sliceVars
    <3>2. CASE status[f] # "Ready"
      <4>1. Len(readyQueue') \in index' + 1 .. Len(readyQueue')
        BY <1>3, <1>4, <3>2
      <4> QED BY <1>2, <1>3, <3>2, <4>1 DEF Held
    <3> QED BY <3>1, <3>2
  <2>2. \A g \in Ids \ {f} : Held(g)'
    BY <1>1, <1>2, <1>4, <1>6, UntouchedStayHeld DEF sliceVars
  <2> QED BY <2>1, <2>2, HeldEach
<1>8. FreeIdsExact' /\ OrphanFree'
  <2>1. \A g \in Ids : Live(g)' <=> Live(g)
    BY <1>1, <1>2 DEF Live
  <2>2. LiveIds' = LiveIds
    BY <2>1 DEF LiveIds
  <2>3. \A g \in LiveIds : parent'[g] # 0 => parent'[g] \in Ids /\ Live(parent[g])
    BY <1>1 DEF OrphanFree, TypeOK, LiveIds
  <2>4. OrphanFree'
    BY <1>1, <2>1, <2>2, <2>3 DEF OrphanFree, Live
  <2> QED BY <1>1, <2>1, <2>4 DEF FreeIdsExact, Elements
<1>9. Progress'
  <2>1. \A g \in Ids : g > count' <=> status'[g] = "Inactive"
    BY <1>1, <1>2 DEF Live
  <2>2. running' # 0 => status'[running'] = "Ready"
    BY <1>1, <1>2 DEF RunningIsLive, sliceVars, TypeOK
  <2> QED BY <1>1, <2>1, <2>2 DEF RunningIsLive, sliceVars
<1> QED BY <1>5, <1>7, <1>8, <1>9

\* A host that kills while a command is handled may not kill the fiber that
\* executes it: its id would be free while its slice goes on.
LEMMA HostKills ==
  ASSUME IInv, "KillCaller" \notin Callbacks, NEW f \in Ids, Kill(f)
  PROVE  IInv'
<1> USE DEF IInv, Progress
<1>1. /\ KillFiberTree(f)
      /\ UNCHANGED <<count, parent, pc, callStack, waitFor, wakeTick, queueVars, tick, sliceVars>>
  BY DEF Kill
<1>2. running = 0 \/ running \notin Tree(f)
  BY DEF Kill, HostMayCall
<1>3. /\ status' \in [Ids -> Statuses] /\ unbreakable' \in [Ids -> BOOLEAN]
      /\ freeIds' \in Seq(Ids) /\ FreeIdsExact' /\ OrphanFree'
      /\ \A g \in Ids : g > count <=> status'[g] = "Inactive"
      /\ \A g \in Ids : status'[g] = status[g] \/ (g \in Tree(f) /\ status'[g] = "Terminated")
  <2>1. UNCHANGED <<count, parent>>
    BY <1>1
  <2> QED BY <1>1, <2>1, KillTree
<1>4. TypeOK'
  BY <1>1, <1>3 DEF TypeOK, Statuses, queueVars, sliceVars
<1>5. EntriesHold'
  <2>1. QueuesGrow
    BY <1>1 DEF QueuesGrow, queueVars, TypeOK
  <2>2. ASSUME NEW g \in Ids PROVE Held(g)'
    <3>1. CASE status'[g] = status[g]
      BY <1>1, <2>1, <3>1, UntouchedStayHeld DEF sliceVars
    <3>2. CASE status'[g] = "Terminated"
      BY <3>2 DEF Held
    <3> QED BY <1>3, <3>1, <3>2
  <2> QED BY <2>2, HeldEach
<1>6. Progress'
  <2>1. running' # 0 => status'[running'] = "Ready"
    BY <1>1, <1>2, <1>3 DEF RunningIsLive, sliceVars, TypeOK
  <2> QED BY <1>1, <1>3, <2>1 DEF RunningIsLive, sliceVars
<1> QED BY <1>3, <1>4, <1>5, <1>6

LEMMA HostNotifies ==
  ASSUME IInv, NEW key, NEW level, Notify(key, level)
  PROVE  IInv'
<1> USE DEF IInv, Progress
<1> DEFINE woken == {f \in Elements(waiters) : Satisfied(f, key, level)}
           stay  == {f \in Ids : status[f] = "Waiting"} \ woken
<1>1. /\ status' = [f \in Ids |-> IF f \in woken THEN "Ready" ELSE status[f]]
      /\ readyQueue' = readyQueue \o Firsts(waiters, woken)
      /\ waiters' = Filtered(waiters, stay)
      /\ UNCHANGED <<count, fiberVars, wakeTick, freeIds, wheel, tick, sliceVars>>
  BY DEF Notify
<1>2. \A f \in woken : status[f] = "Waiting"
  BY DEF Satisfied
<1>3. woken \in SUBSET Ids /\ woken \subseteq Elements(waiters)
  <2>1. woken \subseteq Elements(waiters)
    OBVIOUS
  <2>2. waiters \in Seq(Ids)
    BY DEF TypeOK
  <2>3. Elements(waiters) \subseteq Ids
    BY <2>2 DEF Elements
  <2> HIDE DEF woken
  <2> QED BY <2>1, <2>3
<1>4. \A f \in Ids : f \in stay <=> status[f] = "Waiting" /\ f \notin woken
  OBVIOUS
<1> HIDE DEF woken, stay
<1>5. /\ waiters' \in Seq(Ids) /\ Elements(waiters') = Elements(waiters) \cap stay
      /\ Firsts(waiters, woken) \in Seq(Ids)
      /\ Elements(Firsts(waiters, woken)) = woken
  <2>1. waiters \in Seq(Ids)
    BY DEF TypeOK
  <2>2. Firsts(waiters, woken) \in Seq(Ids)
        /\ Elements(Firsts(waiters, woken)) = Elements(waiters) \cap woken
    BY <2>1, FirstsEntries
  <2>3. Filtered(waiters, stay) \in Seq(Ids)
        /\ Elements(Filtered(waiters, stay)) = Elements(waiters) \cap stay
    BY <2>1, FilteredEntries
  <2> QED BY <1>1, <1>3, <2>2, <2>3
<1>6. AddedReady(woken)
  BY <1>1, <1>5, AppendedReady DEF TypeOK
<1>7. /\ status \in [Ids -> Statuses] /\ status' \in [Ids -> Statuses]
      /\ \A g \in woken : status'[g] = "Ready"
      /\ \A g \in Ids \ woken : status'[g] = status[g]
  BY <1>1, <1>3 DEF TypeOK, Statuses
<1>8. TypeOK'
  BY <1>1, <1>5, <1>6, <1>7 DEF TypeOK, Statuses, sliceVars, fiberVars, AddedReady
<1>9. EntriesHold'
  <2> SUFFICES ASSUME NEW g \in Ids PROVE Held(g)'
    BY HeldEach
  <2>1. CASE g \in woken
    BY <1>1, <1>6, <1>7, <2>1 DEF Held, AddedReady, sliceVars
  <2>2. CASE g \notin woken
    <3>1. status'[g] = status[g] /\ Held(g)
      BY <1>7, <2>2 DEF EntriesHold, Held
    <3>2. status'[g] = "Sleeping" => g \in Elements(wheel'[Slot(wakeTick'[g])])
      BY <1>1, <3>1 DEF Held
    <3>3. status'[g] = "Waiting" => g \in Elements(waiters')
      BY <1>4, <1>5, <2>2, <3>1 DEF Held
    <3>4. status'[g] = "Ready" =>
            g = running' \/ \E i \in index' + 1 .. Len(readyQueue') : readyQueue'[i] = g
      BY <1>1, <1>6, <3>1 DEF Held, AddedReady, sliceVars
    <3> QED BY <3>2, <3>3, <3>4 DEF Held
  <2> QED BY <2>1, <2>2
<1>10. SameLife
  BY <1>1, <1>2, <1>7 DEF SameLife, Live, fiberVars, TypeOK
<1>11. FreeIdsExact' /\ OrphanFree' /\ \A g \in Ids : g > count' <=> status'[g] = "Inactive"
  BY <1>10, SameLifeKeeps
<1>12. Progress'
  BY <1>1, <1>2, <1>7, <1>11 DEF RunningIsLive, sliceVars, TypeOK
<1> QED BY <1>8, <1>9, <1>11, <1>12

\* Every queue is rebuilt from the contexts.
LEMMA HostRestores ==
  ASSUME IInv, Restore
  PROVE  IInv'
<1> USE DEF IInv, Progress
<1> DEFINE at(x) == {f \in Ids : status[f] = x}
           sleepers(b) == {f \in Ids : status[f] = "Sleeping" /\ Slot(wakeTick[f]) = b}
<1>1. /\ ~stepping
      /\ readyQueue' = Ascending(at("Ready")) /\ waiters' = Ascending(at("Waiting"))
      /\ freeIds' = Ascending(at("Terminated"))
      /\ wheel' = [b \in DOMAIN wheel |-> Ascending(sleepers(b))]
      /\ UNCHANGED <<count, status, fiberVars, wakeTick, tick, sliceVars>>
  BY DEF Restore
<1>2. \A x : at(x) \in SUBSET Ids /\ \A f \in Ids : f \in at(x) <=> status[f] = x
  OBVIOUS
<1>3. \A b : sleepers(b) \in SUBSET Ids
        /\ \A f \in Ids : f \in sleepers(b) <=> status[f] = "Sleeping" /\ Slot(wakeTick[f]) = b
  OBVIOUS
<1> HIDE DEF at, sleepers
<1>4. /\ readyQueue' \in Seq(Ids) /\ Elements(readyQueue') = at("Ready")
      /\ waiters' \in Seq(Ids) /\ Elements(waiters') = at("Waiting")
      /\ freeIds' \in Seq(Ids) /\ Elements(freeIds') = at("Terminated")
      /\ \A i, j \in 1 .. Len(freeIds') : freeIds'[i] = freeIds'[j] => i = j
  BY <1>1, <1>2, AscendingIds
<1>5. wheel' \in [0 .. WheelSlots - 1 -> Seq(Ids)]
      /\ \A b \in 0 .. WheelSlots - 1 : Elements(wheel'[b]) = sleepers(b)
  <2>1. \A b : Ascending(sleepers(b)) \in Seq(Ids) /\ Elements(Ascending(sleepers(b))) = sleepers(b)
    BY <1>3, AscendingIds
  <2>2. DOMAIN wheel = 0 .. WheelSlots - 1
    BY DEF TypeOK
  <2> QED BY <1>1, <2>1, <2>2
<1>6. TypeOK'
  <2>1. index' \in 0 .. Len(readyQueue')
    BY <1>1, <1>4 DEF sliceVars
  <2> QED BY <1>1, <1>4, <1>5, <2>1 DEF TypeOK, fiberVars, sliceVars
<1>7. EntriesHold'
  <2> SUFFICES ASSUME NEW f \in Ids PROVE Held(f)'
    BY HeldEach
  <2>1. wakeTick[f] \in Ticks /\ Slot(wakeTick[f]) \in 0 .. WheelSlots - 1
    BY TicksWrap DEF TypeOK
  <2>2. status'[f] = "Sleeping" => f \in Elements(wheel'[Slot(wakeTick'[f])])
    BY <1>1, <1>3, <1>5, <2>1
  <2>3. status'[f] = "Waiting" => f \in Elements(waiters')
    BY <1>1, <1>2, <1>4
  <2>4. status'[f] = "Ready" => \E i \in index' + 1 .. Len(readyQueue') : readyQueue'[i] = f
    <3>1. index' = 0 /\ (status'[f] = "Ready" => f \in Elements(readyQueue'))
      BY <1>1, <1>2, <1>4 DEF sliceVars
    <3> QED BY <3>1 DEF Elements
  <2> QED BY <2>2, <2>3, <2>4 DEF Held
<1>8. FreeIdsExact'
  <2>1. \A f \in Ids : f \in at("Terminated") <=> f <= count /\ ~Live(f)
    BY <1>2, IdSets DEF TypeOK, Live, Ids
  <2>2. at("Terminated") = {f \in Ids : f <= count' /\ ~Live(f)'}
    BY <1>1, <1>2, <2>1 DEF Live
  <2> QED BY <1>4, <2>2 DEF FreeIdsExact
<1>9. OrphanFree' /\ Progress'
  BY <1>1 DEF OrphanFree, LiveIds, Live, RunningIsLive, fiberVars, sliceVars
<1> QED BY <1>6, <1>7, <1>8, <1>9

-----------------------------------------------------------------------------
(* The tick. *)

LEMMA TickWakes ==
  ASSUME IInv, StepTick
  PROVE  IInv'
<1> USE DEF IInv, Progress
<1> DEFINE nowAt(step) == (tick + step) % TickMod
           dueAt(step) == {f \in Elements(wheel[Slot(nowAt(step))]) : Due(f, nowAt(step))}
<1>1. PICK step \in TickSteps :
        /\ tick' = nowAt(step)
        /\ status' = [f \in Ids |-> IF f \in dueAt(step) THEN "Ready" ELSE status[f]]
        /\ readyQueue' = readyQueue \o Firsts(wheel[Slot(nowAt(step))], dueAt(step))
        /\ wheel' = [wheel EXCEPT ![Slot(nowAt(step))] =
                        Filtered(wheel[Slot(nowAt(step))], {f \in Ids : status[f] = "Sleeping"} \ dueAt(step))]
  BY DEF StepTick
<1> DEFINE slot == Slot(nowAt(step))
           bucket == wheel[slot]
           woken == dueAt(step)
           stay == {f \in Ids : status[f] = "Sleeping"} \ woken
<1>2. /\ ~stepping /\ stepping'
      /\ UNCHANGED <<count, fiberVars, wakeTick, freeIds, waiters, index, running, budget,
                     inCallback>>
  BY DEF StepTick
<1>3. nowAt(step) \in Ticks /\ slot \in 0 .. WheelSlots - 1
  <2>0. tick \in Nat /\ step \in Nat
    BY SchedulerAssumption, TicksWrap DEF TypeOK
  <2>1. tick + step \in Nat
    BY <2>0
  <2>2. nowAt(step) \in Ticks /\ nowAt(step) \in Nat
    BY <2>1, TicksWrap
  <2> QED BY <2>2, TicksWrap
<1>4. \A f \in woken : status[f] = "Sleeping"
  BY DEF Due
<1>5. bucket \in Seq(Ids) /\ woken \in SUBSET Ids /\ woken \subseteq Elements(bucket)
  <2>1. woken \subseteq Elements(bucket)
    OBVIOUS
  <2>2. bucket \in Seq(Ids)
    <3> HIDE DEF slot
    <3> QED BY <1>3 DEF TypeOK
  <2>3. Elements(bucket) \subseteq Ids
    <3> HIDE DEF bucket
    <3> QED BY <2>2 DEF Elements
  <2> QED BY <2>1, <2>2, <2>3
<1>6. \A f \in Ids : f \in stay <=> status[f] = "Sleeping" /\ f \notin woken
  OBVIOUS
<1>7. /\ status' = [f \in Ids |-> IF f \in woken THEN "Ready" ELSE status[f]]
      /\ readyQueue' = readyQueue \o Firsts(bucket, woken)
      /\ wheel' = [wheel EXCEPT ![slot] = Filtered(bucket, stay)]
      /\ tick' \in Ticks
  BY <1>1, <1>3
<1> HIDE DEF nowAt, dueAt, slot, bucket, woken, stay
<1>8. /\ Filtered(bucket, stay) \in Seq(Ids)
      /\ Elements(Filtered(bucket, stay)) = Elements(bucket) \cap stay
      /\ Firsts(bucket, woken) \in Seq(Ids)
      /\ Elements(Firsts(bucket, woken)) = woken
  <2>1. Firsts(bucket, woken) \in Seq(Ids)
        /\ Elements(Firsts(bucket, woken)) = Elements(bucket) \cap woken
    BY <1>5, FirstsEntries
  <2>2. Filtered(bucket, stay) \in Seq(Ids)
        /\ Elements(Filtered(bucket, stay)) = Elements(bucket) \cap stay
    BY <1>5, FilteredEntries
  <2> QED BY <1>5, <2>1, <2>2
<1>9. AddedReady(woken)
  BY <1>7, <1>8, AppendedReady DEF TypeOK
<1>10. /\ status \in [Ids -> Statuses] /\ status' \in [Ids -> Statuses]
       /\ \A g \in woken : status'[g] = "Ready"
       /\ \A g \in Ids \ woken : status'[g] = status[g]
  BY <1>5, <1>7 DEF TypeOK, Statuses
<1>11. wheel' \in [0 .. WheelSlots - 1 -> Seq(Ids)]
       /\ \A b \in 0 .. WheelSlots - 1 : \A g \in stay :
            g \in Elements(wheel[b]) => g \in Elements(wheel'[b])
  <2>1. wheel \in [0 .. WheelSlots - 1 -> Seq(Ids)]
    BY DEF TypeOK
  <2>2. wheel'[slot] = Filtered(bucket, stay) /\ \A b \in (0 .. WheelSlots - 1) \ {slot} : wheel'[b] = wheel[b]
    BY <1>3, <1>7, <2>1
  <2>3. wheel' \in [0 .. WheelSlots - 1 -> Seq(Ids)]
    BY <1>3, <1>7, <1>8, <2>1
  <2>4. \A g \in stay : g \in Elements(bucket) => g \in Elements(wheel'[slot])
    BY <1>8, <2>2
  <2> QED BY <2>2, <2>3, <2>4 DEF bucket
<1>12. TypeOK'
  BY <1>2, <1>7, <1>9, <1>10, <1>11 DEF TypeOK, Statuses, fiberVars, AddedReady
<1>13. EntriesHold'
  <2> SUFFICES ASSUME NEW g \in Ids PROVE Held(g)'
    BY HeldEach
  <2>1. CASE g \in woken
    BY <1>2, <1>9, <1>10, <2>1 DEF Held, AddedReady
  <2>2. CASE g \notin woken
    <3>1. status'[g] = status[g] /\ Held(g)
      BY <1>10, <2>2 DEF EntriesHold, Held
    <3>2. wakeTick[g] \in Ticks /\ Slot(wakeTick[g]) \in 0 .. WheelSlots - 1
      BY TicksWrap DEF TypeOK
    <3>3. status'[g] = "Sleeping" => g \in Elements(wheel'[Slot(wakeTick'[g])])
      BY <1>2, <1>6, <1>11, <2>2, <3>1, <3>2 DEF Held
    <3>4. status'[g] = "Waiting" => g \in Elements(waiters')
      BY <1>2, <3>1 DEF Held
    <3>5. status'[g] = "Ready" =>
            g = running' \/ \E i \in index' + 1 .. Len(readyQueue') : readyQueue'[i] = g
      BY <1>2, <1>9, <3>1 DEF Held, AddedReady
    <3> QED BY <3>3, <3>4, <3>5 DEF Held
  <2> QED BY <2>1, <2>2
<1>14. SameLife
  BY <1>2, <1>4, <1>10 DEF SameLife, Live, fiberVars, TypeOK
<1>15. FreeIdsExact' /\ OrphanFree' /\ \A g \in Ids : g > count' <=> status'[g] = "Inactive"
  BY <1>14, SameLifeKeeps
<1>16. Progress'
  BY <1>2, <1>15 DEF RunningIsLive
<1> QED BY <1>12, <1>13, <1>15, <1>16

LEMMA TickTakesReady ==
  ASSUME IInv, NextReady
  PROVE  IInv'
<1> USE DEF IInv, Progress
<1>1. /\ stepping /\ running = 0 /\ index < Len(readyQueue) /\ index' = index + 1
      /\ UNCHANGED <<count, status, fiberVars, wakeTick, freeIds, queueVars, tick, stepping,
                     inCallback>>
  BY DEF NextReady
<1>2. /\ index \in Nat /\ Len(readyQueue) \in Nat
      /\ index + 1 \in 1 .. Len(readyQueue) /\ readyQueue[index + 1] \in Ids
  BY <1>1 DEF TypeOK
<1>3. \/ /\ status[readyQueue[index + 1]] = "Ready"
         /\ running' = readyQueue[index + 1] /\ budget' = SliceBudget
      \/ /\ status[readyQueue[index + 1]] # "Ready"
         /\ UNCHANGED <<running, budget>>
  BY DEF NextReady
<1>4. TypeOK'
  <2>1. index' \in 0 .. Len(readyQueue) /\ running' \in Ids \cup {0} /\ budget' \in Nat
    BY <1>1, <1>2, <1>3, SchedulerAssumption DEF TypeOK
  <2> QED BY <1>1, <2>1 DEF TypeOK, fiberVars, queueVars
<1>5. EntriesHold'
  <2> SUFFICES ASSUME NEW g \in Ids PROVE Held(g)'
    BY HeldEach
  <2>1. Held(g)
    BY DEF EntriesHold, Held
  <2>2. ASSUME status[g] = "Ready"
        PROVE  g = running' \/ \E i \in index' + 1 .. Len(readyQueue) : readyQueue[i] = g
    <3>1. PICK i \in index + 1 .. Len(readyQueue) : readyQueue[i] = g
      BY <1>1, <2>1, <2>2 DEF Held, Ids
    <3>2. CASE i = index + 1
      BY <1>3, <2>2, <3>1, <3>2
    <3>3. CASE i # index + 1
      BY <1>1, <1>2, <3>1, <3>3
    <3> QED BY <3>2, <3>3
  <2> QED BY <1>1, <2>1, <2>2 DEF Held, queueVars
<1>6. FreeIdsExact' /\ OrphanFree' /\ Progress'
  BY <1>1, <1>3 DEF FreeIdsExact, OrphanFree, LiveIds, Live, RunningIsLive, fiberVars, Elements
<1> QED BY <1>4, <1>5, <1>6

LEMMA TickEndsDrained ==
  ASSUME IInv, EndTick
  PROVE  IInv'
<1> USE DEF IInv, Progress
<1>1. /\ running = 0 /\ index >= Len(readyQueue)
      /\ readyQueue' = <<>> /\ index' = 0 /\ ~stepping' /\ stepping' \in BOOLEAN
      /\ UNCHANGED <<count, status, fiberVars, wakeTick, freeIds, wheel, waiters, tick, running,
                     budget, inCallback>>
  BY DEF EndTick
<1>2. readyQueue' \in Seq(Ids) /\ index' \in 0 .. Len(readyQueue')
  BY <1>1
<1>3. TypeOK'
  BY <1>1, <1>2 DEF TypeOK, fiberVars
<1>4. EntriesHold'
  <2> SUFFICES ASSUME NEW g \in Ids PROVE Held(g)'
    BY HeldEach
  <2>1. Held(g) /\ g # 0
    BY DEF EntriesHold, Held, Ids
  <2>2. status[g] # "Ready"
    BY <1>1, <2>1 DEF Held, TypeOK
  <2> QED BY <1>1, <2>1, <2>2 DEF Held
<1>5. FreeIdsExact' /\ OrphanFree' /\ Progress'
  BY <1>1 DEF FreeIdsExact, OrphanFree, LiveIds, Live, RunningIsLive, fiberVars, Elements
<1> QED BY <1>3, <1>4, <1>5

-----------------------------------------------------------------------------
(* The slice of a fiber. *)

LEMMA Executing ==
  ASSUME IInv, NEW op, Executes(op)
  PROVE  /\ running \in Ids /\ running # 0 /\ status[running] = "Ready" /\ ~inCallback
         /\ pc[running] \in CodePcs /\ pc[running] + 1 \in Pcs
         /\ Instruction.target \in Pcs /\ Instruction = Code[pc[running]]
         /\ Instruction.op = op
         /\ budget' \in Nat
<1>1. running # 0 /\ ~inCallback /\ pc[running] \in CodePcs /\ budget > 0 /\ budget' = budget - 1
      /\ Code[pc[running]].op = op
  BY DEF Executes
<1>2. running \in Ids /\ status[running] = "Ready" /\ budget \in Nat
  BY <1>1 DEF IInv, TypeOK, Progress, RunningIsLive
<1>3. pc[running] + 1 \in Pcs /\ Code[pc[running]].target \in Pcs
  BY <1>1, Program
<1>4. budget' \in Nat
  BY <1>1, <1>2
<1> HIDE DEF CodePcs, Pcs
<1> QED BY <1>1, <1>2, <1>3, <1>4 DEF Instruction

\* Steps of a program that leave the scheduler alone.
LEMMA ProgramMoves ==
  ASSUME IInv,
         UNCHANGED <<count, status, parent, waitFor, wakeTick, freeIds, queueVars, tick, index,
                     stepping, running>>,
         pc' \in [Ids -> Pcs], callStack' \in [Ids -> Seq(Pcs)],
         unbreakable' \in [Ids -> BOOLEAN], budget' \in Nat, inCallback' \in BOOLEAN,
         inCallback' => running # 0
  PROVE  IInv'
<1>1. TypeOK'
  BY DEF IInv, TypeOK, queueVars
<1>2. EntriesHold'
  BY DEF IInv, EntriesHold, Elements, queueVars
<1>3. SameLife
  BY DEF SameLife, Live
<1>4. FreeIdsExact' /\ OrphanFree' /\ \A g \in Ids : g > count' <=> status'[g] = "Inactive"
  BY <1>3, SameLifeKeeps DEF IInv, Progress
<1>5. Progress'
  BY <1>4 DEF IInv, Progress, RunningIsLive
<1> QED BY <1>1, <1>2, <1>4, <1>5 DEF IInv

LEMMA FiberSteps ==
  ASSUME IInv, Step
  PROVE  IInv'
<1>1. running \in Ids /\ running # 0 /\ ~inCallback /\ budget' \in Nat
      /\ pc[running] + 1 \in Pcs /\ Instruction.target \in Pcs
  BY Executing DEF Step
<1>2. pc' = [pc EXCEPT ![running] = pc[running] + 1] \/ pc' = [pc EXCEPT ![running] = Instruction.target]
  BY DEF Step, Advance, GoTo
<1>3. pc' \in [Ids -> Pcs]
  <2>1. pc \in [Ids -> Pcs]
    BY DEF IInv, TypeOK
  <2> HIDE DEF Pcs
  <2> QED BY <1>1, <1>2, <2>1
<1>4. /\ UNCHANGED <<count, status, parent, waitFor, wakeTick, freeIds, queueVars, tick, index,
                     stepping, running, callStack, unbreakable, inCallback>>
  BY DEF Step, Continue
<1>5. callStack' \in [Ids -> Seq(Pcs)] /\ unbreakable' \in [Ids -> BOOLEAN] /\ inCallback' \in BOOLEAN
  BY <1>4 DEF IInv, TypeOK
<1>6. UNCHANGED <<count, status, parent, waitFor, wakeTick, freeIds, queueVars, tick, index,
                     stepping, running>> /\ (inCallback' => running # 0)
  BY <1>1, <1>4
<1> QED BY <1>1, <1>3, <1>5, <1>6, ProgramMoves

LEMMA FiberCalls ==
  ASSUME IInv, Call
  PROVE  IInv'
<1>1. running \in Ids /\ running # 0 /\ ~inCallback /\ budget' \in Nat
      /\ pc[running] + 1 \in Pcs /\ Instruction.target \in Pcs
  BY Executing DEF Call
<1>2. \/ /\ pc' = [pc EXCEPT ![running] = pc[running] + 1]
         /\ callStack' = callStack
      \/ /\ pc' = [pc EXCEPT ![running] = Instruction.target]
         /\ callStack' = [callStack EXCEPT ![running] = Append(callStack[running], pc[running] + 1)]
  BY DEF Call, Advance, GoTo
<1>3. pc' \in [Ids -> Pcs] /\ callStack' \in [Ids -> Seq(Pcs)]
  <2>1. pc \in [Ids -> Pcs] /\ callStack \in [Ids -> Seq(Pcs)]
    BY DEF IInv, TypeOK
  <2> HIDE DEF Pcs
  <2>2. Append(callStack[running], pc[running] + 1) \in Seq(Pcs)
    BY <1>1, <2>1
  <2> QED BY <1>1, <1>2, <2>1, <2>2
<1>4. /\ UNCHANGED <<count, status, parent, waitFor, wakeTick, freeIds, queueVars, tick, index,
                     stepping, running, unbreakable, inCallback>>
  BY DEF Call, Continue
<1>5. unbreakable' \in [Ids -> BOOLEAN] /\ inCallback' \in BOOLEAN
  BY <1>4 DEF IInv, TypeOK
<1>6. UNCHANGED <<count, status, parent, waitFor, wakeTick, freeIds, queueVars, tick, index,
                     stepping, running>> /\ (inCallback' => running # 0)
  BY <1>1, <1>4
<1> QED BY <1>1, <1>3, <1>5, <1>6, ProgramMoves

LEMMA FiberReturns ==
  ASSUME IInv, Return
  PROVE  IInv'
<1>1. running \in Ids /\ running # 0 /\ ~inCallback /\ budget' \in Nat
  BY Executing DEF Return
<1> DEFINE stack == callStack[running]
<1>2. /\ stack # <<>>
      /\ pc' = [pc EXCEPT ![running] = stack[Len(stack)]]
      /\ callStack' = [callStack EXCEPT ![running] = SubSeq(stack, 1, Len(stack) - 1)]
  BY DEF Return, GoTo
<1>3. pc' \in [Ids -> Pcs] /\ callStack' \in [Ids -> Seq(Pcs)]
  <2>1. pc \in [Ids -> Pcs] /\ callStack \in [Ids -> Seq(Pcs)]
    BY DEF IInv, TypeOK
  <2> HIDE DEF Pcs
  <2>2. stack \in Seq(Pcs)
    BY <1>1, <2>1
  <2> HIDE DEF stack
  <2>3. stack[Len(stack)] \in Pcs /\ SubSeq(stack, 1, Len(stack) - 1) \in Seq(Pcs)
    BY <1>2, <2>2, PoppedEntry
  <2> QED BY <1>1, <1>2, <2>1, <2>3
<1>4. /\ UNCHANGED <<count, status, parent, waitFor, wakeTick, freeIds, queueVars, tick, index,
                     stepping, running, unbreakable, inCallback>>
  BY DEF Return, Continue
<1>5. unbreakable' \in [Ids -> BOOLEAN] /\ inCallback' \in BOOLEAN
  BY <1>4 DEF IInv, TypeOK
<1>6. UNCHANGED <<count, status, parent, waitFor, wakeTick, freeIds, queueVars, tick, index,
                     stepping, running>> /\ (inCallback' => running # 0)
  BY <1>1, <1>4
<1> QED BY <1>1, <1>3, <1>5, <1>6, ProgramMoves

LEMMA FiberGuards ==
  ASSUME IInv, SetUnbreakable
  PROVE  IInv'
<1>1. running \in Ids /\ running # 0 /\ ~inCallback /\ budget' \in Nat
      /\ pc[running] \in CodePcs /\ pc[running] + 1 \in Pcs /\ Instruction = Code[pc[running]]
  BY Executing DEF SetUnbreakable
<1>2. Instruction.flag \in BOOLEAN
  BY <1>1, SchedulerAssumption
<1>3. /\ pc' = [pc EXCEPT ![running] = pc[running] + 1]
      /\ unbreakable' = [unbreakable EXCEPT ![running] = Instruction.flag]
      /\ UNCHANGED <<count, status, parent, waitFor, wakeTick, freeIds, queueVars, tick, index,
                     stepping, running, callStack, inCallback>>
  BY DEF SetUnbreakable, Advance, GoTo, Continue
<1>4. pc' \in [Ids -> Pcs] /\ callStack' \in [Ids -> Seq(Pcs)]
      /\ unbreakable' \in [Ids -> BOOLEAN] /\ inCallback' \in BOOLEAN
  <2>1. pc \in [Ids -> Pcs] /\ callStack \in [Ids -> Seq(Pcs)] /\ inCallback \in BOOLEAN
        /\ unbreakable \in [Ids -> BOOLEAN]
    BY DEF IInv, TypeOK
  <2> HIDE DEF Pcs
  <2> QED BY <1>1, <1>2, <1>3, <2>1
<1>5. UNCHANGED <<count, status, parent, waitFor, wakeTick, freeIds, queueVars, tick, index,
                     stepping, running>> /\ (inCallback' => running # 0)
  BY <1>1, <1>3
<1> QED BY <1>1, <1>4, <1>5, ProgramMoves

LEMMA FiberCallsHost ==
  ASSUME IInv, HostCommand \/ HostReturns
  PROVE  IInv'
<1>1. UNCHANGED <<count, status, parent, callStack, unbreakable, waitFor, wakeTick, freeIds,
                  queueVars, tick, index, stepping, running>>
  BY DEF HostCommand, HostReturns, fiberVars
<1>2. pc' \in [Ids -> Pcs] /\ budget' \in Nat /\ inCallback' \in BOOLEAN
      /\ (inCallback' => running # 0)
  <2>1. CASE HostCommand
    BY <2>1, Executing DEF HostCommand, IInv, TypeOK, fiberVars
  <2>2. CASE HostReturns
    <3>1. pc \in [Ids -> Pcs] /\ budget \in Nat /\ running \in Ids
      BY <2>2 DEF HostReturns, IInv, TypeOK, Progress
    <3>2. pc[running] < EndPc => pc[running] + 1 \in Pcs
      BY <3>1, Program DEF Pcs
    <3> HIDE DEF Pcs, EndPc
    <3>3. pc' = [pc EXCEPT ![running] = IF pc[running] < EndPc THEN pc[running] + 1 ELSE pc[running]]
          /\ ~inCallback' /\ inCallback' \in BOOLEAN /\ budget' = budget
      BY <2>2 DEF HostReturns
    <3> QED BY <3>1, <3>2, <3>3
  <2> QED BY <2>1, <2>2
<1>3. callStack' \in [Ids -> Seq(Pcs)] /\ unbreakable' \in [Ids -> BOOLEAN]
  BY <1>1 DEF IInv, TypeOK
<1>4. UNCHANGED <<count, status, parent, waitFor, wakeTick, freeIds, queueVars, tick, index,
                     stepping, running>>
  BY <1>1
<1> QED BY <1>2, <1>3, <1>4, ProgramMoves

\* An entry is put into a bucket of the wheel.
LEMMA PutIntoWheel ==
  ASSUME wheel \in [0 .. WheelSlots - 1 -> Seq(Ids)], NEW b \in 0 .. WheelSlots - 1,
         NEW f \in Ids, wheel' = [wheel EXCEPT ![b] = Append(wheel[b], f)]
  PROVE  /\ wheel' \in [0 .. WheelSlots - 1 -> Seq(Ids)]
         /\ f \in Elements(wheel'[b])
         /\ \A c \in 0 .. WheelSlots - 1 : Elements(wheel[c]) \subseteq Elements(wheel'[c])
<1> DEFINE bucket == wheel[b]
<1>1. bucket \in Seq(Ids)
  OBVIOUS
<1>2. Append(bucket, f) \in Seq(Ids)
      /\ Elements(Append(bucket, f)) = Elements(bucket) \cup {f}
  BY <1>1, AppendedEntry
<1>3. wheel'[b] = Append(bucket, f)
      /\ \A c \in (0 .. WheelSlots - 1) \ {b} : wheel'[c] = wheel[c]
  OBVIOUS
<1>4. wheel' \in [0 .. WheelSlots - 1 -> Seq(Ids)]
  BY <1>2
<1> QED BY <1>2, <1>3, <1>4

\* The running fiber is put into the wheel and leaves.
LEMMA FiberSleeps ==
  ASSUME IInv, running # 0, NEW at \in Ticks,
         status' = [status EXCEPT ![running] = "Sleeping"],
         wakeTick' = [wakeTick EXCEPT ![running] = at],
         wheel' = [wheel EXCEPT ![Slot(at)] = Append(wheel[Slot(at)], running)],
         pc' \in [Ids -> Pcs], budget' \in Nat, ~inCallback,
         running' = 0,
         UNCHANGED <<count, parent, callStack, unbreakable, waitFor, freeIds, readyQueue, waiters,
                     tick, index, stepping, inCallback>>
  PROVE  IInv'
<1>1. /\ running \in Ids /\ status \in [Ids -> Statuses] /\ status[running] = "Ready"
      /\ wheel \in [0 .. WheelSlots - 1 -> Seq(Ids)] /\ wakeTick \in [Ids -> Ticks]
  BY DEF IInv, TypeOK, Progress, RunningIsLive, Statuses
<1>2. Slot(at) \in 0 .. WheelSlots - 1
  BY TicksWrap
<1>3. status'[running] = "Sleeping" /\ status' \in [Ids -> Statuses]
      /\ \A g \in Ids \ {running} : status'[g] = status[g] /\ wakeTick'[g] = wakeTick[g]
  BY <1>1 DEF Statuses
<1>4. wheel' \in [0 .. WheelSlots - 1 -> Seq(Ids)]
      /\ running \in Elements(wheel'[Slot(at)])
      /\ \A b \in 0 .. WheelSlots - 1 : Elements(wheel[b]) \subseteq Elements(wheel'[b])
  BY <1>1, <1>2, PutIntoWheel
<1>5. TypeOK'
  <2>1. wakeTick' \in [Ids -> Ticks]
    BY <1>1
  <2> QED BY <1>3, <1>4, <2>1 DEF IInv, TypeOK, Statuses
<1>6. EntriesHold'
  <2>1. QueuesGrow
    BY <1>4 DEF QueuesGrow, IInv, TypeOK
  <2>2. Held(running)
        => \A g \in Ids : g = running => Held(g)'
    <3>1. wakeTick'[running] = at
      BY <1>1
    <3> QED BY <1>3, <1>4, <3>1 DEF Held
  <2>3. Held(running)
    BY <1>1 DEF IInv, EntriesHold, Held
  <2>4. \A g \in Ids \ {running} : Held(g)'
    BY <1>3, <2>1, UntouchedStayHeld DEF IInv
  <2> QED BY <2>2, <2>3, <2>4, HeldEach
<1>7. SameLife
  BY <1>1, <1>3 DEF SameLife, Live
<1>8. FreeIdsExact' /\ OrphanFree' /\ \A g \in Ids : g > count' <=> status'[g] = "Inactive"
  BY <1>7, SameLifeKeeps DEF IInv, Progress
<1>9. Progress'
  BY <1>8 DEF IInv, Progress, RunningIsLive
<1> QED BY <1>5, <1>6, <1>8, <1>9 DEF IInv

LEMMA WakeTicks ==
  ASSUME IInv, NEW ticks \in Nat
  PROVE  (tick + ticks) % TickMod \in Ticks
<1>1. tick \in Nat
  BY TicksWrap DEF IInv, TypeOK
<1>2. tick + ticks \in Nat
  BY <1>1
<1> QED BY <1>2, TicksWrap

LEMMA FiberYields ==
  ASSUME IInv, Yield
  PROVE  IInv'
<1>1. running \in Ids /\ running # 0 /\ ~inCallback /\ budget' \in Nat
      /\ pc[running] \in CodePcs /\ pc[running] + 1 \in Pcs /\ Instruction = Code[pc[running]]
  BY Executing DEF Yield
<1>2. PICK ticks \in Instruction.ticks : ScheduleAtTick(running, IF ticks > 0 THEN ticks ELSE 1)
  BY DEF Yield
<1> DEFINE delay == IF ticks > 0 THEN ticks ELSE 1
           at == (tick + delay) % TickMod
<1>3. Instruction.ticks \subseteq 0 .. TickMod - 1 /\ TickMod \in Nat
  BY <1>1, SchedulerAssumption
<1>4. delay \in Nat
  BY <1>2, <1>3
<1>5. /\ wakeTick' = [wakeTick EXCEPT ![running] = at]
      /\ wheel' = [wheel EXCEPT ![Slot(at)] = Append(wheel[Slot(at)], running)]
  BY <1>2 DEF ScheduleAtTick
<1> HIDE DEF delay
<1>6. at \in Ticks
  BY <1>4, WakeTicks
<1> HIDE DEF at
<1>7. /\ status' = [status EXCEPT ![running] = "Sleeping"]
      /\ pc' = [pc EXCEPT ![running] = pc[running] + 1]
      /\ running' = 0
      /\ UNCHANGED <<count, parent, callStack, unbreakable, waitFor, freeIds, readyQueue, waiters,
                     tick, index, stepping, inCallback>>
  BY DEF Yield, Advance, GoTo, Leave
<1>8. pc' \in [Ids -> Pcs]
  <2>1. pc \in [Ids -> Pcs]
    BY DEF IInv, TypeOK
  <2> HIDE DEF Pcs
  <2> QED BY <1>1, <1>7, <2>1
<1> QED BY <1>1, <1>5, <1>6, <1>7, <1>8, FiberSleeps

LEMMA FiberWaits ==
  ASSUME IInv, Wait
  PROVE  IInv'
<1>1. /\ running \in Ids /\ running # 0 /\ ~inCallback /\ budget' \in Nat
      /\ status[running] = "Ready"
      /\ pc[running] \in CodePcs /\ pc[running] + 1 \in Pcs /\ Instruction = Code[pc[running]]
  BY Executing DEF Wait
<1>2. /\ status' = [status EXCEPT ![running] = "Waiting"]
      /\ waitFor' = [waitFor EXCEPT ![running] =
                        [key |-> Instruction.key, level |-> Instruction.level]]
      /\ waiters' = Append(waiters, running)
      /\ pc' = [pc EXCEPT ![running] = pc[running] + 1]
      /\ running' = 0
      /\ UNCHANGED <<count, parent, callStack, unbreakable, wakeTick, freeIds, readyQueue, wheel,
                     tick, index, stepping, inCallback>>
  BY DEF Wait, Advance, GoTo, Leave
<1>3. /\ status \in [Ids -> Statuses] /\ status'[running] = "Waiting" /\ status' \in [Ids -> Statuses]
      /\ \A g \in Ids \ {running} : status'[g] = status[g]
  BY <1>1, <1>2 DEF IInv, TypeOK, Statuses
<1>4. waiters' \in Seq(Ids) /\ Elements(waiters') = Elements(waiters) \cup {running}
  BY <1>1, <1>2, AppendedEntry DEF IInv, TypeOK
<1>5. TypeOK'
  <2>1. pc' \in [Ids -> Pcs]
    <3>1. pc \in [Ids -> Pcs]
      BY DEF IInv, TypeOK
    <3> HIDE DEF Pcs
    <3> QED BY <1>1, <1>2, <3>1
  <2>2. waitFor' \in [Ids -> [key : Keys, level : Nat]]
    <3>1. Instruction.key \in Keys /\ Instruction.level \in Nat
      BY <1>1, SchedulerAssumption
    <3>2. waitFor \in [Ids -> [key : Keys, level : Nat]]
      BY DEF IInv, TypeOK
    <3> QED BY <1>1, <1>2, <3>1, <3>2
  <2> QED BY <1>1, <1>2, <1>3, <1>4, <2>1, <2>2 DEF IInv, TypeOK, Statuses
<1>6. EntriesHold'
  <2>1. QueuesGrow
    BY <1>2, <1>4 DEF QueuesGrow, IInv, TypeOK
  <2>2. \A g \in Ids \ {running} : Held(g)'
    BY <1>2, <1>3, <2>1, UntouchedStayHeld DEF IInv
  <2>3. \A g \in Ids : g = running => Held(g)'
    BY <1>3, <1>4 DEF Held
  <2> QED BY <2>2, <2>3, HeldEach
<1>7. SameLife
  BY <1>1, <1>2, <1>3 DEF SameLife, Live
<1>8. FreeIdsExact' /\ OrphanFree' /\ \A g \in Ids : g > count' <=> status'[g] = "Inactive"
  BY <1>7, SameLifeKeeps DEF IInv, Progress
<1>9. Progress'
  BY <1>1, <1>2, <1>8 DEF IInv, Progress, RunningIsLive
<1> QED BY <1>5, <1>6, <1>8, <1>9 DEF IInv

\* The running fiber and its descendants die.
LEMMA FiberDies ==
  ASSUME IInv, running # 0, ~inCallback, KillFiberTree(running), running' = 0, budget' \in Nat,
         UNCHANGED <<count, parent, pc, callStack, waitFor, wakeTick, queueVars, tick, index,
                     stepping, inCallback>>
  PROVE  IInv'
<1>1. running \in Ids
  BY DEF IInv, TypeOK
<1>2. /\ status' \in [Ids -> Statuses] /\ unbreakable' \in [Ids -> BOOLEAN]
      /\ freeIds' \in Seq(Ids) /\ FreeIdsExact' /\ OrphanFree'
      /\ \A g \in Ids : g > count <=> status'[g] = "Inactive"
      /\ \A g \in Ids : status'[g] = status[g] \/ status'[g] = "Terminated"
      /\ status'[running] \in {"Inactive", "Terminated"}
  <2>1. UNCHANGED <<count, parent>>
    OBVIOUS
  <2> QED BY <1>1, <2>1, KillTree DEF IInv, Progress
<1>3. TypeOK'
  BY <1>2 DEF IInv, TypeOK, Statuses, queueVars
<1>4. EntriesHold'
  <2>1. QueuesGrow
    BY DEF QueuesGrow, queueVars, IInv, TypeOK
  <2>2. ASSUME NEW g \in Ids PROVE Held(g)'
    <3>1. CASE status'[g] = status[g]
      BY <1>2, <2>1, <3>1, UntouchedStayHeld DEF IInv
    <3>2. CASE status'[g] = "Terminated"
      BY <3>2 DEF Held
    <3> QED BY <1>2, <3>1, <3>2
  <2> QED BY <2>2, HeldEach
<1>5. Progress'
  BY <1>2 DEF IInv, Progress, RunningIsLive
<1> QED BY <1>2, <1>3, <1>4, <1>5 DEF IInv

LEMMA FiberExits ==
  ASSUME IInv, Exit
  PROVE  IInv'
<1>1. running # 0 /\ ~inCallback /\ budget' \in Nat
  BY Executing DEF Exit
<1> QED BY <1>1, FiberDies DEF Exit, Leave

LEMMA SliceEnds ==
  ASSUME IInv, EndSlice
  PROVE  IInv'
<1>1. /\ running # 0 /\ ~inCallback /\ running' = 0 /\ budget' \in Nat
      /\ UNCHANGED <<count, parent, pc, callStack, waitFor, readyQueue, waiters, tick, index,
                     stepping, inCallback>>
  BY DEF EndSlice, Leave, IInv, TypeOK
<1>2. CASE pc[running] \notin CodePcs
  BY <1>1, <1>2, FiberDies DEF EndSlice, queueVars
<1>3. CASE pc[running] \in CodePcs
  <2> DEFINE at == (tick + 1) % TickMod
  <2>1. status[running] = "Ready"
    BY <1>1 DEF IInv, Progress, RunningIsLive
  <2>2. /\ status' = [status EXCEPT ![running] = "Sleeping"]
        /\ wakeTick' = [wakeTick EXCEPT ![running] = at]
        /\ wheel' = [wheel EXCEPT ![Slot(at)] = Append(wheel[Slot(at)], running)]
        /\ UNCHANGED <<unbreakable, freeIds>>
    BY <1>3, <2>1 DEF EndSlice, ScheduleAtTick
  <2>3. at \in Ticks
    BY WakeTicks
  <2>4. pc' \in [Ids -> Pcs]
    BY <1>1 DEF IInv, TypeOK
  <2> HIDE DEF at
  <2> QED BY <1>1, <2>2, <2>3, <2>4, FiberSleeps
<1> QED BY <1>2, <1>3

\* The parent is put into the wheel and the child at the end of the ready queue.
LEMMA FiberForks ==
  ASSUME IInv, Fork
  PROVE  IInv'
<1> DEFINE at == (tick + 1) % TickMod
<1>1. /\ running \in Ids /\ running # 0 /\ ~inCallback /\ budget' \in Nat
      /\ status[running] = "Ready" /\ status \in [Ids -> Statuses]
      /\ pc[running] + 1 \in Pcs /\ Instruction.target \in Pcs
  BY Executing DEF Fork, IInv, TypeOK, Statuses
<1> PICK id \in Ids : id = NextId
  BY DEF Fork, SpawnFiber
<1>2. /\ wheel' = [wheel EXCEPT ![Slot(at)] = Append(wheel[Slot(at)], running)]
      /\ SpawnFiber(Instruction.target, running)
      /\ status' = [status EXCEPT ![running] = "Sleeping", ![id] = "Ready"]
      /\ wakeTick' = [wakeTick EXCEPT ![running] = at, ![id] = tick]
      /\ pc' = [pc EXCEPT ![running] = pc[running] + 1, ![id] = Instruction.target]
      /\ running' = 0
      /\ UNCHANGED <<waitFor, waiters, tick, index, stepping, inCallback>>
  BY DEF Fork, Leave
<1>3. at \in Ticks
  BY WakeTicks
<1> HIDE DEF at
<1>4. Slot(at) \in 0 .. WheelSlots - 1
  BY <1>3, TicksWrap
<1>5. \A g \in Ids \ {id} : Live(g)' <=> Live(g)
  BY <1>1, <1>2 DEF Live
<1>6. /\ ~Live(id)
      /\ count' \in 0 .. MaxFibers /\ freeIds' \in Seq(Ids)
      /\ parent' = [parent EXCEPT ![id] = running]
      /\ callStack' = [callStack EXCEPT ![id] = <<>>]
      /\ unbreakable' = [unbreakable EXCEPT ![id] = FALSE]
      /\ readyQueue' = Append(readyQueue, id)
      /\ FreeIdsExact' /\ OrphanFree'
      /\ \A g \in Ids : g > count' <=> g > count /\ g # id
  <2>1. status'[id] = "Ready" /\ running \in LiveIds \cup {0}
    BY <1>1, <1>2 DEF LiveIds, Live
  <2>2. TypeOK /\ FreeIdsExact /\ OrphanFree /\ \A g \in Ids : g > count <=> status[g] = "Inactive"
    BY DEF IInv, Progress
  <2> QED BY <1>2, <1>5, <2>1, <2>2, SpawnTakesDead
<1>7. id # running
  BY <1>1, <1>6 DEF Live
<1>8. /\ status'[id] = "Ready" /\ status'[running] = "Sleeping" /\ status' \in [Ids -> Statuses]
      /\ wakeTick'[running] = at
      /\ \A g \in Ids \ {id, running} : status'[g] = status[g] /\ wakeTick'[g] = wakeTick[g]
  BY <1>1, <1>2, <1>7 DEF Statuses, IInv, TypeOK
<1>9. /\ readyQueue \in Seq(Ids) /\ readyQueue' \in Seq(Ids) /\ Len(readyQueue) \in Nat
      /\ Len(readyQueue') = Len(readyQueue) + 1 /\ readyQueue'[Len(readyQueue) + 1] = id
      /\ \A i \in 1 .. Len(readyQueue) : readyQueue'[i] = readyQueue[i]
  BY <1>6, AppendedEntry DEF IInv, TypeOK
<1>10. index' = index /\ index' \in 0 .. Len(readyQueue')
       /\ Len(readyQueue') \in index' + 1 .. Len(readyQueue')
  BY <1>2, <1>9 DEF IInv, TypeOK
<1>11. wheel' \in [0 .. WheelSlots - 1 -> Seq(Ids)]
       /\ running \in Elements(wheel'[Slot(at)])
       /\ \A b \in 0 .. WheelSlots - 1 : Elements(wheel[b]) \subseteq Elements(wheel'[b])
  BY <1>1, <1>2, <1>4, PutIntoWheel DEF IInv, TypeOK
<1>12. TypeOK'
  <2>1. pc' \in [Ids -> Pcs] /\ callStack' \in [Ids -> Seq(Pcs)]
        /\ unbreakable' \in [Ids -> BOOLEAN] /\ parent' \in [Ids -> Ids \cup {0}]
        /\ wakeTick' \in [Ids -> Ticks]
    <3>1. pc \in [Ids -> Pcs] /\ callStack \in [Ids -> Seq(Pcs)] /\ tick \in Ticks
          /\ unbreakable \in [Ids -> BOOLEAN] /\ parent \in [Ids -> Ids \cup {0}]
          /\ wakeTick \in [Ids -> Ticks]
      BY DEF IInv, TypeOK
    <3>2. <<>> \in Seq(Pcs)
      OBVIOUS
    <3> HIDE DEF Pcs, Ticks
    <3> QED BY <1>1, <1>2, <1>3, <1>6, <3>1, <3>2
  <2> QED BY <1>1, <1>2, <1>6, <1>8, <1>9, <1>10, <1>11, <2>1 DEF IInv, TypeOK, Statuses
<1>13. EntriesHold'
  <2>1. QueuesGrow
    BY <1>2, <1>9, <1>11 DEF QueuesGrow
  <2>2. \A g \in Ids \ {id, running} : Held(g)'
    BY <1>8, <1>10, <2>1, UntouchedStayHeld DEF IInv
  <2>3. Held(id)'
    BY <1>8, <1>9, <1>10 DEF Held
  <2>4. \A g \in Ids : g = running => Held(g)'
    BY <1>8, <1>11 DEF Held
  <2> QED BY <2>2, <2>3, <2>4, HeldEach
<1>14. Progress'
  <2>1. \A g \in Ids : g > count' <=> status'[g] = "Inactive"
    BY <1>1, <1>6, <1>8 DEF IInv, Progress
  <2> QED BY <1>1, <1>2, <2>1 DEF IInv, Progress, RunningIsLive
<1> QED BY <1>6, <1>12, <1>13, <1>14 DEF IInv

-----------------------------------------------------------------------------
(* The theorems. *)

LEMMA InitEstablishes == Init => IInv
<1> SUFFICES ASSUME Init PROVE IInv
  OBVIOUS
<1>1. \A f \in Ids : status[f] = "Inactive" /\ f > 0
  BY DEF Init, Ids
<1>2. count = 0 /\ freeIds = <<>> /\ readyQueue = <<>> /\ index = 0 /\ running = 0
      /\ ~stepping /\ ~inCallback
  BY DEF Init
<1>3. Len(readyQueue) = 0 /\ Len(freeIds) = 0 /\ Elements(freeIds) = {}
  BY <1>2 DEF Elements
<1>4. TypeOK
  <2>1. waitFor \in [Ids -> [key : Keys, level : Nat]]
    <3>1. (CHOOSE k \in Keys : TRUE) \in Keys
      BY SchedulerAssumption
    <3>2. \A w \in {[key |-> k, level |-> 0] : k \in {CHOOSE k \in Keys : TRUE}} :
            w \in [key : Keys, level : Nat]
      BY <3>1
    <3> QED BY <3>2 DEF Init
  <2>2. 0 \in Pcs /\ 0 \in Ticks
    BY Program, TicksWrap DEF Pcs
  <2>3. count \in 0 .. MaxFibers
    BY <1>2, SchedulerAssumption
  <2>4. callStack \in [Ids -> Seq(Pcs)] /\ wheel \in [0 .. WheelSlots - 1 -> Seq(Ids)]
    BY DEF Init
  <2>5. pc \in [Ids -> Pcs] /\ wakeTick \in [Ids -> Ticks] /\ tick \in Ticks
    BY <2>2 DEF Init
  <2>6. status \in [Ids -> {"Inactive", "Ready", "Sleeping", "Waiting", "Terminated"}]
        /\ parent \in [Ids -> Ids \cup {0}] /\ unbreakable \in [Ids -> BOOLEAN] /\ budget \in Nat
        /\ waiters \in Seq(Ids)
    BY DEF Init
  <2>7. stepping \in BOOLEAN /\ inCallback \in BOOLEAN /\ running \in Ids \cup {0}
    BY DEF Init
  <2>8. freeIds \in Seq(Ids) /\ readyQueue \in Seq(Ids) /\ index \in 0 .. Len(readyQueue)
    BY <1>2, <1>3
  <2> QED BY <2>1, <2>3, <2>4, <2>5, <2>6, <2>7, <2>8 DEF TypeOK
<1>5. FreeIdsExact
  BY <1>1, <1>2, <1>3, IdSets DEF FreeIdsExact, Ids
<1>6. EntriesHold /\ OrphanFree
  BY <1>1 DEF EntriesHold, OrphanFree, LiveIds, Live
<1>7. Progress
  BY <1>1, <1>2 DEF Progress, RunningIsLive, Ids
<1> QED BY <1>4, <1>5, <1>6, <1>7 DEF IInv

LEMMA NextPreserves ==
  ASSUME IInv, "KillCaller" \notin Callbacks, [Next]_vars
  PROVE  IInv'
<1>1. CASE Host
  BY <1>1, HostSpawns, HostInterrupts, HostKills, HostNotifies, HostRestores DEF Host
<1>2. CASE StepTick
  BY <1>2, TickWakes
<1>3. CASE Slice
  BY <1>3, TickTakesReady, TickEndsDrained, FiberSteps, FiberCalls, FiberReturns, FiberExits,
     FiberYields, FiberWaits, FiberForks, FiberGuards, FiberCallsHost, SliceEnds DEF Slice
<1>4. CASE UNCHANGED vars
  <2>1. TypeOK' /\ EntriesHold'
    BY <1>4 DEF IInv, TypeOK, EntriesHold, Elements, vars, fiberVars, queueVars, sliceVars
  <2>2. SameLife
    BY <1>4 DEF SameLife, Live, vars, fiberVars
  <2>3. FreeIdsExact' /\ OrphanFree' /\ \A g \in Ids : g > count' <=> status'[g] = "Inactive"
    BY <2>2, SameLifeKeeps DEF IInv, Progress
  <2>4. Progress'
    BY <1>4, <2>3 DEF IInv, Progress, RunningIsLive, vars, sliceVars
  <2> QED BY <2>1, <2>3, <2>4 DEF IInv
<1> QED BY <1>1, <1>2, <1>3, <1>4 DEF Next

\* What follows holds when no host kills, from the handler of a command, the
\* fiber that executes the command or one of its ancestors.

\* In every reachable state the tables have their types, the free list is exact,
\* every live fiber is where it is looked for and has a live parent.
THEOREM Invariance ==
  ASSUME "KillCaller" \notin Callbacks
  PROVE  Spec => []IInv
<1>1. IInv /\ [Next]_vars => IInv'
  BY NextPreserves
<1> QED BY <1>1, InitEstablishes, PTL DEF Spec

\* The free list is exactly the dead ids, each once: no id is given to two live
\* fibers and none is lost (spawnFiber, killFiberTree, restoreBinarySnapshot).
THEOREM IdsStayExact ==
  ASSUME "KillCaller" \notin Callbacks
  PROVE  Spec => []IdsExact
<1>1. IInv => IdsExact
  BY DEF IInv, IdsExact
<1> QED BY <1>1, Invariance, PTL

\* No live fiber is forgotten by the wheel, the waiters or the ready queue, and a
\* recycled id adopts nobody (scheduleAtTick, notifyBlackboardEvent, stepTick).
THEOREM NobodyForgotten ==
  ASSUME "KillCaller" \notin Callbacks
  PROVE  Spec => []Scheduled
<1>1. IInv => Scheduled
  BY DEF IInv, Scheduled
<1> QED BY <1>1, Invariance, PTL

-----------------------------------------------------------------------------
(* The wheel implements the alarm clock, as long as ticks do not wrap. *)

\* The host steps every tick and no wake tick is past the largest tick.
NoWrap ==
    /\ TickSteps = {1}
    /\ LastTick + 1 < TickMod
    /\ \A p \in CodePcs : \A t \in Code[p].ticks : LastTick + t < TickMod

\* Sleepers wake in the future.
Ahead ==
    /\ tick <= LastTick
    /\ \A f \in Ids : status[f] = "Sleeping" => tick < wakeTick[f]

\* Nobody falls asleep and the tick stays.
NobodyFallsAsleep ==
    /\ tick' = tick
    /\ \A f \in Ids : status'[f] = "Sleeping" => status[f] = "Sleeping" /\ wakeTick'[f] = wakeTick[f]

\* One fiber falls asleep until a later tick and the tick stays.
FallsAsleep(f) ==
    /\ tick' = tick
    /\ status[f] # "Sleeping" /\ status'[f] = "Sleeping" /\ tick < wakeTick'[f]
    /\ \A g \in Ids \ {f} :
        /\ status'[g] = "Sleeping" <=> status[g] = "Sleeping"
        /\ status[g] = "Sleeping" => wakeTick'[g] = wakeTick[g]

LEMMA TicksLeft ==
  ASSUME NEW w \in Ticks, NEW t \in Ticks, t < w
  PROVE  w # t /\ (w - t) % TickMod = w - t /\ w - t \in 1 .. TickMod
<1>1. TickMod \in Nat \ {0} /\ w \in Nat /\ t \in Nat /\ w < TickMod
  BY SchedulerAssumption DEF Ticks
<1>2. w - t \in 0 .. TickMod - 1 /\ w - t \in 1 .. TickMod /\ w # t
  BY <1>1
<1>3. (w - t) % TickMod = w - t
  BY <1>1, <1>2
<1> QED BY <1>2, <1>3

LEMMA RemainingTicks ==
  ASSUME TypeOK, Ahead, NEW f \in Ids
  PROVE  Remaining(f) = IF status[f] = "Sleeping" THEN wakeTick[f] - tick ELSE 0
<1>1. wakeTick[f] \in Ticks /\ tick \in Ticks
  BY DEF TypeOK
<1> QED BY <1>1, TicksLeft DEF Remaining, Ahead

LEMMA RemainingTicksAfter ==
  ASSUME TypeOK', Ahead', NEW f \in Ids
  PROVE  Remaining(f)' = IF status'[f] = "Sleeping" THEN wakeTick'[f] - tick' ELSE 0
<1>1. wakeTick'[f] \in Ticks /\ tick' \in Ticks
  BY DEF TypeOK
<1> QED BY <1>1, TicksLeft DEF Remaining, Ahead

LEMMA Disturbs ==
  ASSUME TypeOK, TypeOK', Ahead, NobodyFallsAsleep
  PROVE  Ahead' /\ Clock!Next
<1>1. Ahead'
  BY DEF Ahead, NobodyFallsAsleep
<1> DEFINE awake == {f \in Ids : status'[f] # "Sleeping"}
<1>2. ASSUME NEW f \in Ids
      PROVE  Remaining(f)' = IF f \in awake THEN 0 ELSE Remaining(f)
  <2>1. Remaining(f) = IF status[f] = "Sleeping" THEN wakeTick[f] - tick ELSE 0
    BY RemainingTicks
  <2>2. Remaining(f)' = IF status'[f] = "Sleeping" THEN wakeTick'[f] - tick' ELSE 0
    BY <1>1, RemainingTicksAfter
  <2> QED BY <2>1, <2>2 DEF NobodyFallsAsleep
<1>3. Clock!Disturb(awake)
  BY <1>2 DEF Clock!Disturb, NobodyFallsAsleep
<1>4. awake \in SUBSET Ids
  OBVIOUS
<1> QED BY <1>1, <1>3, <1>4 DEF Clock!Next

LEMMA Sleeps ==
  ASSUME TypeOK, TypeOK', Ahead, NEW f \in Ids, FallsAsleep(f)
  PROVE  Ahead' /\ Clock!Next
<1>1. Ahead'
  BY DEF Ahead, FallsAsleep
<1>2. ASSUME NEW g \in Ids
      PROVE  /\ Remaining(g) = IF status[g] = "Sleeping" THEN wakeTick[g] - tick ELSE 0
             /\ Remaining(g)' = IF status'[g] = "Sleeping" THEN wakeTick'[g] - tick' ELSE 0
  BY <1>1, RemainingTicks, RemainingTicksAfter
<1>3. Remaining(f) = 0 /\ Remaining(f)' \in 1 .. TickMod
  <2>1. wakeTick'[f] \in Ticks /\ tick \in Ticks
    BY DEF TypeOK
  <2>2. wakeTick'[f] - tick \in 1 .. TickMod
    BY <2>1, TicksLeft DEF FallsAsleep
  <2> QED BY <1>2, <2>2 DEF FallsAsleep
<1>4. \A g \in Ids \ {f} : Remaining(g)' = Remaining(g)
  BY <1>2 DEF FallsAsleep
<1>5. Clock!Sleep(f)
  BY <1>3, <1>4 DEF Clock!Sleep, FallsAsleep
<1> QED BY <1>1, <1>5 DEF Clock!Next

\* A tick wakes exactly the sleepers whose time has come.
LEMMA Ticking ==
  ASSUME NoWrap, IInv, IInv', Ahead, StepTick
  PROVE  Ahead' /\ Clock!Next
<1>1. /\ tick < LastTick /\ wakeTick' = wakeTick
      /\ tick' = (tick + 1) % TickMod
      /\ status' = [f \in Ids |->
            IF f \in Elements(wheel[Slot(tick')]) /\ Due(f, tick') THEN "Ready" ELSE status[f]]
  BY DEF StepTick, NoWrap
<1>2. /\ tick \in Nat /\ LastTick \in Nat /\ TickMod \in Nat /\ tick + 1 < TickMod
      /\ tick \in Ticks
  BY <1>1, SchedulerAssumption DEF IInv, TypeOK, Ticks, NoWrap
<1>3. tick' = tick + 1
  BY <1>1, <1>2
<1>4. ASSUME NEW f \in Ids
      PROVE  /\ status'[f] = "Sleeping" <=> status[f] = "Sleeping" /\ wakeTick[f] # tick'
             /\ wakeTick[f] \in Nat
             /\ status[f] = "Sleeping" => tick < wakeTick[f]
  <2>1. /\ wakeTick[f] \in Nat
        /\ (status[f] = "Sleeping" => tick < wakeTick[f] /\ f \in Elements(wheel[Slot(wakeTick[f])]))
    BY TicksWrap DEF Ahead, IInv, EntriesHold, TypeOK
  <2>2. Due(f, tick') <=> status[f] = "Sleeping" /\ wakeTick[f] = tick'
    BY <1>2, <1>3, <2>1 DEF Due
  <2> QED BY <1>1, <2>1, <2>2
<1>5. Ahead'
  BY <1>1, <1>2, <1>3, <1>4 DEF Ahead
<1>6. ASSUME NEW f \in Ids
      PROVE  Remaining(f)' = IF Remaining(f) = 0 THEN 0 ELSE Remaining(f) - 1
  <2>1. /\ Remaining(f) = IF status[f] = "Sleeping" THEN wakeTick[f] - tick ELSE 0
        /\ Remaining(f)' = IF status'[f] = "Sleeping" THEN wakeTick'[f] - tick' ELSE 0
    BY <1>5, RemainingTicks, RemainingTicksAfter DEF IInv
  <2> QED BY <1>1, <1>2, <1>3, <1>4, <2>1
<1>7. Clock!Tick
  BY <1>1, <1>6 DEF Clock!Tick
<1> QED BY <1>5, <1>7 DEF Clock!Next

\* A kill only takes sleepers away.
LEMMA KillsDisturb ==
  ASSUME NEW f, KillFiberTree(f), UNCHANGED <<wakeTick, tick>>
  PROVE  NobodyFallsAsleep
BY DEF KillFiberTree, NobodyFallsAsleep

\* What the host calls between two ticks puts nobody to sleep.
LEMMA HostDisturbs ==
  ASSUME IInv, Host
  PROVE  NobodyFallsAsleep
<1>1. status \in [Ids -> Statuses] /\ wakeTick \in [Ids -> Ticks]
  BY DEF IInv, TypeOK, Statuses
<1>2. ASSUME NEW entry \in Entries, NEW p \in Ids \cup {0}, Spawn(entry, p)
      PROVE  NobodyFallsAsleep
  BY <1>1, <1>2 DEF Spawn, NobodyFallsAsleep
<1>3. ASSUME NEW f \in Ids, NEW entry \in Redirects, NEW force \in BOOLEAN,
             Interrupt(f, entry, force)
      PROVE  NobodyFallsAsleep
  BY <1>1, <1>3 DEF Interrupt, NobodyFallsAsleep
<1>4. ASSUME NEW f \in Ids, Kill(f) PROVE NobodyFallsAsleep
  BY <1>4, KillsDisturb DEF Kill
<1>5. ASSUME NEW key \in Keys, NEW level \in Levels, Notify(key, level)
      PROVE  NobodyFallsAsleep
  BY <1>1, <1>5 DEF Notify, NobodyFallsAsleep
<1>6. ASSUME Restore PROVE NobodyFallsAsleep
  BY <1>6 DEF Restore, NobodyFallsAsleep
<1> QED BY <1>2, <1>3, <1>4, <1>5, <1>6 DEF Host

\* A delay of an instruction ends before the ticks wrap.
LEMMA WakesAhead ==
  ASSUME NoWrap, IInv, Ahead, NEW n \in Nat \ {0}, LastTick + n < TickMod
  PROVE  (tick + n) % TickMod = tick + n /\ tick < tick + n
<1>1. tick \in Nat /\ LastTick \in Nat /\ TickMod \in Nat /\ tick <= LastTick
  BY SchedulerAssumption DEF IInv, TypeOK, Ticks, Ahead
<1>2. tick + n \in 0 .. TickMod - 1
  BY <1>1
<1> QED BY <1>1, <1>2

\* A fiber falls asleep when it yields, forks or exhausts its slice.
LEMMA SliceSleepsOrDisturbs ==
  ASSUME NoWrap, IInv, Ahead, Slice
  PROVE  NobodyFallsAsleep \/ \E f \in Ids : FallsAsleep(f)
<1>1. status \in [Ids -> Statuses] /\ wakeTick \in [Ids -> Ticks]
  BY DEF IInv, TypeOK, Statuses
<1>2. (tick + 1) % TickMod = tick + 1 /\ tick < tick + 1
  BY WakesAhead DEF NoWrap
<1>3. running # 0 => running \in Ids /\ status[running] = "Ready"
  BY DEF IInv, TypeOK, Progress, RunningIsLive
<1>4. CASE NextReady \/ EndTick \/ Step \/ Call \/ Return \/ SetUnbreakable
            \/ HostCommand \/ HostReturns
  <2>1. UNCHANGED <<status, wakeTick, tick>>
    BY <1>4 DEF NextReady, EndTick, Step, Call, Return, SetUnbreakable, HostCommand, HostReturns
  <2> QED BY <2>1 DEF NobodyFallsAsleep
<1>5. CASE Exit
  BY <1>5, KillsDisturb DEF Exit
<1>6. CASE Wait
  <2>1. status' = [status EXCEPT ![running] = "Waiting"] /\ UNCHANGED <<wakeTick, tick>>
    BY <1>6 DEF Wait
  <2> QED BY <1>1, <2>1 DEF NobodyFallsAsleep
<1>7. CASE Yield
  <2>1. running \in Ids /\ status[running] = "Ready" /\ pc[running] \in CodePcs
        /\ Instruction = Code[pc[running]]
    BY <1>7, Executing DEF Yield
  <2>2. PICK ticks \in Instruction.ticks : ScheduleAtTick(running, IF ticks > 0 THEN ticks ELSE 1)
    BY <1>7 DEF Yield
  <2> DEFINE delay == IF ticks > 0 THEN ticks ELSE 1
  <2>3. wakeTick' = [wakeTick EXCEPT ![running] = (tick + delay) % TickMod]
    BY <2>2 DEF ScheduleAtTick
  <2>4. delay \in Nat \ {0} /\ LastTick + delay < TickMod
    <3>1. Instruction.ticks \subseteq 0 .. TickMod - 1 /\ TickMod \in Nat
          /\ LastTick + ticks < TickMod /\ LastTick + 1 < TickMod
      BY <2>1, <2>2, SchedulerAssumption DEF NoWrap
    <3>2. ticks \in Nat
      BY <2>2, <3>1
    <3> QED BY <3>1, <3>2
  <2> HIDE DEF delay
  <2>5. (tick + delay) % TickMod = tick + delay /\ tick < tick + delay
    BY <2>4, WakesAhead
  <2>6. status' = [status EXCEPT ![running] = "Sleeping"] /\ tick' = tick
    BY <1>7 DEF Yield
  <2>7. FallsAsleep(running)
    BY <1>1, <2>1, <2>3, <2>5, <2>6 DEF FallsAsleep
  <2> QED BY <2>1, <2>7
<1>8. CASE Fork
  <2> PICK id \in Ids : id = NextId
    BY <1>8 DEF Fork, SpawnFiber
  <2>1. running \in Ids /\ status[running] = "Ready"
    BY <1>8, Executing DEF Fork
  <2>2. /\ status' = [status EXCEPT ![running] = "Sleeping", ![id] = "Ready"]
        /\ wakeTick' = [wakeTick EXCEPT ![running] = tick + 1, ![id] = tick]
        /\ tick' = tick
    BY <1>2, <1>8 DEF Fork
  <2>3. ~Live(id)
    <3>1. status'[id] = "Ready" /\ running \in LiveIds
          /\ \A g \in Ids \ {id} : Live(g)' <=> Live(g)
      BY <1>1, <2>1, <2>2 DEF LiveIds, Live
    <3>2. TypeOK /\ FreeIdsExact /\ OrphanFree /\ \A g \in Ids : g > count <=> status[g] = "Inactive"
      BY DEF IInv, Progress
    <3>3. SpawnFiber(Instruction.target, running)
      BY <1>8 DEF Fork
    <3> QED BY <3>1, <3>2, <3>3, SpawnTakesDead
  <2>4. FallsAsleep(running)
    BY <1>1, <1>2, <2>1, <2>2, <2>3 DEF FallsAsleep, Live
  <2> QED BY <2>1, <2>4
<1>9. CASE EndSlice
  <2>1. running \in Ids /\ status[running] = "Ready" /\ tick' = tick
    BY <1>3, <1>9 DEF EndSlice
  <2>2. CASE pc[running] \notin CodePcs
    BY <1>9, <2>1, <2>2, KillsDisturb DEF EndSlice
  <2>3. CASE pc[running] \in CodePcs
    <3>1. /\ status' = [status EXCEPT ![running] = "Sleeping"]
          /\ wakeTick' = [wakeTick EXCEPT ![running] = tick + 1]
      BY <1>2, <1>9, <2>1, <2>3 DEF EndSlice, ScheduleAtTick
    <3>2. FallsAsleep(running)
      BY <1>1, <1>2, <2>1, <3>1 DEF FallsAsleep
    <3> QED BY <2>1, <3>2
  <2> QED BY <2>2, <2>3
<1> QED BY <1>4, <1>5, <1>6, <1>7, <1>8, <1>9 DEF Slice

LEMMA ClockInit ==
  ASSUME Init
  PROVE  Ahead /\ Clock!Init
<1>1. \A f \in Ids : Remaining(f) = 0
  BY DEF Init, Remaining
<1>2. tick = 0 /\ LastTick \in Nat /\ \A f \in Ids : status[f] # "Sleeping"
  BY SchedulerAssumption DEF Init
<1> QED BY <1>1, <1>2 DEF Ahead, Clock!Init

LEMMA ClockNext ==
  ASSUME NoWrap, IInv, IInv', Ahead, [Next]_vars
  PROVE  Ahead' /\ Clock!Next
<1>1. TypeOK /\ TypeOK'
  BY DEF IInv
<1>2. CASE Host
  BY <1>1, <1>2, HostDisturbs, Disturbs
<1>3. CASE StepTick
  BY <1>3, Ticking
<1>4. CASE Slice
  BY <1>1, <1>4, SliceSleepsOrDisturbs, Disturbs, Sleeps
<1>5. CASE UNCHANGED vars
  <2>1. NobodyFallsAsleep
    BY <1>5 DEF NobodyFallsAsleep, vars
  <2> QED BY <1>1, <2>1, Disturbs
<1> QED BY <1>2, <1>3, <1>4, <1>5 DEF Next

\* No fiber wakes early or late, whatever stale entries are in the wheel, when the
\* host steps every tick and the ticks do not wrap (stepTick, scheduleAtTick).
THEOREM WheelIsAlarmClock ==
  ASSUME "KillCaller" \notin Callbacks, NoWrap
  PROVE  Spec => WakesOnTime
<1>1. Init => Ahead /\ Clock!Init
  BY ClockInit
<1>2. IInv /\ IInv' /\ Ahead /\ [Next]_vars => Ahead' /\ Clock!Next
  BY ClockNext
<1>3. Spec => []IInv
  BY Invariance
<1> QED BY <1>1, <1>2, <1>3, PTL DEF Spec, WakesOnTime, Clock!Spec

=============================================================================
