-------------------------------- MODULE Scene --------------------------------
(***************************************************************************)
(* SceneScriptRuntime (src/game/SceneLifecycleRuntime.cpp,                 *)
(* src/game/SceneEventRuntime.cpp).  The engine attaches script objects to *)
(* entities, drives their callbacks frame by frame, and dispatches events  *)
(* and triggers.  A callback may call the scene again through the native   *)
(* functions the engine has bound: operations nest, and the inner one      *)
(* changes the maps the outer one is iterating over.                       *)
(*                                                                         *)
(* The maps are std::map: an entry may be inserted or erased while a loop  *)
(* stands on another one.  The code has no guard against erasing the entry *)
(* an operation still holds, which would be undefined; the engine is taken *)
(* to leave these alone (InUse).  The list of errors is left out.          *)
(***************************************************************************)
EXTENDS Naturals, Sequences, FiniteSets

CONSTANTS
    Entities,       \* positive numbers; 0 is BroadcastTarget
    Methods,        \* script type -> the callbacks it has; "new" is a constructor or a
                    \* property setter that runs script code
    Triggers,       \* the ids of triggers, positive numbers, in the order of the map
    Callbacks,      \* what events and triggers call
    Lifecycle,      \* the callbacks the engine drives frame by frame
    MaxOperations,  \* bound: operations in a behaviour
    MaxDepth        \* bound: frames on the stack

ASSUME SceneAssumption ==
    /\ Entities \subseteq Nat \ {0} /\ IsFiniteSet(Entities) /\ Entities # {}
    /\ Triggers \subseteq Nat \ {0}

VARIABLES
    instances,      \* instances_: entity -> [type, enabled, started]
    queue,          \* eventQueue_: [id, target, callback]
    triggers,       \* triggers_: id -> [target, callback, once, fired], and kept for
                    \* OneShot: how often it fired, and whether inside an evaluation of it
    stack,          \* the operations and scripts in progress, the innermost one last
    answer,         \* what the frame that ended returned to the one below
    issued,         \* how many events have been queued
    handled,        \* the events that were dispatched, in their order
    operations      \* how many operations have begun

sceneVars ==
    <<instances, queue, triggers, stack, answer, issued, handled, operations>>

BroadcastTarget == 0

Minimum(S) == CHOOSE n \in S : \A m \in S : n <= m

SceneInit ==
    /\ instances = [e \in {} |-> 0]
    /\ queue = <<>>
    /\ triggers = [i \in {} |-> 0]
    /\ stack = <<>>
    /\ answer = "none"
    /\ issued = 0
    /\ handled = <<>>
    /\ operations = 0

Without(map, x) == [y \in DOMAIN map \ {x} |-> map[y]]
With(map, x, value) == [y \in DOMAIN map \cup {x} |-> IF y = x THEN value ELSE map[y]]

-----------------------------------------------------------------------------
(* Frames.  op "script" is a callback of the script that runs; entity is the entity of an
   operation and the cursor of a loop.  due and seen are kept of a loop for
   LoopsReachEveryone: who has been eligible ever since it began, and whom it has called. *)

Frame(op, entity, name) ==
    [op |-> op, entity |-> entity, name |-> name, type |-> "", enabled |-> TRUE,
     owner |-> FALSE, events |-> <<>>, due |-> {}, seen |-> {}]

Top == stack[Len(stack)]
Below == SubSeq(stack, 1, Len(stack) - 1)

\* An operation begins: the engine's, or one a script asks for.
Begins ==
    /\ IF stack = <<>> THEN TRUE ELSE Top.op = "script"
    /\ operations < MaxOperations /\ Len(stack) < MaxDepth
    /\ operations' = operations + 1

Resumes(op) == stack # <<>> /\ Top.op = op /\ answer # "none" /\ UNCHANGED operations

Eligible(callback, instance) ==
    /\ instance.enabled
    /\ CASE callback = "OnStart" -> ~instance.started
         [] callback \in {"OnUpdate", "OnFixedUpdate", "OnLateUpdate"} -> instance.started
         [] OTHER -> callback \in Methods[instance.type]

EligibleOf(callback, map) == {e \in DOMAIN map : Eligible(callback, map[e])}

\* What the loops in progress still owe, when the instances are map.
Refreshed(frames, map) ==
    [i \in DOMAIN frames |-> [frames[i] EXCEPT !.due = @ \cap EligibleOf(frames[i].name, map)]]

\* The result goes to the operation that is waiting for it; a script just goes on.
ReturnsTo(frames, result) ==
    /\ stack' = frames
    /\ answer' = IF frames = <<>> THEN "none"
                 ELSE IF frames[Len(frames)].op = "script" THEN "none" ELSE result

\* frame calls a callback, which the type may not have: nothing happens then, and
\* that is no failure.
Calls(frames, frame, entity, callback, type) ==
    IF callback \in Methods[type]
    THEN /\ stack' = frames \o <<frame, Frame("script", entity, callback)>>
         /\ answer' = "none"
    ELSE /\ stack' = Append(frames, frame)
         /\ answer' = "ok"

\* The script returns or fails.
Script ==
    /\ stack # <<>> /\ Top.op = "script"
    /\ answer' \in {"ok", "failed"}
    /\ stack' = Below
    /\ UNCHANGED <<instances, queue, triggers, issued, handled, operations>>

\* An operation below holds the entry of e: erasing it is undefined.
InUse(e) ==
    \E i \in DOMAIN stack :
        /\ stack[i].entity = e
        /\ stack[i].op \in {"attach", "detach", "enable", "loop", "invoke"}
        /\ ~(stack[i].op = "attach" /\ stack[i].name = "new")

-----------------------------------------------------------------------------
(* Lifecycle. *)

\* createObject() and the initial members come before the instance is stored.
Attach ==
    /\ Begins
    /\ \E e \in Entities \ DOMAIN instances, type \in DOMAIN Methods,
          enabled, owner \in BOOLEAN :
        Calls(stack, [Frame("attach", e, "new") EXCEPT
                        !.type = type, !.enabled = enabled, !.owner = owner], e, "new", type)
    /\ UNCHANGED <<instances, queue, triggers, issued, handled>>

\* emplace() keeps the instance that is there already: one that the constructor
\* attached to the same entity.
Stored(frame) ==
    IF frame.entity \in DOMAIN instances THEN instances
    ELSE With(instances, frame.entity,
              [type |-> frame.type, enabled |-> frame.enabled, started |-> FALSE])

OnCreate(frame, type) ==
    IF frame.owner /\ "OnCreate1" \in Methods[type] THEN "OnCreate1" ELSE "OnCreate0"

AttachCreates ==
    /\ Resumes("attach") /\ Top.name = "new"
    /\ UNCHANGED <<queue, triggers, issued, handled>>
    /\ IF answer = "failed" THEN ReturnsTo(Below, "failed") /\ UNCHANGED instances
       ELSE /\ instances' = Stored(Top)
            /\ LET type == instances'[Top.entity].type IN
               Calls(Refreshed(Below, instances'), [Top EXCEPT !.name = "OnCreate"],
                     Top.entity, OnCreate(Top, type), type)

\* A callback that fails erases the instance, without OnDisable or OnDestroy.
AttachGoesOn ==
    /\ Resumes("attach") /\ Top.name \in {"OnCreate", "OnEnable"}
    /\ UNCHANGED <<queue, triggers, issued, handled>>
    /\ LET e == Top.entity IN
       IF answer = "failed"
       THEN /\ instances' = Without(instances, e)
            /\ ReturnsTo(Refreshed(Below, instances'), "failed")
       ELSE /\ UNCHANGED instances
            /\ IF Top.name = "OnCreate" /\ instances[e].enabled
               THEN Calls(Below, [Top EXCEPT !.name = "OnEnable"], e, "OnEnable", instances[e].type)
               ELSE ReturnsTo(Below, "ok")

Detach ==
    /\ Begins
    /\ \E e \in DOMAIN instances :
        /\ ~InUse(e)
        /\ LET name == IF instances[e].enabled THEN "OnDisable" ELSE "OnDestroy" IN
           Calls(stack, Frame("detach", e, name), e, name, instances[e].type)
    /\ UNCHANGED <<instances, queue, triggers, issued, handled>>

\* A failure is recorded and otherwise ignored.
DetachGoesOn ==
    /\ Resumes("detach")
    /\ UNCHANGED <<queue, triggers, issued, handled>>
    /\ LET e == Top.entity IN
       IF Top.name = "OnDisable"
       THEN /\ Calls(Below, [Top EXCEPT !.name = "OnDestroy"], e, "OnDestroy", instances[e].type)
            /\ UNCHANGED instances
       ELSE /\ instances' = Without(instances, e)
            /\ ReturnsTo(Refreshed(Below, instances'), "ok")

SetEnabled ==
    /\ Begins
    /\ \E e \in DOMAIN instances :
        LET value == ~instances[e].enabled
            name  == IF value THEN "OnEnable" ELSE "OnDisable"
        IN
        Calls(stack, [Frame("enable", e, name) EXCEPT !.enabled = value],
              e, name, instances[e].type)
    /\ UNCHANGED <<instances, queue, triggers, issued, handled>>

\* The flag follows the callback, if that succeeds.
SetEnabledGoesOn ==
    /\ Resumes("enable")
    /\ UNCHANGED <<queue, triggers, issued, handled>>
    /\ instances' = IF answer = "ok" THEN [instances EXCEPT ![Top.entity].enabled = Top.enabled]
                                     ELSE instances
    /\ ReturnsTo(Refreshed(Below, instances'), answer)

-----------------------------------------------------------------------------
(* Loops over the instances: start, update, fixedUpdate, lateUpdate and a broadcast.  The
   cursor is the entity the iterator stands on, and what comes next is looked up in the map
   as it is then. *)

Loop(callback) ==
    [Frame("loop", 0, callback) EXCEPT !.due = EligibleOf(callback, instances)]

End == 1 + CHOOSE n \in Entities : \A m \in Entities : m <= n

StartLoop ==
    /\ Begins
    /\ \E callback \in Lifecycle : stack' = Append(stack, Loop(callback))
    /\ answer' = "ok"
    /\ UNCHANGED <<instances, queue, triggers, issued, handled>>

\* Fault: a loop that stops at the first callback that fails.
FollowingUntilFailure(loop, result, map) ==
    IF result = "failed" THEN {} ELSE {e \in EligibleOf(loop.name, map) : e > loop.entity}

\* Who is called next: the loops of the lifecycle and a broadcast pass over those that
\* are not eligible now.
Following(loop, result, map) == {e \in EligibleOf(loop.name, map) : e > loop.entity}

LoopGoesOn ==
    /\ Resumes("loop") /\ Top.entity # End
    /\ UNCHANGED <<queue, triggers, issued, handled>>
    /\ instances' = IF Top.name = "OnStart" /\ Top.entity # 0 /\ answer = "ok"
                    THEN [instances EXCEPT ![Top.entity].started = TRUE] ELSE instances
    /\ LET loop  == [Top EXCEPT !.enabled = @ /\ answer = "ok"]
           next  == Following(loop, answer, instances')
           owing == Refreshed(Append(Below, loop), instances')
           below == SubSeq(owing, 1, Len(Below))
           mine  == owing[Len(owing)]
       IN
       IF next = {}
       THEN stack' = Append(below, [mine EXCEPT !.entity = End]) /\ answer' = "ok"
       ELSE LET e == Minimum(next) IN
            Calls(below, [mine EXCEPT !.entity = e, !.seen = @ \cup {e}],
                  e, mine.name, instances[e].type)

\* enabled holds whether every callback succeeded.
LoopEnds ==
    /\ Resumes("loop") /\ Top.entity = End
    /\ ReturnsTo(Below, IF Top.enabled THEN "ok" ELSE "failed")
    /\ UNCHANGED <<instances, queue, triggers, issued, handled>>

-----------------------------------------------------------------------------
(* Dispatch, events and triggers. *)

\* A target without an instance, or without the callback, is a failure; a disabled one
\* is called all the same.
Dispatch(frames, target, callback) ==
    IF target = BroadcastTarget THEN stack' = Append(frames, Loop(callback)) /\ answer' = "ok"
    ELSE IF target \in DOMAIN instances /\ callback \in Methods[instances[target].type]
    THEN Calls(frames, Frame("invoke", target, callback), target, callback, instances[target].type)
    ELSE ReturnsTo(frames, "failed")

DispatchNow ==
    /\ Begins
    /\ \E target \in Entities \cup {BroadcastTarget}, callback \in Callbacks :
        Dispatch(stack, target, callback)
    /\ UNCHANGED <<instances, queue, triggers, issued, handled>>

InvokeReturns ==
    /\ Resumes("invoke")
    /\ ReturnsTo(Below, answer)
    /\ UNCHANGED <<instances, queue, triggers, issued, handled>>

Enqueue ==
    /\ Begins
    /\ issued' = issued + 1
    /\ \E target \in Entities \cup {BroadcastTarget}, callback \in Callbacks :
        queue' = Append(queue, [id |-> issued + 1, target |-> target, callback |-> callback])
    /\ UNCHANGED <<instances, triggers, stack, answer, handled>>

\* The queue is swapped out first: what a callback queues waits for the next flush, which
\* may be one that the callback asks for.
Flush ==
    /\ Begins
    /\ stack' = Append(stack, [Frame("flush", 0, "") EXCEPT !.events = queue])
    /\ queue' = <<>>
    /\ answer' = "ok"
    /\ UNCHANGED <<instances, triggers, issued, handled>>

\* An event that fails is not tried again.
FlushGoesOn ==
    /\ Resumes("flush")
    /\ UNCHANGED <<instances, queue, triggers, issued>>
    /\ LET rest == Top.events IN
       IF rest = <<>> THEN ReturnsTo(Below, "ok") /\ UNCHANGED handled
       ELSE /\ handled' = Append(handled, Head(rest).id)
            /\ Dispatch(Append(Below, [Top EXCEPT !.events = Tail(rest)]),
                        Head(rest).target, Head(rest).callback)

AddTrigger ==
    /\ Begins
    /\ \E id \in Triggers \ DOMAIN triggers, target \in Entities \cup {BroadcastTarget},
          callback \in Callbacks, once \in BOOLEAN :
        triggers' = With(triggers, id,
            [target |-> target, callback |-> callback, once |-> once, fired |-> FALSE,
             fires |-> 0, nested |-> FALSE])
    /\ UNCHANGED <<instances, queue, stack, answer, issued, handled>>

\* A loop stands on the trigger: erasing it is undefined.
Evaluated(id) == \E i \in DOMAIN stack : stack[i].op = "triggers" /\ stack[i].entity = id

RemoveTrigger ==
    /\ Begins
    /\ \E id \in DOMAIN triggers : ~Evaluated(id) /\ triggers' = Without(triggers, id)
    /\ UNCHANGED <<instances, queue, stack, answer, issued, handled>>

EvaluateTriggers ==
    /\ Begins
    /\ stack' = Append(stack, Frame("triggers", 0, ""))
    /\ answer' = "ok"
    /\ UNCHANGED <<instances, queue, triggers, issued, handled>>

Fired(id, result) ==
    IF id # 0 /\ result = "ok"
    THEN [triggers EXCEPT ![id].fired = TRUE, ![id].fires = @ + 1] ELSE triggers

\* The conditions are the engine's functions: any of those that may fire is next, the
\* ones before it being false.
TriggersGoOn ==
    /\ Resumes("triggers")
    /\ UNCHANGED <<instances, queue, issued, handled>>
    /\ LET after == Fired(Top.entity, answer) IN
       \/ triggers' = after /\ ReturnsTo(Below, "ok")
       \/ \E id \in {i \in DOMAIN after :
                        i > Top.entity /\ ~(after[i].once /\ after[i].fired)} :
            /\ triggers' = [after EXCEPT ![id].nested =
                    @ \/ \E i \in DOMAIN Below : Below[i].op = "triggers" /\ Below[i].entity = id]
            /\ Dispatch(Append(Below, [Top EXCEPT !.entity = id]),
                        after[id].target, after[id].callback)

SceneNext ==
    \/ Script
    \/ Attach \/ AttachCreates \/ AttachGoesOn
    \/ Detach \/ DetachGoesOn
    \/ SetEnabled \/ SetEnabledGoesOn
    \/ StartLoop \/ LoopGoesOn \/ LoopEnds
    \/ DispatchNow \/ InvokeReturns
    \/ Enqueue \/ Flush \/ FlushGoesOn
    \/ AddTrigger \/ RemoveTrigger \/ EvaluateTriggers \/ TriggersGoOn

SceneSpec == SceneInit /\ [][SceneNext]_sceneVars

-----------------------------------------------------------------------------

\* Where events wait: in what is left of each flush, and in the queue.
Waiting == Append([i \in DOMAIN stack |-> stack[i].events], queue)

\* Every event that was queued is dispatched once: it is in the queue, in what is left of
\* one flush, or done; and what waits is in the order in which it was queued, flushes
\* inside flushes included.
EventsOnce ==
    /\ \A i \in DOMAIN Waiting : \A k \in DOMAIN Waiting[i] :
        /\ Waiting[i][k].id \in 1..issued
        /\ \A n \in DOMAIN handled : handled[n] # Waiting[i][k].id
        /\ \A j \in i..Len(Waiting) : \A l \in DOMAIN Waiting[j] :
            i < j \/ k < l => Waiting[i][k].id < Waiting[j][l].id
    /\ \A m, n \in DOMAIN handled : handled[m] \in 1..issued /\ (handled[m] = handled[n] => m = n)
    /\ \A id \in 1..issued :
        \/ \E i \in DOMAIN Waiting : \E k \in DOMAIN Waiting[i] : Waiting[i][k].id = id
        \/ \E n \in DOMAIN handled : handled[n] = id

\* A loop calls every entity that was eligible from its beginning until its turn,
\* whatever the callbacks before it did or failed to do.
LoopsReachEveryone ==
    \A i \in DOMAIN stack : stack[i].op = "loop" =>
        \A e \in stack[i].due : e < stack[i].entity => e \in stack[i].seen

\* A trigger that fires once does: the exception is one whose callback evaluates the
\* triggers again before it has returned.
OneShot == \A id \in DOMAIN triggers :
    triggers[id].once /\ ~triggers[id].nested => triggers[id].fires <= 1

\* SceneScriptRuntime delivers what it was given, however the callbacks nest and fail.
SceneDelivers == EventsOnce /\ LoopsReachEveryone /\ OneShot

=============================================================================
