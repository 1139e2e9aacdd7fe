------------------------------- MODULE MCHost --------------------------------
(***************************************************************************)
(* The parts around the runtime that the game embeds, each on an instance  *)
(* of its own: the scene (Scene), an engine that records, replays and      *)
(* reloads (Engine, Determinism), a heap that is rolled back               *)
(* (HeapRestore), the tables of handles (Handles) and the files (Files).   *)
(* A behaviour belongs to one family.                                      *)
(***************************************************************************)
EXTENDS Scene, Engine, HeapRestore, Handles, Files, TLC

VARIABLE family     \* the part this behaviour is about

vars == <<family, sceneVars, engineVars, restoreVars, handleVars, fileVars>>

-----------------------------------------------------------------------------
(* Scene. *)

MCMethods ==
    ("full" :> {"new", "OnCreate0", "OnStart", "OnEvent"})
        @@ ("plain" :> {"OnCreate1", "OnEnable", "OnUpdate", "OnDestroy"})

Attached == [type |-> "full", enabled |-> TRUE, started |-> FALSE]
ToOne == [id |-> 1, target |-> 1, callback |-> "OnEvent"]
ToAll == [id |-> 2, target |-> BroadcastTarget, callback |-> "OnEvent"]

\* A scene that has been running: two instances, two events waiting and a trigger.
PopulatedScene ==
    /\ instances = <<Attached, Attached>>
    /\ queue = <<ToOne, ToAll>>
    /\ triggers = <<[target |-> BroadcastTarget, callback |-> "OnEvent", once |-> TRUE,
                     fired |-> FALSE, fires |-> 0, nested |-> FALSE]>>
    /\ issued = 2
    /\ stack = <<>> /\ handled = <<>> /\ answer = "none" /\ operations = 0

-----------------------------------------------------------------------------
(* Engine: images that differ in the order of their calls, in the layout of a class and
   in a signature. *)

Field(name, type) == [name |-> name, type |-> type]
Class(fields) == [declared |-> "class", methods |-> <<>>, fields |-> fields]
Op(op, of, index) == [op |-> op, of |-> of, index |-> index]

PlainLayout == <<Field("a", "int"), Field("b", "ref")>>
SwappedLayout == <<Field("a", "ref"), Field("b", "int")>>
Asks == <<Op("call", "time", 0), Op("call", "rand", 0)>>
AsksBack == <<Op("call", "rand", 0), Op("call", "time", 0)>>
Keeps == <<Op("new", "T", 0), Op("call", "time", 0)>>
Reads == <<Op("get", "T", 1)>>

Image(fields, signature, body) ==
    [links |-> TRUE, metadata |-> ("game" :> "plain"), types |-> ("T" :> Class(fields)),
     functions |-> ("main" :> [signature |-> signature, body |-> body])
                       @@ ("keep" :> [signature |-> "void()", body |-> Keeps])
                       @@ ("read" :> [signature |-> "void(T)", body |-> Reads])]

MCImages ==
    <<Image(PlainLayout, "int(int)", Asks), Image(PlainLayout, "int(int)", AsksBack),
      Image(SwappedLayout, "int(int)", Asks), Image(PlainLayout, "int(ref)", Asks)>>

MCBindings ==
    <<("time" :> "NonDeterministic") @@ ("rand" :> "Recordable"),
      ("time" :> "Deterministic") @@ ("rand" :> "missing")>>

MCAnswers ==
    {[ok |-> TRUE, value |-> 2], [ok |-> TRUE, value |-> Handle], [ok |-> FALSE, value |-> Handle]}

Symmetry == Permutations(Threads)

-----------------------------------------------------------------------------
(* Files. *)

D == INSTANCE FileSamples

MCSavedFiles == D!SavedFiles
MCParameterSamples == D!ParameterSamples

-----------------------------------------------------------------------------
(* The families. *)

NoScene == SceneInit
NoEngine == EngineInit /\ ~log.supplied
NoTables == RestoreInit /\ HandlesInit
NoFiles == FilesInit /\ sample = 1

MCInit ==
    \/ family = "scene" /\ (SceneInit \/ PopulatedScene) /\ NoEngine /\ NoTables /\ NoFiles
    \/ family = "engine" /\ NoScene /\ EngineInit /\ NoTables /\ NoFiles
    \/ family \in {"heap", "natives", "entities"} /\ NoScene /\ NoEngine /\ NoTables /\ NoFiles
    \/ family = "files" /\ NoScene /\ NoEngine /\ NoTables /\ FilesInit

InScene ==
    family = "scene" /\ UNCHANGED <<family, engineVars, restoreVars, handleVars, fileVars>>
InEngine ==
    family = "engine" /\ UNCHANGED <<family, sceneVars, restoreVars, handleVars, fileVars>>
InHeap ==
    family = "heap" /\ UNCHANGED <<family, sceneVars, engineVars, handleVars, fileVars>>
InHandles(kind) ==
    family = kind /\ UNCHANGED <<family, sceneVars, engineVars, restoreVars, fileVars>>
InFiles ==
    family = "files" /\ UNCHANGED <<family, sceneVars, engineVars, restoreVars, handleVars>>

MCNext ==
    \/ InScene /\ SceneNext
    \/ InEngine /\ EngineNext
    \/ InHeap /\ RestoreNext
    \/ InHandles("natives") /\ NativeNext
    \/ InHandles("entities") /\ EntityNext
    \/ InFiles /\ FilesNext

MCSpec == MCInit /\ [][MCNext]_vars

\* The files alone.
MCFilesSpec ==
    /\ family = "files" /\ NoScene /\ NoEngine /\ NoTables /\ FilesInit
    /\ [][InFiles /\ FilesNext]_vars

=============================================================================
