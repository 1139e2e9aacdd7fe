-------------------------------- MODULE Files -------------------------------
(***************************************************************************)
(* What a game keeps in files: bytecode modules, the state of the gameplay *)
(* host and the state of script objects.  Something is saved; the file may *)
(* be damaged: cut off, grown, or a byte of it changed; and it is loaded,  *)
(* by decodeModule, restoreGameplayHostState or decodeScriptObjectState    *)
(* and restoreScriptObject, into what the program holds by then.           *)
(***************************************************************************)
EXTENDS Integers, Sequences

CONSTANTS
    Samples     \* what is saved: a sequence of [format, value, target, limits, changes];
                \* target is what the program holds when it loads, changes are the values
                \* a damaged byte may have

Modules == INSTANCE BytecodeCodec
Gameplay == INSTANCE GameplayCodec
Objects == INSTANCE ScriptState

VARIABLES
    sample,     \* which one is saved
    file,       \* its bytes
    damage,     \* what happened to the file: "no", "cut", "grown", "changed"
    loaded,       \* what the program holds
    outcome     \* "none", "unsaved", "saved", "accepted", "refused"

fileVars == <<sample, file, damage, loaded, outcome>>

Chosen == Samples[sample]

EncodedState(s, state) ==
    IF state.ok THEN Objects!EncodeObject(state.value, s.limits) ELSE state

Encoded(s) ==
    CASE s.format = "module"   -> [ok |-> TRUE, value |-> Modules!EncodeModule(s.value)]
      [] s.format = "gameplay" -> Gameplay!EncodeState(s.value, s.limits)
      [] s.format = "object"   -> EncodedState(s, Objects!SnapshotObject(s.value, s.limits))

\* What an object becomes when a state is restored.
RestoredState(s, state) ==
    LET restored == Objects!RestoreObject(s.target, state.value, s.limits) IN
    IF state.ok THEN [ok |-> restored.ok, value |-> restored.object]
                ELSE [ok |-> FALSE, value |-> s.target]

\* What was loaded, and what is loaded afterwards.
Decoded(s, bytes, ascending) ==
    CASE s.format = "module"   -> Modules!DecodeModule(bytes, ascending)
      [] s.format = "gameplay" -> Gameplay!DecodeState(bytes, s.limits)
      [] s.format = "object"   -> RestoredState(s, Objects!DecodeObject(bytes, s.limits))

FilesInit ==
    /\ sample \in 1 .. Len(Samples)
    /\ file = <<>>
    /\ damage = "no"
    /\ loaded = Chosen.target
    /\ outcome = "none"

Written(encoded) ==
    /\ file' = encoded.value
    /\ outcome' = IF encoded.ok THEN "saved" ELSE "unsaved"

Save ==
    /\ outcome = "none"
    /\ Written(Encoded(Chosen))
    /\ UNCHANGED <<sample, damage, loaded>>

\* One thing happens to a file.
Damage(kind, bytes) ==
    /\ outcome = "saved" /\ damage = "no"
    /\ file' = bytes
    /\ damage' = kind
    /\ UNCHANGED <<sample, loaded, outcome>>

Cut == \E n \in 0 .. Len(file) - 1 : Damage("cut", SubSeq(file, 1, n))

Grow == \E byte \in Chosen.changes : Damage("grown", Append(file, byte))

Change ==
    \E i \in 1 .. Len(file) : \E byte \in Chosen.changes \ {file[i]} :
        Damage("changed", [file EXCEPT ![i] = byte])

Taken(decoded) ==
    /\ outcome' = IF decoded.ok THEN "accepted" ELSE "refused"
    /\ loaded' = IF decoded.ok \/ Chosen.format = "object" THEN decoded.value ELSE loaded

Load ==
    /\ outcome = "saved"
    /\ \E ascending \in BOOLEAN : Taken(Decoded(Chosen, file, ascending))
    /\ UNCHANGED <<sample, file, damage>>

FilesNext == Save \/ Cut \/ Grow \/ Change \/ Load

-----------------------------------------------------------------------------

\* What a save has to keep.
Kept(s) ==
    CASE s.format = "module"   -> Modules!Stored(s.value)
      [] s.format = "gameplay" -> Gameplay!Held(s.value)
      [] s.format = "object"   -> [s.target EXCEPT !.values = Objects!Held(s.value.values)]

HeldAs(s, value) ==
    CASE s.format = "module"   -> Modules!Stored(value)
      [] s.format = "gameplay" -> Gameplay!Held(value)
      [] s.format = "object"   -> [value EXCEPT !.values = Objects!Held(value.values)]

\* A file that was not damaged is loaded, if the class of the object is still the one
\* that was saved.
Loadable(s) ==
    CASE s.format = "module"   -> Modules!Readable(s.value)
      [] s.format = "gameplay" -> TRUE
      [] s.format = "object"   -> s.target.type = s.value.type /\ s.target.layout = s.value.layout

\* Whatever was saved is loaded again and means what it meant, from a file nobody
\* touched; and a damaged file of the two formats with a hash is refused or still
\* means what was saved; an object that refuses a state keeps its fields, unless its
\* class gives them other types now (BytecodeCodec.cpp:624-1899, GameplayStateCodec.cpp:569-676,
\* GameProductization.cpp:443-604).
LoadsWhatWasSaved ==
    /\ outcome = "refused" /\ damage = "no" => ~Loadable(Chosen)
    /\ outcome = "accepted" /\ (damage = "no" \/ Chosen.format # "module") =>
        HeldAs(Chosen, loaded) = Kept(Chosen)
    /\ outcome = "refused" => loaded = Chosen.target \/ ~Loadable(Chosen)

\* Every module with functions that was saved is loaded again from a file nobody
\* touched, however many parameters its methods have (BytecodeCodec.cpp:492).
EveryModuleLoads ==
    outcome = "refused" /\ damage = "no" /\ Chosen.format = "module" =>
        Chosen.value.functions = <<>>

\* A module that loads, from a damaged file too, is one the codec writes and reads
\* back the same: the decoder lets nothing through that the encoder could not have
\* written, but for the bytes behind the last section.
AcceptedIsCanonical ==
    outcome = "accepted" /\ Chosen.format = "module" /\ Modules!Readable(loaded) =>
        Modules!DecodeModule(Modules!EncodeModule(loaded), TRUE) = [ok |-> TRUE, value |-> loaded]

=============================================================================
