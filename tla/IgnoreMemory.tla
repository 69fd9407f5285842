----------------------------- MODULE IgnoreMemory -----------------------------
(***************************************************************************)
(* The class ShortTermIgnoreMemory: a bot module's map from the users it   *)
(* does not want to try again for a while to the time it may, loaded once  *)
(* per process from a file and written back whole at every change.  Every  *)
(* memory of every process on a network uses the one file                  *)
(* STATE_DIR_PATH/ignoreMemory.json.                                       *)
(*                                                                         *)
(* An entry is the time left before it expires, in ticks: the code keeps   *)
(* the expiry time itself and compares it with Date.now().                 *)
(***************************************************************************)
EXTENDS Integers

CONSTANTS Users,            \* addresses with a position in the lending pool
          Memories,         \* the instances of the class, one per bot module of a process
          IgnoreDuration    \* the duration each instance was built with, in ticks

ASSUME IgnoreAssumption == IgnoreDuration \in [Memories -> Nat \ {0}]

VARIABLES memory,           \* the map of each instance
          isInitialized,    \* whether it was loaded
          file,             \* the file
          promised,         \* history: the time left since an instance's last put of a user
          standing          \* history: what became of that put, one of Standings

memoryVars == <<memory, isInitialized, file, promised, standing>>

\* A put is in the file; or another instance has written its own map over it; or
\* it is nowhere, because the process was started again after that.
Standings == {"saved", "unsaved", "lost"}

Absent == -1
NoEntries == [u \in Users |-> Absent]
NoFile == [state |-> "missing", ignoreDuration |-> 0, memory |-> NoEntries]

\* A file whose writing was interrupted: JSON.parse throws.
TornFile == [state |-> "torn", ignoreDuration |-> 0, memory |-> NoEntries]

\* An entry never has more time left than the duration of the instance, nor, in
\* the file, than the duration the file was saved with.
MemoryTypeOK ==
    /\ memory \in [Memories -> [Users -> Int]]
    /\ isInitialized \in [Memories -> BOOLEAN]
    /\ file \in [state : {"missing", "torn", "saved"}, ignoreDuration : Nat,
                 memory : [Users -> Int]]
    /\ promised \in [Memories -> [Users -> Nat]]
    /\ standing \in [Memories -> [Users -> Standings]]
    /\ \A u \in Users : file.memory[u] \in Absent..file.ignoreDuration
    /\ \A m \in Memories, u \in Users :
           /\ memory[m][u] \in Absent..IgnoreDuration[m]
           /\ promised[m][u] <= IgnoreDuration[m]

MemoryInit ==
    /\ memory = [m \in Memories |-> NoEntries]
    /\ isInitialized = [m \in Memories |-> FALSE]
    /\ file = NoFile
    /\ promised = [m \in Memories |-> [u \in Users |-> 0]]
    /\ standing = [m \in Memories |-> [u \in Users |-> "saved"]]

(***************************************************************************)
(* initializeIfNeeded throws when there is a file it cannot parse or that  *)
(* was saved by an instance with another duration.                         *)
(***************************************************************************)
initializeThrows(m) ==
    /\ ~isInitialized[m]
    /\ \/ file.state = "torn"
       \/ file.state = "saved" /\ file.ignoreDuration # IgnoreDuration[m]

\* The map of the instance once initializeIfNeeded has returned.
initialized(m) ==
    IF ~isInitialized[m] /\ file.state = "saved" THEN file.memory ELSE memory[m]

\* dumpToFileIfNeeded: the file becomes this map, whatever it held.
Dumped(m, entries) ==
    [state |-> "saved", ignoreDuration |-> IgnoreDuration[m], memory |-> entries]

\* What this leaves of the puts: those of the instance are saved, those of another
\* are only in its map, if it has one.
AfterDump(m) ==
    [n \in Memories |-> [u \in Users |->
        IF promised[n][u] = 0 THEN "saved"
        ELSE IF standing[n][u] = "lost" \/ (n # m /\ ~isInitialized[n]) THEN "lost"
        ELSE IF n = m THEN "saved" ELSE "unsaved"]]

(***************************************************************************)
(* put, after the instance was initialized by isIgnored.                   *)
(***************************************************************************)
putUndumped(m, u) ==    \* Mutant: an entry that is not saved.
    /\ memory' = [memory EXCEPT ![m][u] = IgnoreDuration[m]]
    /\ promised' = [promised EXCEPT ![m][u] = IgnoreDuration[m]]
    /\ standing' = [standing EXCEPT ![m][u] = "saved"]
    /\ UNCHANGED <<isInitialized, file>>

put(m, u) ==
    LET entries == [memory[m] EXCEPT ![u] = IgnoreDuration[m]]
    IN  /\ memory' = [memory EXCEPT ![m] = entries]
        /\ file' = Dumped(m, entries)
        /\ promised' = [promised EXCEPT ![m][u] = IgnoreDuration[m]]
        /\ standing' = [AfterDump(m) EXCEPT ![m][u] = "saved"]
        /\ UNCHANGED isInitialized

(***************************************************************************)
(* isIgnored, called for every user in turn: live entries keep their       *)
(* users out, expired ones are deleted and the file is written.            *)
(***************************************************************************)
NotIgnored(m) == {u \in Users : initialized(m)[u] <= 0}

isIgnoredOfAll(m) ==
    LET before == initialized(m)
        after  == [u \in Users |-> IF before[u] = 0 THEN Absent ELSE before[u]]
    IN  /\ memory' = [memory EXCEPT ![m] = after]
        /\ isInitialized' = [isInitialized EXCEPT ![m] = TRUE]
        /\ IF after = before THEN UNCHANGED <<file, standing>>
           ELSE file' = Dumped(m, after) /\ standing' = AfterDump(m)
        /\ UNCHANGED promised

\* Time passes for every entry, in the maps and in the file.
Passed(t) == IF t > 0 THEN t - 1 ELSE t

MemoryTick ==
    /\ memory' = [m \in Memories |-> [u \in Users |-> Passed(memory[m][u])]]
    /\ file' = [file EXCEPT !.memory = [u \in Users |-> Passed(file.memory[u])]]
    /\ promised' = [m \in Memories |-> [u \in Users |-> Passed(promised[m][u])]]
    /\ standing' = [m \in Memories |-> [u \in Users |->
                        IF promised[m][u] <= 1 THEN "saved" ELSE standing[m][u]]]
    /\ UNCHANGED isInitialized

\* Some entry is still running out.
Running == \E m \in Memories, u \in Users :
               memory[m][u] > 0 \/ file.memory[u] > 0 \/ promised[m][u] > 0

\* A process dies: its maps are gone and the file stays, torn if the process
\* died while it was writing it.
ForgetAll(lost, torn) ==
    /\ memory' = [m \in Memories |-> IF m \in lost THEN NoEntries ELSE memory[m]]
    /\ isInitialized' = [m \in Memories |-> IF m \in lost THEN FALSE ELSE isInitialized[m]]
    /\ file' = IF torn THEN TornFile ELSE file
    /\ standing' = [m \in Memories |-> [u \in Users |->
                        IF m \in lost /\ standing[m][u] = "unsaved" THEN "lost"
                        ELSE standing[m][u]]]
    /\ UNCHANGED promised
=============================================================================
