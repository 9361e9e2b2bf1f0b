---------------------------- MODULE AnswerMemory ----------------------------
(***************************************************************************)
(* What the answer cache promises its user, the engine: a look-up finds    *)
(* what was last learned under that key, unless it was forgotten since.    *)
(* Anything may be forgotten at any moment (lifetimes end, room is made),  *)
(* but what a flush removes is gone at once, and nothing comes back.       *)
(***************************************************************************)
EXTENDS Functions

CONSTANTS MemoryKey, Lesson

VARIABLES
    memory,     \* key -> the lesson a look-up finds
    answer      \* what the last look-up found, {} for nothing

memoryVars == <<memory, answer>>


MemoryInit == memory = <<>> /\ answer = {}

(* k is learned; of the others, some may go to make room for it. *)
Learn(k) ==
    /\ k \in DOMAIN memory' /\ memory'[k] \in Lesson
    /\ DOMAIN memory' \subseteq DOMAIN memory \cup {k}
    /\ memory' = [x \in DOMAIN memory' |-> IF x = k THEN memory'[k] ELSE memory[x]]
    /\ UNCHANGED answer

LookUp(k) ==
    /\ answer' = {memory[x] : x \in DOMAIN memory \cap {k}}
    /\ UNCHANGED memory

Forget(scope) ==
    /\ memory' = Restrict(memory, {k \in DOMAIN memory : k[2] # scope})
    /\ UNCHANGED answer

ForgetAll == memory' = <<>> /\ UNCHANGED answer

Fade ==
    /\ DOMAIN memory' \subseteq DOMAIN memory
    /\ memory' = Restrict(memory, DOMAIN memory')
    /\ UNCHANGED answer

MemoryNext ==
    \/ \E k \in MemoryKey : Learn(k) \/ LookUp(k) \/ Forget(k[2])
    \/ ForgetAll
    \/ Fade

MemorySpec == MemoryInit /\ [][MemoryNext]_memoryVars
=============================================================================
