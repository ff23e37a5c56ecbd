---------------------------- MODULE HookRegistry ----------------------------
(***************************************************************************)
(* The global registry of hook functions (hooks.go) and of context         *)
(* extractors (context_extractors.go).  Each is a list behind a mutex; a   *)
(* log call copies the list it needs under the lock and runs the copy      *)
(* after it, so edits and calls interleave between the two.                *)
(***************************************************************************)
EXTENDS Integers, Sequences

CONSTANTS
    Levels,      \* the valid levels, TraceLevel .. FatalLevel or some of them
    Funcs,       \* LogHookFuncs a program may register
    Extractors,  \* context extractors it may register
    MaxEdits     \* bound: edits of the two registries and of the level

Warn == 3
Error == 4
Fatal == 5

ASSUME LevelsAssumption ==
    /\ Levels \subseteq 0 .. Fatal /\ Fatal \in Levels
    /\ "none" \notin Funcs /\ MaxEdits \in Nat

Lowest == CHOOSE l \in Levels : \A k \in Levels : l <= k
Above(l) == CHOOSE k \in Levels : k > l /\ \A j \in Levels : j > l => k <= j
IsValid(l) == l \in Levels
InvalidLevel == 6

VARIABLES
    funcs,        \* r.funcs: the hooks of each level, in registration order
    registering,  \* the hook of a RegisterGlobalHook under way, or "none"
    nextLevel,    \* the level it registers next
    extractors,   \* the registered extractors, in order
    edits

registryVars == <<funcs, registering, nextLevel, extractors, edits>>

Edit == edits > 0 /\ edits' = edits - 1

RegistryInit(initial) ==
    /\ funcs = [l \in Levels |-> initial]
    /\ registering = "none" /\ nextLevel = Lowest
    /\ extractors = <<>>
    /\ edits = MaxEdits

\* An invalid level stands for all of them, under one lock.
AddFunc(l, f) ==
    /\ Edit
    /\ funcs' = [k \in Levels |-> IF k = l \/ ~IsValid(l) THEN Append(funcs[k], f) ELSE funcs[k]]
    /\ UNCHANGED <<registering, nextLevel, extractors>>

\* RegisterGlobalHook takes the lock once per level.
RegisterGlobalHook(f) ==
    /\ Edit /\ registering = "none"
    /\ registering' = f /\ nextLevel' = Lowest
    /\ UNCHANGED <<funcs, extractors>>

RegisterNextLevel ==
    /\ registering # "none"
    /\ funcs' = [funcs EXCEPT ![nextLevel] = Append(@, registering)]
    /\ IF nextLevel = Fatal
       THEN registering' = "none" /\ nextLevel' = Lowest
       ELSE nextLevel' = Above(nextLevel) /\ UNCHANGED registering
    /\ UNCHANGED <<extractors, edits>>

RemoveFuncs(l) ==
    /\ Edit /\ IsValid(l)
    /\ funcs' = [funcs EXCEPT ![l] = <<>>]
    /\ UNCHANGED <<registering, nextLevel, extractors>>

ResetFuncs ==
    /\ Edit
    /\ funcs' = [l \in Levels |-> <<>>]
    /\ UNCHANGED <<registering, nextLevel, extractors>>

RegisterContextExtractor(e) ==
    /\ Edit
    /\ extractors' = Append(extractors, e)
    /\ UNCHANGED <<funcs, registering, nextLevel>>

ClearContextExtractors ==
    /\ Edit
    /\ extractors' = <<>>
    /\ UNCHANGED <<funcs, registering, nextLevel>>

EditRegistry ==
    \/ \E f \in Funcs : RegisterGlobalHook(f) \/ \E l \in Levels \cup {InvalidLevel} : AddFunc(l, f)
    \/ RegisterNextLevel
    \/ \E l \in Levels : RemoveFuncs(l)
    \/ ResetFuncs
    \/ \E e \in Extractors : RegisterContextExtractor(e)
    \/ ClearContextExtractors

RegistryTypeOK ==
    /\ funcs \in [Levels -> Seq(Funcs)]
    /\ registering \in Funcs \cup {"none"} /\ nextLevel \in Levels
    /\ extractors \in Seq(Extractors)
    /\ edits \in 0 .. MaxEdits
=============================================================================
