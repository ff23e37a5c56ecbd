----------------------------- MODULE AdapterLog -----------------------------
(***************************************************************************)
(* Adapter.log (pkg/adapter/adapter.go): a log call passes the level and   *)
(* the sampler, takes a field snapshot and an encoder buffer from pools,   *)
(* runs hooks, writes one line for every hook that failed and one for the  *)
(* entry, gives back what it took, and exits the process after a Fatal.    *)
(* Calls run concurrently on one logger and its With* clones, which share  *)
(* the pools, while the program edits the registries and the level.        *)
(*                                                                         *)
(* The output is the AsyncWriter as LogDelivery promises it, or any other  *)
(* writer.  A field is told apart by the call it belongs to and what added *)
(* it; a line is told apart by the call and the item ("entry" or the hook  *)
(* that failed) it was written for, and carries what the buffer then held. *)
(***************************************************************************)
EXTENDS HookRegistry, FiniteSets, SequencesExt

CONSTANTS
    Calls,        \* log calls
    Level,        \* the level of each call
    Logger,       \* the logger it is made on: "root", "fields" (WithField and
                  \* its like) or "context" (WithContext)
    HookLevels,   \* the named hooks of Config.Hooks, each with its Levels()
    InitialFuncs, \* hook functions registered before the calls
    Storages,     \* field snapshots
    Buffers,      \* encoder buffers
    Sampling,     \* Config.Sampling may drop entries
    StackTrace,   \* Config.EnableStackTrace
    EnableAsync,  \* Config.EnableAsync
    MaxFaults     \* bound: hooks, encodings, writes and syncs that fail, and
                  \* lines dropped because the queue is full

ConfigHooks == DOMAIN HookLevels

ASSUME LogAssumption ==
    /\ Level \in [Calls -> Levels]
    /\ Logger \in [Calls -> {"root", "fields", "context"}]
    /\ InitialFuncs \in Seq(Funcs)
    /\ "entry" \notin Funcs \cup ConfigHooks /\ ConfigHooks \cap Funcs = {}
    /\ HookLevels \in [ConfigHooks -> SUBSET Levels] /\ IsFiniteSet(ConfigHooks)
    /\ {Sampling, StackTrace, EnableAsync} \subseteq BOOLEAN
    /\ MaxFaults \in Nat

VARIABLES
    level,     \* a.level, shared by a logger and its clones
    pc,        \* where each call is
    storage,   \* the field snapshot a call holds: {} or {s}
    fields,    \* what each snapshot holds
    snapPool,  \* how often each snapshot lies in fieldsPool
    todo,      \* the hooks the running Dispatch still has to call
    errs,      \* the hooks that failed, whose errors come before the entry
    buffer,    \* the buffer a call holds: {} or {b}
    pooled,    \* it came from the encoder pool
    text,      \* what each buffer holds
    encPool,   \* how often each buffer lies in the encoder pool of the root
    buckets,   \* how often it lies in the bufferPool all loggers share
    pending,   \* lines the output has accepted and not yet written
    out,       \* lines written
    lost,      \* lines dropped on overflow: reported to the drop handler only
    awaited,   \* the lines the Sync of a Fatal waits for
    faults,
    exited,    \* "no", "clean" or "dirty": os.Exit, and whether Sync succeeded
    ran,       \* history: the hooks each call has run, in order
    extras,    \* history: the fields its context gave it
    stay, seen,\* history: hook functions registered throughout, or at some
               \* time in, the hook phase of each call
    before,    \* history: the calls that had returned when each call began
    failed     \* history: the items that could not be encoded or written

callVars == <<pc, storage, todo, errs, buffer, pooled, ran, extras>>
heapVars == <<fields, snapPool, text, encPool, buckets>>
outVars == <<pending, out, lost, awaited, failed, faults>>
histVars == <<stay, seen, before>>
vars == <<registryVars, level, callVars, heapVars, outVars, histVars, exited>>

Blank == <<>>
Labels == {"idle", "local", "global", "write", "recycle", "sync", "await", "done"}

FuncsAt(c) == ToSet(funcs[Level[c]])

Init ==
    /\ RegistryInit(InitialFuncs)
    /\ level = Lowest
    /\ pc = [c \in Calls |-> "idle"]
    /\ storage = [c \in Calls |-> {}] /\ fields = [s \in Storages |-> Blank]
    /\ snapPool = [s \in Storages |-> 0]
    /\ todo = [c \in Calls |-> <<>>] /\ errs = [c \in Calls |-> <<>>]
    /\ buffer = [c \in Calls |-> {}] /\ pooled = [c \in Calls |-> FALSE]
    /\ text = [b \in Buffers |-> Blank]
    /\ encPool = [b \in Buffers |-> 0] /\ buckets = [b \in Buffers |-> 0]
    /\ pending = <<>> /\ out = EmptyBag /\ lost = {} /\ failed = {}
    /\ faults = MaxFaults
    /\ awaited = [c \in Calls |-> {}]
    /\ exited = "no"
    /\ ran = [c \in Calls |-> <<>>] /\ extras = [c \in Calls |-> <<>>]
    /\ stay = [c \in Calls |-> {}] /\ seen = [c \in Calls |-> {}]
    /\ before = [c \in Calls |-> {}]

Fault == faults > 0 /\ faults' = faults - 1
Goto(c, label) == pc' = [pc EXCEPT ![c] = label]

\* The step of a call at a label, while the process runs.
At(c, label) == exited = "no" /\ pc[c] = label

-----------------------------------------------------------------------------
(* Pools.  A sync.Pool gives an item it holds, or a new one when it has none. *)

InPool(pool) == {x \in DOMAIN pool : pool[x] > 0}
Put(pool, x) == [pool EXCEPT ![x] = @ + 1]

\* Mutant: what a pool gives stays in it.
Get_Peek(pool, x) == pool

Get(pool, x) == [pool EXCEPT ![x] = @ - 1]

\* What a pool makes when it holds nothing.  Bound: with none left, the step waits.
Unused(items, held, used) == {x \in items \ used : \A c \in Calls : x \notin held[c]}
IsNew(x, unused) == x \in unused /\ x = (CHOOSE y \in unused : TRUE)
IsNewStorage(s) == IsNew(s, Unused(Storages, storage, InPool(snapPool)))
IsNewBuffer(b) == IsNew(b, Unused(Buffers, buffer, InPool(encPool) \cup InPool(buckets)))

\* borrowFieldsSnapshot: a WithContext logger has no fieldsPool.
BorrowStorage(c, s) ==
    /\ storage' = [storage EXCEPT ![c] = {s}]
    /\ IF Logger[c] = "context" \/ InPool(snapPool) = {}
       THEN IsNewStorage(s) /\ UNCHANGED snapPool
       ELSE s \in InPool(snapPool) /\ snapPool' = Get(snapPool, s)

\* borrowEncoderBuffer, from the encoder pool, which only the root has.
BorrowPooled(c, b) ==
    /\ Logger[c] = "root"
    /\ IF InPool(encPool) = {}
       THEN IsNewBuffer(b) /\ UNCHANGED encPool
       ELSE b \in InPool(encPool) /\ encPool' = Get(encPool, b)
    /\ pooled' = [pooled EXCEPT ![c] = TRUE]
    /\ UNCHANGED buckets

\* Otherwise, and when what the encoder pool gave is too small and has gone
\* back there, getBuffer asks the bucket of the size.
BorrowFromBucket(c, b) ==
    /\ IF InPool(buckets) = {}
       THEN IsNewBuffer(b) /\ UNCHANGED buckets
       ELSE b \in InPool(buckets) /\ buckets' = Get(buckets, b)
    /\ pooled' = [pooled EXCEPT ![c] = FALSE]
    /\ UNCHANGED encPool

BorrowBuffer(c, b) ==
    /\ buffer' = [buffer EXCEPT ![c] = {b}]
    /\ BorrowPooled(c, b) \/ BorrowFromBucket(c, b)

\* releaseEncoderBuffer: to the encoder pool if it came from there, else to its
\* bucket, unless it has no bucket of about its size.
ReleaseBuffer(c, b) ==
    /\ buffer' = [buffer EXCEPT ![c] = {}]
    /\ text' = [text EXCEPT ![b] = Blank]
    /\ IF pooled[c]
       THEN encPool' = Put(encPool, b) /\ UNCHANGED buckets
       ELSE buckets' \in {buckets, Put(buckets, b)} /\ UNCHANGED encPool
    /\ pooled' = [pooled EXCEPT ![c] = FALSE]

-----------------------------------------------------------------------------
(* From the call to the hooks. *)

\* The fields a context gives: the known key it holds, and what the registered
\* extractors find in it.
ContextFields(c) ==
    <<<<c, "key">>>> \o [i \in DOMAIN extractors |-> <<c, extractors[i]>>]
Base(c) == <<<<c, "base">>>>
Stack(c) == IF StackTrace /\ Level[c] >= Error THEN <<<<c, "stack">>>> ELSE <<>>

NamedHooks(c) == {h \in ConfigHooks : Level[c] \in HookLevels[h]}

Passes(c) == Level[c] >= level

\* The level or the sampler, which never holds back Warn and above.
Filtered(c) ==
    /\ At(c, "idle")
    /\ ~Passes(c) \/ (Sampling /\ Level[c] < Warn)
    /\ Goto(c, "done")
    /\ UNCHANGED <<registryVars, level, storage, todo, errs, buffer, pooled, ran, extras, heapVars, outVars, histVars, exited>>

\* The start of log: appendContextFields, borrowFieldsSnapshot, attachStackTrace
\* and the hooks of the logger's own registry, which a map gives in any order.
Begin(c) ==
    /\ At(c, "idle") /\ Passes(c)
    /\ \E s \in Storages :
          /\ BorrowStorage(c, s)
          /\ fields' = [fields EXCEPT ![s] = Base(c) \o ContextFields(c) \o Stack(c)]
    /\ extras' = [extras EXCEPT ![c] = ContextFields(c)]
    /\ \E hooks \in SetToSeqs(NamedHooks(c)) : todo' = [todo EXCEPT ![c] = hooks]
    /\ Goto(c, "local")
    /\ stay' = [stay EXCEPT ![c] = FuncsAt(c)]
    /\ seen' = [seen EXCEPT ![c] = FuncsAt(c)]
    /\ before' = [before EXCEPT ![c] = {d \in Calls : Level[c] = Fatal /\ pc[d] = "done"}]
    /\ UNCHANGED <<registryVars, level, errs, buffer, pooled, ran, text, encPool, buckets, outVars, exited>>

Slot(c) == CHOOSE s \in Storages : s \in storage[c]
Buf(c) == CHOOSE b \in Buffers : b \in buffer[c]

\* Mutant: the first hook that fails is the last that runs.
RunHook_StopsAtError(c) ==
    /\ exited = "no" /\ pc[c] \in {"local", "global"} /\ todo[c] # <<>>
    /\ LET h == Head(todo[c]) IN
       /\ ran' = [ran EXCEPT ![c] = Append(@, h)]
       /\ fields' = [fields EXCEPT ![Slot(c)] = Append(@, <<c, h>>)]
       /\ \/ UNCHANGED <<errs, faults>> /\ todo' = [todo EXCEPT ![c] = Tail(@)]
          \/ /\ Fault /\ errs' = [errs EXCEPT ![c] = Append(@, h)]
             /\ todo' = [todo EXCEPT ![c] = <<>>]
    /\ UNCHANGED <<registryVars, level, pc, storage, buffer, pooled, extras, snapPool, text, encPool, buckets, pending, out, lost, awaited, failed, histVars, exited>>

\* One hook of the list Dispatch has copied.  A hook may add to the entry.
RunHook(c) ==
    /\ exited = "no" /\ pc[c] \in {"local", "global"} /\ todo[c] # <<>>
    /\ LET h == Head(todo[c]) IN
       /\ ran' = [ran EXCEPT ![c] = Append(@, h)]
       /\ fields' = [fields EXCEPT ![Slot(c)] = Append(@, <<c, h>>)]
       /\ \/ UNCHANGED <<errs, faults>>
          \/ Fault /\ errs' = [errs EXCEPT ![c] = Append(@, h)]
    /\ todo' = [todo EXCEPT ![c] = Tail(@)]
    /\ UNCHANGED <<registryVars, level, pc, storage, buffer, pooled, extras, snapPool, text, encPool, buckets, pending, out, lost, awaited, failed, histVars, exited>>

\* FireRegisteredHooks: getFuncsForLevel copies the list of the level.
DispatchGlobal(c) ==
    /\ At(c, "local") /\ todo[c] = <<>>
    /\ todo' = [todo EXCEPT ![c] = funcs[Level[c]]]
    /\ Goto(c, "global")
    /\ UNCHANGED <<registryVars, level, storage, errs, buffer, pooled, ran, extras, heapVars, outVars, histVars, exited>>

-----------------------------------------------------------------------------
(* Every item, the errors of the hooks first, is encoded and written. *)

HooksRan(c) == At(c, "global") /\ todo[c] = <<>>
Item(c) == IF errs[c] = <<>> THEN "entry" ELSE Head(errs[c])
Content(c) == IF Item(c) = "entry" THEN fields[Slot(c)] ELSE <<<<c, Item(c)>>>>

Encode(c) ==
    /\ HooksRan(c)
    /\ \E b \in Buffers :
          /\ BorrowBuffer(c, b)
          /\ text' = [text EXCEPT ![b] = Content(c)]
    /\ Goto(c, "write")
    /\ UNCHANGED <<registryVars, level, storage, todo, errs, ran, extras, fields, snapPool, outVars, histVars, exited>>

\* Mutant: the error of a hook ends the call.
NextItem_Returns(c) ==
    /\ fields' = [fields EXCEPT ![Slot(c)] = Blank]
    /\ snapPool' = IF Logger[c] = "context" THEN snapPool ELSE Put(snapPool, Slot(c))
    /\ storage' = [storage EXCEPT ![c] = {}]
    /\ Goto(c, "done")
    /\ UNCHANGED errs

\* After the error of a hook comes the next item.  After the entry the deferred
\* releaseFieldsSnapshot clears the snapshot and gives it back, if the logger
\* has a fieldsPool, and the call returns.
NextItem(c) ==
    IF Item(c) # "entry"
    THEN /\ errs' = [errs EXCEPT ![c] = Tail(@)]
         /\ Goto(c, "global")
         /\ UNCHANGED <<storage, fields, snapPool>>
    ELSE /\ fields' = [fields EXCEPT ![Slot(c)] = Blank]
         /\ snapPool' = IF Logger[c] = "context" THEN snapPool ELSE Put(snapPool, Slot(c))
         /\ storage' = [storage EXCEPT ![c] = {}]
         /\ Goto(c, "done")
         /\ UNCHANGED errs

\* Mutant: the buffer is given back by encodeEntry and again by its caller.
EncodeFails_ReleasesTwice(c) ==
    /\ HooksRan(c) /\ Fault
    /\ \E b \in Buffers : IsNewBuffer(b) /\ buckets' = Put(Put(buckets, b), b)
    /\ failed' = failed \cup {<<c, Item(c), "encode">>}
    /\ NextItem(c)
    /\ UNCHANGED <<registryVars, level, todo, buffer, pooled, text, encPool, ran, extras, pending, out, lost, awaited, histVars, exited>>

\* encodeEntry takes a buffer and gives it back itself: the pools stay as they
\* were or gain a new one.  The entry is not written, and a Fatal does not exit.
EncodeFails(c) ==
    /\ HooksRan(c) /\ Fault
    /\ \/ UNCHANGED <<encPool, buckets>>
       \/ \E b \in Buffers :
             /\ IsNewBuffer(b)
             /\ \/ /\ Logger[c] = "root" /\ InPool(encPool) = {}
                   /\ encPool' = Put(encPool, b) /\ UNCHANGED buckets
                \/ /\ InPool(buckets) = {}
                   /\ buckets' = Put(buckets, b) /\ UNCHANGED encPool
    /\ failed' = failed \cup {<<c, Item(c), "encode">>}
    /\ NextItem(c)
    /\ UNCHANGED <<registryVars, level, todo, buffer, pooled, text, ran, extras, pending, out, lost, awaited, histVars, exited>>

\* Mutant: an entry of error level takes the queue like any other.
Critical_Never(c) == FALSE

\* WriteCritical; the error of a hook does not take it, whatever its level.
Critical(c) == EnableAsync /\ Item(c) = "entry" /\ Level[c] >= Error

Write(c) ==
    /\ At(c, "write")
    /\ LET line == [call |-> c, item |-> Item(c), text |-> text[Buf(c)]]
           queued == EnableAsync /\ ~Critical(c)
       IN
       \/ /\ out' = out (+) SetToBag({line})
          /\ UNCHANGED <<pending, lost, failed, faults>>
       \/ /\ queued /\ pending' = Append(pending, line)
          /\ UNCHANGED <<out, lost, failed, faults>>
       \/ /\ queued /\ Fault /\ lost' = lost \cup {line}
          /\ UNCHANGED <<pending, out, failed>>
       \/ /\ queued /\ Fault /\ pending # <<>>
          /\ pending' = Append(Tail(pending), line) /\ lost' = lost \cup {Head(pending)}
          /\ UNCHANGED <<out, failed>>
       \/ /\ Fault /\ failed' = failed \cup {<<c, Item(c), "write">>}
          /\ UNCHANGED <<pending, out, lost>>
    /\ Goto(c, "recycle")
    /\ UNCHANGED <<registryVars, level, storage, todo, errs, buffer, pooled, ran, extras, heapVars, awaited, histVars, exited>>

\* releaseEncoderBuffer, then the end of log.  After a Fatal comes exit, and its
\* snapshot is never given back.
Recycle(c) ==
    /\ At(c, "recycle")
    /\ ReleaseBuffer(c, Buf(c))
    /\ IF Item(c) = "entry" /\ Level[c] = Fatal
       THEN Goto(c, "sync") /\ UNCHANGED <<errs, storage, fields, snapPool>>
       ELSE NextItem(c)
    /\ UNCHANGED <<registryVars, level, todo, ran, extras, outVars, histVars, exited>>

-----------------------------------------------------------------------------
(* exit, the output, and the program around the calls. *)

Acknowledged(line) == ~(pc[line.call] = "recycle" /\ Item(line.call) = line.item)

\* Mutant: the process exits without waiting for the queue.
SyncBegin_WaitsForNothing(c) ==
    /\ At(c, "sync")
    /\ Goto(c, "await")
    /\ UNCHANGED <<registryVars, level, storage, todo, errs, buffer, pooled, ran, extras, heapVars, outVars, histVars, exited>>

\* Sync, which on an AsyncWriter is Flush: a barrier for what was acknowledged.
SyncBegin(c) ==
    /\ At(c, "sync")
    /\ awaited' = [awaited EXCEPT ![c] = {l \in ToSet(pending) : Acknowledged(l)}]
    /\ Goto(c, "await")
    /\ UNCHANGED <<registryVars, level, storage, todo, errs, buffer, pooled, ran, extras, heapVars, pending, out, lost, failed, faults, histVars, exited>>

\* A Sync that fails does not keep the process from exiting.
Exit(c) ==
    /\ At(c, "await")
    /\ \/ awaited[c] \cap ToSet(pending) = {} /\ exited' = "clean" /\ UNCHANGED faults
       \/ Fault /\ exited' = "dirty"
    /\ Goto(c, "done")
    /\ UNCHANGED <<registryVars, level, storage, todo, errs, buffer, pooled, ran, extras, heapVars, pending, out, lost, awaited, failed, histVars>>

\* The worker of the output writes its oldest line, or gives it up.
Deliver ==
    /\ exited = "no" /\ pending # <<>>
    /\ pending' = Tail(pending)
    /\ \/ out' = out (+) SetToBag({Head(pending)}) /\ UNCHANGED <<lost, faults>>
       \/ Fault /\ lost' = lost \cup {Head(pending)} /\ UNCHANGED out
    /\ UNCHANGED <<registryVars, level, callVars, heapVars, awaited, failed, histVars, exited>>

InHooks(c) == pc[c] = "local" \/ (pc[c] = "global" /\ todo[c] # <<>>)
\* Bound: no edit once no call has its hooks to run.
EditsMatter == \E c \in Calls : pc[c] = "idle" \/ InHooks(c)

\* Mutant: any level is taken.
SetLevel_Unchecked(l) ==
    /\ exited = "no" /\ EditsMatter /\ Edit
    /\ level' = l
    /\ UNCHANGED <<funcs, registering, nextLevel, extractors, callVars, heapVars, outVars, histVars, exited>>

SetLevel(l) ==
    /\ exited = "no" /\ EditsMatter /\ Edit
    /\ level' = IF IsValid(l) THEN l ELSE level
    /\ UNCHANGED <<funcs, registering, nextLevel, extractors, callVars, heapVars, outVars, histVars, exited>>

\* The program edits the registries; the histories of the calls that have not
\* run their hooks yet follow.
EditDuringCalls ==
    /\ exited = "no" /\ EditsMatter /\ EditRegistry
    /\ stay' = [c \in Calls |-> IF InHooks(c) THEN stay[c] \cap ToSet(funcs'[Level[c]]) ELSE stay[c]]
    /\ seen' = [c \in Calls |-> IF InHooks(c) THEN seen[c] \cup ToSet(funcs'[Level[c]]) ELSE seen[c]]
    /\ UNCHANGED <<level, callVars, heapVars, outVars, before, exited>>

Step(c) ==
    \/ Filtered(c) \/ Begin(c) \/ RunHook(c) \/ DispatchGlobal(c)
    \/ Encode(c) \/ EncodeFails(c) \/ Write(c) \/ Recycle(c)
    \/ SyncBegin(c) \/ Exit(c)

Terminating ==
    /\ exited # "no" \/ \A c \in Calls : pc[c] = "done"
    /\ UNCHANGED vars

Next ==
    \/ \E c \in Calls : Step(c)
    \/ Deliver
    \/ \E l \in Levels \cup {InvalidLevel} : SetLevel(l)
    \/ EditDuringCalls
    \/ Terminating

Spec == Init /\ [][Next]_vars

\* Hooks return, the scheduler runs every goroutine, and the output keeps what
\* AsyncWriter!AcceptedIsResolved says of it.
FairSpec == Spec /\ (\A c \in Calls : WF_vars(Step(c))) /\ WF_vars(Deliver)

-----------------------------------------------------------------------------
Hooks == Funcs \cup ConfigHooks
Items == {"entry"} \cup Hooks
Fields == Calls \X ({"base", "key", "stack"} \cup Extractors \cup Hooks)
Line == [call : Calls, item : Items, text : Seq(Fields)]

TypeOK ==
    /\ RegistryTypeOK /\ level \in Levels
    /\ pc \in [Calls -> Labels]
    /\ storage \in [Calls -> SUBSET Storages] /\ buffer \in [Calls -> SUBSET Buffers]
    /\ snapPool \in [Storages -> Nat] /\ fields \in [Storages -> Seq(Fields)]
    /\ encPool \in [Buffers -> Nat] /\ buckets \in [Buffers -> Nat]
    /\ text \in [Buffers -> Seq(Fields)]
    /\ pooled \in [Calls -> BOOLEAN]
    /\ {todo, errs, ran} \subseteq [Calls -> Seq(Hooks)]
    /\ pending \in Seq(Line) /\ IsABag(out) /\ DOMAIN out \cup lost \subseteq Line
    /\ failed \subseteq Calls \X Items \X {"encode", "write"}
    /\ awaited \in [Calls -> SUBSET Line] /\ before \in [Calls -> SUBSET Calls]
    /\ extras \in [Calls -> Seq(Fields)] /\ {stay, seen} \subseteq [Calls -> SUBSET Funcs]
    /\ faults \in 0 .. MaxFaults /\ exited \in {"no", "clean", "dirty"}

\* A field snapshot or a buffer is held by one call or lies in one pool once,
\* never both, whatever path gave it back.
OneOwner ==
    /\ \A s \in Storages : snapPool[s] + Cardinality({c \in Calls : s \in storage[c]}) <= 1
    /\ \A b \in Buffers : encPool[b] + buckets[b] + Cardinality({c \in Calls : b \in buffer[c]}) <= 1

\* What makes OneOwner inductive: a call holds at most one of each, which no
\* other call holds and no pool, for as long as it needs it.
SnapshotInv ==
    /\ \A c \in Calls :
        /\ storage[c] # {} => storage[c] = {Slot(c)} /\ Slot(c) \in Storages
        /\ pc[c] \in {"local", "global", "write", "recycle"} => storage[c] # {}
    /\ \A c, d \in Calls : c # d => storage[c] \cap storage[d] = {}
    /\ \A s \in Storages : snapPool[s] <= 1 /\ (snapPool[s] > 0 => \A c \in Calls : s \notin storage[c])
BufferInv ==
    /\ \A c \in Calls :
        /\ buffer[c] # {} => buffer[c] = {Buf(c)} /\ Buf(c) \in Buffers
        /\ pc[c] \in {"write", "recycle"} => buffer[c] # {}
    /\ \A c, d \in Calls : c # d => buffer[c] \cap buffer[d] = {}
    /\ \A b \in Buffers :
        /\ encPool[b] + buckets[b] <= 1
        /\ encPool[b] + buckets[b] > 0 => \A c \in Calls : b \notin buffer[c]
PlaceInv == SnapshotInv /\ BufferInv

\* The line of an entry carries the fields of its own logger, context and stack
\* and what its own hooks added, in this order, and nothing of another call that
\* uses the same pools; the line of a hook error, that error.
Marks(c) == [i \in DOMAIN ran[c] |-> <<c, ran[c][i]>>]
Expected(c, item) ==
    IF item = "entry" THEN Base(c) \o extras[c] \o Stack(c) \o Marks(c) ELSE <<<<c, item>>>>
Lines == ToSet(pending) \cup BagToSet(out) \cup lost
LinesAreOwn == \A l \in Lines : l.text = Expected(l.call, l.item)

\* What makes LinesAreOwn inductive: the snapshot and the buffer of a call hold
\* what they should, and once the line of its entry exists no hook of it runs.
TextInv ==
    /\ \A c \in Calls :
        /\ pc[c] = "idle" => ran[c] = <<>>
        /\ pc[c] \in {"local", "global", "write", "recycle"} => fields[Slot(c)] = Expected(c, "entry")
        /\ pc[c] = "write" => text[Buf(c)] = Expected(c, Item(c))
    /\ \A l \in Lines :
        /\ l.text = Expected(l.call, l.item)
        /\ l.item = "entry" =>
            \/ pc[l.call] \in {"sync", "await", "done"}
            \/ pc[l.call] = "recycle" /\ errs[l.call] = <<>>

\* A hook function that is registered for the level while the call looks for
\* hooks runs, one that runs was registered during the call, and all the named
\* hooks of the level run, whichever of them fail.
HookWindow ==
    \A c \in Calls : pc[c] = "global" /\ todo[c] = <<>> =>
        /\ stay[c] \subseteq ToSet(ran[c])
        /\ ToSet(ran[c]) \subseteq seen[c] \cup NamedHooks(c)
        /\ NamedHooks(c) \subseteq ToSet(ran[c])

\* What makes HookWindow inductive: what the call has still to run counts too.
HookInv ==
    \A c \in Calls :
        LET hooks == ToSet(ran[c]) \cup ToSet(todo[c]) IN
        /\ pc[c] = "idle" => ran[c] = <<>>
        /\ pc[c] = "local" =>
            /\ stay[c] \subseteq FuncsAt(c) /\ FuncsAt(c) \subseteq seen[c]
            /\ hooks = NamedHooks(c)
        /\ pc[c] \in {"global", "write", "recycle"} =>
            /\ stay[c] \subseteq hooks
            /\ hooks \subseteq seen[c] \cup NamedHooks(c)
            /\ NamedHooks(c) \subseteq hooks

Copies == UNION {{l} \X (1 .. out[l]) : l \in DOMAIN out}
Fates(c, item) ==
    Cardinality({i \in DOMAIN pending : pending[i].call = c /\ pending[i].item = item})
    + Cardinality({w \in Copies : w[1].call = c /\ w[1].item = item})
    + Cardinality({l \in lost : l.call = c /\ l.item = item})
    + Cardinality({f \in failed : f[1] = c /\ f[2] = item})

Times(hooks, h) == Cardinality({i \in DOMAIN hooks : hooks[i] = h})

\* README.md: asynchronous, "with fallback to synchronous for critical logs".  An
\* entry of error level or above is never dropped or left in the queue.
CriticalIsSynchronous ==
    \A l \in lost \cup ToSet(pending) : l.item = "entry" => Level[l.call] < Error

\* Everything a call has to say has one fate: one line, in the queue, written or
\* dropped, or one error; and an entry of error level is not left to the queue.
OneFate ==
    /\ CriticalIsSynchronous
    /\ \A c \in Calls :
        /\ pc[c] \in {"sync", "await"} \/ (pc[c] = "done" /\ extras[c] # <<>>) => Fates(c, "entry") = 1
        /\ pc[c] \in {"idle", "local", "global", "write"} => Fates(c, "entry") = 0
        /\ \A h \in Hooks : Fates(c, h) <= Times(ran[c], h)

\* What makes OneFate inductive: an error of a hook has its fate when it leaves
\* the list of errors, or at the Write before it leaves.
Owed(c) == IF pc[c] = "recycle" /\ errs[c] # <<>> THEN Tail(errs[c]) ELSE errs[c]
FateInv ==
    /\ CriticalIsSynchronous
    /\ IsFiniteSet(Copies) /\ IsFiniteSet(lost) /\ IsFiniteSet(failed)
    /\ \A c \in Calls :
        /\ pc[c] = "idle" => extras[c] = <<>>
        /\ pc[c] \in {"idle", "local", "global", "write"} => Fates(c, "entry") = 0
        /\ pc[c] = "recycle" => Fates(c, "entry") = IF errs[c] = <<>> THEN 1 ELSE 0
        /\ pc[c] \in {"sync", "await"} \/ (pc[c] = "done" /\ extras[c] # <<>>) => Fates(c, "entry") = 1
        /\ \A h \in Hooks : Fates(c, h) + Times(Owed(c), h) <= Times(ran[c], h)

\* When Fatal exits after a good Sync, no line of a call that had returned
\* before the Fatal began is left in the queue.
ExitFlushes ==
    exited = "clean" =>
        \E c \in Calls : /\ Level[c] = Fatal /\ pc[c] = "done"
                         /\ \A l \in ToSet(pending) : l.call \notin before[c]

\* What makes ExitFlushes inductive: the calls before a Fatal stay returned, and
\* its Sync waits for what they left in the queue.
FlushInv ==
    /\ ExitFlushes
    /\ \A c \in Calls :
        /\ \A d \in before[c] : pc[d] = "done"
        /\ pc[c] \in {"sync", "await"} => Level[c] = Fatal
        /\ pc[c] = "await" => \A l \in ToSet(pending) : l.call \in before[c] => l \in awaited[c]

LogInv == PlaceInv /\ TextInv /\ HookInv /\ FateInv /\ FlushInv

\* Every log call returns or the process exits, and a Fatal never returns: it
\* ends the process whatever level the program sets and whatever fails, unless
\* its entry cannot be encoded.
CallsEnd ==
    \A c \in Calls : pc[c] # "idle" ~>
        \/ exited # "no"
        \/ pc[c] = "done" /\ (Level[c] = Fatal => <<c, "entry", "encode">> \in failed)
=============================================================================
