---------------------------- MODULE PayloadPool ----------------------------
(***************************************************************************)
(* Who owns the pooled buffers of an AsyncWriter (internal/output/async.go) *)
(* while records are written, dropped, handed to a drop handler and        *)
(* retained by it.  A record is copied into a buffer of payloadPool; the   *)
(* goroutine that writes or drops it gives the buffer back, unless a       *)
(* DropPayloadHandler retained it, and then the lease does.  A buffer is   *)
(* overwritten by the next record that borrows it.                         *)
(***************************************************************************)
EXTENDS Naturals, FiniteSets

CONSTANTS
    Records,     \* what callers log
    Buffers,     \* the buffers payloadPool.New may create
    Handlers,    \* kinds of drop handler configured: "legacy", "leased"
    None

ASSUME PoolAssumption ==
    /\ Handlers \subseteq {"legacy", "leased"}
    /\ None \notin Records \cup Buffers

VARIABLES
    handler,  \* the handler of this writer, fixed by AsyncConfig
    created,  \* buffers made by payloadPool.New
    pool,     \* how often each buffer sits in payloadPool
    content,  \* the record whose bytes each buffer holds
    stage,    \* what the owner of each record is doing
    storage,  \* payload.storage, which is also payload.data
    written,  \* history: the bytes the underlying writer got for each record
    dropped,  \* the buffer seen by the dropPayload made for each record
    retained, \* dropPayload.retained
    once,     \* dropPayload.once has run
    lease,    \* the buffer of a payloadLease not yet released
    late,     \* history: the records retained after their handler returned
    kept      \* the slice a legacy handler kept after it returned

vars == <<handler, created, pool, content, stage, storage, written, dropped,
          retained, once, lease, late, kept>>

Init ==
    /\ handler \in Handlers
    /\ created = {}
    /\ pool = [b \in Buffers |-> 0]
    /\ content = [b \in Buffers |-> None]
    /\ stage = [r \in Records |-> "new"]
    /\ storage = [r \in Records |-> None]
    /\ written = [r \in Records |-> None]
    /\ dropped = [r \in Records |-> None]
    /\ retained = [r \in Records |-> FALSE]
    /\ once = [r \in Records |-> FALSE]
    /\ lease = [r \in Records |-> None]
    /\ late = {}
    /\ kept = [r \in Records |-> None]

\* Mutant: the buffer is lent without leaving the pool.
TakeFrom_Stays(b) ==
    \/ pool[b] > 0 /\ UNCHANGED <<pool, created>>
    \/ b \notin created /\ created' = created \cup {b} /\ UNCHANGED pool

\* Mutant: a buffer is taken from an empty pool.
TakeFrom_Unguarded(b) ==
    \/ pool' = [pool EXCEPT ![b] = @ - 1] /\ UNCHANGED created
    \/ b \notin created /\ created' = created \cup {b} /\ UNCHANGED pool

\* payloadPool.Get: a pooled buffer, or a new one (a pool may forget buffers).
TakeFrom(b) ==
    \/ pool[b] > 0 /\ pool' = [pool EXCEPT ![b] = @ - 1] /\ UNCHANGED created
    \/ b \notin created /\ created' = created \cup {b} /\ UNCHANGED pool

\* borrowPayload copies the caller's bytes over whatever the buffer held.
Borrow(r) ==
    /\ stage[r] = "new"
    /\ \E b \in Buffers :
          /\ TakeFrom(b)
          /\ content' = [content EXCEPT ![b] = r]
          /\ storage' = [storage EXCEPT ![r] = b]
    /\ stage' = [stage EXCEPT ![r] = "owned"]
    /\ UNCHANGED <<handler, written, dropped, retained, once, lease, late, kept>>

\* Mutant: the payload keeps pointing at the buffer it gave back.
ReleasePayload_Dangling(r) ==
    IF storage[r] = None
    THEN UNCHANGED <<pool, storage>>
    ELSE /\ pool' = [pool EXCEPT ![storage[r]] = @ + 1]
         /\ UNCHANGED storage

\* releasePayload does nothing the second time: it forgets the buffer.
ReleasePayload(r) ==
    IF storage[r] = None
    THEN UNCHANGED <<pool, storage>>
    ELSE /\ pool' = [pool EXCEPT ![storage[r]] = @ + 1]
         /\ storage' = [storage EXCEPT ![r] = None]

\* dropPayload.callRelease: releasePayload behind a sync.Once.
CallRelease(r) ==
    /\ once' = [once EXCEPT ![r] = TRUE]
    /\ IF once[r] THEN UNCHANGED <<pool, storage>> ELSE ReleasePayload(r)

\* performWrite hands the buffer to the underlying writer.
WriteOut(r) ==
    /\ stage[r] = "owned"
    /\ written' = [written EXCEPT ![r] = content[storage[r]]]
    /\ stage' = [stage EXCEPT ![r] = "written"]
    /\ UNCHANGED <<handler, created, pool, content, storage, dropped, retained, once, lease, late, kept>>

ReleaseWritten(r) ==
    /\ stage[r] = "written"
    /\ ReleasePayload(r)
    /\ stage' = [stage EXCEPT ![r] = "done"]
    /\ UNCHANGED <<handler, created, content, written, dropped, retained, once, lease, late, kept>>

\* Mutant: the buffer goes back before the handler is called.
HandleDrop_ReleasesFirst(r) ==
    /\ stage[r] = "owned"
    /\ stage' = [stage EXCEPT ![r] = "handling"]
    /\ dropped' = [dropped EXCEPT ![r] = storage[r]]
    /\ ReleasePayload(r)
    /\ UNCHANGED <<handler, created, content, written, retained, once, lease, late, kept>>

\* handleDrop calls the handler.  A legacy handler is given payload.data.
HandleDrop(r) ==
    /\ stage[r] = "owned"
    /\ stage' = [stage EXCEPT ![r] = "handling"]
    /\ dropped' = [dropped EXCEPT ![r] = storage[r]]
    /\ \/ UNCHANGED kept
       \/ handler = "legacy" /\ kept' = [kept EXCEPT ![r] = storage[r]]
    /\ UNCHANGED <<handler, created, pool, content, storage, written, retained, once, lease, late>>

\* A DropPayloadHandler retains the payload, in time or after it has returned;
\* only the first Retain owns it.
Retain(r) ==
    /\ handler = "leased"
    /\ \/ stage[r] = "handling"
       \/ stage[r] \in {"checked", "done"} /\ dropped[r] # None
    /\ late' = IF stage[r] = "handling" THEN late ELSE late \cup {r}
    /\ ~retained[r]
    /\ retained' = [retained EXCEPT ![r] = TRUE]
    /\ lease' = [lease EXCEPT ![r] = dropped[r]]
    /\ UNCHANGED <<handler, created, pool, content, stage, storage, written, dropped, once, kept>>

\* Mutant: the lease is dropped without giving the buffer back.
ReleaseLease_Forgets(r) ==
    /\ lease[r] # None
    /\ lease' = [lease EXCEPT ![r] = None]
    /\ UNCHANGED <<pool, storage, once>>
    /\ UNCHANGED <<handler, created, content, stage, written, dropped, retained, late, kept>>

\* payloadLease.Release, in the handler or any time after it.
ReleaseLease(r) ==
    /\ lease[r] # None
    /\ lease' = [lease EXCEPT ![r] = None]
    /\ CallRelease(r)
    /\ UNCHANGED <<handler, created, content, stage, written, dropped, retained, late, kept>>

LegacyReturn(r) ==
    /\ handler = "legacy"
    /\ stage[r] = "handling"
    /\ ReleasePayload(r)
    /\ stage' = [stage EXCEPT ![r] = "done"]
    /\ UNCHANGED <<handler, created, content, written, dropped, retained, once, lease, late, kept>>

\* Mutant: the buffer goes back although the handler retained it.
CheckRetained_Ignored(r) ==
    /\ handler = "leased"
    /\ stage[r] = "handling"
    /\ stage' = [stage EXCEPT ![r] = "checked"]
    /\ UNCHANGED <<handler, created, pool, content, storage, written, dropped, retained, once, lease, late, kept>>

\* releaseIfNeeded reads retained when the handler has returned ...
CheckRetained(r) ==
    /\ handler = "leased"
    /\ stage[r] = "handling"
    /\ stage' = [stage EXCEPT ![r] = IF retained[r] THEN "done" ELSE "checked"]
    /\ UNCHANGED <<handler, created, pool, content, storage, written, dropped, retained, once, lease, late, kept>>

\* ... and, in a later step, gives the buffer back if it was not.
ReleaseIfNeeded(r) ==
    /\ stage[r] = "checked"
    /\ CallRelease(r)
    /\ stage' = [stage EXCEPT ![r] = "done"]
    /\ UNCHANGED <<handler, created, content, written, dropped, retained, lease, late, kept>>

AllDone == \A r \in Records : stage[r] = "done" /\ lease[r] = None

Next ==
    \/ \E r \in Records :
          \/ Borrow(r) \/ WriteOut(r) \/ ReleaseWritten(r)
          \/ HandleDrop(r) \/ Retain(r) \/ ReleaseLease(r)
          \/ LegacyReturn(r) \/ CheckRetained(r) \/ ReleaseIfNeeded(r)
    \/ AllDone /\ UNCHANGED vars

Spec == Init /\ [][Next]_vars

-----------------------------------------------------------------------------
Stages == {"new", "owned", "written", "handling", "checked", "done"}

TypeOK ==
    /\ handler \in Handlers
    /\ created \subseteq Buffers
    /\ pool \in [Buffers -> Nat]
    /\ content \in [Buffers -> Records \cup {None}]
    /\ stage \in [Records -> Stages]
    /\ storage \in [Records -> Buffers \cup {None}]
    /\ written \in [Records -> Records \cup {None}]
    /\ dropped \in [Records -> Buffers \cup {None}]
    /\ retained \in [Records -> BOOLEAN]
    /\ once \in [Records -> BOOLEAN]
    /\ lease \in [Records -> Buffers \cup {None}]
    /\ late \subseteq Records
    /\ kept \in [Records -> Buffers \cup {None}]

\* A buffer is in the pool at most once and only while no payload owns it:
\* payloads, drops and leases never release it twice, whoever comes first.
OneOwner ==
    \A b \in Buffers : pool[b] + Cardinality({r \in Records : storage[r] = b}) <= 1

\* When every record is through and every lease released, every buffer ever
\* created is back in the pool: no path leaks one.
NothingLeaks == AllDone => \A b \in created : pool[b] = 1

\* Buffers are neither multiplied nor lost.
BuffersConserved == OneOwner /\ NothingLeaks

\* The underlying writer gets the bytes of the record it is asked to write,
\* never those of a record that has taken over the buffer.
WritesIntact == \A r \in Records : written[r] \in {None, r}

\* A lease taken while the handler runs shows the dropped record until it is
\* released: nobody borrows its buffer in the meantime.
LeaseIntact ==
    \A r \in Records : lease[r] # None /\ r \notin late => content[lease[r]] = r

\* As long as a drop handler of either kind runs, and has not released a lease
\* itself, what it was given are the bytes of the record that was dropped,
\* although it is the pooled buffer itself.
HandlerSeesRecord ==
    \A r \in Records : stage[r] = "handling" /\ ~once[r] => content[dropped[r]] = r

\* Whoever may look at a buffer, the underlying writer, a handler or the holder
\* of a lease, finds the record it was given there.
BytesIntact == WritesIntact /\ LeaseIntact /\ HandlerSeesRecord

\* BuffersConserved and BytesIntact as induction hypotheses.  A buffer ever
\* created has one place: the pool, or the one payload that points at it, which
\* then holds that payload's bytes.
OnePlace ==
    /\ \A b \in Buffers : pool[b] = 1 => b \in created
    /\ \A b \in Buffers : pool[b] > 0 => pool[b] = 1 /\ \A r \in Records : storage[r] # b
    /\ \A b \in created : pool[b] = 1 \/ \E r \in Records : storage[r] = b
    /\ \A r \in Records : storage[r] # None => storage[r] \in created /\ content[storage[r]] = r
    /\ \A r, q \in Records : storage[r] = storage[q] /\ storage[r] # None => r = q

\* Where a record's payload, the drop made of it and its lease point: a payload
\* that is through points at a buffer only on behalf of a lease, and a lease
\* taken in time keeps the payload from being released by anyone else.
Path(r) ==
    /\ stage[r] = "new" => storage[r] = None
    /\ stage[r] \in {"owned", "written"} => storage[r] # None
    /\ stage[r] \in {"new", "owned", "written"}
          => dropped[r] = None /\ lease[r] = None /\ ~retained[r] /\ ~once[r]
    /\ stage[r] \in {"handling", "checked"}
          => dropped[r] # None /\ (storage[r] # None \/ once[r])
    /\ stage[r] = "done" /\ storage[r] # None => lease[r] # None
    /\ once[r] => storage[r] = None /\ (retained[r] \/ stage[r] = "done")
    /\ storage[r] # None /\ dropped[r] # None => dropped[r] = storage[r]
    /\ retained[r] /\ storage[r] # None => lease[r] # None
    /\ lease[r] # None =>
          /\ lease[r] = dropped[r] /\ handler = "leased" /\ retained[r]
          /\ r \notin late => storage[r] # None /\ stage[r] \in {"handling", "done"}
    /\ written[r] \in {None, r}

PoolInv == OnePlace /\ \A r \in Records : Path(r)

\* The legacy handler works on a copy: what it keeps does not change.
LegacyCopyStays == \A r \in Records : kept[r] # None => content[kept[r]] = r
=============================================================================
