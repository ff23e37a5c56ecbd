----------------------------- MODULE AsyncWriter -----------------------------
(***************************************************************************)
(* The asynchronous writer of internal/output/async.go: callers put log    *)
(* payloads on a bounded channel, one worker goroutine (processLogs) takes *)
(* them off and writes them to the underlying io.Writer.  Flush and Close  *)
(* talk to the worker through flushCh, stopCh and the closing of msgCh.    *)
(*                                                                         *)
(* A call is one goroutine executing one method once.  A Write or a        *)
(* WriteCritical is also the payload it carries: payloads are told apart   *)
(* by the call that made them.  A step is one access to shared state (the  *)
(* mutex, a channel operation, a write to the underlying writer) with the  *)
(* local code up to the next one.  Metrics snapshots, handlers' own        *)
(* behaviour and the payload pool are not part of this module.             *)
(***************************************************************************)
EXTENDS Integers, Sequences, FiniteSets, Functions

CONSTANTS
    Writes,        \* calls of Write
    Criticals,     \* calls of WriteCritical
    Flushes,       \* calls of Flush (Sync is the same call)
    Closes,        \* calls of Close
    None,          \* no payload, no flush, no holder
    Strategies,    \* the overflow strategies a writer may be built with
    BufferSize,    \* AsyncConfig.BufferSize, before defaulting
    RetryEnabled,  \* AsyncConfig.RetryEnabled
    MaxRetries,    \* AsyncConfig.MaxRetries, before defaulting
    FaultyWrite,   \* the underlying Write may return an error
    FaultySync,    \* the underlying Sync and Close may return an error
    StandardStream \* the underlying writer is os.Stdout or os.Stderr

Payloads == Writes \cup Criticals
Calls == Payloads \cup Flushes \cup Closes

AllStrategies == {"drop_newest", "block", "drop_oldest", "handoff"}

ASSUME CallsAssumption ==
    /\ Writes \cap (Criticals \cup Flushes \cup Closes) = {}
    /\ Criticals \cap (Flushes \cup Closes) = {}
    /\ Flushes \cap Closes = {}
    /\ None \notin Calls

ASSUME ConfigAssumption ==
    /\ Strategies \subseteq AllStrategies
    /\ BufferSize \in Int
    /\ MaxRetries \in Int
    /\ {RetryEnabled, FaultyWrite, FaultySync, StandardStream} \subseteq BOOLEAN

\* NewAsyncWriter replaces a BufferSize that is not positive and a negative
\* MaxRetries; a writer that does not retry gives up after the first attempt.
DefaultBufferSize == 1024
Capacity == IF BufferSize <= 0 THEN DefaultBufferSize ELSE BufferSize
Retries == IF RetryEnabled /\ MaxRetries > 0 THEN MaxRetries ELSE 0

FlushCapacity == 1  \* make(chan chan struct{}, 1)

VARIABLES
    strategy,  \* config.OverflowStrategy, fixed when the writer is built
    pc,        \* where each call is
    ret,       \* what each call returned
    closed,    \* w.closed
    mutex,     \* the Close call that holds closeMutex across steps, or None
    stopped,   \* stopCh is closed
    chClosed,  \* msgCh is closed
    queue,     \* the buffer of msgCh
    sendq,     \* Block writers parked on msgCh, in the channel's FIFO order
    flushQ,    \* the buffer of flushCh
    signalled, \* flushes whose doneCh is closed
    wmode,     \* which loop of the worker is running
    flushing,  \* the flush the worker is serving, or None
    current,   \* the payload the worker is writing, or None
    attempt,   \* performWrite's attempt, for each payload
    held,      \* the payload a DropOldest writer has taken off msgCh, or None
    touched,   \* payloads of which a failed write may have left a copy or a part
               \* in the underlying writer, beside what it confirms later
    out,       \* the writes that the underlying writer has confirmed, in order
    outOpen,   \* the underlying writer has not been closed
    drops,     \* payloads given to the drop handler, in order
    cnt,       \* the atomic counters
    before     \* history: payloads acknowledged when each call began

callVars   == <<pc, ret, before>>
closeVars  == <<closed, mutex, stopped, chClosed>>
chanVars   == <<queue, sendq>>
flushVars  == <<flushQ, signalled, flushing, wmode>>
workVars   == <<current, attempt, held, touched>>
sinkVars   == <<out, outOpen, drops, cnt>>
vars == <<strategy, callVars, closeVars, chanVars, flushVars, workVars, sinkVars>>

Labels == {"idle", "enqueue", "parked", "discard", "notify", "reenqueue",
           "count", "direct", "signal", "await", "stop", "closech", "join",
           "done", "panicked"}
Results == {"none", "ok", "closed", "full", "error", "timeout", "panic"}
Counters == {"enqueued", "processed", "dropped", "writeErrors", "retried", "bypassed"}

Acked == {p \in Payloads : ret[p] = "ok"}
Delivered == Range(out)
Dropped == Range(drops)
Held == {held[w] : w \in Writes} \ {None}

Init ==
    /\ strategy \in Strategies
    /\ pc = [c \in Calls |-> "idle"]
    /\ ret = [c \in Calls |-> "none"]
    /\ before = [c \in Calls |-> {}]
    /\ closed = FALSE
    /\ mutex = None
    /\ stopped = FALSE
    /\ chClosed = FALSE
    /\ queue = <<>>
    /\ sendq = <<>>
    /\ flushQ = <<>>
    /\ signalled = {}
    /\ flushing = None
    /\ wmode = "select"
    /\ current = None
    /\ attempt = [p \in Payloads |-> 0]
    /\ held = [w \in Writes |-> None]
    /\ touched = {}
    /\ out = <<>>
    /\ outOpen = TRUE
    /\ drops = <<>>
    /\ cnt = [k \in Counters |-> 0]

-----------------------------------------------------------------------------
(* Steps shared by several methods. *)

Goto(c, label) ==
    /\ pc' = [pc EXCEPT ![c] = label]
    /\ UNCHANGED ret

Return(c, result) ==
    /\ pc' = [pc EXCEPT ![c] = "done"]
    /\ ret' = [ret EXCEPT ![c] = result]

Count(ks) == cnt' = [k \in Counters |-> IF k \in ks THEN cnt[k] + 1 ELSE cnt[k]]

\* The check of w.closed under closeMutex that opens Write, WriteCritical and
\* Flush.  A Close holds the mutex until it returns, so a call that arrives
\* during a Close waits for it.
Enter(c, label) ==
    /\ pc[c] = "idle"
    /\ mutex = None
    /\ before' = [before EXCEPT ![c] = Acked]
    /\ IF closed THEN Return(c, "closed") ELSE Goto(c, label)
    /\ UNCHANGED <<strategy, closeVars, chanVars, flushVars, workVars, sinkVars>>

\* Mutant: the channel takes whatever is sent.
HasRoom_Unbounded == TRUE

HasRoom == Len(queue) < Capacity
AtSend(w) == pc[w] \in {"enqueue", "reenqueue"}

\* Mutant: the drop handler runs but the drop is not counted.
Drop_Uncounted(p, ks) ==
    /\ drops' = Append(drops, p)
    /\ Count(ks)
    /\ UNCHANGED <<out, outOpen>>

\* handleDrop and the counting of the drop.
Drop(p, ks) ==
    /\ drops' = Append(drops, p)
    /\ Count(ks \cup {"dropped"})
    /\ UNCHANGED <<out, outOpen>>

\* One attempt of performWrite succeeds.
Deliver(p, ks) ==
    /\ outOpen
    /\ out' = Append(out, p)
    /\ Count(ks \cup {"processed"})
    /\ UNCHANGED <<outOpen, drops>>

\* One attempt of performWrite may fail.  A faulty writer may have taken the
\* payload or part of it all the same; one that was closed takes nothing.
AttemptFails(p) ==
    /\ FaultyWrite \/ ~outOpen
    /\ touched' = IF outOpen THEN touched \cup {p} ELSE touched

\* The next attempt repeats the whole write.
RetryWrite(p) ==
    /\ AttemptFails(p)
    /\ attempt[p] < Retries
    /\ attempt' = [attempt EXCEPT ![p] = @ + 1]
    /\ Count({"writeErrors", "retried"})
    /\ UNCHANGED <<out, outOpen, drops>>

GiveUp(p) ==
    /\ AttemptFails(p)
    /\ attempt[p] >= Retries

-----------------------------------------------------------------------------
(* Write and WriteCritical. *)

WriteBegin(w) == Enter(w, "enqueue")

CriticalBegin(c) == Enter(c, "direct")

\* The send on msgCh succeeds.  The enqueued counter moves in a later step.
WriteSend(w) ==
    /\ AtSend(w)
    /\ ~chClosed
    /\ HasRoom
    /\ queue' = Append(queue, w)
    /\ Goto(w, "count")
    /\ UNCHANGED <<strategy, before, closeVars, sendq, flushVars, workVars, sinkVars>>

WriteCount(w) ==
    /\ pc[w] = "count"
    /\ Count({"enqueued"})
    /\ Return(w, "ok")
    /\ UNCHANGED <<strategy, before, closeVars, chanVars, flushVars, workVars, out, outOpen, drops>>

\* A send on a closed channel panics, even in a select with a default case.
WritePanic(w) ==
    /\ AtSend(w)
    /\ chClosed
    /\ pc' = [pc EXCEPT ![w] = "panicked"]
    /\ ret' = [ret EXCEPT ![w] = "panic"]
    /\ UNCHANGED <<strategy, before, closeVars, chanVars, flushVars, workVars, sinkVars>>

\* Block: the select takes the stopCh case.
WriteStopped(w) ==
    /\ strategy = "block"
    /\ pc[w] = "enqueue"
    /\ stopped
    /\ Return(w, "closed")
    /\ UNCHANGED <<strategy, before, closeVars, chanVars, flushVars, workVars, sinkVars>>

\* Block: neither case of the select is ready.
WritePark(w) ==
    /\ strategy = "block"
    /\ pc[w] = "enqueue"
    /\ ~HasRoom
    /\ ~stopped
    /\ sendq' = Append(sendq, w)
    /\ Goto(w, "parked")
    /\ UNCHANGED <<strategy, before, closeVars, queue, flushVars, workVars, sinkVars>>

\* recordOverflow, after the only attempt of DropNewest or the second of
\* DropOldest.
Rejects(w) ==
    \/ strategy = "drop_newest" /\ pc[w] = "enqueue"
    \/ pc[w] = "reenqueue"

WriteOverflow(w) ==
    /\ Rejects(w)
    /\ ~chClosed
    /\ ~HasRoom
    /\ Drop(w, {})
    /\ Return(w, "full")
    /\ UNCHANGED <<strategy, before, closeVars, chanVars, flushVars, workVars>>

\* Mutant: DropOldest writes synchronously instead of discarding.
WriteFull_AlwaysDirect(w) ==
    /\ pc[w] = "enqueue"
    /\ ~chClosed
    /\ ~HasRoom
    /\ strategy \in {"drop_oldest", "handoff"}
    /\ Goto(w, "direct")
    /\ UNCHANGED <<strategy, before, closeVars, chanVars, flushVars, workVars, sinkVars>>

\* The first attempt of DropOldest or of Handoff finds the buffer full.
WriteFull(w) ==
    /\ pc[w] = "enqueue"
    /\ ~chClosed
    /\ ~HasRoom
    /\ \/ strategy = "drop_oldest" /\ Goto(w, "discard")
       \/ strategy = "handoff" /\ Goto(w, "direct")
    /\ UNCHANGED <<strategy, before, closeVars, chanVars, flushVars, workVars, sinkVars>>

\* Mutant: the discarded payload stays in the channel.
WriteDiscard_Peek(w) ==
    /\ pc[w] = "discard"
    /\ IF queue = <<>>
       THEN Goto(w, "reenqueue") /\ UNCHANGED held
       ELSE /\ held' = [held EXCEPT ![w] = Head(queue)]
            /\ Goto(w, "notify")
    /\ UNCHANGED <<strategy, before, closeVars, chanVars, flushVars, current, attempt, touched, sinkVars>>

\* discardOldest takes whatever is at the head of msgCh now, which need not
\* be full any more.
WriteDiscard(w) ==
    /\ pc[w] = "discard"
    /\ IF queue = <<>>
       THEN Goto(w, "reenqueue") /\ UNCHANGED <<queue, held>>
       ELSE /\ held' = [held EXCEPT ![w] = Head(queue)]
            /\ queue' = Tail(queue)
            /\ Goto(w, "notify")
    /\ UNCHANGED <<strategy, before, closeVars, sendq, flushVars, current, attempt, touched, sinkVars>>

WriteNotifyDrop(w) ==
    /\ pc[w] = "notify"
    /\ Drop(held[w], {})
    /\ held' = [held EXCEPT ![w] = None]
    /\ Goto(w, "reenqueue")
    /\ UNCHANGED <<strategy, before, closeVars, chanVars, flushVars, current, attempt, touched>>

\* writeDirect, in the caller's goroutine.  A failure is returned to the
\* caller; it is neither reported to the drop handler nor counted as a drop.
DirectWrite(p) ==
    /\ pc[p] = "direct"
    /\ Deliver(p, {"bypassed"})
    /\ Return(p, "ok")
    /\ UNCHANGED <<strategy, before, closeVars, chanVars, flushVars, workVars>>

DirectRetry(p) ==
    /\ pc[p] = "direct"
    /\ RetryWrite(p)
    /\ UNCHANGED <<strategy, callVars, closeVars, chanVars, flushVars, current, held>>

\* Mutant: writeDirect swallows the error.
DirectFail_Swallowed(p) ==
    /\ pc[p] = "direct"
    /\ GiveUp(p)
    /\ Count({"writeErrors"})
    /\ Return(p, "ok")
    /\ UNCHANGED <<strategy, before, closeVars, chanVars, flushVars, current, attempt, held, out, outOpen, drops>>

DirectFail(p) ==
    /\ pc[p] = "direct"
    /\ GiveUp(p)
    /\ Count({"writeErrors"})
    /\ Return(p, "error")
    /\ UNCHANGED <<strategy, before, closeVars, chanVars, flushVars, current, attempt, held, out, outOpen, drops>>

-----------------------------------------------------------------------------
(* Flush. *)

FlushBegin(f) == Enter(f, "signal")

\* The send on flushCh waits for room, with no timeout and no stop case.
FlushSignal(f) ==
    /\ pc[f] = "signal"
    /\ Len(flushQ) < FlushCapacity
    /\ flushQ' = Append(flushQ, f)
    /\ Goto(f, "await")
    /\ UNCHANGED <<strategy, before, closeVars, chanVars, signalled, flushing, wmode, workVars, sinkVars>>

FlushDone(f) ==
    /\ pc[f] = "await"
    /\ f \in signalled
    /\ \/ Return(f, "ok")
       \/ (FaultySync \/ ~outOpen) /\ Return(f, "error")
    /\ UNCHANGED <<strategy, before, closeVars, chanVars, flushVars, workVars, sinkVars>>

\* Mutant: the wait has no timeout.
FlushTimeout_Never(f) == pc[f] = "await" /\ f \in signalled /\ FlushDone(f)

FlushTimeout(f) ==
    /\ pc[f] = "await"
    /\ Return(f, "timeout")
    /\ UNCHANGED <<strategy, before, closeVars, chanVars, flushVars, workVars, sinkVars>>

-----------------------------------------------------------------------------
(* Close, which holds closeMutex from its first step to its last. *)

CloseBegin(c) ==
    /\ pc[c] = "idle"
    /\ mutex = None
    /\ before' = [before EXCEPT ![c] = Acked]
    /\ IF closed
       THEN Return(c, "closed") /\ UNCHANGED <<closed, mutex>>
       ELSE closed' = TRUE /\ mutex' = c /\ Goto(c, "stop")
    /\ UNCHANGED <<strategy, stopped, chClosed, chanVars, flushVars, workVars, sinkVars>>

\* Closing stopCh wakes every parked Block writer with its stop case.
CloseStop(c) ==
    /\ pc[c] = "stop"
    /\ stopped' = TRUE
    /\ sendq' = <<>>
    /\ pc' = [d \in Calls |-> IF d = c THEN "closech"
                              ELSE IF d \in Range(sendq) THEN "done" ELSE pc[d]]
    /\ ret' = [d \in Calls |-> IF d \in Range(sendq) THEN "closed" ELSE ret[d]]
    /\ UNCHANGED <<strategy, before, closed, mutex, chClosed, queue, flushVars, workVars, sinkVars>>

CloseChannel(c) ==
    /\ pc[c] = "closech"
    /\ chClosed' = TRUE
    /\ Goto(c, "join")
    /\ UNCHANGED <<strategy, before, closed, mutex, stopped, chanVars, flushVars, workVars, sinkVars>>

\* After wg.Wait: a failing Sync returns before the underlying Close.
CloseJoin(c) ==
    /\ pc[c] = "join"
    /\ wmode = "exited"
    /\ mutex' = None
    /\ \/ FaultySync /\ Return(c, "error") /\ UNCHANGED outOpen
       \/ /\ outOpen' = StandardStream
          /\ \/ Return(c, "ok")
             \/ FaultySync /\ ~StandardStream /\ Return(c, "error")
    /\ UNCHANGED <<strategy, before, closed, stopped, chClosed, chanVars, flushVars, workVars, out, drops, cnt>>

-----------------------------------------------------------------------------
(* The worker: processLogs, handleFlush ("flush") and drainMessages ("drain"). *)

WorkerFree(mode) == wmode = mode /\ current = None

\* A receive from a full channel also moves the oldest parked sender's payload
\* into the buffer and wakes that sender.
WorkerReceive ==
    /\ wmode # "exited"
    /\ current = None
    /\ queue # <<>>
    /\ current' = Head(queue)
    /\ IF sendq = <<>>
       THEN /\ queue' = Tail(queue)
            /\ UNCHANGED <<pc, ret, sendq>>
       ELSE /\ queue' = Append(Tail(queue), Head(sendq))
            /\ sendq' = Tail(sendq)
            /\ Goto(Head(sendq), "count")
    /\ UNCHANGED <<strategy, before, closeVars, flushVars, attempt, held, touched, sinkVars>>

WorkerTakeFlush ==
    /\ WorkerFree("select")
    /\ flushQ # <<>>
    /\ flushing' = Head(flushQ)
    /\ flushQ' = Tail(flushQ)
    /\ wmode' = "flush"
    /\ UNCHANGED <<strategy, callVars, closeVars, chanVars, signalled, workVars, sinkVars>>

\* Mutant: the stop case returns without draining.
WorkerTakeStop_NoDrain ==
    /\ WorkerFree("select")
    /\ stopped
    /\ wmode' = "exited"
    /\ UNCHANGED <<strategy, callVars, closeVars, chanVars, flushQ, signalled, flushing, workVars, sinkVars>>

WorkerTakeStop ==
    /\ WorkerFree("select")
    /\ stopped
    /\ wmode' = "drain"
    /\ UNCHANGED <<strategy, callVars, closeVars, chanVars, flushQ, signalled, flushing, workVars, sinkVars>>

WorkerTakeClosed ==
    /\ WorkerFree("select")
    /\ chClosed
    /\ queue = <<>>
    /\ wmode' = "exited"
    /\ UNCHANGED <<strategy, callVars, closeVars, chanVars, flushQ, signalled, flushing, workVars, sinkVars>>

\* Mutant: doneCh is closed before the channel is drained.
WorkerFlushed_Early ==
    /\ WorkerFree("flush")
    /\ signalled' = signalled \cup {flushing}
    /\ flushing' = None
    /\ wmode' = "select"
    /\ UNCHANGED <<strategy, callVars, closeVars, chanVars, flushQ, workVars, sinkVars>>

\* Mutant: the end of a flush ends the worker.
WorkerFlushed_Exits ==
    /\ WorkerFree("flush")
    /\ queue = <<>>
    /\ signalled' = signalled \cup {flushing}
    /\ flushing' = None
    /\ wmode' = "exited"
    /\ UNCHANGED <<strategy, callVars, closeVars, chanVars, flushQ, workVars, sinkVars>>

WorkerFlushed ==
    /\ WorkerFree("flush")
    /\ queue = <<>>
    /\ signalled' = signalled \cup {flushing}
    /\ flushing' = None
    /\ wmode' = "select"
    /\ UNCHANGED <<strategy, callVars, closeVars, chanVars, flushQ, workVars, sinkVars>>

\* Mutant: the worker does not return after draining.
WorkerDrained_Continues ==
    /\ WorkerFree("drain")
    /\ queue = <<>>
    /\ wmode' = "select"
    /\ UNCHANGED <<strategy, callVars, closeVars, chanVars, flushQ, signalled, flushing, workVars, sinkVars>>

WorkerDrained ==
    /\ WorkerFree("drain")
    /\ queue = <<>>
    /\ wmode' = "exited"
    /\ UNCHANGED <<strategy, callVars, closeVars, chanVars, flushQ, signalled, flushing, workVars, sinkVars>>

WorkerWrite ==
    /\ current # None
    /\ Deliver(current, {})
    /\ current' = None
    /\ UNCHANGED <<strategy, callVars, closeVars, chanVars, flushVars, attempt, held, touched>>

WorkerRetry ==
    /\ current # None
    /\ RetryWrite(current)
    /\ UNCHANGED <<strategy, callVars, closeVars, chanVars, flushVars, current, held>>

\* handleWriteFailure: an acknowledged payload ends in the drop handler.
WorkerFail ==
    /\ current # None
    /\ GiveUp(current)
    /\ Drop(current, {"writeErrors"})
    /\ current' = None
    /\ UNCHANGED <<strategy, callVars, closeVars, chanVars, flushVars, attempt, held>>

-----------------------------------------------------------------------------
WriteStep(w) ==
    \/ WriteSend(w) \/ WriteCount(w) \/ WritePanic(w) \/ WriteStopped(w)
    \/ WritePark(w) \/ WriteOverflow(w) \/ WriteFull(w)
    \/ WriteDiscard(w) \/ WriteNotifyDrop(w)
DirectStep(p) == DirectWrite(p) \/ DirectRetry(p) \/ DirectFail(p)
FlushStep(f) == FlushSignal(f) \/ FlushDone(f) \/ FlushTimeout(f)
CloseStep(c) == CloseStop(c) \/ CloseChannel(c) \/ CloseJoin(c)
Worker ==
    \/ WorkerReceive \/ WorkerTakeFlush \/ WorkerTakeStop \/ WorkerTakeClosed
    \/ WorkerFlushed \/ WorkerDrained
    \/ WorkerWrite \/ WorkerRetry \/ WorkerFail

\* A Close has stopped the worker with the request of a Flush left in flushCh,
\* which takes the only slot: another Flush that has still to send its own waits
\* for ever (async.go:252).
Stranded(f) == pc[f] = "signal" /\ wmode = "exited" /\ flushQ # <<>>

\* Every call has ended, or is stranded, and the worker has nothing to do: the
\* program idles.
Quiescent ==
    /\ \A c \in Calls :
          pc[c] \in {"done", "panicked"} \/ (c \in Flushes /\ Stranded(c))
    /\ current = None
    /\ \/ wmode = "exited"
       \/ wmode = "select" /\ queue = <<>> /\ flushQ = <<>> /\ ~stopped

Next ==
    \/ \E w \in Writes : WriteBegin(w) \/ WriteStep(w)
    \/ \E c \in Criticals : CriticalBegin(c)
    \/ \E p \in Payloads : DirectStep(p)
    \/ \E f \in Flushes : FlushBegin(f) \/ FlushStep(f)
    \/ \E c \in Closes : CloseBegin(c) \/ CloseStep(c)
    \/ Worker
    \/ Quiescent /\ UNCHANGED vars

Spec == Init /\ [][Next]_vars

\* The Go scheduler runs every goroutine that can run, timers fire, and the
\* underlying writer returns.  Nothing makes the program start a call.
Fairness ==
    /\ WF_vars(Worker)
    /\ \A w \in Writes : WF_vars(WriteStep(w))
    /\ \A p \in Payloads : WF_vars(DirectStep(p))
    /\ \A f \in Flushes : WF_vars(FlushStep(f))
    /\ \A c \in Closes : WF_vars(CloseStep(c))

FairSpec == Spec /\ Fairness

-----------------------------------------------------------------------------
(* Properties. *)

\* Types, with the bounds of the two channels: neither buffer ever holds more
\* than make(chan) gave it, whichever path sends.
TypeOK ==
    /\ strategy \in Strategies
    /\ pc \in [Calls -> Labels]
    /\ ret \in [Calls -> Results]
    /\ before \in [Calls -> SUBSET Payloads]
    /\ {closed, stopped, chClosed, outOpen} \subseteq BOOLEAN
    /\ mutex \in Closes \cup {None}
    /\ queue \in Seq(Writes) /\ Len(queue) <= Capacity
    /\ sendq \in Seq(Writes)
    /\ flushQ \in Seq(Flushes) /\ Len(flushQ) <= FlushCapacity
    /\ signalled \subseteq Flushes
    /\ wmode \in {"select", "flush", "drain", "exited"}
    /\ flushing \in Flushes \cup {None}
    /\ current \in Writes \cup {None}
    /\ attempt \in [Payloads -> 0 .. Retries]
    /\ held \in [Writes -> Writes \cup {None}]
    /\ touched \subseteq Payloads
    /\ out \in Seq(Payloads)
    /\ drops \in Seq(Writes)
    /\ cnt \in [Counters -> Nat]

\* TypeOK as an induction hypothesis: what the worker and a DropOldest writer
\* act on is there when they act on it.
TypeInv ==
    /\ TypeOK
    /\ wmode = "flush" => flushing # None
    /\ \A w \in Writes : pc[w] = "notify" => held[w] # None

\* The payloads some part of the writer has taken charge of.
InFlight == Range(queue) \cup ({current} \ {None}) \cup Held
Resolved == Delivered \cup Dropped

\* Every payload has at most one place: it is buffered once, or being written, or
\* being dropped by one writer, or its write was confirmed once, or it was dropped
\* once.  The channel, the worker, discarding DropOldest writers, bypassing
\* writers and parked Block writers all move payloads concurrently.
OnePlace ==
    /\ IsInjective(queue) /\ IsInjective(out) /\ IsInjective(drops)
    /\ Delivered \cap Dropped = {}
    /\ InFlight \cap Resolved = {}
    /\ Range(queue) \cap (Held \cup {current}) = {}
    /\ current \notin Held
    /\ \A v, w \in Writes : held[v] = held[w] /\ held[v] # None => v = w

\* A writer that does not retry never repeats a write whose failed attempt may
\* have left something in the underlying writer; one that retries may.
NoSecondAttempt == Retries = 0 => touched \cap (InFlight \cup Delivered) = {}

\* One place, and without retries one attempt: then the underlying writer holds
\* no payload twice, nor beside a part of itself.
ExactlyOneFate == OnePlace /\ NoSecondAttempt

\* ErrBufferFull, ErrWriterClosed and a panic come before any attempt to write.
RefusedUntouched ==
    \A p \in Payloads : ret[p] \in {"full", "closed", "panic"} => p \notin touched

\* ExactlyOneFate as an induction hypothesis: a payload whose call has not yet
\* sent it or written it is nowhere, only a writer at "notify" holds another's
\* payload, and exactly the parked writers wait on the channel, each once; no
\* attempt is made to write what was not sent, or was refused.
BeforeSend == {"idle", "enqueue", "parked", "discard", "notify", "reenqueue", "direct"}
PlaceInv ==
    /\ OnePlace
    /\ \A p \in Payloads : pc[p] \in BeforeSend => p \notin InFlight \cup Resolved
    /\ \A w \in Writes : held[w] # None => pc[w] = "notify"
    /\ IsInjective(sendq)
    /\ \A w \in Range(sendq) : pc[w] = "parked"
TraceInv ==
    /\ NoSecondAttempt
    /\ \A p \in touched : pc[p] \notin BeforeSend \ {"direct"}
    /\ Retries = 0 => \A p \in touched : pc[p] # "direct"
    /\ RefusedUntouched
FateInv == PlaceInv /\ TraceInv

\* What Write and WriteCritical tell their caller of the payload: an acknowledged
\* one is somewhere in the writer's custody (for a WriteCritical, already
\* written), ErrBufferFull means the payload itself went to the drop handler, and
\* after any other error it was and will be neither confirmed nor dropped.
FatesAsTold ==
    \A p \in Payloads :
        /\ ret[p] = "ok" => p \in InFlight \cup Resolved
        /\ ret[p] = "ok" /\ p \in Criticals => p \in Delivered
        /\ ret[p] = "full" => p \in Dropped
        /\ ret[p] \in {"closed", "error", "panic"} => p \notin InFlight \cup Resolved

\* What the caller is told is true, and unless the error is the underlying
\* writer's own, whose failed attempts may have left a part or a copy there, a
\* refused payload left no trace.
ReturnsAreHonest == FatesAsTold /\ RefusedUntouched

\* FatesAsTold as an induction hypothesis: only calls that have ended have a
\* result, and a Write about to be acknowledged has been taken charge of.
HonestInv ==
    /\ FatesAsTold
    /\ \A c \in Calls : ret[c] # "none" => pc[c] \in {"done", "panicked"}
    /\ \A p \in Payloads : pc[p] = "count" => p \in InFlight \cup Resolved

\* The order a caller can observe is the order of the log: a payload that was
\* acknowledged before a buffered Write began is written before it, across
\* retries, flushes, discards and parked writers.  (Handoff and WriteCritical
\* overtake the buffer on purpose.)
RealTimeOrder ==
    strategy # "handoff" =>
        \A i, j \in DOMAIN out :
            (out[j] \in Writes /\ out[i] \in before[out[j]]) => i < j

\* RealTimeOrder as an induction hypothesis: what was acknowledged before a
\* buffered payload's call began is never behind it, in the channel or in the
\* worker's hands, nor still on its way when that payload has been written.
Pending == Range(queue) \cup ({current} \ {None})
NothingBehind ==
    /\ \A w \in Writes : pc[w] # "direct"
    /\ \A i, j \in DOMAIN queue : queue[i] \in before[queue[j]] => i < j
    /\ current # None => before[current] \cap Pending = {}
    /\ \A w \in Writes \cap Delivered : before[w] \cap Pending = {}
OrderInv ==
    /\ \A c \in Calls : before[c] \subseteq (InFlight \cup Resolved) \ {c}
    /\ \A c \in Calls : pc[c] = "idle" => before[c] = {}
    /\ strategy # "handoff" => NothingBehind
    /\ RealTimeOrder

\* A Flush that saw its doneCh closed and a Close that joined the worker (they
\* return nil or the error of a Sync) leave no payload that was acknowledged
\* before they began in the buffer or in the worker's hands: each was written,
\* or dropped, or is with a DropOldest writer that is dropping it.
BarrierPromise ==
    \A b \in Flushes \cup Closes :
        ret[b] \in {"ok", "error"} => before[b] \subseteq Resolved \cup Held

\* BarrierPromise as an induction hypothesis: the promise holds from the moment
\* the worker closes a doneCh or exits, it exits for no other reason than a
\* Close, and no Flush is served before it began.
Closing == {c \in Closes : pc[c] \in {"stop", "closech", "join"}}
BarrierInv ==
    /\ \A f \in signalled : before[f] \subseteq Resolved \cup Held
    /\ wmode = "exited" => \A c \in Closing : before[c] \subseteq Resolved \cup Held
    /\ Closing # {} \/ stopped \/ chClosed \/ wmode \in {"drain", "exited"} => closed
    /\ \A f \in signalled \cup Range(flushQ) \cup ({flushing} \ {None}) : pc[f] # "idle"
    /\ BarrierPromise

Overflowed == {w \in Writes : ret[w] = "full"}

\* When the writer idles, the metrics account for every payload: what came in
\* (enqueued, bypassed, or refused with ErrBufferFull) is what went out
\* (processed or dropped) plus what is left in the channel.
MetricsBalance ==
    Quiescent =>
        cnt["enqueued"] + cnt["bypassed"] + Cardinality(Overflowed)
            = cnt["processed"] + cnt["dropped"] + Len(queue)

\* MetricsBalance as an induction hypothesis: while the writer works, payloads
\* sent but not yet counted, and those that the worker or a DropOldest writer
\* holds, make up the difference.
Uncounted == {w \in Writes : pc[w] = "count"}
Discarding == {w \in Writes : pc[w] = "notify"}
InHand == IF current = None THEN 0 ELSE 1
CameIn == cnt["enqueued"] + Cardinality(Uncounted) + cnt["bypassed"] + Cardinality(Overflowed)
Inside == Len(queue) + Cardinality(Discarding) + InHand
WentOn == cnt["processed"] + cnt["dropped"] + Inside
BalanceInv ==
    /\ IsFiniteSet(Uncounted) /\ IsFiniteSet(Overflowed) /\ IsFiniteSet(Discarding)
    /\ CameIn = WentOn

\* No Write ever panics: a write to a closed writer returns ErrWriterClosed
\* (internal/output/errors.go).
WriteNeverPanics == \A w \in Writes : pc[w] # "panicked"

\* Close waits for the worker to finish the remaining messages: when it has
\* returned and nothing runs any more, no acknowledged payload is stuck in
\* the channel.
CloseLeavesNothing ==
    (Quiescent /\ closed) => \A w \in Writes : ret[w] = "ok" => w \in Resolved

\* DropOldest makes space for the new entry: a Write never fails for lack of
\* space.
DropOldestMakesRoom == strategy = "drop_oldest" => \A w \in Writes : ret[w] # "full"

\* Close releases the underlying writer, unless it is a standard stream.
CloseReleases ==
    ~StandardStream =>
        \A c \in Closes : ret[c] \in {"ok", "error"} => ~outOpen

\* Everything the channel accepts before a Close stops the worker is
\* eventually written or dropped.
AcceptedIsResolved ==
    \A w \in Writes : (w \in Range(queue) /\ ~stopped) ~> (w \in Resolved)

\* Every call ends: a parked Block writer (the worker makes room or a Close wakes
\* it), a Close (the worker drains and exits), a Flush (at the latest with its
\* timeout), whatever Writes, Flushes and Closes overlap it.  The only ones that
\* wait for ever are stranded Flushes.  As each call is made once at most, it is
\* said of the time when no more of them begin.
CallsReturn ==
    <>[](\A c \in Calls :
            \/ pc[c] \in {"idle", "done", "panicked"}
            \/ c \in Flushes /\ Stranded(c))

\* WaitTimeout is the maximum time that a Flush waits (async.go:22), so that every
\* Flush ends.
FlushEndsInTime == \A f \in Flushes : (pc[f] # "idle") ~> (pc[f] = "done")

-----------------------------------------------------------------------------
(* AsyncWriter implements LogDelivery: the worker's payload is the head of  *)
(* the FIFO, a payload counts as dropped from the moment a DropOldest       *)
(* writer takes it off the channel, and Flush and Close are barriers.       *)
Line == (IF current = None THEN <<>> ELSE <<current>>) \o queue
Gone == Dropped \cup Held
Refused == {p \in Payloads : ret[p] \in {"closed", "error", "panic"}}
Barriers == Flushes \cup Closes
Awaited == [b \in Barriers |-> before[b]]
Begun == {b \in Barriers : pc[b] # "idle"}
Finished == {b \in Barriers : ret[b] \in {"ok", "error"}}

Delivery == INSTANCE LogDelivery WITH
    pending <- Line, log <- out, dropped <- Gone, refused <- Refused, acked <- Acked,
    awaited <- Awaited, begun <- Begun, finished <- Finished

\* Every behaviour of the channel, the worker and the callers is a behaviour
\* of the abstract log: nothing is reordered, lost without a report, or still
\* pending behind a barrier that completed.
RefinesLogDelivery == Delivery!Spec
=============================================================================
