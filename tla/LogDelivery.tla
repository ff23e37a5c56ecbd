---------------------------- MODULE LogDelivery ----------------------------
(***************************************************************************)
(* What an asynchronous log writer promises, without channels, goroutines, *)
(* locks or a worker.  A payload is accepted into one FIFO, written        *)
(* through, dropped with a report, or refused.  Accepted payloads reach    *)
(* the log in the order of the FIFO unless they are dropped.  A barrier (a *)
(* Flush or a Close) completes only when nothing that was acknowledged     *)
(* before it began is still pending.                                       *)
(***************************************************************************)
EXTENDS Naturals, Sequences, Functions

CONSTANTS Payloads, Barriers

VARIABLES
    pending,   \* accepted and not yet written or dropped, in order
    log,       \* what the underlying writer received
    dropped,   \* reported as dropped
    refused,   \* returned to the caller with an error, never to be seen again
    acked,     \* acknowledged to the caller
    awaited,   \* what each barrier waits for
    begun,     \* barriers that have begun
    finished   \* barriers that have completed

vars == <<pending, log, dropped, refused, acked, awaited, begun, finished>>

Fresh(p) == p \notin Range(pending) \cup Range(log) \cup dropped \cup refused

Init ==
    /\ pending = <<>> /\ log = <<>>
    /\ dropped = {} /\ refused = {} /\ acked = {}
    /\ awaited = [b \in Barriers |-> {}]
    /\ begun = {} /\ finished = {}

Accept(p) ==
    /\ Fresh(p)
    /\ pending' = Append(pending, p)
    /\ UNCHANGED <<log, dropped, refused, acked, awaited, begun, finished>>

Acknowledge(p) ==
    /\ ~Fresh(p) /\ p \notin refused \cup acked
    /\ acked' = acked \cup {p}
    /\ UNCHANGED <<pending, log, dropped, refused, awaited, begun, finished>>

WriteThrough(p) ==
    /\ Fresh(p)
    /\ log' = Append(log, p)
    /\ acked' = acked \cup {p}
    /\ UNCHANGED <<pending, dropped, refused, awaited, begun, finished>>

Overflow(p) ==
    /\ Fresh(p)
    /\ dropped' = dropped \cup {p}
    /\ UNCHANGED <<pending, log, refused, acked, awaited, begun, finished>>

Refuse(S) ==
    /\ S # {} /\ \A p \in S : Fresh(p)
    /\ refused' = refused \cup S
    /\ UNCHANGED <<pending, log, dropped, acked, awaited, begun, finished>>

Deliver ==
    /\ pending # <<>>
    /\ log' = Append(log, Head(pending))
    /\ pending' = Tail(pending)
    /\ UNCHANGED <<dropped, refused, acked, awaited, begun, finished>>

\* The i-th pending payload is discarded or given up.
DropPending(i) ==
    /\ dropped' = dropped \cup {pending[i]}
    /\ pending' = SubSeq(pending, 1, i - 1) \o SubSeq(pending, i + 1, Len(pending))
    /\ UNCHANGED <<log, refused, acked, awaited, begun, finished>>

BarrierBegin(b) ==
    /\ b \notin begun
    /\ begun' = begun \cup {b}
    /\ awaited' = [awaited EXCEPT ![b] = acked]
    /\ UNCHANGED <<pending, log, dropped, refused, acked, finished>>

BarrierEnd(b) ==
    /\ b \in begun \ finished
    /\ awaited[b] \cap Range(pending) = {}
    /\ finished' = finished \cup {b}
    /\ UNCHANGED <<pending, log, dropped, refused, acked, awaited, begun>>

Next ==
    \/ \E p \in Payloads : Accept(p) \/ Acknowledge(p) \/ WriteThrough(p) \/ Overflow(p)
    \/ \E S \in SUBSET Payloads : Refuse(S)
    \/ Deliver
    \/ \E i \in 1 .. Len(pending) : DropPending(i)
    \/ \E b \in Barriers : BarrierBegin(b) \/ BarrierEnd(b)

Spec == Init /\ [][Next]_vars
=============================================================================
