-------------------------- MODULE AsyncWriterProofs --------------------------
(* Theorems about AsyncWriter, for every set of calls and every configuration: *)
(* the fates of payloads, honest results, counters, order, barriers, and that  *)
(* the writer implements LogDelivery.                                          *)
EXTENDS AsyncWriter, SequenceTheorems, FiniteSetTheorems, TLAPS

USE CallsAssumption, ConfigAssumption DEF Payloads, Calls

LEMMA CapacityIsPositive ==
    /\ Capacity \in Nat \ {0}
    /\ Retries \in Nat
BY DEF Capacity, Retries, DefaultBufferSize

\* Taking the head off a sequence.
LEMMA TakeHead ==
    ASSUME NEW S, NEW s \in Seq(S), s # <<>>
    PROVE  Head(s) \in S /\ Tail(s) \in Seq(S) /\ Len(Tail(s)) = Len(s) - 1 /\ Len(s) > 0
BY HeadTailProperties, EmptySeq

-----------------------------------------------------------------------------
(* Type correctness. *)

LEMMA TypeInvInit == Init => TypeInv
<1> SUFFICES ASSUME Init PROVE TypeInv
  OBVIOUS
<1>1. pc \in [Calls -> Labels] /\ ret \in [Calls -> Results]
  BY DEF Init, Labels, Results
<1>2. before \in [Calls -> SUBSET Payloads]
  BY DEF Init
<1>3. {closed, stopped, chClosed, outOpen} \subseteq BOOLEAN
  BY DEF Init
<1>4. queue \in Seq(Writes) /\ Len(queue) <= Capacity
  BY CapacityIsPositive DEF Init
<1>5. flushQ \in Seq(Flushes) /\ Len(flushQ) <= FlushCapacity
  BY DEF Init, FlushCapacity
<1>6. sendq \in Seq(Writes) /\ out \in Seq(Payloads) /\ drops \in Seq(Writes)
  BY DEF Init
<1>7. attempt \in [Payloads -> 0 .. Retries]
  BY CapacityIsPositive DEF Init
<1>8. cnt \in [Counters -> Nat]
  BY DEF Init
<1> QED
  BY <1>1, <1>2, <1>3, <1>4, <1>5, <1>6, <1>7, <1>8 DEF Init, TypeInv, TypeOK

\* What the shared steps do to the variables they change.
LEMMA GotoType ==
    ASSUME TypeOK, NEW c \in Calls, NEW label \in Labels, Goto(c, label)
    PROVE  pc' \in [Calls -> Labels] /\ ret' \in [Calls -> Results]
BY DEF TypeOK, Goto

LEMMA ReturnType ==
    ASSUME TypeOK, NEW c \in Calls, NEW result \in Results, Return(c, result)
    PROVE  pc' \in [Calls -> Labels] /\ ret' \in [Calls -> Results]
BY DEF TypeOK, Return, Labels

LEMMA CountType ==
    ASSUME TypeOK, NEW ks, Count(ks)
    PROVE  cnt' \in [Counters -> Nat]
BY DEF TypeOK, Count

LEMMA EnterType ==
    ASSUME TypeInv, NEW c \in Calls, NEW label \in Labels \ {"notify"}, Enter(c, label)
    PROVE  TypeInv'
<1>1. pc' \in [Calls -> Labels] /\ ret' \in [Calls -> Results]
  BY GotoType, ReturnType DEF TypeInv, Enter, Results
<1>2. before' \in [Calls -> SUBSET Payloads]
  BY DEF TypeInv, TypeOK, Enter, Acked
<1>3. \A w \in Writes : pc'[w] = "notify" => pc[w] = "notify"
  BY DEF TypeInv, TypeOK, Enter, Goto, Return
<1> QED BY <1>1, <1>2, <1>3
  DEF TypeInv, TypeOK, Enter, closeVars, chanVars, flushVars, workVars, sinkVars

\* One step per action; the steps under it are the conjuncts the action disturbs.
LEMMA TypeInvStep == TypeInv /\ [Next]_vars => TypeInv'
<1> SUFFICES ASSUME TypeInv, [Next]_vars PROVE TypeInv'
  OBVIOUS
<1> USE CapacityIsPositive
<1>1. ASSUME NEW c \in Calls, NEW label \in {"enqueue", "direct", "signal"}, Enter(c, label)
      PROVE  TypeInv'
  BY <1>1, EnterType DEF Labels
<1>2. ASSUME NEW w \in Writes, WriteSend(w) PROVE TypeInv'
  <2>1. pc' \in [Calls -> Labels] /\ ret' \in [Calls -> Results]
    BY <1>2, GotoType DEF TypeInv, WriteSend, Labels
  <2>2. queue' \in Seq(Writes) /\ Len(queue') <= Capacity
    BY <1>2 DEF TypeInv, TypeOK, WriteSend, HasRoom
  <2>3. \A v \in Writes : pc'[v] = "notify" => pc[v] = "notify"
    BY <1>2 DEF TypeInv, TypeOK, WriteSend, Goto
  <2> QED BY <1>2, <2>1, <2>2, <2>3
    DEF TypeInv, TypeOK, WriteSend, closeVars, flushVars, workVars, sinkVars
<1>3. ASSUME NEW w \in Writes, WriteCount(w) PROVE TypeInv'
  <2>1. pc' \in [Calls -> Labels] /\ ret' \in [Calls -> Results]
    BY <1>3, ReturnType DEF TypeInv, WriteCount, Results
  <2>2. cnt' \in [Counters -> Nat]
    BY <1>3, CountType DEF TypeInv, WriteCount
  <2>3. \A v \in Writes : pc'[v] = "notify" => pc[v] = "notify"
    BY <1>3 DEF TypeInv, TypeOK, WriteCount, Return
  <2> QED BY <1>3, <2>1, <2>2, <2>3
    DEF TypeInv, TypeOK, WriteCount, closeVars, chanVars, flushVars, workVars
<1>4. ASSUME NEW w \in Writes, WritePanic(w) PROVE TypeInv'
  <2>1. pc' \in [Calls -> Labels] /\ ret' \in [Calls -> Results]
    BY <1>4 DEF TypeInv, TypeOK, WritePanic, Labels, Results
  <2>2. \A v \in Writes : pc'[v] = "notify" => pc[v] = "notify"
    BY <1>4 DEF TypeInv, TypeOK, WritePanic
  <2> QED BY <1>4, <2>1, <2>2
    DEF TypeInv, TypeOK, WritePanic, closeVars, chanVars, flushVars, workVars, sinkVars
<1>5. ASSUME NEW w \in Writes, WriteStopped(w) PROVE TypeInv'
  <2>1. pc' \in [Calls -> Labels] /\ ret' \in [Calls -> Results]
    BY <1>5, ReturnType DEF TypeInv, WriteStopped, Results
  <2>2. \A v \in Writes : pc'[v] = "notify" => pc[v] = "notify"
    BY <1>5 DEF TypeInv, TypeOK, WriteStopped, Return
  <2> QED BY <1>5, <2>1, <2>2
    DEF TypeInv, TypeOK, WriteStopped, closeVars, chanVars, flushVars, workVars, sinkVars
<1>6. ASSUME NEW w \in Writes, WritePark(w) PROVE TypeInv'
  <2>1. pc' \in [Calls -> Labels] /\ ret' \in [Calls -> Results]
    BY <1>6, GotoType DEF TypeInv, WritePark, Labels
  <2>2. sendq' \in Seq(Writes)
    BY <1>6 DEF TypeInv, TypeOK, WritePark
  <2>3. \A v \in Writes : pc'[v] = "notify" => pc[v] = "notify"
    BY <1>6 DEF TypeInv, TypeOK, WritePark, Goto
  <2> QED BY <1>6, <2>1, <2>2, <2>3
    DEF TypeInv, TypeOK, WritePark, closeVars, flushVars, workVars, sinkVars
<1>7. ASSUME NEW w \in Writes, WriteOverflow(w) PROVE TypeInv'
  <2>1. pc' \in [Calls -> Labels] /\ ret' \in [Calls -> Results]
    BY <1>7, ReturnType DEF TypeInv, WriteOverflow, Results
  <2>2. cnt' \in [Counters -> Nat]
    BY <1>7, CountType DEF TypeInv, WriteOverflow, Drop
  <2>3. drops' \in Seq(Writes)
    BY <1>7 DEF TypeInv, TypeOK, WriteOverflow, Drop
  <2>4. \A v \in Writes : pc'[v] = "notify" => pc[v] = "notify"
    BY <1>7 DEF TypeInv, TypeOK, WriteOverflow, Return
  <2> QED BY <1>7, <2>1, <2>2, <2>3, <2>4
    DEF TypeInv, TypeOK, WriteOverflow, closeVars, chanVars, flushVars, workVars, Drop
<1>8. ASSUME NEW w \in Writes, WriteFull(w) PROVE TypeInv'
  <2>1. pc' \in [Calls -> Labels] /\ ret' \in [Calls -> Results]
    BY <1>8, GotoType DEF TypeInv, WriteFull, Labels
  <2>2. \A v \in Writes : pc'[v] = "notify" => pc[v] = "notify"
    BY <1>8 DEF TypeInv, TypeOK, WriteFull, Goto
  <2> QED BY <1>8, <2>1, <2>2
    DEF TypeInv, TypeOK, WriteFull, closeVars, chanVars, flushVars, workVars, sinkVars
<1>9. ASSUME NEW w \in Writes, WriteDiscard(w) PROVE TypeInv'
  <2>1. pc' \in [Calls -> Labels] /\ ret' \in [Calls -> Results]
    BY <1>9, GotoType DEF TypeInv, WriteDiscard, Labels
  <2>2. queue # <<>> => Head(queue) \in Writes /\ Tail(queue) \in Seq(Writes) /\ Len(Tail(queue)) <= Capacity
    BY TakeHead DEF TypeInv, TypeOK
  <2>3. queue' \in Seq(Writes) /\ Len(queue') <= Capacity
    BY <1>9, <2>2 DEF TypeInv, TypeOK, WriteDiscard
  <2>4. held' \in [Writes -> Writes \cup {None}]
    BY <1>9, <2>2 DEF TypeInv, TypeOK, WriteDiscard
  <2>5. \A v \in Writes : pc'[v] = "notify" => held'[v] # None
    BY <1>9 DEF TypeInv, TypeOK, WriteDiscard, Goto
  <2> QED BY <1>9, <2>1, <2>2, <2>3, <2>4, <2>5
    DEF TypeInv, TypeOK, WriteDiscard, closeVars, flushVars, sinkVars
<1>10. ASSUME NEW w \in Writes, WriteNotifyDrop(w) PROVE TypeInv'
  <2>1. pc' \in [Calls -> Labels] /\ ret' \in [Calls -> Results]
    BY <1>10, GotoType DEF TypeInv, WriteNotifyDrop, Labels
  <2>2. cnt' \in [Counters -> Nat]
    BY <1>10, CountType DEF TypeInv, WriteNotifyDrop, Drop
  <2>3. held[w] \in Writes
    BY <1>10 DEF TypeInv, TypeOK, WriteNotifyDrop
  <2>4. drops' \in Seq(Writes)
    BY <1>10, <2>3 DEF TypeInv, TypeOK, WriteNotifyDrop, Drop
  <2>5. held' \in [Writes -> Writes \cup {None}]
    BY <1>10 DEF TypeInv, TypeOK, WriteNotifyDrop
  <2>6. \A v \in Writes : pc'[v] = "notify" => held'[v] # None
    BY <1>10 DEF TypeInv, TypeOK, WriteNotifyDrop, Goto
  <2> QED BY <1>10, <2>1, <2>2, <2>3, <2>4, <2>5, <2>6
    DEF TypeInv, TypeOK, WriteNotifyDrop, closeVars, chanVars, flushVars, Drop
<1>11. ASSUME NEW p \in Payloads, DirectWrite(p) PROVE TypeInv'
  <2>1. pc' \in [Calls -> Labels] /\ ret' \in [Calls -> Results]
    BY <1>11, ReturnType DEF TypeInv, DirectWrite, Results
  <2>2. cnt' \in [Counters -> Nat]
    BY <1>11, CountType DEF TypeInv, DirectWrite, Deliver
  <2>3. out' \in Seq(Payloads)
    BY <1>11 DEF TypeInv, TypeOK, DirectWrite, Deliver
  <2>4. \A v \in Writes : pc'[v] = "notify" => pc[v] = "notify"
    BY <1>11 DEF TypeInv, TypeOK, DirectWrite, Return
  <2> QED BY <1>11, <2>1, <2>2, <2>3, <2>4
    DEF TypeInv, TypeOK, DirectWrite, closeVars, chanVars, flushVars, workVars, Deliver
<1>12. ASSUME NEW p \in Payloads, DirectRetry(p) PROVE TypeInv'
  <2>1. cnt' \in [Counters -> Nat]
    BY <1>12, CountType DEF TypeInv, DirectRetry, RetryWrite
  <2>2. attempt' \in [Payloads -> 0 .. Retries]
    BY <1>12 DEF TypeInv, TypeOK, DirectRetry, RetryWrite
  <2>3. touched' \subseteq Payloads
    BY <1>12 DEF TypeInv, TypeOK, DirectRetry, RetryWrite, AttemptFails
  <2> QED BY <1>12, <2>1, <2>2, <2>3
    DEF TypeInv, TypeOK, DirectRetry, callVars, closeVars, chanVars, flushVars, RetryWrite
<1>13. ASSUME NEW p \in Payloads, DirectFail(p) PROVE TypeInv'
  <2>1. pc' \in [Calls -> Labels] /\ ret' \in [Calls -> Results]
    BY <1>13, ReturnType DEF TypeInv, DirectFail, Results
  <2>2. cnt' \in [Counters -> Nat]
    BY <1>13, CountType DEF TypeInv, DirectFail
  <2>3. \A v \in Writes : pc'[v] = "notify" => pc[v] = "notify"
    BY <1>13 DEF TypeInv, TypeOK, DirectFail, Return
  <2>4. touched' \subseteq Payloads
    BY <1>13 DEF TypeInv, TypeOK, DirectFail, GiveUp, AttemptFails
  <2> QED BY <1>13, <2>1, <2>2, <2>3, <2>4
    DEF TypeInv, TypeOK, DirectFail, closeVars, chanVars, flushVars
<1>14. ASSUME NEW f \in Flushes, FlushSignal(f) PROVE TypeInv'
  <2>1. pc' \in [Calls -> Labels] /\ ret' \in [Calls -> Results]
    BY <1>14, GotoType DEF TypeInv, FlushSignal, Labels
  <2>2. flushQ' \in Seq(Flushes) /\ Len(flushQ') <= FlushCapacity
    BY <1>14 DEF TypeInv, TypeOK, FlushSignal, FlushCapacity
  <2>3. \A v \in Writes : pc'[v] = "notify" => pc[v] = "notify"
    BY <1>14 DEF TypeInv, TypeOK, FlushSignal, Goto
  <2> QED BY <1>14, <2>1, <2>2, <2>3
    DEF TypeInv, TypeOK, FlushSignal, closeVars, chanVars, workVars, sinkVars
<1>15. ASSUME NEW f \in Flushes, FlushDone(f) PROVE TypeInv'
  <2>1. pc' \in [Calls -> Labels] /\ ret' \in [Calls -> Results]
    BY <1>15, ReturnType DEF TypeInv, FlushDone, Results
  <2>2. \A v \in Writes : pc'[v] = "notify" => pc[v] = "notify"
    BY <1>15 DEF TypeInv, TypeOK, FlushDone, Return
  <2> QED BY <1>15, <2>1, <2>2
    DEF TypeInv, TypeOK, FlushDone, closeVars, chanVars, flushVars, workVars, sinkVars
<1>16. ASSUME NEW f \in Flushes, FlushTimeout(f) PROVE TypeInv'
  <2>1. pc' \in [Calls -> Labels] /\ ret' \in [Calls -> Results]
    BY <1>16, ReturnType DEF TypeInv, FlushTimeout, Results
  <2>2. \A v \in Writes : pc'[v] = "notify" => pc[v] = "notify"
    BY <1>16 DEF TypeInv, TypeOK, FlushTimeout, Return
  <2> QED BY <1>16, <2>1, <2>2
    DEF TypeInv, TypeOK, FlushTimeout, closeVars, chanVars, flushVars, workVars, sinkVars
<1>17. ASSUME NEW c \in Closes, CloseBegin(c) PROVE TypeInv'
  <2>1. pc' \in [Calls -> Labels] /\ ret' \in [Calls -> Results]
    BY <1>17, GotoType, ReturnType DEF TypeInv, CloseBegin, Labels, Results
  <2>2. closed' \in BOOLEAN /\ mutex' \in Closes \cup {None}
    BY <1>17 DEF TypeInv, TypeOK, CloseBegin
  <2>3. before' \in [Calls -> SUBSET Payloads]
    BY <1>17 DEF TypeInv, TypeOK, CloseBegin, Acked
  <2>4. \A v \in Writes : pc'[v] = "notify" => pc[v] = "notify"
    BY <1>17 DEF TypeInv, TypeOK, CloseBegin, Goto, Return
  <2> QED BY <1>17, <2>1, <2>2, <2>3, <2>4
    DEF TypeInv, TypeOK, CloseBegin, chanVars, flushVars, workVars, sinkVars
<1>18. ASSUME NEW c \in Closes, CloseStop(c) PROVE TypeInv'
  <2>1. pc' \in [Calls -> Labels] /\ ret' \in [Calls -> Results]
    BY <1>18 DEF TypeInv, TypeOK, CloseStop, Labels, Results
  <2>2. \A v \in Writes : pc'[v] = "notify" => pc[v] = "notify"
    BY <1>18 DEF TypeInv, TypeOK, CloseStop
  <2> QED BY <1>18, <2>1, <2>2
    DEF TypeInv, TypeOK, CloseStop, flushVars, workVars, sinkVars
<1>19. ASSUME NEW c \in Closes, CloseChannel(c) PROVE TypeInv'
  <2>1. pc' \in [Calls -> Labels] /\ ret' \in [Calls -> Results]
    BY <1>19, GotoType DEF TypeInv, CloseChannel, Labels
  <2>2. \A v \in Writes : pc'[v] = "notify" => pc[v] = "notify"
    BY <1>19 DEF TypeInv, TypeOK, CloseChannel, Goto
  <2> QED BY <1>19, <2>1, <2>2
    DEF TypeInv, TypeOK, CloseChannel, chanVars, flushVars, workVars, sinkVars
<1>20. ASSUME NEW c \in Closes, CloseJoin(c) PROVE TypeInv'
  <2>1. pc' \in [Calls -> Labels] /\ ret' \in [Calls -> Results]
    BY <1>20, ReturnType DEF TypeInv, CloseJoin, Results
  <2>2. outOpen' \in BOOLEAN /\ mutex' \in Closes \cup {None}
    BY <1>20 DEF TypeInv, TypeOK, CloseJoin
  <2>3. \A v \in Writes : pc'[v] = "notify" => pc[v] = "notify"
    BY <1>20 DEF TypeInv, TypeOK, CloseJoin, Return
  <2> QED BY <1>20, <2>1, <2>2, <2>3
    DEF TypeInv, TypeOK, CloseJoin, chanVars, flushVars, workVars
<1>21. ASSUME WorkerReceive PROVE TypeInv'
  <2>1. current' \in Writes
    BY <1>21 DEF TypeInv, TypeOK, WorkerReceive
  <2>2. /\ Tail(queue) \in Seq(Writes) /\ Len(Tail(queue)) < Capacity
        /\ sendq # <<>> => Head(sendq) \in Writes /\ Tail(sendq) \in Seq(Writes)
    BY <1>21, TakeHead DEF TypeInv, TypeOK, WorkerReceive
  <2>3. sendq # <<>> => /\ Append(Tail(queue), Head(sendq)) \in Seq(Writes)
                         /\ Len(Append(Tail(queue), Head(sendq))) <= Capacity
    BY <2>2, AppendProperties, LenProperties DEF TypeInv
  <2>4. queue' \in Seq(Writes) /\ Len(queue') <= Capacity
    BY <1>21, <2>2, <2>3, LenProperties DEF WorkerReceive
  <2>5. sendq' \in Seq(Writes)
    BY <1>21, <2>2 DEF TypeInv, TypeOK, WorkerReceive
  <2>6. sendq # <<>> => Head(sendq) \in Calls
    BY  DEF TypeInv, TypeOK
  <2>7. pc' \in [Calls -> Labels] /\ ret' \in [Calls -> Results]
    BY <1>21, <2>6, GotoType DEF TypeInv, TypeOK, WorkerReceive, Labels
  <2>8. \A v \in Writes : pc'[v] = "notify" => pc[v] = "notify"
    BY <1>21, <2>6 DEF TypeInv, TypeOK, WorkerReceive, Goto
  <2> QED BY <1>21, <2>1, <2>2, <2>3, <2>4, <2>5, <2>6, <2>7, <2>8
    DEF TypeInv, TypeOK, WorkerReceive, closeVars, flushVars, sinkVars
<1>22. ASSUME WorkerTakeFlush PROVE TypeInv'
  <2>1. flushing' \in Flushes /\ flushQ' \in Seq(Flushes) /\ Len(flushQ') <= FlushCapacity
    BY <1>22 DEF TypeInv, TypeOK, WorkerTakeFlush, FlushCapacity
  <2> QED BY <1>22, <2>1
    DEF TypeInv, TypeOK, WorkerTakeFlush, callVars, closeVars, chanVars, workVars, sinkVars
<1>23. ASSUME WorkerTakeStop PROVE TypeInv'
  <2> QED BY <1>23
    DEF TypeInv, TypeOK, WorkerTakeStop, callVars, closeVars, chanVars, workVars, sinkVars
<1>24. ASSUME WorkerTakeClosed PROVE TypeInv'
  <2> QED BY <1>24
    DEF TypeInv, TypeOK, WorkerTakeClosed, callVars, closeVars, chanVars, workVars, sinkVars
<1>25. ASSUME WorkerFlushed PROVE TypeInv'
  <2> QED BY <1>25
    DEF TypeInv, TypeOK, WorkerFlushed, WorkerFree, callVars, closeVars, chanVars, workVars, sinkVars
<1>26. ASSUME WorkerDrained PROVE TypeInv'
  <2> QED BY <1>26
    DEF TypeInv, TypeOK, WorkerDrained, callVars, closeVars, chanVars, workVars, sinkVars
<1>27. ASSUME WorkerWrite PROVE TypeInv'
  <2>1. cnt' \in [Counters -> Nat]
    BY <1>27, CountType DEF TypeInv, WorkerWrite, Deliver
  <2>2. out' \in Seq(Payloads)
    BY <1>27 DEF TypeInv, TypeOK, WorkerWrite, Deliver
  <2> QED BY <1>27, <2>1, <2>2
    DEF TypeInv, TypeOK, WorkerWrite, callVars, closeVars, chanVars, flushVars, Deliver
<1>28. ASSUME WorkerRetry PROVE TypeInv'
  <2>1. cnt' \in [Counters -> Nat]
    BY <1>28, CountType DEF TypeInv, WorkerRetry, RetryWrite
  <2>2. attempt' \in [Payloads -> 0 .. Retries]
    BY <1>28 DEF TypeInv, TypeOK, WorkerRetry, RetryWrite
  <2>3. touched' \subseteq Payloads
    BY <1>28 DEF TypeInv, TypeOK, WorkerRetry, RetryWrite, AttemptFails
  <2> QED BY <1>28, <2>1, <2>2, <2>3
    DEF TypeInv, TypeOK, WorkerRetry, callVars, closeVars, chanVars, flushVars, RetryWrite
<1>29. ASSUME WorkerFail PROVE TypeInv'
  <2>1. cnt' \in [Counters -> Nat]
    BY <1>29, CountType DEF TypeInv, WorkerFail, Drop
  <2>2. drops' \in Seq(Writes)
    BY <1>29 DEF TypeInv, TypeOK, WorkerFail, Drop
  <2>3. touched' \subseteq Payloads
    BY <1>29 DEF TypeInv, TypeOK, WorkerFail, GiveUp, AttemptFails
  <2> QED BY <1>29, <2>1, <2>2, <2>3
    DEF TypeInv, TypeOK, WorkerFail, callVars, closeVars, chanVars, flushVars, Drop
<1>30. CASE UNCHANGED vars
  BY <1>30 DEF TypeInv, TypeOK, vars, callVars, closeVars, chanVars, flushVars, workVars, sinkVars
<1> QED
  BY <1>1, <1>2, <1>3, <1>4, <1>5, <1>6, <1>7, <1>8, <1>9, <1>10, <1>11,
     <1>12, <1>13, <1>14, <1>15, <1>16, <1>17, <1>18, <1>19, <1>20, <1>21,
     <1>22, <1>23, <1>24, <1>25, <1>26, <1>27, <1>28, <1>29, <1>30
  DEF Next, WriteBegin, WriteStep, CriticalBegin, DirectStep, FlushBegin, FlushStep,
      CloseStep, Worker

\* The writer's variables keep their types, and neither channel ever holds
\* more than its capacity (internal/output/async.go, NewAsyncWriter).
THEOREM TypeCorrect == Spec => []TypeOK
<1>1. TypeInv => TypeOK
  BY DEF TypeInv
<1> QED
  BY <1>1, TypeInvInit, TypeInvStep, PTL DEF Spec

-----------------------------------------------------------------------------
(* Every payload has one fate. *)

LEMMA ElementsTyped ==
    ASSUME NEW S, NEW s \in Seq(S)
    PROVE  Range(s) \subseteq S
BY DEF Range

\* The elements of a sequence, and having no element twice, under the two
\* operations of a channel.
LEMMA PutLast ==
    ASSUME NEW S, NEW s \in Seq(S), NEW e \in S
    PROVE  /\ Range(Append(s, e)) = Range(s) \cup {e}
           /\ IsInjective(s) /\ e \notin Range(s) => IsInjective(Append(s, e))
<1>1. /\ DOMAIN Append(s, e) = 1 .. Len(s) + 1 /\ DOMAIN s = 1 .. Len(s)
      /\ Len(s) \in Nat
      /\ \A i \in 1 .. Len(s) : Append(s, e)[i] = s[i]
      /\ Append(s, e)[Len(s) + 1] = e
  BY AppendProperties, LenProperties
<1>2. Range(Append(s, e)) = Range(s) \cup {e}
  BY <1>1 DEF Range
<1>3. ASSUME IsInjective(s), e \notin Range(s) PROVE IsInjective(Append(s, e))
  BY <1>1, <1>3 DEF Range, IsInjective
<1> QED BY <1>2, <1>3

LEMMA TakeFirst ==
    ASSUME NEW S, NEW s \in Seq(S), s # <<>>
    PROVE  /\ Range(s) = {Head(s)} \cup Range(Tail(s))
           /\ IsInjective(s) => IsInjective(Tail(s)) /\ Head(s) \notin Range(Tail(s))
<1>1. /\ DOMAIN s = 1 .. Len(s) /\ DOMAIN Tail(s) = 1 .. Len(s) - 1
      /\ Len(s) \in Nat /\ Len(s) > 0
      /\ Head(s) = s[1]
      /\ \A i \in 1 .. Len(s) - 1 : Tail(s)[i] = s[i + 1]
  BY HeadTailProperties, LenProperties, EmptySeq
<1>2. \A i \in 2 .. Len(s) : s[i] = Tail(s)[i - 1]
  BY <1>1
<1>3. Range(s) = {Head(s)} \cup Range(Tail(s))
  <2>1. \A i \in DOMAIN s : s[i] \in {Head(s)} \cup Range(Tail(s))
    <3> TAKE i \in DOMAIN s
    <3>1. CASE i = 1
      BY <1>1, <3>1
    <3>2. CASE i \in 2 .. Len(s)
      BY <1>1, <1>2, <3>2, i - 1 \in DOMAIN Tail(s) DEF Range
    <3> QED BY <1>1, <3>1, <3>2
  <2>2. \A i \in DOMAIN Tail(s) : Tail(s)[i] \in Range(s)
    BY <1>1 DEF Range
  <2> QED BY <1>1, <2>1, <2>2 DEF Range
<1>4. ASSUME IsInjective(s) PROVE IsInjective(Tail(s)) /\ Head(s) \notin Range(Tail(s))
  BY <1>1, <1>4 DEF Range, IsInjective
<1> QED BY <1>3, <1>4

LEMMA PlaceInvInit == Init => PlaceInv
BY DEF Init, PlaceInv, OnePlace, InFlight, Resolved, Held, Delivered, Dropped,
       Range, IsInjective, BeforeSend

\* A step that moves no payload, and takes no call back before its send.
LEMMA FateKept ==
    ASSUME TypeInv, PlaceInv,
           UNCHANGED <<queue, sendq, current, held, out, drops>>,
           \A p \in Payloads :
              /\ pc'[p] \in BeforeSend => pc[p] \in BeforeSend
              /\ pc[p] \in {"notify", "parked"} => pc'[p] = pc[p]
    PROVE  PlaceInv'
<1>1. OnePlace' /\ InFlight' = InFlight /\ Resolved' = Resolved
  BY DEF PlaceInv, OnePlace, InFlight, Resolved, Held, Delivered, Dropped
<1>2. Range(sendq) \subseteq Payloads
  BY ElementsTyped DEF TypeInv, TypeOK
<1>3. \A w \in Range(sendq') : pc'[w] = "parked"
  BY <1>2 DEF PlaceInv
<1> QED BY <1>1, <1>3 DEF PlaceInv

\* One step per action that moves a payload; the others are FateKept.
LEMMA PlaceInvStep == TypeInv /\ PlaceInv /\ [Next]_vars => PlaceInv'
<1> SUFFICES ASSUME TypeInv, PlaceInv, [Next]_vars PROVE PlaceInv'
  OBVIOUS
<1> DEFINE Custody == InFlight \cup Resolved
<1> USE DEF BeforeSend
<1>t. /\ pc \in [Calls -> Labels] /\ held \in [Writes -> Writes \cup {None}]
      /\ queue \in Seq(Writes) /\ sendq \in Seq(Writes)
      /\ out \in Seq(Payloads) /\ drops \in Seq(Payloads)
      /\ current \in Writes \cup {None}
      /\ Range(queue) \subseteq Writes /\ Range(sendq) \subseteq Writes
      /\ Range(out) \subseteq Payloads /\ Range(drops) \subseteq Payloads
  BY ElementsTyped DEF TypeInv, TypeOK
<1>1. ASSUME NEW w \in Writes, WriteSend(w) PROVE PlaceInv'
  <2>1. w \notin Custody
    BY <1>1, <1>t DEF WriteSend, AtSend, PlaceInv
  <2>2. Range(queue') = Range(queue) \cup {w} /\ IsInjective(queue')
    BY <1>1, <1>t, <2>1, PutLast DEF WriteSend, PlaceInv, OnePlace, InFlight
  <2>3. UNCHANGED <<sendq, current, held, out, drops>>
    BY <1>1 DEF WriteSend, workVars, sinkVars
  <2>4. pc' = [pc EXCEPT ![w] = "count"] /\ pc[w] \in {"enqueue", "reenqueue"}
    BY <1>1 DEF WriteSend, AtSend, Goto
  <2>5. OnePlace'
    BY <1>t, <2>1, <2>2, <2>3
    DEF PlaceInv, OnePlace, InFlight, Resolved, Held, Delivered, Dropped
  <2>6. Custody' = Custody \cup {w}
    BY <2>2, <2>3 DEF InFlight, Resolved, Held, Delivered, Dropped
  <2> QED BY <1>t, <2>3, <2>4, <2>5, <2>6 DEF PlaceInv
<1>2. ASSUME NEW w \in Writes, WritePark(w) PROVE PlaceInv'
  <2>1. UNCHANGED <<queue, current, held, out, drops>>
    BY <1>2 DEF WritePark, workVars, sinkVars
  <2>2. pc' = [pc EXCEPT ![w] = "parked"] /\ pc[w] = "enqueue"
    BY <1>2 DEF WritePark, Goto
  <2>3. Range(sendq') = Range(sendq) \cup {w} /\ IsInjective(sendq')
    BY <1>2, <1>t, <2>2, PutLast DEF WritePark, PlaceInv
  <2>4. OnePlace' /\ Custody' = Custody
    BY <2>1 DEF PlaceInv, OnePlace, InFlight, Resolved, Held, Delivered, Dropped
  <2> QED BY <1>t, <2>1, <2>2, <2>3, <2>4 DEF PlaceInv
<1>3. ASSUME NEW w \in Writes, WriteOverflow(w) PROVE PlaceInv'
  <2>1. w \notin Custody
    BY <1>3, <1>t DEF WriteOverflow, Rejects, PlaceInv
  <2>2. Range(drops') = Range(drops) \cup {w} /\ IsInjective(drops')
    BY <1>3, <1>t, <2>1, PutLast DEF WriteOverflow, Drop, PlaceInv, OnePlace, Resolved, Dropped
  <2>3. UNCHANGED <<queue, sendq, current, held, out>>
    BY <1>3 DEF WriteOverflow, Drop, chanVars, workVars
  <2>4. pc' = [pc EXCEPT ![w] = "done"] /\ pc[w] \in {"enqueue", "reenqueue"}
    BY <1>3 DEF WriteOverflow, Rejects, Return
  <2>5. OnePlace'
    BY <1>t, <2>1, <2>2, <2>3
    DEF PlaceInv, OnePlace, InFlight, Resolved, Held, Delivered, Dropped
  <2>6. Custody' = Custody \cup {w}
    BY <2>2, <2>3 DEF InFlight, Resolved, Held, Delivered, Dropped
  <2> QED BY <1>t, <2>3, <2>4, <2>5, <2>6 DEF PlaceInv
<1>4. ASSUME NEW w \in Writes, WriteDiscard(w) PROVE PlaceInv'
  <2>1. UNCHANGED <<sendq, current, out, drops>>
    BY <1>4 DEF WriteDiscard, sinkVars
  <2>2. pc[w] = "discard" /\ held[w] = None
    BY <1>4, <1>t DEF WriteDiscard, PlaceInv
  <2>3. CASE queue = <<>>
    <3>1. UNCHANGED <<queue, held>> /\ pc' = [pc EXCEPT ![w] = "reenqueue"]
      BY <1>4, <2>3 DEF WriteDiscard, Goto
    <3> QED BY <1>t, <2>1, <2>2, <3>1, FateKept
  <2>4. CASE queue # <<>>
    <3> DEFINE h == Head(queue)
    <3>1. /\ held' = [held EXCEPT ![w] = h] /\ queue' = Tail(queue)
          /\ pc' = [pc EXCEPT ![w] = "notify"]
      BY <1>4, <2>4 DEF WriteDiscard, Goto
    <3>2. /\ Range(queue) = {h} \cup Range(queue') /\ h \in Writes
          /\ IsInjective(queue') /\ h \notin Range(queue')
      BY <1>t, <2>4, <3>1, TakeFirst, TakeHead DEF PlaceInv, OnePlace
    <3>3. Held' = Held \cup {h}
      BY <1>t, <2>2, <3>1, <3>2 DEF Held
    <3>4. Custody' = Custody
      BY <2>1, <3>2, <3>3 DEF InFlight, Resolved, Delivered, Dropped
    <3>5. h \notin Held /\ h # current /\ h \notin Resolved
      BY <3>2 DEF PlaceInv, OnePlace, InFlight
    <3>6. \A u, v \in Writes : held'[u] = held'[v] /\ held'[u] # None => u = v
      BY <1>t, <2>2, <3>1, <3>2, <3>5 DEF PlaceInv, OnePlace, Held
    <3>7. OnePlace'
      BY <1>t, <2>1, <3>2, <3>3, <3>4, <3>5, <3>6
      DEF PlaceInv, OnePlace, InFlight, Resolved, Delivered, Dropped
    <3> QED BY <1>t, <2>1, <2>2, <3>1, <3>4, <3>7 DEF PlaceInv
  <2> QED BY <2>3, <2>4
<1>5. ASSUME NEW w \in Writes, WriteNotifyDrop(w) PROVE PlaceInv'
  <2> DEFINE h == held[w]
  <2>1. UNCHANGED <<queue, sendq, current, out>>
    BY <1>5 DEF WriteNotifyDrop, Drop, chanVars
  <2>2. pc[w] = "notify" /\ pc' = [pc EXCEPT ![w] = "reenqueue"]
    BY <1>5 DEF WriteNotifyDrop, Goto
  <2>3. h \in Writes /\ h \in Held /\ held' = [held EXCEPT ![w] = None]
    BY <1>5, <1>t, <2>2 DEF WriteNotifyDrop, TypeInv, Held
  <2>4. h \notin Resolved /\ w \notin Custody
    BY <1>t, <2>2, <2>3 DEF PlaceInv, OnePlace, InFlight
  <2>5. Range(drops') = Range(drops) \cup {h} /\ IsInjective(drops')
    BY <1>5, <1>t, <2>3, <2>4, PutLast
    DEF WriteNotifyDrop, Drop, PlaceInv, OnePlace, Resolved, Dropped
  <2>6. Held' = Held \ {h}
    BY <1>t, <2>3 DEF Held, PlaceInv, OnePlace
  <2>7. Custody' = Custody
    BY <2>1, <2>3, <2>5, <2>6 DEF InFlight, Resolved, Delivered, Dropped
  <2>8. OnePlace'
    BY <1>t, <2>1, <2>3, <2>4, <2>5, <2>6
    DEF PlaceInv, OnePlace, InFlight, Resolved, Delivered, Dropped
  <2> QED BY <1>t, <2>1, <2>2, <2>3, <2>4, <2>7, <2>8 DEF PlaceInv
<1>6. ASSUME NEW p \in Payloads, DirectWrite(p) PROVE PlaceInv'
  <2>1. p \notin Custody
    BY <1>6, <1>t DEF DirectWrite, PlaceInv
  <2>2. Range(out') = Range(out) \cup {p} /\ IsInjective(out')
    BY <1>6, <1>t, <2>1, PutLast
    DEF DirectWrite, Deliver, PlaceInv, OnePlace, Resolved, Delivered
  <2>3. UNCHANGED <<queue, sendq, current, held, drops>>
    BY <1>6 DEF DirectWrite, Deliver, chanVars, workVars
  <2>4. pc' = [pc EXCEPT ![p] = "done"] /\ pc[p] = "direct"
    BY <1>6 DEF DirectWrite, Return
  <2>5. OnePlace'
    BY <1>t, <2>1, <2>2, <2>3
    DEF PlaceInv, OnePlace, InFlight, Resolved, Held, Delivered, Dropped
  <2>6. Custody' = Custody \cup {p}
    BY <2>2, <2>3 DEF InFlight, Resolved, Held, Delivered, Dropped
  <2> QED BY <1>t, <2>3, <2>4, <2>5, <2>6 DEF PlaceInv
<1>7. ASSUME NEW c \in Closes, CloseStop(c) PROVE PlaceInv'
  <2>1. UNCHANGED <<queue, current, held, out, drops>> /\ sendq' = <<>>
    BY <1>7 DEF CloseStop, workVars, sinkVars
  <2>2. \A p \in Payloads : pc'[p] = IF p \in Range(sendq) THEN "done" ELSE pc[p]
    BY <1>7 DEF CloseStop
  <2>3. OnePlace' /\ Custody' = Custody
    BY <2>1 DEF PlaceInv, OnePlace, InFlight, Resolved, Held, Delivered, Dropped
  <2>4. \A w \in Writes : held[w] # None => pc'[w] = "notify"
    BY <2>2 DEF PlaceInv
  <2>5. IsInjective(sendq') /\ Range(sendq') = {}
    BY <2>1 DEF IsInjective, Range
  <2> QED BY <2>1, <2>2, <2>3, <2>4, <2>5 DEF PlaceInv
<1>8. ASSUME WorkerReceive PROVE PlaceInv'
  <2> DEFINE h == Head(queue)
  <2> DEFINE s == Head(sendq)
  <2>1. UNCHANGED <<held, out, drops>> /\ queue # <<>> /\ current = None /\ current' = h
    BY <1>8 DEF WorkerReceive, sinkVars
  <2>2. /\ Range(queue) = {h} \cup Range(Tail(queue)) /\ h \in Writes
        /\ IsInjective(Tail(queue)) /\ h \notin Range(Tail(queue))
        /\ Tail(queue) \in Seq(Writes)
    BY <1>t, <2>1, TakeFirst, TakeHead DEF PlaceInv, OnePlace
  <2>3. h \notin Held /\ h \notin Resolved
    BY <2>2 DEF PlaceInv, OnePlace, InFlight
  <2>4. CASE sendq = <<>>
    <3>1. queue' = Tail(queue) /\ UNCHANGED <<pc, sendq>>
      BY <1>8, <2>4 DEF WorkerReceive
    <3>2. Custody' = Custody
      BY <2>1, <2>2, <3>1 DEF InFlight, Resolved, Held, Delivered, Dropped
    <3>3. OnePlace'
      BY <1>t, <2>1, <2>2, <2>3, <3>1, <3>2
      DEF PlaceInv, OnePlace, InFlight, Resolved, Held, Delivered, Dropped
    <3> QED BY <2>1, <3>1, <3>2, <3>3 DEF PlaceInv
  <2>5. CASE sendq # <<>>
    <3>1. /\ queue' = Append(Tail(queue), s) /\ sendq' = Tail(sendq)
          /\ pc' = [pc EXCEPT ![s] = "count"]
      BY <1>8, <2>5 DEF WorkerReceive, Goto
    <3>2. /\ Range(sendq) = {s} \cup Range(sendq') /\ s \in Writes
          /\ IsInjective(sendq') /\ s \notin Range(sendq')
      BY <1>t, <2>5, <3>1, TakeFirst, TakeHead DEF PlaceInv
    <3>3. pc[s] = "parked" /\ s \notin Custody
      BY <3>2 DEF PlaceInv
    <3>4. s \notin Range(Tail(queue)) /\ s # h
      BY <2>2, <3>3 DEF InFlight
    <3>5. Range(queue') = Range(Tail(queue)) \cup {s} /\ IsInjective(queue')
      <4>1. ASSUME NEW t \in Seq(Writes), NEW e \in Writes, IsInjective(t), e \notin Range(t)
            PROVE  Range(Append(t, e)) = Range(t) \cup {e} /\ IsInjective(Append(t, e))
        BY <4>1, PutLast
      <4> HIDE DEF s
      <4> QED BY <2>2, <3>1, <3>2, <3>4, <4>1
    <3>6. Custody' = Custody \cup {s}
      BY <2>1, <2>2, <3>5 DEF InFlight, Resolved, Held, Delivered, Dropped
    <3>7. OnePlace'
      BY <1>t, <2>1, <2>2, <2>3, <3>2, <3>3, <3>4, <3>5
      DEF PlaceInv, OnePlace, InFlight, Resolved, Held, Delivered, Dropped
    <3> QED BY <1>t, <2>1, <3>1, <3>2, <3>3, <3>6, <3>7 DEF PlaceInv
  <2> QED BY <2>4, <2>5
<1>9. ASSUME WorkerWrite PROVE PlaceInv'
  <2>1. /\ current \in Writes /\ current' = None /\ UNCHANGED <<pc, queue, sendq, held, drops>>
    BY <1>9, <1>t DEF WorkerWrite, Deliver, callVars, chanVars
  <2>2. current \notin Resolved /\ current \notin Held /\ current \notin Range(queue)
    BY <2>1 DEF PlaceInv, OnePlace, InFlight
  <2>3. Range(out') = Range(out) \cup {current} /\ IsInjective(out')
    BY <1>9, <1>t, <2>1, <2>2, PutLast
    DEF WorkerWrite, Deliver, PlaceInv, OnePlace, Resolved, Delivered
  <2>4. Custody' = Custody
    BY <2>1, <2>3 DEF InFlight, Resolved, Held, Delivered, Dropped
  <2>5. OnePlace'
    BY <1>t, <2>1, <2>2, <2>3
    DEF PlaceInv, OnePlace, InFlight, Resolved, Held, Delivered, Dropped
  <2> QED BY <2>1, <2>4, <2>5 DEF PlaceInv
<1>10. ASSUME WorkerFail PROVE PlaceInv'
  <2>1. /\ current \in Writes /\ current' = None /\ UNCHANGED <<pc, queue, sendq, held, out>>
    BY <1>10, <1>t DEF WorkerFail, Drop, callVars, chanVars
  <2>2. current \notin Resolved /\ current \notin Held /\ current \notin Range(queue)
    BY <2>1 DEF PlaceInv, OnePlace, InFlight
  <2>3. Range(drops') = Range(drops) \cup {current} /\ IsInjective(drops')
    BY <1>10, <1>t, <2>1, <2>2, PutLast
    DEF WorkerFail, Drop, PlaceInv, OnePlace, Resolved, Dropped
  <2>4. Custody' = Custody
    BY <2>1, <2>3 DEF InFlight, Resolved, Held, Delivered, Dropped
  <2>5. OnePlace'
    BY <1>t, <2>1, <2>2, <2>3
    DEF PlaceInv, OnePlace, InFlight, Resolved, Held, Delivered, Dropped
  <2> QED BY <2>1, <2>4, <2>5 DEF PlaceInv
<1>11. ASSUME NEW c \in Calls, NEW label \in {"enqueue", "direct", "signal"}, Enter(c, label)
       PROVE  PlaceInv'
  <2>1. /\ pc[c] = "idle"
        /\ pc' = [pc EXCEPT ![c] = "done"] \/ pc' = [pc EXCEPT ![c] = label]
    BY <1>11 DEF Enter, Goto, Return
  <2>2. UNCHANGED <<queue, sendq, current, held, out, drops>>
    BY <1>11 DEF Enter, chanVars, workVars, sinkVars
  <2>3. \A p \in Payloads :
           /\ pc'[p] \in BeforeSend => pc[p] \in BeforeSend
           /\ pc[p] \in {"notify", "parked"} => pc'[p] = pc[p]
    BY <1>t, <2>1
  <2> QED BY <2>2, <2>3, FateKept
<1>12. ASSUME NEW w \in Writes,
              WriteCount(w) \/ WritePanic(w) \/ WriteStopped(w) \/ WriteFull(w)
       PROVE  PlaceInv'
  BY <1>12, <1>t, FateKept
  DEF WriteCount, WritePanic, AtSend, WriteStopped, WriteFull, Goto, Return, chanVars, workVars, sinkVars
<1>13. ASSUME NEW p \in Payloads, DirectRetry(p) \/ DirectFail(p) PROVE PlaceInv'
  BY <1>13, <1>t, FateKept
  DEF DirectRetry, DirectFail, RetryWrite, Return, callVars, chanVars, workVars
<1>14. ASSUME NEW f \in Flushes, FlushStep(f) PROVE PlaceInv'
  BY <1>14, <1>t, FateKept
  DEF FlushStep, FlushSignal, FlushDone, FlushTimeout, Goto, Return, chanVars, workVars, sinkVars
<1>15. ASSUME NEW c \in Closes, CloseBegin(c) \/ CloseChannel(c) \/ CloseJoin(c)
       PROVE  PlaceInv'
  BY <1>15, <1>t, FateKept
  DEF CloseBegin, CloseChannel, CloseJoin, Goto, Return, chanVars, workVars, sinkVars
<1>16. ASSUME WorkerTakeFlush \/ WorkerTakeStop \/ WorkerTakeClosed \/ WorkerFlushed
                \/ WorkerDrained \/ WorkerRetry
       PROVE  PlaceInv'
  BY <1>16, FateKept
  DEF WorkerTakeFlush, WorkerTakeStop, WorkerTakeClosed, WorkerFlushed, WorkerDrained,
      WorkerRetry, RetryWrite, callVars, chanVars, workVars, sinkVars
<1>17. CASE UNCHANGED vars
  BY <1>17, FateKept DEF vars, callVars, chanVars, workVars, sinkVars
<1> QED
  BY <1>1, <1>2, <1>3, <1>4, <1>5, <1>6, <1>7, <1>8, <1>9, <1>10, <1>11, <1>12,
     <1>13, <1>14, <1>15, <1>16, <1>17
  DEF Next, WriteBegin, WriteStep, CriticalBegin, DirectStep, FlushBegin, CloseStep, Worker

LEMMA PlaceInvariant == Spec => []PlaceInv
BY TypeInvInit, TypeInvStep, PlaceInvInit, PlaceInvStep, PTL DEF Spec

-----------------------------------------------------------------------------
(* What the writer has taken charge of, and what it has settled, only grows. *)

Custody == InFlight \cup Resolved
Settled == Resolved \cup Held

\* A payload enters the writer's custody only before its call has sent it.
Grows ==
    /\ Delivered \subseteq Delivered' /\ Dropped \subseteq Dropped'
    /\ Settled \subseteq Settled' /\ Custody \subseteq Custody'
    /\ \A p \in Custody' \ Custody : p \in Payloads /\ pc[p] \in BeforeSend

\* Elements put at the end of a log are added to what it holds.
LEMMA LogGrows ==
    ASSUME NEW S, NEW s \in Seq(S), NEW e
    PROVE  Range(Append(s, e)) = Range(s) \cup {e}
<1>1. s \in Seq(S \cup {e})
  BY SeqMonotonic
<1> QED BY <1>1, PutLast

LEMMA NothingMoves ==
    ASSUME UNCHANGED <<queue, current, held, out, drops>>
    PROVE  Grows /\ Custody' = Custody /\ Settled' = Settled
BY DEF Grows, Custody, Settled, InFlight, Resolved, Held, Delivered, Dropped

LEMMA CustodyGrows == TypeInv /\ PlaceInv /\ [Next]_vars => Grows
<1> SUFFICES ASSUME TypeInv, PlaceInv, [Next]_vars PROVE Grows
  OBVIOUS
<1>t. /\ pc \in [Calls -> Labels] /\ held \in [Writes -> Writes \cup {None}]
      /\ queue \in Seq(Writes) /\ sendq \in Seq(Writes)
      /\ out \in Seq(Payloads) /\ drops \in Seq(Payloads)
      /\ current \in Writes \cup {None}
      /\ Range(sendq) \subseteq Writes
  BY ElementsTyped DEF TypeInv, TypeOK
<1>1. ASSUME NEW w \in Writes, WriteSend(w) PROVE Grows
  <2>1. Range(queue') = Range(queue) \cup {w} /\ pc[w] \in BeforeSend
    BY <1>1, <1>t, LogGrows DEF WriteSend, AtSend, BeforeSend
  <2>2. UNCHANGED <<current, held, out, drops>>
    BY <1>1 DEF WriteSend, workVars, sinkVars
  <2> QED BY <2>1, <2>2 DEF Grows, Custody, Settled, InFlight, Resolved, Held, Delivered, Dropped
<1>2. ASSUME NEW w \in Writes, WriteOverflow(w) PROVE Grows
  <2>1. Range(drops') = Range(drops) \cup {w} /\ pc[w] \in BeforeSend
    BY <1>2, <1>t, LogGrows DEF WriteOverflow, Drop, Rejects, BeforeSend
  <2>2. UNCHANGED <<queue, current, held, out>>
    BY <1>2 DEF WriteOverflow, Drop, chanVars, workVars
  <2> QED BY <2>1, <2>2 DEF Grows, Custody, Settled, InFlight, Resolved, Held, Delivered, Dropped
<1>3. ASSUME NEW w \in Writes, WriteDiscard(w) PROVE Grows
  <2>1. UNCHANGED <<current, out, drops>>
    BY <1>3 DEF WriteDiscard, sinkVars
  <2>2. CASE queue = <<>>
    <3>1. UNCHANGED <<queue, held>>
      BY <1>3, <2>2 DEF WriteDiscard
    <3> QED BY <2>1, <3>1, NothingMoves
  <2>3. CASE queue # <<>>
    <3>1. held' = [held EXCEPT ![w] = Head(queue)] /\ queue' = Tail(queue) /\ held[w] = None
      BY <1>3, <2>3 DEF WriteDiscard, PlaceInv
    <3>2. Range(queue) = {Head(queue)} \cup Range(queue') /\ Head(queue) \in Writes
      BY <1>t, <2>3, <3>1, TakeFirst, TakeHead
    <3>3. Held' = Held \cup {Head(queue)}
      BY <1>t, <3>1, <3>2 DEF Held
    <3> QED BY <2>1, <3>2, <3>3 DEF Grows, Custody, Settled, InFlight, Resolved, Delivered, Dropped
  <2> QED BY <2>2, <2>3
<1>4. ASSUME NEW w \in Writes, WriteNotifyDrop(w) PROVE Grows
  <2>1. UNCHANGED <<queue, current, out>> /\ held' = [held EXCEPT ![w] = None]
    BY <1>4 DEF WriteNotifyDrop, Drop, chanVars
  <2>2. Range(drops') = Range(drops) \cup {held[w]}
    BY <1>4, <1>t, LogGrows DEF WriteNotifyDrop, Drop
  <2>3. held[w] \in Held /\ Held \subseteq Held' \cup {held[w]} /\ Held' \subseteq Held
    BY <1>4, <1>t, <2>1 DEF WriteNotifyDrop, Held, TypeInv
  <2> QED BY <2>1, <2>2, <2>3 DEF Grows, Custody, Settled, InFlight, Resolved, Delivered, Dropped
<1>5. ASSUME NEW p \in Payloads, DirectWrite(p) PROVE Grows
  <2>1. Range(out') = Range(out) \cup {p} /\ pc[p] \in BeforeSend
    BY <1>5, <1>t, LogGrows DEF DirectWrite, Deliver, BeforeSend
  <2>2. UNCHANGED <<queue, current, held, drops>>
    BY <1>5 DEF DirectWrite, Deliver, chanVars, workVars
  <2> QED BY <2>1, <2>2 DEF Grows, Custody, Settled, InFlight, Resolved, Held, Delivered, Dropped
<1>6. ASSUME WorkerReceive PROVE Grows
  <2> DEFINE h == Head(queue)
  <2>1. UNCHANGED <<held, out, drops>> /\ queue # <<>> /\ current = None /\ current' = h
    BY <1>6 DEF WorkerReceive, sinkVars
  <2>2. /\ Range(queue) = {h} \cup Range(Tail(queue)) /\ h \in Writes
        /\ Tail(queue) \in Seq(Writes)
    BY <1>t, <2>1, TakeFirst, TakeHead
  <2>3. CASE sendq = <<>>
    <3>1. queue' = Tail(queue)
      BY <1>6, <2>3 DEF WorkerReceive
    <3> QED BY <2>1, <2>2, <3>1
      DEF Grows, Custody, Settled, InFlight, Resolved, Held, Delivered, Dropped
  <2>4. CASE sendq # <<>>
    <3>1. queue' = Append(Tail(queue), Head(sendq))
      BY <1>6, <2>4 DEF WorkerReceive
    <3>2. Head(sendq) \in Range(sendq)
      BY <1>t, <2>4, TakeFirst
    <3>3. Head(sendq) \in Payloads /\ pc[Head(sendq)] \in BeforeSend
      BY <1>t, <3>2 DEF PlaceInv, BeforeSend
    <3>4. Range(queue') = Range(Tail(queue)) \cup {Head(sendq)}
      BY <2>2, <3>1, LogGrows
    <3> QED BY <2>1, <2>2, <3>3, <3>4
      DEF Grows, Custody, Settled, InFlight, Resolved, Held, Delivered, Dropped
  <2> QED BY <2>3, <2>4
<1>7. ASSUME WorkerWrite PROVE Grows
  <2>1. current' = None /\ UNCHANGED <<queue, held, drops>>
    BY <1>7 DEF WorkerWrite, Deliver, chanVars
  <2>2. Range(out') = Range(out) \cup {current}
    BY <1>7, <1>t, LogGrows DEF WorkerWrite, Deliver
  <2>3. current # None
    BY <1>7 DEF WorkerWrite
  <2> QED BY <2>1, <2>2, <2>3 DEF Grows, Custody, Settled, InFlight, Resolved, Held, Delivered, Dropped
<1>8. ASSUME WorkerFail PROVE Grows
  <2>1. current' = None /\ UNCHANGED <<queue, held, out>>
    BY <1>8 DEF WorkerFail, Drop, chanVars
  <2>2. Range(drops') = Range(drops) \cup {current}
    BY <1>8, <1>t, LogGrows DEF WorkerFail, Drop
  <2>3. current # None
    BY <1>8 DEF WorkerFail
  <2> QED BY <2>1, <2>2, <2>3 DEF Grows, Custody, Settled, InFlight, Resolved, Held, Delivered, Dropped
<1>9. ASSUME NEW c \in Calls, NEW label, Enter(c, label) PROVE Grows
  BY <1>9, NothingMoves DEF Enter, chanVars, workVars, sinkVars
<1>10. ASSUME NEW w \in Writes,
              WriteCount(w) \/ WritePanic(w) \/ WriteStopped(w) \/ WritePark(w) \/ WriteFull(w)
       PROVE  Grows
  BY <1>10, NothingMoves
  DEF WriteCount, WritePanic, WriteStopped, WritePark, WriteFull, chanVars, workVars, sinkVars
<1>11. ASSUME NEW p \in Payloads, DirectRetry(p) \/ DirectFail(p) PROVE Grows
  BY <1>11, NothingMoves DEF DirectRetry, DirectFail, RetryWrite, chanVars, workVars
<1>12. ASSUME NEW f \in Flushes, FlushStep(f) PROVE Grows
  BY <1>12, NothingMoves
  DEF FlushStep, FlushSignal, FlushDone, FlushTimeout, chanVars, workVars, sinkVars
<1>13. ASSUME NEW c \in Closes, CloseBegin(c) \/ CloseStep(c) PROVE Grows
  BY <1>13, NothingMoves
  DEF CloseStep, CloseBegin, CloseStop, CloseChannel, CloseJoin, chanVars, workVars, sinkVars
<1>14. ASSUME WorkerTakeFlush \/ WorkerTakeStop \/ WorkerTakeClosed \/ WorkerFlushed
                \/ WorkerDrained \/ WorkerRetry
       PROVE  Grows
  BY <1>14, NothingMoves
  DEF WorkerTakeFlush, WorkerTakeStop, WorkerTakeClosed, WorkerFlushed, WorkerDrained,
      WorkerRetry, RetryWrite, chanVars, workVars, sinkVars
<1>15. CASE UNCHANGED vars
  BY <1>15, NothingMoves DEF vars, chanVars, workVars, sinkVars
<1> QED
  BY <1>1, <1>2, <1>3, <1>4, <1>5, <1>6, <1>7, <1>8, <1>9, <1>10, <1>11, <1>12,
     <1>13, <1>14, <1>15
  DEF Next, WriteBegin, WriteStep, CriticalBegin, DirectStep, FlushBegin, Worker

-----------------------------------------------------------------------------
(* What the calls return is true. *)

Ended == {"done", "panicked"}

\* The part of HonestInv about one payload.
HonestAbout(p) ==
    /\ ret[p] = "ok" => p \in Custody
    /\ ret[p] = "ok" /\ p \in Criticals => p \in Delivered
    /\ ret[p] = "full" => p \in Dropped
    /\ ret[p] \in {"closed", "error", "panic"} => p \notin Custody
    /\ pc[p] = "count" => p \in Custody

HonestByParts ==
    /\ \A p \in Payloads : HonestAbout(p)
    /\ \A c \in Calls : ret[c] # "none" => pc[c] \in Ended

LEMMA HonestByPayload == (HonestInv <=> HonestByParts) /\ (HonestInv' <=> HonestByParts')
BY DEF HonestByParts, HonestInv, FatesAsTold, HonestAbout, Custody, Ended

USE DEF HonestByParts

\* What was true of a call stays true of it while it is told nothing new.
LEMMA HonestStays ==
    ASSUME PlaceInv, HonestInv, Grows, NEW p \in Payloads,
           ret'[p] = ret[p], pc'[p] = "count" => p \in Custody'
    PROVE  HonestAbout(p)'
<1>1. HonestAbout(p) /\ (ret[p] # "none" => pc[p] \in Ended)
  BY HonestByPayload
<1>2. ret[p] # "none" /\ p \in Custody' => p \in Custody
  BY <1>1 DEF Grows, Ended, BeforeSend
<1> QED BY <1>1, <1>2 DEF Grows, HonestAbout

\* So a step of one call has to be honest about that call only.
LEMMA HonestStep ==
    ASSUME TypeInv, PlaceInv, HonestInv, Grows, NEW c \in Calls,
           \A d \in Calls \ {c} : pc'[d] = pc[d] /\ ret'[d] = ret[d],
           ret'[c] # "none" => pc'[c] \in Ended,
           c \in Payloads => HonestAbout(c)'
    PROVE  HonestInv'
<1>1. ASSUME NEW p \in Payloads, p # c PROVE HonestAbout(p)'
  BY <1>1, HonestStays, HonestByPayload DEF Grows, HonestAbout
<1>2. \A d \in Calls : ret'[d] # "none" => pc'[d] \in Ended
  BY HonestByPayload
<1> QED BY <1>1, <1>2, HonestByPayload

\* A call that has not moved its payload may be refused.
LEMMA HonestRefusal ==
    ASSUME TypeInv, PlaceInv, HonestInv, Grows, NEW c \in Calls,
           NEW result \in {"closed", "error", "panic", "timeout"},
           pc' = [pc EXCEPT ![c] = "done"] \/ pc' = [pc EXCEPT ![c] = "panicked"],
           ret' = [ret EXCEPT ![c] = result],
           c \in Payloads => pc[c] \in BeforeSend,
           UNCHANGED <<queue, current, held, out, drops>>
    PROVE  HonestInv'
<1>1. pc \in [Calls -> Labels] /\ ret \in [Calls -> Results]
  BY DEF TypeInv, TypeOK
<1>2. c \in Payloads => c \notin Custody'
  BY NothingMoves DEF PlaceInv, Custody
<1> QED BY <1>1, <1>2, HonestStep DEF HonestAbout, Ended

\* A call that goes on is told nothing.
LEMMA HonestGoto ==
    ASSUME TypeInv, PlaceInv, HonestInv, Grows, NEW c \in Calls, NEW label,
           pc[c] \notin Ended, Goto(c, label), label = "count" => c \in Custody'
    PROVE  HonestInv'
<1>1. /\ pc \in [Calls -> Labels] /\ ret[c] = "none" /\ ret' = ret
      /\ pc' = [pc EXCEPT ![c] = label]
  BY HonestByPayload DEF Goto, TypeInv, TypeOK
<1>2. c \in Payloads => HonestAbout(c)'
  BY <1>1, HonestStays
<1> QED BY <1>1, <1>2, HonestStep

LEMMA HonestInvInit == Init => HonestInv
BY DEF Init, HonestInv, FatesAsTold

LEMMA HonestInvStep == TypeInv /\ PlaceInv /\ HonestInv /\ [Next]_vars => HonestInv'
<1> SUFFICES ASSUME TypeInv, PlaceInv, HonestInv, [Next]_vars PROVE HonestInv'
  OBVIOUS
<1>g. Grows
  BY CustodyGrows
<1>t. /\ pc \in [Calls -> Labels] /\ ret \in [Calls -> Results]
      /\ queue \in Seq(Writes) /\ sendq \in Seq(Writes)
      /\ out \in Seq(Payloads) /\ drops \in Seq(Payloads)
      /\ Range(sendq) \subseteq Writes
  BY ElementsTyped DEF TypeInv, TypeOK
<1> USE DEF Ended
<1>1. ASSUME NEW c \in Calls, NEW label \in {"enqueue", "direct", "signal"}, Enter(c, label)
      PROVE  HonestInv'
  <2>1. CASE Return(c, "closed")
    BY <1>1, <1>g, <2>1, HonestRefusal
    DEF Enter, Return, BeforeSend, chanVars, workVars, sinkVars
  <2>2. CASE Goto(c, label)
    BY <1>1, <1>g, <2>2, HonestGoto DEF Enter
  <2> QED BY <1>1, <2>1, <2>2 DEF Enter
<1>2. ASSUME NEW w \in Writes, WriteSend(w) PROVE HonestInv'
  <2>1. w \in Custody'
    BY <1>2, <1>t, LogGrows DEF WriteSend, Custody, InFlight
  <2> QED BY <1>2, <1>g, <2>1, HonestGoto DEF WriteSend, AtSend
<1>3. ASSUME NEW w \in Writes, WriteCount(w) PROVE HonestInv'
  <2>1. w \in Custody' /\ w \notin Criticals
    BY <1>3, <1>g, HonestByPayload DEF WriteCount, HonestAbout, Grows
  <2>2. pc' = [pc EXCEPT ![w] = "done"] /\ ret' = [ret EXCEPT ![w] = "ok"]
    BY <1>3 DEF WriteCount, Return
  <2> QED BY <1>t, <1>g, <2>1, <2>2, HonestStep DEF HonestAbout
<1>4. ASSUME NEW w \in Writes, WritePanic(w) PROVE HonestInv'
  BY <1>4, <1>g, HonestRefusal DEF WritePanic, AtSend, BeforeSend, chanVars, workVars, sinkVars
<1>5. ASSUME NEW w \in Writes, WriteStopped(w) PROVE HonestInv'
  BY <1>5, <1>g, HonestRefusal DEF WriteStopped, Return, BeforeSend, chanVars, workVars, sinkVars
<1>6. ASSUME NEW w \in Writes,
             WritePark(w) \/ WriteFull(w) \/ WriteDiscard(w) \/ WriteNotifyDrop(w)
      PROVE  HonestInv'
  <2>1. /\ pc[w] \in {"enqueue", "discard", "notify"}
        /\ \E label \in {"parked", "discard", "direct", "reenqueue", "notify"} : Goto(w, label)
    BY <1>6 DEF WritePark, WriteFull, WriteDiscard, WriteNotifyDrop
  <2> QED BY <1>g, <2>1, HonestGoto
<1>7. ASSUME NEW w \in Writes, WriteOverflow(w) PROVE HonestInv'
  <2>1. w \in Dropped'
    BY <1>7, <1>t, LogGrows DEF WriteOverflow, Drop, Dropped
  <2>2. pc' = [pc EXCEPT ![w] = "done"] /\ ret' = [ret EXCEPT ![w] = "full"]
    BY <1>7 DEF WriteOverflow, Return
  <2> QED BY <1>t, <1>g, <2>1, <2>2, HonestStep DEF HonestAbout
<1>8. ASSUME NEW p \in Payloads, DirectWrite(p) PROVE HonestInv'
  <2>1. p \in Delivered' /\ p \in Custody'
    BY <1>8, <1>t, LogGrows DEF DirectWrite, Deliver, Delivered, Custody, Resolved
  <2>2. pc' = [pc EXCEPT ![p] = "done"] /\ ret' = [ret EXCEPT ![p] = "ok"]
    BY <1>8 DEF DirectWrite, Return
  <2> QED BY <1>t, <1>g, <2>1, <2>2, HonestStep DEF HonestAbout
<1>9. ASSUME NEW p \in Payloads, DirectFail(p) PROVE HonestInv'
  BY <1>9, <1>g, HonestRefusal DEF DirectFail, Return, BeforeSend, chanVars, workVars
<1>10. ASSUME NEW f \in Flushes, FlushStep(f) PROVE HonestInv'
  <2>1. CASE FlushSignal(f)
    BY <1>g, <2>1, HonestGoto DEF FlushSignal
  <2>2. CASE FlushDone(f) \/ FlushTimeout(f)
    <3>1. pc' = [pc EXCEPT ![f] = "done"] /\ \E r \in Results : ret' = [ret EXCEPT ![f] = r]
      BY <2>2 DEF FlushDone, FlushTimeout, Return, Results
    <3> QED BY <1>t, <1>g, <3>1, HonestStep
  <2> QED BY <1>10, <2>1, <2>2 DEF FlushStep
<1>11. ASSUME NEW c \in Closes, CloseBegin(c) \/ CloseChannel(c) \/ CloseJoin(c)
       PROVE  HonestInv'
  <2>1. CASE \E label \in {"stop", "join"} : Goto(c, label) /\ pc[c] \in {"idle", "closech"}
    BY <1>g, <2>1, HonestGoto
  <2>2. CASE \E r \in Results : Return(c, r)
    BY <1>t, <1>g, <2>2, HonestStep DEF Return
  <2> QED BY <1>11, <2>1, <2>2 DEF CloseBegin, CloseChannel, CloseJoin, Results
<1>12. ASSUME NEW c \in Closes, CloseStop(c) PROVE HonestInv'
  <2>1. /\ \A p \in Payloads : pc'[p] = IF p \in Range(sendq) THEN "done" ELSE pc[p]
        /\ \A d \in Calls : ret'[d] = IF d \in Range(sendq) THEN "closed" ELSE ret[d]
        /\ \A d \in Calls : ret'[d] # "none" => pc'[d] \in Ended
    BY <1>12, <1>t, HonestByPayload DEF CloseStop
  <2>2. Custody' = Custody
    BY <1>12, NothingMoves DEF CloseStop, workVars, sinkVars
  <2>3. ASSUME NEW p \in Payloads PROVE HonestAbout(p)'
    <3>1. CASE p \in Range(sendq)
      BY <1>t, <2>1, <2>2, <3>1 DEF PlaceInv, Custody, BeforeSend, HonestAbout
    <3>2. CASE p \notin Range(sendq)
      BY <1>g, <2>1, <2>2, <3>2, HonestStays, HonestByPayload DEF HonestAbout
    <3> QED BY <3>1, <3>2
  <2> QED BY <2>1, <2>3, HonestByPayload
<1>13. ASSUME WorkerReceive PROVE HonestInv'
  <2>1. CASE sendq = <<>>
    <3>1. UNCHANGED <<pc, ret>>
      BY <1>13, <2>1 DEF WorkerReceive
    <3> QED BY <1>g, <3>1, HonestStays, HonestByPayload DEF HonestAbout, Grows
  <2>2. CASE sendq # <<>>
    <3>1. Goto(Head(sendq), "count") /\ Head(sendq) \in Range(sendq) /\ Head(sendq) \in Writes
      BY <1>13, <1>t, <2>2, TakeFirst, TakeHead DEF WorkerReceive
    <3>2. Head(sendq) \in Custody'
      <4>1. queue' = Append(Tail(queue), Head(sendq)) /\ Tail(queue) \in Seq(Writes)
        BY <1>13, <1>t, <2>2, TakeHead DEF WorkerReceive
      <4>2. Range(queue') = Range(Tail(queue)) \cup {Head(sendq)}
        BY <4>1, LogGrows
      <4> QED BY <4>2 DEF Custody, InFlight
    <3> QED BY <1>g, <3>1, <3>2, HonestGoto DEF PlaceInv
  <2> QED BY <2>1, <2>2
<1>14. CASE UNCHANGED callVars
  BY <1>14, <1>g, HonestStays, HonestByPayload DEF callVars, HonestAbout, Grows
<1> QED
  BY <1>1, <1>2, <1>3, <1>4, <1>5, <1>6, <1>7, <1>8, <1>9, <1>10, <1>11, <1>12, <1>13, <1>14
  DEF Next, WriteBegin, WriteStep, CriticalBegin, DirectStep, DirectRetry, FlushBegin, CloseStep,
      Worker, WorkerTakeFlush, WorkerTakeStop, WorkerTakeClosed, WorkerFlushed, WorkerDrained,
      WorkerWrite, WorkerRetry, WorkerFail, vars

HIDE DEF HonestByParts

LEMMA HonestInvariant == Spec => []HonestInv
BY TypeInvInit, TypeInvStep, PlaceInvInit, PlaceInvStep, HonestInvInit, HonestInvStep, PTL DEF Spec

-----------------------------------------------------------------------------
(* What failed attempts may have left in the underlying writer. *)

\* How a step may move the call of one payload.
MovesOn(p) ==
    /\ pc'[p] \in BeforeSend \ {"direct"} => pc[p] \in BeforeSend \ {"direct"}
    /\ pc'[p] = "direct" => pc[p] \in BeforeSend
    /\ \/ ret'[p] = ret[p]
       \/ ret'[p] \in {"ok", "error", "timeout"}
       \/ pc[p] \in BeforeSend \ {"direct"}

\* A call never goes back before its send, and is refused only from there.
LEMMA CallMoves ==
    ASSUME TypeInv, PlaceInv, [Next]_vars, NEW p \in Payloads
    PROVE  MovesOn(p)
<1> USE DEF MovesOn, BeforeSend
<1>t. /\ pc \in [Calls -> Labels] /\ ret \in [Calls -> Results]
      /\ sendq \in Seq(Writes) /\ Range(sendq) \subseteq Writes
  BY ElementsTyped DEF TypeInv, TypeOK
<1>1. ASSUME NEW c \in Calls, NEW label \in {"enqueue", "direct", "signal"}, Enter(c, label)
      PROVE  MovesOn(p)
  BY <1>1, <1>t DEF Enter, Goto, Return
<1>2. ASSUME NEW w \in Writes, WriteStep(w) PROVE MovesOn(p)
  BY <1>2, <1>t
  DEF WriteStep, WriteSend, WriteCount, WritePanic, WriteStopped, WritePark, WriteOverflow,
      WriteFull, WriteDiscard, WriteNotifyDrop, AtSend, Rejects, Goto, Return
<1>3. ASSUME NEW q \in Payloads, DirectStep(q) PROVE MovesOn(p)
  BY <1>3, <1>t DEF DirectStep, DirectWrite, DirectRetry, DirectFail, callVars, Return
<1>4. ASSUME NEW f \in Flushes, FlushStep(f) PROVE MovesOn(p)
  BY <1>4, <1>t, CallsAssumption DEF FlushStep, FlushSignal, FlushDone, FlushTimeout, Goto, Return
<1>5. ASSUME NEW c \in Closes, CloseBegin(c) \/ CloseChannel(c) \/ CloseJoin(c)
      PROVE  MovesOn(p)
  BY <1>5, <1>t, CallsAssumption DEF CloseBegin, CloseChannel, CloseJoin, Goto, Return
<1>6. ASSUME NEW c \in Closes, CloseStop(c) PROVE MovesOn(p)
  <2>1. /\ pc'[p] = IF p \in Range(sendq) THEN "done" ELSE pc[p]
        /\ ret'[p] = IF p \in Range(sendq) THEN "closed" ELSE ret[p]
    BY <1>6 DEF CloseStop
  <2>2. p \in Range(sendq) => pc[p] = "parked"
    BY DEF PlaceInv
  <2> QED BY <2>1, <2>2
<1>7. ASSUME WorkerReceive PROVE MovesOn(p)
  <2>1. sendq # <<>> => Head(sendq) \in Writes
    BY <1>t, TakeHead
  <2>2. CASE sendq = <<>>
    BY <1>7, <2>2 DEF WorkerReceive
  <2>3. CASE sendq # <<>>
    BY <1>7, <1>t, <2>1, <2>3 DEF WorkerReceive, Goto
  <2> QED BY <2>2, <2>3
<1>8. CASE UNCHANGED callVars
  BY <1>8 DEF callVars
<1> QED
  BY <1>1, <1>2, <1>3, <1>4, <1>5, <1>6, <1>7, <1>8
  DEF Next, WriteBegin, CriticalBegin, FlushBegin, CloseStep,
      Worker, WorkerTakeFlush, WorkerTakeStop, WorkerTakeClosed, WorkerFlushed, WorkerDrained,
      WorkerWrite, WorkerRetry, WorkerFail, vars

LEMMA TraceInvInit == Init => TraceInv
BY DEF Init, TraceInv, NoSecondAttempt, RefusedUntouched

\* A step in which no attempt fails.
LEMMA TraceKept ==
    ASSUME TypeInv, PlaceInv, PlaceInv', TraceInv, [Next]_vars, UNCHANGED touched
    PROVE  TraceInv'
<1>g. Grows
  BY CustodyGrows
<1>m. touched \subseteq Payloads /\ \A p \in Payloads : MovesOn(p)
  BY CallMoves DEF TypeInv, TypeOK
<1>1. ASSUME Retries = 0, NEW p \in touched PROVE p \notin InFlight' \cup Delivered'
  <2>1. pc[p] \notin BeforeSend /\ p \notin InFlight \cup Delivered
    BY <1>1 DEF TraceInv, NoSecondAttempt, BeforeSend
  <2>2. p \in Custody' => p \in Dropped'
    BY <1>g, <2>1 DEF Grows, Custody, Resolved
  <2> QED BY <2>2 DEF PlaceInv, OnePlace, Custody, Resolved
<1>2. NoSecondAttempt'
  BY <1>1 DEF NoSecondAttempt, Retries
<1>3. \A p \in touched' : pc'[p] \notin BeforeSend \ {"direct"}
  BY <1>m DEF TraceInv, MovesOn
<1>4. Retries = 0 => \A p \in touched' : pc'[p] # "direct"
  BY <1>m DEF TraceInv, MovesOn
<1>5. RefusedUntouched'
  BY <1>m DEF TraceInv, RefusedUntouched, MovesOn
<1> QED BY <1>2, <1>3, <1>4, <1>5 DEF TraceInv, Retries, BeforeSend

\* One step per action in which an attempt fails; the others are TraceKept.
LEMMA TraceInvStep ==
    TypeInv /\ PlaceInv /\ PlaceInv' /\ HonestInv /\ TraceInv /\ [Next]_vars => TraceInv'
<1> SUFFICES ASSUME TypeInv, PlaceInv, PlaceInv', HonestInv, TraceInv, [Next]_vars
             PROVE  TraceInv'
  OBVIOUS
<1> USE DEF BeforeSend
<1>t. /\ pc \in [Calls -> Labels] /\ ret \in [Calls -> Results]
      /\ current \in Writes \cup {None} /\ touched \subseteq Payloads
      /\ attempt \in [Payloads -> 0 .. Retries]
  BY DEF TypeInv, TypeOK
<1>1. ASSUME NEW p \in Payloads, DirectRetry(p) PROVE TraceInv'
  <2>1. /\ UNCHANGED <<pc, ret>> /\ pc[p] = "direct" /\ ret[p] = "none"
        /\ touched' \subseteq touched \cup {p} /\ Retries # 0
    BY <1>1, <1>t, CapacityIsPositive
    DEF DirectRetry, RetryWrite, AttemptFails, callVars, HonestInv
  <2> QED BY <2>1 DEF TraceInv, NoSecondAttempt, RefusedUntouched, Retries
<1>2. ASSUME NEW p \in Payloads, DirectFail(p) PROVE TraceInv'
  <2>1. /\ pc[p] = "direct" /\ pc' = [pc EXCEPT ![p] = "done"]
        /\ ret' = [ret EXCEPT ![p] = "error"]
        /\ touched' \subseteq touched \cup {p}
    BY <1>2 DEF DirectFail, Return, GiveUp, AttemptFails
  <2>2. p \notin InFlight \cup Delivered
    BY <2>1 DEF PlaceInv, Resolved
  <2>3. InFlight' = InFlight /\ Delivered' = Delivered
    BY <1>2 DEF DirectFail, chanVars, InFlight, Held, Delivered
  <2>4. NoSecondAttempt'
    BY <2>1, <2>2, <2>3 DEF TraceInv, NoSecondAttempt, Retries
  <2> QED BY <1>t, <2>1, <2>4 DEF TraceInv, RefusedUntouched, Retries
<1>3. ASSUME WorkerRetry \/ WorkerFail PROVE TraceInv'
  <2>1. /\ current \in Writes /\ UNCHANGED <<pc, ret>>
        /\ touched' \subseteq touched \cup {current}
    BY <1>3, <1>t
    DEF WorkerRetry, WorkerFail, RetryWrite, GiveUp, AttemptFails, callVars
  <2>2. current \in InFlight
    BY <2>1, CallsAssumption DEF InFlight
  <2>3. pc[current] \notin BeforeSend
    BY <2>1, <2>2 DEF PlaceInv
  <2>4. ret[current] \notin {"full", "closed", "panic"}
    BY <2>1, <2>2 DEF HonestInv, FatesAsTold, PlaceInv, OnePlace, Resolved
  <2>5. NoSecondAttempt'
    <3>1. CASE WorkerRetry
      <4>1. Retries # 0
        BY <1>t, <2>1, <3>1, CapacityIsPositive DEF WorkerRetry, RetryWrite
      <4> QED BY <4>1 DEF NoSecondAttempt, Retries
    <3>2. CASE WorkerFail
      <4>1. current' = None /\ UNCHANGED <<queue, held, out>>
        BY <3>2 DEF WorkerFail, Drop, chanVars
      <4>2. Delivered' = Delivered /\ InFlight' = InFlight \ {current}
        BY <2>1, <4>1 DEF Delivered, InFlight, Held, PlaceInv, OnePlace
      <4>3. current \notin Delivered
        BY <2>2 DEF PlaceInv, OnePlace, Resolved
      <4> QED BY <2>1, <4>2, <4>3 DEF TraceInv, NoSecondAttempt, Retries
    <3> QED BY <1>3, <3>1, <3>2
  <2> QED BY <2>1, <2>3, <2>4, <2>5 DEF TraceInv, RefusedUntouched, Retries
<1>4. CASE UNCHANGED touched
  BY <1>4, TraceKept
<1> QED
  BY <1>1, <1>2, <1>3, <1>4
  DEF Next, WriteBegin, WriteStep, CriticalBegin, DirectStep, DirectWrite, FlushBegin, FlushStep,
      FlushSignal, FlushDone, FlushTimeout, CloseStep, CloseBegin, CloseStop, CloseChannel,
      CloseJoin, Enter, WriteSend, WriteCount, WritePanic, WriteStopped, WritePark, WriteOverflow,
      WriteFull, WriteDiscard, WriteNotifyDrop, Worker, WorkerReceive, WorkerTakeFlush,
      WorkerTakeStop, WorkerTakeClosed, WorkerFlushed, WorkerDrained, WorkerWrite, workVars, vars

\* No payload is buffered, confirmed or dropped twice, and none is both confirmed
\* and dropped, whatever the callers, the worker and Close do concurrently; nor
\* does a payload move before its call sends it, and only parked writers wait.
\* Without retries, no payload whose attempt failed is written again.
THEOREM FateInvariant == Spec => []FateInv
BY TypeInvInit, TypeInvStep, PlaceInvInit, PlaceInvStep, HonestInvInit, HonestInvStep,
   TraceInvInit, TraceInvStep, PTL DEF Spec, FateInv

\* The part of it that does not speak of where the callers are.
COROLLARY OneFate == Spec => []ExactlyOneFate
<1>1. FateInv => ExactlyOneFate
  BY DEF FateInv, PlaceInv, TraceInv, ExactlyOneFate
<1> QED
  BY <1>1, FateInvariant, PTL

\* What Write and WriteCritical return is true of the payload and stays true:
\* nil means that the writer has it or has seen to it, ErrBufferFull that it was
\* reported as dropped, any other error that it is and will be nowhere; no attempt
\* was made to write a refused payload.
THEOREM HonestReturns == Spec => []ReturnsAreHonest
<1>1. HonestInv /\ FateInv => ReturnsAreHonest
  BY DEF HonestInv, FateInv, TraceInv, ReturnsAreHonest
<1> QED
  BY <1>1, HonestInvariant, FateInvariant, PTL

-----------------------------------------------------------------------------
(* The counters add up. *)

\* How the number of writers at a place changes when one comes or goes.
LEMMA Comes ==
    ASSUME NEW S, NEW x, IsFiniteSet(S), x \notin S, NEW T, T = S \cup {x}
    PROVE  IsFiniteSet(T) /\ Cardinality(T) = Cardinality(S) + 1
BY FS_AddElement

LEMMA Goes ==
    ASSUME NEW S, NEW x, IsFiniteSet(S), x \in S, NEW T, T = S \ {x}
    PROVE  IsFiniteSet(T) /\ Cardinality(T) = Cardinality(S) - 1
BY FS_RemoveElement

LEMMA BalanceInvInit == Init => BalanceInv
<1> SUFFICES ASSUME Init PROVE BalanceInv
  OBVIOUS
<1>1. Uncounted = {} /\ Overflowed = {} /\ Discarding = {}
  BY DEF Init, Uncounted, Overflowed, Discarding
<1>2. Len(queue) = 0 /\ current = None /\ \A k \in Counters : cnt[k] = 0
  BY DEF Init
<1> QED BY <1>1, <1>2, FS_EmptySet DEF BalanceInv, CameIn, WentOn, Inside, InHand, Counters

\* A step that neither moves a payload nor counts.
LEMMA BalanceKept ==
    ASSUME BalanceInv, UNCHANGED <<queue, current, cnt>>,
           UNCHANGED <<Uncounted, Overflowed, Discarding>>
    PROVE  BalanceInv'
BY DEF BalanceInv, CameIn, WentOn, Inside, InHand

LEMMA BalanceInvStep ==
    TypeInv /\ PlaceInv /\ HonestInv /\ BalanceInv /\ [Next]_vars => BalanceInv'
<1> SUFFICES ASSUME TypeInv, PlaceInv, HonestInv, BalanceInv, [Next]_vars PROVE BalanceInv'
  OBVIOUS
<1>t. /\ pc \in [Calls -> Labels] /\ ret \in [Calls -> Results]
      /\ queue \in Seq(Writes) /\ Len(queue) \in Nat /\ sendq \in Seq(Writes)
      /\ Range(sendq) \subseteq Writes
      /\ current \in Writes \cup {None} /\ cnt \in [Counters -> Nat]
  BY ElementsTyped DEF TypeInv, TypeOK
<1>f. IsFiniteSet(Uncounted) /\ IsFiniteSet(Overflowed) /\ IsFiniteSet(Discarding)
  BY DEF BalanceInv
<1>i. /\ cnt["enqueued"] \in Nat /\ cnt["bypassed"] \in Nat
      /\ Cardinality(Uncounted) \in Nat /\ Cardinality(Overflowed) \in Nat
  BY <1>t, <1>f, FS_CardinalityType DEF Counters
<1>o. /\ cnt["processed"] \in Nat /\ cnt["dropped"] \in Nat
      /\ Len(queue) \in Nat /\ InHand \in Nat /\ Cardinality(Discarding) \in Nat
      /\ Inside \in Nat
  BY <1>t, <1>f, FS_CardinalityType DEF Counters, InHand, Inside
<1>n. \A c \in Calls : pc[c] \notin Ended => ret[c] = "none"
  BY DEF HonestInv, Ended
<1> USE DEF Ended
<1>1. ASSUME NEW w \in Writes, WriteSend(w) PROVE BalanceInv'
  <2>1. Len(queue') = Len(queue) + 1 /\ InHand' = InHand /\ cnt' = cnt
    BY <1>1, <1>t DEF WriteSend, workVars, sinkVars, InHand
  <2>2. w \notin Uncounted /\ Uncounted' = Uncounted \cup {w}
        /\ Overflowed' = Overflowed /\ Discarding' = Discarding
    BY <1>1, <1>t DEF WriteSend, AtSend, Goto, Uncounted, Overflowed, Discarding
  <2>3. IsFiniteSet(Uncounted') /\ Cardinality(Uncounted') = Cardinality(Uncounted) + 1
    BY <1>f, <2>2, Comes
  <2>4. CameIn' = CameIn + 1
    BY <1>i, <2>1, <2>2, <2>3 DEF CameIn
  <2>5. WentOn' = WentOn + 1
    <3>1. Inside' = Inside + 1
      BY <1>o, <2>1, <2>2 DEF Inside
    <3> QED BY <1>o, <2>1, <3>1 DEF WentOn
  <2> QED BY <1>f, <2>2, <2>3, <2>4, <2>5 DEF BalanceInv
<1>2. ASSUME NEW w \in Writes, WriteCount(w) PROVE BalanceInv'
  <2>1. /\ queue' = queue /\ InHand' = InHand /\ cnt'["enqueued"] = cnt["enqueued"] + 1
        /\ \A k \in {"bypassed", "processed", "dropped"} : cnt'[k] = cnt[k]
    BY <1>2, <1>t DEF WriteCount, Count, Counters, chanVars, workVars, InHand
  <2>2. w \in Uncounted /\ Uncounted' = Uncounted \ {w}
        /\ Overflowed' = Overflowed /\ Discarding' = Discarding
    BY <1>2, <1>t, <1>n DEF WriteCount, Return, Uncounted, Overflowed, Discarding
  <2>3. IsFiniteSet(Uncounted') /\ Cardinality(Uncounted') = Cardinality(Uncounted) - 1
    BY <1>f, <2>2, Goes
  <2>4. CameIn' = CameIn
    BY <1>i, <2>1, <2>2, <2>3 DEF CameIn
  <2>5. WentOn' = WentOn
    BY <1>o, <2>1, <2>2 DEF WentOn, Inside
  <2> QED BY <1>f, <2>2, <2>3, <2>4, <2>5 DEF BalanceInv
<1>3. ASSUME NEW w \in Writes, WriteOverflow(w) PROVE BalanceInv'
  <2>1. /\ queue' = queue /\ InHand' = InHand /\ cnt'["dropped"] = cnt["dropped"] + 1
        /\ \A k \in {"enqueued", "bypassed", "processed"} : cnt'[k] = cnt[k]
    BY <1>3, <1>t DEF WriteOverflow, Drop, Count, Counters, chanVars, workVars, InHand
  <2>2. w \notin Overflowed /\ Overflowed' = Overflowed \cup {w}
        /\ Uncounted' = Uncounted /\ Discarding' = Discarding
    BY <1>3, <1>t, <1>n DEF WriteOverflow, Rejects, Return, Uncounted, Overflowed, Discarding
  <2>3. IsFiniteSet(Overflowed') /\ Cardinality(Overflowed') = Cardinality(Overflowed) + 1
    BY <1>f, <2>2, Comes
  <2>4. CameIn' = CameIn + 1
    BY <1>i, <2>1, <2>2, <2>3 DEF CameIn
  <2>5. WentOn' = WentOn + 1
    <3>1. Inside' = Inside
      BY <1>o, <2>1, <2>2 DEF Inside
    <3> QED BY <1>o, <2>1, <3>1 DEF WentOn
  <2> QED BY <1>f, <2>2, <2>3, <2>4, <2>5 DEF BalanceInv
<1>4. ASSUME NEW w \in Writes, WriteDiscard(w), queue # <<>> PROVE BalanceInv'
  <2>1. Len(queue') = Len(queue) - 1 /\ InHand' = InHand /\ cnt' = cnt
    BY <1>4, <1>t, TakeHead DEF WriteDiscard, sinkVars, InHand
  <2>2. w \notin Discarding /\ Discarding' = Discarding \cup {w}
        /\ Uncounted' = Uncounted /\ Overflowed' = Overflowed
    BY <1>4, <1>t DEF WriteDiscard, Goto, Uncounted, Overflowed, Discarding
  <2>3. IsFiniteSet(Discarding') /\ Cardinality(Discarding') = Cardinality(Discarding) + 1
    BY <1>f, <2>2, Comes
  <2>4. CameIn' = CameIn
    BY <1>i, <2>1, <2>2 DEF CameIn
  <2>5. WentOn' = WentOn
    BY <1>o, <2>1, <2>2, <2>3 DEF WentOn, Inside
  <2> QED BY <1>f, <2>2, <2>3, <2>4, <2>5 DEF BalanceInv
<1>5. ASSUME NEW w \in Writes, WriteNotifyDrop(w) PROVE BalanceInv'
  <2>1. /\ queue' = queue /\ InHand' = InHand /\ cnt'["dropped"] = cnt["dropped"] + 1
        /\ \A k \in {"enqueued", "bypassed", "processed"} : cnt'[k] = cnt[k]
    BY <1>5, <1>t DEF WriteNotifyDrop, Drop, Count, Counters, chanVars, InHand
  <2>2. w \in Discarding /\ Discarding' = Discarding \ {w}
        /\ Uncounted' = Uncounted /\ Overflowed' = Overflowed
    BY <1>5, <1>t DEF WriteNotifyDrop, Goto, Uncounted, Overflowed, Discarding
  <2>3. IsFiniteSet(Discarding') /\ Cardinality(Discarding') = Cardinality(Discarding) - 1
    BY <1>f, <2>2, Goes
  <2>4. CameIn' = CameIn
    BY <1>i, <2>1, <2>2 DEF CameIn
  <2>5. WentOn' = WentOn
    <3>1. Inside' = Inside - 1
      BY <1>o, <2>1, <2>3 DEF Inside
    <3> QED BY <1>o, <2>1, <3>1 DEF WentOn
  <2> QED BY <1>f, <2>2, <2>3, <2>4, <2>5 DEF BalanceInv
<1>6. ASSUME NEW p \in Payloads, DirectWrite(p) PROVE BalanceInv'
  <2>1. /\ queue' = queue /\ InHand' = InHand
        /\ \A k \in {"bypassed", "processed"} : cnt'[k] = cnt[k] + 1
        /\ \A k \in {"enqueued", "dropped"} : cnt'[k] = cnt[k]
    BY <1>6, <1>t DEF DirectWrite, Deliver, Count, Counters, chanVars, workVars, InHand
  <2>2. Uncounted' = Uncounted /\ Overflowed' = Overflowed /\ Discarding' = Discarding
    BY <1>6, <1>t, <1>n DEF DirectWrite, Return, Uncounted, Overflowed, Discarding
  <2>3. CameIn' = CameIn + 1
    BY <1>i, <2>1, <2>2 DEF CameIn
  <2>4. WentOn' = WentOn + 1
    BY <1>o, <2>1, <2>2 DEF WentOn, Inside
  <2> QED BY <1>f, <2>2, <2>3, <2>4 DEF BalanceInv
<1>7. ASSUME WorkerReceive PROVE BalanceInv'
  <2>1. /\ InHand = 0 /\ InHand' = 1 /\ cnt' = cnt
        /\ Tail(queue) \in Seq(Writes) /\ Len(Tail(queue)) = Len(queue) - 1
    BY <1>7, <1>t, TakeHead DEF WorkerReceive, sinkVars, InHand
  <2>2. CASE sendq = <<>>
    <3>1. queue' = Tail(queue)
          /\ Uncounted' = Uncounted /\ Overflowed' = Overflowed /\ Discarding' = Discarding
      BY <1>7, <2>2 DEF WorkerReceive, Uncounted, Overflowed, Discarding
    <3>2. CameIn' = CameIn
      BY <1>i, <2>1, <3>1 DEF CameIn
    <3>3. WentOn' = WentOn
      BY <1>o, <2>1, <3>1 DEF WentOn, Inside
    <3> QED BY <1>f, <3>1, <3>2, <3>3 DEF BalanceInv
  <2>3. CASE sendq # <<>>
    <3> DEFINE s == Head(sendq)
    <3>1. s \in Writes /\ pc[s] = "parked"
      BY <1>t, <2>3, TakeFirst DEF PlaceInv
    <3>2. queue' = Append(Tail(queue), s) /\ pc' = [pc EXCEPT ![s] = "count"] /\ UNCHANGED ret
      BY <1>7, <2>3 DEF WorkerReceive, Goto
    <3>3. Len(queue') = Len(queue)
      BY <1>t, <2>1, <3>1, <3>2
    <3>4. s \notin Uncounted /\ Uncounted' = Uncounted \cup {s}
          /\ Overflowed' = Overflowed /\ Discarding' = Discarding
      BY <1>t, <3>1, <3>2 DEF Uncounted, Overflowed, Discarding
    <3>5. IsFiniteSet(Uncounted') /\ Cardinality(Uncounted') = Cardinality(Uncounted) + 1
      BY <1>f, <3>4, Comes
    <3>6. CameIn' = CameIn + 1
      <4>1. /\ Cardinality(Uncounted') = Cardinality(Uncounted) + 1
            /\ Cardinality(Overflowed') = Cardinality(Overflowed)
            /\ cnt'["enqueued"] = cnt["enqueued"] /\ cnt'["bypassed"] = cnt["bypassed"]
        BY <2>1, <3>4, <3>5
      <4> QED BY <1>i, <4>1 DEF CameIn
    <3>7. WentOn' = WentOn + 1
      BY <1>o, <2>1, <3>3, <3>4 DEF WentOn, Inside
    <3> QED BY <1>f, <3>4, <3>5, <3>6, <3>7 DEF BalanceInv
  <2> QED BY <2>2, <2>3
<1>8. ASSUME WorkerWrite \/ WorkerFail PROVE BalanceInv'
  <2>1. /\ queue' = queue /\ InHand = 1 /\ InHand' = 0
        /\ Uncounted' = Uncounted /\ Overflowed' = Overflowed /\ Discarding' = Discarding
    BY <1>8
    DEF WorkerWrite, WorkerFail, callVars, chanVars, InHand, Uncounted, Overflowed, Discarding
  <2>2. /\ \A k \in {"enqueued", "bypassed"} : cnt'[k] = cnt[k]
        /\ \/ cnt'["processed"] = cnt["processed"] + 1 /\ cnt'["dropped"] = cnt["dropped"]
           \/ cnt'["processed"] = cnt["processed"] /\ cnt'["dropped"] = cnt["dropped"] + 1
    BY <1>8, <1>t DEF WorkerWrite, WorkerFail, Deliver, Drop, Count, Counters
  <2>3. CameIn' = CameIn
    BY <1>i, <2>1, <2>2 DEF CameIn
  <2>4. WentOn' = WentOn
    BY <1>o, <2>1, <2>2 DEF WentOn, Inside
  <2> QED BY <1>f, <2>1, <2>3, <2>4 DEF BalanceInv
<1>9. ASSUME NEW p \in Payloads, DirectRetry(p) \/ DirectFail(p) PROVE BalanceInv'
  <2>1. /\ queue' = queue /\ InHand' = InHand
        /\ \A k \in {"enqueued", "bypassed", "processed", "dropped"} : cnt'[k] = cnt[k]
    BY <1>9, <1>t DEF DirectRetry, DirectFail, RetryWrite, Count, Counters, chanVars, workVars, InHand
  <2>2. Uncounted' = Uncounted /\ Overflowed' = Overflowed /\ Discarding' = Discarding
    BY <1>9, <1>t, <1>n
    DEF DirectRetry, DirectFail, Return, callVars, Uncounted, Overflowed, Discarding
  <2> QED BY <1>f, <2>1, <2>2 DEF BalanceInv, CameIn, WentOn, Inside
<1>10. ASSUME WorkerRetry PROVE BalanceInv'
  <2>1. /\ queue' = queue /\ InHand' = InHand
        /\ \A k \in {"enqueued", "bypassed", "processed", "dropped"} : cnt'[k] = cnt[k]
    BY <1>10, <1>t DEF WorkerRetry, RetryWrite, Count, Counters, chanVars, InHand
  <2>2. Uncounted' = Uncounted /\ Overflowed' = Overflowed /\ Discarding' = Discarding
    BY <1>10 DEF WorkerRetry, callVars, Uncounted, Overflowed, Discarding
  <2> QED BY <1>f, <2>1, <2>2 DEF BalanceInv, CameIn, WentOn, Inside
<1>11. ASSUME NEW c \in Calls, NEW label \in {"enqueue", "direct", "signal"}, Enter(c, label)
       PROVE  BalanceInv'
  <2>1. UNCHANGED <<Uncounted, Overflowed, Discarding>>
    BY <1>11, <1>t, <1>n DEF Enter, Goto, Return, Uncounted, Overflowed, Discarding
  <2> QED BY <1>11, <2>1, BalanceKept DEF Enter, chanVars, workVars, sinkVars
<1>12. ASSUME NEW w \in Writes,
              WritePanic(w) \/ WriteStopped(w) \/ WritePark(w) \/ WriteFull(w)
                \/ (WriteDiscard(w) /\ queue = <<>>)
       PROVE  BalanceInv'
  <2>1. UNCHANGED <<Uncounted, Overflowed, Discarding>>
    BY <1>12, <1>t, <1>n
    DEF WritePanic, AtSend, WriteStopped, WritePark, WriteFull, WriteDiscard, Goto, Return,
        Uncounted, Overflowed, Discarding
  <2> QED BY <1>12, <2>1, BalanceKept
    DEF WritePanic, WriteStopped, WritePark, WriteFull, WriteDiscard, chanVars, workVars, sinkVars
<1>13. ASSUME NEW c \in Flushes \cup Closes,
              FlushStep(c) \/ CloseBegin(c) \/ CloseChannel(c) \/ CloseJoin(c)
       PROVE  BalanceInv'
  <2>1. \A w \in Writes : pc'[w] = pc[w] /\ ret'[w] = ret[w]
    BY <1>13, <1>t
    DEF FlushStep, FlushSignal, FlushDone, FlushTimeout, CloseBegin, CloseChannel, CloseJoin,
        Goto, Return
  <2>2. UNCHANGED <<Uncounted, Overflowed, Discarding>>
    BY <2>1 DEF Uncounted, Overflowed, Discarding
  <2> QED BY <1>13, <2>2, BalanceKept
    DEF FlushStep, FlushSignal, FlushDone, FlushTimeout, CloseBegin, CloseChannel, CloseJoin,
        chanVars, workVars, sinkVars
<1>14. ASSUME NEW c \in Closes, CloseStop(c) PROVE BalanceInv'
  <2>1. \A w \in Writes :
           \/ pc'[w] = pc[w] /\ ret'[w] = ret[w]
           \/ pc[w] = "parked" /\ pc'[w] = "done" /\ ret'[w] = "closed"
    BY <1>14, <1>t DEF CloseStop, PlaceInv
  <2>2. UNCHANGED <<Uncounted, Overflowed, Discarding>>
    BY <1>n, <2>1 DEF Uncounted, Overflowed, Discarding
  <2> QED BY <1>14, <2>2, BalanceKept DEF CloseStop, workVars, sinkVars
<1>15. CASE UNCHANGED <<queue, current, cnt, pc, ret>>
  BY <1>15, BalanceKept DEF Uncounted, Overflowed, Discarding
<1> QED
  BY <1>1, <1>2, <1>3, <1>4, <1>5, <1>6, <1>7, <1>8, <1>9, <1>10, <1>11, <1>12, <1>13, <1>14, <1>15
  DEF Next, WriteBegin, WriteStep, CriticalBegin, DirectStep, FlushBegin, CloseStep, Worker,
      WorkerTakeFlush, WorkerTakeStop, WorkerTakeClosed, WorkerFlushed, WorkerDrained, vars,
      callVars, chanVars, workVars, sinkVars

\* When the writer idles, what came in is what went out and what is left in the
\* channel, though each counter moves in a step of its own after the payload it
\* counts.
THEOREM MetricsAddUp == Spec => []MetricsBalance
<1>1. TypeInv /\ BalanceInv => MetricsBalance
  <2> SUFFICES ASSUME TypeInv, BalanceInv, Quiescent
               PROVE  cnt["enqueued"] + cnt["bypassed"] + Cardinality(Overflowed)
                        = cnt["processed"] + cnt["dropped"] + Len(queue)
    BY DEF MetricsBalance
  <2>1. Uncounted = {} /\ Discarding = {} /\ current = None
    BY DEF Quiescent, Uncounted, Discarding
  <2>2. Cardinality(Uncounted) = 0 /\ Cardinality(Discarding) = 0
    BY <2>1, FS_EmptySet
  <2>3. /\ \A k \in {"enqueued", "bypassed", "processed", "dropped"} : cnt[k] \in Nat
        /\ Len(queue) \in Nat /\ Cardinality(Overflowed) \in Nat
    BY FS_CardinalityType DEF TypeInv, TypeOK, Counters, BalanceInv
  <2>4. CameIn = cnt["enqueued"] + cnt["bypassed"] + Cardinality(Overflowed)
    BY <2>2, <2>3 DEF CameIn
  <2>5. WentOn = cnt["processed"] + cnt["dropped"] + Len(queue)
    BY <2>1, <2>2, <2>3 DEF WentOn, Inside, InHand
  <2> QED BY <2>4, <2>5 DEF BalanceInv
<1> QED
  BY <1>1, TypeInvInit, TypeInvStep, PlaceInvInit, PlaceInvStep, HonestInvInit, HonestInvStep,
     BalanceInvInit, BalanceInvStep, PTL DEF Spec

-----------------------------------------------------------------------------
(* What was acknowledged before a call began. *)

\* Its history variable is set when the call begins, and never again.
BeginsOnce ==
    \A c \in Calls :
        \/ before'[c] = before[c] /\ (pc'[c] = "idle" => pc[c] = "idle")
        \/ pc[c] = "idle" /\ pc'[c] # "idle" /\ before'[c] = Acked

LEMMA CallsBeginOnce == TypeInv /\ [Next]_vars => BeginsOnce
<1> SUFFICES ASSUME TypeInv, [Next]_vars PROVE BeginsOnce
  OBVIOUS
<1>t. /\ pc \in [Calls -> Labels] /\ before \in [Calls -> SUBSET Payloads]
      /\ sendq \in Seq(Writes)
  BY DEF TypeInv, TypeOK
<1>1. ASSUME NEW c \in Calls, NEW label \in {"enqueue", "direct", "signal"}, Enter(c, label)
      PROVE  BeginsOnce
  BY <1>1, <1>t DEF Enter, Goto, Return, BeginsOnce
<1>2. ASSUME NEW w \in Writes, WriteStep(w) PROVE BeginsOnce
  BY <1>2, <1>t
  DEF WriteStep, WriteSend, WriteCount, WritePanic, WriteStopped, WritePark, WriteOverflow,
      WriteFull, WriteDiscard, WriteNotifyDrop, Goto, Return, BeginsOnce
<1>3. ASSUME NEW p \in Payloads, DirectStep(p) PROVE BeginsOnce
  BY <1>3, <1>t
  DEF DirectStep, DirectWrite, DirectRetry, DirectFail, Return, callVars, BeginsOnce
<1>4. ASSUME NEW f \in Flushes, FlushStep(f) PROVE BeginsOnce
  BY <1>4, <1>t
  DEF FlushStep, FlushSignal, FlushDone, FlushTimeout, Goto, Return, BeginsOnce
<1>5. ASSUME NEW c \in Closes, CloseBegin(c) PROVE BeginsOnce
  BY <1>5, <1>t DEF CloseBegin, Goto, Return, BeginsOnce
<1>6. ASSUME NEW c \in Closes, CloseStep(c) PROVE BeginsOnce
  BY <1>6, <1>t
  DEF CloseStep, CloseStop, CloseChannel, CloseJoin, Goto, Return, BeginsOnce
<1>7. CASE WorkerReceive
  <2>1. sendq # <<>> => Head(sendq) \in Calls
    BY <1>t
  <2> QED BY <1>7, <1>t, <2>1 DEF WorkerReceive, Goto, BeginsOnce
<1>8. CASE UNCHANGED callVars
  BY <1>8 DEF callVars, BeginsOnce
<1> QED
  BY <1>1, <1>2, <1>3, <1>4, <1>5, <1>6, <1>7, <1>8
  DEF Next, WriteBegin, CriticalBegin, FlushBegin, Worker, WorkerTakeFlush, WorkerTakeStop,
      WorkerTakeClosed, WorkerFlushed, WorkerDrained, WorkerWrite, WorkerRetry, WorkerFail, vars

\* A call knows of payloads that the writer has taken charge of, not of itself.
Known ==
    /\ \A c \in Calls : before[c] \subseteq Custody \ {c}
    /\ \A c \in Calls : pc[c] = "idle" => before[c] = {}

LEMMA KnownInit == Init => Known
BY DEF Init, Known

LEMMA KnownStep ==
    TypeInv /\ PlaceInv /\ HonestInv /\ Known /\ [Next]_vars => Known'
<1> SUFFICES ASSUME TypeInv, PlaceInv, HonestInv, Known, [Next]_vars,
                    NEW c \in Calls
             PROVE  /\ before'[c] \subseteq Custody' \ {c}
                    /\ pc'[c] = "idle" => before'[c] = {}
  BY DEF Known
<1>1. BeginsOnce /\ Grows
  BY CallsBeginOnce, CustodyGrows
<1>2. CASE before'[c] = before[c] /\ (pc'[c] = "idle" => pc[c] = "idle")
  BY <1>1, <1>2 DEF Known, Grows
<1>3. CASE pc[c] = "idle" /\ pc'[c] # "idle" /\ before'[c] = Acked
  <2>1. Acked \subseteq Custody
    BY DEF Acked, HonestInv, FatesAsTold, Custody
  <2>2. c \notin Acked
    BY <1>3 DEF Acked, HonestInv
  <2> QED BY <1>1, <1>3, <2>1, <2>2 DEF Grows
<1> QED BY <1>1, <1>2, <1>3 DEF BeginsOnce

-----------------------------------------------------------------------------
(* Flush and Close are barriers. *)

LEMMA BarrierInvInit == Init => BarrierInv
BY DEF Init, BarrierInv, BarrierPromise, Closing, Range

\* Nothing the writer has taken charge of is still on its way when the channel
\* and the worker's hands are empty.
LEMMA EmptyHanded ==
    ASSUME queue = <<>>, current = None
    PROVE  Custody = Settled
BY DEF Custody, Settled, InFlight, Range

\* What a barrier that has begun waits for stays settled.
LEMMA SettledStays ==
    ASSUME BeginsOnce, Grows, NEW b \in Flushes \cup Closes,
           pc[b] # "idle", before[b] \subseteq Settled
    PROVE  before'[b] \subseteq Settled'
BY DEF BeginsOnce, Grows

\* A step that neither completes a barrier nor moves the worker to another loop.
LEMMA BarrierKept ==
    ASSUME TypeInv, HonestInv, BarrierInv, BeginsOnce, Grows,
           UNCHANGED <<signalled, flushQ, flushing, wmode>>,
           closed => closed', stopped' \/ chClosed' => closed',
           Closing' \subseteq Closing,
           \A b \in Flushes \cup Closes : ret'[b] \in {ret[b], "closed", "timeout"}
    PROVE  BarrierInv'
<1>1. \A f \in signalled \cup Range(flushQ) \cup ({flushing} \ {None}) : f \in Flushes
  BY ElementsTyped DEF TypeInv, TypeOK
<1>2. \A f \in signalled' : before'[f] \subseteq Settled'
  BY <1>1, SettledStays DEF BarrierInv, Settled
<1>3. wmode' = "exited" => \A c \in Closing' : before'[c] \subseteq Settled'
  BY SettledStays DEF BarrierInv, Settled, Closing
<1>4. Closing' # {} \/ stopped' \/ chClosed' \/ wmode' \in {"drain", "exited"} => closed'
  BY DEF BarrierInv
<1>5. \A f \in signalled' \cup Range(flushQ') \cup ({flushing'} \ {None}) : pc'[f] # "idle"
  BY <1>1 DEF BarrierInv, BeginsOnce
<1>6. ASSUME NEW b \in Flushes \cup Closes, ret'[b] \in {"ok", "error"}
      PROVE  before'[b] \subseteq Settled'
  <2>1. ret[b] \in {"ok", "error"} /\ pc[b] # "idle"
    BY <1>6 DEF HonestInv
  <2> QED BY <2>1, SettledStays DEF BarrierInv, BarrierPromise, Settled
<1> QED BY <1>2, <1>3, <1>4, <1>5, <1>6 DEF BarrierInv, BarrierPromise, Settled

LEMMA BarrierInvStep ==
    TypeInv /\ PlaceInv /\ HonestInv /\ Known /\ BarrierInv /\ [Next]_vars => BarrierInv'
<1> SUFFICES ASSUME TypeInv, PlaceInv, HonestInv, Known, BarrierInv, [Next]_vars
             PROVE  BarrierInv'
  OBVIOUS
<1>g. BeginsOnce /\ Grows
  BY CallsBeginOnce, CustodyGrows
<1>t. /\ pc \in [Calls -> Labels] /\ ret \in [Calls -> Results]
      /\ sendq \in Seq(Writes) /\ Range(sendq) \subseteq Writes
      /\ flushQ \in Seq(Flushes) /\ Range(flushQ) \subseteq Flushes
      /\ signalled \subseteq Flushes /\ flushing \in Flushes \cup {None}
  BY ElementsTyped DEF TypeInv, TypeOK
<1>1. ASSUME NEW c \in Calls, NEW label \in {"enqueue", "direct", "signal"}, Enter(c, label)
      PROVE  BarrierInv'
  <2>1. /\ UNCHANGED <<signalled, flushQ, flushing, wmode, closed, stopped, chClosed>>
        /\ \A b \in Flushes \cup Closes : ret'[b] \in {ret[b], "closed"}
    BY <1>1, <1>t DEF Enter, Goto, Return, closeVars, flushVars
  <2>2. Closing' \subseteq Closing
    BY <1>1, <1>t DEF Enter, Goto, Return, Closing
  <2> QED BY <1>g, <2>1, <2>2, BarrierKept DEF BarrierInv
<1>2. ASSUME NEW w \in Writes, WriteStep(w) PROVE BarrierInv'
  <2>1. \A b \in Flushes \cup Closes : pc'[b] = pc[b] /\ ret'[b] = ret[b]
    BY <1>2, <1>t
    DEF WriteStep, WriteSend, WriteCount, WritePanic, WriteStopped, WritePark, WriteOverflow,
        WriteFull, WriteDiscard, WriteNotifyDrop, Goto, Return
  <2>2. UNCHANGED <<signalled, flushQ, flushing, wmode, closed, stopped, chClosed>>
    BY <1>2
    DEF WriteStep, WriteSend, WriteCount, WritePanic, WriteStopped, WritePark, WriteOverflow,
        WriteFull, WriteDiscard, WriteNotifyDrop, closeVars, flushVars
  <2> QED BY <1>g, <2>1, <2>2, BarrierKept DEF BarrierInv, Closing
<1>3. ASSUME NEW p \in Payloads, DirectStep(p) PROVE BarrierInv'
  <2>1. \A b \in Flushes \cup Closes : pc'[b] = pc[b] /\ ret'[b] = ret[b]
    BY <1>3, <1>t DEF DirectStep, DirectWrite, DirectRetry, DirectFail, Return, callVars
  <2>2. UNCHANGED <<signalled, flushQ, flushing, wmode, closed, stopped, chClosed>>
    BY <1>3 DEF DirectStep, DirectWrite, DirectRetry, DirectFail, closeVars, flushVars
  <2> QED BY <1>g, <2>1, <2>2, BarrierKept DEF BarrierInv, Closing
<1>4. ASSUME NEW f \in Flushes, FlushSignal(f) PROVE BarrierInv'
  <2>1. /\ UNCHANGED <<signalled, flushing, wmode, closed, stopped, chClosed, ret>>
        /\ \A c \in Closes : pc'[c] = pc[c]
        /\ pc'[f] # "idle"
    BY <1>4, <1>t DEF FlushSignal, Goto, closeVars
  <2>2. Range(flushQ') = Range(flushQ) \cup {f}
    BY <1>4, <1>t, LogGrows DEF FlushSignal
  <2>3. Closing' = Closing
    BY <2>1 DEF Closing
  <2>4. \A b \in Flushes \cup Closes :
           pc[b] # "idle" /\ before[b] \subseteq Settled => before'[b] \subseteq Settled'
    BY <1>g, SettledStays
  <2>5. \A b \in Flushes \cup Closes : pc[b] # "idle" => pc'[b] # "idle"
    BY <1>g DEF BeginsOnce
  <2>6. \A b \in Flushes \cup Closes : ret[b] # "none" => pc[b] # "idle"
    BY DEF HonestInv
  <2> QED BY <1>t, <2>1, <2>2, <2>3, <2>4, <2>5, <2>6
    DEF BarrierInv, BarrierPromise, Settled, Closing
<1>5. ASSUME NEW f \in Flushes, FlushDone(f) PROVE BarrierInv'
  <2>1. /\ UNCHANGED <<signalled, flushQ, flushing, wmode, closed, stopped, chClosed>>
        /\ \A c \in Closes : pc'[c] = pc[c]
        /\ \A b \in (Flushes \cup Closes) \ {f} : ret'[b] = ret[b]
        /\ f \in signalled
    BY <1>5, <1>t DEF FlushDone, Return, closeVars, flushVars
  <2>2. Closing' = Closing
    BY <2>1 DEF Closing
  <2>3. \A b \in Flushes \cup Closes :
           pc[b] # "idle" /\ before[b] \subseteq Settled => before'[b] \subseteq Settled'
    BY <1>g, SettledStays
  <2>4. \A b \in Flushes \cup Closes : pc[b] # "idle" => pc'[b] # "idle"
    BY <1>g DEF BeginsOnce
  <2>5. \A b \in Flushes \cup Closes : ret[b] # "none" => pc[b] # "idle"
    BY DEF HonestInv
  <2> QED BY <1>t, <2>1, <2>2, <2>3, <2>4, <2>5
    DEF BarrierInv, BarrierPromise, Settled, Closing
<1>6. ASSUME NEW f \in Flushes, FlushTimeout(f) PROVE BarrierInv'
  <2>1. /\ UNCHANGED <<signalled, flushQ, flushing, wmode, closed, stopped, chClosed>>
        /\ \A b \in Flushes \cup Closes : ret'[b] \in {ret[b], "timeout"}
        /\ \A c \in Closes : pc'[c] = pc[c]
    BY <1>6, <1>t DEF FlushTimeout, Return, closeVars, flushVars
  <2> QED BY <1>g, <2>1, BarrierKept DEF BarrierInv, Closing
<1>7. ASSUME NEW c \in Closes, CloseBegin(c) PROVE BarrierInv'
  <2>1. CASE closed
    <3>1. /\ UNCHANGED <<signalled, flushQ, flushing, wmode, closed, stopped, chClosed>>
          /\ \A b \in Flushes \cup Closes : ret'[b] \in {ret[b], "closed"}
          /\ Closing' \subseteq Closing
      BY <1>7, <1>t, <2>1 DEF CloseBegin, Return, Closing, flushVars
    <3> QED BY <1>g, <3>1, BarrierKept DEF BarrierInv
  <2>2. CASE ~closed
    <3>1. /\ UNCHANGED <<signalled, flushQ, flushing, wmode, stopped, chClosed, ret>>
          /\ closed'
      BY <1>7, <2>2 DEF CloseBegin, Goto, flushVars
    <3>2. wmode' # "exited"
      BY <2>2, <3>1 DEF BarrierInv
    <3>3. \A b \in Flushes \cup Closes :
             pc[b] # "idle" /\ before[b] \subseteq Settled => before'[b] \subseteq Settled'
      BY <1>g, SettledStays
    <3>4. \A b \in Flushes \cup Closes : pc[b] # "idle" => pc'[b] # "idle"
      BY <1>g DEF BeginsOnce
    <3>5. \A b \in Flushes \cup Closes : ret[b] # "none" => pc[b] # "idle"
      BY DEF HonestInv
    <3> QED BY <1>t, <3>1, <3>2, <3>3, <3>4, <3>5 DEF BarrierInv, BarrierPromise, Settled
  <2> QED BY <2>1, <2>2
<1>8. ASSUME NEW c \in Closes, CloseStop(c) \/ CloseChannel(c) PROVE BarrierInv'
  <2>1. /\ UNCHANGED <<signalled, flushQ, flushing, wmode, closed>>
        /\ \A b \in Flushes \cup Closes : ret'[b] \in {ret[b], "closed"}
        /\ c \in Closing /\ Closing' \subseteq Closing
    BY <1>8, <1>t DEF CloseStop, CloseChannel, Goto, flushVars, Closing
  <2>2. closed
    BY <2>1 DEF BarrierInv
  <2> QED BY <1>g, <2>1, <2>2, BarrierKept
<1>9. ASSUME NEW c \in Closes, CloseJoin(c) PROVE BarrierInv'
  <2>1. /\ UNCHANGED <<signalled, flushQ, flushing, wmode, closed, stopped, chClosed>>
        /\ \A b \in (Flushes \cup Closes) \ {c} : ret'[b] = ret[b]
        /\ c \in Closing /\ Closing' \subseteq Closing /\ wmode = "exited" /\ pc[c] # "idle"
    BY <1>9, <1>t DEF CloseJoin, Return, flushVars, Closing
  <2>3. \A b \in Flushes \cup Closes :
           pc[b] # "idle" /\ before[b] \subseteq Settled => before'[b] \subseteq Settled'
    BY <1>g, SettledStays
  <2>4. \A b \in Flushes \cup Closes : pc[b] # "idle" => pc'[b] # "idle"
    BY <1>g DEF BeginsOnce
  <2>5. \A b \in Flushes \cup Closes : ret[b] # "none" => pc[b] # "idle"
    BY DEF HonestInv
  <2> QED BY <1>t, <2>1, <2>3, <2>4, <2>5 DEF BarrierInv, BarrierPromise, Settled, Closing
<1>10. ASSUME WorkerReceive \/ WorkerWrite \/ WorkerRetry \/ WorkerFail PROVE BarrierInv'
  <2>1. sendq # <<>> => Head(sendq) \in Writes
    BY <1>t
  <2>2. /\ UNCHANGED <<signalled, flushQ, flushing, wmode, closed, stopped, chClosed, ret>>
        /\ \A c \in Closes : pc'[c] = pc[c]
    BY <1>10, <1>t, <2>1
    DEF WorkerReceive, WorkerWrite, WorkerRetry, WorkerFail, Goto, callVars, closeVars, flushVars
  <2> QED BY <1>g, <2>2, BarrierKept DEF BarrierInv, Closing
<1>11. ASSUME WorkerTakeFlush PROVE BarrierInv'
  <2>1. /\ UNCHANGED <<signalled, closed, stopped, chClosed, pc, ret, before>>
        /\ flushing' = Head(flushQ) /\ flushQ' = Tail(flushQ) /\ flushQ # <<>>
        /\ wmode' = "flush"
    BY <1>11 DEF WorkerTakeFlush, callVars, closeVars
  <2>2. Range(flushQ) = {Head(flushQ)} \cup Range(flushQ')
    BY <1>t, <2>1, TakeFirst
  <2> QED BY <1>g, <2>1, <2>2 DEF BarrierInv, BarrierPromise, Closing, Grows, Settled
<1>12. ASSUME WorkerTakeStop PROVE BarrierInv'
  BY <1>12, <1>g
  DEF WorkerTakeStop, BarrierInv, BarrierPromise, Closing, Grows, Settled, callVars, closeVars
<1>13. ASSUME WorkerTakeClosed \/ WorkerDrained PROVE BarrierInv'
  <2>1. /\ UNCHANGED <<signalled, flushQ, flushing, closed, stopped, chClosed, pc, ret, before>>
        /\ wmode' = "exited" /\ queue = <<>> /\ current = None
        /\ chClosed \/ wmode = "drain"
    BY <1>13 DEF WorkerTakeClosed, WorkerDrained, WorkerFree, callVars, closeVars
  <2>2. \A c \in Calls : before[c] \subseteq Settled
    BY <2>1, EmptyHanded DEF Known
  <2> QED BY <1>g, <2>1, <2>2 DEF BarrierInv, BarrierPromise, Closing, Grows, Settled
<1>14. ASSUME WorkerFlushed PROVE BarrierInv'
  <2>1. /\ UNCHANGED <<flushQ, closed, stopped, chClosed, pc, ret, before>>
        /\ wmode' = "select" /\ queue = <<>> /\ current = None
        /\ flushing # None /\ signalled' = signalled \cup {flushing} /\ flushing' = None
    BY <1>14 DEF WorkerFlushed, WorkerFree, callVars, closeVars, TypeInv
  <2>2. \A c \in Calls : before[c] \subseteq Settled
    BY <2>1, EmptyHanded DEF Known
  <2> QED BY <1>t, <1>g, <2>1, <2>2 DEF BarrierInv, BarrierPromise, Closing, Grows, Settled
<1>15. CASE UNCHANGED vars
  BY <1>15, <1>g
  DEF vars, BarrierInv, BarrierPromise, Closing, Grows, Settled, callVars, closeVars, flushVars
<1> QED
  BY <1>1, <1>2, <1>3, <1>4, <1>5, <1>6, <1>7, <1>8, <1>9, <1>10, <1>11, <1>12, <1>13, <1>14, <1>15
  DEF Next, WriteBegin, CriticalBegin, FlushBegin, FlushStep, CloseStep, Worker

\* A Flush or a Close that reports success, or the failure of a Sync, has waited
\* for every payload acknowledged before it began: none is in the channel or in
\* the worker's hands.
THEOREM BarriersHold == Spec => []BarrierPromise
<1>1. BarrierInv => BarrierPromise
  BY DEF BarrierInv
<1> QED
  BY <1>1, TypeInvInit, TypeInvStep, PlaceInvInit, PlaceInvStep, HonestInvInit, HonestInvStep,
     KnownInit, KnownStep, BarrierInvInit, BarrierInvStep, PTL DEF Spec

-----------------------------------------------------------------------------
(* The log keeps the order that callers can observe. *)

\* No element of s that the call of a later one of K knew of comes after it.
InOrder(s, B, K) ==
    \A i, j \in DOMAIN s : s[j] \in K /\ s[i] \in B[s[j]] => i < j

LEMMA OrderAppend ==
    ASSUME NEW S, NEW s \in Seq(S), NEW e \in S, NEW B, NEW K, InOrder(s, B, K),
           \A x \in Range(s) \cap K : e \notin B[x],
           e \in K => e \notin B[e]
    PROVE  InOrder(Append(s, e), B, K)
<1>1. /\ DOMAIN Append(s, e) = 1 .. Len(s) + 1 /\ DOMAIN s = 1 .. Len(s)
      /\ Len(s) \in Nat
      /\ \A i \in 1 .. Len(s) : Append(s, e)[i] = s[i]
      /\ Append(s, e)[Len(s) + 1] = e
  BY AppendProperties, LenProperties
<1>2. SUFFICES ASSUME NEW i \in 1 .. Len(s) + 1, NEW j \in 1 .. Len(s) + 1,
                      Append(s, e)[j] \in K, Append(s, e)[i] \in B[Append(s, e)[j]]
               PROVE  i < j
  BY <1>1 DEF InOrder
<1>3. CASE i \in 1 .. Len(s) /\ j \in 1 .. Len(s)
  BY <1>1, <1>2, <1>3 DEF InOrder
<1>4. CASE i = Len(s) + 1 /\ j \in 1 .. Len(s)
  BY <1>1, <1>2, <1>4 DEF Range
<1>5. CASE i \in 1 .. Len(s) /\ j = Len(s) + 1
  BY <1>1, <1>5
<1>6. CASE i = Len(s) + 1 /\ j = Len(s) + 1
  BY <1>1, <1>2, <1>6
<1> QED BY <1>1, <1>3, <1>4, <1>5, <1>6

LEMMA OrderTail ==
    ASSUME NEW S, NEW s \in Seq(S), s # <<>>, NEW B, NEW K, InOrder(s, B, K)
    PROVE  /\ InOrder(Tail(s), B, K)
           /\ Head(s) \in K => B[Head(s)] \cap Range(s) = {}
<1>1. /\ DOMAIN s = 1 .. Len(s) /\ DOMAIN Tail(s) = 1 .. Len(s) - 1
      /\ Len(s) \in Nat /\ Len(s) > 0
      /\ Head(s) = s[1]
      /\ \A i \in 1 .. Len(s) - 1 : Tail(s)[i] = s[i + 1]
  BY HeadTailProperties, LenProperties, EmptySeq
<1>2. ASSUME NEW i \in 1 .. Len(s) - 1, NEW j \in 1 .. Len(s) - 1,
             Tail(s)[j] \in K, Tail(s)[i] \in B[Tail(s)[j]]
      PROVE  i < j
  <2>1. i + 1 \in DOMAIN s /\ j + 1 \in DOMAIN s
    BY <1>1
  <2>2. i + 1 < j + 1
    BY <1>1, <1>2, <2>1 DEF InOrder
  <2> QED BY <2>2
<1>3. ASSUME Head(s) \in K, NEW i \in DOMAIN s, s[i] \in B[Head(s)] PROVE FALSE
  BY <1>1, <1>3 DEF InOrder
<1> QED BY <1>1, <1>2, <1>3 DEF InOrder, Range

\* Only what the calls of its own elements knew of matters.
LEMMA OrderDepends ==
    ASSUME NEW s, NEW B, NEW C, NEW K, \A x \in Range(s) : C[x] = B[x], InOrder(s, B, K)
    PROVE  InOrder(s, C, K)
BY DEF InOrder, Range

\* The part of OrderInv about a writer that never writes around its channel.
Ordered ==
    /\ \A w \in Writes : pc[w] # "direct"
    /\ InOrder(queue, before, Writes)
    /\ current # None => before[current] \cap Pending = {}
    /\ \A w \in Writes \cap Delivered : before[w] \cap Pending = {}
    /\ InOrder(out, before, Writes)

OrderByParts == Known /\ (strategy # "handoff" => Ordered)

LEMMA OrderInvByParts ==
    /\ TypeInv => (OrderInv <=> OrderByParts)
    /\ TypeInv' => (OrderInv' <=> OrderByParts')
<1>1. ASSUME NEW s \in Seq(Writes), NEW B
      PROVE  (\A i, j \in DOMAIN s : s[i] \in B[s[j]] => i < j) <=> InOrder(s, B, Writes)
  BY ElementsTyped DEF InOrder, Range
<1>2. TypeInv => (OrderInv <=> OrderByParts)
  BY <1>1
  DEF TypeInv, TypeOK, OrderInv, OrderByParts, Known, Ordered, NothingBehind, RealTimeOrder,
      InOrder, Custody
<1>3. TypeInv' => (OrderInv' <=> OrderByParts')
  BY <1>1
  DEF TypeInv, TypeOK, OrderInv, OrderByParts, Known, Ordered, NothingBehind, RealTimeOrder,
      InOrder, Custody
<1> QED BY <1>2, <1>3

\* What a payload's call knew is settled before the payload moves.
LEMMA PayloadsHaveBegun ==
    ASSUME TypeInv, PlaceInv, BeginsOnce
    PROVE  /\ Custody \subseteq Payloads
           /\ \A x \in Custody : before'[x] = before[x]
<1>1. Custody \subseteq Payloads
  BY ElementsTyped
  DEF TypeInv, TypeOK, Custody, InFlight, Resolved, Held, Delivered, Dropped
<1>2. \A x \in Custody : pc[x] # "idle"
  BY <1>1 DEF PlaceInv, Custody, BeforeSend
<1> QED BY <1>1, <1>2 DEF BeginsOnce

\* A step that moves nothing on the way from the channel to the log.
LEMMA OrderKept ==
    ASSUME TypeInv, PlaceInv, BeginsOnce, Ordered,
           UNCHANGED <<queue, current, out>>,
           \A w \in Writes : pc'[w] = "direct" => pc[w] = "direct"
    PROVE  Ordered'
<1>1. \A x \in Pending \cup Delivered : before'[x] = before[x]
  BY PayloadsHaveBegun DEF Custody, InFlight, Resolved, Pending
<1>2. InOrder(queue', before', Writes) /\ InOrder(out', before', Writes)
  BY <1>1, OrderDepends DEF Ordered, Pending, Delivered
<1>3. Pending' = Pending /\ Delivered' = Delivered
  BY DEF Pending, Delivered
<1>4. current' # None => before'[current'] \cap Pending' = {}
  BY <1>1, <1>3 DEF Ordered, Pending
<1>5. \A w \in Writes \cap Delivered' : before'[w] \cap Pending' = {}
  BY <1>1, <1>3 DEF Ordered
<1> QED BY <1>2, <1>4, <1>5 DEF Ordered

LEMMA OrderedStep ==
    TypeInv /\ PlaceInv /\ Known /\ Ordered /\ strategy # "handoff" /\ [Next]_vars => Ordered'
<1> SUFFICES ASSUME TypeInv, PlaceInv, Known, Ordered, strategy # "handoff", [Next]_vars
             PROVE  Ordered'
  OBVIOUS
<1>b. BeginsOnce
  BY CallsBeginOnce
<1>t. /\ pc \in [Calls -> Labels]
      /\ queue \in Seq(Writes) /\ Range(queue) \subseteq Writes
      /\ sendq \in Seq(Writes) /\ Range(sendq) \subseteq Writes
      /\ out \in Seq(Payloads) /\ Range(out) \subseteq Payloads
      /\ current \in Writes \cup {None}
  BY ElementsTyped DEF TypeInv, TypeOK
<1>k. Range(queue) \cup Range(out) \subseteq Custody /\ (current # None => current \in Custody)
  BY DEF Custody, InFlight, Resolved, Delivered
<1>1. ASSUME NEW c \in Calls, NEW label \in {"enqueue", "signal"}, Enter(c, label)
      PROVE  Ordered'
  <2>1. \A w \in Writes : pc'[w] = "direct" => pc[w] = "direct"
    BY <1>1, <1>t DEF Enter, Goto, Return
  <2> QED BY <1>1, <1>b, <2>1, OrderKept DEF Enter, chanVars, workVars, sinkVars
<1>2. ASSUME NEW c \in Criticals, CriticalBegin(c) PROVE Ordered'
  <2>1. \A w \in Writes : pc'[w] = "direct" => pc[w] = "direct"
    BY <1>2, <1>t DEF CriticalBegin, Enter, Goto, Return
  <2> QED BY <1>2, <1>b, <2>1, OrderKept DEF CriticalBegin, Enter, chanVars, workVars, sinkVars
<1>3. ASSUME NEW w \in Writes, WriteSend(w) PROVE Ordered'
  <2>1. /\ queue' = Append(queue, w) /\ UNCHANGED <<current, out, before>>
        /\ \A v \in Writes : pc'[v] = "direct" => pc[v] = "direct"
    BY <1>3, <1>t DEF WriteSend, Goto, workVars, sinkVars
  <2>2. w \notin Custody
    BY <1>3 DEF WriteSend, AtSend, PlaceInv, BeforeSend, Custody
  <2>3. \A c \in Calls : w \notin before[c]
    BY <2>2 DEF Known
  <2>4. InOrder(queue', before, Writes)
    BY <1>t, <2>1, <2>3, OrderAppend DEF Ordered
  <2>5. Pending' = Pending \cup {w} /\ Delivered' = Delivered
    BY <1>t, <2>1, LogGrows DEF Pending, Delivered
  <2> QED BY <1>t, <2>1, <2>3, <2>4, <2>5 DEF Ordered
<1>4. ASSUME NEW w \in Writes, WriteDiscard(w) PROVE Ordered'
  <2>1. CASE queue = <<>>
    BY <1>4, <1>b, <1>t, <2>1, OrderKept DEF WriteDiscard, Goto, sinkVars
  <2>2. CASE queue # <<>>
    <3>1. /\ queue' = Tail(queue) /\ UNCHANGED <<current, out, before>>
          /\ \A v \in Writes : pc'[v] = "direct" => pc[v] = "direct"
      BY <1>4, <1>t, <2>2 DEF WriteDiscard, Goto, sinkVars
    <3>2. InOrder(queue', before, Writes)
      BY <1>t, <2>2, <3>1, OrderTail DEF Ordered
    <3>3. Pending' \subseteq Pending /\ Delivered' = Delivered
      BY <1>t, <2>2, <3>1, TakeFirst DEF Pending, Delivered
    <3> QED BY <3>1, <3>2, <3>3 DEF Ordered
  <2> QED BY <2>1, <2>2
<1>5. ASSUME NEW p \in Payloads, DirectWrite(p) PROVE Ordered'
  <2>1. /\ out' = Append(out, p) /\ UNCHANGED <<queue, current, before>>
        /\ \A v \in Writes : pc'[v] = "direct" => pc[v] = "direct"
    BY <1>5, <1>t DEF DirectWrite, Deliver, Return, chanVars, workVars
  <2>2. p \notin Writes /\ p \notin Custody
    BY <1>5 DEF DirectWrite, Ordered, PlaceInv, BeforeSend, Custody
  <2>3. \A c \in Calls : p \notin before[c]
    BY <2>2 DEF Known
  <2>4. InOrder(out', before, Writes)
    BY <1>t, <2>1, <2>2, <2>3, OrderAppend DEF Ordered
  <2>5. Delivered' = Delivered \cup {p} /\ Pending' = Pending
    BY <1>t, <2>1, LogGrows DEF Pending, Delivered
  <2> QED BY <2>1, <2>2, <2>4, <2>5 DEF Ordered
<1>6. ASSUME WorkerReceive PROVE Ordered'
  <2> DEFINE h == Head(queue)
  <2> DEFINE s == Head(sendq)
  <2>1. queue # <<>> /\ current = None /\ current' = h /\ UNCHANGED <<out, before>>
    BY <1>6 DEF WorkerReceive, sinkVars
  <2>2. /\ h \in Writes /\ Tail(queue) \in Seq(Writes)
        /\ Range(queue) = {h} \cup Range(Tail(queue))
        /\ before[h] \cap Range(queue) = {}
        /\ InOrder(Tail(queue), before, Writes)
    BY <1>t, <2>1, TakeHead, TakeFirst, OrderTail DEF Ordered
  <2>3. CASE sendq = <<>>
    <3>1. queue' = Tail(queue) /\ UNCHANGED pc
      BY <1>6, <2>3 DEF WorkerReceive
    <3>2. Pending' = Pending /\ Delivered' = Delivered
      BY <2>1, <2>2, <3>1 DEF Pending, Delivered
    <3>3. Pending = Range(queue)
      BY <2>1 DEF Pending
    <3> QED BY <2>1, <2>2, <3>1, <3>2, <3>3 DEF Ordered
  <2>4. CASE sendq # <<>>
    <3>1. queue' = Append(Tail(queue), s) /\ pc' = [pc EXCEPT ![s] = "count"]
      BY <1>6, <2>4 DEF WorkerReceive, Goto
    <3>2. s \in Writes /\ s \in Range(sendq)
      BY <1>t, <2>4, TakeHead, TakeFirst
    <3>3. s \notin Custody
      BY <3>2 DEF PlaceInv, BeforeSend, Custody
    <3>4. \A c \in Calls : s \notin before[c]
      BY <3>3 DEF Known
    <3> HIDE DEF s
    <3>5. InOrder(queue', before, Writes)
      <4>1. \A x \in Range(Tail(queue)) \cap Writes : s \notin before[x]
        BY <3>4
      <4> QED BY <2>2, <3>1, <3>2, <3>4, <4>1, OrderAppend
    <3>6. Range(queue') = Range(Tail(queue)) \cup {s}
      BY <2>2, <3>1, LogGrows
    <3>7. Pending' = Pending \cup {s} /\ Delivered' = Delivered /\ Pending = Range(queue)
      BY <2>1, <2>2, <3>6 DEF Pending, Delivered
    <3>8. \A v \in Writes : pc'[v] # "direct"
      BY <1>t, <3>1 DEF Ordered
    <3> QED BY <2>1, <2>2, <3>4, <3>5, <3>7, <3>8 DEF Ordered
  <2> QED BY <2>3, <2>4
<1>7. ASSUME WorkerWrite PROVE Ordered'
  <2>1. /\ out' = Append(out, current) /\ UNCHANGED <<queue, before, pc>>
        /\ current \in Writes /\ current' = None
    BY <1>7, <1>t DEF WorkerWrite, Deliver, callVars, chanVars
  <2>2. \A x \in Range(out) \cap Writes : current \notin before[x]
    BY <2>1 DEF Ordered, Pending, Delivered
  <2>3. current \notin before[current]
    BY <2>1 DEF Known
  <2>4. InOrder(out', before, Writes)
    BY <1>t, <2>1, <2>2, <2>3, OrderAppend DEF Ordered
  <2>5. Delivered' = Delivered \cup {current} /\ Pending' \subseteq Pending
    BY <1>t, <2>1, LogGrows DEF Pending, Delivered
  <2> QED BY <2>1, <2>4, <2>5 DEF Ordered
<1>8. ASSUME WorkerFail PROVE Ordered'
  <2>1. UNCHANGED <<queue, out, before, pc>> /\ current' = None
    BY <1>8 DEF WorkerFail, Drop, callVars, chanVars
  <2>2. Delivered' = Delivered /\ Pending' \subseteq Pending
    BY <2>1 DEF Pending, Delivered
  <2> QED BY <2>1, <2>2 DEF Ordered
<1>9. ASSUME NEW w \in Writes,
             WriteCount(w) \/ WritePanic(w) \/ WriteStopped(w) \/ WritePark(w)
               \/ WriteOverflow(w) \/ WriteFull(w) \/ WriteNotifyDrop(w)
      PROVE  Ordered'
  <2>1. \A v \in Writes : pc'[v] = "direct" => pc[v] = "direct"
    BY <1>9, <1>t
    DEF WriteCount, WritePanic, WriteStopped, WritePark, WriteOverflow, WriteFull,
        WriteNotifyDrop, Goto, Return
  <2>2. UNCHANGED <<queue, current, out>>
    BY <1>9
    DEF WriteCount, WritePanic, WriteStopped, WritePark, WriteOverflow, WriteFull,
        WriteNotifyDrop, Drop, chanVars, workVars, sinkVars
  <2> QED BY <1>b, <2>1, <2>2, OrderKept
<1>10. ASSUME NEW p \in Payloads, DirectRetry(p) \/ DirectFail(p) PROVE Ordered'
  BY <1>10, <1>b, <1>t, OrderKept
  DEF DirectRetry, DirectFail, RetryWrite, Return, callVars, chanVars, workVars
<1>11. ASSUME NEW f \in Flushes, FlushStep(f) PROVE Ordered'
  BY <1>11, <1>b, <1>t, OrderKept
  DEF FlushStep, FlushSignal, FlushDone, FlushTimeout, Goto, Return, chanVars, workVars, sinkVars
<1>12. ASSUME NEW c \in Closes, CloseBegin(c) \/ CloseStep(c) PROVE Ordered'
  <2>1. \A v \in Writes : pc'[v] = "direct" => pc[v] = "direct"
    BY <1>12, <1>t DEF CloseStep, CloseBegin, CloseStop, CloseChannel, CloseJoin, Goto, Return
  <2> QED BY <1>12, <1>b, <2>1, OrderKept
    DEF CloseStep, CloseBegin, CloseStop, CloseChannel, CloseJoin, chanVars, workVars, sinkVars
<1>13. ASSUME WorkerTakeFlush \/ WorkerTakeStop \/ WorkerTakeClosed \/ WorkerFlushed
                \/ WorkerDrained \/ WorkerRetry
       PROVE  Ordered'
  BY <1>13, <1>b, OrderKept
  DEF WorkerTakeFlush, WorkerTakeStop, WorkerTakeClosed, WorkerFlushed, WorkerDrained,
      WorkerRetry, RetryWrite, callVars, chanVars, workVars, sinkVars
<1>14. CASE UNCHANGED vars
  BY <1>14, <1>b, OrderKept DEF vars, callVars, chanVars, workVars, sinkVars
<1> QED
  BY <1>1, <1>2, <1>3, <1>4, <1>5, <1>6, <1>7, <1>8, <1>9, <1>10, <1>11, <1>12, <1>13, <1>14
  DEF Next, WriteBegin, WriteStep, DirectStep, FlushBegin, Worker

\* The overflow strategy is fixed when the writer is built.
LEMMA StrategyFixed == [Next]_vars => strategy' = strategy
BY DEF Next, WriteBegin, WriteStep, CriticalBegin, DirectStep, FlushBegin, FlushStep, CloseStep,
       Enter, WriteSend, WriteCount, WritePanic, WriteStopped, WritePark, WriteOverflow,
       WriteFull, WriteDiscard, WriteNotifyDrop, DirectWrite, DirectRetry, DirectFail,
       FlushSignal, FlushDone, FlushTimeout, CloseBegin, CloseStop, CloseChannel, CloseJoin,
       Worker, WorkerReceive, WorkerTakeFlush, WorkerTakeStop, WorkerTakeClosed, WorkerFlushed,
       WorkerDrained, WorkerWrite, WorkerRetry, WorkerFail, vars

LEMMA OrderInvInit == Init => OrderInv
BY DEF Init, OrderInv, NothingBehind, RealTimeOrder, Delivered, Range

LEMMA OrderInvStep ==
    TypeInv /\ PlaceInv /\ HonestInv /\ OrderInv /\ [Next]_vars => OrderInv'
<1> SUFFICES ASSUME TypeInv, PlaceInv, HonestInv, OrderInv, [Next]_vars PROVE OrderInv'
  OBVIOUS
<1>1. OrderByParts
  BY OrderInvByParts
<1>2. Known' /\ (strategy' # "handoff" => Ordered')
  BY <1>1, KnownStep, OrderedStep, StrategyFixed DEF OrderByParts
<1> QED BY <1>2, TypeInvStep, OrderInvByParts DEF OrderByParts

\* A payload acknowledged before a buffered Write began is written before it,
\* whatever is retried, discarded, flushed or parked in between; handoff writes
\* around the channel and promises no order.
THEOREM OrderKeptForCallers == Spec => []RealTimeOrder
<1>1. OrderInv => RealTimeOrder
  BY DEF OrderInv
<1> QED
  BY <1>1, TypeInvInit, TypeInvStep, PlaceInvInit, PlaceInvStep, HonestInvInit, HonestInvStep,
     OrderInvInit, OrderInvStep, PTL DEF Spec

-----------------------------------------------------------------------------
(* The writer implements LogDelivery. *)

LEMMA LineTyped ==
    ASSUME TypeInv
    PROVE  Line \in Seq(Writes) /\ Range(Line) = Pending
<1>t. queue \in Seq(Writes) /\ current \in Writes \cup {None}
  BY DEF TypeInv, TypeOK
<1>1. CASE current = None
  <2>1. Line = queue
    BY <1>t, <1>1 DEF Line
  <2> QED BY <1>t, <1>1, <2>1 DEF Pending
<1>2. CASE current # None
  <2>1. Line = <<current>> \o queue /\ Len(<<current>>) = 1 /\ <<current>>[1] = current
        /\ <<current>> \in Seq(Writes)
    BY <1>t, <1>2 DEF Line
  <2>2. /\ Line \in Seq(Writes) /\ DOMAIN Line = 1 .. 1 + Len(queue)
        /\ \A i \in 1 .. 1 + Len(queue) :
              Line[i] = IF i = 1 THEN current ELSE queue[i - 1]
    BY <1>t, <2>1, ConcatProperties, LenProperties
  <2>3. \A i \in 1 .. Len(queue) : i + 1 \in DOMAIN Line /\ Line[i + 1] = queue[i]
    BY <1>t, <2>2, LenProperties
  <2>4. DOMAIN queue = 1 .. Len(queue) /\ Len(queue) \in Nat
    BY <1>t, LenProperties
  <2>5. ASSUME NEW i \in DOMAIN Line PROVE Line[i] \in Pending
    <3>1. CASE i = 1
      BY <1>2, <2>2, <3>1 DEF Pending
    <3>2. CASE i # 1
      <4>1. i - 1 \in DOMAIN queue /\ Line[i] = queue[i - 1]
        BY <2>2, <2>4, <3>2
      <4> QED BY <4>1 DEF Pending, Range
    <3> QED BY <3>1, <3>2
  <2>6. ASSUME NEW x \in Pending PROVE x \in Range(Line)
    <3>1. CASE x = current
      BY <2>2, <2>4, <3>1 DEF Range
    <3>2. CASE x \in Range(queue)
      BY <2>2, <2>3, <2>4, <3>2 DEF Range
    <3> QED BY <2>6, <3>1, <3>2 DEF Pending
  <2> QED BY <2>2, <2>5, <2>6 DEF Range
<1> QED BY <1>1, <1>2

\* The two places from which a payload is taken out of the line.
LEMMA DropFirst ==
    ASSUME NEW S, NEW s \in Seq(S), s # <<>>
    PROVE  SubSeq(s, 1, 1 - 1) \o SubSeq(s, 1 + 1, Len(s)) = Tail(s) /\ s[1] = Head(s)
<1>1. Len(s) \in Nat /\ Len(s) > 0
  BY TakeHead
<1>2. SubSeq(s, 1, 1 - 1) = <<>>
  BY <1>1
<1>3. SubSeq(s, 1 + 1, Len(s)) = Tail(s)
  BY <1>1
<1> QED BY <1>1, <1>2, <1>3, HeadTailProperties

LEMMA DropSecond ==
    ASSUME NEW S, NEW t \in Seq(S), t # <<>>, NEW x \in S, NEW s, s = <<x>> \o t
    PROVE  /\ SubSeq(s, 1, 2 - 1) \o SubSeq(s, 2 + 1, Len(s)) = <<x>> \o Tail(t)
           /\ s[2] = Head(t) /\ Len(s) >= 2
<1>1. /\ Len(t) \in Nat /\ Len(t) > 0 /\ Tail(t) \in Seq(S) /\ Len(Tail(t)) = Len(t) - 1
      /\ \A i \in 1 .. Len(t) - 1 : Tail(t)[i] = t[i + 1]
      /\ Head(t) = t[1]
  BY TakeHead, HeadTailProperties
<1>2. /\ s \in Seq(S) /\ Len(s) = Len(t) + 1 /\ s[1] = x
      /\ \A i \in 1 .. Len(t) : s[i + 1] = t[i]
  <2>1. <<x>> \in Seq(S) /\ Len(<<x>>) = 1 /\ <<x>>[1] = x
    OBVIOUS
  <2>2. /\ s \in Seq(S) /\ Len(s) = 1 + Len(t)
        /\ \A i \in 1 .. 1 + Len(t) : s[i] = IF i <= 1 THEN <<x>>[i] ELSE t[i - 1]
    BY <2>1, ConcatProperties
  <2>3. s[1] = x
    BY <1>1, <2>1, <2>2
  <2>4. ASSUME NEW i \in 1 .. Len(t) PROVE s[i + 1] = t[i]
    <3>1. i + 1 \in 1 .. 1 + Len(t) /\ ~(i + 1 <= 1) /\ (i + 1) - 1 = i
      BY <1>1
    <3> QED BY <2>2, <3>1
  <2> QED BY <1>1, <2>2, <2>3, <2>4
<1>3. SubSeq(s, 1, 2 - 1) = <<x>>
  <2>1. \A i \in 1 .. 1 : s[i] \in S
    BY <1>2
  <2>2. /\ SubSeq(s, 1, 1) \in Seq(S) /\ Len(SubSeq(s, 1, 1)) = 1
        /\ \A i \in 1 .. 1 : SubSeq(s, 1, 1)[i] = s[i]
    BY <2>1, SubSeqProperties
  <2>3. <<x>> \in Seq(S) /\ Len(<<x>>) = 1 /\ \A i \in 1 .. 1 : SubSeq(s, 1, 1)[i] = <<x>>[i]
    BY <1>2, <2>2
  <2>4. SubSeq(s, 1, 1) = <<x>>
    BY <2>2, <2>3, SeqEqual
  <2> QED BY <2>4
<1>4. SubSeq(s, 2 + 1, Len(s)) = Tail(t)
  <2>1. SubSeq(s, 3, Len(s)) \in Seq(S) /\ Len(SubSeq(s, 3, Len(s))) = Len(t) - 1
    BY <1>1, <1>2, SubSeqProperties
  <2>2. \A i \in 1 .. Len(t) - 1 : SubSeq(s, 3, Len(s))[i] = Tail(t)[i]
    BY <1>1, <1>2, SubSeqProperties
  <2> QED BY <1>1, <2>1, <2>2, SeqEqual
<1> QED BY <1>1, <1>2, <1>3, <1>4

\* How the line moves under the steps of the channel and the worker.
LEMMA LineStays ==
    ASSUME UNCHANGED <<queue, current>>
    PROVE  Line' = Line
BY DEF Line

LEMMA LineGrows ==
    ASSUME TypeInv, NEW w \in Writes, queue' = Append(queue, w), current' = current
    PROVE  Line' = Append(Line, w)
<1>1. queue \in Seq(Writes) /\ current \in Writes \cup {None}
  BY DEF TypeInv, TypeOK
<1> QED BY <1>1 DEF Line

LEMMA LineReceived ==
    ASSUME TypeInv, queue # <<>>, current = None, current' = Head(queue)
    PROVE  /\ queue' = Tail(queue) => Line' = Line
           /\ \A w \in Writes : queue' = Append(Tail(queue), w) => Line' = Append(Line, w)
<1>1. queue \in Seq(Writes) /\ Head(queue) \in Writes /\ Tail(queue) \in Seq(Writes)
  BY TakeHead DEF TypeInv, TypeOK
<1>2. Line = queue /\ Line' = <<Head(queue)>> \o queue'
  BY <1>1 DEF Line
<1>3. <<Head(queue)>> \o Tail(queue) = queue
  BY <1>1
<1>4. ASSUME NEW w \in Writes PROVE <<Head(queue)>> \o Append(Tail(queue), w) = Append(queue, w)
  <2>1. <<Head(queue)>> \o Append(Tail(queue), w) = Append(<<Head(queue)>> \o Tail(queue), w)
    BY <1>1
  <2> QED BY <1>3, <2>1
<1> QED BY <1>2, <1>3, <1>4

LEMMA LineServed ==
    ASSUME TypeInv, current # None, queue' = queue, current' = None
    PROVE  Line # <<>> /\ Head(Line) = current /\ Line' = Tail(Line)
<1>1. queue \in Seq(Writes) /\ current \in Writes
  BY DEF TypeInv, TypeOK
<1>2. Line = <<current>> \o queue /\ Line' = <<>> \o queue
  BY DEF Line
<1> QED BY <1>1, <1>2

\* What the mapping makes of the callers' variables.
LEMMA BarriersStay ==
    ASSUME \A b \in Barriers :
              /\ pc'[b] = "idle" <=> pc[b] = "idle"
              /\ before'[b] = before[b]
              /\ ret'[b] = ret[b] \/ {ret[b], ret'[b]} \cap {"ok", "error"} = {}
    PROVE  Awaited' = Awaited /\ Begun' = Begun /\ Finished' = Finished
BY DEF Awaited, Begun, Finished

LEMMA PayloadsStay ==
    ASSUME \A p \in Payloads :
              ret'[p] = ret[p] \/ (ret[p] = "none" /\ ret'[p] = "full")
    PROVE  Acked' = Acked /\ Refused' = Refused
BY DEF Acked, Refused

LEMMA SameRange == \A s : Delivery!Range(s) = Range(s)
BY DEF Delivery!Range, Range

\* A payload is fresh while no part of the writer has taken charge of it and its
\* call has not been refused.
LEMMA Freshness ==
    ASSUME TypeInv, NEW p
    PROVE  Delivery!Fresh(p) <=> p \notin Custody \cup Refused
BY LineTyped, SameRange DEF Delivery!Fresh, Pending, Custody, Gone, InFlight, Resolved, Delivered

LEMMA FreshBeforeSend ==
    ASSUME TypeInv, PlaceInv, HonestInv, NEW p \in Payloads, pc[p] \in BeforeSend
    PROVE  Delivery!Fresh(p) /\ ret[p] = "none"
<1>1. ret[p] = "none" /\ p \notin Custody
  BY DEF HonestInv, PlaceInv, BeforeSend, Custody
<1> QED BY <1>1, Freshness DEF Refused

\* The writer refuses a set of payloads.
LEMMA RefusalRefines ==
    ASSUME TypeInv, PlaceInv, HonestInv, NEW S \in SUBSET Payloads, S # {},
           \A p \in S : pc[p] \in BeforeSend /\ ret'[p] \in {"closed", "error", "panic"},
           \A p \in Payloads \ S : ret'[p] = ret[p],
           UNCHANGED <<Line, out, Gone, Awaited, Begun, Finished>>
    PROVE  Delivery!Refuse(S)
<1>1. \A p \in S : Delivery!Fresh(p) /\ ret[p] = "none"
  BY FreshBeforeSend
<1>2. Refused' = Refused \cup S /\ Acked' = Acked
  BY <1>1 DEF Refused, Acked
<1> QED BY <1>1, <1>2 DEF Delivery!Refuse

\* A barrier that has been served has nothing left in line.
LEMMA BarrierServed ==
    ASSUME TypeInv, PlaceInv, HonestInv, NEW b \in Barriers, before[b] \subseteq Settled,
           pc[b] \notin {"idle", "done", "panicked"}, ret'[b] \in {"ok", "error"},
           \A c \in Barriers \ {b} : ret'[c] = ret[c],
           UNCHANGED <<Line, out, Gone, Refused, Acked, Awaited, Begun>>
    PROVE  Delivery!BarrierEnd(b)
<1>1. ret[b] = "none"
  BY DEF HonestInv, Barriers
<1>2. b \in Begun \ Finished /\ Finished' = Finished \cup {b}
  BY <1>1 DEF Begun, Finished
<1>3. Settled \cap Pending = {}
  BY DEF PlaceInv, OnePlace, Settled, Pending, InFlight, Resolved
<1>4. Awaited[b] \cap Range(Line) = {}
  BY <1>3, LineTyped DEF Awaited
<1> QED BY <1>2, <1>4, SameRange DEF Delivery!BarrierEnd

LEMMA DeliveryInit == Init => Delivery!Init
<1> SUFFICES ASSUME Init PROVE Delivery!Init
  OBVIOUS
<1>1. Line = <<>> /\ Gone = {}
  BY DEF Init, Line, Gone, Dropped, Held, Range
<1>2. Refused = {} /\ Acked = {} /\ Begun = {} /\ Finished = {}
  BY DEF Init, Refused, Acked, Begun, Finished, Barriers
<1>3. Awaited = [b \in Barriers |-> {}]
  BY DEF Init, Awaited, Barriers
<1> QED BY <1>1, <1>2, <1>3 DEF Init, Delivery!Init, Barriers

\* Every step of the writer is one step of LogDelivery, or none.
LEMMA DeliveryStep ==
    TypeInv /\ PlaceInv /\ HonestInv /\ BarrierInv /\ [Next]_vars
        => [Delivery!Next]_(Delivery!vars)
<1> SUFFICES ASSUME TypeInv, PlaceInv, HonestInv, BarrierInv, [Next]_vars
             PROVE  Delivery!Next \/ UNCHANGED Delivery!vars
  OBVIOUS
<1> DEFINE Stutter == UNCHANGED <<Line, out, Gone, Refused, Acked, Awaited, Begun, Finished>>
<1>t. /\ pc \in [Calls -> Labels] /\ ret \in [Calls -> Results]
      /\ before \in [Calls -> SUBSET Payloads]
      /\ queue \in Seq(Writes) /\ sendq \in Seq(Writes) /\ Range(sendq) \subseteq Writes
      /\ current \in Writes \cup {None} /\ held \in [Writes -> Writes \cup {None}]
      /\ drops \in Seq(Payloads)
  BY ElementsTyped DEF TypeInv, TypeOK
<1>s. Stutter => UNCHANGED Delivery!vars
  BY DEF Delivery!vars
<1>n. \A c \in Calls : pc[c] \notin {"done", "panicked"} => ret[c] = "none"
  BY DEF HonestInv
<1> USE DEF Barriers
<1>1. ASSUME NEW c \in Calls, NEW label \in {"enqueue", "direct", "signal"}, Enter(c, label),
             c \notin Closes
      PROVE  Delivery!Next \/ Stutter
  <2>1. UNCHANGED <<Line, out, Gone>> /\ pc[c] = "idle" /\ ret[c] = "none"
    BY <1>1, <1>n DEF Enter, Line, Gone, Dropped, Held, chanVars, workVars, sinkVars
  <2>2. CASE c \in Flushes
    <3>1. Acked' = Acked /\ Refused' = Refused
      BY <1>1, <1>t, <2>2, PayloadsStay DEF Enter, Goto, Return
    <3>2. c \notin Begun /\ Begun' = Begun \cup {c} /\ Finished' = Finished
      BY <1>1, <1>t, <2>1, <2>2 DEF Enter, Goto, Return, Begun, Finished
    <3>3. Awaited' = [Awaited EXCEPT ![c] = Acked]
      BY <1>1, <1>t, <2>2 DEF Enter, Awaited
    <3>4. Delivery!BarrierBegin(c)
      BY <2>1, <3>1, <3>2, <3>3 DEF Delivery!BarrierBegin
    <3> QED BY <2>2, <3>4 DEF Delivery!Next
  <2>3. CASE c \in Payloads
    <3>1. Awaited' = Awaited /\ Begun' = Begun /\ Finished' = Finished
      BY <1>1, <1>t, <2>3, BarriersStay DEF Enter, Goto, Return
    <3>2. CASE Return(c, "closed")
      <4>1. Delivery!Refuse({c})
        BY <1>t, <2>1, <2>3, <3>1, <3>2, RefusalRefines DEF Return, BeforeSend
      <4> QED BY <2>3, <4>1 DEF Delivery!Next
    <3>3. CASE Goto(c, label)
      BY <2>1, <3>1, <3>3, PayloadsStay DEF Goto
    <3> QED BY <1>1, <3>2, <3>3 DEF Enter
  <2> QED BY <1>1, <2>2, <2>3
<1>2. ASSUME NEW w \in Writes, WriteSend(w) PROVE Delivery!Next \/ Stutter
  <2>1. Delivery!Fresh(w)
    BY <1>2, FreshBeforeSend DEF WriteSend, AtSend, BeforeSend
  <2>2. Line' = Append(Line, w)
    BY <1>2, LineGrows DEF WriteSend, workVars
  <2>3. UNCHANGED <<out, Gone, Acked, Refused>>
    BY <1>2, PayloadsStay DEF WriteSend, Goto, Gone, Dropped, Held, workVars, sinkVars
  <2>4. Awaited' = Awaited /\ Begun' = Begun /\ Finished' = Finished
    BY <1>2, <1>t, BarriersStay DEF WriteSend, Goto
  <2>5. Delivery!Accept(w)
    BY <2>1, <2>2, <2>3, <2>4 DEF Delivery!Accept
  <2> QED BY <2>5 DEF Delivery!Next
<1>3. ASSUME NEW w \in Writes, WriteCount(w) PROVE Delivery!Next \/ Stutter
  <2>1. UNCHANGED <<Line, out, Gone>> /\ ret[w] = "none"
    BY <1>3, <1>n, LineStays DEF WriteCount, Gone, Dropped, Held, chanVars, workVars
  <2>2. w \in Custody
    BY <1>3 DEF WriteCount, HonestInv, Custody
  <2>3. ~Delivery!Fresh(w) /\ w \notin Refused \cup Acked
    BY <2>1, <2>2, Freshness DEF Refused, Acked
  <2>4. Acked' = Acked \cup {w} /\ Refused' = Refused
    BY <1>3, <1>t, <2>1 DEF WriteCount, Return, Acked, Refused
  <2>5. Awaited' = Awaited /\ Begun' = Begun /\ Finished' = Finished
    BY <1>3, <1>t, BarriersStay DEF WriteCount, Return
  <2>6. Delivery!Acknowledge(w)
    BY <2>1, <2>3, <2>4, <2>5 DEF Delivery!Acknowledge
  <2> QED BY <2>6 DEF Delivery!Next
<1>4. ASSUME NEW w \in Writes, WritePanic(w) \/ WriteStopped(w) PROVE Delivery!Next \/ Stutter
  <2>1. UNCHANGED <<Line, out, Gone>>
    BY <1>4, LineStays DEF WritePanic, WriteStopped, Gone, Dropped, Held, chanVars, workVars, sinkVars
  <2>2. Awaited' = Awaited /\ Begun' = Begun /\ Finished' = Finished
    BY <1>4, <1>t, BarriersStay DEF WritePanic, WriteStopped, Return
  <2>3. Delivery!Refuse({w})
    BY <1>4, <1>t, <2>1, <2>2, RefusalRefines DEF WritePanic, AtSend, WriteStopped, Return, BeforeSend
  <2> QED BY <2>3 DEF Delivery!Next
<1>5. ASSUME NEW w \in Writes, WriteOverflow(w) PROVE Delivery!Next \/ Stutter
  <2>1. Delivery!Fresh(w) /\ ret[w] = "none"
    BY <1>5, FreshBeforeSend DEF WriteOverflow, Rejects, BeforeSend
  <2>2. Gone' = Gone \cup {w}
    BY <1>5, <1>t, LogGrows DEF WriteOverflow, Drop, Gone, Dropped, Held, workVars
  <2>3. UNCHANGED <<Line, out>>
    BY <1>5, LineStays DEF WriteOverflow, Drop, chanVars, workVars
  <2>4. Acked' = Acked /\ Refused' = Refused
    BY <1>5, <1>t, <2>1, PayloadsStay DEF WriteOverflow, Return
  <2>5. Awaited' = Awaited /\ Begun' = Begun /\ Finished' = Finished
    BY <1>5, <1>t, BarriersStay DEF WriteOverflow, Return
  <2>6. Delivery!Overflow(w)
    BY <2>1, <2>2, <2>3, <2>4, <2>5 DEF Delivery!Overflow
  <2> QED BY <2>6 DEF Delivery!Next
<1>6. ASSUME NEW w \in Writes, WritePark(w) \/ WriteFull(w) PROVE Delivery!Next \/ Stutter
  <2>1. UNCHANGED <<Line, out, Gone>>
    BY <1>6, LineStays DEF WritePark, WriteFull, Gone, Dropped, Held, chanVars, workVars, sinkVars
  <2>2. Acked' = Acked /\ Refused' = Refused
    BY <1>6, PayloadsStay DEF WritePark, WriteFull, Goto
  <2>3. Awaited' = Awaited /\ Begun' = Begun /\ Finished' = Finished
    BY <1>6, <1>t, BarriersStay DEF WritePark, WriteFull, Goto
  <2> QED BY <2>1, <2>2, <2>3
<1>7. ASSUME NEW w \in Writes, WriteDiscard(w) PROVE Delivery!Next \/ Stutter
  <2>1. Acked' = Acked /\ Refused' = Refused /\ out' = out /\ current' = current
    BY <1>7, PayloadsStay DEF WriteDiscard, Goto, sinkVars
  <2>2. Awaited' = Awaited /\ Begun' = Begun /\ Finished' = Finished
    BY <1>7, <1>t, BarriersStay DEF WriteDiscard, Goto
  <2>3. CASE queue = <<>>
    BY <1>7, <2>1, <2>2, <2>3, LineStays DEF WriteDiscard, Gone, Dropped, Held, sinkVars
  <2>4. CASE queue # <<>>
    <3>1. /\ queue' = Tail(queue) /\ held' = [held EXCEPT ![w] = Head(queue)]
          /\ held[w] = None /\ Dropped' = Dropped
      BY <1>7, <2>4 DEF WriteDiscard, PlaceInv, Dropped, sinkVars
    <3>2. Head(queue) \in Writes
      BY <1>t, <2>4, TakeHead
    <3>3. Gone' = Gone \cup {Head(queue)}
      BY <1>t, <3>1, <3>2 DEF Gone, Held
    <3>4. \E i \in 1 .. Len(Line) :
             /\ Line[i] = Head(queue)
             /\ Line' = SubSeq(Line, 1, i - 1) \o SubSeq(Line, i + 1, Len(Line))
      <4>1. CASE current = None
        <5>1. Line = queue /\ Line' = Tail(queue)
          BY <1>t, <2>1, <2>4, <3>1, <4>1, TakeHead DEF Line
        <5>2. Len(queue) \in Nat /\ Len(queue) > 0
          BY <1>t, <2>4, TakeHead
        <5>3. queue[1] = Head(queue)
              /\ Tail(queue) = SubSeq(queue, 1, 1 - 1) \o SubSeq(queue, 1 + 1, Len(queue))
          BY <1>t, <2>4, DropFirst
        <5>4. 1 \in 1 .. Len(Line)
          BY <5>1, <5>2
        <5> WITNESS 1 \in 1 .. Len(Line)
        <5> QED BY <5>1, <5>3
      <4>2. CASE current # None
        <5>1. Line = <<current>> \o queue /\ Line' = <<current>> \o Tail(queue)
          BY <2>1, <3>1, <4>2 DEF Line
        <5>2. /\ SubSeq(Line, 1, 2 - 1) \o SubSeq(Line, 2 + 1, Len(Line)) = Line'
              /\ Line[2] = Head(queue) /\ Len(Line) >= 2
          BY <1>t, <2>4, <4>2, <5>1, DropSecond
        <5>3. Len(Line) \in Nat
          BY LineTyped
        <5>4. 2 \in 1 .. Len(Line)
          BY <5>2, <5>3
        <5> WITNESS 2 \in 1 .. Len(Line)
        <5> QED BY <5>2
      <4> QED BY <4>1, <4>2
    <3>5. PICK i \in 1 .. Len(Line) : Delivery!DropPending(i)
      BY <2>1, <2>2, <3>3, <3>4 DEF Delivery!DropPending
    <3> QED BY <3>5 DEF Delivery!Next
  <2> QED BY <2>3, <2>4
<1>8. ASSUME NEW w \in Writes, WriteNotifyDrop(w) PROVE Delivery!Next \/ Stutter
  <2>1. UNCHANGED <<Line, out>> /\ held' = [held EXCEPT ![w] = None] /\ held[w] \in Held
    BY <1>8, <1>t, LineStays DEF WriteNotifyDrop, Drop, chanVars, TypeInv, Held
  <2>2. Range(drops') = Range(drops) \cup {held[w]}
    BY <1>8, <1>t, LogGrows DEF WriteNotifyDrop, Drop
  <2>3. Gone' = Gone
    BY <1>t, <2>1, <2>2 DEF Gone, Dropped, Held
  <2>4. Acked' = Acked /\ Refused' = Refused
    BY <1>8, PayloadsStay DEF WriteNotifyDrop, Goto
  <2>5. Awaited' = Awaited /\ Begun' = Begun /\ Finished' = Finished
    BY <1>8, <1>t, BarriersStay DEF WriteNotifyDrop, Goto
  <2> QED BY <2>1, <2>3, <2>4, <2>5
<1>9. ASSUME NEW p \in Payloads, DirectWrite(p) PROVE Delivery!Next \/ Stutter
  <2>1. Delivery!Fresh(p) /\ ret[p] = "none"
    BY <1>9, FreshBeforeSend DEF DirectWrite, BeforeSend
  <2>2. out' = Append(out, p) /\ UNCHANGED <<Line, Gone>>
    BY <1>9, LineStays DEF DirectWrite, Deliver, Gone, Dropped, Held, chanVars, workVars
  <2>3. Acked' = Acked \cup {p} /\ Refused' = Refused
    BY <1>9, <1>t, <2>1 DEF DirectWrite, Return, Acked, Refused
  <2>4. Awaited' = Awaited /\ Begun' = Begun /\ Finished' = Finished
    BY <1>9, <1>t, BarriersStay DEF DirectWrite, Return
  <2>5. Delivery!WriteThrough(p)
    BY <2>1, <2>2, <2>3, <2>4 DEF Delivery!WriteThrough
  <2> QED BY <2>5 DEF Delivery!Next
<1>10. ASSUME NEW p \in Payloads, DirectFail(p) PROVE Delivery!Next \/ Stutter
  <2>1. UNCHANGED <<Line, out, Gone>>
    BY <1>10, LineStays DEF DirectFail, Gone, Dropped, Held, chanVars, workVars
  <2>2. Awaited' = Awaited /\ Begun' = Begun /\ Finished' = Finished
    BY <1>10, <1>t, BarriersStay DEF DirectFail, Return
  <2>3. Delivery!Refuse({p})
    BY <1>10, <1>t, <2>1, <2>2, RefusalRefines DEF DirectFail, Return, BeforeSend
  <2> QED BY <2>3 DEF Delivery!Next
<1>11. ASSUME NEW f \in Flushes, FlushStep(f) PROVE Delivery!Next \/ Stutter
  <2>1. UNCHANGED <<Line, out, Gone>>
    BY <1>11, LineStays
    DEF FlushStep, FlushSignal, FlushDone, FlushTimeout, Gone, Dropped, Held, chanVars, workVars,
        sinkVars
  <2>2. Acked' = Acked /\ Refused' = Refused
    BY <1>11, <1>t, PayloadsStay
    DEF FlushStep, FlushSignal, FlushDone, FlushTimeout, Goto, Return
  <2>3. Awaited' = Awaited /\ Begun' = Begun /\ pc[f] \in {"signal", "await"}
    BY <1>11, <1>t
    DEF FlushStep, FlushSignal, FlushDone, FlushTimeout, Goto, Return, Awaited, Begun
  <2>4. ret[f] = "none" /\ \A c \in Calls \ {f} : ret'[c] = ret[c]
    BY <1>11, <1>t, <1>n, <2>3
    DEF FlushStep, FlushSignal, FlushDone, FlushTimeout, Goto, Return
  <2>5. CASE ret'[f] \in {"ok", "error"}
    <3>1. before[f] \subseteq Settled
      BY <1>11, <1>t, <2>4, <2>5
      DEF FlushStep, FlushSignal, FlushDone, FlushTimeout, Goto, Return, BarrierInv, Settled
    <3>2. Delivery!BarrierEnd(f)
      BY <2>1, <2>2, <2>3, <2>4, <2>5, <3>1, BarrierServed
    <3> QED BY <3>2 DEF Delivery!Next
  <2>6. CASE ret'[f] \notin {"ok", "error"}
    <3>1. Finished' = Finished
      BY <2>4, <2>6 DEF Finished
    <3> QED BY <2>1, <2>2, <2>3, <3>1
  <2> QED BY <2>5, <2>6
<1>12. ASSUME NEW c \in Closes, CloseBegin(c) PROVE Delivery!Next \/ Stutter
  <2>1. UNCHANGED <<Line, out, Gone>> /\ pc[c] = "idle" /\ ret[c] = "none"
    BY <1>12, <1>n, LineStays DEF CloseBegin, Gone, Dropped, Held, chanVars, workVars, sinkVars
  <2>2. Acked' = Acked /\ Refused' = Refused
    BY <1>12, <1>t, PayloadsStay DEF CloseBegin, Goto, Return
  <2>3. c \notin Begun /\ Begun' = Begun \cup {c} /\ Finished' = Finished
    BY <1>12, <1>t, <2>1 DEF CloseBegin, Goto, Return, Begun, Finished
  <2>4. Awaited' = [Awaited EXCEPT ![c] = Acked]
    BY <1>12, <1>t DEF CloseBegin, Awaited
  <2>5. Delivery!BarrierBegin(c)
    BY <2>1, <2>2, <2>3, <2>4 DEF Delivery!BarrierBegin
  <2> QED BY <2>5 DEF Delivery!Next
<1>13. ASSUME NEW c \in Closes, CloseStop(c) PROVE Delivery!Next \/ Stutter
  <2>1. UNCHANGED <<Line, out, Gone>>
    BY <1>13, LineStays DEF CloseStop, Gone, Dropped, Held, workVars, sinkVars
  <2>2. Awaited' = Awaited /\ Begun' = Begun /\ Finished' = Finished
    BY <1>13, <1>t, BarriersStay DEF CloseStop
  <2>3. \A p \in Payloads : ret'[p] = IF p \in Range(sendq) THEN "closed" ELSE ret[p]
    BY <1>13 DEF CloseStop
  <2>4. CASE Range(sendq) = {}
    BY <2>1, <2>2, <2>3, <2>4, PayloadsStay
  <2>5. CASE Range(sendq) # {}
    <3>1. \A p \in Range(sendq) : pc[p] \in BeforeSend
      BY DEF PlaceInv, BeforeSend
    <3>2. Range(sendq) \in SUBSET Payloads
      BY <1>t
    <3>3. Delivery!Refuse(Range(sendq))
      BY <2>1, <2>2, <2>3, <2>5, <3>1, <3>2, RefusalRefines
    <3> QED BY <3>2, <3>3 DEF Delivery!Next
  <2> QED BY <2>4, <2>5
<1>14. ASSUME NEW c \in Closes, CloseChannel(c) PROVE Delivery!Next \/ Stutter
  <2>1. UNCHANGED <<Line, out, Gone>>
    BY <1>14, LineStays DEF CloseChannel, Gone, Dropped, Held, chanVars, workVars, sinkVars
  <2>2. Acked' = Acked /\ Refused' = Refused
    BY <1>14, PayloadsStay DEF CloseChannel, Goto
  <2>3. Awaited' = Awaited /\ Begun' = Begun /\ Finished' = Finished
    BY <1>14, <1>t, BarriersStay DEF CloseChannel, Goto
  <2> QED BY <2>1, <2>2, <2>3
<1>15. ASSUME NEW c \in Closes, CloseJoin(c) PROVE Delivery!Next \/ Stutter
  <2>1. UNCHANGED <<Line, out, Gone>>
    BY <1>15, LineStays DEF CloseJoin, Gone, Dropped, Held, chanVars, workVars
  <2>2. Acked' = Acked /\ Refused' = Refused
    BY <1>15, <1>t, PayloadsStay DEF CloseJoin, Return
  <2>3. Awaited' = Awaited /\ Begun' = Begun /\ pc[c] = "join"
    BY <1>15, <1>t DEF CloseJoin, Return, Awaited, Begun
  <2>4. ret'[c] \in {"ok", "error"} /\ \A d \in Calls \ {c} : ret'[d] = ret[d]
    BY <1>15, <1>t DEF CloseJoin, Return
  <2>5. before[c] \subseteq Settled
    BY <1>15 DEF CloseJoin, BarrierInv, Closing, Settled
  <2>6. Delivery!BarrierEnd(c)
    BY <2>1, <2>2, <2>3, <2>4, <2>5, BarrierServed
  <2> QED BY <2>6 DEF Delivery!Next
<1>16. ASSUME WorkerReceive PROVE Delivery!Next \/ Stutter
  <2>1. /\ queue # <<>> /\ current = None /\ current' = Head(queue)
        /\ UNCHANGED <<out, Gone, ret, before>>
    BY <1>16 DEF WorkerReceive, Goto, Gone, Dropped, Held, sinkVars
  <2>2. Acked' = Acked /\ Refused' = Refused
    BY <2>1, PayloadsStay
  <2>3. CASE sendq = <<>>
    <3>1. queue' = Tail(queue) /\ pc' = pc
      BY <1>16, <2>3 DEF WorkerReceive
    <3> QED BY <2>1, <2>2, <3>1, LineReceived, BarriersStay
  <2>4. CASE sendq # <<>>
    <3> DEFINE s == Head(sendq)
    <3>1. queue' = Append(Tail(queue), s) /\ pc' = [pc EXCEPT ![s] = "count"]
      BY <1>16, <2>4 DEF WorkerReceive, Goto
    <3>2. s \in Writes /\ s \in Range(sendq)
      BY <1>t, <2>4, TakeHead, TakeFirst
    <3>3. Delivery!Fresh(s)
      BY <3>2, FreshBeforeSend DEF PlaceInv, BeforeSend
    <3> HIDE DEF s
    <3>4. Line' = Append(Line, s)
      BY <2>1, <3>1, <3>2, LineReceived
    <3>5. Awaited' = Awaited /\ Begun' = Begun /\ Finished' = Finished
      <4>1. \A b \in Barriers : pc'[b] = pc[b]
        BY <1>t, <3>1, <3>2
      <4> QED BY <2>1, <4>1, BarriersStay
    <3>6. Delivery!Accept(s)
      BY <2>1, <2>2, <3>3, <3>4, <3>5 DEF Delivery!Accept
    <3> QED BY <3>2, <3>6 DEF Delivery!Next
  <2> QED BY <2>3, <2>4
<1>17. ASSUME WorkerWrite PROVE Delivery!Next \/ Stutter
  <2>1. /\ Line # <<>> /\ Head(Line) = current /\ Line' = Tail(Line)
        /\ out' = Append(out, current) /\ UNCHANGED <<Gone, pc, ret, before>>
    BY <1>17, LineServed
    DEF WorkerWrite, Deliver, Gone, Dropped, Held, callVars, chanVars
  <2>2. Delivery!Deliver
    BY <2>1, PayloadsStay, BarriersStay DEF Delivery!Deliver
  <2> QED BY <2>2 DEF Delivery!Next
<1>18. ASSUME WorkerFail PROVE Delivery!Next \/ Stutter
  <2>1. /\ Line # <<>> /\ Head(Line) = current /\ Line' = Tail(Line)
        /\ UNCHANGED <<out, held, pc, ret, before>>
    BY <1>18, LineServed DEF WorkerFail, Drop, callVars, chanVars
  <2>2. Gone' = Gone \cup {current}
    BY <1>18, <1>t, <2>1, LogGrows DEF WorkerFail, Drop, Gone, Dropped, Held
  <2>3. Line \in Seq(Writes)
    BY LineTyped
  <2>4. /\ 1 \in 1 .. Len(Line) /\ Line[1] = current
        /\ Line' = SubSeq(Line, 1, 1 - 1) \o SubSeq(Line, 1 + 1, Len(Line))
    <3>1. Len(Line) \in Nat /\ Len(Line) > 0
      BY <2>1, <2>3, TakeHead
    <3>2. SubSeq(Line, 1, 1 - 1) \o SubSeq(Line, 1 + 1, Len(Line)) = Tail(Line)
          /\ Line[1] = Head(Line)
      BY <2>1, <2>3, DropFirst
    <3> QED BY <2>1, <3>1, <3>2
  <2>5. UNCHANGED <<Acked, Refused, Awaited, Begun, Finished>>
    BY <2>1, PayloadsStay, BarriersStay
  <2>6. Delivery!DropPending(1)
    BY <2>1, <2>2, <2>4, <2>5 DEF Delivery!DropPending
  <2> QED BY <2>4, <2>6 DEF Delivery!Next
<1>19. ASSUME UNCHANGED <<queue, current, held, out, drops, pc, ret, before>>
       PROVE  Delivery!Next \/ Stutter
  BY <1>19, LineStays, PayloadsStay, BarriersStay DEF Gone, Dropped, Held
<1> HIDE DEF Stutter
<1>20. Delivery!Next \/ Stutter
  BY <1>1, <1>2, <1>3, <1>4, <1>5, <1>6, <1>7, <1>8, <1>9, <1>10, <1>11, <1>12, <1>13, <1>14,
     <1>15, <1>16, <1>17, <1>18, <1>19
  DEF Next, WriteBegin, WriteStep, CriticalBegin, DirectStep, DirectRetry, RetryWrite,
      FlushBegin, CloseStep, Worker, WorkerTakeFlush, WorkerTakeStop, WorkerTakeClosed,
      WorkerFlushed, WorkerDrained, WorkerRetry, vars, callVars, chanVars, workVars, sinkVars
<1> QED BY <1>s, <1>20

\* The writer implements the abstract log: whatever its channel, its worker and
\* its callers do, nothing is reordered, lost without a report, or pending behind
\* a barrier that completed.
THEOREM Refinement == Spec => RefinesLogDelivery
<1>1. Init => Delivery!Init
  BY DeliveryInit
<1>2. TypeInv /\ PlaceInv /\ HonestInv /\ BarrierInv /\ [Next]_vars
        => [Delivery!Next]_(Delivery!vars)
  BY DeliveryStep
<1> QED
  BY <1>1, <1>2, TypeInvInit, TypeInvStep, PlaceInvInit, PlaceInvStep, HonestInvInit, HonestInvStep,
     KnownInit, KnownStep, BarrierInvInit, BarrierInvStep, PTL
  DEF Spec, RefinesLogDelivery, Delivery!Spec
=============================================================================
