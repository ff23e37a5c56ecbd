------------------------- MODULE AsyncMetricsProofs -------------------------
(* Theorems about AsyncMetrics, for every set of moves, scrapes and edits.  *)
EXTENDS AsyncMetrics, SequenceTheorems, TLAPS

USE MovesAssumption

\* Who is who: what a move logs is an operation of the other writer.
LEMMA Operations ==
    /\ None \notin Ops
    /\ \A o \in Ops : /\ WriterOf(o) \in Writers /\ Kind(o) \in CounterNames
                      /\ IsMove(o) => Inner(o) \in Ops /\ Inner(o) # o /\ ~IsMove(Inner(o))
    /\ \A o, p \in Ops : IsMove(o) /\ IsMove(p) /\ Inner(o) = Inner(p) => o = p
<1>1. None \notin Ops
  BY DEF None, Ops, Writers
<1>2. \A o \in Ops : o = <<o[1], o[2]>> /\ o[1] \in Moves /\ o[2] \in Writers
  BY DEF Ops
<1>3. ASSUME NEW o \in Ops
      PROVE  /\ WriterOf(o) \in Writers /\ Kind(o) \in CounterNames
             /\ IsMove(o) => Inner(o) \in Ops /\ Inner(o) # o /\ ~IsMove(Inner(o))
  <2>1. WriterOf(o) \in Writers
    BY <1>2 DEF WriterOf
  <2>2. Kind(o) \in CounterNames
    BY <1>2 DEF Kind, CounterNames
  <2>3. Inner(o) \in Ops /\ Inner(o)[2] = "w2"
    BY <1>2 DEF Inner, Ops, Writers
  <2>4. IsMove(o) => Inner(o) # o /\ ~IsMove(Inner(o))
    BY <2>3 DEF IsMove
  <2> QED BY <2>1, <2>2, <2>3, <2>4
<1>4. \A o, p \in Ops : IsMove(o) /\ IsMove(p) /\ Inner(o) = Inner(p) => o = p
  BY <1>2 DEF Inner, IsMove
<1> QED BY <1>1, <1>3, <1>4

\* The two counters are read and stored at their two places.
LEMMA Places ==
    /\ Counters[1] = "enqueued" /\ Counters[2] = "processed" /\ Len(Counters) = 2
    /\ \A i \in 1 .. 2 : Counters[i] \in CounterNames
    /\ (CHOOSE i \in 1 .. 2 : Counters[i] = "enqueued") = 1
    /\ (CHOOSE i \in 1 .. 2 : Counters[i] = "processed") = 2
BY DEF Counters, CounterNames

\* A whole snapshot reports what was read.
LEMMA ReportOfSnapshot ==
    ASSUME NEW o, snapshot[o] \in Seq(Nat), Len(snapshot[o]) = 2
    PROVE  /\ Report(o) \in [CounterNames -> Nat]
           /\ Report(o)["enqueued"] = snapshot[o][1]
           /\ Report(o)["processed"] = snapshot[o][2]
<1>1. snapshot[o][1] \in Nat /\ snapshot[o][2] \in Nat
  OBVIOUS
<1>2. "enqueued" \in CounterNames /\ "processed" \in CounterNames
  BY DEF CounterNames
<1>3. Report(o)["enqueued"] = snapshot[o][1] /\ Report(o)["processed"] = snapshot[o][2]
  BY <1>2, Places DEF Report
<1> QED
  BY <1>1, <1>2, <1>3 DEF Report, CounterNames

\* Taking the head off a sequence of one or two.
LEMMA TakeHead ==
    ASSUME NEW s \in Seq(Nat), s # <<>>, Len(s) <= 2
    PROVE  /\ Head(s) \in Nat /\ Tail(s) \in Seq(Nat) /\ Len(s) \in 1 .. 2
           /\ Len(Tail(s)) = Len(s) - 1
           /\ Len(s) > 1 => Tail(s) # <<>>
<1>1. Head(s) \in Nat /\ Tail(s) \in Seq(Nat) /\ Len(Tail(s)) = Len(s) - 1
  BY HeadTailProperties
<1>2. Len(s) \in Nat /\ Len(s) # 0
  BY EmptySeq
<1>3. Len(s) \in 1 .. 2
  <2>1. \A n \in Nat : n # 0 /\ n <= 2 => n \in 1 .. 2
    OBVIOUS
  <2> QED BY <1>2, <2>1
<1>4. Tail(s) = <<>> => Len(s) - 1 = 0
  BY <1>1, EmptySeq
<1> QED BY <1>1, <1>3, <1>4

TypeInv == TypeOK /\ SnapshotInv

-----------------------------------------------------------------------------
(* Types and mutual exclusion. *)

LEMMA TypeInvInit == Init => TypeInv
<1> SUFFICES ASSUME Init PROVE TypeInv
  OBVIOUS
<1>1. Zero \in [CounterNames -> Nat]
  BY DEF Zero
<1>2. \A o \in Ops : pc[o] \in {"idle", "absent"} /\ pc[o] \notin Reporting /\ snapshot[o] = <<>>
  BY DEF Init, Reporting
<1>3. \A o \in Ops : metricsMu[WriterOf(o)] # o
  BY Operations DEF Init
<1>4. TypeOK
  BY <1>1, <1>2, <1>3 DEF Init, TypeOK, Labels
<1>5. SnapshotInv
  <2>1. \A o \in Ops : IsMove(o) => pc[Inner(o)] = "absent"
    BY Operations DEF Init
  <2> QED BY <1>2, <2>1 DEF SnapshotInv, SnapshotFits
<1> QED BY <1>4, <1>5 DEF TypeInv

\* An operation that moves within the critical section, or outside it, leaves
\* the mutexes to whoever holds them.
LEMMA MoveKeepsExclusion ==
    ASSUME TypeOK, NEW o \in Ops, NEW label \in Labels, Goto(o, label),
           label \in Reporting <=> pc[o] \in Reporting, UNCHANGED metricsMu
    PROVE  /\ pc' \in [Ops -> Labels]
           /\ \A p \in Ops : pc'[p] \in Reporting <=> metricsMu'[WriterOf(p)] = p
BY DEF TypeOK, Goto

LEMMA TypeInvStep == TypeInv /\ [Next]_vars => TypeInv'
<1> SUFFICES ASSUME TypeInv, [Next]_vars PROVE TypeInv'
  OBVIOUS
<1> USE DEF TypeInv
<1>p. \A o \in Ops : pc[o] \in Labels
  BY DEF TypeOK
<1>1. ASSUME NEW o \in Ops, Count(o) PROVE TypeInv'
  <2>1. pc[o] = "idle" /\ "lock" \in Labels /\ Goto(o, "lock")
    BY <1>1 DEF Count, Labels
  <2>2. cnt' \in [Writers -> [CounterNames -> Nat]]
    BY <1>1, Operations DEF Count, TypeOK
  <2>3. TypeOK'
    BY <1>1, <2>1, <2>2, MoveKeepsExclusion DEF Count, TypeOK, Reporting
  <2>4. SnapshotInv'
    BY <1>1, Operations DEF Count, Goto, SnapshotInv, SnapshotFits, TypeOK
  <2> QED BY <2>3, <2>4
<1>2. ASSUME NEW o \in Ops, Lock(o) PROVE TypeInv'
  <2>1. pc[o] = "lock" /\ metricsMu[WriterOf(o)] = None /\ WriterOf(o) \in Writers
    BY <1>2, Operations DEF Lock
  <2>2. pc' = [pc EXCEPT ![o] = "read"] /\ metricsMu' = [metricsMu EXCEPT ![WriterOf(o)] = o]
    BY <1>2 DEF Lock, Goto
  <2>3. pc' \in [Ops -> Labels] /\ metricsMu' \in [Writers -> Ops \cup {None}]
    BY <2>1, <2>2 DEF TypeOK, Labels
  <2>4. ASSUME NEW p \in Ops PROVE pc'[p] \in Reporting <=> metricsMu'[WriterOf(p)] = p
    <3>1. CASE p = o
      BY <2>1, <2>2, <3>1 DEF TypeOK, Reporting
    <3>2. CASE p # o /\ WriterOf(p) = WriterOf(o)
      <4>1. metricsMu[WriterOf(p)] # p
        BY <2>1, <3>2, Operations
      <4> QED BY <2>1, <2>2, <3>2, <4>1 DEF TypeOK
    <3>3. CASE p # o /\ WriterOf(p) # WriterOf(o)
      BY <2>1, <2>2, <3>3, Operations DEF TypeOK
    <3> QED BY <3>1, <3>2, <3>3
  <2>5. TypeOK'
    BY <1>2, <2>3, <2>4 DEF Lock, TypeOK
  <2>6. SnapshotInv'
    <3>1. Len(<<>>) = 0
      OBVIOUS
    <3>2. ASSUME NEW p \in Ops, p # o PROVE SnapshotFits(p)'
      <4>1. pc[Inner(p)] = "absent" /\ Inner(p) \in Ops => pc'[Inner(p)] = "absent"
        BY <2>1, <2>2 DEF TypeOK
      <4> QED BY <1>2, <2>2, <3>2, <4>1, Operations DEF Lock, SnapshotInv, SnapshotFits, TypeOK
    <3>3. SnapshotFits(o)'
      BY <1>2, <2>1, <2>2, <3>1, Operations DEF Lock, SnapshotInv, SnapshotFits, TypeOK
    <3> QED BY <3>2, <3>3 DEF SnapshotInv
  <2> QED BY <2>5, <2>6
<1>3. ASSUME NEW o \in Ops, Read(o) PROVE TypeInv'
  <2> DEFINE i == Len(snapshot[o]) + 1
             label == IF i = 2 THEN "configured" ELSE "read"
  <2>1. pc[o] = "read" /\ snapshot[o] \in Seq(Nat) /\ i \in 1 .. 2
    BY <1>3 DEF Read, TypeOK, SnapshotInv, SnapshotFits
  <2>2. cnt[WriterOf(o)][Counters[i]] \in Nat
    BY <2>1, Operations, Places DEF TypeOK
  <2>3. /\ snapshot' = [snapshot EXCEPT ![o] = Append(@, cnt[WriterOf(o)][Counters[i]])]
        /\ Goto(o, label)
    BY <1>3, Places DEF Read
  <2>4. snapshot'[o] \in Seq(Nat) /\ Len(snapshot'[o]) = i
    BY <2>1, <2>2, <2>3 DEF TypeOK
  <2>5. label \in Labels /\ label \in Reporting /\ pc[o] \in Reporting
    BY <2>1 DEF Labels, Reporting
  <2>6. pc' \in [Ops -> Labels] /\ \A p \in Ops : pc'[p] \in Reporting <=> metricsMu'[WriterOf(p)] = p
    <3> HIDE DEF label
    <3> QED BY <1>3, <2>3, <2>5, MoveKeepsExclusion DEF Read
  <2>7. TypeOK'
    <3>1. snapshot' \in [Ops -> Seq(Nat)]
      BY <2>3, <2>4 DEF TypeOK
    <3>2. \A p \in Ops : Len(snapshot'[p]) <= 2
      BY <2>1, <2>3, <2>4 DEF TypeOK
    <3> QED BY <1>3, <2>6, <3>1, <3>2 DEF Read, TypeOK
  <2>8. SnapshotInv'
    <3>1. pc' = [pc EXCEPT ![o] = label]
      BY <2>3 DEF Goto
    <3>2. ASSUME NEW p \in Ops, p # o PROVE SnapshotFits(p)'
      <4>1. pc[Inner(p)] = "absent" /\ Inner(p) \in Ops => pc'[Inner(p)] = "absent"
        BY <2>1, <3>1 DEF TypeOK
      <4>2. pc'[p] = pc[p] /\ snapshot'[p] = snapshot[p] /\ calling'[p] = calling[p]
        BY <1>3, <2>3, <3>1, <3>2 DEF Read, TypeOK
      <4> QED BY <4>1, <4>2, Operations DEF SnapshotInv, SnapshotFits
    <3>3. IsMove(o) => pc'[Inner(o)] = "absent"
      BY <2>1, <3>1, Operations DEF SnapshotInv, SnapshotFits, TypeOK
    <3>4. pc'[o] = label
      BY <3>1 DEF TypeOK
    <3>5. SnapshotFits(o)'
      BY <2>1, <2>4, <3>3, <3>4 DEF SnapshotFits
    <3> QED BY <3>2, <3>5 DEF SnapshotInv
  <2> QED BY <2>7, <2>8
<1>4. ASSUME NEW o \in Ops, ConfigHandler(o) PROVE TypeInv'
  <2>1. pc[o] = "configured" /\ snapshot[o] \in Seq(Nat) /\ Len(snapshot[o]) = 2
    BY <1>4 DEF ConfigHandler, TypeOK, SnapshotInv, SnapshotFits
  <2>2. told' \in [Writers -> [CounterNames -> Nat]]
    BY <1>4, <2>1, ReportOfSnapshot, Operations DEF ConfigHandler, TypeOK
  <2>3. CASE nested /\ IsMove(o)
    <3>1. pc' = [pc EXCEPT ![o] = "waiting", ![Inner(o)] = "idle"]
      BY <1>4, <2>3 DEF ConfigHandler
    <3>2. Inner(o) \in Ops /\ Inner(o) # o /\ ~IsMove(Inner(o)) /\ pc[Inner(o)] = "absent"
      BY <2>1, <2>3, Operations DEF SnapshotInv, SnapshotFits
    <3>3. pc' \in [Ops -> Labels] /\ \A p \in Ops : pc'[p] \in Reporting <=> pc[p] \in Reporting
      BY <2>1, <3>1, <3>2 DEF TypeOK, Labels, Reporting
    <3>4. TypeOK'
      BY <1>4, <2>2, <3>3 DEF ConfigHandler, TypeOK
    <3>5. SnapshotInv'
      BY <1>4, <2>1, <3>1, <3>2, Operations DEF ConfigHandler, SnapshotInv, SnapshotFits, TypeOK
    <3> QED BY <3>4, <3>5
  <2>4. CASE ~(nested /\ IsMove(o))
    <3>1. Goto(o, "emit") /\ "emit" \in Labels
      BY <1>4, <2>4 DEF ConfigHandler, Goto, Labels
    <3>2. TypeOK'
      BY <1>4, <2>1, <2>2, <3>1, MoveKeepsExclusion DEF ConfigHandler, TypeOK, Reporting
    <3>3. SnapshotInv'
      BY <1>4, <2>1, <3>1, Operations DEF ConfigHandler, Goto, SnapshotInv, SnapshotFits, TypeOK
    <3> QED BY <3>2, <3>3
  <2> QED BY <2>3, <2>4
<1>5. ASSUME NEW o \in Ops, HandlerReturns(o) PROVE TypeInv'
  <2>1. pc[o] = "waiting" /\ "emit" \in Labels /\ Goto(o, "emit")
    BY <1>5 DEF HandlerReturns, Labels
  <2>2. TypeOK'
    BY <1>5, <2>1, MoveKeepsExclusion DEF HandlerReturns, TypeOK, Reporting
  <2>3. SnapshotInv'
    BY <1>5, <2>1, Operations DEF HandlerReturns, Goto, SnapshotInv, SnapshotFits, TypeOK
  <2> QED BY <2>2, <2>3
<1>6. ASSUME NEW o \in Ops, Emit(o) PROVE TypeInv'
  <2>1. pc[o] = "emit" /\ "observe" \in Labels /\ Goto(o, "observe")
    BY <1>6 DEF Emit, Labels
  <2>2. TypeOK'
    BY <1>6, <2>1, MoveKeepsExclusion DEF Emit, TypeOK, Reporting
  <2>3. snapshot[o] # <<>>
    BY <2>1 DEF SnapshotInv, SnapshotFits
  <2>4. SnapshotInv'
    BY <1>6, <2>1, <2>3, Operations DEF Emit, Goto, SnapshotInv, SnapshotFits, TypeOK
  <2> QED BY <2>2, <2>4
<1>7. ASSUME NEW o \in Ops, Observe(o) PROVE TypeInv'
  <2>1. pc[o] = "observe" /\ calling[o] /\ snapshot[o] \in Seq(Nat) /\ snapshot[o] # <<>>
    BY <1>7 DEF Observe, TypeOK, SnapshotInv, SnapshotFits
  <2>2. /\ Head(snapshot[o]) \in Nat /\ Tail(snapshot[o]) \in Seq(Nat) /\ Len(snapshot[o]) \in 1 .. 2
        /\ Len(Tail(snapshot[o])) = Len(snapshot[o]) - 1
        /\ Len(snapshot[o]) > 1 => Tail(snapshot[o]) # <<>>
    <3>1. Len(snapshot[o]) <= 2
      BY DEF TypeOK
    <3> QED BY <2>1, <3>1, TakeHead
  <2>3. exporter' \in [CounterNames -> Nat]
    BY <1>7, <2>2, Places DEF Observe, TypeOK
  <2>4. snapshot' = [snapshot EXCEPT ![o] = Tail(@)] /\ calling' = [calling EXCEPT ![o] = Len(snapshot[o]) > 1]
    BY <1>7 DEF Observe
  <2>5. TypeOK'
    BY <1>7, <2>2, <2>3, <2>4 DEF Observe, TypeOK
  <2>6. calling'[o] => snapshot'[o] # <<>>
    <3>1. snapshot'[o] = Tail(snapshot[o]) /\ calling'[o] = (Len(snapshot[o]) > 1)
      BY <2>4 DEF TypeOK
    <3> QED BY <2>2, <3>1
  <2>7. ASSUME NEW p \in Ops PROVE SnapshotFits(p)'
    <3>1. p # o => snapshot'[p] = snapshot[p] /\ calling'[p] = calling[p]
      BY <2>4 DEF TypeOK
    <3> QED BY <1>7, <2>1, <2>6, <3>1 DEF Observe, SnapshotInv, SnapshotFits
  <2>8. SnapshotInv'
    BY <2>7 DEF SnapshotInv
  <2> QED BY <2>5, <2>8
<1>8. ASSUME NEW o \in Ops, Unlock(o) PROVE TypeInv'
  <2>1. pc[o] = "observe" /\ metricsMu[WriterOf(o)] = o /\ WriterOf(o) \in Writers
    BY <1>8, Operations DEF Unlock, TypeOK, Reporting
  <2>2. pc' = [pc EXCEPT ![o] = "done"] /\ metricsMu' = [metricsMu EXCEPT ![WriterOf(o)] = None]
    BY <1>8 DEF Unlock, Goto
  <2>3. pc' \in [Ops -> Labels] /\ metricsMu' \in [Writers -> Ops \cup {None}]
    BY <2>1, <2>2 DEF TypeOK, Labels
  <2>4. ASSUME NEW p \in Ops PROVE pc'[p] \in Reporting <=> metricsMu'[WriterOf(p)] = p
    <3>1. CASE p = o
      BY <2>1, <2>2, <3>1, Operations DEF TypeOK, Reporting
    <3>2. CASE p # o /\ WriterOf(p) = WriterOf(o)
      BY <2>1, <2>2, <3>2, Operations DEF TypeOK
    <3>3. CASE p # o /\ WriterOf(p) # WriterOf(o)
      BY <2>1, <2>2, <3>3, Operations DEF TypeOK
    <3> QED BY <3>1, <3>2, <3>3
  <2>5. <<>> \in Seq(Nat) /\ Len(<<>>) = 0
    OBVIOUS
  <2>6. TypeOK'
    <3>1. snapshot' \in [Ops -> Seq(Nat)] /\ \A p \in Ops : Len(snapshot'[p]) <= 2
      BY <1>8, <2>5 DEF Unlock, TypeOK
    <3> QED BY <1>8, <2>3, <2>4, <3>1 DEF Unlock, TypeOK
  <2>7. SnapshotInv'
    BY <1>8, <2>1, <2>2, Operations DEF Unlock, SnapshotInv, SnapshotFits, TypeOK
  <2> QED BY <2>6, <2>7
<1>9. ASSUME NEW s \in Scrapes, Scrape(s) PROVE TypeInv'
  <2>1. view[s] \in Seq(Nat) /\ Len(view[s]) + 1 \in 1 .. 2
    BY <1>9, Places DEF Scrape, TypeOK
  <2>2. exporter[Counters[Len(view[s]) + 1]] \in Nat
    BY <2>1, Places DEF TypeOK
  <2>3. view' \in [Scrapes -> Seq(Nat)]
    BY <1>9, <2>1, <2>2 DEF Scrape, TypeOK
  <2> QED BY <1>9, <2>3 DEF Scrape, TypeOK, SnapshotInv, SnapshotFits
<1>10. ASSUME RegisterAsyncMetricsHandler \/ ClearAsyncMetricsHandlers PROVE TypeInv'
  <2>1. edits' \in 0 .. MaxEdits /\ handlers' \in BOOLEAN
    <3>1. edits' \in 0 .. MaxEdits
      BY <1>10 DEF RegisterAsyncMetricsHandler, ClearAsyncMetricsHandlers, Edit, TypeOK
    <3>2. handlers' \in BOOLEAN
      BY <1>10 DEF RegisterAsyncMetricsHandler, ClearAsyncMetricsHandlers, Edit
    <3> QED BY <3>1, <3>2
  <2> QED BY <1>10, <2>1 DEF RegisterAsyncMetricsHandler, ClearAsyncMetricsHandlers, Edit, TypeOK, SnapshotInv, SnapshotFits
<1>11. CASE UNCHANGED vars
  BY <1>11 DEF vars, TypeOK, SnapshotInv, SnapshotFits
<1> QED
  BY <1>1, <1>2, <1>3, <1>4, <1>5, <1>6, <1>7, <1>8, <1>9, <1>10, <1>11 DEF Next, Step

\* Types, and the mutual exclusion of those who report for one writer, whatever
\* handlers are registered or log, and however many counters move at once.
THEOREM ReportsAreExclusive == Spec => []TypeOK
<1>1. TypeInv => TypeOK
  BY DEF TypeInv
<1> QED
  BY <1>1, TypeInvInit, TypeInvStep, PTL DEF Spec

-----------------------------------------------------------------------------
(* No move is left unreported. *)

\* Of a writer, one operation reports at a time.
LEMMA OneReporter ==
    ASSUME TypeOK, NEW o \in Ops, NEW p \in Ops, WriterOf(o) = WriterOf(p),
           pc[o] \in Reporting, pc[p] \in Reporting
    PROVE  o = p
BY DEF TypeOK

\* A step that leaves a writer's counters, its last report and those on their way
\* to report alone.
LEMMA ReportedKept ==
    ASSUME NEW w \in Writers, Reported(w), told'[w] = told[w], cnt'[w] = cnt[w],
           \A o \in Ops : WriterOf(o) = w =>
               /\ pc[o] = "lock" <=> pc'[o] = "lock"
               /\ Reads(o) <=> Reads(o)'
               /\ Reads(o) => snapshot'[o] = snapshot[o]
    PROVE  Reported(w)'
<1>1. CASE AboutToReport(w)
  BY <1>1 DEF AboutToReport, Reported
<1>2. ASSUME NEW o \in Ops, WriterOf(o) = w, Reads(o), IsFresh(o) PROVE Reported(w)'
  BY <1>2 DEF IsFresh, Reported
<1>3. CASE told[w] = cnt[w] /\ \A o \in Ops : WriterOf(o) = w => ~Reads(o)
  BY <1>3 DEF Reported
<1> QED BY <1>1, <1>2, <1>3 DEF Reported

LEMMA ReportInvInit == Init => ReportInv
BY DEF Init, ReportInv, Reported, Reads

\* Whoever reads a counter is the one whose snapshot has missed nothing, or
\* somebody is waiting to report after it.
LEMMA ReadKeepsReported ==
    ASSUME TypeInv, ReportInv, NEW o \in Ops, Read(o)
    PROVE  Reported(WriterOf(o))'
<1> DEFINE w == WriterOf(o)
           i == Len(snapshot[o]) + 1
<1>1. w \in Writers /\ pc[o] = "read" /\ Reported(w)
  BY Operations DEF Read, ReportInv
<1>2. /\ pc' = [pc EXCEPT ![o] = IF i = 2 THEN "configured" ELSE "read"]
      /\ snapshot' = [snapshot EXCEPT ![o] = Append(@, cnt[w][Counters[i]])]
      /\ cnt' = cnt /\ told' = told
  BY Places DEF Read, Goto
<1>3. CASE AboutToReport(w)
  BY <1>1, <1>2, <1>3 DEF AboutToReport, Reported, TypeInv, TypeOK
<1>4. ASSUME NEW q \in Ops, WriterOf(q) = w, Reads(q), IsFresh(q) PROVE Reported(w)'
  <2>1. q = o
    BY <1>1, <1>4, OneReporter DEF Reads, Reporting, TypeInv
  <2>2. snapshot[o] \in Seq(Nat) /\ snapshot'[o] = Append(snapshot[o], cnt[w][Counters[i]])
    BY <1>2 DEF TypeInv, TypeOK
  <2>3. IsFresh(o)'
    <3>1. \A j \in 1 .. Len(snapshot'[o]) :
             snapshot'[o][j] = IF j = i THEN cnt[w][Counters[i]] ELSE snapshot[o][j]
      BY <2>2
    <3>2. \A j \in 1 .. Len(snapshot'[o]) : j # i => j \in 1 .. Len(snapshot[o])
      BY <2>2
    <3> QED BY <1>2, <1>4, <2>1, <3>1, <3>2 DEF IsFresh
  <2>4. Reads(o)'
    BY <1>2 DEF Reads, TypeInv, TypeOK
  <2> QED BY <2>3, <2>4 DEF Reported
<1>5. CASE \A p \in Ops : WriterOf(p) = w => ~Reads(p)
  BY <1>1, <1>5 DEF Reads
<1> QED BY <1>1, <1>3, <1>4, <1>5 DEF Reported

\* What the handler is told is up to date, or somebody waits to report again.
LEMMA HandlerKeepsReported ==
    ASSUME TypeInv, ReportInv, NEW o \in Ops, ConfigHandler(o)
    PROVE  Reported(WriterOf(o))'
<1> DEFINE w == WriterOf(o)
<1>1. /\ w \in Writers /\ pc[o] = "configured" /\ Reported(w)
      /\ snapshot[o] \in Seq(Nat) /\ Len(snapshot[o]) = 2
  BY Operations DEF ConfigHandler, ReportInv, TypeInv, TypeOK, SnapshotInv, SnapshotFits
<1>2. cnt' = cnt /\ told'[w] = Report(o)
  BY <1>1 DEF ConfigHandler, TypeInv, TypeOK
<1>3. \A p \in Ops : p # o => pc'[p] = pc[p] \/ (pc[p] = "absent" /\ pc'[p] = "idle")
  BY <1>1, Operations DEF ConfigHandler, TypeInv, TypeOK, SnapshotInv, SnapshotFits
<1>4. ~Reads(o)'
  <2>1. IsMove(o) => Inner(o) # o
    BY Operations
  <2> QED BY <2>1 DEF ConfigHandler, Reads, TypeInv, TypeOK
<1>5. CASE AboutToReport(w)
  BY <1>1, <1>3, <1>5 DEF AboutToReport, Reported
<1>6. ASSUME NEW q \in Ops, WriterOf(q) = w, Reads(q), IsFresh(q) PROVE Reported(w)'
  <2>1. q = o
    BY <1>1, <1>6, OneReporter DEF Reads, Reporting, TypeInv
  <2>2. snapshot[o][1] = cnt[w]["enqueued"] /\ snapshot[o][2] = cnt[w]["processed"]
    BY <1>1, <1>6, <2>1, Places DEF IsFresh
  <2>3. told'[w] = cnt'[w]
    <3>1. cnt[w] \in [CounterNames -> Nat] /\ Report(o) \in [CounterNames -> Nat]
      BY <1>1, ReportOfSnapshot DEF TypeInv, TypeOK
    <3>2. \A k \in CounterNames : Report(o)[k] = cnt[w][k]
      BY <1>1, <2>2, ReportOfSnapshot DEF CounterNames
    <3> QED BY <1>2, <3>1, <3>2
  <2>4. ASSUME NEW p \in Ops, WriterOf(p) = w PROVE ~Reads(p)'
    <3>1. CASE p = o
      BY <1>4, <3>1
    <3>2. CASE p # o
      <4>1. pc[p] \notin Reporting
        BY <1>1, <2>4, <3>2, OneReporter DEF Reporting, TypeInv
      <4> QED BY <1>3, <3>2, <4>1 DEF Reads, Reporting
    <3> QED BY <3>1, <3>2
  <2> QED BY <2>3, <2>4 DEF Reported
<1>7. CASE \A p \in Ops : WriterOf(p) = w => ~Reads(p)
  BY <1>1, <1>7 DEF Reads
<1> QED BY <1>1, <1>5, <1>6, <1>7 DEF Reported

LEMMA ReportInvStep == TypeInv /\ ReportInv /\ [Next]_vars => ReportInv'
<1> SUFFICES ASSUME TypeInv, ReportInv, [Next]_vars, NEW w \in Writers
             PROVE  Reported(w)'
  BY DEF ReportInv
<1>r. Reported(w)
  BY DEF ReportInv
<1>1. ASSUME NEW o \in Ops, Count(o) PROVE Reported(w)'
  <2>1. CASE WriterOf(o) = w
    BY <1>1, <2>1 DEF Count, Goto, Reported, AboutToReport, TypeInv, TypeOK
  <2>2. CASE WriterOf(o) # w
    BY <1>1, <1>r, <2>2, ReportedKept DEF Count, Goto, Reads, TypeInv, TypeOK
  <2> QED BY <2>1, <2>2
<1>2. ASSUME NEW o \in Ops, Lock(o) PROVE Reported(w)'
  <2>1. CASE WriterOf(o) = w
    <3>1. snapshot'[o] = <<>> /\ pc'[o] = "read"
      BY <1>2 DEF Lock, Goto, TypeInv, TypeOK, SnapshotInv, SnapshotFits
    <3>2. IsFresh(o)' /\ Reads(o)'
      BY <3>1, Len(<<>>) = 0 DEF IsFresh, Reads
    <3> QED BY <2>1, <3>2 DEF Reported
  <2>2. CASE WriterOf(o) # w
    BY <1>2, <1>r, <2>2, ReportedKept DEF Lock, Goto, Reads, TypeInv, TypeOK
  <2> QED BY <2>1, <2>2
<1>3. ASSUME NEW o \in Ops, Read(o) PROVE Reported(w)'
  <2>1. CASE WriterOf(o) = w
    BY <1>3, <2>1, ReadKeepsReported
  <2>2. CASE WriterOf(o) # w
    BY <1>3, <1>r, <2>2, ReportedKept DEF Read, Goto, Reads, TypeInv, TypeOK
  <2> QED BY <2>1, <2>2
<1>4. ASSUME NEW o \in Ops, ConfigHandler(o) PROVE Reported(w)'
  <2>1. CASE WriterOf(o) = w
    BY <1>4, <2>1, HandlerKeepsReported
  <2>2. CASE WriterOf(o) # w
    <3>1. told'[w] = told[w] /\ cnt' = cnt /\ snapshot' = snapshot
      BY <1>4, <2>2 DEF ConfigHandler, TypeInv, TypeOK
    <3>2. \A p \in Ops : p # o => pc'[p] = pc[p] \/ (pc[p] = "absent" /\ pc'[p] = "idle")
      BY <1>4, Operations DEF ConfigHandler, TypeInv, TypeOK, SnapshotInv, SnapshotFits
    <3> QED BY <1>r, <2>2, <3>1, <3>2, ReportedKept DEF Reads
  <2> QED BY <2>1, <2>2
<1>5. ASSUME NEW o \in Ops, HandlerReturns(o) \/ Emit(o) \/ Observe(o) \/ Unlock(o)
      PROVE  Reported(w)'
  BY <1>5, <1>r, ReportedKept DEF HandlerReturns, Emit, Observe, Unlock, Goto, Reads, TypeInv, TypeOK
<1>6. ASSUME NEW s \in Scrapes, Scrape(s) PROVE Reported(w)'
  BY <1>6, <1>r, ReportedKept DEF Scrape, Reads
<1>7. ASSUME RegisterAsyncMetricsHandler \/ ClearAsyncMetricsHandlers PROVE Reported(w)'
  BY <1>7, <1>r, ReportedKept DEF RegisterAsyncMetricsHandler, ClearAsyncMetricsHandlers, Edit, Reads
<1>8. CASE UNCHANGED vars
  BY <1>8, <1>r, ReportedKept DEF vars, Reads
<1> QED
  BY <1>1, <1>2, <1>3, <1>4, <1>5, <1>6, <1>7, <1>8 DEF Next, Step

\* Whatever moved the counters of a writer, and however the reports overlapped,
\* when nothing is under way its handler has been told the final counters.
THEOREM LastReport == Spec => []LastReportIsCurrent
<1>1. ReportInv => LastReportIsCurrent
  BY DEF ReportInv, Reported, AboutToReport, Reads, LastReportIsCurrent, Quiet
<1> QED
  BY <1>1, TypeInvInit, TypeInvStep, ReportInvInit, ReportInvStep, PTL DEF Spec

-----------------------------------------------------------------------------
(* Nobody who watches sees a counter go back. *)

LEMMA GrowInvInit == Init => GrowInv
<1> SUFFICES ASSUME Init PROVE GrowInv
  OBVIOUS
<1>1. Len(<<>>) = 0
  OBVIOUS
<1>2. \A k \in CounterNames : Zero[k] = 0
  BY DEF Zero
<1>3. ToldInv
  BY <1>2 DEF Init, ToldInv, Reads
<1>4. ExporterInv
  <2>1. \A k \in CounterNames : exporter[k] = 0 /\ told["w1"][k] = 0
    BY <1>2 DEF Init, Writers
  <2>2. \A o \in Ops : pc[o] \in {"idle", "absent"} /\ (~IsMove(o) => pc[o] = "absent")
    BY DEF Init
  <2>3. \A o \in Ops : pc[o] \notin {"emit", "observe", "waiting"}
    BY <2>2
  <2>4. \A o \in Ops : StoresTold(o) /\ pc[o] # "waiting" /\ (~IsMove(o) => pc[o] = "absent")
    BY <2>2, <2>3 DEF StoresTold
  <2>5. \A k \in CounterNames : exporter[k] <= told["w1"][k]
    BY <2>1
  <2> QED BY <2>4, <2>5 DEF ExporterInv
<1>5. ViewInv
  <2>1. \A s \in Scrapes : view[s] = <<>>
    BY DEF Init
  <2> QED BY <1>1, <2>1 DEF ViewInv
<1> QED BY <1>3, <1>4, <1>5 DEF GrowInv

\* What is being read stays between what was told and what is counted, when
\* neither goes back and nothing is told to the writer of one who reads.
LEMMA ToldKept ==
    ASSUME TypeOK, TypeOK', ToldInv, told' = told,
           \A w \in Writers, k \in CounterNames : cnt[w][k] <= cnt'[w][k],
           \A o \in Ops : Reads(o)' => (Reads(o) /\ snapshot'[o] = snapshot[o]) \/ snapshot'[o] = <<>>
    PROVE  ToldInv'
<1>n. \A w \in Writers, k \in CounterNames :
          told[w][k] \in Nat /\ cnt[w][k] \in Nat /\ cnt'[w][k] \in Nat
  BY DEF TypeOK
<1>1. \A w \in Writers, k \in CounterNames : told'[w][k] <= cnt'[w][k]
  BY <1>n DEF ToldInv
<1>2. ASSUME NEW o \in Ops, Reads(o)', NEW i \in 1 .. Len(snapshot'[o])
      PROVE  /\ told'[WriterOf(o)][Counters[i]] <= snapshot'[o][i]
             /\ snapshot'[o][i] <= cnt'[WriterOf(o)][Counters[i]]
  <2>1. snapshot'[o] # <<>>
    BY <1>2
  <2>2. Reads(o) /\ snapshot'[o] = snapshot[o]
    BY <1>2, <2>1
  <2>3. WriterOf(o) \in Writers /\ Counters[i] \in CounterNames /\ snapshot[o][i] \in Nat
    <3>1. snapshot[o] \in Seq(Nat) /\ Len(snapshot[o]) <= 2 /\ i \in 1 .. Len(snapshot[o])
      BY <1>2, <2>2 DEF TypeOK
    <3>2. i \in 1 .. 2 /\ snapshot[o][i] \in Nat
      BY <3>1
    <3> QED BY <3>2, Operations, Places
  <2>4. /\ told[WriterOf(o)][Counters[i]] <= snapshot[o][i]
        /\ snapshot[o][i] <= cnt[WriterOf(o)][Counters[i]]
    BY <1>2, <2>2 DEF ToldInv
  <2>5. cnt[WriterOf(o)][Counters[i]] <= cnt'[WriterOf(o)][Counters[i]]
    BY <2>3
  <2> QED BY <1>n, <2>2, <2>3, <2>4, <2>5
<1> QED BY <1>1, <1>2 DEF ToldInv

\* A report tells what was read, and nothing less than was told before.
LEMMA TellingGrows ==
    ASSUME TypeInv, ToldInv, NEW o \in Ops, ConfigHandler(o)
    PROVE  /\ \A w \in Writers, k \in CounterNames :
                 told[w][k] <= told'[w][k] /\ told'[w][k] <= cnt[w][k]
           /\ \A i \in 1 .. 2 : told'[WriterOf(o)][Counters[i]] = snapshot[o][i]
<1>1. /\ WriterOf(o) \in Writers /\ pc[o] = "configured"
      /\ snapshot[o] \in Seq(Nat) /\ Len(snapshot[o]) = 2
  BY Operations DEF ConfigHandler, TypeInv, TypeOK, SnapshotInv, SnapshotFits
<1>2. told' = [told EXCEPT ![WriterOf(o)] = Report(o)]
  BY DEF ConfigHandler
<1>3. \A w \in Writers : told'[w] = IF w = WriterOf(o) THEN Report(o) ELSE told[w]
  BY <1>1, <1>2 DEF TypeInv, TypeOK
<1>4. \A i \in 1 .. 2 : Report(o)[Counters[i]] = snapshot[o][i]
  BY <1>1, ReportOfSnapshot, Places
<1>5. \A i \in 1 .. 2 : /\ told[WriterOf(o)][Counters[i]] <= snapshot[o][i]
                        /\ snapshot[o][i] <= cnt[WriterOf(o)][Counters[i]]
  BY <1>1 DEF ToldInv, Reads
<1>6. \A k \in CounterNames : \E i \in 1 .. 2 : k = Counters[i]
  BY Places DEF CounterNames
<1>7. \A w \in Writers, k \in CounterNames : told[w][k] \in Nat /\ told[w][k] <= cnt[w][k]
  BY DEF TypeInv, TypeOK, ToldInv
<1>8. ASSUME NEW w \in Writers, NEW k \in CounterNames
      PROVE  told[w][k] <= told'[w][k] /\ told'[w][k] <= cnt[w][k]
  <2>1. CASE w = WriterOf(o)
    BY <1>3, <1>4, <1>5, <1>6, <2>1
  <2>2. CASE w # WriterOf(o)
    BY <1>3, <1>7, <2>2
  <2> QED BY <2>1, <2>2
<1> QED BY <1>1, <1>3, <1>4, <1>8

LEMMA ToldInvStep == TypeInv /\ TypeInv' /\ ToldInv /\ [Next]_vars => ToldInv'
<1> SUFFICES ASSUME TypeInv, TypeInv', ToldInv, [Next]_vars PROVE ToldInv'
  OBVIOUS
<1>t. TypeOK /\ TypeOK'
  BY DEF TypeInv
<1>n. \A w \in Writers, k \in CounterNames : told[w][k] \in Nat /\ cnt[w][k] \in Nat
  BY DEF TypeInv, TypeOK
<1>1. ASSUME NEW o \in Ops, Count(o) PROVE ToldInv'
  <2>1. \A w \in Writers, k \in CounterNames : cnt[w][k] <= cnt'[w][k]
    BY <1>1, <1>n, Operations DEF Count, TypeInv, TypeOK
  <2>2. \A p \in Ops : Reads(p)' => Reads(p)
    BY <1>1 DEF Count, Goto, Reads, TypeInv, TypeOK
  <2>3. told' = told /\ snapshot' = snapshot
    BY <1>1 DEF Count
  <2> QED BY <1>t, <2>1, <2>2, <2>3, ToldKept
<1>2. ASSUME NEW o \in Ops, Lock(o) PROVE ToldInv'
  <2>1. snapshot'[o] = <<>> /\ snapshot' = snapshot /\ told' = told /\ cnt' = cnt
    BY <1>2 DEF Lock, TypeInv, SnapshotInv, SnapshotFits
  <2>2. \A p \in Ops : p # o /\ Reads(p)' => Reads(p)
    BY <1>2 DEF Lock, Goto, Reads, TypeInv, TypeOK
  <2> QED BY <1>t, <1>n, <2>1, <2>2, ToldKept
<1>3. ASSUME NEW o \in Ops, Read(o) PROVE ToldInv'
  <2> DEFINE w == WriterOf(o)
             j == Len(snapshot[o]) + 1
  <2>1. /\ w \in Writers /\ pc[o] = "read" /\ snapshot[o] \in Seq(Nat) /\ j \in 1 .. 2
        /\ snapshot' = [snapshot EXCEPT ![o] = Append(@, cnt[w][Counters[j]])]
        /\ cnt' = cnt /\ told' = told
    BY <1>3, Operations DEF Read, TypeInv, TypeOK, SnapshotInv, SnapshotFits
  <2>2. snapshot'[o] = Append(snapshot[o], cnt[w][Counters[j]]) /\ Counters[j] \in CounterNames
    BY <2>1, Places DEF TypeInv, TypeOK
  <2>3. ASSUME NEW p \in Ops, Reads(p)', NEW i \in 1 .. Len(snapshot'[p])
        PROVE  /\ told[WriterOf(p)][Counters[i]] <= snapshot'[p][i]
               /\ snapshot'[p][i] <= cnt[WriterOf(p)][Counters[i]]
    <3>1. CASE p = o /\ i = j
      <4>1. snapshot'[p][i] = cnt[w][Counters[j]]
        BY <2>1, <2>2, <3>1
      <4>2. told[w][Counters[j]] <= cnt[w][Counters[j]]
        BY <2>1, <2>2 DEF ToldInv
      <4> QED BY <1>n, <2>1, <2>2, <3>1, <4>1, <4>2
    <3>2. CASE p = o /\ i # j
      <4>1. i \in 1 .. Len(snapshot[o]) /\ snapshot'[p][i] = snapshot[o][i] /\ Reads(o)
        BY <2>1, <2>2, <2>3, <3>2 DEF Reads
      <4> QED BY <3>2, <4>1 DEF ToldInv
    <3>3. CASE p # o
      <4>1. Reads(p) /\ snapshot'[p] = snapshot[p]
        BY <1>3, <2>1, <2>3, <3>3 DEF Read, Goto, Reads, TypeInv, TypeOK
      <4> QED BY <2>3, <4>1 DEF ToldInv
    <3> QED BY <3>1, <3>2, <3>3
  <2> QED BY <2>1, <2>3 DEF ToldInv
<1>4. ASSUME NEW o \in Ops, ConfigHandler(o) PROVE ToldInv'
  <2>1. /\ \A w \in Writers, k \in CounterNames : told'[w][k] <= cnt[w][k]
        /\ cnt' = cnt /\ snapshot' = snapshot /\ pc[o] = "configured"
    BY <1>4, TellingGrows DEF ConfigHandler
  <2>2. ASSUME NEW p \in Ops, Reads(p)', NEW i \in 1 .. Len(snapshot[p])
        PROVE  /\ told'[WriterOf(p)][Counters[i]] <= snapshot[p][i]
               /\ snapshot[p][i] <= cnt[WriterOf(p)][Counters[i]]
    <3>1. p # o /\ Reads(p)
      BY <1>4, <2>2, Operations DEF ConfigHandler, Reads, TypeInv, TypeOK, SnapshotInv, SnapshotFits
    <3>2. WriterOf(p) # WriterOf(o)
      BY <1>t, <2>1, <3>1, OneReporter DEF Reads, Reporting
    <3>3. told'[WriterOf(p)] = told[WriterOf(p)]
      BY <1>4, <3>2, Operations DEF ConfigHandler, TypeInv, TypeOK
    <3> QED BY <2>2, <3>1, <3>3 DEF ToldInv
  <2> QED BY <2>1, <2>2 DEF ToldInv
<1>5. ASSUME NEW o \in Ops, HandlerReturns(o) \/ Emit(o) \/ Observe(o) \/ Unlock(o)
      PROVE  ToldInv'
  <2>1. told' = told /\ cnt' = cnt
    BY <1>5 DEF HandlerReturns, Emit, Observe, Unlock
  <2>2. \A p \in Ops : Reads(p)' => Reads(p) /\ snapshot'[p] = snapshot[p]
    BY <1>5 DEF HandlerReturns, Emit, Observe, Unlock, Goto, Reads, TypeInv, TypeOK
  <2> QED BY <1>t, <1>n, <2>1, <2>2, ToldKept
<1>6. CASE \/ \E s \in Scrapes : Scrape(s)
           \/ RegisterAsyncMetricsHandler \/ ClearAsyncMetricsHandlers \/ UNCHANGED vars
  <2>1. told' = told /\ cnt' = cnt /\ pc' = pc /\ snapshot' = snapshot
    BY <1>6 DEF Scrape, RegisterAsyncMetricsHandler, ClearAsyncMetricsHandlers, Edit, vars
  <2>2. \A p \in Ops : Reads(p)' => Reads(p)
    BY <2>1 DEF Reads
  <2> QED BY <1>t, <1>n, <2>1, <2>2, ToldKept
<1> QED
  BY <1>1, <1>2, <1>3, <1>4, <1>5, <1>6 DEF Next, Step

\* Where a counter is stored: the place from which it was read.
LEMMA StoringPlace ==
    ASSUME NEW n \in 1 .. 2
    PROVE  Counters[3 - n] \in CounterNames /\ \A i \in 1 .. n : i + 2 - n \in 1 .. 2
<1>1. 3 - n \in 1 .. 2 /\ \A i \in 1 .. n : i + 2 - n \in 1 .. 2
  OBVIOUS
<1> QED BY <1>1, Places

\* What the program logs about metrics is settled beforehand.
LEMMA NestedStays == [Next]_vars => nested' = nested
<1> SUFFICES ASSUME [Next]_vars PROVE nested' = nested
  OBVIOUS
<1>1. ASSUME NEW o \in Ops, ConfigHandler(o) PROVE nested' = nested
  BY <1>1 DEF ConfigHandler
<1>2. ASSUME NEW o \in Ops, Count(o) \/ Lock(o) \/ Read(o) PROVE nested' = nested
  BY <1>2 DEF Count, Lock, Read
<1>3. ASSUME NEW o \in Ops, HandlerReturns(o) \/ Emit(o) \/ Observe(o) \/ Unlock(o)
      PROVE  nested' = nested
  BY <1>3 DEF HandlerReturns, Emit, Observe, Unlock
<1>4. CASE \/ \E s \in Scrapes : Scrape(s)
           \/ RegisterAsyncMetricsHandler \/ ClearAsyncMetricsHandlers \/ UNCHANGED vars
  BY <1>4 DEF Scrape, RegisterAsyncMetricsHandler, ClearAsyncMetricsHandlers, Edit, vars
<1> QED BY <1>1, <1>2, <1>3, <1>4 DEF Next, Step

LEMMA ExporterInvStep == TypeInv /\ ToldInv /\ ExporterInv /\ [Next]_vars => ExporterInv'
<1> SUFFICES ASSUME TypeInv, ToldInv, ExporterInv, [Next]_vars, ~nested', ~nested
             PROVE  /\ \A o \in Ops : /\ StoresTold(o)' /\ pc'[o] # "waiting"
                                      /\ ~IsMove(o) => pc'[o] = "absent"
                    /\ \A k \in CounterNames : exporter'[k] <= told'["w1"][k]
  BY NestedStays DEF ExporterInv
<1>e. \A k \in CounterNames : exporter[k] <= told["w1"][k]
  BY DEF ExporterInv
<1>n. "w1" \in Writers /\ \A k \in CounterNames : exporter[k] \in Nat /\ told["w1"][k] \in Nat
  BY DEF TypeInv, TypeOK, Writers
<1>o. \A o \in Ops : StoresTold(o) /\ pc[o] # "waiting" /\ (~IsMove(o) => pc[o] = "absent")
  BY DEF ExporterInv
<1>1. ASSUME NEW o \in Ops, Count(o) \/ Lock(o) \/ Unlock(o)
      PROVE  /\ \A p \in Ops : /\ StoresTold(p)' /\ pc'[p] # "waiting"
                               /\ ~IsMove(p) => pc'[p] = "absent"
             /\ \A k \in CounterNames : exporter'[k] <= told'["w1"][k]
  <2>1. exporter' = exporter /\ told' = told /\ pc[o] \in {"idle", "lock", "observe"}
    BY <1>1 DEF Count, Lock, Unlock
  <2>2. pc'[o] \in {"lock", "read", "done"} /\ \A p \in Ops : p # o => pc'[p] = pc[p] /\ snapshot'[p] = snapshot[p]
    BY <1>1 DEF Count, Lock, Unlock, Goto, TypeInv, TypeOK
  <2>3. ASSUME NEW p \in Ops PROVE StoresTold(p)' /\ pc'[p] # "waiting" /\ (~IsMove(p) => pc'[p] = "absent")
    BY <1>o, <2>1, <2>2 DEF StoresTold
  <2> QED BY <1>e, <2>1, <2>3
<1>2. ASSUME NEW o \in Ops, Read(o)
      PROVE  /\ \A p \in Ops : /\ StoresTold(p)' /\ pc'[p] # "waiting"
                               /\ ~IsMove(p) => pc'[p] = "absent"
             /\ \A k \in CounterNames : exporter'[k] <= told'["w1"][k]
  <2>1. exporter' = exporter /\ told' = told /\ pc[o] = "read"
    BY <1>2 DEF Read
  <2>2. pc'[o] \in {"read", "configured"} /\ \A p \in Ops : p # o => pc'[p] = pc[p] /\ snapshot'[p] = snapshot[p]
    BY <1>2 DEF Read, Goto, TypeInv, TypeOK
  <2>3. ASSUME NEW p \in Ops PROVE StoresTold(p)' /\ pc'[p] # "waiting" /\ (~IsMove(p) => pc'[p] = "absent")
    BY <1>o, <2>1, <2>2 DEF StoresTold
  <2> QED BY <1>e, <2>1, <2>3
<1>3. ASSUME NEW o \in Ops, ConfigHandler(o)
      PROVE  /\ \A p \in Ops : /\ StoresTold(p)' /\ pc'[p] # "waiting"
                               /\ ~IsMove(p) => pc'[p] = "absent"
             /\ \A k \in CounterNames : exporter'[k] <= told'["w1"][k]
  <2>1. /\ pc[o] = "configured" /\ exporter' = exporter /\ snapshot' = snapshot
        /\ snapshot[o] \in Seq(Nat) /\ Len(snapshot[o]) = 2
    BY <1>3 DEF ConfigHandler, TypeInv, TypeOK, SnapshotInv, SnapshotFits
  <2>2. pc' = [pc EXCEPT ![o] = "emit"]
    BY <1>3 DEF ConfigHandler
  <2>3. \A k \in CounterNames : exporter'[k] <= told'["w1"][k]
    <3>1. \A k \in CounterNames : told["w1"][k] <= told'["w1"][k] /\ told'["w1"][k] \in Nat
      <4>1. \A k \in CounterNames : told["w1"][k] <= told'["w1"][k]
        BY <1>3, <1>n, TellingGrows
      <4>2. told' \in [Writers -> [CounterNames -> Nat]]
        BY <1>3, <2>1, ReportOfSnapshot, Operations DEF ConfigHandler, TypeInv, TypeOK
      <4> QED BY <1>n, <4>1, <4>2
    <3> QED BY <1>e, <1>n, <2>1, <3>1
  <2>4. StoresTold(o)'
    <3>1. \A i \in 1 .. Len(snapshot'[o]) : i \in 1 .. 2 /\ i + 2 - Len(snapshot'[o]) = i
      BY <2>1
    <3>2. \A i \in 1 .. 2 : told'[WriterOf(o)][Counters[i]] = snapshot[o][i]
      BY <1>3, TellingGrows
    <3> QED BY <2>1, <3>1, <3>2 DEF StoresTold
  <2>5. ASSUME NEW p \in Ops, p # o PROVE StoresTold(p)'
    <3>1. pc'[p] = pc[p] /\ snapshot'[p] = snapshot[p]
      BY <2>1, <2>2, <2>5 DEF TypeInv, TypeOK
    <3>2. CASE pc[p] \in {"emit", "observe"}
      <4>1. WriterOf(p) # WriterOf(o)
        BY <2>1, <2>5, <3>2, OneReporter DEF TypeInv, Reporting
      <4>2. told'[WriterOf(p)] = told[WriterOf(p)]
        BY <1>3, <4>1, Operations DEF ConfigHandler, TypeInv, TypeOK
      <4> QED BY <1>o, <3>1, <4>2 DEF StoresTold
    <3>3. CASE pc[p] \notin {"emit", "observe"}
      BY <3>1, <3>3 DEF StoresTold
    <3> QED BY <3>2, <3>3
  <2>6. ASSUME NEW p \in Ops PROVE pc'[p] # "waiting" /\ (~IsMove(p) => pc'[p] = "absent")
    BY <1>o, <2>1, <2>2 DEF TypeInv, TypeOK
  <2> QED BY <2>3, <2>4, <2>5, <2>6
<1>4. ASSUME NEW o \in Ops, HandlerReturns(o) \/ Emit(o)
      PROVE  /\ \A p \in Ops : /\ StoresTold(p)' /\ pc'[p] # "waiting"
                               /\ ~IsMove(p) => pc'[p] = "absent"
             /\ \A k \in CounterNames : exporter'[k] <= told'["w1"][k]
  <2>1. exporter' = exporter /\ told' = told /\ snapshot' = snapshot /\ pc[o] = "emit"
    BY <1>4, <1>o DEF HandlerReturns, Emit
  <2>2. pc' = [pc EXCEPT ![o] = "observe"]
    BY <1>4, <2>1 DEF HandlerReturns, Emit, Goto
  <2>3. ASSUME NEW p \in Ops PROVE StoresTold(p)' /\ pc'[p] # "waiting" /\ (~IsMove(p) => pc'[p] = "absent")
    <3>1. pc'[p] = IF p = o THEN "observe" ELSE pc[p]
      BY <2>2 DEF TypeInv, TypeOK
    <3> QED BY <1>o, <2>1, <3>1 DEF StoresTold
  <2> QED BY <1>e, <2>1, <2>3
<1>5. ASSUME NEW o \in Ops, Observe(o)
      PROVE  /\ \A p \in Ops : /\ StoresTold(p)' /\ pc'[p] # "waiting"
                               /\ ~IsMove(p) => pc'[p] = "absent"
             /\ \A k \in CounterNames : exporter'[k] <= told'["w1"][k]
  <2> DEFINE n == Len(snapshot[o])
  <2>1. /\ pc[o] = "observe" /\ told' = told /\ pc' = pc
        /\ exporter' = [exporter EXCEPT ![Counters[3 - n]] = Head(snapshot[o])]
        /\ snapshot' = [snapshot EXCEPT ![o] = Tail(@)]
    BY <1>5 DEF Observe
  <2>2. /\ snapshot[o] \in Seq(Nat) /\ snapshot[o] # <<>> /\ n <= 2
    BY <1>5 DEF Observe, TypeInv, TypeOK, SnapshotInv, SnapshotFits
  <2>3. n \in 1 .. 2 /\ Len(Tail(snapshot[o])) = n - 1 /\ WriterOf(o) = "w1"
    <3>1. WriterOf(o) = "w1"
      BY <1>o, <2>1 DEF IsMove, WriterOf
    <3> QED BY <2>2, <3>1, TakeHead
  <2>4. \A i \in 1 .. n : snapshot[o][i] = told["w1"][Counters[i + 2 - n]]
    BY <1>o, <2>1, <2>3 DEF StoresTold
  <2>5. \A k \in CounterNames : exporter'[k] <= told'["w1"][k]
    <3>1. Head(snapshot[o]) = told["w1"][Counters[3 - n]]
      <4>1. Head(snapshot[o]) = snapshot[o][1] /\ 1 + 2 - n = 3 - n /\ 1 \in 1 .. n
        BY <2>2, <2>3
      <4> QED BY <2>4, <4>1
    <3>2. Counters[3 - n] \in CounterNames
      BY <2>3, StoringPlace
    <3> QED BY <1>e, <1>n, <2>1, <3>1, <3>2 DEF TypeInv, TypeOK
  <2>6. StoresTold(o)'
    <3>1. snapshot'[o] = Tail(snapshot[o]) /\ Len(snapshot'[o]) = n - 1
      BY <2>1, <2>3 DEF TypeInv, TypeOK
    <3>2. ASSUME NEW i \in 1 .. Len(snapshot'[o])
          PROVE  snapshot'[o][i] = told["w1"][Counters[i + 2 - Len(snapshot'[o])]]
      <4>1. i \in 1 .. n - 1
        BY <3>1
      <4>2. i + 1 \in 1 .. n /\ (i + 1) + 2 - n = i + 2 - (n - 1)
        BY <2>3, <4>1
      <4>3. Tail(snapshot[o])[i] = snapshot[o][i + 1]
        BY <2>2, <2>3, <4>1
      <4> QED BY <2>4, <3>1, <4>2, <4>3
    <3> QED BY <2>1, <2>3, <3>2 DEF StoresTold
  <2>7. ASSUME NEW p \in Ops, p # o PROVE StoresTold(p)'
    <3>1. snapshot'[p] = snapshot[p]
      BY <2>1, <2>7 DEF TypeInv, TypeOK
    <3> QED BY <1>o, <2>1, <3>1 DEF StoresTold
  <2> QED BY <1>o, <2>1, <2>5, <2>6, <2>7
<1>6. CASE \/ \E s \in Scrapes : Scrape(s)
           \/ RegisterAsyncMetricsHandler \/ ClearAsyncMetricsHandlers \/ UNCHANGED vars
  <2>1. exporter' = exporter /\ told' = told /\ pc' = pc /\ snapshot' = snapshot
    BY <1>6 DEF Scrape, RegisterAsyncMetricsHandler, ClearAsyncMetricsHandlers, Edit, vars
  <2>2. \A p \in Ops : StoresTold(p)'
    BY <1>o, <2>1 DEF StoresTold
  <2> QED BY <1>e, <1>o, <2>1, <2>2
<1> QED
  BY <1>1, <1>2, <1>3, <1>4, <1>5, <1>6 DEF Next, Step

\* The exporter does not go back.
LEMMA ExporterGrows ==
    ASSUME TypeInv, ExporterInv, ~nested, [Next]_vars
    PROVE  \A k \in CounterNames : exporter[k] <= exporter'[k]
<1>n. \A k \in CounterNames : exporter[k] \in Nat /\ exporter[k] <= told["w1"][k]
  BY DEF TypeInv, TypeOK, ExporterInv
<1>1. ASSUME NEW o \in Ops, Observe(o) PROVE \A k \in CounterNames : exporter[k] <= exporter'[k]
  <2> DEFINE n == Len(snapshot[o])
  <2>1. /\ snapshot[o] \in Seq(Nat) /\ snapshot[o] # <<>> /\ n <= 2 /\ pc[o] = "observe"
        /\ exporter' = [exporter EXCEPT ![Counters[3 - n]] = Head(snapshot[o])]
    BY <1>1 DEF Observe, TypeInv, TypeOK, SnapshotInv, SnapshotFits
  <2>2. n \in 1 .. 2
    BY <2>1, TakeHead
  <2>3. StoresTold(o) /\ WriterOf(o) = "w1"
    <3>1. StoresTold(o) /\ IsMove(o)
      BY <2>1 DEF ExporterInv
    <3> QED BY <3>1 DEF IsMove, WriterOf
  <2>4. snapshot[o][1] = told["w1"][Counters[1 + 2 - n]] /\ Head(snapshot[o]) = snapshot[o][1]
    <3>1. 1 \in 1 .. n
      BY <2>2
    <3>2. \A i \in 1 .. n : snapshot[o][i] = told["w1"][Counters[i + 2 - n]]
      BY <2>1, <2>3 DEF StoresTold
    <3>3. Head(snapshot[o]) = snapshot[o][1]
      BY <2>1, <2>2
    <3> QED BY <3>1, <3>2, <3>3
  <2>5. Head(snapshot[o]) = told["w1"][Counters[3 - n]] /\ Counters[3 - n] \in CounterNames
    <3>1. 1 + 2 - n = 3 - n
      BY <2>2
    <3> QED BY <2>2, <2>4, <3>1, StoringPlace
  <2> QED BY <1>n, <2>1, <2>5 DEF TypeInv, TypeOK
<1>2. ASSUME exporter' = exporter PROVE \A k \in CounterNames : exporter[k] <= exporter'[k]
  BY <1>n, <1>2
<1>3. ASSUME NEW o \in Ops, Step(o), ~Observe(o) PROVE exporter' = exporter
  <2>1. CASE Count(o) \/ Lock(o) \/ Read(o)
    BY <2>1 DEF Count, Lock, Read
  <2>2. CASE ConfigHandler(o)
    BY <2>2 DEF ConfigHandler
  <2>3. CASE HandlerReturns(o) \/ Emit(o) \/ Unlock(o)
    BY <2>3 DEF HandlerReturns, Emit, Unlock
  <2> QED BY <1>3, <2>1, <2>2, <2>3 DEF Step
<1>4. CASE \/ \E s \in Scrapes : Scrape(s)
           \/ RegisterAsyncMetricsHandler \/ ClearAsyncMetricsHandlers \/ UNCHANGED vars
  <2>1. exporter' = exporter
    BY <1>4 DEF Scrape, RegisterAsyncMetricsHandler, ClearAsyncMetricsHandlers, Edit, vars
  <2> QED BY <1>2, <2>1
<1> QED BY <1>1, <1>2, <1>3, <1>4 DEF Next

LEMMA ViewInvStep == TypeInv /\ TypeInv' /\ ExporterInv /\ ViewInv /\ [Next]_vars => ViewInv'
<1> SUFFICES ASSUME TypeInv, TypeInv', ExporterInv, ViewInv, [Next]_vars PROVE ViewInv'
  OBVIOUS
<1>s. \A s \in Scrapes : view[s] \in Seq(Nat) /\ Len(view[s]) <= 2
  BY DEF TypeInv, TypeOK, ViewInv
<1>c. \A i \in 1 .. 2 : Counters[i] \in CounterNames
  BY Places
<1>e. ~nested => \A k \in CounterNames :
          exporter[k] \in Nat /\ exporter'[k] \in Nat /\ exporter[k] <= exporter'[k]
  BY ExporterGrows DEF TypeInv, TypeOK
<1>1. ASSUME NEW s \in Scrapes, Scrape(s) PROVE ViewInv'
  <2> DEFINE j == Len(view[s]) + 1
             x == exporter[Counters[j]]
  <2>1. /\ Len(view[s]) < 2 /\ exporter' = exporter /\ nested' = nested
        /\ \A t \in Scrapes : t < s => Len(view[t]) = 2
        /\ view' = [view EXCEPT ![s] = Append(@, exporter[Counters[Len(@) + 1]])]
    BY <1>1, Places DEF Scrape
  <2>2. j \in 1 .. 2 /\ x \in Nat
    <3>1. j \in 1 .. 2
      BY <1>s, <2>1
    <3> QED BY <1>c, <3>1 DEF TypeInv, TypeOK
  <2>3. /\ view'[s] = Append(view[s], x)
        /\ \A t \in Scrapes : t # s => view'[t] = view[t]
    BY <2>1 DEF TypeInv, TypeOK
  <2>4. /\ Len(view'[s]) = j /\ view'[s][j] = x
        /\ \A i \in 1 .. j : i # j => i \in 1 .. Len(view[s]) /\ view'[s][i] = view[s][i]
    BY <1>s, <2>2, <2>3
  <2>5. \A t \in Scrapes : t < s => t # s /\ view'[t] = view[t]
    <3>1. ASSUME NEW t \in Scrapes, t < s PROVE t # s
      <4>1. Len(view[t]) = 2
        BY <2>1, <3>1
      <4>2. Len(view[s]) # 2
        BY <2>1
      <4> QED BY <4>1, <4>2
    <3> QED BY <2>3, <3>1
  <2>6. \A u \in Scrapes : s < u => u # s /\ view'[u] = <<>>
    <3>1. ASSUME NEW u \in Scrapes, s < u PROVE u # s /\ view[u] = <<>>
      <4>1. view[u] = <<>> \/ Len(view[s]) = 2
        BY <3>1 DEF ViewInv
      <4>2. u # s
        BY <2>1, <3>1
      <4> QED BY <2>1, <4>1, <4>2
    <3> QED BY <2>3, <3>1
  <2>7. \A t \in Scrapes : Len(view'[t]) <= 2
    BY <1>s, <2>2, <2>3, <2>4
  <2>8. ASSUME NEW u \in Scrapes, NEW t \in Scrapes, t < u, view'[u] # <<>>
        PROVE  Len(view'[t]) = 2
    <3>1. t # s
      BY <2>6, <2>8
    <3>2. CASE u = s
      BY <2>1, <2>5, <2>8, <3>2
    <3>3. CASE u # s
      BY <2>3, <2>8, <3>1, <3>3 DEF ViewInv
    <3> QED BY <3>2, <3>3
  <2>9. ASSUME ~nested', NEW u \in Scrapes, NEW i \in 1 .. Len(view'[u])
        PROVE  /\ view'[u][i] <= exporter'[Counters[i]]
               /\ \A t \in Scrapes : t < u => view'[t][i] <= view'[u][i]
    <3>0. ~nested
      BY <2>1, <2>9
    <3>1. CASE u # s
      <4>1. view'[u] = view[u] /\ i \in 1 .. Len(view[u])
        BY <2>3, <2>9, <3>1
      <4>2. view'[u] # <<>>
        BY <4>1, Len(<<>>) = 0
      <4>3. \A t \in Scrapes : t < u => t # s /\ view'[t] = view[t]
        BY <2>3, <2>6, <4>2
      <4> QED BY <2>1, <3>0, <4>1, <4>3 DEF ViewInv
    <3>2. CASE u = s /\ i # j
      <4>1. i \in 1 .. Len(view[s]) /\ view'[s][i] = view[s][i]
        BY <2>4, <2>9, <3>2
      <4> QED BY <2>1, <2>5, <3>0, <3>2, <4>1 DEF ViewInv
    <3>3. CASE u = s /\ i = j
      <4>1. ASSUME NEW t \in Scrapes, t < s PROVE view'[t][j] <= x
        <5>1. view'[t] = view[t] /\ j \in 1 .. Len(view[t])
          BY <2>1, <2>2, <2>5, <4>1
        <5> QED BY <3>0, <5>1 DEF ViewInv
      <4> QED BY <2>1, <2>2, <2>4, <3>3, <4>1
    <3> QED BY <3>1, <3>2, <3>3
  <2> QED BY <2>7, <2>8, <2>9 DEF ViewInv
<1>2. ASSUME view' = view, nested' = nested PROVE ViewInv'
  <2>1. ASSUME ~nested, NEW s \in Scrapes, NEW i \in 1 .. Len(view[s])
        PROVE  view[s][i] <= exporter'[Counters[i]]
    <3>1. i \in 1 .. 2 /\ view[s][i] \in Nat
      BY <1>s, <2>1
    <3>2. view[s][i] <= exporter[Counters[i]]
      BY <2>1 DEF ViewInv
    <3> QED BY <1>c, <1>e, <2>1, <3>1, <3>2
  <2> QED BY <1>2, <2>1 DEF ViewInv
<1>3. ASSUME NEW o \in Ops, Step(o) PROVE view' = view
  <2>1. CASE Count(o) \/ Lock(o) \/ Read(o)
    BY <2>1 DEF Count, Lock, Read
  <2>2. CASE ConfigHandler(o)
    BY <2>2 DEF ConfigHandler
  <2>3. CASE HandlerReturns(o) \/ Emit(o) \/ Observe(o) \/ Unlock(o)
    BY <2>3 DEF HandlerReturns, Emit, Observe, Unlock
  <2> QED BY <1>3, <2>1, <2>2, <2>3 DEF Step
<1>4. CASE RegisterAsyncMetricsHandler \/ ClearAsyncMetricsHandlers \/ UNCHANGED vars
  <2>1. view' = view
    BY <1>4 DEF RegisterAsyncMetricsHandler, ClearAsyncMetricsHandlers, Edit, vars
  <2> QED BY <1>2, <2>1, NestedStays
<1> QED BY <1>1, <1>2, <1>3, <1>4, NestedStays DEF Next

\* The last report of a writer does not go back.
LEMMA ToldGrows ==
    ASSUME TypeInv, ToldInv, [Next]_vars
    PROVE  \A w \in Writers, k \in CounterNames : told'[w][k] >= told[w][k]
<1>n. \A w \in Writers, k \in CounterNames : told[w][k] \in Nat
  BY DEF TypeInv, TypeOK
<1>1. ASSUME NEW o \in Ops, ConfigHandler(o)
      PROVE  \A w \in Writers, k \in CounterNames : told'[w][k] >= told[w][k]
  BY <1>1, TellingGrows
<1>2. ASSUME NEW o \in Ops, Step(o), ~ConfigHandler(o) PROVE told' = told
  <2>1. CASE Count(o) \/ Lock(o) \/ Read(o)
    BY <2>1 DEF Count, Lock, Read
  <2>2. CASE HandlerReturns(o) \/ Emit(o) \/ Observe(o) \/ Unlock(o)
    BY <2>2 DEF HandlerReturns, Emit, Observe, Unlock
  <2> QED BY <1>2, <2>1, <2>2 DEF Step
<1>3. CASE \/ \E s \in Scrapes : Scrape(s)
           \/ RegisterAsyncMetricsHandler \/ ClearAsyncMetricsHandlers \/ UNCHANGED vars
  <2>1. told' = told
    BY <1>3 DEF Scrape, RegisterAsyncMetricsHandler, ClearAsyncMetricsHandlers, Edit, vars
  <2> QED BY <1>n, <2>1
<1> QED BY <1>n, <1>1, <1>2, <1>3 DEF Next

\* What a scrape shows is behind the exporter, and so behind what is counted.
LEMMA ViewsAreBehind == TypeInv /\ GrowInv => ScrapesGrow
<1> SUFFICES ASSUME TypeInv, GrowInv, ~nested, NEW s \in Scrapes, NEW i \in DOMAIN view[s]
             PROVE  /\ view[s][i] <= cnt["w1"][Counters[i]]
                    /\ \A t \in Scrapes : t < s => view[t][i] <= view[s][i]
  BY DEF ScrapesGrow
<1>1. view[s] \in Seq(Nat) /\ Len(view[s]) <= 2
  BY DEF TypeInv, TypeOK, GrowInv, ViewInv
<1>2. i \in 1 .. Len(view[s]) /\ i \in 1 .. 2 /\ view[s][i] \in Nat
  BY <1>1
<1>3. Counters[i] \in CounterNames /\ "w1" \in Writers
  BY <1>2, Places DEF Writers
<1>4. /\ exporter[Counters[i]] \in Nat /\ told["w1"][Counters[i]] \in Nat /\ cnt["w1"][Counters[i]] \in Nat
      /\ exporter[Counters[i]] <= told["w1"][Counters[i]]
      /\ told["w1"][Counters[i]] <= cnt["w1"][Counters[i]]
  BY <1>3 DEF TypeInv, TypeOK, GrowInv, ExporterInv, ToldInv
<1>5. /\ view[s][i] <= exporter[Counters[i]]
      /\ \A t \in Scrapes : t < s => view[t][i] <= view[s][i]
  BY <1>2 DEF GrowInv, ViewInv
<1> QED BY <1>2, <1>4, <1>5

\* However the calls that report overlap, the handler of a writer is never told
\* less than before, and, with one writer reporting, a scrape never shows less
\* than an earlier one nor more than has been counted.
THEOREM ReportsOnlyGrow == Spec => CountersGrow
<1>1. TypeInv /\ TypeInv' /\ GrowInv /\ [Next]_vars => GrowInv'
  BY ToldInvStep, ExporterInvStep, ViewInvStep DEF GrowInv
<1>2. TypeInv /\ GrowInv /\ [Next]_vars
          => \A w \in Writers, k \in CounterNames : told'[w][k] >= told[w][k]
  BY ToldGrows DEF GrowInv
<1> QED
  BY <1>1, <1>2, ViewsAreBehind, TypeInvInit, TypeInvStep, GrowInvInit, PTL DEF Spec, CountersGrow
=============================================================================
