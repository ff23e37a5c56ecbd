---------------------------- MODULE AsyncMetrics ----------------------------
(***************************************************************************)
(* How the counters of async writers reach those who watch them.  Every    *)
(* goroutine that moves a counter calls reportMetrics (async.go), which    *)
(* reads the counters and runs the reporter under metricsMu.  The reporter *)
(* the adapter installs runs the handler of the configuration and then,    *)
(* through EmitAsyncMetrics, the global handlers (async_metrics.go), one   *)
(* of them Observe of an exporter that HTTP requests scrape                *)
(* (async_metrics_exporter.go).  Counters are atomic one by one: a report, *)
(* an Observe and a scrape are not.                                        *)
(*                                                                         *)
(* There are two writers.  A handler of "w1" may log through "w2", whose   *)
(* counter then moves inside the report of w1.  Of the seven counters, two *)
(* stand for all.                                                          *)
(***************************************************************************)
EXTENDS Integers, Sequences

CONSTANTS
    Moves,       \* calls and worker steps that move a counter of w1
    CounterOf,   \* the counter each of them moves
    Scrapes,     \* requests served by the exporter
    MaxEdits     \* bound: registrations and removals of the exporter

Writers == {"w1", "w2"}
CounterNames == {"enqueued", "processed"}
Counters == <<"enqueued", "processed">>  \* in the order they are read and stored
None == <<"none", "none">>

\* An operation is a move of w1, or what the handler of w1 logs about it.
Ops == Moves \X Writers
WriterOf(o) == o[2]
IsMove(o) == o[2] = "w1"
Inner(o) == <<o[1], "w2">>
Kind(o) == IF IsMove(o) THEN CounterOf[o[1]] ELSE "enqueued"

ASSUME MovesAssumption ==
    /\ CounterOf \in [Moves -> CounterNames]
    /\ MaxEdits \in Nat

VARIABLES
    nested,     \* the handler of w1 logs through w2
    cnt,        \* the counters of each writer
    pc,         \* where each operation is
    metricsMu,  \* the operation that holds the mutex of each writer, or None
    snapshot,   \* what each operation has read of the counters
    handlers,   \* the exporter's Observe is registered
    calling,    \* the operation has found it registered
    exporter,   \* the exporter's counters
    view,       \* what each scrape has read of them
    told,       \* history: the last report each writer's handler was given
    edits

vars == <<nested, cnt, pc, metricsMu, snapshot, handlers, calling, exporter, view, told, edits>>

Zero == [k \in CounterNames |-> 0]

Init ==
    /\ nested \in BOOLEAN
    /\ cnt = [w \in Writers |-> Zero]
    /\ pc = [o \in Ops |-> IF IsMove(o) THEN "idle" ELSE "absent"]
    /\ metricsMu = [w \in Writers |-> None]
    /\ snapshot = [o \in Ops |-> <<>>]
    /\ handlers \in BOOLEAN
    /\ calling = [o \in Ops |-> FALSE]
    /\ exporter = Zero
    /\ view = [s \in Scrapes |-> <<>>]
    /\ told = [w \in Writers |-> Zero]
    /\ edits = MaxEdits

Goto(o, label) == pc' = [pc EXCEPT ![o] = label]

-----------------------------------------------------------------------------
(* A counter moves and is reported. *)

Count(o) ==
    /\ pc[o] = "idle"
    /\ cnt' = [cnt EXCEPT ![WriterOf(o)][Kind(o)] = @ + 1]
    /\ Goto(o, "lock")
    /\ UNCHANGED <<nested, metricsMu, snapshot, handlers, calling, exporter, view, told, edits>>

\* Mutant: the counters are read before the mutex is taken.
Lock_AfterReading(o) ==
    /\ pc[o] = "lock"
    /\ \/ /\ snapshot[o] = <<>>
          /\ snapshot' = [snapshot EXCEPT ![o] = [i \in 1 .. 2 |-> cnt[WriterOf(o)][Counters[i]]]]
          /\ UNCHANGED <<pc, metricsMu>>
       \/ /\ snapshot[o] # <<>> /\ metricsMu[WriterOf(o)] = None
          /\ metricsMu' = [metricsMu EXCEPT ![WriterOf(o)] = o]
          /\ Goto(o, "configured") /\ UNCHANGED snapshot
    /\ UNCHANGED <<nested, cnt, handlers, calling, exporter, view, told, edits>>

Lock(o) ==
    /\ pc[o] = "lock" /\ metricsMu[WriterOf(o)] = None
    /\ metricsMu' = [metricsMu EXCEPT ![WriterOf(o)] = o]
    /\ Goto(o, "read")
    /\ UNCHANGED <<nested, cnt, snapshot, handlers, calling, exporter, view, told, edits>>

\* Metrics() loads one counter.
Read(o) ==
    /\ pc[o] = "read"
    /\ LET i == Len(snapshot[o]) + 1 IN
       /\ snapshot' = [snapshot EXCEPT ![o] = Append(@, cnt[WriterOf(o)][Counters[i]])]
       /\ Goto(o, IF i = Len(Counters) THEN "configured" ELSE "read")
    /\ UNCHANGED <<nested, cnt, metricsMu, handlers, calling, exporter, view, told, edits>>

Report(o) == [k \in CounterNames |->
                 snapshot[o][CHOOSE i \in 1 .. 2 : Counters[i] = k]]

\* config.AsyncMetricsHandler.  When it logs, it waits for the call it makes.
ConfigHandler(o) ==
    /\ pc[o] = "configured"
    /\ told' = [told EXCEPT ![WriterOf(o)] = Report(o)]
    /\ pc' = IF nested /\ IsMove(o)
             THEN [pc EXCEPT ![o] = "waiting", ![Inner(o)] = "idle"]
             ELSE [pc EXCEPT ![o] = "emit"]
    /\ UNCHANGED <<nested, cnt, metricsMu, snapshot, handlers, calling, exporter, view, edits>>

HandlerReturns(o) ==
    /\ pc[o] = "waiting" /\ pc[Inner(o)] = "done"
    /\ Goto(o, "emit")
    /\ UNCHANGED <<nested, cnt, metricsMu, snapshot, handlers, calling, exporter, view, told, edits>>

\* Mutant: the early return for no handlers forgets the mutex.
Emit_KeepsLock(o) ==
    /\ pc[o] = "emit"
    /\ calling' = [calling EXCEPT ![o] = handlers]
    /\ Goto(o, IF handlers THEN "observe" ELSE "done")
    /\ UNCHANGED <<nested, cnt, metricsMu, snapshot, handlers, exporter, view, told, edits>>

\* EmitAsyncMetrics copies the list of handlers.
Emit(o) ==
    /\ pc[o] = "emit"
    /\ calling' = [calling EXCEPT ![o] = handlers]
    /\ Goto(o, "observe")
    /\ UNCHANGED <<nested, cnt, metricsMu, snapshot, handlers, exporter, view, told, edits>>

\* Mutant: the counters are stored in another order than they were read.
Observe_Swaps(o) ==
    /\ pc[o] = "observe" /\ calling[o]
    /\ exporter' = [exporter EXCEPT ![Counters[Len(snapshot[o])]] = Head(snapshot[o])]
    /\ snapshot' = [snapshot EXCEPT ![o] = Tail(@)]
    /\ calling' = [calling EXCEPT ![o] = Len(snapshot[o]) > 1]
    /\ UNCHANGED <<nested, cnt, pc, metricsMu, handlers, view, told, edits>>

\* Observe stores one counter.
Observe(o) ==
    /\ pc[o] = "observe" /\ calling[o]
    /\ exporter' = [exporter EXCEPT ![Counters[3 - Len(snapshot[o])]] = Head(snapshot[o])]
    /\ snapshot' = [snapshot EXCEPT ![o] = Tail(@)]
    /\ calling' = [calling EXCEPT ![o] = Len(snapshot[o]) > 1]
    /\ UNCHANGED <<nested, cnt, pc, metricsMu, handlers, view, told, edits>>

Unlock(o) ==
    /\ pc[o] = "observe" /\ ~calling[o]
    /\ metricsMu' = [metricsMu EXCEPT ![WriterOf(o)] = None]
    /\ snapshot' = [snapshot EXCEPT ![o] = <<>>]
    /\ Goto(o, "done")
    /\ UNCHANGED <<nested, cnt, handlers, calling, exporter, view, told, edits>>

-----------------------------------------------------------------------------
(* Those who watch. *)

\* ServeHTTP loads one counter.  Requests are served one after the other.
Scrape(s) ==
    /\ Len(view[s]) < Len(Counters)
    /\ \A t \in Scrapes : t < s => Len(view[t]) = Len(Counters)
    /\ view' = [view EXCEPT ![s] = Append(@, exporter[Counters[Len(@) + 1]])]
    /\ UNCHANGED <<nested, cnt, pc, metricsMu, snapshot, handlers, calling, exporter, told, edits>>

Edit(registered) ==
    /\ edits > 0 /\ edits' = edits - 1
    /\ handlers' = registered
    /\ UNCHANGED <<nested, cnt, pc, metricsMu, snapshot, calling, exporter, view, told>>

RegisterAsyncMetricsHandler == ~handlers /\ Edit(TRUE)
ClearAsyncMetricsHandlers == handlers /\ Edit(FALSE)

Step(o) ==
    \/ Count(o) \/ Lock(o) \/ Read(o) \/ ConfigHandler(o) \/ HandlerReturns(o)
    \/ Emit(o) \/ Observe(o) \/ Unlock(o)

Quiet(w) == \A o \in Ops : WriterOf(o) = w => pc[o] \in {"absent", "idle", "done"}

Next ==
    \/ \E o \in Ops : Step(o)
    \/ \E s \in Scrapes : Scrape(s)
    \/ RegisterAsyncMetricsHandler \/ ClearAsyncMetricsHandlers

Spec == Init /\ [][Next]_vars

\* Handlers return and the scheduler runs every goroutine.
FairSpec == Spec /\ \A o \in Ops : WF_vars(Step(o))

-----------------------------------------------------------------------------
Labels == {"absent", "idle", "lock", "read", "configured", "waiting", "emit", "observe", "done"}
Reporting == {"read", "configured", "waiting", "emit", "observe"}

\* Types, with the mutual exclusion of reports: exactly the operation between
\* Lock and Unlock holds the mutex of its writer.
TypeOK ==
    /\ {nested, handlers} \subseteq BOOLEAN
    /\ cnt \in [Writers -> [CounterNames -> Nat]] /\ told \in [Writers -> [CounterNames -> Nat]]
    /\ pc \in [Ops -> Labels]
    /\ metricsMu \in [Writers -> Ops \cup {None}]
    /\ \A o \in Ops : pc[o] \in Reporting <=> metricsMu[WriterOf(o)] = o
    /\ snapshot \in [Ops -> Seq(Nat)] /\ \A o \in Ops : Len(snapshot[o]) <= 2
    /\ calling \in [Ops -> BOOLEAN]
    /\ exporter \in [CounterNames -> Nat]
    /\ view \in [Scrapes -> Seq(Nat)]
    /\ edits \in 0 .. MaxEdits

\* When nothing of a writer is under way, its handler has been told its final
\* counters: no move is left unreported behind a report that began earlier.
LastReportIsCurrent ==
    \A w \in Writers : Quiet(w) => told[w] = cnt[w]

\* TypeOK and LastReportIsCurrent as an induction hypothesis.  A snapshot is
\* empty before it is read, whole once it is reported, and not used up while a
\* handler is called; what a handler logs has not begun before it is called.
SnapshotFits(o) ==
    /\ pc[o] \in {"absent", "idle", "lock"} => snapshot[o] = <<>>
    /\ pc[o] = "read" => Len(snapshot[o]) < 2
    /\ pc[o] \in {"configured", "waiting", "emit"} => Len(snapshot[o]) = 2
    /\ pc[o] = "observe" /\ calling[o] => snapshot[o] # <<>>
    /\ IsMove(o) /\ pc[o] \in {"idle", "lock", "read", "configured"} => pc[Inner(o)] = "absent"
SnapshotInv == \A o \in Ops : SnapshotFits(o)

\* Either somebody is about to report, or the one who reads has missed nothing,
\* or the last report is up to date.
AboutToReport(w) == \E o \in Ops : WriterOf(o) = w /\ pc[o] = "lock"
Reads(o) == pc[o] \in {"read", "configured"}
IsFresh(o) == \A i \in 1 .. Len(snapshot[o]) : snapshot[o][i] = cnt[WriterOf(o)][Counters[i]]
Reported(w) ==
    \/ AboutToReport(w)
    \/ \E o \in Ops : WriterOf(o) = w /\ Reads(o) /\ IsFresh(o)
    \/ told[w] = cnt[w] /\ \A o \in Ops : WriterOf(o) = w => ~Reads(o)
ReportInv == \A w \in Writers : Reported(w)

\* "Total log entries": with one writer reporting, a scrape shows no more than
\* the writer has counted, and no counter less than an earlier scrape did.
ScrapesGrow ==
    ~nested =>
        \A s \in Scrapes : \A i \in DOMAIN view[s] :
            /\ view[s][i] <= cnt["w1"][Counters[i]]
            /\ \A t \in Scrapes : t < s => view[t][i] <= view[s][i]

\* Nobody who watches sees a counter go back, neither the handler of a writer
\* nor those who scrape the exporter, however the calls that report overlap.
CountersGrow ==
    [][/\ ScrapesGrow'
       /\ \A w \in Writers, k \in CounterNames : told'[w][k] >= told[w][k]]_vars

\* CountersGrow as an induction hypothesis.  What is being read lies between
\* what was told and what is counted; with one writer reporting, what is being
\* stored is what was told, the exporter is behind it, and scrapes, which come
\* one after the other, are behind the exporter.
ToldInv ==
    /\ \A w \in Writers, k \in CounterNames : told[w][k] <= cnt[w][k]
    /\ \A o \in Ops : Reads(o) =>
           \A i \in 1 .. Len(snapshot[o]) :
               /\ told[WriterOf(o)][Counters[i]] <= snapshot[o][i]
               /\ snapshot[o][i] <= cnt[WriterOf(o)][Counters[i]]

StoresTold(o) ==
    pc[o] \in {"emit", "observe"} =>
        \A i \in 1 .. Len(snapshot[o]) :
            snapshot[o][i] = told[WriterOf(o)][Counters[i + 2 - Len(snapshot[o])]]
ExporterInv ==
    ~nested =>
        /\ \A o \in Ops : StoresTold(o) /\ pc[o] # "waiting" /\ (~IsMove(o) => pc[o] = "absent")
        /\ \A k \in CounterNames : exporter[k] <= told["w1"][k]

ViewInv ==
    /\ \A s \in Scrapes : Len(view[s]) <= 2
    /\ \A s, t \in Scrapes : t < s /\ view[s] # <<>> => Len(view[t]) = 2
    /\ ~nested => \A s \in Scrapes : \A i \in 1 .. Len(view[s]) :
           /\ view[s][i] <= exporter[Counters[i]]
           /\ \A t \in Scrapes : t < s => view[t][i] <= view[s][i]
GrowInv == ToldInv /\ ExporterInv /\ ViewInv

\* Everybody who moves a counter gets through, also when a handler logs through
\* another writer from under the mutex of the first.
OpsEnd == \A o \in Ops : pc[o] = "lock" ~> pc[o] = "done"
=============================================================================
