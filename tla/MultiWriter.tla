---------------------------- MODULE MultiWriter ----------------------------
(***************************************************************************)
(* The fan-out writer of internal/output/output.go.  Write and Sync hold   *)
(* mw.mu for reading and visit the sinks one by one, so calls of several   *)
(* goroutines interleave between two sinks; AddWriter, RemoveWriter and    *)
(* Close hold it for writing and are one step each.  A sink serves one     *)
(* call at a time.  What a Write visits is mw.Writers or, when there are   *)
(* two, the cached pair mw.first and mw.second.                            *)
(***************************************************************************)
EXTENDS Integers, FiniteSets, Sequences, SequencesExt

CONSTANTS
    Sinks,     \* the writers behind the fan-out
    Std,       \* the sinks that are standard streams
    Records,   \* payloads, each given to Write by one AsyncWriter worker
    Initial,   \* the arguments of NewMultiWriter
    Retries,   \* how often that caller repeats a Write that failed
    MaxFaults, \* bound: calls of sinks that fail
    MaxEdits   \* bound: calls of AddWriter and RemoveWriter

ASSUME SinkAssumption ==
    /\ Std \subseteq Sinks
    /\ Initial \in Seq(Sinks) /\ Initial # <<>>
    /\ {Retries, MaxFaults, MaxEdits} \subseteq Nat

\* NewMultiWriter is given different writers, as adapter.go does; it does not
\* look for a repeated one, AddWriter refuses it.
ASSUME InitialAssumption == IsInjective(Initial)

VARIABLES
    writers,  \* mw.Writers
    useDual,  \* mw.useDual
    pair,     \* <<mw.first, mw.second>>, or <<>> when they are nil
    call,     \* the Write of each record: "new", "running" or "done"
    todo,     \* the sinks it still has to visit
    tally,    \* its sinks so far: how many succeeded, and how many did not
    result,   \* what it returned: the count, 0 or all, and whether an error
    attempt,  \* performWrite's attempt
    syncTodo, \* the sinks a running Sync still has to visit
    syncing,  \* "idle", "clean" or "failed": no Sync runs, or how it goes
    log,      \* the records each sink holds
    durable,  \* how many of them a sync of the sink has covered
    sink,     \* the sinks: "open", "closed", or "refused" (its Close failed)
    shut,     \* Close has run
    members,  \* history: the set the calls so far ask for
    target,   \* history: the sinks in members when a record's Write began
    before,   \* history: records accepted when the running Sync began
    promised, \* history: what the last clean Sync vouches for
    faults, edits

listVars == <<writers, useDual, pair, shut, members>>
writeVars == <<call, todo, tally, result, attempt, target>>
syncVars == <<syncTodo, syncing, before, promised>>
sinkVars == <<log, durable, sink>>
vars == <<listVars, writeVars, syncVars, sinkVars, faults, edits>>

Fault == faults > 0 /\ faults' = faults - 1
NoFault == UNCHANGED faults

Init ==
    /\ writers = Initial
    /\ useDual = (Len(Initial) = 2)
    /\ pair = IF Len(Initial) = 2 THEN Initial ELSE <<>>
    /\ call = [r \in Records |-> "new"]
    /\ todo = [r \in Records |-> <<>>]
    /\ tally = [r \in Records |-> [good |-> 0, bad |-> 0]]
    /\ result = [r \in Records |-> [all |-> FALSE, error |-> FALSE]]
    /\ attempt = [r \in Records |-> 0]
    /\ syncTodo = <<>> /\ syncing = "idle"
    /\ log = [s \in Sinks |-> <<>>]
    /\ durable = [s \in Sinks |-> 0]
    /\ sink = [s \in Sinks |-> "open"]
    /\ shut = FALSE
    /\ members = ToSet(Initial)
    /\ target = [r \in Records |-> {}]
    /\ before = {} /\ promised = {}
    /\ faults = MaxFaults /\ edits = MaxEdits

\* Nobody holds mw.mu: what AddWriter, RemoveWriter and Close wait for.
Unlocked == syncing = "idle" /\ \A r \in Records : call[r] # "running"

-----------------------------------------------------------------------------
(* Write. *)

\* What a Write visits.
Targets == IF useDual THEN pair ELSE writers

WriteBegin(r) ==
    /\ call[r] = "new"
    /\ call' = [call EXCEPT ![r] = "running"]
    /\ todo' = [todo EXCEPT ![r] = Targets]
    /\ target' = [target EXCEPT ![r] = members]
    /\ UNCHANGED <<listVars, tally, result, attempt, syncVars, sinkVars, faults, edits>>

Visit(r, outcome) ==
    /\ todo' = [todo EXCEPT ![r] = Tail(@)]
    /\ tally' = [tally EXCEPT ![r][outcome] = @ + 1]

\* Mutant: a sink that fails ends the fan-out.
WriteSink_StopsAtError(r) ==
    /\ todo[r] # <<>>
    /\ LET s == Head(todo[r]) IN
       \/ /\ sink[s] # "closed"
          /\ log' = [log EXCEPT ![s] = Append(@, r)]
          /\ Visit(r, "good") /\ NoFault
       \/ /\ sink[s] # "closed" /\ Fault
          /\ todo' = [todo EXCEPT ![r] = <<>>]
          /\ tally' = [tally EXCEPT ![r].bad = @ + 1]
          /\ UNCHANGED log
    /\ UNCHANGED <<listVars, call, result, attempt, target, syncVars, durable, sink, edits>>

\* One writer.Write.  It takes the payload, or fails, or reports fewer bytes
\* than it was given; the record may be in the sink after a failure too.
WriteSink(r) ==
    /\ todo[r] # <<>>
    /\ LET s == Head(todo[r]) IN
       \/ /\ sink[s] # "closed"
          /\ log' = [log EXCEPT ![s] = Append(@, r)]
          /\ Visit(r, "good") /\ NoFault
       \/ /\ sink[s] = "closed"
          /\ Visit(r, "bad") /\ NoFault /\ UNCHANGED log
       \/ /\ sink[s] # "closed" /\ Fault
          /\ log' \in {log, [log EXCEPT ![s] = Append(@, r)]}
          /\ Visit(r, "bad")
    /\ UNCHANGED <<listVars, call, result, attempt, target, syncVars, durable, sink, edits>>

\* Mutant: one good sink is enough for a nil error.
PrepareResult_AnyGood(r) ==
    [all |-> tally[r].good > 0, error |-> tally[r].good = 0 /\ tally[r].bad > 0]

\* prepareResult; with no writers at all, Write returns (0, nil) without it.
PrepareResult(r) ==
    [all |-> tally[r].good > 0, error |-> tally[r].bad > 0]

WriteReturn(r) ==
    /\ call[r] = "running" /\ todo[r] = <<>>
    /\ call' = [call EXCEPT ![r] = "done"]
    /\ result' = [result EXCEPT ![r] = PrepareResult(r)]
    /\ UNCHANGED <<listVars, todo, tally, attempt, target, syncVars, sinkVars, faults, edits>>

\* Mutant: a Write that was rewarded with a nil error is repeated all the same.
WriteRetry_Always(r) ==
    /\ call[r] = "done" /\ attempt[r] < Retries
    /\ attempt' = [attempt EXCEPT ![r] = @ + 1]
    /\ tally' = [tally EXCEPT ![r] = [good |-> 0, bad |-> 0]]
    /\ call' = [call EXCEPT ![r] = "running"]
    /\ todo' = [todo EXCEPT ![r] = Targets]
    /\ target' = [target EXCEPT ![r] = members]
    /\ UNCHANGED <<listVars, result, syncVars, sinkVars, faults, edits>>

\* The caller is AsyncWriter.performWrite: after an error it waits and writes
\* the whole record again, to every writer there is by then.
WriteRetry(r) ==
    /\ call[r] = "done" /\ result[r].error
    /\ attempt[r] < Retries
    /\ attempt' = [attempt EXCEPT ![r] = @ + 1]
    /\ tally' = [tally EXCEPT ![r] = [good |-> 0, bad |-> 0]]
    /\ call' = [call EXCEPT ![r] = "running"]
    /\ todo' = [todo EXCEPT ![r] = Targets]
    /\ target' = [target EXCEPT ![r] = members]
    /\ UNCHANGED <<listVars, result, syncVars, sinkVars, faults, edits>>

-----------------------------------------------------------------------------
(* Sync. *)

Clean(r) == call[r] = "done" /\ ~result[r].error

SyncBegin ==
    /\ syncing = "idle"
    /\ syncing' = "clean"
    /\ syncTodo' = writers
    /\ before' = {r \in Records : Clean(r)}
    /\ UNCHANGED <<listVars, writeVars, sinkVars, promised, faults, edits>>

\* Mutant: the error of a sink is forgotten.
SyncSink_Forgives ==
    /\ syncTodo # <<>>
    /\ LET s == Head(syncTodo) IN
       \/ /\ sink[s] # "closed"
          /\ durable' = [durable EXCEPT ![s] = Len(log[s])]
          /\ NoFault
       \/ Fault /\ UNCHANGED durable
    /\ syncTodo' = Tail(syncTodo)
    /\ UNCHANGED <<listVars, writeVars, syncing, before, promised, log, sink, edits>>

\* One sink: standard streams are passed over, errors are collected.
SyncSink ==
    /\ syncTodo # <<>>
    /\ LET s == Head(syncTodo) IN
       \/ /\ s \in Std
          /\ NoFault /\ UNCHANGED <<durable, syncing>>
       \/ /\ s \notin Std /\ sink[s] # "closed"
          /\ durable' = [durable EXCEPT ![s] = Len(log[s])]
          /\ NoFault /\ UNCHANGED syncing
       \/ /\ s \notin Std /\ sink[s] # "closed" /\ Fault
          /\ syncing' = "failed" /\ UNCHANGED durable
       \/ /\ s \notin Std /\ sink[s] = "closed"
          /\ syncing' \in {syncing, "failed"} /\ NoFault /\ UNCHANGED durable
    /\ syncTodo' = Tail(syncTodo)
    /\ UNCHANGED <<listVars, writeVars, before, promised, log, sink, edits>>

SyncReturn ==
    /\ syncing # "idle" /\ syncTodo = <<>>
    /\ promised' = IF syncing = "clean"
                   THEN {p \in (members \ Std) \X before : p[1] \in target[p[2]]}
                   ELSE promised
    /\ syncing' = "idle" /\ before' = {}
    /\ UNCHANGED <<listVars, writeVars, syncTodo, sinkVars, faults, edits>>

-----------------------------------------------------------------------------
(* AddWriter, RemoveWriter and Close. *)

\* Mutant: the pair outlives the flag.
SetList_KeepsPair(list) ==
    /\ writers' = list
    /\ useDual' = (Len(list) = 2)
    /\ pair' = IF Len(list) = 2 THEN list ELSE pair

\* The pair is cached exactly when the list has two writers.
SetList(list) ==
    /\ writers' = list
    /\ useDual' = (Len(list) = 2)
    /\ pair' = IF Len(list) = 2 THEN list ELSE <<>>

Edit == Unlocked /\ edits > 0 /\ edits' = edits - 1

\* A writer that is there already is refused, after the pair is given up.
AddWriter(s) ==
    /\ Edit
    /\ IF s \in ToSet(writers)
       THEN useDual' = FALSE /\ pair' = <<>> /\ UNCHANGED <<writers, members>>
       ELSE SetList(Append(writers, s)) /\ members' = members \cup {s}
    /\ UNCHANGED <<shut, writeVars, syncVars, sinkVars, faults>>

\* writers without the first place of s, which the last writer takes.
SwapRemove(list, s) ==
    LET first == CHOOSE i \in DOMAIN list : list[i] = s /\ \A k \in 1 .. i - 1 : list[k] # s
    IN  Front([list EXCEPT ![first] = Last(list)])

\* Mutant: the cached pair is not refreshed.
RemoveWriter_KeepsPair(s) ==
    /\ Edit
    /\ writers' = IF s \in ToSet(writers) THEN SwapRemove(writers, s) ELSE writers
    /\ members' = members \ {s}
    /\ UNCHANGED <<useDual, pair, shut, writeVars, syncVars, sinkVars, faults>>

RemoveWriter(s) ==
    /\ Edit
    /\ SetList(IF s \in ToSet(writers) THEN SwapRemove(writers, s) ELSE writers)
    /\ members' = members \ {s}
    /\ UNCHANGED <<shut, writeVars, syncVars, sinkVars, faults>>

\* Mutant: Close stops at the first writer that fails to close.
Close_StopsAtError ==
    /\ Unlocked /\ shut' = TRUE
    /\ \E n \in 0 .. Len(writers) :
          /\ n < Len(writers) => Fault
          /\ n = Len(writers) => NoFault
          /\ sink' = [s \in Sinks |-> IF s \in ToSet(SubSeq(writers, 1, n)) \ Std
                                      THEN "closed" ELSE sink[s]]
    /\ SetList(<<>>) /\ members' = {}
    /\ UNCHANGED <<writeVars, syncVars, log, durable, edits>>

\* Every writer but the standard streams is closed, which flushes it; the list
\* is emptied even when some of them fail.
Close ==
    /\ Unlocked /\ shut' = TRUE
    /\ \E refused \in SUBSET {s \in ToSet(writers) \ Std : sink[s] = "open"} :
          /\ Cardinality(refused) <= faults
          /\ faults' = faults - Cardinality(refused)
          /\ sink' = [s \in Sinks |->
                        CASE s \in refused -> "refused"
                          [] s \in ToSet(writers) \ (Std \cup refused) -> "closed"
                          [] OTHER -> sink[s]]
          /\ durable' = [s \in Sinks |-> IF sink'[s] # sink[s] /\ s \notin refused
                                         THEN Len(log[s]) ELSE durable[s]]
    /\ SetList(<<>>) /\ members' = {}
    /\ UNCHANGED <<writeVars, syncVars, log, edits>>

Next ==
    \/ \E r \in Records : WriteBegin(r) \/ WriteSink(r) \/ WriteReturn(r) \/ WriteRetry(r)
    \/ SyncBegin \/ SyncSink \/ SyncReturn
    \/ \E s \in Sinks : AddWriter(s) \/ RemoveWriter(s)
    \/ Close

Spec == Init /\ [][Next]_vars

-----------------------------------------------------------------------------
TypeOK ==
    /\ writers \in Seq(Sinks) /\ pair \in Seq(Sinks)
    /\ {useDual, shut} \subseteq BOOLEAN
    /\ useDual = (pair # <<>>)
    /\ call \in [Records -> {"new", "running", "done"}]
    /\ todo \in [Records -> Seq(Sinks)]
    /\ tally \in [Records -> [good : Nat, bad : Nat]]
    /\ result \in [Records -> [all : BOOLEAN, error : BOOLEAN]]
    /\ attempt \in [Records -> 0 .. Retries]
    /\ syncTodo \in Seq(Sinks) /\ syncing \in {"idle", "clean", "failed"}
    /\ log \in [Sinks -> Seq(Records)]
    /\ durable \in [Sinks -> Nat] /\ \A s \in Sinks : durable[s] <= Len(log[s])
    /\ sink \in [Sinks -> {"open", "closed", "refused"}]
    /\ members \subseteq Sinks
    /\ target \in [Records -> SUBSET Sinks]
    /\ before \subseteq Records /\ promised \subseteq Sinks \X Records
    /\ faults \in 0 .. MaxFaults /\ edits \in 0 .. MaxEdits

\* After any history of AddWriter, RemoveWriter and Close, a Write visits
\* exactly the writers they leave: through the list or through the cached pair.
TargetsAreMembers == ToSet(Targets) = members

Holds(s, r) == \E i \in DOMAIN log[s] : log[s][i] = r

\* A Write that returns no error has put its record into every writer that was
\* a member when its last attempt began; one that returns an error and the full
\* count, into at least one.
ResultIsHonest(r) ==
    /\ ~result[r].error => \A s \in target[r] : Holds(s, r)
    /\ result[r].all => \E s \in target[r] : Holds(s, r)

\* A failing sink does not keep a record from the others: all were tried.
AllWereTried(r) == tally[r].good + tally[r].bad = Cardinality(target[r])

\* A retry repeats the record to the writers that took it already.  A writer
\* never holds more copies than attempts were made, and never a second one
\* unless an attempt before it had failed somewhere.
Copies(s, r) == Cardinality({i \in DOMAIN log[s] : log[s][i] = r})
DuplicatesComeFromRetries(r) ==
    /\ \A s \in Sinks : Copies(s, r) <= attempt[r] + 1
    /\ attempt[r] > 0 => faults < MaxFaults \/ \E s \in Sinks : sink[s] = "closed"

\* What a Write did to the sinks is what it reports, with failing sinks, edits
\* of the list while it runs, a Close and the retries of the async writer.
FanOutIsHonest ==
    \A r \in Records :
        /\ call[r] = "done" => ResultIsHonest(r) /\ AllWereTried(r)
        /\ DuplicatesComeFromRetries(r)

\* After a Sync without an error, every record whose Write had succeeded when
\* the Sync began is durable in every writer it went to that is still a
\* member, standard streams excepted, whatever else was being written.
Durable(s, r) == \E i \in 1 .. durable[s] : log[s][i] = r

SyncCovers == \A p \in promised : Durable(p[1], p[2])

-----------------------------------------------------------------------------
(* TargetsAreMembers, FanOutIsHonest and SyncCovers as induction hypotheses. *)

\* The list has every member once, and the cached pair, when in use, is the list.
ListInv ==
    /\ IsInjective(writers) /\ ToSet(writers) = members
    /\ useDual => pair = writers

Visited(r) == target[r] \ ToSet(todo[r])
Faulted == faults < MaxFaults \/ \E s \in Sinks : sink[s] = "closed"

\* A Write between two sinks: those it has passed hold the record, unless one
\* was counted as bad, and each has taken it once in this attempt.
WriteInv(r) ==
    /\ IsInjective(todo[r]) /\ ToSet(todo[r]) \subseteq target[r]
    /\ call[r] # "running" => todo[r] = <<>>
    /\ call[r] = "new" =>
          attempt[r] = 0 /\ target[r] = {} /\ tally[r].good = 0 /\ tally[r].bad = 0
    /\ tally[r].good + tally[r].bad + Len(todo[r]) = Cardinality(target[r])
    /\ tally[r].bad = 0 => \A s \in Visited(r) : Holds(s, r)
    /\ tally[r].good > 0 => \E s \in target[r] : Holds(s, r)
    /\ tally[r].bad > 0 \/ attempt[r] > 0 => Faulted
    /\ call[r] = "done" => result[r] = PrepareResult(r)
    /\ \A s \in Sinks :
          Copies(s, r) <= IF call[r] = "new" \/ s \in ToSet(todo[r])
                          THEN attempt[r] ELSE attempt[r] + 1

\* A Sync between two sinks: those it has passed are durable in the records it
\* began with, whose Writes stay as they were.
SyncInv ==
    /\ syncing = "idle" => syncTodo = <<>> /\ before = {}
    /\ \A r \in before : Clean(r)
    /\ syncing = "clean" =>
          \A s \in members \ (Std \cup ToSet(syncTodo)), r \in before :
              s \in target[r] => Durable(s, r)
    /\ \A s \in Sinks : sink[s] = "closed" => durable[s] = Len(log[s])
    /\ SyncCovers

FanOutInv == ListInv /\ SyncInv /\ \A r \in Records : WriteInv(r)

\* Close tries every writer: one that fails to close does not keep another
\* open, and none is left in the list to be written to.
CloseReachesAll ==
    [][edits' = edits =>
        \A s \in members \ members' : s \in Std \/ sink'[s] # "open"]_vars

\* errors.go: ErrWriterClosed is returned when attempting to write to a closed
\* writer.
WriteAfterCloseFails ==
    [][\A r \in Records :
        shut /\ call[r] = "running" /\ call'[r] = "done" => result'[r].error]_vars
=============================================================================
