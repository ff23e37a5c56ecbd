------------------------- MODULE MultiWriterProofs -------------------------
(* Theorems about MultiWriter, for every set of sinks and records and every *)
(* number of retries, faults and edits.                                     *)
EXTENDS MultiWriter, SequenceTheorems, FiniteSetTheorems, TLAPS

USE SinkAssumption, InitialAssumption

-----------------------------------------------------------------------------
(* Lists of writers without repetition. *)

LEMMA MembersOf ==
    ASSUME NEW list \in Seq(Sinks)
    PROVE  /\ Len(list) \in Nat /\ DOMAIN list = 1 .. Len(list)
           /\ ToSet(list) = {list[i] : i \in 1 .. Len(list)}
           /\ ToSet(list) \subseteq Sinks
           /\ list = <<>> <=> Len(list) = 0
BY DEF ToSet

\* AddWriter: one more writer, one more member.
LEMMA Appended ==
    ASSUME NEW list \in Seq(Sinks), IsInjective(list), NEW s \in Sinks, s \notin ToSet(list)
    PROVE  /\ Append(list, s) \in Seq(Sinks) /\ IsInjective(Append(list, s))
           /\ ToSet(Append(list, s)) = ToSet(list) \cup {s}
<1> DEFINE new == Append(list, s)
<1>1. /\ new \in Seq(Sinks) /\ Len(new) = Len(list) + 1 /\ new[Len(list) + 1] = s
      /\ \A i \in 1 .. Len(list) : new[i] = list[i]
  BY AppendProperties
<1> HIDE DEF new
<1>2. \A i \in 1 .. Len(list) : list[i] # s
  BY MembersOf
<1>3. \A i, j \in 1 .. Len(new) : new[i] = new[j] => i = j
  <2> SUFFICES ASSUME NEW i \in 1 .. Len(new), NEW j \in 1 .. Len(new), new[i] = new[j]
               PROVE  i = j
    OBVIOUS
  <2>1. CASE i \in 1 .. Len(list) /\ j \in 1 .. Len(list)
    BY <1>1, <2>1, MembersOf DEF IsInjective
  <2>2. CASE i = Len(list) + 1 \/ j = Len(list) + 1
    BY <1>1, <1>2, <2>2
  <2>3. Len(list) \in Nat
    OBVIOUS
  <2> QED BY <1>1, <2>1, <2>2, <2>3
<1>4. ToSet(new) = ToSet(list) \cup {s}
  <2>1. \A x : x \in ToSet(new) <=> \E i \in 1 .. Len(list) + 1 : new[i] = x
    BY <1>1, MembersOf
  <2>2. \A x : x \in ToSet(list) <=> \E i \in 1 .. Len(list) : list[i] = x
    BY MembersOf
  <2>3. Len(list) \in Nat
    OBVIOUS
  <2>4. \A x : x \in ToSet(list) \cup {s} => x \in ToSet(new)
    BY <1>1, <2>1, <2>2, <2>3
  <2>5. \A x : x \in ToSet(new) => x \in ToSet(list) \cup {s}
    BY <1>1, <2>1, <2>2, <2>3
  <2> QED BY <2>4, <2>5
<1> QED BY <1>1, <1>3, <1>4, MembersOf DEF IsInjective, new

\* A visit takes one sink off what is to be done.
LEMMA Dropped ==
    ASSUME NEW list \in Seq(Sinks), IsInjective(list), list # <<>>
    PROVE  /\ Head(list) \in ToSet(list) /\ Head(list) \in Sinks
           /\ Tail(list) \in Seq(Sinks) /\ IsInjective(Tail(list))
           /\ Len(Tail(list)) = Len(list) - 1
           /\ ToSet(Tail(list)) = ToSet(list) \ {Head(list)}
<1> DEFINE rest == Tail(list)
<1>1. /\ rest \in Seq(Sinks) /\ Len(rest) = Len(list) - 1
      /\ \A i \in 1 .. Len(rest) : rest[i] = list[i + 1]
  BY HeadTailProperties
<1>2. Len(list) \in Nat \ {0} /\ Head(list) = list[1]
  OBVIOUS
<1> HIDE DEF rest
<1>3. \A i, j \in 1 .. Len(list) : list[i] = list[j] => i = j
  BY MembersOf DEF IsInjective
<1>4. \A i, j \in 1 .. Len(rest) : rest[i] = rest[j] => i = j
  BY <1>1, <1>2, <1>3
<1>5. \A x : x \in ToSet(rest) => x \in ToSet(list) \ {Head(list)}
  BY <1>1, <1>2, <1>3, MembersOf
<1>6. \A x : x \in ToSet(list) \ {Head(list)} => x \in ToSet(rest)
  <2> SUFFICES ASSUME NEW x \in ToSet(list), x # Head(list)
               PROVE  x \in ToSet(rest)
    OBVIOUS
  <2>1. PICK i \in 1 .. Len(list) : list[i] = x
    BY MembersOf
  <2>2. i - 1 \in 1 .. Len(rest) /\ rest[i - 1] = x
    BY <1>1, <1>2, <2>1
  <2> QED BY <1>1, <2>2, MembersOf
<1>7. Head(list) \in ToSet(list) /\ Head(list) \in Sinks
  BY <1>2, MembersOf
<1> QED BY <1>1, <1>4, <1>5, <1>6, <1>7, MembersOf DEF IsInjective, rest

\* RemoveWriter: the last writer takes the place, and nobody else goes.
LEMMA SwapRemoved ==
    ASSUME NEW list \in Seq(Sinks), IsInjective(list), NEW s \in ToSet(list)
    PROVE  /\ SwapRemove(list, s) \in Seq(Sinks) /\ IsInjective(SwapRemove(list, s))
           /\ ToSet(SwapRemove(list, s)) = ToSet(list) \ {s}
<1> DEFINE n == Len(list)
           p == CHOOSE i \in DOMAIN list :
                    list[i] = s /\ \A k \in 1 .. i - 1 : list[k] # s
           moved == [list EXCEPT ![p] = Last(list)]
           new == SwapRemove(list, s)
<1>1. \A i, j \in 1 .. n : list[i] = list[j] => i = j
  BY MembersOf DEF IsInjective
<1>2. p \in 1 .. n /\ list[p] = s
  <2>1. PICK i \in 1 .. n : list[i] = s
    BY MembersOf
  <2>2. \A k \in 1 .. i - 1 : list[k] # s
    BY <1>1, <2>1
  <2>3. \E j \in DOMAIN list : list[j] = s /\ \A k \in 1 .. j - 1 : list[k] # s
    BY <2>1, <2>2, MembersOf
  <2> QED BY <2>3, MembersOf
<1>3. new = SubSeq(moved, 1, Len(moved) - 1)
  BY DEF SwapRemove, Front
<1> HIDE DEF p, new
<1>4. n \in Nat \ {0} /\ Last(list) = list[n] /\ list[n] \in Sinks
  BY <1>2, MembersOf DEF Last
<1>5. /\ moved \in Seq(Sinks) /\ Len(moved) = n
      /\ \A j \in 1 .. n : moved[j] = IF j = p THEN list[n] ELSE list[j]
  BY <1>2, <1>4, ExceptSeq
<1> HIDE DEF moved
<1>6. \A i \in 1 .. n - 1 : moved[i] \in Sinks
  BY <1>4, <1>5
<1>7. /\ new \in Seq(Sinks) /\ Len(new) = n - 1
      /\ \A j \in 1 .. n - 1 : new[j] = moved[j]
  <2>1. /\ SubSeq(moved, 1, n - 1) \in Seq(Sinks)
        /\ Len(SubSeq(moved, 1, n - 1)) = IF 1 <= n - 1 THEN n - 1 - 1 + 1 ELSE 0
        /\ \A i \in 1 .. n - 1 - 1 + 1 : SubSeq(moved, 1, n - 1)[i] = moved[1 + i - 1]
    BY <1>4, <1>6, SubSeqProperties
  <2> QED BY <1>3, <1>4, <1>5, <2>1
<1>8. \A j \in 1 .. n - 1 : new[j] = IF j = p THEN list[n] ELSE list[j]
  BY <1>4, <1>5, <1>7
<1> HIDE DEF n
<1>9. \A i, j \in 1 .. n - 1 : new[i] = new[j] => i = j
  BY <1>1, <1>2, <1>4, <1>8
<1>10. \A x : x \in ToSet(list) <=> \E i \in 1 .. n : list[i] = x
  BY MembersOf DEF n
<1>11. \A x : x \in ToSet(new) <=> \E i \in 1 .. n - 1 : new[i] = x
  BY <1>7, MembersOf
<1>12. \A x : x \in ToSet(new) => x \in ToSet(list) \ {s}
  BY <1>1, <1>2, <1>4, <1>8, <1>10, <1>11
<1>13. ASSUME NEW x \in ToSet(list), x # s
       PROVE  x \in ToSet(new)
  <2>1. PICK i \in 1 .. n : list[i] = x
    BY <1>10, <1>13
  <2>2. i # p
    BY <1>2, <1>13, <2>1
  <2>3. CASE i = n
    <3>1. p \in 1 .. n - 1 /\ new[p] = x
      BY <1>2, <1>4, <1>8, <2>1, <2>2, <2>3
    <3> QED BY <1>11, <3>1
  <2>4. CASE i # n
    <3>1. i \in 1 .. n - 1 /\ new[i] = x
      BY <1>4, <1>8, <2>1, <2>2, <2>4
    <3> QED BY <1>11, <3>1
  <2> QED BY <2>3, <2>4
<1> QED BY <1>7, <1>9, <1>12, <1>13, MembersOf DEF IsInjective, new

\* A list without repetition has as many places as members.
LEMMA CountMembers ==
    ASSUME NEW list \in Seq(Sinks), IsInjective(list)
    PROVE  IsFiniteSet(ToSet(list)) /\ Cardinality(ToSet(list)) = Len(list)
<1> DEFINE n == Len(list)
<1>1. n \in Nat /\ IsFiniteSet(1 .. n) /\ Cardinality(1 .. n) = n
  <2>1. n \in Nat
    OBVIOUS
  <2> HIDE DEF n
  <2>2. 1 \in Int /\ n \in Int
    BY <2>1
  <2>3. IsFiniteSet(1 .. n)
    BY <2>2, FS_Interval
  <2>4. Cardinality(1 .. n) = IF 1 > n THEN 0 ELSE n - 1 + 1
    BY <2>2, FS_Interval, Zenon
  <2> QED BY <2>1, <2>3, <2>4
<1>2. list \in Bijection(1 .. n, ToSet(list))
  <2>1. list \in [1 .. n -> ToSet(list)]
    BY MembersOf
  <2>2. \A i, j \in 1 .. n : list[i] = list[j] => i = j
    BY MembersOf DEF IsInjective
  <2>3. \A x \in ToSet(list) : \E i \in 1 .. n : list[i] = x
    BY MembersOf
  <2> QED BY <2>1, <2>2, <2>3 DEF Bijection, Injection, Surjection, IsInjective
<1>3. ExistsBijection(1 .. n, ToSet(list))
  BY <1>2 DEF ExistsBijection
<1> QED BY <1>1, <1>3, FS_Bijection

\* The copies of a record in a log grow by the one that is appended.
Occurrences(held, r) == Cardinality({i \in DOMAIN held : held[i] = r})

LEMMA OneMore ==
    ASSUME NEW held \in Seq(Records), NEW r \in Records, NEW q \in Records
    PROVE  /\ Occurrences(held, q) \in Nat
           /\ Occurrences(Append(held, r), q)
                = IF q = r THEN Occurrences(held, q) + 1 ELSE Occurrences(held, q)
<1> DEFINE n == Len(held)
           old == {i \in DOMAIN held : held[i] = q}
           new == {i \in DOMAIN Append(held, r) : Append(held, r)[i] = q}
<1>1. n \in Nat /\ IsFiniteSet(1 .. n) /\ old \subseteq 1 .. n
  <2>1. n \in Nat /\ DOMAIN held = 1 .. n
    OBVIOUS
  <2> QED BY <2>1, FS_Interval
<1>2. IsFiniteSet(old) /\ Cardinality(old) \in Nat
  BY <1>1, FS_Subset, FS_CardinalityType
<1>3. new = IF q = r THEN old \cup {n + 1} ELSE old
  <2>1. /\ Append(held, r) \in Seq(Records) /\ Len(Append(held, r)) = n + 1
        /\ \A i \in 1 .. n : Append(held, r)[i] = held[i]
        /\ Append(held, r)[n + 1] = r
    BY AppendProperties
  <2>2. DOMAIN Append(held, r) = (1 .. n) \cup {n + 1} /\ DOMAIN held = 1 .. n
    BY <1>1, <2>1
  <2> QED BY <2>1, <2>2
<1>4. n + 1 \notin old
  BY <1>1
<1>5. Cardinality(old \cup {n + 1}) = Cardinality(old) + 1
  BY <1>2, <1>4, FS_AddElement
<1> QED BY <1>2, <1>3, <1>5 DEF Occurrences

-----------------------------------------------------------------------------
(* Type correctness, together with the list and the cached pair. *)

LEMMA ListSet ==
    ASSUME NEW list \in Seq(Sinks), IsInjective(list), SetList(list)
    PROVE  /\ writers' = list /\ pair' \in Seq(Sinks) /\ useDual' \in BOOLEAN
           /\ useDual' = (pair' # <<>>) /\ (useDual' => pair' = writers')
<1>1. CASE Len(list) = 2
  <2>1. useDual' = TRUE /\ pair' = list /\ writers' = list
    BY <1>1 DEF SetList
  <2>2. list # <<>>
    BY <1>1, MembersOf
  <2> QED BY <2>1, <2>2
<1>2. CASE Len(list) # 2
  <2>1. useDual' = FALSE /\ pair' = <<>> /\ writers' = list
    BY <1>2 DEF SetList
  <2>2. <<>> \in Seq(Sinks)
    OBVIOUS
  <2> QED BY <2>1, <2>2
<1> QED BY <1>1, <1>2

\* What AddWriter, RemoveWriter and Close do to the list.
LEMMA ListStep ==
    ASSUME TypeOK, ListInv, [Next]_vars
    PROVE  /\ ListInv' /\ writers' \in Seq(Sinks) /\ pair' \in Seq(Sinks)
           /\ useDual' \in BOOLEAN /\ useDual' = (pair' # <<>>) /\ members' \subseteq Sinks
<1> DEFINE Goal == /\ ListInv' /\ writers' \in Seq(Sinks) /\ pair' \in Seq(Sinks)
                   /\ useDual' \in BOOLEAN /\ useDual' = (pair' # <<>>)
                   /\ members' \subseteq Sinks
<1>1. ASSUME NEW s \in Sinks, AddWriter(s) PROVE Goal
  <2>1. CASE s \in ToSet(writers)
    <3>1. useDual' = FALSE /\ pair' = <<>> /\ writers' = writers /\ members' = members
      BY <1>1, <2>1 DEF AddWriter
    <3>2. <<>> \in Seq(Sinks)
      OBVIOUS
    <3> QED BY <3>1, <3>2 DEF ListInv, TypeOK
  <2>2. CASE s \notin ToSet(writers)
    <3>1. SetList(Append(writers, s)) /\ members' = members \cup {s}
      BY <1>1, <2>2 DEF AddWriter
    <3>2. /\ Append(writers, s) \in Seq(Sinks) /\ IsInjective(Append(writers, s))
          /\ ToSet(Append(writers, s)) = members \cup {s}
      BY <2>2, Appended DEF ListInv, TypeOK
    <3> QED BY <3>1, <3>2, ListSet DEF ListInv, TypeOK
  <2> QED BY <2>1, <2>2
<1>2. ASSUME NEW s \in Sinks, RemoveWriter(s) PROVE Goal
  <2>1. CASE s \in ToSet(writers)
    <3>1. SetList(SwapRemove(writers, s)) /\ members' = members \ {s}
      BY <1>2, <2>1 DEF RemoveWriter
    <3>2. /\ SwapRemove(writers, s) \in Seq(Sinks) /\ IsInjective(SwapRemove(writers, s))
          /\ ToSet(SwapRemove(writers, s)) = members \ {s}
      BY <2>1, SwapRemoved DEF ListInv, TypeOK
    <3> QED BY <3>1, <3>2, ListSet DEF ListInv, TypeOK
  <2>2. CASE s \notin ToSet(writers)
    <3>1. SetList(writers) /\ members' = members
      BY <1>2, <2>2 DEF RemoveWriter, ListInv
    <3> QED BY <3>1, ListSet DEF ListInv, TypeOK
  <2> QED BY <2>1, <2>2
<1>3. ASSUME Close PROVE Goal
  <2>1. SetList(<<>>) /\ members' = {}
    BY <1>3 DEF Close
  <2>2. <<>> \in Seq(Sinks) /\ IsInjective(<<>>) /\ ToSet(<<>>) = {}
    BY DEF IsInjective, ToSet
  <2> QED BY <2>1, <2>2, ListSet DEF ListInv, TypeOK
<1>4. CASE UNCHANGED listVars
  BY <1>4 DEF listVars, ListInv, TypeOK
<1>5. ASSUME NEW r \in Records, WriteBegin(r) \/ WriteSink(r) \/ WriteReturn(r) \/ WriteRetry(r)
      PROVE  UNCHANGED listVars
  BY <1>5 DEF WriteBegin, WriteSink, WriteReturn, WriteRetry
<1>6. ASSUME SyncBegin \/ SyncSink \/ SyncReturn PROVE UNCHANGED listVars
  BY <1>6 DEF SyncBegin, SyncSink, SyncReturn
<1>7. UNCHANGED vars => UNCHANGED listVars
  BY DEF vars
<1> QED BY <1>1, <1>2, <1>3, <1>4, <1>5, <1>6, <1>7 DEF Next

\* One more sink in the tally of a Write.
LEMMA Visiting ==
    ASSUME TypeOK, NEW r \in Records, NEW outcome \in {"good", "bad"},
           todo[r] # <<>>, Visit(r, outcome)
    PROVE  /\ todo' \in [Records -> Seq(Sinks)]
           /\ tally' \in [Records -> [good : Nat, bad : Nat]]
           /\ todo'[r] = Tail(todo[r])
           /\ outcome = "good" =>
                 tally'[r].good = tally[r].good + 1 /\ tally'[r].bad = tally[r].bad
           /\ outcome = "bad" =>
                 tally'[r].good = tally[r].good /\ tally'[r].bad = tally[r].bad + 1
           /\ \A q \in Records \ {r} : todo'[q] = todo[q] /\ tally'[q] = tally[q]
<1>1. Tail(todo[r]) \in Seq(Sinks)
  BY HeadTailProperties DEF TypeOK
<1>2. /\ tally[r] \in [good : Nat, bad : Nat]
      /\ tally[r].good \in Nat /\ tally[r].bad \in Nat
  BY DEF TypeOK
<1>3. /\ todo' = [todo EXCEPT ![r] = Tail(@)]
      /\ tally' = [tally EXCEPT ![r][outcome] = @ + 1]
  BY DEF Visit
<1>4. todo' \in [Records -> Seq(Sinks)]
  BY <1>1, <1>3 DEF TypeOK
<1>5. todo'[r] = Tail(todo[r]) /\ \A q \in Records \ {r} : todo'[q] = todo[q]
  BY <1>3 DEF TypeOK
<1>6. \A q \in Records \ {r} : tally'[q] = tally[q]
  BY <1>3 DEF TypeOK
<1>7. CASE outcome = "good"
  <2>1. tally' = [tally EXCEPT ![r] = [tally[r] EXCEPT !.good = tally[r].good + 1]]
    BY <1>3, <1>7
  <2>2. [tally[r] EXCEPT !.good = tally[r].good + 1] \in [good : Nat, bad : Nat]
    BY <1>2
  <2>3. tally' \in [Records -> [good : Nat, bad : Nat]]
    BY <2>1, <2>2 DEF TypeOK
  <2>4. tally'[r] = [tally[r] EXCEPT !.good = tally[r].good + 1]
    BY <2>1 DEF TypeOK
  <2>5. tally'[r].good = tally[r].good + 1 /\ tally'[r].bad = tally[r].bad
    BY <1>2, <2>4
  <2> QED BY <1>4, <1>5, <1>6, <1>7, <2>3, <2>5
<1>8. CASE outcome = "bad"
  <2>1. tally' = [tally EXCEPT ![r] = [tally[r] EXCEPT !.bad = tally[r].bad + 1]]
    BY <1>3, <1>8
  <2>2. [tally[r] EXCEPT !.bad = tally[r].bad + 1] \in [good : Nat, bad : Nat]
    BY <1>2
  <2>3. tally' \in [Records -> [good : Nat, bad : Nat]]
    BY <2>1, <2>2 DEF TypeOK
  <2>4. tally'[r] = [tally[r] EXCEPT !.bad = tally[r].bad + 1]
    BY <2>1 DEF TypeOK
  <2>5. tally'[r].good = tally[r].good /\ tally'[r].bad = tally[r].bad + 1
    BY <1>2, <2>4
  <2> QED BY <1>4, <1>5, <1>6, <1>8, <2>3, <2>5
<1> QED BY <1>7, <1>8

\* What a sink may do to its log when a record is written to it.
LEMMA Logged ==
    ASSUME TypeOK, NEW r \in Records, NEW s \in Sinks,
           log' \in {log, [log EXCEPT ![s] = Append(@, r)]}
    PROVE  /\ log' \in [Sinks -> Seq(Records)]
           /\ \A t \in Sinks : /\ Len(log'[t]) >= Len(log[t])
                               /\ \A i \in 1 .. Len(log[t]) : log'[t][i] = log[t][i]
           /\ \A t \in Sinks \ {s} : log'[t] = log[t]
<1>1. /\ Append(log[s], r) \in Seq(Records) /\ Len(Append(log[s], r)) = Len(log[s]) + 1
      /\ \A i \in 1 .. Len(log[s]) : Append(log[s], r)[i] = log[s][i]
  BY AppendProperties DEF TypeOK
<1>2. \A t \in Sinks : Len(log[t]) \in Nat
  BY DEF TypeOK
<1>3. CASE log' = log
  BY <1>2, <1>3 DEF TypeOK
<1>4. CASE log' = [log EXCEPT ![s] = Append(@, r)]
  <2>1. log'[s] = Append(log[s], r) /\ \A t \in Sinks \ {s} : log'[t] = log[t]
    BY <1>4 DEF TypeOK
  <2>2. log' \in [Sinks -> Seq(Records)]
    BY <1>1, <1>4 DEF TypeOK
  <2>3. Len(log'[s]) >= Len(log[s]) /\ \A i \in 1 .. Len(log[s]) : log'[s][i] = log[s][i]
    BY <1>1, <1>2, <2>1
  <2>4. ASSUME NEW t \in Sinks
        PROVE  /\ Len(log'[t]) >= Len(log[t])
               /\ \A i \in 1 .. Len(log[t]) : log'[t][i] = log[t][i]
    <3>1. CASE t = s
      BY <2>3, <3>1
    <3>2. CASE t # s
      BY <1>2, <2>1, <3>2
    <3> QED BY <3>1, <3>2
  <2> QED BY <2>1, <2>2, <2>4
<1> QED BY <1>3, <1>4

LEMMA Bounds == Retries \in Nat /\ MaxFaults \in Nat /\ MaxEdits \in Nat
OBVIOUS

LEMMA FaultsLeft ==
    ASSUME TypeOK, NoFault \/ Fault
    PROVE  faults' \in 0 .. MaxFaults /\ faults' <= faults
<1>1. faults \in 0 .. MaxFaults
  BY DEF TypeOK
<1>2. CASE NoFault
  BY <1>1, <1>2, Bounds DEF NoFault
<1>3. CASE Fault
  BY <1>1, <1>3, Bounds DEF Fault
<1> QED BY <1>2, <1>3

\* What Close does to the sinks: a closed one is flushed, and none of the list's
\* is left open.
LEMMA Closing ==
    ASSUME TypeOK, ListInv, Close
    PROVE  /\ sink' \in [Sinks -> {"open", "closed", "refused"}]
           /\ durable' \in [Sinks -> Nat] /\ faults' \in 0 .. faults
           /\ \A s \in Sinks : durable[s] <= durable'[s] /\ durable'[s] <= Len(log[s])
           /\ \A s \in Sinks : sink[s] = "closed" => sink'[s] = "closed"
           /\ \A s \in Sinks : sink'[s] = "closed" /\ sink[s] # "closed"
                               => durable'[s] = Len(log[s])
           /\ \A s \in members \ Std : sink'[s] # "open"
<1>1. PICK refused \in SUBSET {s \in ToSet(writers) \ Std : sink[s] = "open"} :
          /\ Cardinality(refused) <= faults
          /\ faults' = faults - Cardinality(refused)
          /\ sink' = [s \in Sinks |->
                        CASE s \in refused -> "refused"
                          [] s \in ToSet(writers) \ (Std \cup refused) -> "closed"
                          [] OTHER -> sink[s]]
          /\ durable' = [s \in Sinks |-> IF sink'[s] # sink[s] /\ s \notin refused
                                         THEN Len(log[s]) ELSE durable[s]]
  BY DEF Close
<1>2. Cardinality(refused) \in Nat
  <2>1. IsFiniteSet(ToSet(writers)) /\ refused \subseteq ToSet(writers)
    BY CountMembers DEF TypeOK, ListInv
  <2> QED BY <2>1, FS_Subset, FS_CardinalityType
<1>3. faults' \in 0 .. faults
  <2>1. faults \in Nat
    BY Bounds DEF TypeOK
  <2> QED BY <1>1, <1>2, <2>1
<1>4. \A s \in Sinks : /\ sink[s] \in {"open", "closed", "refused"}
                      /\ Len(log[s]) \in Nat /\ durable[s] \in Nat /\ durable[s] <= Len(log[s])
  BY DEF TypeOK
<1>5. \A s \in Sinks :
          /\ s \in refused => sink'[s] = "refused"
          /\ s \notin refused /\ s \in members \ Std => sink'[s] = "closed"
          /\ s \notin refused /\ s \notin members \ Std => sink'[s] = sink[s]
  BY <1>1 DEF ListInv
<1>6. \A s \in refused : sink[s] = "open" /\ s \in members \ Std
  BY <1>1 DEF ListInv
<1>7. sink' \in [Sinks -> {"open", "closed", "refused"}]
  <2>1. \A s \in Sinks : sink'[s] \in {"open", "closed", "refused"}
    BY <1>4, <1>5
  <2>2. sink' = [s \in Sinks |-> sink'[s]]
    BY <1>1
  <2> QED BY <2>1, <2>2
<1>8. \A s \in Sinks : durable'[s] = IF sink'[s] # sink[s] /\ s \notin refused
                                    THEN Len(log[s]) ELSE durable[s]
  BY <1>1
<1>9. durable' \in [Sinks -> Nat]
  <2>1. durable' = [s \in Sinks |-> durable'[s]]
    BY <1>1
  <2> QED BY <1>4, <1>8, <2>1
<1>10. \A s \in Sinks : durable[s] <= durable'[s] /\ durable'[s] <= Len(log[s])
  BY <1>4, <1>8
<1>11. \A s \in Sinks : sink[s] = "closed" => sink'[s] = "closed"
  BY <1>5, <1>6
<1>12. \A s \in Sinks : sink'[s] = "closed" /\ sink[s] # "closed" => durable'[s] = Len(log[s])
  BY <1>5, <1>8
<1>13. \A s \in members \ Std : sink'[s] # "open"
  <2>1. members \subseteq Sinks
    BY DEF TypeOK
  <2>2. \A s \in members \ Std : sink'[s] \in {"refused", "closed"}
    BY <1>5, <2>1
  <2> QED BY <2>2
<1> QED BY <1>3, <1>7, <1>9, <1>10, <1>11, <1>12, <1>13

LEMMA TypeStep ==
    ASSUME TypeOK, ListInv, [Next]_vars
    PROVE  TypeOK'
<1>1. /\ writers' \in Seq(Sinks) /\ pair' \in Seq(Sinks)
      /\ useDual' \in BOOLEAN /\ useDual' = (pair' # <<>>) /\ members' \subseteq Sinks
  BY ListStep
<1>2. Targets \in Seq(Sinks)
  BY DEF Targets, TypeOK
<1>3. ASSUME NEW r \in Records, WriteBegin(r) PROVE TypeOK'
  BY <1>2, <1>3 DEF WriteBegin, TypeOK, listVars, syncVars, sinkVars
<1>4. ASSUME NEW r \in Records, WriteSink(r) PROVE TypeOK'
  <2> DEFINE s == Head(todo[r])
  <2>1. todo[r] # <<>> /\ s \in Sinks
    <3>1. todo[r] # <<>>
      BY <1>4 DEF WriteSink
    <3> QED BY <3>1, HeadTailProperties DEF TypeOK
  <2>2. /\ log' \in {log, [log EXCEPT ![s] = Append(@, r)]}
        /\ Visit(r, "good") \/ Visit(r, "bad")
        /\ NoFault \/ Fault
    BY <1>4 DEF WriteSink
  <2> HIDE DEF s
  <2>3. /\ todo' \in [Records -> Seq(Sinks)]
        /\ tally' \in [Records -> [good : Nat, bad : Nat]]
    BY <2>1, <2>2, Visiting
  <2>4. log' \in [Sinks -> Seq(Records)] /\ \A t \in Sinks : durable[t] <= Len(log'[t])
    <3>1. /\ log' \in [Sinks -> Seq(Records)]
          /\ \A t \in Sinks : Len(log'[t]) >= Len(log[t])
      BY <2>1, <2>2, Logged
    <3>2. \A t \in Sinks : durable[t] \in Nat /\ durable[t] <= Len(log[t])
      BY DEF TypeOK
    <3>3. \A t \in Sinks : Len(log[t]) \in Nat
      BY DEF TypeOK
    <3>4. \A t \in Sinks : Len(log'[t]) \in Nat
      BY <3>1
    <3> QED BY <3>1, <3>2, <3>3, <3>4
  <2>5. faults' \in 0 .. MaxFaults
    BY <2>2, FaultsLeft
  <2>6. UNCHANGED <<listVars, call, result, attempt, target, syncVars, durable, sink, edits>>
    BY <1>4 DEF WriteSink
  <2> QED BY <2>3, <2>4, <2>5, <2>6 DEF TypeOK, listVars, syncVars
<1>5. ASSUME NEW r \in Records, WriteReturn(r) PROVE TypeOK'
  <2>1. PrepareResult(r) \in [all : BOOLEAN, error : BOOLEAN]
    BY DEF PrepareResult
  <2> QED BY <1>5, <2>1 DEF WriteReturn, TypeOK, listVars, syncVars, sinkVars
<1>6. ASSUME NEW r \in Records, WriteRetry(r) PROVE TypeOK'
  <2>1. attempt[r] + 1 \in 0 .. Retries
    <3>1. attempt[r] \in 0 .. Retries /\ attempt[r] < Retries
      BY <1>6 DEF WriteRetry, TypeOK
    <3> QED BY <3>1, Bounds
  <2> QED BY <1>2, <1>6, <2>1 DEF WriteRetry, TypeOK, listVars, syncVars, sinkVars
<1>7. ASSUME SyncBegin PROVE TypeOK'
  BY <1>7 DEF SyncBegin, TypeOK, listVars, writeVars, sinkVars
<1>8. ASSUME SyncSink PROVE TypeOK'
  <2> DEFINE s == Head(syncTodo)
  <2>1. syncTodo # <<>> /\ s \in Sinks /\ Tail(syncTodo) \in Seq(Sinks)
    <3>1. syncTodo # <<>>
      BY <1>8 DEF SyncSink
    <3> QED BY <3>1, HeadTailProperties DEF TypeOK
  <2>2. /\ durable' \in {durable, [durable EXCEPT ![s] = Len(log[s])]}
        /\ syncing' \in {syncing, "failed"} /\ syncTodo' = Tail(syncTodo)
        /\ NoFault \/ Fault
    BY <1>8 DEF SyncSink
  <2> HIDE DEF s
  <2>3. Len(log[s]) \in Nat
    BY <2>1 DEF TypeOK
  <2>4. durable' \in [Sinks -> Nat] /\ \A t \in Sinks : durable'[t] <= Len(log[t])
    <3>1. CASE durable' = durable
      BY <3>1 DEF TypeOK
    <3>2. CASE durable' = [durable EXCEPT ![s] = Len(log[s])]
      <4>1. durable' \in [Sinks -> Nat]
        BY <2>3, <3>2 DEF TypeOK
      <4>2. durable'[s] = Len(log[s]) /\ \A t \in Sinks \ {s} : durable'[t] = durable[t]
        BY <2>1, <3>2 DEF TypeOK
      <4>3. \A t \in Sinks : durable[t] <= Len(log[t])
        BY DEF TypeOK
      <4> QED BY <2>3, <4>1, <4>2, <4>3
    <3> QED BY <2>2, <3>1, <3>2
  <2>5. faults' \in 0 .. MaxFaults
    BY <2>2, FaultsLeft
  <2>6. UNCHANGED <<listVars, writeVars, before, promised, log, sink, edits>>
    BY <1>8 DEF SyncSink
  <2> QED BY <2>1, <2>2, <2>4, <2>5, <2>6 DEF TypeOK, listVars, writeVars
<1>9. ASSUME SyncReturn PROVE TypeOK'
  <2>1. promised' \subseteq Sinks \X Records
    BY <1>9 DEF SyncReturn, TypeOK
  <2>2. /\ syncing' = "idle" /\ before' = {}
        /\ UNCHANGED <<listVars, writeVars, syncTodo, sinkVars, faults, edits>>
    BY <1>9 DEF SyncReturn
  <2> QED BY <2>1, <2>2 DEF TypeOK, listVars, writeVars, sinkVars
<1>10. ASSUME NEW s \in Sinks, AddWriter(s) \/ RemoveWriter(s) PROVE TypeOK'
  <2>1. edits' \in 0 .. MaxEdits
    BY <1>10 DEF AddWriter, RemoveWriter, Edit, TypeOK
  <2>2. UNCHANGED <<shut, writeVars, syncVars, sinkVars, faults>>
    BY <1>10 DEF AddWriter, RemoveWriter
  <2> QED BY <1>1, <2>1, <2>2 DEF TypeOK, writeVars, syncVars, sinkVars
<1>11. ASSUME Close PROVE TypeOK'
  <2>1. /\ shut' = TRUE /\ UNCHANGED <<writeVars, syncVars, log, edits>>
    BY <1>11 DEF Close
  <2>2. faults' \in 0 .. MaxFaults
    <3>1. faults' \in 0 .. faults /\ faults \in 0 .. MaxFaults
      BY <1>11, Closing DEF TypeOK
    <3> QED BY <3>1, Bounds
  <2> QED BY <1>1, <1>11, <2>1, <2>2, Closing DEF TypeOK, writeVars, syncVars
<1>12. CASE UNCHANGED vars
  BY <1>12 DEF vars, TypeOK, listVars, writeVars, syncVars, sinkVars
<1> QED
  BY <1>3, <1>4, <1>5, <1>6, <1>7, <1>8, <1>9, <1>10, <1>11, <1>12 DEF Next

-----------------------------------------------------------------------------
(* What every step keeps: logs only grow, faults only happen. *)

LEMMA LogsGrow ==
    ASSUME TypeOK, [Next]_vars
    PROVE  /\ log' \in [Sinks -> Seq(Records)]
           /\ \A s \in Sinks : /\ Len(log[s]) \in Nat /\ Len(log'[s]) \in Nat
                               /\ Len(log'[s]) >= Len(log[s])
                               /\ \A i \in 1 .. Len(log[s]) : log'[s][i] = log[s][i]
<1> DEFINE Grown == /\ log' \in [Sinks -> Seq(Records)]
                    /\ \A s \in Sinks :
                          /\ Len(log[s]) \in Nat /\ Len(log'[s]) \in Nat
                          /\ Len(log'[s]) >= Len(log[s])
                          /\ \A i \in 1 .. Len(log[s]) : log'[s][i] = log[s][i]
<1>1. \A s \in Sinks : Len(log[s]) \in Nat
  BY DEF TypeOK
<1>2. ASSUME log' = log PROVE Grown
  BY <1>1, <1>2 DEF TypeOK
<1>3. ASSUME NEW r \in Records, WriteSink(r) PROVE Grown
  <2> DEFINE s == Head(todo[r])
  <2>1. s \in Sinks
    <3>1. todo[r] # <<>>
      BY <1>3 DEF WriteSink
    <3> QED BY <3>1, HeadTailProperties DEF TypeOK
  <2>2. log' \in {log, [log EXCEPT ![s] = Append(@, r)]}
    BY <1>3 DEF WriteSink
  <2> HIDE DEF s
  <2>3. log' \in [Sinks -> Seq(Records)]
    BY <2>1, <2>2, Logged
  <2>4. \A t \in Sinks : /\ Len(log'[t]) >= Len(log[t])
                        /\ \A i \in 1 .. Len(log[t]) : log'[t][i] = log[t][i]
    BY <2>1, <2>2, Logged
  <2>5. \A t \in Sinks : Len(log'[t]) \in Nat
    BY <2>3
  <2> QED BY <1>1, <2>3, <2>4, <2>5
<1>4. ASSUME NEW r \in Records, WriteBegin(r) \/ WriteReturn(r) \/ WriteRetry(r)
      PROVE  log' = log
  BY <1>4 DEF WriteBegin, WriteReturn, WriteRetry, sinkVars
<1>5. ASSUME SyncBegin \/ SyncSink \/ SyncReturn PROVE log' = log
  BY <1>5 DEF SyncBegin, SyncSink, SyncReturn, sinkVars
<1>6. ASSUME NEW s \in Sinks, AddWriter(s) \/ RemoveWriter(s) PROVE log' = log
  BY <1>6 DEF AddWriter, RemoveWriter, sinkVars
<1>7. Close \/ UNCHANGED vars => log' = log
  BY DEF Close, vars, sinkVars
<1> HIDE DEF Grown
<1>8. Grown
  BY <1>2, <1>3, <1>4, <1>5, <1>6, <1>7 DEF Next
<1> QED BY <1>8 DEF Grown

LEMMA HeldStays ==
    ASSUME TypeOK, [Next]_vars, NEW s \in Sinks, NEW r \in Records, Holds(s, r)
    PROVE  Holds(s, r)'
<1>1. DOMAIN log[s] = 1 .. Len(log[s])
  BY DEF TypeOK
<1>2. DOMAIN log'[s] = 1 .. Len(log'[s])
  <2>1. log' \in [Sinks -> Seq(Records)]
    BY LogsGrow
  <2> QED BY <2>1
<1>3. PICK i \in 1 .. Len(log[s]) : log[s][i] = r
  BY <1>1 DEF Holds
<1>4. i \in 1 .. Len(log'[s]) /\ log'[s][i] = r
  BY <1>3, LogsGrow
<1> QED BY <1>2, <1>4 DEF Holds

LEMMA FaultedStays ==
    ASSUME TypeOK, ListInv, [Next]_vars, Faulted
    PROVE  Faulted'
<1>1. faults \in Nat /\ MaxFaults \in Nat
  BY Bounds DEF TypeOK
<1>2. ASSUME faults' \in 0 .. faults,
             \A s \in Sinks : sink[s] = "closed" => sink'[s] = "closed"
      PROVE  Faulted'
  BY <1>1, <1>2 DEF Faulted
<1>3. ASSUME NEW r \in Records,
             WriteBegin(r) \/ WriteSink(r) \/ WriteReturn(r) \/ WriteRetry(r)
      PROVE  Faulted'
  <2>1. sink' = sink
    BY <1>3 DEF WriteBegin, WriteSink, WriteReturn, WriteRetry, sinkVars
  <2>2. faults' = faults \/ NoFault \/ Fault
    BY <1>3 DEF WriteBegin, WriteSink, WriteReturn, WriteRetry
  <2>3. faults' \in 0 .. faults
    BY <1>1, <2>2, FaultsLeft DEF NoFault
  <2> QED BY <1>2, <2>1, <2>3
<1>4. ASSUME SyncBegin \/ SyncSink \/ SyncReturn PROVE Faulted'
  <2>1. sink' = sink
    BY <1>4 DEF SyncBegin, SyncSink, SyncReturn, sinkVars
  <2>2. faults' = faults \/ NoFault \/ Fault
    BY <1>4 DEF SyncBegin, SyncSink, SyncReturn
  <2>3. faults' \in 0 .. faults
    BY <1>1, <2>2, FaultsLeft DEF NoFault
  <2> QED BY <1>2, <2>1, <2>3
<1>5. ASSUME NEW s \in Sinks, AddWriter(s) \/ RemoveWriter(s) PROVE Faulted'
  BY <1>5 DEF AddWriter, RemoveWriter, Faulted, sinkVars
<1>6. ASSUME Close PROVE Faulted'
  <2>1. /\ faults' \in 0 .. faults
        /\ \A s \in Sinks : sink[s] = "closed" => sink'[s] = "closed"
    BY <1>6, Closing
  <2> QED BY <1>2, <2>1
<1>7. CASE UNCHANGED vars
  BY <1>7 DEF vars, Faulted, sinkVars
<1> QED BY <1>3, <1>4, <1>5, <1>6, <1>7 DEF Next

-----------------------------------------------------------------------------
(* The fan-out of a record. *)

\* A step that is not about q's Write keeps what is known of it.
Untouched(q) ==
    /\ call'[q] = call[q] /\ todo'[q] = todo[q] /\ tally'[q] = tally[q]
    /\ result'[q] = result[q] /\ attempt'[q] = attempt[q] /\ target'[q] = target[q]
    /\ \A s \in Sinks : Copies(s, q)' = Copies(s, q)

LEMMA WriteElsewhere ==
    ASSUME TypeOK, ListInv, [Next]_vars, NEW q \in Records, WriteInv(q), Untouched(q)
    PROVE  WriteInv(q)'
<1>1. target[q] \subseteq Sinks
  BY DEF TypeOK
<1>2. \A s \in Sinks : Holds(s, q) => Holds(s, q)'
  BY HeldStays
<1>3. Faulted => Faulted'
  BY FaultedStays
<1>4. Visited(q)' = Visited(q) /\ Visited(q) \subseteq Sinks
  BY <1>1 DEF Untouched, Visited
<1>5. /\ tally[q].bad = 0 => \A s \in Visited(q)' : Holds(s, q)'
      /\ tally[q].good > 0 => \E s \in target[q] : Holds(s, q)'
  BY <1>1, <1>2, <1>4 DEF WriteInv
<1>6. PrepareResult(q)' = PrepareResult(q)
  BY DEF Untouched, PrepareResult
<1> QED BY <1>3, <1>5, <1>6 DEF WriteInv, Untouched

\* Appending a record to a sink's log adds a copy of that record only.
LEMMA CopiesGrow ==
    ASSUME TypeOK, NEW t \in Sinks, NEW q \in Records
    PROVE  /\ Copies(t, q) \in Nat
           /\ log'[t] = log[t] => Copies(t, q)' = Copies(t, q)
           /\ \A r \in Records : log'[t] = Append(log[t], r) =>
                 Copies(t, q)' = IF q = r THEN Copies(t, q) + 1 ELSE Copies(t, q)
<1>1. log[t] \in Seq(Records)
  BY DEF TypeOK
<1>2. Copies(t, q) = Occurrences(log[t], q) /\ Copies(t, q)' = Occurrences(log'[t], q)
  BY DEF Copies, Occurrences
<1>3. Occurrences(log[t], q) \in Nat
  BY <1>1, OneMore
<1>4. \A r \in Records : Occurrences(Append(log[t], r), q)
          = IF q = r THEN Occurrences(log[t], q) + 1 ELSE Occurrences(log[t], q)
  BY <1>1, OneMore
<1> QED BY <1>2, <1>3, <1>4

\* A Write, or a retry, sets out to visit every member.
LEMMA Started ==
    ASSUME TypeOK, ListInv
    PROVE  /\ Targets \in Seq(Sinks) /\ IsInjective(Targets) /\ ToSet(Targets) = members
           /\ Len(Targets) = Cardinality(members) /\ Len(Targets) \in Nat
<1>1. Targets = writers
  BY DEF Targets, ListInv
<1> QED BY <1>1, CountMembers DEF TypeOK, ListInv

\* What is known when a Write begins or begins again.
LEMMA AtTheStart ==
    ASSUME TypeOK, TypeOK', ListInv, ListInv', [Next]_vars, NEW r \in Records, WriteInv(r),
           call'[r] = "running", todo'[r] = Targets, target'[r] = members,
           tally'[r].good = 0, tally'[r].bad = 0, log' = log,
           attempt'[r] > 0 => Faulted,
           \A s \in Sinks : Copies(s, r) <= attempt'[r]
    PROVE  WriteInv(r)'
<1>1. /\ IsInjective(todo'[r]) /\ ToSet(todo'[r]) = target'[r]
      /\ Len(todo'[r]) = Cardinality(target'[r]) /\ Len(todo'[r]) \in Nat
  BY Started
<1>2. Visited(r)' = {}
  BY <1>1 DEF Visited
<1>3. Faulted => Faulted'
  BY FaultedStays
<1>4. attempt'[r] \in Nat /\ \A s \in Sinks : Copies(s, r)' = Copies(s, r)
  BY Bounds DEF TypeOK, Copies
<1>5. \A s \in Sinks : Copies(s, r) \in Nat
  BY CopiesGrow
<1>6. tally'[r].good + tally'[r].bad + Len(todo'[r]) = Cardinality(target'[r])
  BY <1>1
<1>7. \A s \in Sinks : Copies(s, r)' <= attempt'[r] /\ Copies(s, r)' <= attempt'[r] + 1
  BY <1>4, <1>5
<1> QED BY <1>1, <1>2, <1>3, <1>6, <1>7 DEF WriteInv

\* A visit moves one from what is to be done to what is counted.
LEMMA MoveOne ==
    \A g, b, n \in Nat : /\ (g + 1) + b + (n - 1) = g + b + n
                        /\ g + (b + 1) + (n - 1) = g + b + n
OBVIOUS

\* One sink of r's fan-out is served, or is not.
LEMMA VisitKeeps ==
    ASSUME TypeOK, TypeOK', ListInv, [Next]_vars, NEW r \in Records, WriteInv(r), WriteSink(r)
    PROVE  WriteInv(r)'
<1>0. PICK s : s = Head(todo[r])
  OBVIOUS
<1>1. /\ todo[r] # <<>> /\ todo[r] \in Seq(Sinks) /\ IsInjective(todo[r])
      /\ call[r] = "running"
  BY DEF WriteSink, WriteInv, TypeOK
<1>2. /\ s \in ToSet(todo[r]) /\ s \in Sinks /\ Tail(todo[r]) \in Seq(Sinks)
      /\ IsInjective(Tail(todo[r])) /\ Len(Tail(todo[r])) = Len(todo[r]) - 1
      /\ ToSet(Tail(todo[r])) = ToSet(todo[r]) \ {s}
  BY <1>0, <1>1, Dropped
<1>3. \/ /\ log' = [log EXCEPT ![s] = Append(@, r)]
         /\ Visit(r, "good")
      \/ /\ log' \in {log, [log EXCEPT ![s] = Append(@, r)]}
         /\ Visit(r, "bad") /\ (sink[s] = "closed" \/ Fault)
  BY <1>0 DEF WriteSink
<1>4. /\ call' = call /\ result' = result /\ attempt' = attempt /\ target' = target
      /\ sink' = sink
  BY DEF WriteSink
<1>5. s \in target[r] /\ target[r] \subseteq Sinks /\ ToSet(todo[r]) \subseteq target[r]
  BY <1>2 DEF WriteInv, TypeOK
<1>6. /\ todo'[r] = Tail(todo[r])
      /\ tally[r].good \in Nat /\ tally[r].bad \in Nat
      /\ Len(todo[r]) \in Nat /\ attempt[r] \in Nat
      /\ Visit(r, "good") => tally'[r].good = tally[r].good + 1 /\ tally'[r].bad = tally[r].bad
      /\ Visit(r, "bad") => tally'[r].good = tally[r].good /\ tally'[r].bad = tally[r].bad + 1
  <2>1. todo'[r] = Tail(todo[r])
    BY <1>1, <1>3, Visiting
  <2>2. /\ Visit(r, "good") => tally'[r].good = tally[r].good + 1 /\ tally'[r].bad = tally[r].bad
        /\ Visit(r, "bad") => tally'[r].good = tally[r].good /\ tally'[r].bad = tally[r].bad + 1
    BY <1>1, Visiting
  <2>3. tally[r].good \in Nat /\ tally[r].bad \in Nat
    BY DEF TypeOK
  <2>4. Len(todo[r]) \in Nat /\ attempt[r] \in Nat
    BY <1>1, Bounds DEF TypeOK
  <2> QED BY <2>1, <2>2, <2>3, <2>4
<1>7. tally'[r].good + tally'[r].bad + Len(todo'[r]) = Cardinality(target'[r])
  <2>1. tally[r].good + tally[r].bad + Len(todo[r]) = Cardinality(target[r])
    BY DEF WriteInv
  <2>2. Len(todo'[r]) = Len(todo[r]) - 1 /\ target'[r] = target[r]
    BY <1>2, <1>4, <1>6
  <2>3. \/ tally'[r].good = tally[r].good + 1 /\ tally'[r].bad = tally[r].bad
        \/ tally'[r].good = tally[r].good /\ tally'[r].bad = tally[r].bad + 1
    BY <1>3, <1>6
  <2>4. /\ tally[r].good \in Nat /\ tally[r].bad \in Nat /\ Len(todo[r]) \in Nat
    BY <1>6
  <2>5. CASE tally'[r].good = tally[r].good + 1 /\ tally'[r].bad = tally[r].bad
    <3>1. (tally[r].good + 1) + tally[r].bad + (Len(todo[r]) - 1)
            = tally[r].good + tally[r].bad + Len(todo[r])
      BY <2>4, MoveOne, Zenon
    <3> QED BY <2>1, <2>2, <2>5, <3>1, Zenon
  <2>6. CASE tally'[r].good = tally[r].good /\ tally'[r].bad = tally[r].bad + 1
    <3>1. tally[r].good + (tally[r].bad + 1) + (Len(todo[r]) - 1)
            = tally[r].good + tally[r].bad + Len(todo[r])
      BY <2>4, MoveOne, Zenon
    <3> QED BY <2>1, <2>2, <2>6, <3>1, Zenon
  <2> QED BY <2>3, <2>5, <2>6
<1>8. log' = [log EXCEPT ![s] = Append(@, r)] => Holds(s, r)'
  <2> SUFFICES ASSUME log' = [log EXCEPT ![s] = Append(@, r)] PROVE Holds(s, r)'
    OBVIOUS
  <2>1. log'[s] = Append(log[s], r) /\ log[s] \in Seq(Records)
    BY <1>2 DEF TypeOK
  <2>2. /\ Append(log[s], r) \in Seq(Records) /\ Len(Append(log[s], r)) = Len(log[s]) + 1
        /\ Append(log[s], r)[Len(log[s]) + 1] = r
    BY <2>1, AppendProperties
  <2>3. Len(log[s]) + 1 \in 1 .. Len(log'[s]) /\ DOMAIN log'[s] = 1 .. Len(log'[s])
    BY <2>1, <2>2
  <2> QED BY <2>1, <2>2, <2>3 DEF Holds
<1>9. \A t \in Sinks : Holds(t, r) => Holds(t, r)'
  BY HeldStays
<1>10. Visited(r)' = Visited(r) \cup {s}
  BY <1>2, <1>4, <1>5, <1>6 DEF Visited
<1>11. tally'[r].bad = 0 => \A t \in Visited(r)' : Holds(t, r)'
  <2> SUFFICES ASSUME tally'[r].bad = 0, NEW t \in Visited(r)' PROVE Holds(t, r)'
    OBVIOUS
  <2>1. tally[r].bad = 0 /\ Holds(s, r)'
    BY <1>3, <1>6, <1>8
  <2>2. t = s \/ (t \in Visited(r) /\ t \in Sinks)
    BY <1>5, <1>10 DEF Visited
  <2> QED BY <1>9, <2>1, <2>2 DEF WriteInv
<1>12. tally'[r].good > 0 => \E t \in target'[r] : Holds(t, r)'
  <2>1. CASE Visit(r, "good") /\ log' = [log EXCEPT ![s] = Append(@, r)]
    BY <1>4, <1>5, <1>8, <2>1
  <2>2. CASE Visit(r, "bad")
    BY <1>4, <1>5, <1>6, <1>9, <2>2 DEF WriteInv
  <2> QED BY <1>3, <2>1, <2>2
<1>13. tally'[r].bad > 0 \/ attempt'[r] > 0 => Faulted'
  <2>1. tally[r].bad > 0 \/ attempt[r] > 0 => Faulted'
    BY FaultedStays DEF WriteInv
  <2>2. sink[s] = "closed" => Faulted'
    BY <1>2, <1>4 DEF Faulted
  <2>3. Fault => Faulted'
    <3>1. faults \in 0 .. MaxFaults /\ MaxFaults \in Nat
      BY Bounds DEF TypeOK
    <3>2. Fault => faults' < MaxFaults
      BY <3>1 DEF Fault
    <3> QED BY <3>2 DEF Faulted
  <2>4. Visit(r, "good") => tally'[r].bad = tally[r].bad
    BY <1>6
  <2> QED BY <1>3, <1>4, <2>1, <2>2, <2>3, <2>4
<1>14. \A t \in Sinks : Copies(t, r)' <= IF t \in ToSet(todo'[r])
                                        THEN attempt'[r] ELSE attempt'[r] + 1
  <2> SUFFICES ASSUME NEW t \in Sinks
               PROVE  Copies(t, r)' <= IF t \in ToSet(todo'[r])
                                       THEN attempt'[r] ELSE attempt'[r] + 1
    OBVIOUS
  <2>1. /\ Copies(t, r) \in Nat
        /\ Copies(t, r) <= IF t \in ToSet(todo[r]) THEN attempt[r] ELSE attempt[r] + 1
    BY <1>1, CopiesGrow DEF WriteInv
  <2>2. CASE t # s
    <3>1. log'[t] = log[t]
      BY <1>2, <1>3, <2>2, Logged
    <3>2. Copies(t, r)' = Copies(t, r) /\ (t \in ToSet(todo'[r]) <=> t \in ToSet(todo[r]))
      BY <1>2, <1>6, <2>2, <3>1 DEF Copies
    <3> QED BY <1>4, <2>1, <3>2
  <2>3. CASE t = s
    <3>1. t \notin ToSet(todo'[r]) /\ Copies(t, r) <= attempt[r]
      BY <1>2, <1>6, <2>1, <2>3
    <3>2. log'[t] = log[t] \/ log'[t] = Append(log[t], r)
      BY <1>3, <2>3 DEF TypeOK
    <3>3. Copies(t, r)' \in {Copies(t, r), Copies(t, r) + 1}
      BY <3>2, CopiesGrow
    <3> QED BY <1>4, <1>6, <2>1, <3>1, <3>3
  <2> QED BY <2>2, <2>3
<1>15. IsInjective(todo'[r]) /\ ToSet(todo'[r]) \subseteq target'[r]
  BY <1>2, <1>4, <1>5, <1>6
<1>16. call'[r] = "running"
  BY <1>1, <1>4
<1> QED BY <1>7, <1>11, <1>12, <1>13, <1>14, <1>15, <1>16 DEF WriteInv

LEMMA WriteInvStep ==
    ASSUME TypeOK, TypeOK', ListInv, ListInv', [Next]_vars, \A q \in Records : WriteInv(q)
    PROVE  \A q \in Records : WriteInv(q)'
<1>1. ASSUME NEW q \in Records, UNCHANGED writeVars, log' = log PROVE WriteInv(q)'
  <2>1. Untouched(q)
    BY <1>1 DEF Untouched, Copies, writeVars
  <2> QED BY <2>1, WriteElsewhere
<1>2. ASSUME NEW r \in Records, NEW q \in Records \ {r},
             WriteBegin(r) \/ WriteSink(r) \/ WriteReturn(r) \/ WriteRetry(r)
      PROVE  WriteInv(q)'
  <2>1. /\ call'[q] = call[q] /\ result'[q] = result[q] /\ attempt'[q] = attempt[q]
        /\ target'[q] = target[q]
    <3>1. /\ DOMAIN call = Records /\ DOMAIN result = Records /\ DOMAIN attempt = Records
          /\ DOMAIN target = Records
      BY DEF TypeOK
    <3>2. CASE WriteBegin(r)
      BY <1>2, <3>1, <3>2 DEF WriteBegin
    <3>3. CASE WriteSink(r)
      BY <1>2, <3>3 DEF WriteSink
    <3>4. CASE WriteReturn(r)
      BY <1>2, <3>1, <3>4 DEF WriteReturn
    <3>5. CASE WriteRetry(r)
      BY <1>2, <3>1, <3>5 DEF WriteRetry
    <3> QED BY <1>2, <3>2, <3>3, <3>4, <3>5
  <2>2. /\ todo'[q] = todo[q] /\ tally'[q] = tally[q]
        /\ \A s \in Sinks : Copies(s, q)' = Copies(s, q)
    <3>1. CASE WriteBegin(r) \/ WriteReturn(r) \/ WriteRetry(r)
      <4>1. log' = log
        BY <3>1 DEF WriteBegin, WriteReturn, WriteRetry, sinkVars
      <4>2. todo'[q] = todo[q] /\ tally'[q] = tally[q]
        BY <3>1 DEF WriteBegin, WriteReturn, WriteRetry, TypeOK
      <4> QED BY <4>1, <4>2 DEF Copies
    <3>2. CASE WriteSink(r)
      <4>1. PICK s : s = Head(todo[r])
        OBVIOUS
      <4>2. /\ todo[r] # <<>> /\ (Visit(r, "good") \/ Visit(r, "bad"))
            /\ log' \in {log, [log EXCEPT ![s] = Append(@, r)]}
        BY <3>2, <4>1 DEF WriteSink
      <4>3. todo'[q] = todo[q] /\ tally'[q] = tally[q]
        BY <4>2, Visiting
      <4>4. ASSUME NEW t \in Sinks PROVE Copies(t, q)' = Copies(t, q)
        <5>1. DOMAIN log = Sinks
          BY DEF TypeOK
        <5>2. log'[t] = log[t] \/ log'[t] = Append(log[t], r)
          BY <4>2, <5>1
        <5>3. r \in Records /\ q \in Records /\ q # r
          BY <1>2
        <5> QED BY <5>2, <5>3, CopiesGrow
      <4> QED BY <4>3, <4>4
    <3> QED BY <1>2, <3>1, <3>2
  <2> QED BY <2>1, <2>2, WriteElsewhere DEF Untouched
<1>3. ASSUME NEW r \in Records, WriteBegin(r) PROVE WriteInv(r)'
  <2>1. /\ call'[r] = "running" /\ todo'[r] = Targets /\ target'[r] = members
        /\ tally' = tally /\ attempt' = attempt /\ log' = log /\ call[r] = "new"
    BY <1>3 DEF WriteBegin, TypeOK, sinkVars
  <2>2. /\ attempt[r] = 0 /\ tally[r].good = 0 /\ tally[r].bad = 0
        /\ \A s \in Sinks : Copies(s, r) <= attempt[r]
    BY <2>1 DEF WriteInv
  <2> QED BY <2>1, <2>2, AtTheStart
<1>4. ASSUME NEW r \in Records, WriteReturn(r) PROVE WriteInv(r)'
  <2>1. /\ call'[r] = "done" /\ call[r] = "running" /\ todo[r] = <<>>
        /\ result'[r] = PrepareResult(r)
        /\ todo' = todo /\ tally' = tally /\ attempt' = attempt /\ target' = target
        /\ log' = log /\ faults' = faults /\ sink' = sink
    BY <1>4 DEF WriteReturn, TypeOK, sinkVars
  <2>2. PrepareResult(r)' = PrepareResult(r) /\ Visited(r)' = Visited(r) /\ Faulted' = Faulted
    BY <2>1 DEF PrepareResult, Visited, Faulted
  <2>3. \A s \in Sinks : Copies(s, r)' = Copies(s, r)
    BY <2>1 DEF Copies
  <2>4. \A s : Holds(s, r)' = Holds(s, r)
    BY <2>1 DEF Holds
  <2> QED BY <2>1, <2>2, <2>3, <2>4 DEF WriteInv
<1>5. ASSUME NEW r \in Records, WriteRetry(r) PROVE WriteInv(r)'
  <2>1. /\ call'[r] = "running" /\ todo'[r] = Targets /\ target'[r] = members
        /\ tally'[r] = [good |-> 0, bad |-> 0] /\ attempt'[r] = attempt[r] + 1
        /\ log' = log /\ call[r] = "done" /\ result[r].error
    BY <1>5 DEF WriteRetry, TypeOK, sinkVars
  <2>2. todo[r] = <<>> /\ result[r] = PrepareResult(r)
    BY <2>1 DEF WriteInv
  <2>3. Faulted
    <3>1. result[r].error = (tally[r].bad > 0)
      BY <2>2 DEF PrepareResult
    <3> QED BY <2>1, <3>1 DEF WriteInv
  <2>4. \A s \in Sinks : Copies(s, r) <= attempt'[r]
    <3>1. \A s : s \notin ToSet(todo[r])
      BY <2>2 DEF ToSet
    <3> QED BY <2>1, <3>1 DEF WriteInv
  <2>5. tally'[r].good = 0 /\ tally'[r].bad = 0
    BY <2>1
  <2> QED BY <2>1, <2>3, <2>4, <2>5, AtTheStart
<1>6. ASSUME NEW r \in Records, WriteSink(r) PROVE WriteInv(r)'
  BY <1>6, VisitKeeps
<1>7. SyncBegin \/ SyncSink \/ SyncReturn => UNCHANGED writeVars /\ log' = log
  BY DEF SyncBegin, SyncSink, SyncReturn, sinkVars
<1>8. ASSUME NEW s \in Sinks, AddWriter(s) \/ RemoveWriter(s)
      PROVE  UNCHANGED writeVars /\ log' = log
  BY <1>8 DEF AddWriter, RemoveWriter, sinkVars
<1>9. Close \/ UNCHANGED vars => UNCHANGED writeVars /\ log' = log
  BY DEF Close, vars, sinkVars
<1>10. ASSUME NEW r \in Records,
              WriteBegin(r) \/ WriteSink(r) \/ WriteReturn(r) \/ WriteRetry(r)
       PROVE  \A q \in Records : WriteInv(q)'
  BY <1>2, <1>3, <1>4, <1>5, <1>6, <1>10
<1> QED BY <1>1, <1>7, <1>8, <1>9, <1>10 DEF Next

-----------------------------------------------------------------------------
(* What a Sync vouches for. *)

LEMMA DurableStays ==
    ASSUME TypeOK, ListInv, [Next]_vars
    PROVE  \A s \in Sinks : \A r : Durable(s, r) => Durable(s, r)'
<1>1. \A s \in Sinks : /\ durable[s] \in Nat /\ durable[s] <= Len(log[s])
                      /\ Len(log[s]) \in Nat
  BY DEF TypeOK
<1>2. \A s \in Sinks : durable[s] <= durable'[s] /\ durable'[s] \in Int
  <2>1. CASE durable' = durable
    BY <1>1, <2>1
  <2>2. ASSUME SyncSink
        PROVE  \A s \in Sinks : durable[s] <= durable'[s] /\ durable'[s] \in Int
    <3>1. PICK h : h = Head(syncTodo)
      OBVIOUS
    <3>2. durable' = durable \/ durable' = [durable EXCEPT ![h] = Len(log[h])]
      BY <2>2, <3>1 DEF SyncSink
    <3>3. CASE durable' = [durable EXCEPT ![h] = Len(log[h])]
      BY <1>1, <3>3 DEF TypeOK
    <3> QED BY <1>1, <3>2, <3>3
  <2>3. ASSUME Close
        PROVE  \A s \in Sinks : durable[s] <= durable'[s] /\ durable'[s] \in Int
    <3>1. /\ durable' \in [Sinks -> Nat]
          /\ \A s \in Sinks : durable[s] <= durable'[s]
      BY <2>3, Closing
    <3> QED BY <3>1
  <2>4. ASSUME NEW r \in Records,
               WriteBegin(r) \/ WriteSink(r) \/ WriteReturn(r) \/ WriteRetry(r)
        PROVE  durable' = durable
    BY <2>4 DEF WriteBegin, WriteSink, WriteReturn, WriteRetry, sinkVars
  <2>5. SyncBegin \/ SyncReturn => durable' = durable
    BY DEF SyncBegin, SyncReturn, sinkVars
  <2>6. ASSUME NEW s \in Sinks, AddWriter(s) \/ RemoveWriter(s) PROVE durable' = durable
    BY <2>6 DEF AddWriter, RemoveWriter, sinkVars
  <2>7. UNCHANGED vars => durable' = durable
    BY DEF vars, sinkVars
  <2> QED BY <2>1, <2>2, <2>3, <2>4, <2>5, <2>6, <2>7 DEF Next
<1>3. ASSUME NEW s \in Sinks, NEW r, Durable(s, r) PROVE Durable(s, r)'
  <2>1. PICK i \in 1 .. durable[s] : log[s][i] = r
    BY <1>3 DEF Durable
  <2>2. i \in 1 .. durable'[s] /\ i \in 1 .. Len(log[s])
    BY <1>1, <1>2, <2>1
  <2>3. log'[s][i] = r
    BY <2>1, <2>2, LogsGrow
  <2> QED BY <2>2, <2>3 DEF Durable
<1> QED BY <1>3

\* A sink whose whole log is covered has made durable what it holds.
LEMMA HeldIsDurable ==
    ASSUME TypeOK, NEW s \in Sinks, NEW r \in Records, Holds(s, r), durable[s] = Len(log[s])
    PROVE  Durable(s, r)
<1>1. DOMAIN log[s] = 1 .. Len(log[s])
  BY DEF TypeOK
<1> QED BY <1>1 DEF Holds, Durable

\* What was clean when the Sync began is in the sinks it went to.
LEMMA CleanIsHeld ==
    ASSUME TypeOK, NEW r \in Records, WriteInv(r), Clean(r)
    PROVE  \A s \in target[r] : Holds(s, r)
<1>1. todo[r] = <<>> /\ result[r] = PrepareResult(r)
  BY DEF WriteInv, Clean
<1>2. Visited(r) = target[r]
  BY <1>1 DEF Visited, ToSet
<1>3. tally[r].bad \in Nat /\ ~(tally[r].bad > 0)
  BY <1>1 DEF Clean, PrepareResult, TypeOK
<1>4. tally[r].bad = 0
  BY <1>3
<1> QED BY <1>2, <1>4 DEF WriteInv

\* A Write that succeeded is over: nothing repeats it.
LEMMA CleanStays ==
    ASSUME TypeOK, [Next]_vars, NEW q \in Records, Clean(q)
    PROVE  Clean(q)' /\ target'[q] = target[q]
<1>1. call[q] = "done" /\ ~result[q].error
  BY DEF Clean
<1>2. /\ DOMAIN call = Records /\ DOMAIN result = Records /\ DOMAIN target = Records
  BY DEF TypeOK
<1>3. ASSUME call' = call, result' = result, target' = target
      PROVE  Clean(q)' /\ target'[q] = target[q]
  BY <1>1, <1>3 DEF Clean
<1>4. ASSUME NEW r \in Records, WriteBegin(r) PROVE Clean(q)' /\ target'[q] = target[q]
  <2>1. r # q
    BY <1>1, <1>4 DEF WriteBegin
  <2> QED BY <1>1, <1>2, <1>4, <2>1 DEF WriteBegin, Clean
<1>5. ASSUME NEW r \in Records, WriteReturn(r) PROVE Clean(q)' /\ target'[q] = target[q]
  <2>1. r # q
    BY <1>1, <1>5 DEF WriteReturn
  <2> QED BY <1>1, <1>2, <1>5, <2>1 DEF WriteReturn, Clean
<1>6. ASSUME NEW r \in Records, WriteRetry(r) PROVE Clean(q)' /\ target'[q] = target[q]
  <2>1. r # q
    BY <1>1, <1>6 DEF WriteRetry
  <2> QED BY <1>1, <1>2, <1>6, <2>1 DEF WriteRetry, Clean
<1>7. ASSUME NEW r \in Records, WriteSink(r)
      PROVE  call' = call /\ result' = result /\ target' = target
  BY <1>7 DEF WriteSink
<1>8. SyncBegin \/ SyncSink \/ SyncReturn \/ Close \/ UNCHANGED vars
          => call' = call /\ result' = result /\ target' = target
  BY DEF SyncBegin, SyncSink, SyncReturn, Close, vars, writeVars
<1>9. ASSUME NEW s \in Sinks, AddWriter(s) \/ RemoveWriter(s)
      PROVE  call' = call /\ result' = result /\ target' = target
  BY <1>9 DEF AddWriter, RemoveWriter, writeVars
<1> QED BY <1>3, <1>4, <1>5, <1>6, <1>7, <1>8, <1>9 DEF Next

LEMMA SyncInvStep ==
    ASSUME TypeOK, FanOutInv, [Next]_vars
    PROVE  SyncInv'
<1> USE DEF FanOutInv
<1>1. \A s \in Sinks : \A r : Durable(s, r) => Durable(s, r)'
  BY DurableStays
<1>2. \A q \in before : q \in Records /\ Clean(q)' /\ target'[q] = target[q]
  BY CleanStays DEF SyncInv, TypeOK
<1>3. \A p \in promised : p[1] \in Sinks
  BY DEF TypeOK
<1>4. \A p \in promised : Durable(p[1], p[2])'
  BY <1>1, <1>3 DEF SyncInv, SyncCovers
<1>5. members \subseteq Sinks
  BY DEF TypeOK
\* A step outside of Sync and Close.
<1>6. ASSUME UNCHANGED <<syncVars, durable, sink>>, members' = members \/ syncing = "idle",
             \A s \in Sinks : sink[s] = "closed" => log'[s] = log[s]
      PROVE  SyncInv'
  <2>1. /\ syncTodo' = syncTodo /\ syncing' = syncing /\ before' = before
        /\ promised' = promised /\ durable' = durable /\ sink' = sink
    BY <1>6 DEF syncVars
  <2>2. syncing' = "clean" =>
            \A s \in members' \ (Std \cup ToSet(syncTodo')), r \in before' :
                s \in target'[r] => Durable(s, r)'
    <3> SUFFICES ASSUME syncing = "clean", NEW s \in members \ (Std \cup ToSet(syncTodo)),
                        NEW r \in before, s \in target[r]
                 PROVE  Durable(s, r)'
      BY <1>2, <1>6, <2>1
    <3>1. Durable(s, r)
      BY DEF SyncInv
    <3> QED BY <1>1, <1>5, <3>1
  <2>3. \A s \in Sinks : sink'[s] = "closed" => durable'[s] = Len(log'[s])
    BY <1>6, <2>1 DEF SyncInv
  <2>4. syncing' = "idle" => syncTodo' = <<>> /\ before' = {}
    BY <2>1 DEF SyncInv
  <2>5. \A r \in before' : Clean(r)'
    BY <1>2, <2>1
  <2>6. SyncCovers'
    BY <1>4, <2>1 DEF SyncCovers
  <2> QED BY <2>2, <2>3, <2>4, <2>5, <2>6 DEF SyncInv
<1>7. ASSUME NEW r \in Records, WriteSink(r) PROVE SyncInv'
  <2>1. PICK s : s = Head(todo[r])
    OBVIOUS
  <2>2. \/ sink[s] # "closed" /\ log' \in {log, [log EXCEPT ![s] = Append(@, r)]}
        \/ log' = log
    BY <1>7, <2>1 DEF WriteSink
  <2>3. \A t \in Sinks : sink[t] = "closed" => log'[t] = log[t]
    BY <2>2 DEF TypeOK
  <2> QED BY <1>6, <1>7, <2>3 DEF WriteSink, listVars
<1>8. ASSUME NEW r \in Records, WriteBegin(r) \/ WriteReturn(r) \/ WriteRetry(r)
      PROVE  SyncInv'
  <2>1. UNCHANGED <<listVars, syncVars, sinkVars>>
    BY <1>8 DEF WriteBegin, WriteReturn, WriteRetry
  <2> QED BY <1>6, <2>1 DEF listVars, sinkVars
<1>9. ASSUME NEW s \in Sinks, AddWriter(s) \/ RemoveWriter(s) PROVE SyncInv'
  <2>1. UNCHANGED <<syncVars, sinkVars>> /\ syncing = "idle"
    BY <1>9 DEF AddWriter, RemoveWriter, Edit, Unlocked
  <2> QED BY <1>6, <2>1 DEF sinkVars
<1>10. CASE UNCHANGED vars
  BY <1>6, <1>10 DEF vars, listVars, sinkVars
<1>11. ASSUME SyncBegin PROVE SyncInv'
  <2>1. /\ syncing' = "clean" /\ syncTodo' = writers /\ before' = {r \in Records : Clean(r)}
        /\ UNCHANGED <<listVars, writeVars, sinkVars, promised>>
    BY <1>11 DEF SyncBegin
  <2>2. members' \ (Std \cup ToSet(syncTodo')) = {}
    BY <2>1 DEF ListInv, listVars
  <2>3. \A r \in before' : Clean(r)'
    BY <2>1 DEF Clean, writeVars
  <2>4. \A s \in Sinks : sink'[s] = "closed" => durable'[s] = Len(log'[s])
    BY <2>1 DEF SyncInv, sinkVars
  <2>5. SyncCovers'
    BY <1>4, <2>1 DEF SyncCovers
  <2> QED BY <2>1, <2>2, <2>3, <2>4, <2>5 DEF SyncInv
<1>12. ASSUME SyncSink PROVE SyncInv'
  <2>1. PICK s : s = Head(syncTodo)
    OBVIOUS
  <2>2. /\ syncTodo # <<>> /\ syncTodo' = Tail(syncTodo)
        /\ before' = before /\ promised' = promised /\ log' = log /\ sink' = sink
        /\ members' = members /\ target' = target
    BY <1>12 DEF SyncSink, listVars, writeVars
  <2>3. s \in Sinks /\ ToSet(syncTodo) \subseteq ToSet(syncTodo') \cup {s}
    <3>1. /\ syncTodo \in Seq(Sinks) /\ Tail(syncTodo) \in Seq(Sinks)
          /\ Head(syncTodo) \in Sinks /\ Len(Tail(syncTodo)) = Len(syncTodo) - 1
          /\ \A i \in 1 .. Len(Tail(syncTodo)) : Tail(syncTodo)[i] = syncTodo[i + 1]
      BY <2>2, HeadTailProperties DEF TypeOK
    <3>2. ASSUME NEW x \in ToSet(syncTodo) PROVE x = s \/ x \in ToSet(Tail(syncTodo))
      <4>1. PICK i \in 1 .. Len(syncTodo) : syncTodo[i] = x
        BY <3>1, MembersOf
      <4>2. CASE i = 1
        BY <2>1, <4>1, <4>2
      <4>3. CASE i # 1
        <5>1. i - 1 \in 1 .. Len(Tail(syncTodo)) /\ Tail(syncTodo)[i - 1] = x
          BY <3>1, <4>1, <4>3
        <5> QED BY <3>1, <5>1, MembersOf
      <4> QED BY <4>2, <4>3
    <3> QED BY <2>1, <2>2, <3>1, <3>2
  <2>4. \/ s \in Std /\ durable' = durable /\ syncing' = syncing
        \/ durable' = [durable EXCEPT ![s] = Len(log[s])] /\ syncing' = syncing
        \/ durable' = durable /\ syncing' = "failed"
        \/ sink[s] = "closed" /\ durable' = durable /\ syncing' = syncing
    BY <1>12, <2>1 DEF SyncSink
  <2>5. \A t \in Sinks : sink'[t] = "closed" => durable'[t] = Len(log'[t])
    <3>1. DOMAIN durable = Sinks
      BY DEF TypeOK
    <3> QED BY <2>2, <2>4, <3>1 DEF SyncInv
  <2>6. syncing # "idle"
    BY <2>2 DEF SyncInv
  <2>7. syncing' # "idle"
    BY <2>4, <2>6
  <2>8. syncing' = "clean" =>
            \A t \in members' \ (Std \cup ToSet(syncTodo')), r \in before' :
                t \in target'[r] => Durable(t, r)'
    <3> SUFFICES ASSUME syncing' = "clean", NEW t \in members \ (Std \cup ToSet(syncTodo')),
                        NEW r \in before, t \in target[r]
                 PROVE  Durable(t, r)'
      BY <2>2
    <3>1. syncing = "clean"
      BY <2>4
    <3>2. CASE t # s
      <4>1. Durable(t, r)
        BY <2>3, <3>1, <3>2 DEF SyncInv
      <4> QED BY <1>1, <1>5, <4>1
    <3>3. CASE t = s
      <4>1. durable'[s] = Len(log[s])
        <5>1. DOMAIN durable = Sinks
          BY DEF TypeOK
        <5> QED BY <2>3, <2>4, <3>1, <3>3, <5>1 DEF SyncInv
      <4>2. r \in Records /\ Clean(r) /\ WriteInv(r)
        BY <1>2 DEF SyncInv
      <4>3. Holds(s, r)
        BY <3>3, <4>2, CleanIsHeld
      <4>4. DOMAIN log[s] = 1 .. Len(log[s])
        BY <2>3 DEF TypeOK
      <4>5. \E i \in 1 .. durable'[s] : log'[s][i] = r
        BY <2>2, <4>1, <4>3, <4>4 DEF Holds
      <4> QED BY <3>3, <4>5 DEF Durable
    <3> QED BY <3>2, <3>3
  <2>9. (\A r \in before' : Clean(r)') /\ SyncCovers'
    BY <1>2, <1>4, <2>2 DEF SyncCovers
  <2> QED BY <2>5, <2>7, <2>8, <2>9 DEF SyncInv
<1>13. ASSUME SyncReturn PROVE SyncInv'
  <2>1. /\ syncTodo = <<>> /\ syncing' = "idle" /\ before' = {} /\ syncTodo' = syncTodo
        /\ UNCHANGED sinkVars
        /\ promised' = IF syncing = "clean"
                       THEN {p \in (members \ Std) \X before : p[1] \in target[p[2]]}
                       ELSE promised
    BY <1>13 DEF SyncReturn
  <2>2. \A s \in Sinks : sink'[s] = "closed" => durable'[s] = Len(log'[s])
    BY <2>1 DEF SyncInv, sinkVars
  <2>3. SyncCovers'
    <3> SUFFICES ASSUME NEW p \in promised' PROVE Durable(p[1], p[2])'
      BY DEF SyncCovers
    <3>1. CASE syncing # "clean"
      BY <1>4, <2>1, <3>1
    <3>2. CASE syncing = "clean"
      <4>1. p[1] \in members \ Std /\ p[2] \in before /\ p[1] \in target[p[2]]
        BY <2>1, <3>2
      <4>2. ToSet(syncTodo) = {}
        BY <2>1 DEF ToSet
      <4>3. Durable(p[1], p[2])
        BY <3>2, <4>1, <4>2 DEF SyncInv
      <4> QED BY <1>1, <1>5, <4>1, <4>3
    <3> QED BY <3>1, <3>2
  <2> QED BY <2>1, <2>2, <2>3 DEF SyncInv
<1>14. ASSUME Close PROVE SyncInv'
  <2>1. syncing = "idle" /\ log' = log /\ UNCHANGED syncVars
    BY <1>14 DEF Close, Unlocked
  <2>2. \A s \in Sinks : sink'[s] = "closed" => durable'[s] = Len(log'[s])
    <3> SUFFICES ASSUME NEW s \in Sinks, sink'[s] = "closed" PROVE durable'[s] = Len(log[s])
      BY <2>1
    <3>1. CASE sink[s] # "closed"
      BY <1>14, <3>1, Closing
    <3>2. CASE sink[s] = "closed"
      <4>1. durable[s] <= durable'[s] /\ durable'[s] <= Len(log[s]) /\ durable'[s] \in Nat
        BY <1>14, Closing
      <4>2. durable[s] = Len(log[s]) /\ durable[s] \in Nat
        BY <3>2 DEF SyncInv, TypeOK
      <4> QED BY <4>1, <4>2
    <3> QED BY <3>1, <3>2
  <2>3. SyncCovers'
    BY <1>4, <2>1 DEF SyncCovers, syncVars
  <2> QED BY <2>1, <2>2, <2>3 DEF SyncInv, syncVars
<1> QED
  BY <1>7, <1>8, <1>9, <1>10, <1>11, <1>12, <1>13, <1>14 DEF Next

-----------------------------------------------------------------------------
(* The induction, and what follows from it. *)

LEMMA FanOutInvariant == Spec => [](TypeOK /\ FanOutInv)
<1>1. Init => TypeOK /\ FanOutInv
  <2> SUFFICES ASSUME Init PROVE TypeOK /\ FanOutInv
    OBVIOUS
  <2>1. <<>> \in Seq(Sinks) /\ <<>> \in Seq(Records) /\ ToSet(<<>>) = {} /\ IsInjective(<<>>)
    BY DEF ToSet, IsInjective
  <2>2. ToSet(Initial) \subseteq Sinks /\ (Len(Initial) = 2 => Initial # <<>>)
    BY MembersOf
  <2>3. /\ useDual \in BOOLEAN /\ useDual = (pair # <<>>) /\ pair \in Seq(Sinks)
        /\ useDual => pair = writers
    <3>1. CASE Len(Initial) = 2
      <4>1. useDual = TRUE /\ pair = Initial /\ writers = Initial
        BY <3>1 DEF Init
      <4> QED BY <2>2, <3>1, <4>1
    <3>2. CASE Len(Initial) # 2
      <4>1. useDual = FALSE /\ pair = <<>>
        BY <3>2 DEF Init
      <4> QED BY <2>1, <4>1
    <3> QED BY <3>1, <3>2
  <2>4. TypeOK
    <3>1. /\ writers \in Seq(Sinks) /\ shut \in BOOLEAN /\ members \subseteq Sinks
          /\ before \subseteq Records /\ promised \subseteq Sinks \X Records
      BY <2>2 DEF Init
    <3>2. /\ call \in [Records -> {"new", "running", "done"}]
          /\ todo \in [Records -> Seq(Sinks)]
          /\ target \in [Records -> SUBSET Sinks]
          /\ attempt \in [Records -> 0 .. Retries]
      BY <2>1, Bounds DEF Init
    <3>3. /\ tally \in [Records -> [good : Nat, bad : Nat]]
          /\ result \in [Records -> [all : BOOLEAN, error : BOOLEAN]]
      BY DEF Init
    <3>4. /\ log \in [Sinks -> Seq(Records)] /\ durable \in [Sinks -> Nat]
          /\ \A s \in Sinks : durable[s] <= Len(log[s])
          /\ sink \in [Sinks -> {"open", "closed", "refused"}]
      <4>1. \A s \in Sinks : durable[s] = 0 /\ log[s] = <<>>
        BY DEF Init
      <4>2. Len(<<>>) = 0
        OBVIOUS
      <4> QED BY <2>1, <4>1, <4>2 DEF Init
    <3>5. /\ syncTodo \in Seq(Sinks) /\ syncing \in {"idle", "clean", "failed"}
          /\ faults \in 0 .. MaxFaults /\ edits \in 0 .. MaxEdits
      BY <2>1, Bounds DEF Init
    <3> QED BY <2>3, <3>1, <3>2, <3>3, <3>4, <3>5 DEF TypeOK
  <2>5. ListInv
    BY <2>3 DEF ListInv, Init
  <2>6. SyncInv
    BY DEF SyncInv, Init, SyncCovers
  <2>7. ASSUME NEW r \in Records PROVE WriteInv(r)
    <3>1. Cardinality({}) = 0
      BY FS_EmptySet
    <3>2. ASSUME NEW s \in Sinks PROVE Copies(s, r) = 0
      <4>1. log[s] = <<>>
        BY DEF Init
      <4>2. {i \in DOMAIN log[s] : log[s][i] = r} = {}
        BY <4>1
      <4> QED BY <3>1, <4>2 DEF Copies
    <3>3. /\ call[r] = "new" /\ todo[r] = <<>> /\ attempt[r] = 0 /\ target[r] = {}
          /\ tally[r].good = 0 /\ tally[r].bad = 0
      BY DEF Init
    <3>4. Len(todo[r]) = 0 /\ Visited(r) = {}
      BY <3>3 DEF Visited
    <3> QED BY <2>1, <3>1, <3>2, <3>3, <3>4 DEF WriteInv
  <2> QED BY <2>4, <2>5, <2>6, <2>7 DEF FanOutInv
<1>2. TypeOK /\ FanOutInv /\ [Next]_vars => (TypeOK /\ FanOutInv)'
  <2> SUFFICES ASSUME TypeOK, FanOutInv, [Next]_vars PROVE TypeOK' /\ FanOutInv'
    OBVIOUS
  <2>1. TypeOK' /\ ListInv'
    BY TypeStep, ListStep DEF FanOutInv
  <2>2. \A r \in Records : WriteInv(r)'
    BY <2>1, WriteInvStep DEF FanOutInv
  <2> QED BY <2>1, <2>2, SyncInvStep DEF FanOutInv
<1> QED BY <1>1, <1>2, PTL DEF Spec

\* The fan-out writer's variables are as declared, for any writers and callers.
THEOREM TypeCorrect == Spec => []TypeOK
BY FanOutInvariant, PTL

\* After any history of AddWriter, RemoveWriter and Close, the list and the
\* cached pair that Write visits are the members, each once.
THEOREM TargetsStayMembers == Spec => []TargetsAreMembers
<1>1. TypeOK /\ FanOutInv => TargetsAreMembers
  BY Started DEF FanOutInv, TargetsAreMembers
<1> QED BY <1>1, FanOutInvariant, PTL

\* However sinks fail, and whatever is added, removed, closed and repeated
\* meanwhile, a Write reports what it did to the sinks.
THEOREM FanOutReportsWhatItDid == Spec => []FanOutIsHonest
<1>1. TypeOK /\ FanOutInv => FanOutIsHonest
  <2> SUFFICES ASSUME TypeOK, FanOutInv, NEW r \in Records
               PROVE  /\ call[r] = "done" => ResultIsHonest(r) /\ AllWereTried(r)
                      /\ DuplicatesComeFromRetries(r)
    BY DEF FanOutIsHonest
  <2>1. WriteInv(r)
    BY DEF FanOutInv
  <2>2. ASSUME call[r] = "done" PROVE ResultIsHonest(r) /\ AllWereTried(r)
    <3>1. todo[r] = <<>> /\ result[r] = PrepareResult(r)
      BY <2>1, <2>2 DEF WriteInv
    <3>2. ~result[r].error => \A s \in target[r] : Holds(s, r)
      BY <2>1, <2>2, CleanIsHeld DEF Clean
    <3>3. result[r].all => \E s \in target[r] : Holds(s, r)
      <4>1. result[r].all = (tally[r].good > 0)
        BY <3>1 DEF PrepareResult
      <4> QED BY <2>1, <4>1 DEF WriteInv
    <3>4. tally[r].good + tally[r].bad = Cardinality(target[r])
      <4>1. tally[r].good + tally[r].bad + 0 = Cardinality(target[r])
        BY <2>1, <3>1, EmptySeq DEF WriteInv
      <4>2. tally[r].good \in Nat /\ tally[r].bad \in Nat
        BY DEF TypeOK
      <4> QED BY <4>1, <4>2
    <3> QED BY <3>2, <3>3, <3>4 DEF ResultIsHonest, AllWereTried
  <2>3. DuplicatesComeFromRetries(r)
    <3>1. attempt[r] \in Nat
      BY Bounds DEF TypeOK
    <3>2. ASSUME NEW s \in Sinks PROVE Copies(s, r) <= attempt[r] + 1
      <4>1. Copies(s, r) \in Nat
        BY CopiesGrow
      <4>2. Copies(s, r) <= attempt[r] \/ Copies(s, r) <= attempt[r] + 1
        BY <2>1 DEF WriteInv
      <4> QED BY <3>1, <4>1, <4>2
    <3> QED BY <2>1, <3>2 DEF DuplicatesComeFromRetries, WriteInv, Faulted
  <2> QED BY <2>2, <2>3
<1> QED BY <1>1, FanOutInvariant, PTL

\* After a Sync that reports no error, what had been written when it began is
\* durable in every member it went to, for good.
THEOREM SyncedIsDurable == Spec => []SyncCovers
<1>1. FanOutInv => SyncCovers
  BY DEF FanOutInv, SyncInv
<1> QED BY <1>1, FanOutInvariant, PTL

\* Close leaves no writer of the list open, even when some fail to close.
THEOREM CloseReachesEverySink == Spec => CloseReachesAll
<1>1. TypeOK /\ FanOutInv /\ [Next]_vars =>
          [edits' = edits => \A s \in members \ members' : s \in Std \/ sink'[s] # "open"]_vars
  <2> SUFFICES ASSUME TypeOK, FanOutInv, [Next]_vars, edits' = edits,
                      NEW s \in members \ members', s \notin Std
               PROVE  sink'[s] # "open"
    OBVIOUS
  <2>1. edits \in Nat
    BY Bounds DEF TypeOK
  <2>2. ASSUME NEW t \in Sinks, AddWriter(t) \/ RemoveWriter(t) PROVE FALSE
    BY <2>1, <2>2 DEF AddWriter, RemoveWriter, Edit
  <2>3. ASSUME NEW r \in Records,
               WriteBegin(r) \/ WriteSink(r) \/ WriteReturn(r) \/ WriteRetry(r)
        PROVE  members' = members
    BY <2>3 DEF WriteBegin, WriteSink, WriteReturn, WriteRetry, listVars
  <2>4. SyncBegin \/ SyncSink \/ SyncReturn \/ UNCHANGED vars => members' = members
    BY DEF SyncBegin, SyncSink, SyncReturn, vars, listVars
  <2>5. Close
    BY <2>2, <2>3, <2>4 DEF Next
  <2> QED BY <2>5, Closing DEF FanOutInv
<1> QED BY <1>1, FanOutInvariant, PTL DEF Spec, CloseReachesAll
=============================================================================
