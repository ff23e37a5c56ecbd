-------------------------- MODULE AdapterLogProofs --------------------------
(* Theorems about AdapterLog, for every set of calls, levels, hooks and     *)
(* pooled things, and every number of edits and faults.                     *)
EXTENDS AdapterLog, SequenceTheorems, FiniteSetTheorems, TLAPS

-----------------------------------------------------------------------------
(* Levels, and lists of hooks and lines. *)

LEMMA LevelsAreFew ==
    Levels \in SUBSET (0 .. 5) /\ 5 \in Levels /\ Level \in [Calls -> Levels]
BY LevelsAssumption, LogAssumption DEF Fatal

LEMMA LeastLevel ==
    ASSUME NEW some \in SUBSET (0 .. 5), some # {}
    PROVE  \E l \in some : \A k \in some : l <= k
<1>1. CASE 0 \in some
  BY <1>1
<1>2. CASE 0 \notin some /\ 1 \in some
  BY <1>2
<1>3. CASE {0, 1} \cap some = {} /\ 2 \in some
  BY <1>3
<1>4. CASE {0, 1, 2} \cap some = {} /\ 3 \in some
  BY <1>4
<1>5. CASE {0, 1, 2, 3} \cap some = {} /\ 4 \in some
  BY <1>5
<1>6. CASE {0, 1, 2, 3, 4} \cap some = {}
  <2>1. \A k \in some : k = 5
    BY <1>6
  <2>2. 5 \in some
    BY <2>1
  <2> QED BY <2>1, <2>2
<1> QED BY <1>1, <1>2, <1>3, <1>4, <1>5, <1>6

\* The walk of RegisterGlobalHook starts at a level and stays within them.
LEMMA LowestIsALevel == Lowest \in Levels
<1>1. PICK l \in Levels : \A k \in Levels : l <= k
  BY LevelsAreFew, LeastLevel
<1> QED BY <1>1 DEF Lowest

LEMMA AboveIsALevel ==
    ASSUME NEW l \in Levels, l # Fatal
    PROVE  Above(l) \in Levels
<1> DEFINE higher == {k \in Levels : k > l}
<1>1. higher \in SUBSET (0 .. 5) /\ 5 \in higher
  <2>1. l \in 0 .. 5 /\ l # 5
    BY LevelsAreFew DEF Fatal
  <2>2. 5 > l
    BY <2>1
  <2>3. \A k \in higher : k \in 0 .. 5
    BY LevelsAreFew
  <2> QED BY <2>2, <2>3, LevelsAreFew
<1>2. PICK k \in higher : \A j \in higher : k <= j
  BY <1>1, LeastLevel
<1>3. \E x \in Levels : x > l /\ \A j \in Levels : j > l => x <= j
  BY <1>2
<1> QED BY <1>3 DEF Above

LEMMA FirstAndRest ==
    ASSUME NEW S, NEW list \in Seq(S), list # <<>>
    PROVE  /\ Head(list) \in S /\ Tail(list) \in Seq(S)
           /\ ToSet(list) = {Head(list)} \cup ToSet(Tail(list))
<1> DEFINE rest == Tail(list)
<1>1. /\ rest \in Seq(S) /\ Len(rest) = Len(list) - 1
      /\ \A i \in 1 .. Len(rest) : rest[i] = list[i + 1]
  BY HeadTailProperties
<1>2. /\ Len(list) \in Nat \ {0} /\ Head(list) = list[1] /\ Head(list) \in S
      /\ DOMAIN list = 1 .. Len(list) /\ DOMAIN rest = 1 .. Len(rest)
  BY <1>1
<1> HIDE DEF rest
<1>3. \A x : x \in ToSet(list) => x \in {Head(list)} \cup ToSet(rest)
  <2> SUFFICES ASSUME NEW i \in 1 .. Len(list), i # 1
               PROVE  list[i] \in ToSet(rest)
    BY <1>2 DEF ToSet
  <2>1. i - 1 \in 1 .. Len(rest) /\ rest[i - 1] = list[i]
    BY <1>1, <1>2
  <2> QED BY <1>2, <2>1 DEF ToSet
<1>4. \A x : x \in ToSet(rest) => x \in ToSet(list)
  <2> SUFFICES ASSUME NEW i \in 1 .. Len(rest)
               PROVE  rest[i] \in ToSet(list)
    BY <1>2 DEF ToSet
  <2>1. i + 1 \in 1 .. Len(list) /\ rest[i] = list[i + 1]
    BY <1>1, <1>2
  <2> QED BY <1>2, <2>1 DEF ToSet
<1>5. Head(list) \in ToSet(list)
  BY <1>2 DEF ToSet
<1> QED BY <1>1, <1>2, <1>3, <1>4, <1>5 DEF rest

LEMMA OneMore ==
    ASSUME NEW S, NEW list \in Seq(S), NEW x \in S
    PROVE  Append(list, x) \in Seq(S) /\ ToSet(Append(list, x)) = ToSet(list) \cup {x}
<1> DEFINE new == Append(list, x)
<1>1. /\ new \in Seq(S) /\ Len(new) = Len(list) + 1 /\ new[Len(list) + 1] = x
      /\ \A i \in 1 .. Len(list) : new[i] = list[i]
  BY AppendProperties
<1>2. /\ Len(list) \in Nat
      /\ DOMAIN list = 1 .. Len(list) /\ DOMAIN new = 1 .. Len(list) + 1
  BY <1>1
<1> HIDE DEF new
<1>3. \A y : y \in ToSet(new) => y \in ToSet(list) \cup {x}
  BY <1>1, <1>2 DEF ToSet
<1>4. \A y : y \in ToSet(list) \cup {x} => y \in ToSet(new)
  BY <1>1, <1>2 DEF ToSet
<1> QED BY <1>1, <1>3, <1>4 DEF new

LEMMA Elements ==
    ASSUME NEW S, NEW list \in Seq(S)
    PROVE  ToSet(list) \subseteq S
BY DEF ToSet

\* A map gives its elements in some order, each of them once.
LEMMA AnyOrder ==
    ASSUME NEW S, IsFiniteSet(S), NEW list \in SetToSeqs(S)
    PROVE  list \in Seq(S) /\ ToSet(list) = S
<1> DEFINE n == Cardinality(S)
<1>1. n \in Nat
  BY FS_CardinalityType
<1>2. list \in [1 .. n -> S]
  BY DEF SetToSeqs
<1>3. \A i, j \in 1 .. n : i # j => list[i] # list[j]
  BY DEF SetToSeqs
<1>4. IsFiniteSet(1 .. n) /\ Cardinality(1 .. n) = n
  <2> HIDE DEF n
  <2>1. 1 \in Int /\ n \in Int
    BY <1>1
  <2>2. IsFiniteSet(1 .. n) /\ Cardinality(1 .. n) = IF 1 > n THEN 0 ELSE n - 1 + 1
    BY <2>1, FS_Interval
  <2> QED BY <1>1, <2>2
<1>5. list \in Injection(1 .. n, S)
  <2> HIDE DEF n
  <2> QED BY <1>2, <1>3 DEF Injection, IsInjective
<1>6. list \in Surjection(1 .. n, S)
  BY <1>4, <1>5, FS_Injection
<1>7. list \in Seq(S)
  BY <1>1, <1>2
<1>8. \A x \in S : \E i \in 1 .. n : list[i] = x
  BY <1>6 DEF Surjection
<1> HIDE DEF n
<1> QED BY <1>2, <1>7, <1>8 DEF ToSet

LEMMA NamedHooksInOrder ==
    ASSUME NEW c \in Calls, NEW list \in SetToSeqs(NamedHooks(c))
    PROVE  list \in Seq(Hooks) /\ ToSet(list) = NamedHooks(c)
<1>1. NamedHooks(c) \in SUBSET ConfigHooks /\ IsFiniteSet(ConfigHooks)
  BY LogAssumption DEF NamedHooks
<1>2. IsFiniteSet(NamedHooks(c))
  BY <1>1, FS_Subset
<1>3. list \in Seq(NamedHooks(c)) /\ ToSet(list) = NamedHooks(c)
  BY <1>2, AnyOrder
<1> QED BY <1>1, <1>3 DEF Hooks

-----------------------------------------------------------------------------
(* What is held is one thing. *)

TypeInv == TypeOK /\ PlaceInv

LEMMA SlotOf ==
    ASSUME NEW c \in Calls, NEW s \in Storages
    PROVE  /\ storage[c] = {s} => Slot(c) = s
           /\ storage'[c] = {s} => Slot(c)' = s
BY DEF Slot

LEMMA BufOf ==
    ASSUME NEW c \in Calls, NEW b \in Buffers
    PROVE  /\ buffer[c] = {b} => Buf(c) = b
           /\ buffer'[c] = {b} => Buf(c)' = b
BY DEF Buf

LEMMA ItemTyped ==
    ASSUME TypeOK, NEW c \in Calls
    PROVE  /\ Item(c) \in Items
           /\ Item(c) # "entry" => Item(c) \in Hooks /\ errs[c] # <<>> /\ Tail(errs[c]) \in Seq(Hooks)
           /\ Item(c) = "entry" => errs[c] = <<>>
<1>1. errs[c] \in Seq(Hooks)
  BY DEF TypeOK
<1>2. "entry" \notin Hooks
  BY LogAssumption DEF Hooks
<1>3. CASE errs[c] = <<>>
  BY <1>3 DEF Item, Items
<1>4. CASE errs[c] # <<>>
  <2>1. Head(errs[c]) \in Hooks /\ Tail(errs[c]) \in Seq(Hooks)
    BY <1>1, <1>4, FirstAndRest
  <2> QED BY <1>2, <1>4, <2>1 DEF Item, Items
<1> QED BY <1>3, <1>4

\* A field belongs to a call; the lists the entry is made of are lists of them.
LEMMA FieldsTyped ==
    ASSUME TypeOK, NEW c \in Calls
    PROVE  /\ \A h \in Hooks : <<c, h>> \in Fields
           /\ Base(c) \in Seq(Fields) /\ Stack(c) \in Seq(Fields)
           /\ ContextFields(c) \in Seq(Fields)
<1> DEFINE found == [i \in DOMAIN extractors |-> <<c, extractors[i]>>]
<1>1. \A h \in Hooks \cup Extractors \cup {"base", "key", "stack"} : <<c, h>> \in Fields
  BY DEF Fields
<1>2. Base(c) \in Seq(Fields)
  BY <1>1 DEF Base
<1>3. Stack(c) \in Seq(Fields)
  BY <1>1 DEF Stack
<1>4. found \in Seq(Fields)
  <2>1. extractors \in Seq(Extractors)
    BY DEF TypeOK, RegistryTypeOK
  <2>2. \A i \in DOMAIN extractors : extractors[i] \in Extractors
    BY <2>1
  <2>3. \A i \in DOMAIN extractors : found[i] \in Fields
    BY <1>1, <2>2
  <2>4. DOMAIN extractors = 1 .. Len(extractors) /\ Len(extractors) \in Nat
    BY <2>1
  <2> HIDE DEF Fields
  <2>5. found \in [1 .. Len(extractors) -> Fields]
    BY <2>3, <2>4
  <2> QED BY <2>4, <2>5
<1>5. ContextFields(c) \in Seq(Fields)
  <2>1. <<<<c, "key">>>> \in Seq(Fields)
    BY <1>1
  <2> QED BY <1>4, <2>1, ConcatProperties DEF ContextFields
<1> QED BY <1>1, <1>2, <1>3, <1>5

LEMMA ContentTyped ==
    ASSUME TypeInv, NEW c \in Calls, pc[c] = "global"
    PROVE  Content(c) \in Seq(Fields)
<1>1. CASE Item(c) = "entry"
  <2>1. Slot(c) \in Storages
    BY DEF TypeInv, PlaceInv, SnapshotInv, BufferInv
  <2> QED BY <1>1, <2>1 DEF TypeInv, TypeOK, Content
<1>2. CASE Item(c) # "entry"
  <2>1. <<c, Item(c)>> \in Fields
    BY <1>2, ItemTyped, FieldsTyped DEF TypeInv
  <2> QED BY <1>2, <2>1 DEF Content
<1> QED BY <1>1, <1>2

LEMMA Removed == \A n \in Nat : (n > 0 => n - 1 \in Nat) /\ n + 1 \in Nat
OBVIOUS

-----------------------------------------------------------------------------
(* Types: what the steps are made of keeps them. *)

LEMMA FaultTyped ==
    ASSUME TypeOK
    PROVE  (Fault \/ UNCHANGED faults) => faults' \in 0 .. MaxFaults
BY LogAssumption DEF TypeOK, Fault

LEMMA BorrowStorageTyped ==
    ASSUME TypeOK, NEW c \in Calls, NEW s \in Storages, BorrowStorage(c, s)
    PROVE  /\ storage' \in [Calls -> SUBSET Storages]
           /\ snapPool' \in [Storages -> Nat]
<1>1. storage' \in [Calls -> SUBSET Storages]
  BY DEF BorrowStorage, TypeOK
<1>2. snapPool[s] > 0 => Get(snapPool, s) \in [Storages -> Nat]
  BY Removed DEF TypeOK, Get
<1>3. \/ UNCHANGED snapPool
      \/ snapPool[s] > 0 /\ snapPool' = Get(snapPool, s)
  BY DEF BorrowStorage, InPool
<1> QED BY <1>1, <1>2, <1>3 DEF TypeOK

LEMMA BorrowBufferTyped ==
    ASSUME TypeOK, NEW c \in Calls, NEW b \in Buffers, BorrowBuffer(c, b)
    PROVE  /\ buffer' \in [Calls -> SUBSET Buffers]
           /\ encPool' \in [Buffers -> Nat] /\ buckets' \in [Buffers -> Nat]
           /\ pooled' \in [Calls -> BOOLEAN]
<1>1. buffer' \in [Calls -> SUBSET Buffers]
  BY DEF BorrowBuffer, TypeOK
<1>2. /\ encPool[b] > 0 => Get(encPool, b) \in [Buffers -> Nat]
      /\ buckets[b] > 0 => Get(buckets, b) \in [Buffers -> Nat]
  BY Removed DEF TypeOK, Get
<1>3. CASE BorrowPooled(c, b)
  BY <1>1, <1>2, <1>3 DEF BorrowPooled, InPool, TypeOK
<1>4. CASE BorrowFromBucket(c, b)
  BY <1>1, <1>2, <1>4 DEF BorrowFromBucket, InPool, TypeOK
<1> QED BY <1>3, <1>4 DEF BorrowBuffer

LEMMA ReleaseBufferTyped ==
    ASSUME TypeOK, NEW c \in Calls, NEW b \in Buffers, ReleaseBuffer(c, b)
    PROVE  /\ buffer' \in [Calls -> SUBSET Buffers] /\ text' \in [Buffers -> Seq(Fields)]
           /\ encPool' \in [Buffers -> Nat] /\ buckets' \in [Buffers -> Nat]
           /\ pooled' \in [Calls -> BOOLEAN]
<1>1. Put(encPool, b) \in [Buffers -> Nat] /\ Put(buckets, b) \in [Buffers -> Nat]
  BY Removed DEF TypeOK, Put
<1>2. encPool' \in [Buffers -> Nat] /\ buckets' \in [Buffers -> Nat]
  BY <1>1 DEF ReleaseBuffer, TypeOK
<1>3. buffer' \in [Calls -> SUBSET Buffers] /\ pooled' \in [Calls -> BOOLEAN]
  BY DEF ReleaseBuffer, TypeOK
<1>4. text' \in [Buffers -> Seq(Fields)]
  <2>1. Blank \in Seq(Fields)
    BY DEF Blank
  <2> QED BY <2>1 DEF ReleaseBuffer, TypeOK
<1> QED BY <1>2, <1>3, <1>4

LEMMA NextItemTyped ==
    ASSUME TypeInv, NEW c \in Calls, pc[c] \in {"global", "recycle"}, NextItem(c)
    PROVE  /\ errs' \in [Calls -> Seq(Hooks)] /\ pc' \in [Calls -> Labels]
           /\ storage' \in [Calls -> SUBSET Storages] /\ snapPool' \in [Storages -> Nat]
           /\ fields' \in [Storages -> Seq(Fields)]
<1>1. CASE Item(c) # "entry"
  <2>1. Tail(errs[c]) \in Seq(Hooks)
    BY <1>1, ItemTyped DEF TypeInv
  <2>2. errs' \in [Calls -> Seq(Hooks)]
    BY <1>1, <2>1 DEF NextItem, TypeInv, TypeOK
  <2> QED BY <1>1, <2>2 DEF NextItem, Goto, Labels, TypeInv, TypeOK
<1>2. CASE Item(c) = "entry"
  <2>1. Put(snapPool, Slot(c)) \in [Storages -> Nat]
    BY Removed DEF Put, TypeInv, TypeOK
  <2>2. Blank \in Seq(Fields)
    BY DEF Blank
  <2> QED BY <1>2, <2>1, <2>2 DEF NextItem, Goto, Labels, TypeInv, TypeOK
<1> QED BY <1>1, <1>2

LEMMA RegistryTyped ==
    ASSUME RegistryTypeOK, EditRegistry
    PROVE  RegistryTypeOK'
<1> USE DEF RegistryTypeOK
<1>1. edits > 0 /\ edits' = edits - 1 => edits' \in 0 .. MaxEdits
  <2>1. MaxEdits \in Nat /\ edits \in 0 .. MaxEdits
    BY LevelsAssumption
  <2> QED BY <2>1
<1>0. funcs \in [Levels -> Seq(Funcs)]
  OBVIOUS
<1>2. ASSUME NEW f \in Funcs, RegisterGlobalHook(f) PROVE RegistryTypeOK'
  BY <1>1, <1>2, LowestIsALevel DEF RegisterGlobalHook, Edit
<1>3. ASSUME NEW f \in Funcs, NEW l \in Levels \cup {InvalidLevel}, AddFunc(l, f) PROVE RegistryTypeOK'
  <2>1. \A k \in Levels : Append(funcs[k], f) \in Seq(Funcs)
    BY <1>0
  <2>2. funcs' \in [Levels -> Seq(Funcs)]
    BY <1>3, <2>1 DEF AddFunc
  <2> QED BY <1>1, <1>3, <2>2 DEF AddFunc, Edit
<1>4. ASSUME RegisterNextLevel PROVE RegistryTypeOK'
  <2>1. registering \in Funcs /\ nextLevel \in Levels
    BY <1>4 DEF RegisterNextLevel
  <2>2. funcs' \in [Levels -> Seq(Funcs)]
    BY <1>0, <1>4, <2>1 DEF RegisterNextLevel
  <2>3. nextLevel' \in Levels /\ registering' \in Funcs \cup {"none"}
    BY <1>4, LowestIsALevel, AboveIsALevel DEF RegisterNextLevel
  <2> QED BY <1>4, <2>2, <2>3 DEF RegisterNextLevel
<1>5. ASSUME NEW l \in Levels, RemoveFuncs(l) PROVE RegistryTypeOK'
  <2>1. funcs' \in [Levels -> Seq(Funcs)]
    BY <1>0, <1>5 DEF RemoveFuncs
  <2> QED BY <1>1, <1>5, <2>1 DEF RemoveFuncs, Edit
<1>6. ASSUME ResetFuncs PROVE RegistryTypeOK'
  <2>1. funcs' \in [Levels -> Seq(Funcs)]
    BY <1>6 DEF ResetFuncs
  <2> QED BY <1>1, <1>6, <2>1 DEF ResetFuncs, Edit
<1>7. ASSUME NEW e \in Extractors, RegisterContextExtractor(e) PROVE RegistryTypeOK'
  <2>1. extractors' \in Seq(Extractors)
    <3>1. extractors \in Seq(Extractors)
      OBVIOUS
    <3> QED BY <1>7, <3>1 DEF RegisterContextExtractor
  <2> QED BY <1>1, <1>7, <2>1 DEF RegisterContextExtractor, Edit
<1>8. ASSUME ClearContextExtractors PROVE RegistryTypeOK'
  BY <1>1, <1>8 DEF ClearContextExtractors, Edit
<1> QED BY <1>2, <1>3, <1>4, <1>5, <1>6, <1>7, <1>8 DEF EditRegistry

\* Writing a line keeps the output a bag of lines.
LEMMA BagTyped ==
    ASSUME IsABag(out), DOMAIN out \subseteq Line, NEW l \in Line, out' = out (+) SetToBag({l})
    PROVE  /\ IsABag(out') /\ DOMAIN out' = DOMAIN out \cup {l} /\ DOMAIN out' \subseteq Line
           /\ \A m \in DOMAIN out : m # l => out'[m] = out[m]
           /\ out'[l] = IF l \in DOMAIN out THEN out[l] + 1 ELSE 1
<1>1. SetToBag({l}) = [e \in {l} |-> 1]
  BY DEF SetToBag
<1>2. out' = [e \in DOMAIN out \cup {l} |->
                (IF e \in DOMAIN out THEN out[e] ELSE 0) + (IF e \in {l} THEN 1 ELSE 0)]
  BY <1>1 DEF (+)
<1>3. \A e \in DOMAIN out : out[e] \in Nat /\ out[e] > 0
  BY DEF IsABag
<1>4. \A e \in DOMAIN out \cup {l} : out'[e] \in {n \in Nat : n > 0}
  <2> SUFFICES ASSUME NEW e \in DOMAIN out \cup {l}
               PROVE  out'[e] \in Nat /\ out'[e] > 0
    OBVIOUS
  <2>1. out'[e] = (IF e \in DOMAIN out THEN out[e] ELSE 0) + (IF e \in {l} THEN 1 ELSE 0)
    BY <1>2
  <2>2. CASE e \in DOMAIN out
    BY <1>3, <2>1, <2>2
  <2>3. CASE e \notin DOMAIN out
    BY <2>1, <2>3
  <2> QED BY <2>2, <2>3
<1>5. DOMAIN out' = DOMAIN out \cup {l}
  BY <1>2
<1>6. IsABag(out')
  <2>1. out' = [e \in DOMAIN out' |-> out'[e]]
    BY <1>2, <1>5
  <2> QED BY <1>4, <1>5, <2>1 DEF IsABag
<1>7. \A m \in DOMAIN out : m # l => out'[m] = out[m]
  <2> SUFFICES ASSUME NEW m \in DOMAIN out, m # l
               PROVE  out'[m] = out[m]
    OBVIOUS
  <2>1. out'[m] = out[m] + 0 /\ out[m] \in Nat
    BY <1>2, <1>3
  <2> QED BY <2>1
<1>8. out'[l] = IF l \in DOMAIN out THEN out[l] + 1 ELSE 1
  <2>1. out'[l] = (IF l \in DOMAIN out THEN out[l] ELSE 0) + 1
    BY <1>2
  <2> QED BY <1>3, <2>1
<1> QED BY <1>5, <1>6, <1>7, <1>8

-----------------------------------------------------------------------------
(* Types. *)

LEMMA TypeInit == Init => TypeOK
<1> SUFFICES ASSUME Init PROVE TypeOK
  OBVIOUS
<1>1. RegistryTypeOK
  <2>1. /\ InitialFuncs \in Seq(Funcs) /\ MaxEdits \in Nat /\ <<>> \in Seq(Extractors)
    BY LogAssumption, LevelsAssumption
  <2> QED BY <2>1, LowestIsALevel DEF Init, RegistryInit, RegistryTypeOK
<1>2. /\ <<>> \in Seq(Hooks) /\ <<>> \in Seq(Fields) /\ <<>> \in Seq(Line)
      /\ MaxFaults \in Nat
  BY LogAssumption
<1>3. IsABag(out) /\ DOMAIN out = {}
  BY DEF Init, EmptyBag, SetToBag, IsABag
<1> QED BY <1>1, <1>2, <1>3, LowestIsALevel DEF Init, TypeOK, Labels, Blank

LEMMA TypeStep ==
    ASSUME TypeInv, [Next]_vars
    PROVE  TypeOK'
<1> USE DEF TypeInv
<1>1. ASSUME NEW c \in Calls, Filtered(c) PROVE TypeOK'
  BY <1>1 DEF Filtered, Goto, Labels, TypeOK, RegistryTypeOK, registryVars, heapVars, outVars, histVars
<1>2. ASSUME NEW c \in Calls, Begin(c) PROVE TypeOK'
  <2>1. PICK s \in Storages :
            /\ BorrowStorage(c, s)
            /\ fields' = [fields EXCEPT ![s] = Base(c) \o ContextFields(c) \o Stack(c)]
    BY <1>2 DEF Begin
  <2>2. PICK list \in SetToSeqs(NamedHooks(c)) : todo' = [todo EXCEPT ![c] = list]
    BY <1>2 DEF Begin
  <2>3. Base(c) \o ContextFields(c) \o Stack(c) \in Seq(Fields)
    BY FieldsTyped, ConcatProperties
  <2>4. fields' \in [Storages -> Seq(Fields)]
    BY <2>1, <2>3 DEF TypeOK
  <2>5. todo' \in [Calls -> Seq(Hooks)]
    BY <2>2, NamedHooksInOrder DEF TypeOK
  <2>6. extras' \in [Calls -> Seq(Fields)]
    BY <1>2, FieldsTyped DEF Begin, TypeOK
  <2>7. FuncsAt(c) \subseteq Funcs
    BY LevelsAreFew, Elements DEF FuncsAt, TypeOK, RegistryTypeOK
  <2>8. {stay', seen'} \subseteq [Calls -> SUBSET Funcs] /\ before' \in [Calls -> SUBSET Calls]
    BY <1>2, <2>7 DEF Begin, TypeOK
  <2>9. pc' \in [Calls -> Labels]
    BY <1>2 DEF Begin, Goto, Labels, TypeOK
  <2>10. UNCHANGED <<registryVars, level, errs, buffer, pooled, ran, text, encPool, buckets, outVars, exited>>
    BY <1>2 DEF Begin
  <2>11. storage' \in [Calls -> SUBSET Storages] /\ snapPool' \in [Storages -> Nat]
    BY <2>1, BorrowStorageTyped
  <2> QED BY <2>4, <2>5, <2>6, <2>8, <2>9, <2>10, <2>11
          DEF TypeOK, RegistryTypeOK, registryVars, outVars
<1>3. ASSUME NEW c \in Calls, RunHook(c) PROVE TypeOK'
  <2>1. /\ todo[c] \in Seq(Hooks) /\ ran[c] \in Seq(Hooks) /\ errs[c] \in Seq(Hooks)
        /\ todo[c] # <<>> /\ Slot(c) \in Storages
    BY <1>3 DEF RunHook, TypeOK, PlaceInv, SnapshotInv, BufferInv
  <2>2. PICK h \in Hooks : h = Head(todo[c])
    BY <2>1, FirstAndRest
  <2>3. /\ Append(ran[c], h) \in Seq(Hooks) /\ Append(errs[c], h) \in Seq(Hooks)
        /\ Tail(todo[c]) \in Seq(Hooks)
    BY <2>1, <2>2, FirstAndRest, OneMore
  <2>4. Append(fields[Slot(c)], <<c, h>>) \in Seq(Fields)
    <3>1. fields[Slot(c)] \in Seq(Fields) /\ <<c, h>> \in Fields
      BY <2>1, <2>2, FieldsTyped DEF TypeOK
    <3> QED BY <3>1, OneMore
  <2>5. fields' \in [Storages -> Seq(Fields)]
    BY <1>3, <2>1, <2>2, <2>4 DEF RunHook, TypeOK
  <2>6. {todo', errs', ran'} \subseteq [Calls -> Seq(Hooks)] /\ (Fault \/ UNCHANGED faults)
    <3>1. todo' = [todo EXCEPT ![c] = Tail(todo[c])] /\ ran' = [ran EXCEPT ![c] = Append(ran[c], h)]
      BY <1>3, <2>2 DEF RunHook
    <3>2. \/ UNCHANGED <<errs, faults>>
          \/ Fault /\ errs' = [errs EXCEPT ![c] = Append(errs[c], h)]
      BY <1>3, <2>2 DEF RunHook
    <3>3. todo' \in [Calls -> Seq(Hooks)] /\ ran' \in [Calls -> Seq(Hooks)]
      BY <2>3, <3>1 DEF TypeOK
    <3>4. errs' \in [Calls -> Seq(Hooks)]
      BY <2>3, <3>2 DEF TypeOK
    <3> QED BY <3>2, <3>3, <3>4
  <2> QED BY <1>3, <2>5, <2>6, FaultTyped DEF RunHook, TypeOK, RegistryTypeOK, registryVars, histVars
<1>4. ASSUME NEW c \in Calls, DispatchGlobal(c) PROVE TypeOK'
  <2>1. funcs[Level[c]] \in Seq(Hooks)
    <3>1. funcs[Level[c]] \in Seq(Funcs)
      BY LevelsAreFew DEF TypeOK, RegistryTypeOK
    <3>2. Funcs \subseteq Hooks
      BY DEF Hooks
    <3> QED BY <3>1, <3>2
  <2> QED BY <1>4, <2>1 DEF DispatchGlobal, Goto, Labels, TypeOK, RegistryTypeOK, registryVars, heapVars, outVars, histVars
<1>5. ASSUME NEW c \in Calls, Encode(c) PROVE TypeOK'
  <2>1. PICK b \in Buffers : BorrowBuffer(c, b) /\ text' = [text EXCEPT ![b] = Content(c)]
    BY <1>5 DEF Encode
  <2>2. text' \in [Buffers -> Seq(Fields)]
    BY <1>5, <2>1, ContentTyped DEF Encode, HooksRan, At, TypeOK
  <2> QED BY <1>5, <2>1, <2>2, BorrowBufferTyped
          DEF Encode, Goto, Labels, TypeOK, RegistryTypeOK, registryVars, outVars, histVars
<1>6. ASSUME NEW c \in Calls, EncodeFails(c) PROVE TypeOK'
  <2>1. encPool' \in [Buffers -> Nat] /\ buckets' \in [Buffers -> Nat]
    <3>1. \A b \in Buffers : Put(encPool, b) \in [Buffers -> Nat] /\ Put(buckets, b) \in [Buffers -> Nat]
      BY Removed DEF Put, TypeOK
    <3> QED BY <1>6, <3>1 DEF EncodeFails, TypeOK
  <2>2. failed' \subseteq Calls \X Items \X {"encode", "write"}
    BY <1>6, ItemTyped DEF EncodeFails, TypeOK
  <2> QED BY <1>6, <2>1, <2>2, NextItemTyped, FaultTyped
          DEF EncodeFails, HooksRan, At, TypeOK, RegistryTypeOK, registryVars, histVars
<1>7. ASSUME NEW c \in Calls, Write(c) PROVE TypeOK'
  <2>1. PICK l : l = [call |-> c, item |-> Item(c), text |-> text[Buf(c)]]
    OBVIOUS
  <2>2. l \in Line
    <3>1. Buf(c) \in Buffers
      BY <1>7 DEF Write, At, PlaceInv, SnapshotInv, BufferInv
    <3> QED BY <2>1, <3>1, ItemTyped DEF Line, TypeOK
  <2>3. /\ \/ out' = out (+) SetToBag({l}) /\ UNCHANGED <<pending, lost>>
           \/ pending' = Append(pending, l) /\ UNCHANGED <<out, lost>>
           \/ lost' = lost \cup {l} /\ UNCHANGED <<pending, out>>
           \/ /\ pending # <<>> /\ pending' = Append(Tail(pending), l)
              /\ lost' = lost \cup {Head(pending)} /\ UNCHANGED out
           \/ UNCHANGED <<pending, out, lost>>
        /\ failed' \in {failed, failed \cup {<<c, Item(c), "write">>}}
        /\ Fault \/ UNCHANGED faults
    BY <1>7, <2>1 DEF Write
  <2>4. failed' \subseteq Calls \X Items \X {"encode", "write"}
    BY <2>3, ItemTyped DEF TypeOK
  <2>5. IsABag(out') /\ DOMAIN out' \subseteq Line
    BY <2>2, <2>3, BagTyped DEF TypeOK
  <2>6. pending \in Seq(Line) /\ lost \subseteq Line
    BY DEF TypeOK
  <2>7. pending' \in Seq(Line) /\ lost' \subseteq Line
    <3>1. Append(pending, l) \in Seq(Line)
      BY <2>2, <2>6, OneMore
    <3>2. ASSUME pending # <<>> PROVE Head(pending) \in Line /\ Append(Tail(pending), l) \in Seq(Line)
      <4>1. Head(pending) \in Line /\ Tail(pending) \in Seq(Line)
        BY <2>6, <3>2, FirstAndRest
      <4> QED BY <2>2, <4>1, OneMore
    <3> QED BY <2>2, <2>3, <2>6, <3>1, <3>2
  <2> QED BY <1>7, <2>3, <2>4, <2>5, <2>7, FaultTyped
          DEF Write, Goto, Labels, TypeOK, RegistryTypeOK, registryVars, heapVars, histVars
<1>8. ASSUME NEW c \in Calls, Recycle(c) PROVE TypeOK'
  <2>1. Buf(c) \in Buffers /\ pc[c] = "recycle" /\ ReleaseBuffer(c, Buf(c))
    BY <1>8 DEF Recycle, At, PlaceInv, SnapshotInv, BufferInv
  <2>2. /\ buffer' \in [Calls -> SUBSET Buffers] /\ text' \in [Buffers -> Seq(Fields)]
        /\ encPool' \in [Buffers -> Nat] /\ buckets' \in [Buffers -> Nat]
        /\ pooled' \in [Calls -> BOOLEAN]
    BY <2>1, ReleaseBufferTyped
  <2>3. CASE NextItem(c)
    BY <1>8, <2>1, <2>2, <2>3, NextItemTyped
       DEF Recycle, TypeOK, RegistryTypeOK, registryVars, outVars, histVars
  <2>4. CASE Goto(c, "sync") /\ UNCHANGED <<errs, storage, fields, snapPool>>
    BY <1>8, <2>2, <2>4
       DEF Recycle, Goto, Labels, TypeOK, RegistryTypeOK, registryVars, outVars, histVars
  <2> QED BY <1>8, <2>3, <2>4 DEF Recycle
<1>9. ASSUME NEW c \in Calls, SyncBegin(c) PROVE TypeOK'
  <2>1. {l \in ToSet(pending) : Acknowledged(l)} \subseteq Line
    BY Elements DEF TypeOK
  <2>2. awaited' \in [Calls -> SUBSET Line]
    BY <1>9, <2>1 DEF SyncBegin, TypeOK
  <2> QED BY <1>9, <2>2 DEF SyncBegin, Goto, Labels, TypeOK, RegistryTypeOK, registryVars, heapVars, histVars
<1>10. ASSUME NEW c \in Calls, Exit(c) PROVE TypeOK'
  <2>1. exited' \in {"clean", "dirty"} /\ (Fault \/ UNCHANGED faults)
    BY <1>10 DEF Exit
  <2> QED BY <1>10, <2>1, FaultTyped DEF Exit, Goto, Labels, TypeOK, RegistryTypeOK, registryVars, heapVars, histVars
<1>11. ASSUME Deliver PROVE TypeOK'
  <2>1. pending \in Seq(Line) /\ pending # <<>>
    BY <1>11 DEF Deliver, TypeOK
  <2>2. PICK l \in Line : l = Head(pending)
    BY <2>1, FirstAndRest
  <2>3. /\ \/ out' = out (+) SetToBag({l}) /\ UNCHANGED lost
           \/ lost' = lost \cup {l} /\ UNCHANGED out
        /\ Fault \/ UNCHANGED faults
        /\ pending' = Tail(pending)
    BY <1>11, <2>2 DEF Deliver
  <2>4. IsABag(out') /\ DOMAIN out' \subseteq Line
    BY <2>2, <2>3, BagTyped DEF TypeOK
  <2>5. lost' \subseteq Line /\ pending' \in Seq(Line)
    BY <2>1, <2>2, <2>3, FirstAndRest DEF TypeOK
  <2> QED BY <1>11, <2>3, <2>4, <2>5, FaultTyped
          DEF Deliver, TypeOK, RegistryTypeOK, registryVars, callVars, heapVars, histVars
<1>12. ASSUME NEW l, SetLevel(l) PROVE TypeOK'
  <2>1. edits' \in 0 .. MaxEdits
    BY <1>12, LevelsAssumption DEF SetLevel, Edit, TypeOK, RegistryTypeOK
  <2> QED BY <1>12, <2>1 DEF SetLevel, IsValid, TypeOK, RegistryTypeOK, callVars, heapVars, outVars, histVars
<1>13. ASSUME EditDuringCalls PROVE TypeOK'
  <2>1. RegistryTypeOK'
    BY <1>13, RegistryTyped DEF EditDuringCalls, TypeOK
  <2>2. \A c \in Calls : ToSet(funcs'[Level[c]]) \subseteq Funcs
    BY <2>1, LevelsAreFew, Elements DEF RegistryTypeOK
  <2>3. {stay', seen'} \subseteq [Calls -> SUBSET Funcs]
    BY <1>13, <2>2 DEF EditDuringCalls, TypeOK
  <2> QED BY <1>13, <2>1, <2>3 DEF EditDuringCalls, TypeOK, callVars, heapVars, outVars
<1>14. CASE UNCHANGED vars
  BY <1>14 DEF vars, TypeOK, RegistryTypeOK, registryVars, callVars, heapVars, outVars, histVars
<1> QED BY <1>1, <1>2, <1>3, <1>4, <1>5, <1>6, <1>7, <1>8, <1>9, <1>10, <1>11, <1>12, <1>13, <1>14
        DEF Next, Step, Terminating

-----------------------------------------------------------------------------
(* One owner. *)

Needing == {"local", "global", "write", "recycle"}

LEMMA SnapshotKept ==
    ASSUME SnapshotInv, UNCHANGED <<storage, snapPool>>,
           \A d \in Calls : pc'[d] \in Needing => pc[d] \in Needing
    PROVE  SnapshotInv'
BY DEF SnapshotInv, Slot, Needing

LEMMA BufferKept ==
    ASSUME BufferInv, UNCHANGED <<buffer, encPool, buckets>>,
           \A d \in Calls : pc'[d] \in {"write", "recycle"} => pc[d] \in {"write", "recycle"}
    PROVE  BufferInv'
BY DEF BufferInv, Buf

\* A pool gives what lies in it, and then it lies there no more; what is new
\* lies in no pool and nobody holds it.
LEMMA SnapshotIsFree ==
    ASSUME TypeInv, NEW c \in Calls, NEW s \in Storages, BorrowStorage(c, s)
    PROVE  /\ \A d \in Calls : s \notin storage[d]
           /\ snapPool'[s] = 0
           /\ \A t \in Storages : t # s => snapPool'[t] = snapPool[t]
<1> USE DEF TypeInv, PlaceInv
<1>1. \/ /\ snapPool[s] > 0
         /\ snapPool' = [snapPool EXCEPT ![s] = snapPool[s] - 1]
      \/ /\ ~(snapPool[s] > 0) /\ \A d \in Calls : s \notin storage[d]
         /\ UNCHANGED snapPool
  BY DEF BorrowStorage, InPool, Get, IsNewStorage, IsNew, Unused, TypeOK
<1> QED BY <1>1 DEF SnapshotInv, TypeOK

LEMMA BufferIsFree ==
    ASSUME TypeInv, NEW c \in Calls, NEW b \in Buffers, BorrowBuffer(c, b)
    PROVE  /\ \A d \in Calls : b \notin buffer[d]
           /\ encPool'[b] + buckets'[b] = 0
           /\ \A a \in Buffers : a # b => encPool'[a] = encPool[a] /\ buckets'[a] = buckets[a]
<1> USE DEF TypeInv, PlaceInv
<1>1. \/ /\ encPool[b] > 0 /\ encPool' = [encPool EXCEPT ![b] = encPool[b] - 1]
         /\ UNCHANGED buckets
      \/ /\ buckets[b] > 0 /\ buckets' = [buckets EXCEPT ![b] = buckets[b] - 1]
         /\ UNCHANGED encPool
      \/ /\ ~(encPool[b] > 0) /\ ~(buckets[b] > 0) /\ \A d \in Calls : b \notin buffer[d]
         /\ UNCHANGED <<encPool, buckets>>
  BY DEF BorrowBuffer, BorrowPooled, BorrowFromBucket, InPool, Get, IsNewBuffer, IsNew, Unused, TypeOK
<1> QED BY <1>1 DEF BufferInv, TypeOK

LEMMA SnapshotTaken ==
    ASSUME TypeInv, NEW c \in Calls, NEW s \in Storages, BorrowStorage(c, s),
           \A d \in Calls : d # c => (pc'[d] \in Needing => pc[d] \in Needing)
    PROVE  SnapshotInv'
<1> USE DEF TypeInv, PlaceInv
<1>2. /\ \A d \in Calls : s \notin storage[d]
      /\ snapPool'[s] = 0
      /\ \A t \in Storages : t # s => snapPool'[t] = snapPool[t]
  BY SnapshotIsFree
<1>3. storage'[c] = {s} /\ \A d \in Calls : d # c => storage'[d] = storage[d]
  BY DEF BorrowStorage, TypeOK
<1>4. ASSUME NEW d \in Calls
      PROVE  /\ storage'[d] # {} => storage'[d] = {Slot(d)'} /\ Slot(d)' \in Storages
             /\ pc'[d] \in Needing => storage'[d] # {}
  <2>1. CASE d = c
    BY <1>3, <2>1, SlotOf
  <2>2. CASE d # c
    BY <1>3, <2>2 DEF SnapshotInv, Slot, Needing
  <2> QED BY <2>1, <2>2
<1>5. \A d, e \in Calls : d # e => storage'[d] \cap storage'[e] = {}
  BY <1>2, <1>3 DEF SnapshotInv
<1>6. ASSUME NEW t \in Storages
      PROVE  snapPool'[t] <= 1 /\ (snapPool'[t] > 0 => \A d \in Calls : t \notin storage'[d])
  BY <1>2, <1>3 DEF SnapshotInv
<1> QED BY <1>4, <1>5, <1>6 DEF SnapshotInv, Needing

LEMMA BufferTaken ==
    ASSUME TypeInv, NEW c \in Calls, NEW b \in Buffers, BorrowBuffer(c, b),
           \A d \in Calls : d # c => (pc'[d] \in {"write", "recycle"} => pc[d] \in {"write", "recycle"})
    PROVE  BufferInv'
<1> USE DEF TypeInv, PlaceInv
<1>2. /\ \A d \in Calls : b \notin buffer[d]
      /\ encPool'[b] + buckets'[b] = 0
      /\ \A a \in Buffers : a # b => encPool'[a] = encPool[a] /\ buckets'[a] = buckets[a]
  BY BufferIsFree
<1>3. buffer'[c] = {b} /\ \A d \in Calls : d # c => buffer'[d] = buffer[d]
  BY DEF BorrowBuffer, TypeOK
<1>4. ASSUME NEW d \in Calls
      PROVE  /\ buffer'[d] # {} => buffer'[d] = {Buf(d)'} /\ Buf(d)' \in Buffers
             /\ pc'[d] \in {"write", "recycle"} => buffer'[d] # {}
  <2>1. CASE d = c
    BY <1>3, <2>1, BufOf
  <2>2. CASE d # c
    BY <1>3, <2>2 DEF BufferInv, Buf
  <2> QED BY <2>1, <2>2
<1>5. \A d, e \in Calls : d # e => buffer'[d] \cap buffer'[e] = {}
  BY <1>2, <1>3 DEF BufferInv
<1>6. ASSUME NEW a \in Buffers
      PROVE  /\ encPool'[a] + buckets'[a] <= 1
             /\ encPool'[a] + buckets'[a] > 0 => \A d \in Calls : a \notin buffer'[d]
  <2>1. CASE a = b
    BY <1>2, <2>1
  <2>2. CASE a # b
    BY <1>2, <1>3, <2>2 DEF BufferInv
  <2> QED BY <2>1, <2>2
<1> QED BY <1>4, <1>5, <1>6 DEF BufferInv

\* What a call gives back only it held, and it holds it no more.
LEMMA SnapshotGiven ==
    ASSUME TypeInv, NEW c \in Calls, pc[c] \in Needing, NextItem(c)
    PROVE  SnapshotInv'
<1> USE DEF TypeInv, PlaceInv
<1>1. CASE Item(c) # "entry"
  <2>1. \A d \in Calls : pc'[d] \in Needing => pc[d] \in Needing
    BY <1>1 DEF NextItem, Goto, TypeOK
  <2> QED BY <1>1, <2>1, SnapshotKept DEF NextItem
<1>2. CASE Item(c) = "entry"
  <2>1. PICK s \in Storages : s = Slot(c) /\ storage[c] = {s}
    BY DEF SnapshotInv, Needing
  <2>2. storage'[c] = {} /\ \A d \in Calls : d # c => storage'[d] = storage[d]
    BY <1>2 DEF NextItem, TypeOK
  <2>3. pc'[c] = "done" /\ \A d \in Calls : d # c => pc'[d] = pc[d]
    BY <1>2 DEF NextItem, Goto, TypeOK
  <2>4. /\ \A d \in Calls : d # c => s \notin storage[d]
        /\ snapPool[s] = 0
    <3>1. \A d \in Calls : d # c => storage[c] \cap storage[d] = {}
      BY DEF SnapshotInv
    <3>2. ~(snapPool[s] > 0)
      BY <2>1 DEF SnapshotInv
    <3>3. snapPool[s] \in Nat
      BY DEF TypeOK
    <3> QED BY <2>1, <3>1, <3>2, <3>3
  <2>5. /\ snapPool'[s] \in {0, 1}
        /\ \A t \in Storages : t # s => snapPool'[t] = snapPool[t]
    BY <1>2, <2>1, <2>4 DEF NextItem, Put, TypeOK
  <2>6. ASSUME NEW d \in Calls
        PROVE  /\ storage'[d] # {} => storage'[d] = {Slot(d)'} /\ Slot(d)' \in Storages
               /\ pc'[d] \in Needing => storage'[d] # {}
    BY <2>2, <2>3 DEF SnapshotInv, Slot, Needing
  <2>7. \A d, e \in Calls : d # e => storage'[d] \cap storage'[e] = {}
    BY <2>2 DEF SnapshotInv
  <2>8. ASSUME NEW t \in Storages
        PROVE  snapPool'[t] <= 1 /\ (snapPool'[t] > 0 => \A d \in Calls : t \notin storage'[d])
    BY <2>2, <2>4, <2>5 DEF SnapshotInv
  <2> QED BY <2>6, <2>7, <2>8 DEF SnapshotInv, Needing
<1> QED BY <1>1, <1>2

LEMMA BufferGiven ==
    ASSUME TypeInv, NEW c \in Calls, NEW b \in Buffers, buffer[c] = {b}, ReleaseBuffer(c, b),
           pc'[c] \notin {"write", "recycle"},
           \A d \in Calls : d # c => pc'[d] = pc[d]
    PROVE  BufferInv'
<1> USE DEF TypeInv, PlaceInv
<1>1. buffer'[c] = {} /\ \A d \in Calls : d # c => buffer'[d] = buffer[d]
  BY DEF ReleaseBuffer, TypeOK
<1>2. /\ \A d \in Calls : d # c => b \notin buffer[d]
      /\ encPool[b] = 0 /\ buckets[b] = 0
  <2>1. \A d \in Calls : d # c => buffer[c] \cap buffer[d] = {}
    BY DEF BufferInv
  <2>2. ~(encPool[b] + buckets[b] > 0)
    BY DEF BufferInv
  <2>3. encPool[b] \in Nat /\ buckets[b] \in Nat
    BY DEF TypeOK
  <2> QED BY <2>1, <2>2, <2>3
<1>3. /\ encPool'[b] + buckets'[b] <= 1
      /\ \A a \in Buffers : a # b => encPool'[a] = encPool[a] /\ buckets'[a] = buckets[a]
  BY <1>2 DEF ReleaseBuffer, Put, TypeOK
<1>4. ASSUME NEW d \in Calls
      PROVE  /\ buffer'[d] # {} => buffer'[d] = {Buf(d)'} /\ Buf(d)' \in Buffers
             /\ pc'[d] \in {"write", "recycle"} => buffer'[d] # {}
  BY <1>1 DEF BufferInv, Buf
<1>5. \A d, e \in Calls : d # e => buffer'[d] \cap buffer'[e] = {}
  BY <1>1 DEF BufferInv
<1>6. ASSUME NEW a \in Buffers
      PROVE  /\ encPool'[a] + buckets'[a] <= 1
             /\ encPool'[a] + buckets'[a] > 0 => \A d \in Calls : a \notin buffer'[d]
  <2>1. CASE a = b
    BY <1>1, <1>2, <1>3, <2>1
  <2>2. CASE a # b
    BY <1>1, <1>3, <2>2 DEF BufferInv
  <2> QED BY <2>1, <2>2
<1> QED BY <1>4, <1>5, <1>6 DEF BufferInv

LEMMA PlaceStep ==
    ASSUME TypeInv, [Next]_vars
    PROVE  PlaceInv'
<1> USE DEF TypeInv, PlaceInv
<1>1. ASSUME NEW c \in Calls, Filtered(c) PROVE PlaceInv'
  <2>1. \A d \in Calls : pc'[d] \in Needing => pc[d] \in Needing
    BY <1>1 DEF Filtered, Goto, Needing, TypeOK
  <2>2. \A d \in Calls : pc'[d] \in {"write", "recycle"} => pc[d] \in {"write", "recycle"}
    BY <1>1 DEF Filtered, Goto, TypeOK
  <2>3. UNCHANGED <<storage, snapPool, buffer, encPool, buckets>>
    BY <1>1 DEF Filtered, heapVars
  <2> QED BY <2>1, <2>2, <2>3, SnapshotKept, BufferKept
<1>2. ASSUME NEW c \in Calls, Begin(c) PROVE PlaceInv'
  <2>1. PICK s \in Storages : BorrowStorage(c, s)
    BY <1>2 DEF Begin
  <2>2. pc'[c] = "local" /\ \A d \in Calls : d # c => pc'[d] = pc[d]
    BY <1>2 DEF Begin, Goto, TypeOK
  <2>3. UNCHANGED <<buffer, encPool, buckets>>
    BY <1>2 DEF Begin
  <2>4. SnapshotInv'
    BY <2>1, <2>2, SnapshotTaken
  <2>5. BufferInv'
    BY <2>2, <2>3, BufferKept
  <2> QED BY <2>4, <2>5
<1>3. ASSUME NEW c \in Calls, RunHook(c) PROVE PlaceInv'
  <2>1. UNCHANGED <<pc, storage, snapPool, buffer, encPool, buckets>>
    BY <1>3 DEF RunHook
  <2> QED BY <2>1, SnapshotKept, BufferKept
<1>4. ASSUME NEW c \in Calls, DispatchGlobal(c) PROVE PlaceInv'
  <2>1. \A d \in Calls : pc'[d] \in Needing => pc[d] \in Needing
    BY <1>4 DEF DispatchGlobal, At, Goto, Needing, TypeOK
  <2>2. \A d \in Calls : pc'[d] \in {"write", "recycle"} => pc[d] \in {"write", "recycle"}
    BY <1>4 DEF DispatchGlobal, Goto, TypeOK
  <2>3. UNCHANGED <<storage, snapPool, buffer, encPool, buckets>>
    BY <1>4 DEF DispatchGlobal, heapVars
  <2> QED BY <2>1, <2>2, <2>3, SnapshotKept, BufferKept
<1>5. ASSUME NEW c \in Calls, Encode(c) PROVE PlaceInv'
  <2>1. PICK b \in Buffers : BorrowBuffer(c, b)
    BY <1>5 DEF Encode
  <2>2. /\ pc[c] = "global" /\ pc'[c] = "write"
        /\ \A d \in Calls : d # c => pc'[d] = pc[d]
    BY <1>5 DEF Encode, HooksRan, At, Goto, TypeOK
  <2>3. UNCHANGED <<storage, snapPool>>
    BY <1>5 DEF Encode
  <2>4. SnapshotInv'
    BY <2>2, <2>3, SnapshotKept DEF Needing
  <2>5. BufferInv'
    BY <2>1, <2>2, BufferTaken
  <2> QED BY <2>4, <2>5
<1>6. ASSUME NEW c \in Calls, EncodeFails(c) PROVE PlaceInv'
  <2>1. /\ pc[c] = "global" /\ NextItem(c) /\ UNCHANGED buffer
        /\ \/ UNCHANGED <<encPool, buckets>>
           \/ \E b \in Buffers :
                 /\ IsNewBuffer(b)
                 /\ \/ encPool' = Put(encPool, b) /\ UNCHANGED buckets
                    \/ buckets' = Put(buckets, b) /\ UNCHANGED encPool
    BY <1>6 DEF EncodeFails, HooksRan, At
  <2>2. SnapshotInv'
    BY <2>1, SnapshotGiven DEF Needing
  <2>3. \A d \in Calls : pc'[d] \in {"write", "recycle"} => pc[d] \in {"write", "recycle"}
    BY <2>1 DEF NextItem, Goto, TypeOK
  <2>4. CASE UNCHANGED <<encPool, buckets>>
    BY <2>1, <2>2, <2>3, <2>4, BufferKept
  <2>5. ASSUME NEW b \in Buffers, IsNewBuffer(b),
               \/ encPool' = Put(encPool, b) /\ UNCHANGED buckets
               \/ buckets' = Put(buckets, b) /\ UNCHANGED encPool
        PROVE  BufferInv'
    <3>1. /\ encPool[b] = 0 /\ buckets[b] = 0
          /\ \A d \in Calls : b \notin buffer[d]
      BY <2>5 DEF IsNewBuffer, IsNew, Unused, InPool, TypeOK
    <3>2. /\ encPool'[b] + buckets'[b] = 1
          /\ \A a \in Buffers : a # b => encPool'[a] = encPool[a] /\ buckets'[a] = buckets[a]
      BY <2>5, <3>1 DEF Put, TypeOK
    <3>3. ASSUME NEW d \in Calls
          PROVE  /\ buffer'[d] # {} => buffer'[d] = {Buf(d)'} /\ Buf(d)' \in Buffers
                 /\ pc'[d] \in {"write", "recycle"} => buffer'[d] # {}
      BY <2>1, <2>3 DEF BufferInv, Buf
    <3>4. ASSUME NEW a \in Buffers
          PROVE  /\ encPool'[a] + buckets'[a] <= 1
                 /\ encPool'[a] + buckets'[a] > 0 => \A d \in Calls : a \notin buffer'[d]
      <4>1. CASE a = b
        BY <2>1, <3>1, <3>2, <4>1
      <4>2. CASE a # b
        BY <2>1, <3>2, <4>2 DEF BufferInv
      <4> QED BY <4>1, <4>2
    <3> QED BY <2>1, <3>3, <3>4 DEF BufferInv
  <2> QED BY <2>1, <2>2, <2>4, <2>5
<1>7. ASSUME NEW c \in Calls, Write(c) PROVE PlaceInv'
  <2>1. \A d \in Calls : pc'[d] \in Needing => pc[d] \in Needing
    BY <1>7 DEF Write, At, Goto, Needing, TypeOK
  <2>2. \A d \in Calls : pc'[d] \in {"write", "recycle"} => pc[d] \in {"write", "recycle"}
    BY <1>7 DEF Write, At, Goto, TypeOK
  <2>3. UNCHANGED <<storage, snapPool, buffer, encPool, buckets>>
    BY <1>7 DEF Write, heapVars
  <2> QED BY <2>1, <2>2, <2>3, SnapshotKept, BufferKept
<1>8. ASSUME NEW c \in Calls, Recycle(c) PROVE PlaceInv'
  <2>1. /\ pc[c] = "recycle" /\ ReleaseBuffer(c, Buf(c))
        /\ \/ Goto(c, "sync") /\ UNCHANGED <<storage, snapPool>>
           \/ NextItem(c)
    BY <1>8 DEF Recycle, At
  <2>2. Buf(c) \in Buffers /\ buffer[c] = {Buf(c)}
    BY <2>1 DEF BufferInv
  <2>3. /\ pc'[c] \in {"sync", "global", "done"}
        /\ \A d \in Calls : d # c => pc'[d] = pc[d]
    BY <2>1 DEF NextItem, Goto, TypeOK
  <2>4. BufferInv'
    BY <2>1, <2>2, <2>3, BufferGiven
  <2>5. CASE Goto(c, "sync") /\ UNCHANGED <<storage, snapPool>>
    <3>1. \A d \in Calls : pc'[d] \in Needing => pc[d] \in Needing
      BY <2>5 DEF Goto, Needing, TypeOK
    <3> QED BY <2>4, <2>5, <3>1, SnapshotKept
  <2>6. CASE NextItem(c)
    BY <2>1, <2>4, <2>6, SnapshotGiven DEF Needing
  <2> QED BY <2>1, <2>5, <2>6
<1>9. ASSUME NEW c \in Calls, SyncBegin(c) \/ Exit(c) PROVE PlaceInv'
  <2>1. \A d \in Calls : pc'[d] \in Needing => pc[d] \in Needing
    BY <1>9 DEF SyncBegin, Exit, Goto, Needing, TypeOK
  <2>2. \A d \in Calls : pc'[d] \in {"write", "recycle"} => pc[d] \in {"write", "recycle"}
    BY <1>9 DEF SyncBegin, Exit, Goto, TypeOK
  <2>3. UNCHANGED <<storage, snapPool, buffer, encPool, buckets>>
    BY <1>9 DEF SyncBegin, Exit, heapVars
  <2> QED BY <2>1, <2>2, <2>3, SnapshotKept, BufferKept
<1>10. CASE Deliver \/ (\E l \in Levels \cup {InvalidLevel} : SetLevel(l)) \/ EditDuringCalls \/ UNCHANGED vars
  <2>1. UNCHANGED <<pc, storage, snapPool, buffer, encPool, buckets>>
    BY <1>10 DEF Deliver, SetLevel, EditDuringCalls, vars, callVars, heapVars
  <2> QED BY <2>1, SnapshotKept, BufferKept
<1> QED BY <1>1, <1>2, <1>3, <1>4, <1>5, <1>6, <1>7, <1>8, <1>9, <1>10 DEF Next, Step, Terminating

LEMMA PlaceInit == Init => PlaceInv
<1> SUFFICES ASSUME Init PROVE PlaceInv
  OBVIOUS
<1>1. SnapshotInv
  BY DEF Init, SnapshotInv
<1>2. BufferInv
  BY DEF Init, BufferInv
<1> QED BY <1>1, <1>2 DEF PlaceInv

LEMMA TypeInvariant == Spec => []TypeInv
<1>1. Init => TypeInv
  BY TypeInit, PlaceInit DEF TypeInv
<1>2. TypeInv /\ [Next]_vars => TypeInv'
  BY TypeStep, PlaceStep DEF TypeInv
<1> QED BY <1>1, <1>2, PTL DEF Spec

\* Every variable keeps its type: the hooks, fields and lines of every call, the
\* counts of the pools, the bag of what is written, the histories.
THEOREM TypeCorrect == Spec => []TypeOK
<1>1. TypeInv => TypeOK
  BY DEF TypeInv
<1> QED BY <1>1, TypeInvariant, PTL

\* A field snapshot and an encoder buffer have one owner at most: one call, or
\* one place in a pool, whatever path of log gives it back.
THEOREM PooledHasOneOwner == Spec => []OneOwner
<1>1. TypeInv => OneOwner
  <2> SUFFICES ASSUME TypeInv PROVE OneOwner
    OBVIOUS
  <2> USE DEF TypeInv, PlaceInv
  <2>1. \A T : (\E x : T \subseteq {x}) => Cardinality(T) \in {0, 1} /\ (Cardinality(T) = 1 => T # {})
    <3> SUFFICES ASSUME NEW T, NEW x, T \subseteq {x}
                 PROVE  Cardinality(T) \in {0, 1} /\ (Cardinality(T) = 1 => T # {})
      OBVIOUS
    <3>1. CASE T = {}
      BY <3>1, FS_EmptySet
    <3>2. CASE T = {x}
      BY <3>2, FS_Singleton
    <3> QED BY <3>1, <3>2
  <2>2. ASSUME NEW s \in Storages
        PROVE  snapPool[s] + Cardinality({c \in Calls : s \in storage[c]}) <= 1
    <3> DEFINE holders == {c \in Calls : s \in storage[c]}
    <3>1. \A c, d \in holders : c = d
      BY DEF SnapshotInv
    <3>2. \E x : holders \subseteq {x}
      BY <3>1
    <3>3. snapPool[s] \in {0, 1} /\ (snapPool[s] = 1 => holders = {})
      <4>1. snapPool[s] \in Nat
        BY DEF TypeOK
      <4>2. snapPool[s] <= 1 /\ (snapPool[s] > 0 => holders = {})
        BY DEF SnapshotInv
      <4> HIDE DEF holders
      <4> QED BY <4>1, <4>2
    <3> HIDE DEF holders
    <3>4. Cardinality(holders) \in {0, 1} /\ (Cardinality(holders) = 1 => holders # {})
      BY <2>1, <3>2
    <3>5. snapPool[s] + Cardinality(holders) <= 1
      BY <3>3, <3>4
    <3> QED BY <3>5 DEF holders
  <2>3. ASSUME NEW b \in Buffers
        PROVE  encPool[b] + buckets[b] + Cardinality({c \in Calls : b \in buffer[c]}) <= 1
    <3> DEFINE holders == {c \in Calls : b \in buffer[c]}
               pools == encPool[b] + buckets[b]
    <3>1. \A c, d \in holders : c = d
      BY DEF BufferInv
    <3>2. \E x : holders \subseteq {x}
      BY <3>1
    <3>3. pools \in {0, 1} /\ (pools = 1 => holders = {})
      <4>1. pools \in Nat
        BY DEF TypeOK
      <4>2. pools <= 1 /\ (pools > 0 => holders = {})
        BY DEF BufferInv
      <4> HIDE DEF pools
      <4> QED BY <4>1, <4>2
    <3> HIDE DEF holders, pools
    <3>4. Cardinality(holders) \in {0, 1} /\ (Cardinality(holders) = 1 => holders # {})
      BY <2>1, <3>2
    <3>5. pools + Cardinality(holders) <= 1
      BY <3>3, <3>4
    <3> QED BY <3>5 DEF holders, pools
  <2> QED BY <2>2, <2>3 DEF OneOwner
<1> QED BY <1>1, TypeInvariant, PTL

-----------------------------------------------------------------------------
(* Lines are own. *)

TextOf(c) ==
    /\ pc[c] = "idle" => ran[c] = <<>>
    /\ pc[c] \in Needing => fields[Slot(c)] = Expected(c, "entry")
    /\ pc[c] = "write" => text[Buf(c)] = Expected(c, Item(c))

LineOf(l) ==
    /\ l.text = Expected(l.call, l.item)
    /\ l.item = "entry" =>
        \/ pc[l.call] \in {"sync", "await", "done"}
        \/ pc[l.call] = "recycle" /\ errs[l.call] = <<>>

LEMMA TextByParts ==
    /\ TextInv <=> (\A c \in Calls : TextOf(c)) /\ (\A l \in Lines : LineOf(l))
    /\ TextInv' <=> (\A c \in Calls : TextOf(c)') /\ (\A l \in Lines' : LineOf(l)')
<1>1. TextInv <=> (\A c \in Calls : TextOf(c)) /\ (\A l \in Lines : LineOf(l))
  BY DEF TextInv, TextOf, LineOf, Needing
<1>2. TextInv' <=> (\A c \in Calls : TextOf(c)') /\ (\A l \in Lines' : LineOf(l)')
  BY DEF TextInv, TextOf, LineOf, Needing
<1> QED BY <1>1, <1>2

LEMMA LinesTyped == ASSUME TypeOK, NEW l \in Lines PROVE l.call \in Calls /\ l \in Line
<1>1. Lines \subseteq Line
  BY Elements DEF TypeOK, Lines, BagToSet
<1> QED BY <1>1 DEF Line

LEMMA ExpectedStays ==
    ASSUME NEW c, NEW item
    PROVE  /\ ran'[c] = ran[c] /\ extras'[c] = extras[c] => Expected(c, item)' = Expected(c, item)
           /\ item # "entry" => Expected(c, item)' = Expected(c, item)
BY DEF Expected, Marks, Base, Stack

\* A step of one call changes nothing of another.
LEMMA OthersText ==
    ASSUME TextInv, NEW d \in Calls,
           pc'[d] = pc[d], ran'[d] = ran[d], extras'[d] = extras[d], errs'[d] = errs[d],
           storage'[d] = storage[d], buffer'[d] = buffer[d],
           pc[d] \in Needing => fields'[Slot(d)] = fields[Slot(d)],
           pc[d] = "write" => text'[Buf(d)] = text[Buf(d)]
    PROVE  TextOf(d)'
<1>1. TextOf(d)
  BY TextByParts
<1>2. Slot(d)' = Slot(d) /\ Buf(d)' = Buf(d)
  BY DEF Slot, Buf
<1>3. Item(d)' = Item(d)
  BY DEF Item
<1>4. \A item : Expected(d, item)' = Expected(d, item)
  BY ExpectedStays
<1> QED BY <1>1, <1>2, <1>3, <1>4 DEF TextOf

LEMMA LinesKept ==
    ASSUME TypeOK, TextInv, NEW c \in Calls,
           \A d \in Calls : d # c =>
               pc'[d] = pc[d] /\ ran'[d] = ran[d] /\ extras'[d] = extras[d] /\ errs'[d] = errs[d],
           \/ pc[c] \in {"idle", "local", "global", "write"}
           \/ /\ ran'[c] = ran[c] /\ extras'[c] = extras[c]
              /\ pc'[c] \in {"sync", "await", "done"} \/ (pc[c] = "recycle" /\ errs[c] # <<>>)
    PROVE  \A l \in Lines : LineOf(l)'
<1> SUFFICES ASSUME NEW l \in Lines PROVE LineOf(l)'
  OBVIOUS
<1>1. LineOf(l) /\ l.call \in Calls
  BY TextByParts, LinesTyped
<1>2. CASE l.item # "entry"
  BY <1>1, <1>2, ExpectedStays DEF LineOf
<1>3. CASE l.item = "entry" /\ l.call # c
  BY <1>1, <1>3, ExpectedStays DEF LineOf
<1>4. CASE l.item = "entry" /\ l.call = c
  BY <1>1, <1>4, ExpectedStays DEF LineOf
<1> QED BY <1>2, <1>3, <1>4

\* A hook that runs adds its mark to what the entry should carry.
LEMMA EntryGrows ==
    ASSUME TypeOK, NEW c \in Calls, NEW h \in Hooks,
           ran'[c] = Append(ran[c], h), extras'[c] = extras[c]
    PROVE  Expected(c, "entry")' = Append(Expected(c, "entry"), <<c, h>>)
<1> DEFINE front == Base(c) \o extras[c] \o Stack(c)
<1>1. ran[c] \in Seq(Hooks) /\ extras[c] \in Seq(Fields)
  BY DEF TypeOK
<1>2. front \in Seq(Fields)
  BY <1>1, FieldsTyped, ConcatProperties
<1>3. Marks(c) \in Seq(Fields)
  <2>1. \A i \in DOMAIN ran[c] : <<c, ran[c][i]>> \in Fields
    BY <1>1, FieldsTyped
  <2>2. DOMAIN ran[c] = 1 .. Len(ran[c]) /\ Len(ran[c]) \in Nat
    BY <1>1
  <2> HIDE DEF Fields
  <2>3. Marks(c) \in [1 .. Len(ran[c]) -> Fields]
    BY <2>1, <2>2 DEF Marks
  <2> QED BY <2>2, <2>3
<1>4. PICK f \in Fields : f = <<c, h>>
  BY FieldsTyped
<1>5. PICK marks \in Seq(Fields) : marks = Marks(c)
  BY <1>3
<1>6. Marks(c)' = Append(marks, f)
  <2>1. /\ DOMAIN ran[c] = 1 .. Len(ran[c]) /\ Len(ran[c]) \in Nat
        /\ DOMAIN Append(ran[c], h) = 1 .. Len(ran[c]) + 1
        /\ Append(ran[c], h)[Len(ran[c]) + 1] = h
        /\ \A i \in 1 .. Len(ran[c]) : Append(ran[c], h)[i] = ran[c][i]
    BY <1>1, AppendProperties
  <2>2. Marks(c)' = [i \in 1 .. Len(ran[c]) + 1 |-> <<c, Append(ran[c], h)[i]>>]
    BY <2>1 DEF Marks
  <2>3. marks = [i \in 1 .. Len(ran[c]) |-> <<c, ran[c][i]>>]
    BY <1>5, <2>1 DEF Marks
  <2>4. Len(marks) = Len(ran[c])
    BY <2>1, <2>3
  <2>5. /\ Append(marks, f) \in Seq(Fields) /\ Len(Append(marks, f)) = Len(ran[c]) + 1
        /\ Append(marks, f)[Len(ran[c]) + 1] = f
        /\ \A i \in 1 .. Len(ran[c]) : Append(marks, f)[i] = marks[i]
    BY <2>4, AppendProperties
  <2>6. \A i \in 1 .. Len(ran[c]) + 1 : Append(marks, f)[i] = <<c, Append(ran[c], h)[i]>>
    BY <1>4, <2>1, <2>3, <2>5
  <2>7. PICK n \in Nat : n = Len(ran[c]) + 1
    BY <2>1
  <2>8. PICK longer \in Seq(Fields) : longer = Append(marks, f)
    BY <2>5
  <2>9. longer = [i \in 1 .. n |-> longer[i]]
    <3>1. Len(longer) = n
      BY <2>5, <2>7, <2>8
    <3> QED BY <3>1
  <2> HIDE DEF Fields
  <2> QED BY <2>2, <2>6, <2>7, <2>8, <2>9
<1>9. Append(front \o marks, f) = front \o Append(marks, f)
  <2>1. PICK first \in Seq(Fields) : first = front
    BY <1>2
  <2>2. Append(first \o marks, f) = first \o Append(marks, f)
    OBVIOUS
  <2> QED BY <2>1, <2>2
<1>7. Expected(c, "entry") = front \o Marks(c)
  BY DEF Expected
<1>8. Expected(c, "entry")' = front \o Marks(c)'
  BY DEF Expected, Base, Stack
<1> QED BY <1>4, <1>5, <1>6, <1>7, <1>8, <1>9

\* A write adds its own line to the lines, and a delivery adds none.
LEMMA WriteAddsOne ==
    ASSUME TypeInv, NEW c \in Calls, Write(c),
           NEW l, l = [call |-> c, item |-> Item(c), text |-> text[Buf(c)]]
    PROVE  /\ l \in Line
           /\ Lines' \subseteq Lines \cup {l}
           /\ ToSet(pending') \subseteq ToSet(pending) \cup {l}
<1> USE DEF TypeInv
<1>1. l \in Line
  <2>1. Buf(c) \in Buffers
    BY DEF Write, At, PlaceInv, BufferInv
  <2> QED BY <2>1, ItemTyped DEF Line, TypeOK
<1>2. \/ out' = out (+) SetToBag({l}) /\ UNCHANGED <<pending, lost>>
      \/ pending' = Append(pending, l) /\ UNCHANGED <<out, lost>>
      \/ lost' = lost \cup {l} /\ UNCHANGED <<pending, out>>
      \/ /\ pending # <<>> /\ pending' = Append(Tail(pending), l)
         /\ lost' = lost \cup {Head(pending)} /\ UNCHANGED out
      \/ UNCHANGED <<pending, out, lost>>
  BY DEF Write
<1>3. pending \in Seq(Line)
  BY DEF TypeOK
<1>4. CASE out' = out (+) SetToBag({l}) /\ UNCHANGED <<pending, lost>>
  <2>1. DOMAIN out' = DOMAIN out \cup {l}
    BY <1>1, <1>4, BagTyped DEF TypeOK
  <2> QED BY <1>1, <1>4, <2>1 DEF Lines, BagToSet
<1>5. CASE pending' = Append(pending, l) /\ UNCHANGED <<out, lost>>
  <2>1. ToSet(pending') = ToSet(pending) \cup {l}
    BY <1>1, <1>3, <1>5, OneMore
  <2> QED BY <1>1, <1>5, <2>1 DEF Lines
<1>6. CASE /\ pending # <<>> /\ pending' = Append(Tail(pending), l)
           /\ lost' = lost \cup {Head(pending)} /\ UNCHANGED out
  <2>1. /\ Tail(pending) \in Seq(Line)
        /\ ToSet(pending) = {Head(pending)} \cup ToSet(Tail(pending))
    BY <1>3, <1>6, FirstAndRest
  <2>2. PICK rest \in Seq(Line) : rest = Tail(pending)
    BY <2>1
  <2>3. ToSet(Append(rest, l)) = ToSet(rest) \cup {l}
    BY <1>1, OneMore
  <2> QED BY <1>1, <1>6, <2>1, <2>2, <2>3 DEF Lines
<1>7. CASE (lost' = lost \cup {l} \/ UNCHANGED lost) /\ UNCHANGED <<pending, out>>
  BY <1>1, <1>7 DEF Lines
<1> QED BY <1>2, <1>4, <1>5, <1>6, <1>7

LEMMA DeliverMovesOne ==
    ASSUME TypeInv, Deliver
    PROVE  Lines' \subseteq Lines /\ ToSet(pending') \subseteq ToSet(pending)
<1> USE DEF TypeInv
<1>1. pending \in Seq(Line) /\ pending # <<>>
  BY DEF Deliver, TypeOK
<1>2. PICK l \in Line : l = Head(pending)
  BY <1>1, FirstAndRest
<1>3. pending' = Tail(pending) /\ ToSet(pending) = {l} \cup ToSet(pending')
  BY <1>1, <1>2, FirstAndRest DEF Deliver
<1>4. \/ out' = out (+) SetToBag({l}) /\ UNCHANGED lost
      \/ lost' = lost \cup {l} /\ UNCHANGED out
  BY <1>2 DEF Deliver
<1>5. DOMAIN out' \subseteq DOMAIN out \cup {l}
  <2>1. CASE out' = out (+) SetToBag({l})
    BY <2>1, <1>2, BagTyped DEF TypeOK
  <2> QED BY <1>4, <2>1
<1> QED BY <1>3, <1>4, <1>5 DEF Lines, BagToSet

LEMMA SlotsDiffer ==
    ASSUME TypeInv, NEW c \in Calls, NEW d \in Calls, c # d,
           pc[c] \in Needing, pc[d] \in Needing
    PROVE  Slot(c) \in Storages /\ Slot(d) \in Storages /\ Slot(c) # Slot(d)
<1>1. /\ storage[c] = {Slot(c)} /\ Slot(c) \in Storages
      /\ storage[d] = {Slot(d)} /\ Slot(d) \in Storages
  BY DEF TypeInv, PlaceInv, SnapshotInv, Needing
<1>2. storage[c] \cap storage[d] = {}
  BY DEF TypeInv, PlaceInv, SnapshotInv
<1> QED BY <1>1, <1>2

LEMMA BufsDiffer ==
    ASSUME TypeInv, NEW c \in Calls, NEW d \in Calls, c # d,
           pc[c] \in {"write", "recycle"}, pc[d] \in {"write", "recycle"}
    PROVE  Buf(c) \in Buffers /\ Buf(d) \in Buffers /\ Buf(c) # Buf(d)
<1>1. /\ buffer[c] = {Buf(c)} /\ Buf(c) \in Buffers
      /\ buffer[d] = {Buf(d)} /\ Buf(d) \in Buffers
  BY DEF TypeInv, PlaceInv, BufferInv
<1>2. buffer[c] \cap buffer[d] = {}
  BY DEF TypeInv, PlaceInv, BufferInv
<1> QED BY <1>1, <1>2

\* The next item of a call: it keeps what it says, or has no more to say.
LEMMA NextItemText ==
    ASSUME TypeInv, TextInv, NEW c \in Calls, pc[c] \in {"global", "recycle"}, NextItem(c),
           UNCHANGED <<ran, extras>>
    PROVE  /\ TextOf(c)'
           /\ pc'[c] \in {"global", "done"} /\ (pc'[c] = "global" => errs[c] # <<>>)
           /\ \A d \in Calls : d # c =>
                 /\ pc'[d] = pc[d] /\ storage'[d] = storage[d] /\ errs'[d] = errs[d]
                 /\ pc[d] \in Needing => fields'[Slot(d)] = fields[Slot(d)]
<1> USE DEF TypeInv
<1>1. TextOf(c)
  BY TextByParts
<1>2. CASE Item(c) # "entry"
  <2>1. /\ errs[c] # <<>> /\ pc'[c] = "global" /\ UNCHANGED <<storage, fields>>
        /\ \A d \in Calls : d # c => pc'[d] = pc[d] /\ errs'[d] = errs[d]
    BY <1>2, ItemTyped DEF NextItem, Goto, TypeOK
  <2>2. Slot(c)' = Slot(c) /\ Expected(c, "entry")' = Expected(c, "entry")
    BY <2>1, ExpectedStays DEF Slot
  <2>3. TextOf(c)'
    BY <1>1, <2>1, <2>2 DEF TextOf, Needing
  <2> QED BY <2>1, <2>3
<1>3. CASE Item(c) = "entry"
  <2>1. /\ pc'[c] = "done" /\ UNCHANGED errs /\ fields' = [fields EXCEPT ![Slot(c)] = Blank]
        /\ \A d \in Calls : d # c => pc'[d] = pc[d] /\ storage'[d] = storage[d]
    BY <1>3 DEF NextItem, Goto, TypeOK
  <2>2. TextOf(c)'
    BY <2>1 DEF TextOf, Needing
  <2>3. ASSUME NEW d \in Calls, d # c, pc[d] \in Needing
        PROVE  fields'[Slot(d)] = fields[Slot(d)]
    <3>1. Slot(c) # Slot(d) /\ Slot(d) \in Storages
      BY <2>3, SlotsDiffer DEF Needing
    <3>2. DOMAIN fields = Storages
      BY DEF TypeOK
    <3> QED BY <2>1, <3>1, <3>2
  <2> QED BY <2>1, <2>2, <2>3
<1> QED BY <1>2, <1>3

LEMMA TextStep ==
    ASSUME TypeInv, TextInv, [Next]_vars
    PROVE  TextInv'
<1> USE DEF TypeInv
<1>1. ASSUME NEW c \in Calls, Filtered(c) \/ DispatchGlobal(c) \/ SyncBegin(c) \/ Exit(c)
      PROVE  TextInv'
  <2>1. /\ \A d \in Calls : d # c => pc'[d] = pc[d]
        /\ \/ pc[c] \in {"idle", "local"}
           \/ pc[c] \in {"sync", "await"} /\ pc'[c] \in {"await", "done"}
        /\ pc'[c] \in Needing => pc'[c] = "global" /\ pc[c] = "local"
        /\ pc'[c] # "idle"
    BY <1>1 DEF Filtered, DispatchGlobal, SyncBegin, Exit, At, Goto, Needing, TypeOK
  <2>2. UNCHANGED <<ran, extras, errs, storage, fields, buffer, text, pending, out, lost>>
    BY <1>1 DEF Filtered, DispatchGlobal, SyncBegin, Exit, heapVars, outVars
  <2>3. \A d \in Calls : d # c => TextOf(d)'
    BY <2>1, <2>2, OthersText
  <2>4. TextOf(c)'
    <3>1. TextOf(c)
      BY TextByParts
    <3>2. Slot(c)' = Slot(c) /\ Expected(c, "entry")' = Expected(c, "entry")
      BY <2>2, ExpectedStays DEF Slot
    <3> QED BY <2>1, <2>2, <3>1, <3>2 DEF TextOf, Needing
  <2>5. \A l \in Lines : LineOf(l)'
    BY <2>1, <2>2, LinesKept
  <2>6. Lines' = Lines
    BY <2>2 DEF Lines
  <2> QED BY <2>3, <2>4, <2>5, <2>6, TextByParts
<1>2. ASSUME NEW c \in Calls, Begin(c) PROVE TextInv'
  <2>1. PICK s \in Storages :
            /\ BorrowStorage(c, s)
            /\ fields' = [fields EXCEPT ![s] = Base(c) \o ContextFields(c) \o Stack(c)]
    BY <1>2 DEF Begin
  <2>2. /\ UNCHANGED <<ran, errs, buffer, text, pending, out, lost>>
        /\ pc[c] = "idle" /\ pc'[c] = "local" /\ extras'[c] = ContextFields(c)
        /\ storage'[c] = {s}
        /\ \A d \in Calls : d # c => pc'[d] = pc[d] /\ extras'[d] = extras[d] /\ storage'[d] = storage[d]
    BY <1>2, <2>1 DEF Begin, BorrowStorage, At, Goto, outVars, TypeOK
  <2>3. \A d \in Calls : d # c => TextOf(d)'
    <3> SUFFICES ASSUME NEW d \in Calls, d # c PROVE TextOf(d)'
      OBVIOUS
    <3>1. ASSUME pc[d] \in Needing PROVE fields'[Slot(d)] = fields[Slot(d)]
      <4>1. storage[d] = {Slot(d)} /\ Slot(d) \in Storages
        BY <3>1 DEF PlaceInv, SnapshotInv, Needing
      <4>2. Slot(d) # s
        BY <2>1, <4>1, SnapshotIsFree
      <4>3. DOMAIN fields = Storages
        BY DEF TypeOK
      <4> QED BY <2>1, <4>1, <4>2, <4>3
    <3> QED BY <2>2, <3>1, OthersText
  <2>4. TextOf(c)'
    <3>1. ran[c] = <<>>
      BY <2>2, TextByParts DEF TextOf
    <3>2. Slot(c)' = s
      BY <2>2, SlotOf
    <3>3. fields'[s] = Base(c) \o ContextFields(c) \o Stack(c)
      BY <2>1 DEF TypeOK
    <3>4. Marks(c)' = <<>>
      BY <2>2, <3>1 DEF Marks
    <3>5. Expected(c, "entry")' = (Base(c) \o ContextFields(c) \o Stack(c)) \o <<>>
      BY <2>2, <3>4 DEF Expected, Base, Stack
    <3>6. PICK list \in Seq(Fields) : list = Base(c) \o ContextFields(c) \o Stack(c)
      BY FieldsTyped, ConcatProperties
    <3>7. list \o <<>> = list
      BY ConcatEmptySeq
    <3> QED BY <2>2, <3>2, <3>3, <3>5, <3>6, <3>7 DEF TextOf
  <2>5. \A l \in Lines : LineOf(l)'
    BY <2>2, LinesKept
  <2>6. Lines' = Lines
    BY <2>2 DEF Lines
  <2> QED BY <2>3, <2>4, <2>5, <2>6, TextByParts
<1>3. ASSUME NEW c \in Calls, RunHook(c) PROVE TextInv'
  <2>1. todo[c] \in Seq(Hooks) /\ todo[c] # <<>> /\ pc[c] \in {"local", "global"}
    BY <1>3 DEF RunHook, TypeOK
  <2>2. PICK h \in Hooks : h = Head(todo[c])
    BY <2>1, FirstAndRest
  <2>3. /\ UNCHANGED <<pc, extras, storage, buffer, text, pending, out, lost>>
        /\ ran'[c] = Append(ran[c], h)
        /\ fields' = [fields EXCEPT ![Slot(c)] = Append(fields[Slot(c)], <<c, h>>)]
        /\ \A d \in Calls : d # c => ran'[d] = ran[d] /\ errs'[d] = errs[d]
    BY <1>3, <2>2 DEF RunHook, TypeOK
  <2>4. \A d \in Calls : d # c => TextOf(d)'
    <3> SUFFICES ASSUME NEW d \in Calls, d # c PROVE TextOf(d)'
      OBVIOUS
    <3>1. ASSUME pc[d] \in Needing PROVE fields'[Slot(d)] = fields[Slot(d)]
      <4>1. Slot(c) # Slot(d) /\ Slot(d) \in Storages
        BY <2>1, <3>1, SlotsDiffer DEF Needing
      <4>2. DOMAIN fields = Storages
        BY DEF TypeOK
      <4> QED BY <2>3, <4>1, <4>2
    <3> QED BY <2>3, <3>1, OthersText
  <2>5. TextOf(c)'
    <3>1. fields[Slot(c)] = Expected(c, "entry")
      BY <2>1, TextByParts DEF TextOf, Needing
    <3>2. Expected(c, "entry")' = Append(Expected(c, "entry"), <<c, h>>)
      BY <2>3, EntryGrows
    <3>3. Slot(c) \in Storages
      BY <2>1 DEF PlaceInv, SnapshotInv
    <3>4. fields'[Slot(c)] = Append(fields[Slot(c)], <<c, h>>)
      BY <2>3, <3>3 DEF TypeOK
    <3>5. Slot(c)' = Slot(c)
      BY <2>3 DEF Slot
    <3> QED BY <2>1, <2>3, <3>1, <3>2, <3>4, <3>5 DEF TextOf
  <2>6. \A l \in Lines : LineOf(l)'
    BY <2>1, <2>3, LinesKept
  <2>7. Lines' = Lines
    BY <2>3 DEF Lines
  <2> QED BY <2>4, <2>5, <2>6, <2>7, TextByParts
<1>4. ASSUME NEW c \in Calls, Encode(c) PROVE TextInv'
  <2>1. PICK b \in Buffers : BorrowBuffer(c, b) /\ text' = [text EXCEPT ![b] = Content(c)]
    BY <1>4 DEF Encode
  <2>2. /\ UNCHANGED <<ran, errs, extras, storage, fields, pending, out, lost>>
        /\ pc[c] = "global" /\ pc'[c] = "write" /\ buffer'[c] = {b}
        /\ \A d \in Calls : d # c => pc'[d] = pc[d] /\ buffer'[d] = buffer[d]
    BY <1>4, <2>1 DEF Encode, BorrowBuffer, HooksRan, At, Goto, outVars, TypeOK
  <2>3. \A d \in Calls : d # c => TextOf(d)'
    <3> SUFFICES ASSUME NEW d \in Calls, d # c PROVE TextOf(d)'
      OBVIOUS
    <3>1. ASSUME pc[d] = "write" PROVE text'[Buf(d)] = text[Buf(d)]
      <4>1. buffer[d] = {Buf(d)} /\ Buf(d) \in Buffers
        BY <3>1 DEF PlaceInv, BufferInv
      <4>2. Buf(d) # b
        BY <2>1, <4>1, BufferIsFree
      <4>3. DOMAIN text = Buffers
        BY DEF TypeOK
      <4> QED BY <2>1, <4>1, <4>2, <4>3
    <3> QED BY <2>2, <3>1, OthersText
  <2>4. TextOf(c)'
    <3>1. fields[Slot(c)] = Expected(c, "entry")
      BY <2>2, TextByParts DEF TextOf, Needing
    <3>2. Content(c) = Expected(c, Item(c))
      BY <3>1 DEF Content, Expected
    <3>3. Slot(c)' = Slot(c) /\ Buf(c)' = b /\ Item(c)' = Item(c)
      BY <2>2, BufOf DEF Slot, Item
    <3>4. text'[b] = Content(c)
      BY <2>1 DEF TypeOK
    <3>5. \A item : Expected(c, item)' = Expected(c, item)
      BY <2>2, ExpectedStays
    <3> QED BY <2>2, <3>1, <3>2, <3>3, <3>4, <3>5 DEF TextOf
  <2>5. \A l \in Lines : LineOf(l)'
    BY <2>2, LinesKept
  <2>6. Lines' = Lines
    BY <2>2 DEF Lines
  <2> QED BY <2>3, <2>4, <2>5, <2>6, TextByParts
<1>5. ASSUME NEW c \in Calls, EncodeFails(c) PROVE TextInv'
  <2>1. /\ UNCHANGED <<ran, extras, buffer, text, pending, out, lost>>
        /\ pc[c] = "global" /\ NextItem(c)
    BY <1>5 DEF EncodeFails, HooksRan, At
  <2>2. /\ TextOf(c)'
        /\ \A d \in Calls : d # c =>
              /\ pc'[d] = pc[d] /\ storage'[d] = storage[d] /\ errs'[d] = errs[d]
              /\ pc[d] \in Needing => fields'[Slot(d)] = fields[Slot(d)]
    BY <2>1, NextItemText
  <2>3. \A d \in Calls : d # c => TextOf(d)'
    BY <2>1, <2>2, OthersText
  <2>4. \A l \in Lines : LineOf(l)'
    BY <2>1, <2>2, LinesKept
  <2>5. Lines' = Lines
    BY <2>1 DEF Lines
  <2> QED BY <2>2, <2>3, <2>4, <2>5, TextByParts
<1>6. ASSUME NEW c \in Calls, Write(c) PROVE TextInv'
  <2>1. PICK l : l = [call |-> c, item |-> Item(c), text |-> text[Buf(c)]]
    OBVIOUS
  <2>2. /\ UNCHANGED <<ran, errs, extras, storage, fields, buffer, text>>
        /\ pc[c] = "write" /\ pc'[c] = "recycle"
        /\ \A d \in Calls : d # c => pc'[d] = pc[d]
    BY <1>6 DEF Write, At, Goto, heapVars, TypeOK
  <2>3. \A d \in Calls : d # c => TextOf(d)'
    BY <2>2, OthersText
  <2>4. TextOf(c)'
    <3>1. TextOf(c)
      BY TextByParts
    <3>2. Slot(c)' = Slot(c) /\ Expected(c, "entry")' = Expected(c, "entry")
      BY <2>2, ExpectedStays DEF Slot
    <3> QED BY <2>2, <3>1, <3>2 DEF TextOf, Needing
  <2>5. \A k \in Lines : LineOf(k)'
    BY <2>2, LinesKept
  <2>6. LineOf(l)'
    <3>1. l.call = c /\ l.item = Item(c) /\ l.text = text[Buf(c)]
      BY <2>1
    <3>2. l.text = Expected(c, Item(c))
      BY <2>2, <3>1, TextByParts DEF TextOf
    <3>3. Expected(c, Item(c))' = Expected(c, Item(c)) /\ Item(c)' = Item(c)
      BY <2>2 DEF Expected, Marks, Base, Stack, Item
    <3>4. Item(c) = "entry" => errs'[c] = <<>>
      BY <2>2, ItemTyped
    <3>5. Expected(c, l.item)' = Expected(c, l.item)
      BY <2>2, ExpectedStays
    <3> QED BY <2>2, <3>1, <3>2, <3>4, <3>5 DEF LineOf
  <2>7. Lines' \subseteq Lines \cup {l}
    BY <1>6, <2>1, WriteAddsOne
  <2> QED BY <2>3, <2>4, <2>5, <2>6, <2>7, TextByParts
<1>7. ASSUME NEW c \in Calls, Recycle(c) PROVE TextInv'
  <2>1. /\ UNCHANGED <<ran, extras, pending, out, lost>>
        /\ pc[c] = "recycle" /\ ReleaseBuffer(c, Buf(c))
    BY <1>7 DEF Recycle, At, outVars
  <2>2. Buf(c) \in Buffers
    BY <2>1 DEF PlaceInv, BufferInv
  <2>3. \A d \in Calls : d # c =>
            /\ buffer'[d] = buffer[d]
            /\ pc[d] = "write" => text'[Buf(d)] = text[Buf(d)]
    <3> SUFFICES ASSUME NEW d \in Calls, d # c
                 PROVE  /\ buffer'[d] = buffer[d]
                        /\ pc[d] = "write" => text'[Buf(d)] = text[Buf(d)]
      OBVIOUS
    <3>1. buffer'[d] = buffer[d] /\ text' = [text EXCEPT ![Buf(c)] = Blank]
      BY <2>1 DEF ReleaseBuffer, TypeOK
    <3>2. ASSUME pc[d] = "write" PROVE text'[Buf(d)] = text[Buf(d)]
      <4>1. Buf(c) # Buf(d) /\ Buf(d) \in Buffers
        BY <2>1, <3>2, BufsDiffer
      <4>2. DOMAIN text = Buffers
        BY DEF TypeOK
      <4> QED BY <3>1, <4>1, <4>2
    <3> QED BY <3>1, <3>2
  <2>4. /\ TextOf(c)'
        /\ pc'[c] \in {"sync", "done"} \/ errs[c] # <<>>
        /\ \A d \in Calls : d # c =>
              /\ pc'[d] = pc[d] /\ storage'[d] = storage[d] /\ errs'[d] = errs[d]
              /\ pc[d] \in Needing => fields'[Slot(d)] = fields[Slot(d)]
    <3>1. CASE NextItem(c)
      BY <2>1, <3>1, NextItemText
    <3>2. CASE Goto(c, "sync") /\ UNCHANGED <<errs, storage, fields, snapPool>>
      BY <3>2 DEF Goto, TypeOK, TextOf, Needing
    <3> QED BY <1>7, <3>1, <3>2 DEF Recycle
  <2>5. \A d \in Calls : d # c => TextOf(d)'
    BY <2>1, <2>3, <2>4, OthersText
  <2>6. \A l \in Lines : LineOf(l)'
    BY <2>1, <2>4, LinesKept
  <2>7. Lines' = Lines
    BY <2>1 DEF Lines
  <2> QED BY <2>4, <2>5, <2>6, <2>7, TextByParts
<1>8. CASE Deliver \/ (\E l \in Levels \cup {InvalidLevel} : SetLevel(l)) \/ EditDuringCalls \/ UNCHANGED vars
  <2>1. UNCHANGED <<pc, ran, extras, errs, storage, fields, buffer, text>>
    BY <1>8 DEF Deliver, SetLevel, EditDuringCalls, vars, callVars, heapVars
  <2>2. \A d \in Calls : TextOf(d)'
    BY <2>1, OthersText
  <2>3. \A l \in Lines : LineOf(l)'
    <3> SUFFICES ASSUME NEW l \in Lines PROVE LineOf(l)'
      OBVIOUS
    <3>1. LineOf(l)
      BY TextByParts
    <3>2. Expected(l.call, l.item)' = Expected(l.call, l.item)
      BY <2>1, ExpectedStays
    <3> QED BY <2>1, <3>1, <3>2 DEF LineOf
  <2>4. Lines' \subseteq Lines
    BY <1>8, DeliverMovesOne DEF SetLevel, EditDuringCalls, vars, outVars, Lines
  <2> QED BY <2>2, <2>3, <2>4, TextByParts
<1> QED BY <1>1, <1>2, <1>3, <1>4, <1>5, <1>6, <1>7, <1>8 DEF Next, Step, Terminating

\* Every line, queued, written or dropped, carries the fields of its own logger,
\* context and stack and the marks of its own hooks, in order, and nothing of
\* another call that uses the same pooled snapshots and buffers.
THEOREM LinesCarryTheirOwn == Spec => []LinesAreOwn
<1>1. Init => TextInv
  <2> SUFFICES ASSUME Init PROVE TextInv
    OBVIOUS
  <2>1. Lines = {}
    BY DEF Init, Lines, ToSet, BagToSet, EmptyBag, SetToBag
  <2> QED BY <2>1 DEF Init, TextInv
<1>2. TypeInv /\ TextInv /\ [Next]_vars => TextInv'
  BY TextStep
<1>3. TextInv => LinesAreOwn
  BY DEF TextInv, LinesAreOwn
<1> QED BY <1>1, <1>2, <1>3, TypeInvariant, PTL DEF Spec

-----------------------------------------------------------------------------
(* The window of the hooks. *)

HooksOf(c) == ToSet(ran[c]) \cup ToSet(todo[c])

HookOf(c) ==
    /\ pc[c] = "idle" => ran[c] = <<>>
    /\ pc[c] = "local" =>
        /\ stay[c] \subseteq FuncsAt(c) /\ FuncsAt(c) \subseteq seen[c]
        /\ HooksOf(c) = NamedHooks(c)
    /\ pc[c] \in {"global", "write", "recycle"} =>
        /\ stay[c] \subseteq HooksOf(c)
        /\ HooksOf(c) \subseteq seen[c] \cup NamedHooks(c)
        /\ NamedHooks(c) \subseteq HooksOf(c)

LEMMA HookByParts ==
    /\ HookInv <=> \A c \in Calls : HookOf(c)
    /\ HookInv' <=> \A c \in Calls : HookOf(c)'
BY DEF HookInv, HookOf, HooksOf

LEMMA HookKept ==
    ASSUME HookInv, NEW d \in Calls, UNCHANGED funcs, stay'[d] = stay[d], seen'[d] = seen[d],
           ran'[d] = ran[d], todo'[d] = todo[d],
           \/ pc'[d] = pc[d]
           \/ pc'[d] \in {"sync", "await", "done"}
           \/ {pc[d], pc'[d]} \subseteq {"global", "write", "recycle"}
    PROVE  HookOf(d)'
<1>1. HookOf(d)
  BY HookByParts
<1>2. HooksOf(d)' = HooksOf(d) /\ FuncsAt(d)' = FuncsAt(d) /\ NamedHooks(d)' = NamedHooks(d)
  BY DEF HooksOf, FuncsAt, NamedHooks
<1> QED BY <1>1, <1>2 DEF HookOf

LEMMA HookStep ==
    ASSUME TypeInv, HookInv, [Next]_vars
    PROVE  HookInv'
<1> USE DEF TypeInv
<1>1. ASSUME NEW c \in Calls, Begin(c) PROVE HookInv'
  <2>1. PICK list \in SetToSeqs(NamedHooks(c)) : todo' = [todo EXCEPT ![c] = list]
    BY <1>1 DEF Begin
  <2>2. /\ pc[c] = "idle" /\ pc'[c] = "local" /\ UNCHANGED <<ran, funcs>>
        /\ stay'[c] = FuncsAt(c) /\ seen'[c] = FuncsAt(c) /\ todo'[c] = list
        /\ \A d \in Calls : d # c =>
              pc'[d] = pc[d] /\ stay'[d] = stay[d] /\ seen'[d] = seen[d] /\ todo'[d] = todo[d]
    BY <1>1, <2>1 DEF Begin, At, Goto, TypeOK, registryVars
  <2>3. \A d \in Calls : d # c => HookOf(d)'
    BY <2>2, HookKept
  <2>4. HookOf(c)'
    <3>1. ran[c] = <<>>
      BY <2>2, HookByParts DEF HookOf
    <3>2. ToSet(list) = NamedHooks(c)
      BY NamedHooksInOrder
    <3>3. ToSet(ran'[c]) = {}
      BY <2>2, <3>1 DEF ToSet
    <3>4. HooksOf(c)' = NamedHooks(c)' /\ FuncsAt(c)' = FuncsAt(c)
      BY <2>2, <3>2, <3>3 DEF HooksOf, NamedHooks, FuncsAt
    <3> QED BY <2>2, <3>4 DEF HookOf
  <2> QED BY <2>3, <2>4, HookByParts
<1>2. ASSUME NEW c \in Calls, RunHook(c) PROVE HookInv'
  <2>1. /\ todo[c] \in Seq(Hooks) /\ todo[c] # <<>> /\ ran[c] \in Seq(Hooks)
        /\ pc[c] \in {"local", "global"}
    BY <1>2 DEF RunHook, TypeOK
  <2>2. PICK h \in Hooks : h = Head(todo[c])
    BY <2>1, FirstAndRest
  <2>3. /\ UNCHANGED <<pc, funcs, stay, seen>>
        /\ ran'[c] = Append(ran[c], h) /\ todo'[c] = Tail(todo[c])
        /\ \A d \in Calls : d # c => ran'[d] = ran[d] /\ todo'[d] = todo[d]
    BY <1>2, <2>2 DEF RunHook, TypeOK, registryVars, histVars
  <2>4. \A d \in Calls : d # c => HookOf(d)'
    BY <2>3, HookKept
  <2>5. HookOf(c)'
    <3>1. ToSet(todo[c]) = {h} \cup ToSet(todo'[c])
      BY <2>1, <2>2, <2>3, FirstAndRest
    <3>2. ToSet(ran'[c]) = ToSet(ran[c]) \cup {h}
      BY <2>1, <2>3, OneMore
    <3>3. HooksOf(c)' = HooksOf(c) /\ FuncsAt(c)' = FuncsAt(c) /\ NamedHooks(c)' = NamedHooks(c)
      BY <2>3, <3>1, <3>2 DEF HooksOf, FuncsAt, NamedHooks
    <3>4. HookOf(c)
      BY HookByParts
    <3> QED BY <2>1, <2>3, <3>3, <3>4 DEF HookOf
  <2> QED BY <2>4, <2>5, HookByParts
<1>3. ASSUME NEW c \in Calls, DispatchGlobal(c) PROVE HookInv'
  <2>1. /\ pc[c] = "local" /\ todo[c] = <<>> /\ pc'[c] = "global" /\ todo'[c] = funcs[Level[c]]
        /\ UNCHANGED <<ran, funcs, stay, seen>>
        /\ \A d \in Calls : d # c => pc'[d] = pc[d] /\ todo'[d] = todo[d]
    BY <1>3 DEF DispatchGlobal, At, Goto, TypeOK, registryVars, histVars
  <2>2. \A d \in Calls : d # c => HookOf(d)'
    BY <2>1, HookKept
  <2>3. HookOf(c)'
    <3>1. ToSet(todo[c]) = {} /\ ToSet(todo'[c]) = FuncsAt(c)
      BY <2>1 DEF ToSet, FuncsAt
    <3>2. HooksOf(c)' = HooksOf(c) \cup FuncsAt(c) /\ NamedHooks(c)' = NamedHooks(c)
      BY <2>1, <3>1 DEF HooksOf, NamedHooks
    <3>3. HookOf(c)
      BY HookByParts
    <3> QED BY <2>1, <3>2, <3>3 DEF HookOf
  <2> QED BY <2>2, <2>3, HookByParts
<1>4. ASSUME NEW c \in Calls, EncodeFails(c) \/ Recycle(c) PROVE HookInv'
  <2>1. /\ pc[c] \in {"global", "recycle"} /\ pc'[c] \in {"global", "sync", "done"}
        /\ \A d \in Calls : d # c => pc'[d] = pc[d]
    BY <1>4 DEF EncodeFails, HooksRan, Recycle, NextItem, At, Goto, TypeOK
  <2>2. UNCHANGED <<ran, todo, funcs, stay, seen>>
    BY <1>4 DEF EncodeFails, Recycle, registryVars, histVars
  <2> QED BY <2>1, <2>2, HookKept, HookByParts
<1>5. ASSUME NEW c \in Calls, Filtered(c) \/ Encode(c) \/ Write(c) \/ SyncBegin(c) \/ Exit(c)
      PROVE  HookInv'
  <2>1. /\ \/ pc'[c] \in {"await", "done"}
           \/ pc[c] = "global" /\ pc'[c] = "write"
           \/ pc[c] = "write" /\ pc'[c] = "recycle"
        /\ \A d \in Calls : d # c => pc'[d] = pc[d]
    BY <1>5 DEF Filtered, Encode, HooksRan, Write, SyncBegin, Exit, At, Goto, TypeOK
  <2>2. UNCHANGED <<ran, todo, funcs, stay, seen>>
    BY <1>5 DEF Filtered, Encode, Write, SyncBegin, Exit, registryVars, histVars
  <2> QED BY <2>1, <2>2, HookKept, HookByParts
<1>6. ASSUME EditDuringCalls PROVE HookInv'
  <2> SUFFICES ASSUME NEW c \in Calls PROVE HookOf(c)'
    BY HookByParts
  <2>1. /\ UNCHANGED <<pc, ran, todo>>
        /\ stay'[c] = IF InHooks(c) THEN stay[c] \cap ToSet(funcs'[Level[c]]) ELSE stay[c]
        /\ seen'[c] = IF InHooks(c) THEN seen[c] \cup ToSet(funcs'[Level[c]]) ELSE seen[c]
    BY <1>6 DEF EditDuringCalls, callVars, TypeOK
  <2>2. HooksOf(c)' = HooksOf(c) /\ NamedHooks(c)' = NamedHooks(c) /\ FuncsAt(c)' = ToSet(funcs'[Level[c]])
    BY <2>1 DEF HooksOf, NamedHooks, FuncsAt
  <2>3. HookOf(c)
    BY HookByParts
  <2> QED BY <2>1, <2>2, <2>3 DEF HookOf, InHooks
<1>7. CASE Deliver \/ (\E l \in Levels \cup {InvalidLevel} : SetLevel(l)) \/ UNCHANGED vars
  <2>1. UNCHANGED <<pc, ran, todo, funcs, stay, seen>>
    BY <1>7 DEF Deliver, SetLevel, vars, registryVars, callVars, histVars
  <2> QED BY <2>1, HookKept, HookByParts
<1> QED BY <1>1, <1>2, <1>3, <1>4, <1>5, <1>6, <1>7 DEF Next, Step, Terminating

\* Whatever edits run beside a call and whichever of its hooks fail: a function
\* registered throughout runs, one that runs was registered at some time in the
\* call, and all named hooks of the level run.
THEOREM HooksRunInTheirWindow == Spec => []HookWindow
<1>1. Init => HookInv
  BY DEF Init, HookInv
<1>2. TypeInv /\ HookInv /\ [Next]_vars => HookInv'
  BY HookStep
<1>3. HookInv => HookWindow
  <2> SUFFICES ASSUME HookInv, NEW c \in Calls, pc[c] = "global", todo[c] = <<>>
               PROVE  /\ stay[c] \subseteq ToSet(ran[c])
                      /\ ToSet(ran[c]) \subseteq seen[c] \cup NamedHooks(c)
                      /\ NamedHooks(c) \subseteq ToSet(ran[c])
    BY DEF HookWindow
  <2>1. ToSet(todo[c]) = {}
    BY DEF ToSet
  <2> QED BY <2>1 DEF HookInv
<1> QED BY <1>1, <1>2, <1>3, TypeInvariant, PTL DEF Spec

-----------------------------------------------------------------------------
(* What Fatal waits for, and what does not wait in the queue. *)

LEMMA FlushStep ==
    ASSUME TypeInv, FlushInv, [Next]_vars
    PROVE  FlushInv'
<1> USE DEF TypeInv
<1> DEFINE Kept(c) == /\ \A d \in before[c] : pc[d] = "done"
                      /\ pc[c] \in {"sync", "await"} => Level[c] = Fatal
                      /\ pc[c] = "await" => \A l \in ToSet(pending) : l.call \in before[c] => l \in awaited[c]
<1>0. /\ FlushInv <=> ExitFlushes /\ \A c \in Calls : Kept(c)
      /\ FlushInv' <=> ExitFlushes' /\ \A c \in Calls : Kept(c)'
  BY DEF FlushInv
<1>1. ASSUME exited = "no", exited' = "no", UNCHANGED <<awaited, before>>,
             \A d \in Calls :
                /\ pc[d] = "done" => pc'[d] = "done"
                /\ pc'[d] \in {"sync", "await"} => Level[d] = Fatal
                /\ pc'[d] = "await" => pc[d] = "await",
             \A l \in ToSet(pending') : l \in ToSet(pending) \/ pc[l.call] # "done"
      PROVE  FlushInv'
  <2>1. ExitFlushes'
    BY <1>1 DEF ExitFlushes
  <2>2. ASSUME NEW c \in Calls PROVE Kept(c)'
    <3>1. Kept(c)
      BY <1>0
    <3>2. \A d \in before'[c] : pc'[d] = "done"
      BY <1>1, <3>1 DEF TypeOK
    <3>3. pc'[c] = "await" => \A l \in ToSet(pending') : l.call \in before'[c] => l \in awaited'[c]
      BY <1>1, <3>1
    <3> QED BY <1>1, <3>2, <3>3
  <2> QED BY <1>0, <2>1, <2>2
<1>2. ASSUME NEW c \in Calls,
             Filtered(c) \/ RunHook(c) \/ DispatchGlobal(c) \/ Encode(c) \/ EncodeFails(c) \/ Recycle(c)
      PROVE  FlushInv'
  <2>1. /\ exited = "no" /\ UNCHANGED <<exited, awaited, before, pending>>
        /\ pc[c] # "done" /\ pc'[c] \in {"done", "local", "global", "write", "sync"}
        /\ pc'[c] = "sync" => Level[c] = Fatal
        /\ \A d \in Calls : d # c => pc'[d] = pc[d]
    BY <1>2 DEF Filtered, RunHook, DispatchGlobal, Encode, HooksRan, EncodeFails, Recycle, NextItem,
                At, Goto, outVars, histVars, TypeOK
  <2>2. \A d \in Calls : pc[d] \in {"sync", "await"} => Level[d] = Fatal
    BY <1>0
  <2> QED BY <1>1, <2>1, <2>2
<1>3. ASSUME NEW c \in Calls, Begin(c) PROVE FlushInv'
  <2>1. /\ exited = "no" /\ UNCHANGED <<exited, awaited, pending>>
        /\ pc[c] = "idle" /\ pc'[c] = "local"
        /\ before'[c] = {d \in Calls : Level[c] = Fatal /\ pc[d] = "done"}
        /\ \A d \in Calls : d # c => pc'[d] = pc[d] /\ before'[d] = before[d]
    BY <1>3 DEF Begin, At, Goto, outVars, TypeOK
  <2>2. ExitFlushes'
    BY <2>1 DEF ExitFlushes
  <2>3. ASSUME NEW d \in Calls PROVE Kept(d)'
    <3>1. CASE d = c
      BY <2>1, <3>1
    <3>2. CASE d # c
      <4>1. Kept(d) /\ before[d] \subseteq Calls
        BY <1>0 DEF TypeOK
      <4> QED BY <2>1, <3>2, <4>1
    <3> QED BY <3>1, <3>2
  <2> QED BY <1>0, <2>2, <2>3
<1>4. ASSUME NEW c \in Calls, Write(c) PROVE FlushInv'
  <2>1. /\ exited = "no" /\ UNCHANGED <<exited, awaited, before>>
        /\ pc[c] = "write" /\ pc'[c] = "recycle"
        /\ \A d \in Calls : d # c => pc'[d] = pc[d]
    BY <1>4 DEF Write, At, Goto, histVars, TypeOK
  <2>2. PICK l : l = [call |-> c, item |-> Item(c), text |-> text[Buf(c)]]
    OBVIOUS
  <2>3. ToSet(pending') \subseteq ToSet(pending) \cup {l} /\ l.call = c
    BY <1>4, <2>2, WriteAddsOne
  <2>4. \A d \in Calls : pc[d] \in {"sync", "await"} => Level[d] = Fatal
    BY <1>0
  <2> QED BY <1>1, <2>1, <2>3, <2>4
<1>5. ASSUME NEW c \in Calls, SyncBegin(c) PROVE FlushInv'
  <2>1. /\ exited = "no" /\ UNCHANGED <<exited, before, pending>>
        /\ pc[c] = "sync" /\ pc'[c] = "await"
        /\ awaited'[c] = {l \in ToSet(pending) : Acknowledged(l)}
        /\ \A d \in Calls : d # c => pc'[d] = pc[d] /\ awaited'[d] = awaited[d]
    BY <1>5 DEF SyncBegin, At, Goto, histVars, TypeOK
  <2>2. ExitFlushes'
    BY <2>1 DEF ExitFlushes
  <2>3. ASSUME NEW d \in Calls PROVE Kept(d)'
    <3>1. Kept(d) /\ before[d] \subseteq Calls
      BY <1>0 DEF TypeOK
    <3>2. CASE d = c
      <4>1. \A l : l.call \in before[c] => Acknowledged(l)
        BY <3>1, <3>2 DEF Acknowledged
      <4> QED BY <2>1, <3>1, <3>2, <4>1
    <3>3. CASE d # c
      BY <2>1, <3>1, <3>3
    <3> QED BY <3>2, <3>3
  <2> QED BY <1>0, <2>2, <2>3
<1>6. ASSUME NEW c \in Calls, Exit(c) PROVE FlushInv'
  <2>1. /\ exited = "no" /\ UNCHANGED <<before, pending, awaited>>
        /\ pc[c] = "await" /\ pc'[c] = "done"
        /\ exited' = "clean" => awaited[c] \cap ToSet(pending) = {}
        /\ \A d \in Calls : d # c => pc'[d] = pc[d]
    BY <1>6 DEF Exit, At, Goto, histVars, TypeOK
  <2>2. ExitFlushes'
    <3>1. Kept(c)
      BY <1>0
    <3> QED BY <2>1, <3>1 DEF ExitFlushes
  <2>3. ASSUME NEW d \in Calls PROVE Kept(d)'
    <3>1. Kept(d) /\ before[d] \subseteq Calls
      BY <1>0 DEF TypeOK
    <3> QED BY <2>1, <3>1
  <2> QED BY <1>0, <2>2, <2>3
<1>7. CASE Deliver
  <2>1. /\ exited = "no" /\ UNCHANGED <<exited, awaited, before, pc>>
        /\ ToSet(pending') \subseteq ToSet(pending)
    BY <1>7, DeliverMovesOne DEF Deliver, callVars, histVars
  <2>2. \A d \in Calls : pc[d] \in {"sync", "await"} => Level[d] = Fatal
    BY <1>0
  <2> QED BY <1>1, <2>1, <2>2
<1>8. CASE (\E l \in Levels \cup {InvalidLevel} : SetLevel(l)) \/ EditDuringCalls \/ UNCHANGED vars
  <2>1. UNCHANGED <<exited, awaited, before, pc, pending>>
    BY <1>8 DEF SetLevel, EditDuringCalls, vars, callVars, outVars, histVars
  <2> QED BY <2>1 DEF FlushInv, ExitFlushes
<1> QED BY <1>2, <1>3, <1>4, <1>5, <1>6, <1>7, <1>8 DEF Next, Step, Terminating

\* When a Fatal ends the process after a good Sync, no line of a call that had
\* returned before it began is left in the queue.
THEOREM FatalFlushes == Spec => []ExitFlushes
<1>1. Init => FlushInv
  <2> SUFFICES ASSUME Init PROVE FlushInv
    OBVIOUS
  <2> QED BY DEF Init, FlushInv, ExitFlushes
<1>2. TypeInv /\ FlushInv /\ [Next]_vars => FlushInv'
  BY FlushStep
<1>3. FlushInv => ExitFlushes
  BY DEF FlushInv
<1> QED BY <1>1, <1>2, <1>3, TypeInvariant, PTL DEF Spec
-----------------------------------------------------------------------------
(* Counting: a set that may gain an element, and the places of a list.       *)

LEMMA Gains ==
    ASSUME NEW S, IsFiniteSet(S), NEW e, NEW T, S \subseteq T, T \subseteq S \cup {e}
    PROVE  /\ IsFiniteSet(T) /\ Cardinality(S) \in Nat /\ Cardinality(T) \in Nat
           /\ Cardinality(S) <= Cardinality(T) /\ Cardinality(T) <= Cardinality(S) + 1
           /\ e \in T => Cardinality(T) >= 1
           /\ T # S => Cardinality(T) = Cardinality(S) + 1
<1>1. Cardinality(S) \in Nat /\ IsFiniteSet(S \cup {e})
      /\ Cardinality(S \cup {e}) = IF e \in S THEN Cardinality(S) ELSE Cardinality(S) + 1
  BY FS_CardinalityType, FS_AddElement
<1>2. e \in S => Cardinality(S) # 0
  BY FS_EmptySet
<1>3. CASE T = S
  BY <1>1, <1>2, <1>3
<1>4. CASE T # S
  <2>1. T = S \cup {e} /\ e \notin S
    BY <1>4
  <2>2. Cardinality(T) = Cardinality(S) + 1
    BY <1>1, <2>1
  <2> QED BY <1>1, <2>1, <2>2
<1> QED BY <1>3, <1>4

\* The places of a list where it holds one of some elements.
Places(list, some) == {i \in DOMAIN list : list[i] \in some}

LEMMA PlacesFinite ==
    ASSUME NEW S, NEW list \in Seq(S), NEW some
    PROVE  IsFiniteSet(Places(list, some)) /\ Cardinality(Places(list, some)) \in Nat
<1>1. Len(list) \in Nat /\ DOMAIN list = 1 .. Len(list)
  OBVIOUS
<1>2. 1 \in Int /\ Len(list) \in Int
  BY <1>1
<1>3. IsFiniteSet(1 .. Len(list))
  BY <1>2, FS_Interval
<1>4. Places(list, some) \in SUBSET (1 .. Len(list))
  BY <1>1 DEF Places
<1> QED BY <1>3, <1>4, FS_Subset, FS_CardinalityType

LEMMA PlacesAppend ==
    ASSUME NEW S, NEW list \in Seq(S), NEW x \in S, NEW some
    PROVE  /\ Cardinality(Places(list, some)) \in Nat
           /\ Cardinality(Places(Append(list, x), some)) =
                Cardinality(Places(list, some)) + IF x \in some THEN 1 ELSE 0
<1> DEFINE new == Append(list, x)
           n == Len(list)
<1>1. /\ n \in Nat /\ DOMAIN list = 1 .. n /\ DOMAIN new = 1 .. n + 1
      /\ new[n + 1] = x /\ \A i \in 1 .. n : new[i] = list[i]
  BY AppendProperties
<1>2. 1 .. n + 1 = (1 .. n) \cup {n + 1} /\ n + 1 \notin 1 .. n
  BY <1>1
<1> HIDE DEF new, n
<1>3. /\ Places(new, some) = Places(list, some) \cup (IF x \in some THEN {n + 1} ELSE {})
      /\ n + 1 \notin Places(list, some)
  BY <1>1, <1>2 DEF Places
<1>4. IsFiniteSet(Places(list, some)) /\ Cardinality(Places(list, some)) \in Nat
  BY PlacesFinite
<1>5. Cardinality(Places(list, some) \cup {n + 1}) = Cardinality(Places(list, some)) + 1
  BY <1>3, <1>4, FS_AddElement
<1>6. CASE x \in some
  BY <1>3, <1>4, <1>5, <1>6 DEF new
<1>7. CASE x \notin some
  BY <1>3, <1>4, <1>7 DEF new
<1> QED BY <1>6, <1>7

LEMMA PlacesTail ==
    ASSUME NEW S, NEW list \in Seq(S), list # <<>>, NEW some
    PROVE  /\ Cardinality(Places(Tail(list), some)) \in Nat
           /\ Cardinality(Places(list, some)) =
                Cardinality(Places(Tail(list), some)) + IF Head(list) \in some THEN 1 ELSE 0
<1> DEFINE rest == Tail(list)
           n == Len(list)
           old == Places(list, some)
           new == Places(rest, some)
           shift == [i \in new |-> i + 1]
<1>1. /\ rest \in Seq(S) /\ Len(rest) = n - 1 /\ \A i \in 1 .. Len(rest) : rest[i] = list[i + 1]
      /\ n \in Nat \ {0} /\ Head(list) = list[1] /\ DOMAIN list = 1 .. n
  BY HeadTailProperties
<1>2. DOMAIN rest = 1 .. n - 1
  BY <1>1
<1>3. IsFiniteSet(new) /\ Cardinality(new) \in Nat
  BY <1>1, PlacesFinite
<1>4. IsFiniteSet(old) /\ Cardinality(old) \in Nat
  BY PlacesFinite
<1> HIDE DEF rest, n
<1>5. \A i \in new : i \in 1 .. n - 1 /\ i + 1 \in old \ {1}
  BY <1>1, <1>2 DEF Places
<1>6. \A k \in old \ {1} : k - 1 \in new /\ k \in Int
  <2> SUFFICES ASSUME NEW k \in 1 .. n, k # 1, list[k] \in some
               PROVE  k - 1 \in new
    BY <1>1 DEF Places
  <2>1. k - 1 \in 1 .. n - 1 /\ rest[k - 1] = list[k]
    BY <1>1
  <2> QED BY <1>2, <2>1 DEF Places
<1> HIDE DEF old, new
<1>7. shift \in Bijection(new, old \ {1})
  <2>1. shift \in [new -> old \ {1}]
    BY <1>5
  <2>2. \A i, j \in new : shift[i] = shift[j] => i = j
    BY <1>5
  <2>3. \A k \in old \ {1} : \E i \in new : shift[i] = k
    BY <1>6
  <2> HIDE DEF shift
  <2> QED BY <2>1, <2>2, <2>3 DEF Bijection, Injection, Surjection, IsInjective
<1>8. Cardinality(old \ {1}) = Cardinality(new)
  BY <1>3, <1>7, FS_Bijection DEF ExistsBijection
<1>9. Cardinality(old \ {1}) = IF 1 \in old THEN Cardinality(old) - 1 ELSE Cardinality(old)
  BY <1>4, FS_RemoveElement
<1>10. 1 \in old <=> Head(list) \in some
  BY <1>1 DEF Places, old
<1> QED BY <1>3, <1>4, <1>8, <1>9, <1>10 DEF new, old, rest

-----------------------------------------------------------------------------
(* Fates.  Each of the four places where a fate lies is counted on its own.  *)

Is(l, c, item) == l.call = c /\ l.item = item

Queued(c, item) == Places(pending, {l \in Line : Is(l, c, item)})
Written(c, item) == {w \in Copies : Is(w[1], c, item)}
Dropped(c, item) == {l \in lost : Is(l, c, item)}
Erred(c, item) == {f \in failed : f[1] = c /\ f[2] = item}

FiniteFates == IsFiniteSet(Copies) /\ IsFiniteSet(lost) /\ IsFiniteSet(failed)

\* A part of a finite set has a number of elements.
LEMMA PartCounts ==
    ASSUME NEW S, IsFiniteSet(S), NEW T, T \subseteq S
    PROVE  IsFiniteSet(T) /\ Cardinality(T) \in Nat
<1>1. T \in SUBSET S
  OBVIOUS
<1> QED BY <1>1, FS_Subset, FS_CardinalityType

LEMMA FatesSum ==
    ASSUME TypeOK, FiniteFates, NEW c, NEW item
    PROVE  /\ Cardinality(Queued(c, item)) \in Nat /\ Cardinality(Written(c, item)) \in Nat
           /\ Cardinality(Dropped(c, item)) \in Nat /\ Cardinality(Erred(c, item)) \in Nat
           /\ Fates(c, item) = Cardinality(Queued(c, item)) + Cardinality(Written(c, item))
                               + Cardinality(Dropped(c, item)) + Cardinality(Erred(c, item))
<1>1. pending \in Seq(Line)
  BY DEF TypeOK
<1>2. Queued(c, item) = {i \in DOMAIN pending : pending[i].call = c /\ pending[i].item = item}
  BY <1>1 DEF Queued, Places, Is
<1>3. Cardinality(Queued(c, item)) \in Nat
  BY <1>1, PlacesFinite DEF Queued
<1>4. /\ Cardinality(Written(c, item)) \in Nat /\ Cardinality(Dropped(c, item)) \in Nat
      /\ Cardinality(Erred(c, item)) \in Nat
  BY PartCounts DEF FiniteFates, Written, Dropped, Erred
<1> QED BY <1>2, <1>3, <1>4 DEF Fates, Written, Dropped, Erred, Is

LEMMA FatesSumNext ==
    ASSUME TypeOK', FiniteFates', NEW c, NEW item
    PROVE  /\ Cardinality(Queued(c, item)') \in Nat /\ Cardinality(Written(c, item)') \in Nat
           /\ Cardinality(Dropped(c, item)') \in Nat /\ Cardinality(Erred(c, item)') \in Nat
           /\ Fates(c, item)' = Cardinality(Queued(c, item)') + Cardinality(Written(c, item)')
                                + Cardinality(Dropped(c, item)') + Cardinality(Erred(c, item)')
<1>1. pending' \in Seq(Line)
  BY DEF TypeOK
<1>2. Queued(c, item)' = {i \in DOMAIN pending' : pending'[i].call = c /\ pending'[i].item = item}
  BY <1>1 DEF Queued, Places, Is
<1>3. Cardinality(Queued(c, item)') \in Nat
  BY <1>1, PlacesFinite DEF Queued
<1>4. /\ Cardinality(Written(c, item)') \in Nat /\ Cardinality(Dropped(c, item)') \in Nat
      /\ Cardinality(Erred(c, item)') \in Nat
  BY PartCounts DEF FiniteFates, Written, Dropped, Erred
<1> QED BY <1>2, <1>3, <1>4 DEF Fates, Written, Dropped, Erred, Is

\* A written line is one copy more of it.
LEMMA CopiesGain ==
    ASSUME TypeOK, NEW l \in Line, out' = out (+) SetToBag({l})
    PROVE  \E e : e[1] = l /\ e \notin Copies /\ Copies' = Copies \cup {e}
<1>1. /\ IsABag(out) /\ DOMAIN out' = DOMAIN out \cup {l}
      /\ \A m \in DOMAIN out : m # l => out'[m] = out[m]
      /\ out'[l] = IF l \in DOMAIN out THEN out[l] + 1 ELSE 1
  BY BagTyped DEF TypeOK
<1>2. \A m \in DOMAIN out : out[m] \in Nat
  BY <1>1 DEF IsABag
<1>3. PICK n \in Nat \ {0} : /\ out'[l] = n
                             /\ l \in DOMAIN out => out[l] = n - 1
                             /\ l \notin DOMAIN out => n = 1
  BY <1>1, <1>2
<1> DEFINE e == <<l, n>>
<1>4. \A m, i : <<m, i>> \in Copies <=> m \in DOMAIN out /\ i \in 1 .. out[m]
  BY DEF Copies
<1>5. \A m, i : <<m, i>> \in Copies' <=> m \in DOMAIN out' /\ i \in 1 .. out'[m]
  BY DEF Copies
<1>6. \A w : w \in Copies \/ w \in Copies' => w = <<w[1], w[2]>>
  BY DEF Copies
<1>7. e \notin Copies
  BY <1>3, <1>4
<1>8. \A m, i : <<m, i>> \in Copies' <=> <<m, i>> \in Copies \/ <<m, i>> = e
  <2> SUFFICES ASSUME NEW m, NEW i
               PROVE  <<m, i>> \in Copies' <=> <<m, i>> \in Copies \/ (m = l /\ i = n)
    OBVIOUS
  <2>1. CASE m # l
    BY <1>1, <1>4, <1>5, <2>1
  <2>2. CASE m = l /\ l \in DOMAIN out
    <3>1. i \in 1 .. n <=> i \in 1 .. (n - 1) \/ i = n
      OBVIOUS
    <3> QED BY <1>1, <1>3, <1>4, <1>5, <2>2, <3>1
  <2>3. CASE m = l /\ l \notin DOMAIN out
    <3>1. i \in 1 .. 1 <=> i = 1
      OBVIOUS
    <3> QED BY <1>1, <1>3, <1>4, <1>5, <2>3, <3>1
  <2> QED BY <2>1, <2>2, <2>3
<1>9. Copies' = Copies \cup {e}
  <2>1. \A w \in Copies' : w \in Copies \cup {e}
    BY <1>6, <1>8
  <2>2. \A w \in Copies \cup {e} : w \in Copies'
    BY <1>6, <1>8
  <2> QED BY <2>1, <2>2
<1> QED BY <1>7, <1>9

\* What a step that adds a line to one of the places adds to the fates there.
LEMMA QueuedAppend ==
    ASSUME TypeOK, NEW l \in Line, pending' = Append(pending, l), NEW c, NEW item
    PROVE  Cardinality(Queued(c, item)') = Cardinality(Queued(c, item)) + IF Is(l, c, item) THEN 1 ELSE 0
<1>1. pending \in Seq(Line)
  BY DEF TypeOK
<1>2. PICK some : some = {m \in Line : Is(m, c, item)}
  OBVIOUS
<1>3. Cardinality(Places(Append(pending, l), some)) = Cardinality(Places(pending, some)) + IF l \in some THEN 1 ELSE 0
  BY <1>1, PlacesAppend
<1>4. l \in some <=> Is(l, c, item)
  BY <1>2
<1>5. Queued(c, item) = Places(pending, some) /\ Queued(c, item)' = Places(Append(pending, l), some)
  BY <1>2 DEF Queued, Is, Places
<1> QED BY <1>3, <1>4, <1>5

LEMMA QueuedTail ==
    ASSUME TypeOK, pending # <<>>, NEW l, l = Head(pending), pending' = Tail(pending), NEW c, NEW item
    PROVE  /\ Cardinality(Queued(c, item)') \in Nat
           /\ Cardinality(Queued(c, item)) = Cardinality(Queued(c, item)') + IF Is(l, c, item) THEN 1 ELSE 0
<1>1. pending \in Seq(Line)
  BY DEF TypeOK
<1>2. PICK some : some = {m \in Line : Is(m, c, item)}
  OBVIOUS
<1>3. /\ Cardinality(Places(Tail(pending), some)) \in Nat
      /\ Cardinality(Places(pending, some)) = Cardinality(Places(Tail(pending), some)) + IF l \in some THEN 1 ELSE 0
  BY <1>1, PlacesTail
<1>4. l \in some <=> Is(l, c, item)
  BY <1>1, <1>2, FirstAndRest
<1>5. Queued(c, item) = Places(pending, some) /\ Queued(c, item)' = Places(Tail(pending), some)
  BY <1>2 DEF Queued, Is, Places
<1> QED BY <1>3, <1>4, <1>5

LEMMA WrittenGains ==
    ASSUME TypeOK, FiniteFates, NEW l \in Line, out' = out (+) SetToBag({l}), NEW c, NEW item
    PROVE  /\ IsFiniteSet(Copies')
           /\ Cardinality(Written(c, item)') = Cardinality(Written(c, item)) + IF Is(l, c, item) THEN 1 ELSE 0
<1>1. PICK e : e[1] = l /\ e \notin Copies /\ Copies' = Copies \cup {e}
  BY CopiesGain
<1>2. IsFiniteSet(Copies')
  BY <1>1, FS_AddElement DEF FiniteFates
<1>3. IsFiniteSet(Written(c, item)) /\ Cardinality(Written(c, item)) \in Nat
  BY PartCounts DEF FiniteFates, Written
<1>4. CASE Is(l, c, item)
  <2>1. Written(c, item)' = Written(c, item) \cup {e} /\ e \notin Written(c, item)
    BY <1>1, <1>4 DEF Written, Is
  <2>2. Cardinality(Written(c, item) \cup {e}) = Cardinality(Written(c, item)) + 1
    BY <1>3, <2>1, FS_AddElement
  <2> QED BY <1>2, <1>4, <2>1, <2>2
<1>5. CASE ~Is(l, c, item)
  <2>1. Written(c, item)' = Written(c, item)
    BY <1>1, <1>5 DEF Written, Is
  <2> QED BY <1>2, <1>3, <1>5, <2>1
<1> QED BY <1>4, <1>5

\* The same line may have been dropped before, the same error met before.
LEMMA DroppedGains ==
    ASSUME FiniteFates, NEW l, lost' = lost \cup {l}, NEW c, NEW item
    PROVE  /\ IsFiniteSet(lost')
           /\ Cardinality(Dropped(c, item)) <= Cardinality(Dropped(c, item)')
           /\ Cardinality(Dropped(c, item)') <= Cardinality(Dropped(c, item)) + 1
           /\ Is(l, c, item) => Cardinality(Dropped(c, item)') >= 1
           /\ ~Is(l, c, item) => Dropped(c, item)' = Dropped(c, item)
<1>1. IsFiniteSet(lost')
  BY FS_AddElement DEF FiniteFates
<1>2. IsFiniteSet(Dropped(c, item))
  BY PartCounts DEF FiniteFates, Dropped
<1>3. /\ Dropped(c, item) \subseteq Dropped(c, item)' /\ Dropped(c, item)' \subseteq Dropped(c, item) \cup {l}
      /\ Is(l, c, item) => l \in Dropped(c, item)'
      /\ ~Is(l, c, item) => Dropped(c, item)' = Dropped(c, item)
  BY DEF Dropped, Is
<1> QED BY <1>1, <1>2, <1>3, Gains

LEMMA ErredGains ==
    ASSUME FiniteFates, NEW f, failed' = failed \cup {f}, NEW c, NEW item
    PROVE  /\ IsFiniteSet(failed')
           /\ Cardinality(Erred(c, item)) <= Cardinality(Erred(c, item)')
           /\ Cardinality(Erred(c, item)') <= Cardinality(Erred(c, item)) + 1
           /\ f[1] = c /\ f[2] = item => Cardinality(Erred(c, item)') >= 1
           /\ ~(f[1] = c /\ f[2] = item) => Erred(c, item)' = Erred(c, item)
<1>1. IsFiniteSet(failed')
  BY FS_AddElement DEF FiniteFates
<1>2. IsFiniteSet(Erred(c, item))
  BY PartCounts DEF FiniteFates, Erred
<1>3. /\ Erred(c, item) \subseteq Erred(c, item)' /\ Erred(c, item)' \subseteq Erred(c, item) \cup {f}
      /\ f[1] = c /\ f[2] = item => f \in Erred(c, item)'
      /\ ~(f[1] = c /\ f[2] = item) => Erred(c, item)' = Erred(c, item)
  BY DEF Erred
<1> QED BY <1>1, <1>2, <1>3, Gains

\* A step lets what has a fate keep one, or gives one more.
Kept(c, item) ==
    /\ Fates(c, item) \in Nat /\ Fates(c, item)' \in Nat
    /\ Fates(c, item)' <= Fates(c, item)
    /\ Fates(c, item) >= 1 => Fates(c, item)' >= 1
Raised(c, item) ==
    /\ Fates(c, item) \in Nat /\ Fates(c, item)' \in Nat
    /\ 1 <= Fates(c, item)' /\ Fates(c, item)' <= Fates(c, item) + 1
OneFateMore(c) == \A d \in Calls, x \in Items : IF d = c /\ x = Item(c) THEN Raised(d, x) ELSE Kept(d, x)

LEMMA NoFatesChange ==
    ASSUME TypeOK, FiniteFates, UNCHANGED <<pending, out, lost, failed>>
    PROVE  FiniteFates' /\ \A c \in Calls, x \in Items : Kept(c, x) /\ Fates(c, x)' = Fates(c, x)
<1>1. FiniteFates'
  BY DEF FiniteFates, Copies
<1>2. ASSUME NEW c \in Calls, NEW x \in Items PROVE Kept(c, x) /\ Fates(c, x)' = Fates(c, x)
  <2>1. Fates(c, x)' = Fates(c, x)
    BY DEF Fates, Copies
  <2>2. PICK q \in Nat, w \in Nat, d \in Nat, f \in Nat : Fates(c, x) = q + w + d + f
    BY FatesSum
  <2>3. Fates(c, x) \in Nat
    BY <2>2
  <2> QED BY <2>1, <2>3 DEF Kept
<1> QED BY <1>1, <1>2

\* The numbers that make up the fates of one item, before and after a step.
Counts(c, x, q, w, d, f) ==
    /\ q = Cardinality(Queued(c, x)) /\ w = Cardinality(Written(c, x))
    /\ d = Cardinality(Dropped(c, x)) /\ f = Cardinality(Erred(c, x))
    /\ Fates(c, x) = q + w + d + f

LEMMA FatesCounted ==
    ASSUME TypeOK, FiniteFates, NEW c, NEW x
    PROVE  \E q \in Nat, w \in Nat, d \in Nat, f \in Nat : Counts(c, x, q, w, d, f)
<1>1. PICK q \in Nat : q = Cardinality(Queued(c, x))
  BY FatesSum
<1>2. PICK w \in Nat : w = Cardinality(Written(c, x))
  BY FatesSum
<1>3. PICK d \in Nat : d = Cardinality(Dropped(c, x))
  BY FatesSum
<1>4. PICK f \in Nat : f = Cardinality(Erred(c, x))
  BY FatesSum
<1>5. Counts(c, x, q, w, d, f)
  BY <1>1, <1>2, <1>3, <1>4, FatesSum DEF Counts
<1> QED BY <1>5

LEMMA FatesCountedNext ==
    ASSUME TypeOK', FiniteFates', NEW c, NEW x
    PROVE  \E q \in Nat, w \in Nat, d \in Nat, f \in Nat : Counts(c, x, q, w, d, f)'
<1>1. PICK q \in Nat : q = Cardinality(Queued(c, x)')
  BY FatesSumNext
<1>2. PICK w \in Nat : w = Cardinality(Written(c, x)')
  BY FatesSumNext
<1>3. PICK d \in Nat : d = Cardinality(Dropped(c, x)')
  BY FatesSumNext
<1>4. PICK f \in Nat : f = Cardinality(Erred(c, x)')
  BY FatesSumNext
<1>5. Counts(c, x, q, w, d, f)'
  BY <1>1, <1>2, <1>3, <1>4, FatesSumNext DEF Counts
<1> QED BY <1>5

LEMMA DeliverFates ==
    ASSUME TypeOK, TypeOK', FiniteFates, Deliver
    PROVE  FiniteFates' /\ \A c \in Calls, x \in Items : Kept(c, x)
<1>1. pending \in Seq(Line) /\ pending # <<>> /\ pending' = Tail(pending) /\ UNCHANGED failed
  BY DEF Deliver, TypeOK
<1>2. PICK l \in Line : l = Head(pending)
  BY <1>1, FirstAndRest
<1>3. \/ out' = out (+) SetToBag({l}) /\ UNCHANGED lost
      \/ lost' = lost \cup {l} /\ UNCHANGED out
  BY <1>2 DEF Deliver
<1>4. FiniteFates'
  <2>1. CASE out' = out (+) SetToBag({l}) /\ UNCHANGED lost
    BY <1>1, <2>1, WrittenGains DEF FiniteFates
  <2>2. CASE lost' = lost \cup {l} /\ UNCHANGED out
    <3>1. IsFiniteSet(lost')
      BY <2>2, FS_AddElement DEF FiniteFates
    <3> QED BY <1>1, <2>2, <3>1 DEF FiniteFates, Copies
  <2> QED BY <1>3, <2>1, <2>2
<1>5. ASSUME NEW c \in Calls, NEW x \in Items PROVE Kept(c, x)
  <2>0. PICK q \in Nat, w \in Nat, d \in Nat, f \in Nat : Counts(c, x, q, w, d, f)
    BY FatesCounted
  <2>10. PICK q1 \in Nat, w1 \in Nat, d1 \in Nat, f1 \in Nat : Counts(c, x, q1, w1, d1, f1)'
    BY <1>4, FatesCountedNext
  <2>1. /\ q = Cardinality(Queued(c, x)) /\ q1 = Cardinality(Queued(c, x)')
        /\ w = Cardinality(Written(c, x)) /\ w1 = Cardinality(Written(c, x)')
        /\ d = Cardinality(Dropped(c, x)) /\ d1 = Cardinality(Dropped(c, x)')
        /\ f = Cardinality(Erred(c, x)) /\ f1 = Cardinality(Erred(c, x)')
        /\ Fates(c, x) = q + w + d + f /\ Fates(c, x)' = q1 + w1 + d1 + f1
    BY <2>0, <2>10 DEF Counts
  <2>2. q = q1 + IF Is(l, c, x) THEN 1 ELSE 0
    BY <1>1, <1>2, <2>1, QueuedTail
  <2>3. f1 = f
    BY <1>1, <2>1 DEF Erred
  <2>4. CASE out' = out (+) SetToBag({l}) /\ UNCHANGED lost
    <3>1. w1 = w + IF Is(l, c, x) THEN 1 ELSE 0
      BY <2>1, <2>4, WrittenGains
    <3>2. d1 = d
      BY <2>1, <2>4 DEF Dropped
    <3> QED BY <2>1, <2>2, <2>3, <3>1, <3>2 DEF Kept
  <2>5. CASE lost' = lost \cup {l} /\ UNCHANGED out
    <3>1. w1 = w
      BY <2>1, <2>5 DEF Written, Copies
    <3>2. d <= d1 /\ d1 <= d + 1 /\ (Is(l, c, x) => d1 >= 1) /\ (~Is(l, c, x) => d1 = d)
      BY <2>1, <2>5, DroppedGains
    <3> QED BY <2>1, <2>2, <2>3, <3>1, <3>2 DEF Kept
  <2> QED BY <1>3, <2>4, <2>5
<1> QED BY <1>4, <1>5

LEMMA EncodeFates ==
    ASSUME TypeOK, TypeOK', FiniteFates, NEW c \in Calls, EncodeFails(c)
    PROVE  FiniteFates' /\ OneFateMore(c)
<1>0. PICK g : g = <<c, Item(c), "encode">>
  OBVIOUS
<1>1. UNCHANGED <<pending, out, lost>> /\ failed' = failed \cup {g} /\ g[1] = c /\ g[2] = Item(c)
  BY <1>0 DEF EncodeFails
<1>2. FiniteFates'
  BY <1>1, FS_AddElement DEF FiniteFates, Copies
<1>3. ASSUME NEW e \in Calls, NEW x \in Items
      PROVE  IF e = c /\ x = g[2] THEN Raised(e, x) ELSE Kept(e, x)
  <2>0. PICK q \in Nat, w \in Nat, d \in Nat, f \in Nat : Counts(e, x, q, w, d, f)
    BY FatesCounted
  <2>10. PICK q1 \in Nat, w1 \in Nat, d1 \in Nat, f1 \in Nat : Counts(e, x, q1, w1, d1, f1)'
    BY <1>2, FatesCountedNext
  <2>1. /\ q = Cardinality(Queued(e, x)) /\ q1 = Cardinality(Queued(e, x)')
        /\ w = Cardinality(Written(e, x)) /\ w1 = Cardinality(Written(e, x)')
        /\ d = Cardinality(Dropped(e, x)) /\ d1 = Cardinality(Dropped(e, x)')
        /\ f = Cardinality(Erred(e, x)) /\ f1 = Cardinality(Erred(e, x)')
        /\ Fates(e, x) = q + w + d + f /\ Fates(e, x)' = q1 + w1 + d1 + f1
    BY <2>0, <2>10 DEF Counts
  <2>2. q1 = q /\ w1 = w /\ d1 = d
    BY <1>1, <2>1 DEF Queued, Written, Dropped, Copies
  <2>3. /\ f <= f1 /\ f1 <= f + 1 /\ (g[1] = e /\ g[2] = x => f1 >= 1)
        /\ ~(g[1] = e /\ g[2] = x) => f1 = f
    BY <1>1, <2>1, ErredGains
  <2> QED BY <1>1, <2>1, <2>2, <2>3 DEF Kept, Raised
<1> QED BY <1>1, <1>2, <1>3 DEF OneFateMore

\* A full queue drops its oldest line for the new one.
LEMMA QueuedOverflow ==
    ASSUME TypeOK, pending # <<>>, NEW old, old = Head(pending), NEW l \in Line,
           pending' = Append(Tail(pending), l), NEW c, NEW item
    PROVE  \E n \in Nat :
              /\ Cardinality(Queued(c, item)) = n + IF Is(old, c, item) THEN 1 ELSE 0
              /\ Cardinality(Queued(c, item)') = n + IF Is(l, c, item) THEN 1 ELSE 0
<1>1. pending \in Seq(Line)
  BY DEF TypeOK
<1>2. PICK some : some = {m \in Line : Is(m, c, item)}
  OBVIOUS
<1>3. PICK rest \in Seq(Line) : rest = Tail(pending)
  BY <1>1, FirstAndRest
<1>4. PICK n \in Nat : n = Cardinality(Places(rest, some))
  BY PlacesFinite
<1>5. Cardinality(Places(pending, some)) = n + IF old \in some THEN 1 ELSE 0
  BY <1>1, <1>3, <1>4, PlacesTail
<1>6. Cardinality(Places(Append(rest, l), some)) = n + IF l \in some THEN 1 ELSE 0
  BY <1>4, PlacesAppend
<1>7. (old \in some <=> Is(old, c, item)) /\ (l \in some <=> Is(l, c, item))
  BY <1>1, <1>2, FirstAndRest
<1>8. Queued(c, item) = Places(pending, some) /\ Queued(c, item)' = Places(Append(rest, l), some)
  BY <1>2, <1>3 DEF Queued, Is, Places
<1> QED BY <1>5, <1>6, <1>7, <1>8

LEMMA WriteFates ==
    ASSUME TypeInv, TypeOK', FiniteFates, NEW c \in Calls, Write(c)
    PROVE  FiniteFates' /\ OneFateMore(c)
<1> USE DEF TypeInv
<1>1. PICK l : l = [call |-> c, item |-> Item(c), text |-> text[Buf(c)]]
  OBVIOUS
<1>2. l \in Line /\ l.call = c /\ l.item = Item(c)
  BY <1>1, WriteAddsOne
<1>3. PICK g : g = <<c, Item(c), "write">>
  OBVIOUS
<1>4. g[1] = c /\ g[2] = l.item
  BY <1>2, <1>3
<1> DEFINE Goes   == out' = out (+) SetToBag({l}) /\ UNCHANGED <<pending, lost, failed>>
           Waits  == pending' = Append(pending, l) /\ UNCHANGED <<out, lost, failed>>
           Drops  == lost' = lost \cup {l} /\ UNCHANGED <<pending, out, failed>>
           Shifts == /\ pending # <<>> /\ pending' = Append(Tail(pending), l)
                     /\ lost' = lost \cup {Head(pending)} /\ UNCHANGED <<out, failed>>
           Errs   == failed' = failed \cup {g} /\ UNCHANGED <<pending, out, lost>>
<1>5. Goes \/ Waits \/ Drops \/ Shifts \/ Errs
  BY <1>1, <1>3 DEF Write
<1>6. FiniteFates'
  <2>1. Goes => IsFiniteSet(Copies')
    BY <1>2, WrittenGains
  <2>2. IsFiniteSet(lost') /\ IsFiniteSet(failed')
    BY <1>5, FS_AddElement DEF FiniteFates
  <2>3. ~Goes => IsFiniteSet(Copies')
    BY <1>5 DEF FiniteFates, Copies
  <2> QED BY <2>1, <2>2, <2>3 DEF FiniteFates
<1>7. ASSUME NEW e \in Calls, NEW x \in Items
      PROVE  IF Is(l, e, x) THEN Raised(e, x) ELSE Kept(e, x)
  <2>1. PICK q \in Nat, w \in Nat, d \in Nat, f \in Nat : Counts(e, x, q, w, d, f)
    BY FatesCounted
  <2>2. PICK q1 \in Nat, w1 \in Nat, d1 \in Nat, f1 \in Nat : Counts(e, x, q1, w1, d1, f1)'
    BY <1>6, FatesCountedNext
  <2>3. /\ q = Cardinality(Queued(e, x)) /\ q1 = Cardinality(Queued(e, x)')
        /\ w = Cardinality(Written(e, x)) /\ w1 = Cardinality(Written(e, x)')
        /\ d = Cardinality(Dropped(e, x)) /\ d1 = Cardinality(Dropped(e, x)')
        /\ f = Cardinality(Erred(e, x)) /\ f1 = Cardinality(Erred(e, x)')
        /\ Fates(e, x) = q + w + d + f /\ Fates(e, x)' = q1 + w1 + d1 + f1
    BY <2>1, <2>2 DEF Counts
  <2>4. /\ UNCHANGED pending => q1 = q
        /\ UNCHANGED out => w1 = w
        /\ UNCHANGED lost => d1 = d
        /\ UNCHANGED failed => f1 = f
    BY <2>3 DEF Queued, Written, Dropped, Erred, Copies
  <2>5. CASE Goes
    <3>1. w1 = w + IF Is(l, e, x) THEN 1 ELSE 0
      BY <1>2, <2>3, <2>5, WrittenGains
    <3>2. q1 = q /\ d1 = d /\ f1 = f
      BY <2>4, <2>5
    <3> QED BY <2>3, <3>1, <3>2 DEF Kept, Raised
  <2>6. CASE Waits
    <3>1. q1 = q + IF Is(l, e, x) THEN 1 ELSE 0
      BY <1>2, <2>3, <2>6, QueuedAppend
    <3>2. w1 = w /\ d1 = d /\ f1 = f
      BY <2>4, <2>6
    <3> QED BY <2>3, <3>1, <3>2 DEF Kept, Raised
  <2>7. CASE Drops
    <3>1. d <= d1 /\ d1 <= d + 1 /\ (Is(l, e, x) => d1 >= 1) /\ (~Is(l, e, x) => d1 = d)
      BY <2>3, <2>7, DroppedGains
    <3>2. q1 = q /\ w1 = w /\ f1 = f
      BY <2>4, <2>7
    <3> QED BY <2>3, <3>1, <3>2 DEF Kept, Raised
  <2>8. CASE Shifts
    <3>1. PICK old : old = Head(pending)
      OBVIOUS
    <3>2. PICK n \in Nat : /\ Cardinality(Queued(e, x)) = n + IF Is(old, e, x) THEN 1 ELSE 0
                           /\ Cardinality(Queued(e, x)') = n + IF Is(l, e, x) THEN 1 ELSE 0
      BY <1>2, <2>8, <3>1, QueuedOverflow
    <3>3. q = n + (IF Is(old, e, x) THEN 1 ELSE 0) /\ q1 = n + (IF Is(l, e, x) THEN 1 ELSE 0)
      BY <2>3, <3>2
    <3>4. d <= d1 /\ d1 <= d + 1 /\ (Is(old, e, x) => d1 >= 1) /\ (~Is(old, e, x) => d1 = d)
      BY <2>3, <2>8, <3>1, DroppedGains
    <3>5. w1 = w /\ f1 = f
      BY <2>4, <2>8
    <3> QED BY <2>3, <3>3, <3>4, <3>5 DEF Kept, Raised
  <2>9. CASE Errs
    <3>1. /\ f <= f1 /\ f1 <= f + 1 /\ (g[1] = e /\ g[2] = x => f1 >= 1)
          /\ ~(g[1] = e /\ g[2] = x) => f1 = f
      BY <2>3, <2>9, ErredGains
    <3>2. Is(l, e, x) <=> g[1] = e /\ g[2] = x
      BY <1>2, <1>4 DEF Is
    <3>3. q1 = q /\ w1 = w /\ d1 = d
      BY <2>4, <2>9
    <3> QED BY <2>3, <3>1, <3>2, <3>3 DEF Kept, Raised
  <2> QED BY <1>5, <2>5, <2>6, <2>7, <2>8, <2>9
<1> QED BY <1>2, <1>6, <1>7 DEF OneFateMore, Is

LEMMA TimesGrow ==
    ASSUME NEW list \in Seq(Hooks), NEW x \in Hooks, NEW h
    PROVE  /\ Times(list, h) \in Nat
           /\ Times(Append(list, x), h) = Times(list, h) + IF x = h THEN 1 ELSE 0
<1>1. \A s : Times(s, h) = Cardinality(Places(s, {h}))
  BY DEF Times, Places
<1>2. /\ Cardinality(Places(list, {h})) \in Nat
      /\ Cardinality(Places(Append(list, x), {h})) =
            Cardinality(Places(list, {h})) + IF x \in {h} THEN 1 ELSE 0
  BY PlacesAppend
<1> QED BY <1>1, <1>2

LEMMA TimesShrink ==
    ASSUME NEW list \in Seq(Hooks), list # <<>>, NEW h
    PROVE  /\ Times(Tail(list), h) \in Nat
           /\ Times(list, h) = Times(Tail(list), h) + IF Head(list) = h THEN 1 ELSE 0
<1>1. \A s : Times(s, h) = Cardinality(Places(s, {h}))
  BY DEF Times, Places
<1>2. /\ Cardinality(Places(Tail(list), {h})) \in Nat
      /\ Cardinality(Places(list, {h})) =
            Cardinality(Places(Tail(list), {h})) + IF Head(list) \in {h} THEN 1 ELSE 0
  BY PlacesTail
<1> QED BY <1>1, <1>2

LEMMA ItemNames == "entry" \in Items /\ "entry" \notin Hooks /\ \A x \in Items : x = "entry" \/ x \in Hooks
BY LogAssumption DEF Items, Hooks

FateOf(c) ==
    /\ pc[c] = "idle" => extras[c] = <<>>
    /\ pc[c] \in {"idle", "local", "global", "write"} => Fates(c, "entry") = 0
    /\ pc[c] = "recycle" => Fates(c, "entry") = IF errs[c] = <<>> THEN 1 ELSE 0
    /\ pc[c] \in {"sync", "await"} \/ (pc[c] = "done" /\ extras[c] # <<>>) => Fates(c, "entry") = 1
    /\ \A h \in Hooks : Fates(c, h) + Times(Owed(c), h) <= Times(ran[c], h)

LEMMA FateByParts ==
    /\ FateInv <=> CriticalIsSynchronous /\ FiniteFates /\ \A c \in Calls : FateOf(c)
    /\ FateInv' <=> CriticalIsSynchronous' /\ FiniteFates' /\ \A c \in Calls : FateOf(c)'
<1>1. FateInv <=> CriticalIsSynchronous /\ FiniteFates /\ \A c \in Calls : FateOf(c)
  BY DEF FateInv, FiniteFates, FateOf
<1>2. FateInv' <=> CriticalIsSynchronous' /\ FiniteFates' /\ \A c \in Calls : FateOf(c)'
  BY DEF FateInv, FiniteFates, FateOf
<1> QED BY <1>1, <1>2

\* How often hooks are owed or have run are numbers.
LEMMA OwedTyped ==
    ASSUME TypeOK, NEW c \in Calls, NEW h
    PROVE  /\ Times(Owed(c), h) \in Nat /\ Times(ran[c], h) \in Nat /\ Times(errs[c], h) \in Nat
           /\ Owed(c) \in Seq(Hooks)
<1>1. errs[c] \in Seq(Hooks) /\ ran[c] \in Seq(Hooks)
  BY DEF TypeOK
<1>2. errs[c] # <<>> => Tail(errs[c]) \in Seq(Hooks)
  BY <1>1, FirstAndRest
<1>3. Owed(c) \in Seq(Hooks)
  BY <1>1, <1>2 DEF Owed
<1>4. \A list \in Seq(Hooks) : Times(list, h) \in Nat
  <2> SUFFICES ASSUME NEW list \in Seq(Hooks) PROVE Times(list, h) \in Nat
    OBVIOUS
  <2>1. Times(list, h) = Cardinality(Places(list, {h}))
    BY DEF Times, Places
  <2> QED BY <2>1, PlacesFinite
<1> QED BY <1>1, <1>3, <1>4

\* A call that gets no fate more keeps what is said of it, as it goes from label
\* to label.
LEMMA FateKept ==
    ASSUME TypeOK, FateInv, NEW d \in Calls, \A x \in Items : Kept(d, x),
           Owed(d)' = Owed(d), ran'[d] = ran[d], extras'[d] = extras[d] \/ pc'[d] = "local",
           \/ pc'[d] = pc[d] /\ errs'[d] = errs[d]
           \/ /\ pc[d] \in {"idle", "local", "global", "write"}
              /\ pc'[d] \in {"local", "global", "write"}
           \/ pc[d] = "recycle" /\ errs[d] = <<>> /\ pc'[d] \in {"sync", "done"}
           \/ pc[d] = "recycle" /\ errs[d] # <<>> /\ pc'[d] = "global"
           \/ pc[d] \in {"sync", "await"} /\ pc'[d] \in {"await", "done"}
           \/ pc[d] = "idle" /\ pc'[d] = "done"
    PROVE  FateOf(d)'
<1>1. FateOf(d)
  BY FateByParts
<1>2. PICK n \in Nat, m \in Nat : n = Fates(d, "entry") /\ m = Fates(d, "entry")'
  <2>1. Kept(d, "entry")
    BY ItemNames
  <2> QED BY <2>1 DEF Kept
<1>3. m <= n /\ (n >= 1 => m >= 1)
  <2>1. Kept(d, "entry")
    BY ItemNames
  <2> QED BY <1>2, <2>1 DEF Kept
<1>4. (n = 0 => m = 0) /\ (n = 1 => m = 1)
  BY <1>3
<1>5. ASSUME NEW h \in Hooks PROVE Fates(d, h)' + Times(Owed(d)', h) <= Times(ran'[d], h)
  <2>1. Kept(d, h)
    BY DEF Items
  <2>2. PICK p \in Nat, q \in Nat : p = Fates(d, h) /\ q = Fates(d, h)' /\ q <= p
    BY <2>1 DEF Kept
  <2>3. PICK o \in Nat, r \in Nat : o = Times(Owed(d), h) /\ r = Times(ran[d], h)
    BY OwedTyped
  <2>4. p + o <= r
    BY <1>1, <2>2, <2>3 DEF FateOf
  <2>5. Times(Owed(d)', h) = o /\ Times(ran'[d], h) = r
    BY <2>3
  <2> QED BY <2>2, <2>4, <2>5
<1>6. \A h \in Hooks : (Fates(d, h) + Times(Owed(d), h) <= Times(ran[d], h))'
  BY <1>5 DEF Times
<1> QED BY <1>1, <1>2, <1>4, <1>6 DEF FateOf

\* The call whose item gets its fate owes it no longer.
LEMMA FateRaised ==
    ASSUME TypeOK, FateInv, NEW c \in Calls, OneFateMore(c),
           ran'[c] = ran[c], extras'[c] = extras[c],
           pc[c] \in {"global", "write"},
           IF errs[c] = <<>>
           THEN errs'[c] = errs[c] /\ pc'[c] \in {"recycle", "done"}
           ELSE \/ errs'[c] = errs[c] /\ pc'[c] = "recycle"
                \/ errs'[c] = Tail(errs[c]) /\ pc'[c] = "global"
    PROVE  FateOf(c)'
<1>1. FateOf(c) /\ errs[c] \in Seq(Hooks)
  BY FateByParts DEF TypeOK
<1>2. Owed(c) = errs[c]
  BY DEF Owed
<1>3. CASE errs[c] = <<>>
  <2>1. Item(c) = "entry" /\ Owed(c)' = Owed(c)
    BY <1>2, <1>3 DEF Item, Owed
  <2>2. Raised(c, "entry") /\ \A h \in Hooks : Kept(c, h)
    BY <2>1, ItemNames DEF OneFateMore, Items
  <2>3. PICK m \in Nat : Fates(c, "entry")' = m /\ m = 1
    BY <1>1, <2>2 DEF FateOf, Raised
  <2>4. ASSUME NEW h \in Hooks PROVE Fates(c, h)' + Times(Owed(c)', h) <= Times(ran'[c], h)
    <3>1. PICK p \in Nat, q \in Nat : p = Fates(c, h) /\ q = Fates(c, h)' /\ q <= p
      BY <2>2 DEF Kept
    <3>2. PICK o \in Nat, r \in Nat : o = Times(Owed(c), h) /\ r = Times(ran[c], h)
      BY OwedTyped
    <3>3. p + o <= r
      BY <1>1, <3>1, <3>2 DEF FateOf
    <3>4. Times(Owed(c)', h) = o /\ Times(ran'[c], h) = r
      BY <2>1, <3>2
    <3> QED BY <3>1, <3>3, <3>4
  <2>5. \A h \in Hooks : (Fates(c, h) + Times(Owed(c), h) <= Times(ran[c], h))'
    BY <2>4 DEF Times
  <2> QED BY <1>3, <2>3, <2>5 DEF FateOf
<1>4. CASE errs[c] # <<>>
  <2>1. PICK k \in Hooks : k = Head(errs[c]) /\ Item(c) = k
    BY <1>1, <1>4, FirstAndRest DEF Item
  <2>2. Owed(c)' = Tail(errs[c])
    BY <1>4 DEF Owed
  <2>3. Kept(c, "entry") /\ \A h \in Hooks : IF h = k THEN Raised(c, h) ELSE Kept(c, h)
    BY <2>1, ItemNames DEF OneFateMore, Items
  <2>4. Fates(c, "entry")' = 0
    BY <1>1, <2>3 DEF FateOf, Kept
  <2>5. ASSUME NEW h \in Hooks PROVE Fates(c, h)' + Times(Owed(c)', h) <= Times(ran'[c], h)
    <3>1. PICK p \in Nat, q \in Nat : p = Fates(c, h) /\ q = Fates(c, h)' /\ q <= p + (IF k = h THEN 1 ELSE 0)
      BY <2>3 DEF Kept, Raised
    <3>2. PICK o \in Nat, r \in Nat : o = Times(errs[c], h) /\ r = Times(ran[c], h)
      BY OwedTyped
    <3>3. p + o <= r
      BY <1>1, <1>2, <3>1, <3>2 DEF FateOf
    <3>4. PICK u \in Nat : Times(Tail(errs[c]), h) = u /\ o = u + (IF k = h THEN 1 ELSE 0)
      BY <1>1, <1>4, <2>1, <3>2, TimesShrink
    <3>5. Times(Owed(c)', h) = u /\ Times(ran'[c], h) = r
      BY <2>2, <3>2, <3>4
    <3> QED BY <3>1, <3>3, <3>4, <3>5
  <2>6. \A h \in Hooks : (Fates(c, h) + Times(Owed(c), h) <= Times(ran[c], h))'
    BY <2>5 DEF Times
  <2>7. errs'[c] # <<>> \/ pc'[c] = "global"
    BY <1>4
  <2> QED BY <1>4, <2>4, <2>6, <2>7 DEF FateOf
<1> QED BY <1>3, <1>4

\* A hook that has run may have failed: its error is owed.
LEMMA FateHook ==
    ASSUME TypeOK, FateInv, NEW c \in Calls, NEW h \in Hooks,
           \A x \in Items : Kept(c, x),
           pc[c] \in {"local", "global"}, pc'[c] = pc[c], extras'[c] = extras[c],
           ran'[c] = Append(ran[c], h),
           errs'[c] = errs[c] \/ errs'[c] = Append(errs[c], h)
    PROVE  FateOf(c)'
<1>1. FateOf(c) /\ errs[c] \in Seq(Hooks) /\ ran[c] \in Seq(Hooks)
  BY FateByParts DEF TypeOK
<1>2. Owed(c) = errs[c] /\ Owed(c)' = errs'[c]
  BY DEF Owed
<1>3. Fates(c, "entry")' = 0
  <2>1. Kept(c, "entry")
    BY ItemNames
  <2> QED BY <1>1, <2>1 DEF Kept, FateOf
<1>4. ASSUME NEW x \in Hooks PROVE Fates(c, x)' + Times(Owed(c)', x) <= Times(ran'[c], x)
  <2>1. PICK p \in Nat, q \in Nat : p = Fates(c, x) /\ q = Fates(c, x)' /\ q <= p
    BY DEF Kept, Items
  <2>2. PICK o \in Nat, r \in Nat : o = Times(errs[c], x) /\ r = Times(ran[c], x)
    BY OwedTyped
  <2>3. p + o <= r
    BY <1>1, <1>2, <2>1, <2>2 DEF FateOf
  <2>4. Times(ran'[c], x) = r + (IF h = x THEN 1 ELSE 0)
    BY <1>1, <2>2, TimesGrow
  <2>5. Times(Append(errs[c], h), x) = o + (IF h = x THEN 1 ELSE 0)
    BY <1>1, <2>2, TimesGrow
  <2>6. Times(Owed(c)', x) = o \/ Times(Owed(c)', x) = o + (IF h = x THEN 1 ELSE 0)
    BY <1>2, <2>2, <2>5
  <2> QED BY <2>1, <2>3, <2>4, <2>6
<1>5. \A x \in Hooks : (Fates(c, x) + Times(Owed(c), x) <= Times(ran[c], x))'
  BY <1>4 DEF Times
<1> QED BY <1>3, <1>5 DEF FateOf

\* What is said of entries of error level holds of fewer lines too.
LEMMA CriticalKept ==
    ASSUME CriticalIsSynchronous, lost' \cup ToSet(pending') \subseteq lost \cup ToSet(pending)
    PROVE  CriticalIsSynchronous'
BY DEF CriticalIsSynchronous

LEMMA CriticalWrite ==
    ASSUME TypeInv, CriticalIsSynchronous, NEW c \in Calls, Write(c)
    PROVE  CriticalIsSynchronous'
<1> USE DEF TypeInv
<1>1. PICK l : l = [call |-> c, item |-> Item(c), text |-> text[Buf(c)]]
  OBVIOUS
<1>2. l.call = c /\ l.item = Item(c) /\ ToSet(pending') \subseteq ToSet(pending) \cup {l}
  BY <1>1, WriteAddsOne
<1>3. pending # <<>> => Head(pending) \in ToSet(pending)
  <2>1. pending \in Seq(Line)
    BY DEF TypeOK
  <2> QED BY <2>1, FirstAndRest
<1>4. CASE EnableAsync /\ ~Critical(c)
  <2>1. lost' \subseteq lost \cup {l} \cup ToSet(pending)
    BY <1>1, <1>3 DEF Write
  <2>2. l.item = "entry" => Level[l.call] < Error
    <3>1. Level[c] \in 0 .. 5
      BY LevelsAreFew
    <3> QED BY <1>2, <1>4, <3>1 DEF Critical, Error
  <2> QED BY <1>2, <2>1, <2>2 DEF CriticalIsSynchronous
<1>5. CASE ~(EnableAsync /\ ~Critical(c))
  <2>1. UNCHANGED <<pending, lost>>
    BY <1>5 DEF Write
  <2> QED BY <2>1, CriticalKept
<1> QED BY <1>4, <1>5

LEMMA CriticalDeliver ==
    ASSUME TypeInv, CriticalIsSynchronous, Deliver
    PROVE  CriticalIsSynchronous'
<1>1. pending \in Seq(Line) /\ pending # <<>>
  BY DEF Deliver, TypeInv, TypeOK
<1>2. Head(pending) \in ToSet(pending)
  BY <1>1, FirstAndRest
<1>3. lost' \subseteq lost \cup ToSet(pending)
  BY <1>2 DEF Deliver
<1> QED BY <1>3, CriticalKept, DeliverMovesOne

LEMMA FateStep ==
    ASSUME TypeInv, FateInv, [Next]_vars
    PROVE  FateInv'
<1> USE DEF TypeInv
<1>1. TypeOK'
  BY TypeStep
<1>2. CriticalIsSynchronous /\ FiniteFates /\ \A d \in Calls : FateOf(d)
  BY FateByParts
<1>3. ASSUME UNCHANGED <<pending, out, lost, failed>>
      PROVE  /\ CriticalIsSynchronous' /\ FiniteFates'
             /\ \A d \in Calls, x \in Items : Kept(d, x)
  BY <1>2, <1>3, NoFatesChange, CriticalKept
<1>4. ASSUME NEW c \in Calls, \A d \in Calls : d # c =>
                /\ \A x \in Items : Kept(d, x)
                /\ pc'[d] = pc[d] /\ errs'[d] = errs[d] /\ ran'[d] = ran[d] /\ extras'[d] = extras[d]
      PROVE  \A d \in Calls : d # c => FateOf(d)'
  <2> SUFFICES ASSUME NEW d \in Calls, d # c PROVE FateOf(d)'
    OBVIOUS
  <2>1. Owed(d)' = Owed(d)
    BY <1>4 DEF Owed
  <2> QED BY <1>4, <2>1, FateKept
<1>5. ASSUME NEW c \in Calls, Filtered(c) \/ Begin(c) \/ DispatchGlobal(c) \/ Encode(c) \/ SyncBegin(c) \/ Exit(c)
      PROVE  FateInv'
  <2>1. UNCHANGED <<pending, out, lost, failed, errs, ran>>
    BY <1>5 DEF Filtered, Begin, DispatchGlobal, Encode, SyncBegin, Exit, outVars
  <2>2. /\ extras'[c] = extras[c] \/ pc'[c] = "local"
        /\ \/ pc[c] = "idle" /\ pc'[c] \in {"local", "done"}
           \/ pc[c] \in {"local", "global"} /\ pc'[c] \in {"global", "write"}
           \/ pc[c] \in {"sync", "await"} /\ pc'[c] \in {"await", "done"}
        /\ \A d \in Calls : d # c => pc'[d] = pc[d] /\ extras'[d] = extras[d]
    BY <1>5 DEF Filtered, Begin, DispatchGlobal, Encode, HooksRan, SyncBegin, Exit, At, Goto, TypeOK
  <2>3. /\ CriticalIsSynchronous' /\ FiniteFates'
        /\ \A d \in Calls, x \in Items : Kept(d, x)
    BY <1>3, <2>1
  <2>4. Owed(c)' = Owed(c)
    BY <2>1, <2>2 DEF Owed
  <2>5. FateOf(c)'
    BY <2>1, <2>2, <2>3, <2>4, FateKept
  <2>6. \A d \in Calls : d # c => FateOf(d)'
    BY <1>4, <2>1, <2>2, <2>3
  <2> QED BY <2>3, <2>5, <2>6, FateByParts
<1>6. ASSUME NEW c \in Calls, RunHook(c) PROVE FateInv'
  <2>1. todo[c] \in Seq(Hooks) /\ todo[c] # <<>>
    BY <1>6 DEF RunHook, TypeOK
  <2>2. PICK h \in Hooks : h = Head(todo[c])
    BY <2>1, FirstAndRest
  <2>3. /\ UNCHANGED <<pending, out, lost, failed, pc, extras>> /\ pc[c] \in {"local", "global"}
        /\ ran'[c] = Append(ran[c], h)
        /\ errs'[c] = errs[c] \/ errs'[c] = Append(errs[c], h)
        /\ \A d \in Calls : d # c => ran'[d] = ran[d] /\ errs'[d] = errs[d]
    BY <1>6, <2>2 DEF RunHook, TypeOK
  <2>4. /\ CriticalIsSynchronous' /\ FiniteFates'
        /\ \A d \in Calls, x \in Items : Kept(d, x)
    BY <1>3, <2>3
  <2>5. FateOf(c)'
    BY <2>3, <2>4, FateHook
  <2>6. \A d \in Calls : d # c => FateOf(d)'
    BY <1>4, <2>3, <2>4
  <2> QED BY <2>4, <2>5, <2>6, FateByParts
<1>7. ASSUME NEW c \in Calls, EncodeFails(c) PROVE FateInv'
  <2>1. /\ UNCHANGED <<pending, out, lost, ran, extras>> /\ pc[c] = "global"
        /\ IF errs[c] = <<>>
           THEN errs'[c] = errs[c] /\ pc'[c] = "done"
           ELSE errs'[c] = Tail(errs[c]) /\ pc'[c] = "global"
        /\ \A d \in Calls : d # c => pc'[d] = pc[d] /\ errs'[d] = errs[d]
    <3>1. Item(c) = "entry" <=> errs[c] = <<>>
      BY ItemTyped DEF Item
    <3> QED BY <1>7, <3>1 DEF EncodeFails, HooksRan, NextItem, At, Goto, TypeOK
  <2>2. FiniteFates' /\ OneFateMore(c)
    BY <1>1, <1>2, <1>7, EncodeFates
  <2>3. CriticalIsSynchronous'
    BY <1>2, <2>1, CriticalKept
  <2>4. FateOf(c)'
    BY <2>1, <2>2, FateRaised
  <2>5. \A d \in Calls : d # c => FateOf(d)'
    BY <1>4, <2>1, <2>2 DEF OneFateMore
  <2> QED BY <2>2, <2>3, <2>4, <2>5, FateByParts
<1>8. ASSUME NEW c \in Calls, Write(c) PROVE FateInv'
  <2>1. /\ UNCHANGED <<errs, ran, extras>> /\ pc[c] = "write" /\ pc'[c] = "recycle"
        /\ \A d \in Calls : d # c => pc'[d] = pc[d]
    BY <1>8 DEF Write, At, Goto, TypeOK
  <2>2. FiniteFates' /\ OneFateMore(c)
    BY <1>1, <1>2, <1>8, WriteFates
  <2>3. CriticalIsSynchronous'
    BY <1>2, <1>8, CriticalWrite
  <2>4. FateOf(c)'
    BY <2>1, <2>2, FateRaised
  <2>5. \A d \in Calls : d # c => FateOf(d)'
    BY <1>4, <2>1, <2>2 DEF OneFateMore
  <2> QED BY <2>2, <2>3, <2>4, <2>5, FateByParts
<1>9. ASSUME NEW c \in Calls, Recycle(c) PROVE FateInv'
  <2>1. /\ UNCHANGED <<pending, out, lost, failed, ran, extras>> /\ pc[c] = "recycle"
        /\ IF errs[c] = <<>>
           THEN errs'[c] = errs[c] /\ pc'[c] \in {"sync", "done"}
           ELSE errs'[c] = Tail(errs[c]) /\ pc'[c] = "global"
        /\ \A d \in Calls : d # c => pc'[d] = pc[d] /\ errs'[d] = errs[d]
    <3>1. Item(c) = "entry" <=> errs[c] = <<>>
      BY ItemTyped DEF Item
    <3> QED BY <1>9, <3>1 DEF Recycle, NextItem, At, Goto, outVars, TypeOK
  <2>2. /\ CriticalIsSynchronous' /\ FiniteFates'
        /\ \A d \in Calls, x \in Items : Kept(d, x)
    BY <1>3, <2>1
  <2>3. Owed(c)' = Owed(c)
    BY <2>1 DEF Owed
  <2>4. FateOf(c)'
    BY <2>1, <2>2, <2>3, FateKept
  <2>5. \A d \in Calls : d # c => FateOf(d)'
    BY <1>4, <2>1, <2>2
  <2> QED BY <2>2, <2>4, <2>5, FateByParts
<1>10. ASSUME Deliver PROVE FateInv'
  <2>1. UNCHANGED <<pc, errs, ran, extras>>
    BY <1>10 DEF Deliver, callVars
  <2>2. FiniteFates' /\ \A d \in Calls, x \in Items : Kept(d, x)
    BY <1>1, <1>2, <1>10, DeliverFates
  <2>3. ASSUME NEW d \in Calls PROVE FateOf(d)'
    <3>1. Owed(d)' = Owed(d)
      BY <2>1 DEF Owed
    <3> QED BY <2>1, <2>2, <3>1, FateKept
  <2> QED BY <1>2, <1>10, <2>2, <2>3, CriticalDeliver, FateByParts
<1>11. CASE (\E l \in Levels \cup {InvalidLevel} : SetLevel(l)) \/ EditDuringCalls \/ UNCHANGED vars
  <2>1. UNCHANGED <<pending, out, lost, failed, pc, errs, ran, extras>>
    BY <1>11 DEF SetLevel, EditDuringCalls, vars, callVars, outVars
  <2>2. ASSUME NEW d \in Calls PROVE FateOf(d)'
    <3>1. Owed(d)' = Owed(d)
      BY <2>1 DEF Owed
    <3> QED BY <1>3, <2>1, <3>1, FateKept
  <2> QED BY <1>3, <2>1, <2>2, FateByParts
<1> QED BY <1>5, <1>6, <1>7, <1>8, <1>9, <1>10, <1>11 DEF Next, Step, Terminating

\* Whatever fails, is dropped or runs beside it: what a call has to say, its
\* entry and the error of each hook that failed, comes to one line or one error,
\* and an entry of error level is never left to the queue.
THEOREM EverythingHasOneFate == Spec => []OneFate
<1>1. Init => FateInv
  <2> SUFFICES ASSUME Init PROVE FateInv
    OBVIOUS
  <2>1. pending = <<>> /\ lost = {} /\ failed = {} /\ Copies = {}
    BY DEF Init, Copies, EmptyBag, SetToBag
  <2>2. IsFiniteSet({}) /\ Cardinality({}) = 0
    BY FS_EmptySet
  <2>3. \A c, x : Fates(c, x) = 0
    BY <2>1, <2>2 DEF Fates
  <2>4. \A h : Times(<<>>, h) = 0
    BY <2>2 DEF Times
  <2>5. ASSUME NEW c \in Calls
        PROVE  pc[c] = "idle" /\ extras[c] = <<>> /\ Owed(c) = <<>> /\ ran[c] = <<>>
    BY DEF Init, Owed
  <2>6. CriticalIsSynchronous
    BY <2>1 DEF CriticalIsSynchronous, ToSet
  <2> QED BY <2>1, <2>2, <2>3, <2>4, <2>5, <2>6 DEF FateInv
<1>2. TypeInv /\ FateInv /\ [Next]_vars => FateInv'
  BY FateStep
<1>3. TypeInv /\ FateInv => OneFate
  <2> SUFFICES ASSUME TypeInv, FateInv, NEW c \in Calls, NEW h \in Hooks
               PROVE  Fates(c, h) <= Times(ran[c], h)
    BY DEF FateInv, OneFate
  <2>1. PICK o \in Nat, r \in Nat : o = Times(Owed(c), h) /\ r = Times(ran[c], h)
    BY OwedTyped DEF TypeInv
  <2>2. PICK q \in Nat, w \in Nat, d \in Nat, f \in Nat : Counts(c, h, q, w, d, f)
    BY FatesCounted DEF TypeInv, FateInv, FiniteFates
  <2>3. Fates(c, h) = q + w + d + f
    BY <2>2 DEF Counts
  <2>4. Fates(c, h) + o <= r
    BY <2>1 DEF FateInv
  <2> QED BY <2>1, <2>3, <2>4
<1> QED BY <1>1, <1>2, <1>3, TypeInvariant, PTL DEF Spec
=============================================================================
