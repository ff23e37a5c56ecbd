------------------------- MODULE PayloadPoolProofs -------------------------
(* Theorems about PayloadPool, for every set of records and of buffers.     *)
EXTENDS PayloadPool, FiniteSetTheorems, TLAPS

USE PoolAssumption

\* What the steps are made of keeps the types.
LEMMA ReleaseTyped ==
    ASSUME NEW r \in Records, TypeOK, ReleasePayload(r)
    PROVE  /\ pool' \in [Buffers -> Nat]
           /\ storage' \in [Records -> Buffers \cup {None}]
<1>1. CASE storage[r] = None
  BY <1>1 DEF ReleasePayload, TypeOK
<1>2. CASE storage[r] # None
  <2>1. storage[r] \in Buffers
    BY <1>2 DEF TypeOK
  <2> QED BY <1>2, <2>1 DEF ReleasePayload, TypeOK
<1> QED BY <1>1, <1>2

LEMMA CallReleaseTyped ==
    ASSUME NEW r \in Records, TypeOK, CallRelease(r)
    PROVE  /\ pool' \in [Buffers -> Nat]
           /\ storage' \in [Records -> Buffers \cup {None}]
           /\ once' \in [Records -> BOOLEAN]
<1>1. once' \in [Records -> BOOLEAN]
  BY DEF CallRelease, TypeOK
<1>2. CASE once[r]
  BY <1>1, <1>2 DEF CallRelease, TypeOK
<1>3. CASE ~once[r]
  <2>1. ReleasePayload(r)
    BY <1>3 DEF CallRelease
  <2> QED BY <1>1, <2>1, ReleaseTyped
<1> QED BY <1>2, <1>3

LEMMA TypeStep ==
    ASSUME TypeOK, PoolInv, [Next]_vars
    PROVE  TypeOK'
<1>1. ASSUME NEW r \in Records, Borrow(r) PROVE TypeOK'
  <2>1. PICK b \in Buffers :
            /\ TakeFrom(b)
            /\ content' = [content EXCEPT ![b] = r]
            /\ storage' = [storage EXCEPT ![r] = b]
    BY <1>1 DEF Borrow
  <2>2. created' \subseteq Buffers /\ pool' \in [Buffers -> Nat]
    <3>1. CASE pool[b] > 0 /\ pool' = [pool EXCEPT ![b] = @ - 1] /\ UNCHANGED created
      <4>1. pool[b] - 1 \in Nat
        BY <3>1 DEF TypeOK
      <4> QED BY <3>1, <4>1 DEF TypeOK
    <3>2. CASE b \notin created /\ created' = created \cup {b} /\ UNCHANGED pool
      BY <3>2 DEF TypeOK
    <3> QED BY <2>1, <3>1, <3>2 DEF TakeFrom
  <2> QED BY <1>1, <2>1, <2>2 DEF Borrow, TypeOK, Stages
<1>2. ASSUME NEW r \in Records, WriteOut(r) PROVE TypeOK'
  <2>1. storage[r] \in Buffers
    BY <1>2 DEF WriteOut, TypeOK, PoolInv, Path
  <2>2. written' \in [Records -> Records \cup {None}]
    BY <1>2, <2>1 DEF WriteOut, TypeOK
  <2> QED BY <1>2, <2>2 DEF WriteOut, TypeOK, Stages
<1>3. ASSUME NEW r \in Records, ReleaseWritten(r) PROVE TypeOK'
  BY <1>3, ReleaseTyped DEF ReleaseWritten, TypeOK, Stages
<1>4. ASSUME NEW r \in Records, HandleDrop(r) PROVE TypeOK'
  <2>1. storage[r] \in Buffers \cup {None}
    BY DEF TypeOK
  <2> QED BY <1>4, <2>1 DEF HandleDrop, TypeOK, Stages
<1>5. ASSUME NEW r \in Records, Retain(r) PROVE TypeOK'
  <2>1. dropped[r] \in Buffers \cup {None}
    BY DEF TypeOK
  <2> QED BY <1>5, <2>1 DEF Retain, TypeOK, Stages
<1>6. ASSUME NEW r \in Records, ReleaseLease(r) PROVE TypeOK'
  BY <1>6, CallReleaseTyped DEF ReleaseLease, TypeOK
<1>7. ASSUME NEW r \in Records, LegacyReturn(r) PROVE TypeOK'
  BY <1>7, ReleaseTyped DEF LegacyReturn, TypeOK, Stages
<1>8. ASSUME NEW r \in Records, CheckRetained(r) PROVE TypeOK'
  BY <1>8 DEF CheckRetained, TypeOK, Stages
<1>9. ASSUME NEW r \in Records, ReleaseIfNeeded(r) PROVE TypeOK'
  BY <1>9, CallReleaseTyped DEF ReleaseIfNeeded, TypeOK, Stages
<1>10. CASE UNCHANGED vars
  BY <1>10 DEF vars, TypeOK
<1> QED
  BY <1>1, <1>2, <1>3, <1>4, <1>5, <1>6, <1>7, <1>8, <1>9, <1>10 DEF Next

\* Lending a buffer moves it from the pool, or from nowhere, to one payload.
LEMMA OnePlaceBorrow ==
    ASSUME TypeOK, OnePlace, NEW r \in Records, NEW b \in Buffers,
           storage[r] = None, TakeFrom(b),
           content' = [content EXCEPT ![b] = r],
           storage' = [storage EXCEPT ![r] = b]
    PROVE  OnePlace'
<1>1. /\ storage'[r] = b /\ \A q \in Records \ {r} : storage'[q] = storage[q]
      /\ content'[b] = r /\ \A c \in Buffers \ {b} : content'[c] = content[c]
  BY DEF TypeOK
<1>2. /\ \A q \in Records : storage[q] # b
      /\ b \in created' /\ created' \subseteq created \cup {b} /\ created \subseteq created'
      /\ pool'[b] = 0 /\ \A c \in Buffers \ {b} : pool'[c] = pool[c]
  <2>1. CASE pool[b] > 0 /\ pool' = [pool EXCEPT ![b] = @ - 1] /\ UNCHANGED created
    <3>1. pool[b] = 1 /\ b \in created /\ \A q \in Records : storage[q] # b
      BY <2>1 DEF OnePlace
    <3> QED BY <2>1, <3>1 DEF TypeOK
  <2>2. CASE b \notin created /\ created' = created \cup {b} /\ UNCHANGED pool
    <3>1. \A q \in Records : storage[q] # b
      BY <2>2 DEF OnePlace
    <3>2. pool[b] = 0
      <4>1. pool[b] \in Nat /\ ~(pool[b] > 0)
        BY <2>2 DEF OnePlace, TypeOK
      <4> QED BY <4>1
    <3> QED BY <2>2, <3>1, <3>2 DEF TypeOK
  <2> QED BY <2>1, <2>2 DEF TakeFrom
<1>3. \A c \in Buffers : pool'[c] = 1 => c \in created'
  BY <1>2 DEF OnePlace
<1>4. \A c \in Buffers : pool'[c] > 0 => pool'[c] = 1 /\ \A q \in Records : storage'[q] # c
  BY <1>1, <1>2 DEF OnePlace
<1>5. \A c \in created' : pool'[c] = 1 \/ \E q \in Records : storage'[q] = c
  <2>1. ASSUME NEW c \in created', c # b
        PROVE  pool'[c] = 1 \/ \E q \in Records : storage'[q] = c
    <3>1. c \in created /\ c \in Buffers /\ pool'[c] = pool[c]
      BY <1>2, <2>1 DEF TypeOK
    <3>2. CASE pool[c] = 1
      BY <3>1, <3>2
    <3>3. CASE \E q \in Records : storage[q] = c
      <4>1. PICK q \in Records : storage[q] = c
        BY <3>3
      <4>2. q # r
        BY <3>1, <4>1
      <4> QED BY <1>1, <4>1, <4>2
    <3> QED BY <3>1, <3>2, <3>3 DEF OnePlace
  <2> QED BY <1>1, <2>1
<1>6. \A q \in Records : storage'[q] # None
          => storage'[q] \in created' /\ content'[storage'[q]] = q
  <2>1. ASSUME NEW q \in Records, q # r, storage'[q] # None
        PROVE  storage'[q] \in created' /\ content'[storage'[q]] = q
    <3>1. /\ storage'[q] = storage[q] /\ storage[q] \in Buffers \ {b}
          /\ storage[q] \in created /\ content[storage[q]] = q
      BY <1>1, <1>2, <2>1 DEF OnePlace, TypeOK
    <3> QED BY <1>1, <1>2, <3>1
  <2> QED BY <1>1, <1>2, <2>1
<1>7. \A p, q \in Records : storage'[p] = storage'[q] /\ storage'[p] # None => p = q
  <2>1. ASSUME NEW p \in Records, NEW q \in Records, storage'[p] = storage'[q],
               storage'[p] # None
        PROVE  p = q
    <3>1. CASE p = r \/ q = r
      BY <1>1, <1>2, <2>1, <3>1
    <3>2. CASE p # r /\ q # r
      BY <1>1, <2>1, <3>2 DEF OnePlace
    <3> QED BY <3>1, <3>2
  <2> QED BY <2>1
<1> QED BY <1>3, <1>4, <1>5, <1>6, <1>7 DEF OnePlace

\* Giving a buffer back moves it from the one payload to the pool.
LEMMA OnePlaceRelease ==
    ASSUME TypeOK, OnePlace, NEW r \in Records, ReleasePayload(r),
           UNCHANGED <<created, content>>
    PROVE  /\ OnePlace' /\ storage'[r] = None
           /\ \A q \in Records \ {r} : storage'[q] = storage[q]
<1>1. CASE storage[r] = None
  BY <1>1 DEF ReleasePayload, OnePlace
<1>2. CASE storage[r] # None
  <2> DEFINE b == storage[r]
  <2>1. /\ b \in Buffers /\ b \in created
        /\ pool' = [pool EXCEPT ![b] = @ + 1] /\ storage' = [storage EXCEPT ![r] = None]
    BY <1>2 DEF ReleasePayload, OnePlace, TypeOK
  <2>2. pool[b] = 0 /\ \A q \in Records \ {r} : storage[q] # b
    <3>1. pool[b] \in Nat /\ ~(pool[b] > 0)
      BY <2>1 DEF OnePlace, TypeOK
    <3>2. \A q \in Records \ {r} : storage[q] # b
      BY <1>2 DEF OnePlace
    <3> QED BY <3>1, <3>2
  <2>3. /\ pool'[b] = 1 /\ \A c \in Buffers \ {b} : pool'[c] = pool[c]
        /\ storage'[r] = None /\ \A q \in Records \ {r} : storage'[q] = storage[q]
        /\ created' = created /\ content' = content
    BY <2>1, <2>2 DEF TypeOK
  <2>4. b # None
    BY <1>2
  <2> HIDE DEF b
  <2>5. \A c \in Buffers : pool'[c] = 1 => c \in created'
    BY <2>1, <2>3 DEF OnePlace
  <2>6. \A c \in Buffers : pool'[c] > 0 => pool'[c] = 1 /\ \A q \in Records : storage'[q] # c
    <3>1. \A c \in Buffers : c # None
      OBVIOUS
    <3> QED BY <2>2, <2>3, <3>1 DEF OnePlace
  <2>7. \A c \in created' : pool'[c] = 1 \/ \E q \in Records : storage'[q] = c
    <3>1. ASSUME NEW c \in created', c # b
          PROVE  pool'[c] = 1 \/ \E q \in Records : storage'[q] = c
      <4>1. c \in created /\ c \in Buffers /\ pool'[c] = pool[c]
        BY <2>3, <3>1 DEF TypeOK
      <4>2. CASE \E q \in Records : storage[q] = c
        <5>1. PICK q \in Records : storage[q] = c
          BY <4>2
        <5>2. q # r
          BY <3>1, <5>1 DEF b
        <5> QED BY <2>3, <5>1, <5>2
      <4> QED BY <4>1, <4>2 DEF OnePlace
    <3> QED BY <2>3, <3>1
  <2>8. \A q \in Records : storage'[q] # None
            => storage'[q] \in created' /\ content'[storage'[q]] = q
    BY <2>3 DEF OnePlace
  <2>9. \A p, q \in Records : storage'[p] = storage'[q] /\ storage'[p] # None => p = q
    BY <2>3 DEF OnePlace
  <2> QED BY <2>3, <2>5, <2>6, <2>7, <2>8, <2>9 DEF OnePlace
<1> QED BY <1>1, <1>2

\* callRelease leaves no buffer with its payload, and touches no other one.
LEMMA Released ==
    ASSUME TypeOK, OnePlace, NEW r \in Records, CallRelease(r),
           once[r] => storage[r] = None, UNCHANGED <<created, content>>
    PROVE  /\ OnePlace' /\ storage'[r] = None /\ once'[r]
           /\ \A q \in Records \ {r} : storage'[q] = storage[q] /\ once'[q] = once[q]
<1>1. once'[r] /\ \A q \in Records \ {r} : once'[q] = once[q]
  BY DEF CallRelease, TypeOK
<1>2. CASE once[r]
  BY <1>1, <1>2 DEF CallRelease, OnePlace
<1>3. CASE ~once[r]
  <2>1. ReleasePayload(r)
    BY <1>3 DEF CallRelease
  <2> QED BY <1>1, <2>1, OnePlaceRelease
<1> QED BY <1>2, <1>3

\* What a step leaves alone of a record keeps its path.
Same(q) ==
    /\ stage'[q] = stage[q] /\ storage'[q] = storage[q] /\ written'[q] = written[q]
    /\ dropped'[q] = dropped[q] /\ retained'[q] = retained[q] /\ once'[q] = once[q]
    /\ lease'[q] = lease[q] /\ (q \in late' <=> q \in late) /\ handler' = handler

LEMMA PathElsewhere ==
    ASSUME NEW q \in Records, Path(q), Same(q)
    PROVE  Path(q)'
BY DEF Path, Same

LEMMA PoolInvStep ==
    ASSUME TypeOK, PoolInv, [Next]_vars
    PROVE  PoolInv'
<1> USE DEF PoolInv
<1>1. ASSUME NEW r \in Records, Borrow(r) PROVE PoolInv'
  <2>1. PICK b \in Buffers :
            /\ TakeFrom(b)
            /\ content' = [content EXCEPT ![b] = r]
            /\ storage' = [storage EXCEPT ![r] = b]
    BY <1>1 DEF Borrow
  <2>2. storage[r] = None
    BY <1>1 DEF Borrow, Path
  <2>3. OnePlace'
    BY <2>1, <2>2, OnePlaceBorrow
  <2>4. Path(r)'
    BY <1>1, <2>1 DEF Borrow, Path, TypeOK
  <2>5. \A q \in Records \ {r} : Same(q)
    BY <1>1, <2>1 DEF Borrow, Same, TypeOK
  <2> QED BY <2>3, <2>4, <2>5, PathElsewhere
<1>2. ASSUME NEW r \in Records, WriteOut(r) PROVE PoolInv'
  <2>1. OnePlace'
    BY <1>2 DEF WriteOut, OnePlace
  <2>2. content[storage[r]] = r
    BY <1>2 DEF WriteOut, OnePlace, Path
  <2>3. Path(r)'
    BY <1>2, <2>2 DEF WriteOut, Path, TypeOK
  <2>4. \A q \in Records \ {r} : Same(q)
    BY <1>2 DEF WriteOut, Same, TypeOK
  <2> QED BY <2>1, <2>3, <2>4, PathElsewhere
<1>3. ASSUME NEW r \in Records, ReleaseWritten(r) PROVE PoolInv'
  <2>1. /\ OnePlace' /\ storage'[r] = None
        /\ \A q \in Records \ {r} : storage'[q] = storage[q]
    BY <1>3, OnePlaceRelease DEF ReleaseWritten
  <2>2. Path(r)'
    BY <1>3, <2>1 DEF ReleaseWritten, Path, TypeOK
  <2>3. \A q \in Records \ {r} : Same(q)
    BY <1>3, <2>1 DEF ReleaseWritten, Same, TypeOK
  <2> QED BY <2>1, <2>2, <2>3, PathElsewhere
<1>4. ASSUME NEW r \in Records, HandleDrop(r) PROVE PoolInv'
  <2>1. OnePlace'
    BY <1>4 DEF HandleDrop, OnePlace
  <2>2. Path(r)'
    BY <1>4 DEF HandleDrop, Path, TypeOK
  <2>3. \A q \in Records \ {r} : Same(q)
    BY <1>4 DEF HandleDrop, Same, TypeOK
  <2> QED BY <2>1, <2>2, <2>3, PathElsewhere
<1>5. ASSUME NEW r \in Records, Retain(r) PROVE PoolInv'
  <2>1. OnePlace'
    BY <1>5 DEF Retain, OnePlace
  <2>2. Path(r)'
    BY <1>5 DEF Retain, Path, TypeOK
  <2>3. \A q \in Records \ {r} : Same(q)
    BY <1>5 DEF Retain, Same, TypeOK
  <2> QED BY <2>1, <2>2, <2>3, PathElsewhere
<1>6. ASSUME NEW r \in Records, ReleaseLease(r) PROVE PoolInv'
  <2>1. once[r] => storage[r] = None
    BY DEF Path
  <2>2. /\ OnePlace' /\ storage'[r] = None /\ once'[r]
        /\ \A q \in Records \ {r} : storage'[q] = storage[q] /\ once'[q] = once[q]
    BY <1>6, <2>1, Released DEF ReleaseLease
  <2>3. Path(r)'
    BY <1>6, <2>2 DEF ReleaseLease, Path, TypeOK
  <2>4. \A q \in Records \ {r} : Same(q)
    BY <1>6, <2>2 DEF ReleaseLease, Same, TypeOK
  <2> QED BY <2>2, <2>3, <2>4, PathElsewhere
<1>7. ASSUME NEW r \in Records, LegacyReturn(r) PROVE PoolInv'
  <2>1. /\ OnePlace' /\ storage'[r] = None
        /\ \A q \in Records \ {r} : storage'[q] = storage[q]
    BY <1>7, OnePlaceRelease DEF LegacyReturn
  <2>2. Path(r)'
    BY <1>7, <2>1 DEF LegacyReturn, Path, TypeOK
  <2>3. \A q \in Records \ {r} : Same(q)
    BY <1>7, <2>1 DEF LegacyReturn, Same, TypeOK
  <2> QED BY <2>1, <2>2, <2>3, PathElsewhere
<1>8. ASSUME NEW r \in Records, CheckRetained(r) PROVE PoolInv'
  <2>1. OnePlace'
    BY <1>8 DEF CheckRetained, OnePlace
  <2>2. Path(r)'
    BY <1>8 DEF CheckRetained, Path, TypeOK
  <2>3. \A q \in Records \ {r} : Same(q)
    BY <1>8 DEF CheckRetained, Same, TypeOK
  <2> QED BY <2>1, <2>2, <2>3, PathElsewhere
<1>9. ASSUME NEW r \in Records, ReleaseIfNeeded(r) PROVE PoolInv'
  <2>1. once[r] => storage[r] = None
    BY DEF Path
  <2>2. /\ OnePlace' /\ storage'[r] = None /\ once'[r]
        /\ \A q \in Records \ {r} : storage'[q] = storage[q] /\ once'[q] = once[q]
    BY <1>9, <2>1, Released DEF ReleaseIfNeeded
  <2>3. Path(r)'
    BY <1>9, <2>2 DEF ReleaseIfNeeded, Path, TypeOK
  <2>4. \A q \in Records \ {r} : Same(q)
    BY <1>9, <2>2 DEF ReleaseIfNeeded, Same, TypeOK
  <2> QED BY <2>2, <2>3, <2>4, PathElsewhere
<1>10. CASE UNCHANGED vars
  BY <1>10 DEF vars, OnePlace, Path
<1> QED
  BY <1>1, <1>2, <1>3, <1>4, <1>5, <1>6, <1>7, <1>8, <1>9, <1>10 DEF Next

\* The induction itself.
LEMMA PoolInvariant == Spec => [](TypeOK /\ PoolInv)
<1>1. Init => TypeOK /\ PoolInv
  BY DEF Init, TypeOK, Stages, PoolInv, OnePlace, Path
<1>2. TypeOK /\ PoolInv /\ [Next]_vars => (TypeOK /\ PoolInv)'
  BY TypeStep, PoolInvStep
<1> QED BY <1>1, <1>2, PTL DEF Spec

\* The types of the variables of internal/output/async.go's pool and payloads
\* are as declared, for any number of records and buffers.
THEOREM TypeCorrect == Spec => []TypeOK
BY PoolInvariant, PTL

\* However the drop handlers retain and release, in time, late or twice, a
\* buffer is in the pool once or with one payload, and none is lost.
THEOREM BuffersStay == Spec => []BuffersConserved
<1>1. TypeOK /\ PoolInv => BuffersConserved
  <2> SUFFICES ASSUME TypeOK, PoolInv PROVE BuffersConserved
    OBVIOUS
  <2>1. OneOwner
    <3> SUFFICES ASSUME NEW b \in Buffers
                 PROVE  pool[b] + Cardinality({r \in Records : storage[r] = b}) <= 1
      BY DEF OneOwner
    <3> DEFINE owners == {r \in Records : storage[r] = b}
    <3>1. pool[b] \in Nat
      BY DEF TypeOK
    <3>2. CASE pool[b] > 0
      <4>1. pool[b] = 1 /\ owners = {}
        BY <3>2 DEF PoolInv, OnePlace
      <4>2. Cardinality(owners) = 0
        BY <4>1, FS_EmptySet
      <4> QED BY <4>1, <4>2
    <3>3. CASE ~(pool[b] > 0)
      <4>1. pool[b] = 0
        BY <3>1, <3>3
      <4>2. owners = {} \/ \E r \in Records : owners = {r}
        BY DEF PoolInv, OnePlace
      <4>3. Cardinality(owners) \in {0, 1}
        BY <4>2, FS_EmptySet, FS_Singleton
      <4> QED BY <4>1, <4>3
    <3> QED BY <3>2, <3>3
  <2>2. NothingLeaks
    <3> SUFFICES ASSUME AllDone, NEW b \in created PROVE pool[b] = 1
      BY DEF NothingLeaks
    <3>1. \A r \in Records : storage[r] = None
      BY DEF AllDone, PoolInv, Path
    <3>2. b # None
      BY DEF TypeOK
    <3> QED BY <3>1, <3>2 DEF PoolInv, OnePlace
  <2> QED BY <2>1, <2>2 DEF BuffersConserved
<1> QED BY <1>1, PoolInvariant, PTL

\* The underlying writer, a running handler and the holder of a lease taken in
\* time find the bytes of their own record in the buffer, never another's.
THEOREM BytesStay == Spec => []BytesIntact
<1>1. TypeOK /\ PoolInv => BytesIntact
  <2> SUFFICES ASSUME TypeOK, PoolInv PROVE BytesIntact
    OBVIOUS
  <2>1. WritesIntact
    BY DEF WritesIntact, PoolInv, Path
  <2>2. LeaseIntact
    BY DEF LeaseIntact, PoolInv, OnePlace, Path
  <2>3. HandlerSeesRecord
    BY DEF HandlerSeesRecord, PoolInv, OnePlace, Path
  <2> QED BY <2>1, <2>2, <2>3 DEF BytesIntact
<1> QED BY <1>1, PoolInvariant, PTL
=============================================================================
