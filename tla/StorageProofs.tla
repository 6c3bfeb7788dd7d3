--------------------------- MODULE StorageProofs ---------------------------
(***************************************************************************)
(* What the tiered storage, the store of the runtime and the cache of      *)
(* results promise, for any number of keys, values, jobs, sessions,        *)
(* restarts and deletions.                                                 *)
(***************************************************************************)
EXTENDS TieredStorage, RuntimeStore, ResultCache, SequenceLemmas, FiniteSetTheorems

-----------------------------------------------------------------------------
(* TieredStorage.                                                           *)

Steps == {"nothing", "read", "write", "unfile", "forget", "demote"}
Values == TierValues \cup {NotThere}

TierTypes ==
  /\ l1 \in [TierKeys -> Values] /\ files \in [TierKeys -> Values]
  /\ lru \in Seq(TierKeys) /\ idle \in SUBSET TierKeys
  /\ rest \in [todo : Steps, key : TierKeys \cup {NotThere}, value : Values, cold : SUBSET TierKeys]
  /\ rest.todo \in {"write", "unfile", "forget"} => rest.key \in TierKeys
  /\ rest.todo = "write" => rest.value \in TierValues /\ l1[rest.key] = rest.value

\* The order of use lists what is in memory, which keeps to its capacity.
L1Listed == Range(lru) = In(l1) /\ MemoryBounded

\* The tiers agree on a key, but on one that has been set in memory alone yet.
SameValue == \A k \in In(l1) \cap In(files) : (rest.todo = "write" /\ rest.key = k) \/ l1[k] = files[k]

TierInv == TierTypes /\ L1Listed /\ SameValue

\* There are finitely many keys in memory.
LEMMA InMemory ==
  ASSUME NEW tier
  PROVE  IsFiniteSet(In(tier)) /\ Cardinality(In(tier)) \in Nat
<1>1. In(tier) \subseteq TierKeys
  BY DEF In
<1>2. QED
  BY <1>1, TierAssumption, FS_Subset, FS_CardinalityType

\* The storage starts empty.
LEMMA TierInitInv == TierInit => TierInv
<1> SUFFICES ASSUME TierInit PROVE TierInv
  OBVIOUS
<1>1. TierTypes
  <2>1. l1 \in [TierKeys -> Values] /\ files \in [TierKeys -> Values]
    BY DEF TierInit, Values
  <2>2. lru \in Seq(TierKeys) /\ idle \in SUBSET TierKeys
    BY DEF TierInit
  <2>3. /\ rest.todo = "nothing"
        /\ rest \in [todo : Steps, key : TierKeys \cup {NotThere}, value : Values, cold : SUBSET TierKeys]
    BY DEF TierInit, Nothing, Values, Steps
  <2>4. QED
    BY <2>1, <2>2, <2>3 DEF TierTypes
<1>2. In(l1) = {}
  BY DEF TierInit, In
<1>3. L1Listed
  <2>1. Cardinality(In(l1)) = 0 /\ 0 <= MaxInMemory
    BY <1>2, FS_EmptySet, TierAssumption
  <2>2. Range(lru) = {}
    BY EmptyRange DEF TierInit
  <2>3. QED
    BY <1>2, <2>1, <2>2 DEF L1Listed, MemoryBounded
<1>4. QED
  BY <1>1, <1>2, <1>3 DEF TierInv, SameValue

\* A key is put into memory: it is the last in the order, and at most the
\* first one has left to make room.
LEMMA PutInMemory ==
  ASSUME TierTypes, L1Listed, NEW k \in TierKeys, NEW v \in TierValues, PutL1(k, v)
  PROVE  /\ l1' \in [TierKeys -> Values] /\ lru' \in Seq(TierKeys) /\ idle' \in SUBSET TierKeys
         /\ L1Listed'
         /\ l1'[k] = v /\ \A x \in TierKeys \ {k} : l1'[x] \in {l1[x], NotThere}
<1> DEFINE out == Evicted(k)
<1>1. /\ l1' = [x \in TierKeys |-> IF x = k THEN v ELSE IF x \in out THEN NotThere ELSE l1[x]]
      /\ lru' = Append(Listed(TierKeys \ (out \cup {k})), k)
      /\ idle' = idle \ (out \cup {k})
  BY DEF PutL1
<1>2. v # NotThere
  BY TierAssumption
<1>3. In(l1) \subseteq TierKeys /\ Range(lru) = In(l1)
  BY DEF In, L1Listed
<1>4. IsFiniteSet(In(l1)) /\ Cardinality(In(l1)) \in Nat /\ Cardinality(In(l1)) <= MaxInMemory
  BY InMemory DEF L1Listed, MemoryBounded
<1> HIDE DEF out
<1>5. In(l1') = (In(l1) \ out) \cup {k}
  BY <1>1, <1>2 DEF In
<1>6. lru' \in Seq(TierKeys) /\ Range(lru') = (In(l1) \ out) \cup {k}
  <2> DEFINE others == KeepOnly(lru, TierKeys \ (out \cup {k}))
  <2>1. others \in Seq(TierKeys) /\ Range(others) = Range(lru) \cap (TierKeys \ (out \cup {k}))
    BY KeepRange DEF TierTypes
  <2>2. lru' = Append(others, k)
    BY <1>1 DEF Listed
  <2> HIDE DEF others
  <2>3. lru' \in Seq(TierKeys) /\ Range(lru') = Range(others) \cup {k}
    BY <2>1, <2>2, AppendRange
  <2>4. QED
    BY <1>3, <2>1, <2>3
<1>7. Cardinality(In(l1')) <= MaxInMemory
  <2>1. CASE Full(k)
    <3>1. k \notin In(l1) /\ Cardinality(In(l1)) >= MaxInMemory
      BY <2>1 DEF Full, In
    <3>2. In(l1) # {}
      BY <1>4, <3>1, FS_EmptySet, TierAssumption
    <3>3. lru # <<>>
      BY <1>3, <3>2, EmptyRange
    <3>4. Head(lru) \in In(l1) /\ out = {Head(lru)}
      BY <1>3, <2>1, <3>3, TailRange DEF TierTypes, out, Evicted, FirstInLine
    <3> DEFINE left1 == In(l1) \ {Head(lru)}
    <3>5. IsFiniteSet(left1) /\ Cardinality(left1) = Cardinality(In(l1)) - 1
      BY <1>4, <3>4, FS_RemoveElement
    <3>6. k \notin left1 /\ In(l1') = left1 \cup {k}
      BY <1>5, <3>1, <3>4
    <3> HIDE DEF left1
    <3>7. Cardinality(In(l1')) = Cardinality(left1) + 1
      BY <3>5, <3>6, FS_AddElement
    <3>8. QED
      BY <1>4, <3>5, <3>7, TierAssumption
  <2>2. CASE ~Full(k)
    <3>1. out = {}
      BY <2>2 DEF out, Evicted
    <3>2. CASE k \in In(l1)
      <4>1. In(l1') = In(l1)
        BY <1>5, <3>1, <3>2
      <4>2. QED
        BY <1>4, <4>1
    <3>3. CASE k \notin In(l1)
      <4>1. ~ (Cardinality(In(l1)) >= MaxInMemory)
        BY <2>2, <3>3 DEF Full, In
      <4>2. In(l1') = In(l1) \cup {k}
        BY <1>5, <3>1
      <4>3. Cardinality(In(l1')) = Cardinality(In(l1)) + 1
        BY <1>4, <3>3, <4>2, FS_AddElement
      <4>4. QED
        BY <1>4, <4>1, <4>3, TierAssumption
    <3>4. QED
      BY <3>2, <3>3
  <2>3. QED
    BY <2>1, <2>2
<1>8. L1Listed'
  BY <1>5, <1>6, <1>7 DEF L1Listed, MemoryBounded, In
<1>9. l1' \in [TierKeys -> Values] /\ idle' \in SUBSET TierKeys
  BY <1>1 DEF TierTypes, Values
<1>10. l1'[k] = v /\ \A x \in TierKeys \ {k} : l1'[x] \in {l1[x], NotThere}
  BY <1>1
<1>11. QED
  BY <1>6, <1>8, <1>9, <1>10

\* A key leaves memory and the order of use.
LEMMA DroppedFromMemory ==
  ASSUME TierTypes, L1Listed, NEW k \in TierKeys, DropL1(k)
  PROVE  /\ l1' \in [TierKeys -> Values] /\ lru' \in Seq(TierKeys) /\ idle' \in SUBSET TierKeys
         /\ L1Listed'
         /\ l1'[k] = NotThere /\ \A x \in TierKeys \ {k} : l1'[x] = l1[x]
<1>1. /\ l1' = [l1 EXCEPT ![k] = NotThere] /\ lru' = KeepOnly(lru, TierKeys \ {k})
      /\ idle' = idle \ {k}
  BY DEF DropL1, Listed
<1>2. l1' \in [TierKeys -> Values] /\ l1'[k] = NotThere /\ \A x \in TierKeys \ {k} : l1'[x] = l1[x]
  BY <1>1 DEF TierTypes, Values
<1>3. In(l1') = In(l1) \ {k} /\ In(l1) \subseteq TierKeys
  BY <1>2 DEF In
<1>4. lru' \in Seq(TierKeys) /\ Range(lru') = Range(lru) \cap (TierKeys \ {k})
  BY <1>1, KeepRange DEF TierTypes
<1>5. Range(lru') = In(l1')
  BY <1>3, <1>4 DEF L1Listed
<1>6. Cardinality(In(l1')) <= MaxInMemory
  <2>1. Cardinality(In(l1')) <= Cardinality(In(l1)) /\ Cardinality(In(l1')) \in Nat
    BY <1>3, InMemory, FS_Subset
  <2>2. QED
    BY <2>1, InMemory, TierAssumption DEF L1Listed, MemoryBounded
<1>7. L1Listed'
  BY <1>5, <1>6 DEF L1Listed, MemoryBounded, In
<1>8. QED
  BY <1>1, <1>2, <1>4, <1>7 DEF TierTypes

\* A key that is used moves to the end of the order.
LEMMA UsedInMemory ==
  ASSUME TierTypes, L1Listed, NEW k \in In(l1), UNCHANGED l1,
         lru' = Append(Listed(TierKeys \ {k}), k)
  PROVE  lru' \in Seq(TierKeys) /\ L1Listed'
<1> DEFINE others == KeepOnly(lru, TierKeys \ {k})
<1>1. k \in TierKeys /\ In(l1) \subseteq TierKeys
  BY DEF In
<1>2. others \in Seq(TierKeys) /\ Range(others) = Range(lru) \cap (TierKeys \ {k})
  BY KeepRange DEF TierTypes
<1>3. lru' = Append(others, k)
  BY DEF Listed
<1> HIDE DEF others
<1>4. lru' \in Seq(TierKeys) /\ Range(lru') = Range(others) \cup {k}
  <2>1. /\ Append(others, k) \in Seq(TierKeys)
        /\ Range(Append(others, k)) = Range(others) \cup {k}
    BY <1>1, <1>2, AppendRange
  <2>2. QED
    BY <1>3, <2>1
<1>5. Range(lru') = In(l1)
  BY <1>1, <1>2, <1>4 DEF L1Listed
<1>6. In(l1)' = In(l1)
  BY DEF In
<1>7. QED
  BY <1>4, <1>5, <1>6 DEF L1Listed, MemoryBounded

\* While memory and the order are left alone, so is what they have in common.
LEMMA MemoryLeft == L1Listed /\ UNCHANGED <<l1, lru>> => L1Listed'
  BY DEF L1Listed, MemoryBounded, In

\* The calls of one key, step by step, keep the invariant.
LEMMA GetEntryInv == ASSUME TierInv, NEW k \in TierKeys, GetEntry(k) PROVE TierInv'
<1> USE DEF TierInv
<1>1. CASE HitL1(k)
  <2>1. k \in In(l1) /\ UNCHANGED <<l1, files, rest>> /\ idle' \in SUBSET TierKeys
    BY <1>1 DEF HitL1, In, TierTypes
  <2>2. lru' \in Seq(TierKeys) /\ L1Listed'
    BY <1>1, <2>1, UsedInMemory DEF HitL1
  <2>3. QED
    BY <2>1, <2>2 DEF TierTypes, SameValue, In
<1>2. CASE ExpiredL1(k)
  <2>1. /\ l1' \in [TierKeys -> Values] /\ lru' \in Seq(TierKeys) /\ idle' \in SUBSET TierKeys
        /\ L1Listed'
        /\ l1'[k] = NotThere /\ \A x \in TierKeys \ {k} : l1'[x] = l1[x]
    BY <1>2, DroppedFromMemory DEF ExpiredL1
  <2>2. rest = Nothing /\ rest' = [rest EXCEPT !.todo = "read", !.key = k, !.value = NotThere]
        /\ UNCHANGED files
    BY <1>2 DEF ExpiredL1, Then
  <2>3. /\ rest'.todo = "read" /\ rest.todo = "nothing"
        /\ rest' \in [todo : Steps, key : TierKeys \cup {NotThere}, value : Values, cold : SUBSET TierKeys]
    BY <2>2 DEF Nothing, TierTypes, Steps, Values
  <2>4. TierTypes'
    BY <2>1, <2>2, <2>3 DEF TierTypes
  <2>5. SameValue'
    BY <2>1, <2>2, <2>3 DEF SameValue, In
  <2>6. QED
    BY <2>1, <2>4, <2>5
<1>3. CASE ReadL2(k)
  <2>0. rest' = Nothing /\ rest.todo # "write"
    BY <1>3 DEF ReadL2, Nothing
  <2>1. /\ rest'.todo = "nothing"
        /\ rest' \in [todo : Steps, key : TierKeys \cup {NotThere}, value : Values, cold : SUBSET TierKeys]
    BY <2>0 DEF Nothing, Steps, Values
  <2>2. CASE UNCHANGED <<l1, lru, files, over, idle>>
    <3>1. L1Listed'
      BY <2>2, MemoryLeft
    <3>2. QED
      BY <2>0, <2>1, <2>2, <3>1 DEF TierTypes, SameValue, In
  <2>3. CASE DropL2(k) /\ UNCHANGED <<l1, lru, idle>>
    <3>1. L1Listed'
      BY <2>3, MemoryLeft
    <3>2. files' \in [TierKeys -> Values] /\ files'[k] = NotThere /\ \A x \in TierKeys \ {k} : files'[x] = files[x]
      BY <2>3 DEF DropL2, TierTypes, Values
    <3>3. QED
      BY <2>0, <2>1, <2>3, <3>1, <3>2 DEF TierTypes, SameValue, In
  <2>4. CASE ~Stays(k) /\ Alive(2, k) /\ PutL1(k, files[k]) /\ UNCHANGED files
    <3>1. files[k] \in TierValues
      BY <2>4 DEF Stays, TierTypes, Values
    <3>2. /\ l1' \in [TierKeys -> Values] /\ lru' \in Seq(TierKeys) /\ idle' \in SUBSET TierKeys
          /\ L1Listed'
          /\ l1'[k] = files[k] /\ \A x \in TierKeys \ {k} : l1'[x] \in {l1[x], NotThere}
      BY <2>4, <3>1, PutInMemory
    <3>3. QED
      BY <2>0, <2>1, <2>4, <3>2 DEF TierTypes, SameValue, In
  <2>5. QED
    BY <1>3, <2>2, <2>3, <2>4 DEF ReadL2
<1>4. QED
  BY <1>1, <1>2, <1>3 DEF GetEntry

LEMMA SetInv == ASSUME TierInv, NEW k \in TierKeys, NEW v \in TierValues, Set(k, v) PROVE TierInv'
<1> USE DEF TierInv
<1>1. /\ l1' \in [TierKeys -> Values] /\ lru' \in Seq(TierKeys) /\ idle' \in SUBSET TierKeys
      /\ L1Listed'
      /\ l1'[k] = v /\ \A x \in TierKeys \ {k} : l1'[x] \in {l1[x], NotThere}
  BY PutInMemory DEF Set
<1>2. /\ rest = Nothing /\ UNCHANGED files
      /\ rest' = [rest EXCEPT !.todo = "write", !.key = k, !.value = v]
  BY DEF Set, Then
<1>3. /\ rest'.todo = "write" /\ rest'.key = k /\ rest'.value = v /\ rest.todo = "nothing"
      /\ rest' \in [todo : Steps, key : TierKeys \cup {NotThere}, value : Values, cold : SUBSET TierKeys]
  BY <1>2 DEF Nothing, TierTypes, Steps, Values
<1>4. TierTypes'
  BY <1>1, <1>2, <1>3 DEF TierTypes
<1>5. SameValue'
  BY <1>1, <1>2, <1>3 DEF SameValue, In
<1>6. QED
  BY <1>1, <1>4, <1>5

LEMMA DeleteInv == ASSUME TierInv, NEW k \in TierKeys, Delete(k) PROVE TierInv'
<1> USE DEF TierInv
<1>1. /\ l1' \in [TierKeys -> Values] /\ lru' \in Seq(TierKeys) /\ idle' \in SUBSET TierKeys
      /\ L1Listed'
      /\ l1'[k] = NotThere /\ \A x \in TierKeys \ {k} : l1'[x] = l1[x]
  <2>1. CASE l1[k] # NotThere
    BY <2>1, DroppedFromMemory DEF Delete
  <2>2. CASE l1[k] = NotThere
    BY <2>2, MemoryLeft DEF Delete, TierTypes
  <2>3. QED
    BY <2>1, <2>2
<1>2. /\ rest = Nothing /\ UNCHANGED files
      /\ rest' = [rest EXCEPT !.todo = "unfile", !.key = k, !.value = NotThere]
  BY DEF Delete, Then
<1>3. /\ rest'.todo = "unfile" /\ rest'.key = k /\ rest.todo = "nothing"
      /\ rest' \in [todo : Steps, key : TierKeys \cup {NotThere}, value : Values, cold : SUBSET TierKeys]
  BY <1>2 DEF Nothing, TierTypes, Steps, Values
<1>4. TierTypes'
  BY <1>1, <1>2, <1>3 DEF TierTypes
<1>5. SameValue'
  BY <1>1, <1>2, <1>3 DEF SameValue, In
<1>6. QED
  BY <1>1, <1>4, <1>5

LEMMA PromoteInv == ASSUME TierInv, NEW k \in TierKeys, Promote(k) PROVE TierInv'
<1> USE DEF TierInv
<1>0. files[k] \in TierValues
  BY DEF Promote, TierTypes, Values
<1>1. /\ l1' \in [TierKeys -> Values] /\ lru' \in Seq(TierKeys) /\ idle' \in SUBSET TierKeys
      /\ L1Listed'
      /\ l1'[k] = files[k] /\ \A x \in TierKeys \ {k} : l1'[x] \in {l1[x], NotThere}
  BY <1>0, PutInMemory DEF Promote
<1>2. /\ rest = Nothing /\ UNCHANGED files
      /\ rest' = [rest EXCEPT !.todo = "unfile", !.key = k, !.value = NotThere]
  BY DEF Promote, Then
<1>3. /\ rest'.todo = "unfile" /\ rest'.key = k /\ rest.todo = "nothing"
      /\ rest' \in [todo : Steps, key : TierKeys \cup {NotThere}, value : Values, cold : SUBSET TierKeys]
  BY <1>2 DEF Nothing, TierTypes, Steps, Values
<1>4. TierTypes'
  BY <1>1, <1>2, <1>3 DEF TierTypes
<1>5. SameValue'
  BY <1>1, <1>2, <1>3 DEF SameValue, In
<1>6. QED
  BY <1>1, <1>4, <1>5

\* A file written holds the value that is in memory.
LEMMA DemoteOneInv ==
  ASSUME TierInv, ~WritesFail, rest.todo # "write",
         NEW k \in TierKeys, NEW others \in SUBSET TierKeys, DemoteOne(k, others)
  PROVE  TierInv'
<1> USE DEF TierInv
<1>1. k \in In(l1) /\ UNCHANGED l1 /\ idle' \in SUBSET TierKeys
  BY DEF DemoteOne, In, TierTypes
<1>2. lru' \in Seq(TierKeys) /\ L1Listed'
  BY <1>1, UsedInMemory DEF DemoteOne
<1>3. files' = [files EXCEPT ![k] = l1[k]]
  BY DEF DemoteOne, PutL2
<1>4. files' \in [TierKeys -> Values]
  BY <1>3 DEF TierTypes
<1>5. /\ rest'.todo = "forget" /\ rest'.key = k
      /\ rest' \in [todo : Steps, key : TierKeys \cup {NotThere}, value : Values, cold : SUBSET TierKeys]
  BY DEF DemoteOne, Steps, Values
<1>6. TierTypes'
  BY <1>1, <1>2, <1>4, <1>5 DEF TierTypes
<1>7. SameValue'
  BY <1>1, <1>3, <1>5 DEF TierTypes, SameValue, In
<1>8. QED
  BY <1>2, <1>6, <1>7

LEMMA NextColdInv == ASSUME TierInv, ~WritesFail, NEW k \in TierKeys, NextCold(k) PROVE TierInv'
<1>1. rest.todo = "demote" /\ rest.cold \ {k} \in SUBSET TierKeys
  BY DEF NextCold, TierInv, TierTypes
<1>2. CASE DemoteOne(k, rest.cold \ {k})
  BY <1>1, <1>2, DemoteOneInv
<1>3. CASE ~Alive(1, k) /\ DropL1(k) /\ UNCHANGED files
           /\ rest' = IF rest.cold = {k} THEN Nothing ELSE [rest EXCEPT !.cold = @ \ {k}]
  <2>1. /\ l1' \in [TierKeys -> Values] /\ lru' \in Seq(TierKeys) /\ idle' \in SUBSET TierKeys
        /\ L1Listed'
        /\ l1'[k] = NotThere /\ \A x \in TierKeys \ {k} : l1'[x] = l1[x]
    BY <1>3, DroppedFromMemory DEF TierInv
  <2>2. /\ rest'.todo \in {"nothing", "demote"}
        /\ rest' \in [todo : Steps, key : TierKeys \cup {NotThere}, value : Values, cold : SUBSET TierKeys]
    <3>1. CASE rest.cold = {k}
      BY <1>3, <3>1 DEF Nothing, Steps, Values
    <3>2. CASE rest.cold # {k}
      BY <1>1, <1>3, <3>2 DEF TierInv, TierTypes
    <3>3. QED
      BY <3>1, <3>2
  <2>3. TierTypes'
    BY <1>3, <2>1, <2>2 DEF TierInv, TierTypes
  <2>4. SameValue'
    BY <1>1, <1>3, <2>1, <2>2 DEF TierInv, SameValue, In
  <2>5. QED
    BY <2>1, <2>3, <2>4 DEF TierInv
<1>4. QED
  BY <1>2, <1>3 DEF NextCold

\* The second tier of a call catches up with the first.
LEMMA FinishInv == ASSUME TierInv, ~WritesFail, Finish PROVE TierInv'
<1> USE DEF TierInv
<1> DEFINE k == rest.key
<1>1. /\ rest'.todo \in {"nothing", "demote"}
      /\ rest' \in [todo : Steps, key : TierKeys \cup {NotThere}, value : Values, cold : SUBSET TierKeys]
  <2>1. rest' = IF rest.cold = {} THEN Nothing ELSE [Nothing EXCEPT !.todo = "demote", !.cold = rest.cold]
    BY DEF Finish
  <2>2. rest.cold \in SUBSET TierKeys
    BY DEF TierTypes
  <2>3. QED
    BY <2>1, <2>2 DEF Nothing, Steps, Values
<1>2. CASE rest.todo = "write"
  <2>1. /\ k \in TierKeys /\ rest.value \in TierValues /\ l1[k] = rest.value
        /\ files' = [files EXCEPT ![k] = rest.value] /\ UNCHANGED <<l1, lru, idle>>
    BY <1>2 DEF Finish, PutL2, TierTypes
  <2>2. L1Listed'
    BY <2>1, MemoryLeft
  <2>3. TierTypes'
    BY <1>1, <2>1 DEF TierTypes, Values
  <2>4. SameValue'
    BY <1>1, <1>2, <2>1 DEF TierTypes, SameValue, In
  <2>5. QED
    BY <2>2, <2>3, <2>4
<1>3. CASE rest.todo = "unfile"
  <2>1. /\ k \in TierKeys
        /\ files' = [files EXCEPT ![k] = NotThere] /\ UNCHANGED <<l1, lru, idle>>
    BY <1>3 DEF Finish, DropL2, TierTypes
  <2>2. L1Listed'
    BY <2>1, MemoryLeft
  <2>3. TierTypes'
    BY <1>1, <2>1 DEF TierTypes, Values
  <2>4. SameValue'
    BY <1>1, <1>3, <2>1 DEF TierTypes, SameValue, In
  <2>5. QED
    BY <2>2, <2>3, <2>4
<1>4. CASE rest.todo = "forget"
  <2>1. k \in TierKeys /\ DropL1(k) /\ UNCHANGED files
    BY <1>4 DEF Finish, TierTypes
  <2>2. /\ l1' \in [TierKeys -> Values] /\ lru' \in Seq(TierKeys) /\ idle' \in SUBSET TierKeys
        /\ L1Listed'
        /\ l1'[k] = NotThere /\ \A x \in TierKeys \ {k} : l1'[x] = l1[x]
    BY <2>1, DroppedFromMemory
  <2> HIDE DEF k
  <2>3. TierTypes'
    BY <1>1, <2>1, <2>2 DEF TierTypes
  <2>4. SameValue'
    BY <1>1, <1>4, <2>1, <2>2 DEF SameValue, In
  <2>5. QED
    BY <2>2, <2>3, <2>4
<1>5. QED
  BY <1>2, <1>3, <1>4 DEF Finish

\* Every step keeps the invariant.
LEMMA TierStepInv == ASSUME ~WritesFail, TierInv, [TierNext]_tierVars PROVE TierInv'
<1>1. ASSUME NEW k \in TierKeys, GetEntry(k) \/ Delete(k) \/ Promote(k) PROVE TierInv'
  BY <1>1, GetEntryInv, DeleteInv, PromoteInv
<1>2. ASSUME NEW k \in TierKeys, Demote(k) PROVE TierInv'
  <2>1. rest.todo # "write" /\ DemoteOne(k, {})
    BY <1>2 DEF Demote, Nothing
  <2>2. QED
    BY <2>1, DemoteOneInv
<1>3. ASSUME NEW k \in TierKeys, NextCold(k) PROVE TierInv'
  BY <1>3, NextColdInv
<1>4. ASSUME NEW k \in TierKeys, NEW v \in TierValues, Set(k, v) PROVE TierInv'
  BY <1>4, SetInv
<1>5. CASE DemoteColdEntries
  <2>1. /\ rest'.todo = "demote" /\ rest.todo # "write"
        /\ rest' \in [todo : Steps, key : TierKeys \cup {NotThere}, value : Values, cold : SUBSET TierKeys]
    BY <1>5 DEF DemoteColdEntries, Nothing, TierInv, TierTypes, Steps, Values
  <2>2. L1Listed'
    BY <1>5, MemoryLeft DEF DemoteColdEntries, TierInv
  <2>3. QED
    BY <1>5, <2>1, <2>2 DEF DemoteColdEntries, TierInv, TierTypes, SameValue, In
<1>6. CASE Finish
  BY <1>6, FinishInv
<1>7. CASE Time
  <2>1. idle' \in SUBSET TierKeys /\ UNCHANGED <<l1, lru, files, rest>>
    BY <1>7 DEF Time, TierInv, TierTypes, In
  <2>2. L1Listed'
    BY <2>1, MemoryLeft DEF TierInv
  <2>3. QED
    BY <2>1, <2>2 DEF TierInv, TierTypes, SameValue, In
<1>8. CASE EndOfProcess
  <2>1. /\ l1' = [k \in TierKeys |-> NotThere] /\ lru' = <<>> /\ idle' = {} /\ UNCHANGED files
        /\ rest' = Nothing
    BY <1>8 DEF EndOfProcess
  <2>2. In(l1') = {}
    BY <2>1 DEF In
  <2>3. Range(lru') = {}
    BY <2>1, EmptyRange
  <2>4. L1Listed'
    <3>1. Cardinality(In(l1')) <= MaxInMemory
      BY <2>2, FS_EmptySet, TierAssumption
    <3>2. In(l1)' = In(l1')
      BY DEF In
    <3>3. QED
      BY <2>2, <2>3, <3>1, <3>2 DEF L1Listed, MemoryBounded
  <2>5. /\ rest'.todo = "nothing"
        /\ rest' \in [todo : Steps, key : TierKeys \cup {NotThere}, value : Values, cold : SUBSET TierKeys]
    BY <2>1 DEF Nothing, Steps, Values
  <2>6. TierTypes'
    BY <2>1, <2>5 DEF TierInv, TierTypes, Values
  <2>7. SameValue'
    BY <2>1, <2>2 DEF SameValue, In
  <2>8. QED
    BY <2>4, <2>6, <2>7 DEF TierInv
<1>9. CASE UNCHANGED tierVars
  BY <1>9 DEF TierInv, TierTypes, L1Listed, MemoryBounded, SameValue, In, tierVars
<1>10. QED
  BY <1>1, <1>2, <1>3, <1>4, <1>5, <1>6, <1>7, <1>8, <1>9 DEF TierNext

\* Between calls memory and the file hold the same value of a key, and memory
\* keeps to its capacity, whatever is set, promoted, demoted, evicted or
\* expires, and wherever the process ends; unless a file cannot be written
\* (TieredStorage, MemoryStorage).
THEOREM TiersAlwaysHold == ASSUME ~WritesFail PROVE TierSpec => []TiersHold
<1>1. TierInv /\ [TierNext]_tierVars => TierInv'
  BY TierStepInv
<1>2. TierInv => TiersHold
  BY DEF TierInv, L1Listed, SameValue, TiersHold, TiersAgree, Nothing
<1>3. QED
  BY <1>1, <1>2, TierInitInv, PTL DEF TierSpec

-----------------------------------------------------------------------------
(* RuntimeStore.                                                            *)

Notes == [id : MessageIds, job : Jobs]
Rows == [kind : Kinds, job : Jobs, is : {"none", "turn", "open", "done"}]
Snapshots == [rows : SUBSET Rows, transcript : Seq(Notes), titles : SUBSET Chats,
              runs : SUBSET Jobs, questions : SUBSET Jobs, plans : SUBSET Jobs]
TablesOfDisk == [rows : SUBSET Rows, transcript : Seq(Notes), titles : SUBSET Chats, sequence : Nat]
FileOfDisk == [snapshot : Snapshots, sequence : Nat]
Writes == Kinds \cup {"save", "row", "sequence", "transcript", "title", "retitle", "return"}
Calls == [todo : Seq(Writes), event : Events \cup {NoEvent}, chat : Chats \cup {"none"}, found : SUBSET Jobs]

StoreTypes ==
  /\ backend \in Backends
  /\ mem \in Snapshots
  /\ disk \in (IF backend = "json" THEN FileOfDisk ELSE TablesOfDisk)
  /\ sequence \in Nat /\ issued \in Nat
  /\ call \in Calls
  /\ gone \in SUBSET Jobs

\* The writes of a deletion that are still to come: the run goes first.
Deletions == Kinds \cup {"transcript", "title", "retitle", "return"}

\* What a call has still to do, by what it is.
CallKnown ==
  /\ call.event # NoEvent =>
       /\ call.found = {} /\ call.event.job \notin gone
       /\ call.todo \in (IF backend = "json" THEN {<<"save", "return">>, <<"return">>}
                         ELSE {<<"row", "sequence", "return">>, <<"sequence", "return">>, <<"return">>})
  /\ call.event = NoEvent => Range(call.todo) \subseteq IF backend = "json" THEN {"save", "return"} ELSE Deletions
  /\ \A i \in 2 .. Len(call.todo) : call.todo[i] # "run"
  /\ \A i \in 1 .. (Len(call.todo) - 1) : call.todo[i] # "return"

\* What is on disk has a number no smaller than any that was returned, and
\* the number of the event being recorded once it has been written.
NumbersKept ==
  /\ issued <= disk.sequence /\ disk.sequence <= sequence
  /\ (call.event # NoEvent /\ call.todo = <<"return">>) => disk.sequence = sequence

RowsOf(s, j) == {r \in s.rows : r.job = j}
NotesOf(s, j) == {m \in Range(s.transcript) : m.job = j}
Without(s, j) == RowsOf(s, j) = {} /\ NotesOf(s, j) = {}

\* Of a job being deleted memory has nothing, and the disk what is to come.
DeletionKnown ==
  \A j \in call.found :
    /\ Without(mem, j)
    /\ backend = "json" /\ "save" \notin Range(call.todo) => Without(disk.snapshot, j)
    /\ backend = "sqlite" =>
         /\ \A r \in RowsOf(disk, j) : r.kind \in Range(call.todo)
         /\ NotesOf(disk, j) # {} => "transcript" \in Range(call.todo)

GoneKnown == \A j \in gone : Without(mem, j) /\ Without(Restored, j)

StoreInv == StoreTypes /\ CallKnown /\ NumbersKept /\ DeletionKnown /\ GoneKnown

\* What an event is, by its type.
LEMMA EventKinds ==
  ASSUME NEW e \in Events
  PROVE  /\ e.job \in Jobs /\ e # NoEvent
         /\ \/ e.type = "run" /\ e.is \in {"none", "turn"}
            \/ e.type = "turn" /\ e.is \in {"open", "done"}
            \/ e.type \in Range(Tables) /\ e.is \in {"open", "done"}
            \/ e.type = "message" /\ e.is \in MessageIds
            \/ e.type = "hint"
<1>1. e.type # "none" /\ e.job \in Jobs
  BY StoreAssumption DEF Events
<1>2. NoEvent.type = "none"
  BY DEF NoEvent
<1>3. QED
  BY <1>1, <1>2 DEF Events

\* A record goes in the place of the one of its kind and job.
LEMMA UpsertedFine ==
  ASSUME NEW rows \in SUBSET Rows, NEW row \in Rows
  PROVE  /\ Upserted(rows, row) \in SUBSET Rows
         /\ Upserted(rows, row) \subseteq rows \cup {row}
         /\ \A r \in rows : Has(Upserted(rows, row), r.kind, r.job)
BY DEF Upserted, Has

\* Recording an event adds to what there is of its job alone.
LEMMA ReduceFine ==
  ASSUME NEW s \in Snapshots, NEW e \in Events
  PROVE  /\ Reduce(s, e) \in Snapshots
         /\ \A j \in Jobs : j # e.job /\ Without(s, j) => Without(Reduce(s, e), j)
<1> DEFINE t == Reduce(s, e)
           Grown == /\ t \in Snapshots
                    /\ \A r \in t.rows : r \in s.rows \/ r.job = e.job
                    /\ Range(t.transcript) \subseteq Range(s.transcript) \cup {m \in Notes : m.job = e.job}
<1>0. /\ s.rows \in SUBSET Rows /\ s.transcript \in Seq(Notes) /\ s.titles \in SUBSET Chats
      /\ s.runs \in SUBSET Jobs /\ s.questions \in SUBSET Jobs /\ s.plans \in SUBSET Jobs /\ e.job \in Jobs
  BY EventKinds DEF Snapshots
<1>1. ASSUME e.type = "run" PROVE Grown
  <2> DEFINE new == Row("run", e.job, e.is)
  <2>1. new \in Rows /\ new.job = e.job
    BY <1>0, <1>1, EventKinds, StoreAssumption DEF Row, Rows, Kinds
  <2> HIDE DEF new
  <2>2. t = [s EXCEPT !.rows = Upserted(@, new), !.runs = @ \cup {e.job}]
    BY <1>1, StoreAssumption DEF Reduce, new
  <2>3. Upserted(s.rows, new) \in SUBSET Rows /\ Upserted(s.rows, new) \subseteq s.rows \cup {new}
    BY <1>0, <2>1, UpsertedFine
  <2> HIDE DEF t
  <2>4. t \in Snapshots /\ t.rows = Upserted(s.rows, new) /\ t.transcript = s.transcript
    BY <1>0, <2>2, <2>3 DEF Snapshots
  <2>5. QED
    BY <2>1, <2>3, <2>4
<1>2. ASSUME e.type = "turn" PROVE Grown
  <2> DEFINE run == Row("run", e.job, "turn")
             turn == Row("turn", e.job, e.is)
             base == IF Has(s.rows, "run", e.job) THEN Upserted(s.rows, run) ELSE s.rows
  <2>1. run \in Rows /\ run.job = e.job /\ turn \in Rows /\ turn.job = e.job
    BY <1>0, <1>2, EventKinds, StoreAssumption DEF Row, Rows, Kinds
  <2>2. t = [s EXCEPT !.rows = Upserted(base, turn)]
    BY <1>2, StoreAssumption DEF Reduce
  <2> HIDE DEF run, turn
  <2>3. base \in SUBSET Rows /\ base \subseteq s.rows \cup {run}
    BY <1>0, <2>1, UpsertedFine
  <2> HIDE DEF base
  <2>4. Upserted(base, turn) \in SUBSET Rows /\ Upserted(base, turn) \subseteq s.rows \cup {run, turn}
    BY <2>1, <2>3, UpsertedFine
  <2> HIDE DEF t
  <2>5. t \in Snapshots /\ t.rows = Upserted(base, turn) /\ t.transcript = s.transcript
    BY <1>0, <2>2, <2>4 DEF Snapshots
  <2>6. QED
    BY <2>1, <2>4, <2>5
<1>3. ASSUME e.type \in Range(Tables) PROVE Grown
  <2> DEFINE new == Row(e.type, e.job, e.is)
  <2>1. new \in Rows /\ new.job = e.job /\ e.type \notin {"run", "turn"}
    BY <1>0, <1>3, EventKinds, StoreAssumption DEF Row, Rows, Kinds
  <2> HIDE DEF new
  <2>2. t = [s EXCEPT !.rows = Upserted(@, new),
                      !.plans = IF e.type = "task" THEN @ \cup {e.job} ELSE @,
                      !.questions = IF e.type = "suspension" THEN @ \cup {e.job} ELSE @]
    BY <1>3, <2>1, StoreAssumption DEF Reduce, new
  <2>3. Upserted(s.rows, new) \in SUBSET Rows /\ Upserted(s.rows, new) \subseteq s.rows \cup {new}
    BY <1>0, <2>1, UpsertedFine
  <2> HIDE DEF t
  <2>4. t \in Snapshots /\ t.rows = Upserted(s.rows, new) /\ t.transcript = s.transcript
    BY <1>0, <2>2, <2>3 DEF Snapshots
  <2>5. QED
    BY <2>1, <2>3, <2>4
<1>4. ASSUME e.type = "message" PROVE Grown
  <2> DEFINE new == [id |-> e.is, job |-> e.job]
  <2>1. new \in Notes /\ new.job = e.job
    BY <1>0, <1>4, EventKinds, StoreAssumption DEF Notes
  <2>2. t = [s EXCEPT !.transcript = Append(@, new)]
    BY <1>4, StoreAssumption DEF Reduce
  <2> HIDE DEF new, t
  <2>3. Append(s.transcript, new) \in Seq(Notes)
        /\ Range(Append(s.transcript, new)) = Range(s.transcript) \cup {new}
    BY <1>0, <2>1, AppendRange
  <2>4. t \in Snapshots /\ t.rows = s.rows /\ t.transcript = Append(s.transcript, new)
    BY <1>0, <2>2, <2>3 DEF Snapshots
  <2>5. QED
    BY <2>1, <2>3, <2>4
<1>5. ASSUME e.type = "hint" PROVE Grown
  BY <1>5, StoreAssumption DEF Reduce
<1>6. Grown
  BY <1>1, <1>2, <1>3, <1>4, <1>5, EventKinds
<1> HIDE DEF t
<1>7. \A j \in Jobs : j # e.job /\ Without(s, j) => Without(t, j)
  BY <1>6 DEF Without, RowsOf, NotesOf
<1>8. QED
  BY <1>6, <1>7 DEF t

\* Purging a session leaves nothing of the jobs that are found, and adds
\* nothing of another.
LEMMA PurgeFine ==
  ASSUME NEW s \in Snapshots, NEW chat
  PROVE  /\ Purge(s, chat) \in Snapshots /\ RunsOf(s, chat) \in SUBSET Jobs
         /\ \A j \in RunsOf(s, chat) : Without(Purge(s, chat), j)
         /\ \A j \in Jobs : Without(s, j) => Without(Purge(s, chat), j)
<1> DEFINE t == Purge(s, chat)
           found == RunsOf(s, chat)
           rest1 == {m \in Range(s.transcript) : m.job \notin found}
           notes == KeepOnly(s.transcript, rest1)
<1>0. /\ s.rows \in SUBSET Rows /\ s.transcript \in Seq(Notes) /\ s.titles \in SUBSET Chats
      /\ s.runs \in SUBSET Jobs /\ s.questions \in SUBSET Jobs /\ s.plans \in SUBSET Jobs
  BY DEF Snapshots
<1>1. found \in SUBSET Jobs
  BY DEF RunsOf, JobsOf
<1>2. t = [s EXCEPT !.rows = {r \in @ : r.job \notin found}, !.runs = @ \ found,
                    !.transcript = notes, !.titles = @ \ {chat}]
  BY DEF Purge
<1> HIDE DEF found, t
<1>3. notes \in Seq(Notes) /\ Range(notes) = Range(s.transcript) \cap rest1
  BY <1>0, KeepRange
<1> HIDE DEF notes
<1>4. /\ t \in Snapshots /\ t.transcript = notes
      /\ t.rows = {r \in s.rows : r.job \notin found}
  BY <1>0, <1>2, <1>3 DEF Snapshots
<1>5. \A j \in found : Without(t, j)
  BY <1>3, <1>4 DEF Without, RowsOf, NotesOf
<1>6. \A j \in Jobs : Without(s, j) => Without(t, j)
  BY <1>3, <1>4 DEF Without, RowsOf, NotesOf
<1>7. QED
  BY <1>1, <1>4, <1>5, <1>6 DEF t, found

\* What deleting a session writes: the runs, the rest of the records, the
\* messages and the title, and then it returns.
Schedule == <<"run", "turn">> \o Tables \o <<"transcript", "title", "return">>

LEMMA ScheduleFine ==
  /\ Schedule \in Seq(Writes)
  /\ Range(Schedule) \subseteq Deletions
  /\ Kinds \cup {"transcript", "title"} \subseteq Range(Schedule)
  /\ \A i \in 2 .. Len(Schedule) : Schedule[i] # "run"
  /\ \A i \in 1 .. (Len(Schedule) - 1) : Schedule[i] # "return"
<1> DEFINE n == Len(Tables)
           first == <<"run", "turn">>
           last == <<"transcript", "title", "return">>
<1>1. n \in Nat /\ DOMAIN Tables = 1 .. n /\ Tables \in Seq(Kinds)
      /\ \A i \in 1 .. n : Tables[i] \in Range(Tables)
  BY StoreAssumption DEF Kinds, Range
<1>2. first \in Seq(Writes) /\ last \in Seq(Writes) /\ Tables \in Seq(Writes)
  <2>1. \A i \in 1 .. n : Tables[i] \in Writes
    BY <1>1 DEF Writes, Kinds
  <2>2. first \in Seq(Writes) /\ last \in Seq(Writes)
    BY DEF Writes, Kinds
  <2>3. QED
    BY <1>1, <2>1, <2>2
<1> HIDE DEF n
<1>3. /\ Schedule \in Seq(Writes) /\ Len(Schedule) = n + 5
      /\ Schedule[1] = "run" /\ Schedule[2] = "turn"
      /\ \A i \in 1 .. n : Schedule[i + 2] = Tables[i]
      /\ Schedule[n + 3] = "transcript" /\ Schedule[n + 4] = "title" /\ Schedule[n + 5] = "return"
  <2> DEFINE both == first \o Tables
  <2>1. /\ both \in Seq(Writes) /\ Len(both) = n + 2 /\ both[1] = "run" /\ both[2] = "turn"
        /\ \A i \in 1 .. n : both[i + 2] = Tables[i]
    BY <1>1, <1>2 DEF n
  <2> HIDE DEF both
  <2>2. Schedule = both \o last
    BY DEF Schedule, both
  <2>3. /\ both \o last \in Seq(Writes) /\ Len(both \o last) = n + 5
        /\ \A i \in 1 .. (n + 2) : (both \o last)[i] = both[i]
        /\ (both \o last)[n + 3] = "transcript" /\ (both \o last)[n + 4] = "title"
        /\ (both \o last)[n + 5] = "return"
    BY <1>1, <1>2, <2>1
  <2>4. \A i \in 1 .. n : i + 2 \in 1 .. (n + 2)
    BY <1>1
  <2>5. QED
    BY <1>1, <2>1, <2>2, <2>3, <2>4
<1>4. DOMAIN Schedule = 1 .. (n + 5)
  BY <1>3
<1>5. \A i \in 1 .. (n + 5) :
        i \in {1, 2, n + 3, n + 4, n + 5} \/ (i - 2 \in 1 .. n /\ Schedule[i] = Tables[i - 2])
  BY <1>1, <1>3
<1>6. \A i \in 1 .. (n + 5) :
        /\ Schedule[i] \in Deletions
        /\ Schedule[i] = "run" => i = 1
        /\ Schedule[i] = "return" => i = n + 5
  <2> TAKE i \in 1 .. (n + 5)
  <2>1. CASE i - 2 \in 1 .. n /\ Schedule[i] = Tables[i - 2]
    BY <1>1, <2>1, StoreAssumption DEF Deletions, Kinds
  <2>2. CASE i \in {1, 2, n + 3, n + 4, n + 5}
    BY <1>3, <2>2 DEF Deletions, Kinds
  <2>3. QED
    BY <1>5, <2>1, <2>2
<1>7. \A k \in Range(Tables) : k \in Range(Schedule)
  <2> TAKE k \in Range(Tables)
  <2>1. PICK i \in 1 .. n : k = Tables[i]
    BY <1>1 DEF Range
  <2>2. i + 2 \in DOMAIN Schedule /\ Schedule[i + 2] = k
    BY <1>1, <1>3, <1>4, <2>1
  <2>3. QED
    BY <2>2 DEF Range
<1>8. {"run", "turn", "transcript", "title"} \subseteq Range(Schedule)
  <2>1. 1 \in DOMAIN Schedule /\ 2 \in DOMAIN Schedule /\ n + 3 \in DOMAIN Schedule /\ n + 4 \in DOMAIN Schedule
    BY <1>1, <1>4
  <2>2. QED
    BY <1>3, <2>1 DEF Range
<1>9. Range(Schedule) \subseteq Deletions
  BY <1>4, <1>6 DEF Range
<1>10. \A i \in 2 .. (n + 5) : i \in 1 .. (n + 5) /\ i # 1
  BY <1>1
<1>11. \A i \in 1 .. (n + 4) : i \in 1 .. (n + 5) /\ i # n + 5
  BY <1>1
<1>12. Len(Schedule) - 1 = n + 4
  BY <1>1, <1>3
<1>13. \A i \in 1 .. (Len(Schedule) - 1) : Schedule[i] # "return"
  BY <1>6, <1>11, <1>12
<1>14. \A i \in 2 .. Len(Schedule) : Schedule[i] # "run"
  BY <1>3, <1>6, <1>10
<1>15. Kinds \cup {"transcript", "title"} \subseteq Range(Schedule)
  BY <1>7, <1>8 DEF Kinds
<1>16. QED
  BY <1>3, <1>9, <1>13, <1>14, <1>15

\* What a call has to do when its first write is done.
LEMMA TodoTail ==
  ASSUME call \in Calls, CallKnown, Locked
  PROVE  LET todo == call.todo IN
         /\ todo \in Seq(Writes) /\ Tail(todo) \in Seq(Writes)
         /\ Range(Tail(todo)) \subseteq Range(todo) /\ Range(todo) \subseteq {Head(todo)} \cup Range(Tail(todo))
         /\ Head(todo) \in Range(todo)
         /\ \A i \in 1 .. Len(Tail(todo)) : Tail(todo)[i] # "run"
         /\ \A i \in 2 .. Len(Tail(todo)) : Tail(todo)[i] # "run"
         /\ \A i \in 1 .. (Len(Tail(todo)) - 1) : Tail(todo)[i] # "return"
         /\ Head(todo) # "run" => "run" \notin Range(todo)
         /\ Head(todo) = "return" => todo = <<"return">>
<1> DEFINE todo == call.todo
<1>1. todo \in Seq(Writes) /\ todo # <<>>
  BY DEF Calls, Locked
<1>2. /\ \A i \in 2 .. Len(todo) : todo[i] # "run"
      /\ \A i \in 1 .. (Len(todo) - 1) : todo[i] # "return"
  BY DEF CallKnown
<1> HIDE DEF todo
<1>3. /\ Tail(todo) \in Seq(Writes) /\ Len(Tail(todo)) = Len(todo) - 1 /\ Len(todo) \in Nat \ {0}
      /\ \A i \in 1 .. Len(Tail(todo)) : Tail(todo)[i] = todo[i + 1]
      /\ Head(todo) = todo[1]
  BY <1>1, HeadTailProperties, EmptySeq
<1>4. /\ Range(Tail(todo)) \subseteq Range(todo) /\ Range(todo) \subseteq {Head(todo)} \cup Range(Tail(todo))
      /\ Head(todo) \in Range(todo)
  BY <1>1, TailRange
<1>5. \A i \in 1 .. Len(Tail(todo)) : Tail(todo)[i] # "run"
  BY <1>2, <1>3
<1>6. \A i \in 1 .. (Len(Tail(todo)) - 1) : Tail(todo)[i] # "return"
  BY <1>2, <1>3
<1>7. Head(todo) # "run" => "run" \notin Range(todo)
  <2>1. DOMAIN todo = 1 .. Len(todo)
    BY <1>1
  <2>2. \A i \in DOMAIN todo : i = 1 \/ i \in 2 .. Len(todo)
    BY <1>3, <2>1
  <2>3. QED
    BY <1>2, <1>3, <2>2 DEF Range
<1>8. Head(todo) = "return" => todo = <<"return">>
  <2> SUFFICES ASSUME Head(todo) = "return" PROVE todo = <<"return">>
    OBVIOUS
  <2>1. ~ (1 \in 1 .. (Len(todo) - 1))
    BY <1>2, <1>3
  <2>2. Len(todo) = 1
    BY <1>3, <2>1
  <2>3. QED
    BY <1>1, <1>3, <2>2
<1>9. 2 .. Len(Tail(todo)) \subseteq 1 .. Len(Tail(todo))
  OBVIOUS
<1>10. QED
  BY <1>1, <1>3, <1>4, <1>5, <1>6, <1>7, <1>8, <1>9 DEF todo

\* A start makes of the tables a snapshot with the same records.
LEMMA LoadFine ==
  ASSUME NEW d \in TablesOfDisk
  PROVE  /\ LoadSnapshot(d) \in Snapshots
         /\ LoadSnapshot(d).rows = d.rows /\ LoadSnapshot(d).transcript = d.transcript
         /\ LoadSnapshot(d).titles = d.titles
         /\ \A j : Without(LoadSnapshot(d), j) <=> Without(d, j)
<1> DEFINE of(kind) == {r.job : r \in {x \in d.rows : x.kind = kind}}
           s == [EmptySnapshot EXCEPT !.rows = d.rows, !.transcript = d.transcript, !.titles = d.titles,
                                      !.runs = of("run"), !.questions = of("suspension"), !.plans = of("task")]
<1>1. LoadSnapshot(d) = s
  BY DEF LoadSnapshot
<1>2. \A kind : of(kind) \in SUBSET Jobs
  BY DEF TablesOfDisk, Rows
<1> HIDE DEF of
<1>3. /\ s \in Snapshots /\ s.rows = d.rows /\ s.transcript = d.transcript /\ s.titles = d.titles
  BY <1>2 DEF EmptySnapshot, TablesOfDisk, Snapshots
<1> HIDE DEF s
<1>4. QED
  BY <1>1, <1>3 DEF Without, RowsOf, NotesOf

\* What a start finds is a snapshot.
LEMMA RestoredFine == StoreTypes => Restored \in Snapshots
<1> SUFFICES ASSUME StoreTypes PROVE Restored \in Snapshots
  OBVIOUS
<1>1. CASE backend = "json"
  BY <1>1 DEF Restored, StoreTypes, FileOfDisk
<1>2. CASE backend # "json"
  BY <1>2, LoadFine DEF Restored, StoreTypes
<1>3. QED
  BY <1>1, <1>2

\* A new store is empty.
LEMMA StoreInitInv == StoreInit => StoreInv
<1> SUFFICES ASSUME StoreInit PROVE StoreInv
  OBVIOUS
<1>1. EmptySnapshot \in Snapshots /\ \A j : Without(EmptySnapshot, j)
  BY EmptyRange DEF EmptySnapshot, Snapshots, Without, RowsOf, NotesOf
<1>2. call = NoCall /\ call \in Calls /\ call.event = NoEvent /\ call.found = {} /\ call.todo = <<>>
  BY DEF StoreInit, NoCall, Calls
<1>3. disk \in (IF backend = "json" THEN FileOfDisk ELSE TablesOfDisk) /\ disk.sequence = 0
  <2>1. CASE backend = "json"
    BY <1>1, <2>1 DEF StoreInit, EmptyDisk, FileOfDisk
  <2>2. CASE backend # "json"
    BY <2>2 DEF StoreInit, EmptyDisk, TablesOfDisk
  <2>3. QED
    BY <2>1, <2>2
<1>4. StoreTypes
  BY <1>1, <1>2, <1>3 DEF StoreInit, StoreTypes
<1>5. CallKnown
  BY <1>2, EmptyRange DEF CallKnown
<1>6. NumbersKept
  BY <1>2, <1>3 DEF StoreInit, NumbersKept
<1>7. DeletionKnown /\ GoneKnown
  BY <1>2 DEF StoreInit, DeletionKnown, GoneKnown
<1>8. QED
  BY <1>4, <1>5, <1>6, <1>7 DEF StoreInv

-----------------------------------------------------------------------------
\* Recording an event gives it a number and begins to write it.
LEMMA AppendInv ==
  ASSUME StoreInv, NEW e \in Events, Append_(e)
  PROVE  StoreInv'
<1> USE DEF StoreInv
<1>1. /\ sequence' = sequence + 1 /\ UNCHANGED <<backend, disk, issued>>
      /\ gone' = gone \ {e.job}
      /\ mem' = IF backend = "json" THEN Reduce(mem, e) ELSE mem
  BY DEF Append_
<1>2. /\ call' \in Calls /\ call'.event = e /\ call'.found = {}
      /\ call'.todo = IF backend = "json" THEN <<"save", "return">> ELSE <<"row", "sequence", "return">>
  <2> DEFINE todo == IF backend = "json" THEN <<"save", "return">> ELSE <<"row", "sequence", "return">>
  <2>1. call' = [NoCall EXCEPT !.event = e, !.todo = todo]
    BY DEF Append_
  <2>2. todo \in Seq(Writes)
    <3>1. <<"save", "return">> \in Seq(Writes) /\ <<"row", "sequence", "return">> \in Seq(Writes)
      BY DEF Writes
    <3>2. QED
      BY <3>1
  <2> HIDE DEF todo
  <2>3. call' \in Calls /\ call'.event = e /\ call'.found = {} /\ call'.todo = todo
    BY <2>1, <2>2 DEF NoCall, Calls
  <2>4. QED
    BY <2>3 DEF todo
<1>3. e # NoEvent /\ e.job \in Jobs
  BY EventKinds
<1>4. mem' \in Snapshots /\ \A j \in Jobs : j # e.job /\ Without(mem, j) => Without(mem', j)
  BY <1>1, ReduceFine DEF StoreTypes
<1>5. StoreTypes'
  BY <1>1, <1>2, <1>4 DEF StoreTypes
<1>6. CallKnown'
  <2>1. CASE backend = "json"
    BY <1>1, <1>2, <1>3, <2>1 DEF CallKnown
  <2>2. CASE backend # "json"
    BY <1>1, <1>2, <1>3, <2>2 DEF CallKnown
  <2>3. QED
    BY <2>1, <2>2
<1>7. NumbersKept'
  <2>1. disk.sequence \in Nat
    BY DEF StoreTypes, FileOfDisk, TablesOfDisk
  <2>2. call'.todo # <<"return">>
    BY <1>2
  <2>3. issued <= disk.sequence /\ disk.sequence <= sequence /\ sequence \in Nat /\ issued \in Nat
    BY DEF StoreTypes, NumbersKept
  <2>4. issued' <= disk'.sequence /\ disk'.sequence <= sequence'
    BY <1>1, <2>1, <2>3
  <2>5. QED
    BY <2>2, <2>4 DEF NumbersKept
<1>8. DeletionKnown'
  BY <1>2 DEF DeletionKnown
<1>9. GoneKnown'
  BY <1>1, <1>4 DEF GoneKnown, Restored, StoreTypes
<1>10. QED
  BY <1>5, <1>6, <1>7, <1>8, <1>9

\* Deleting a session takes its jobs out of memory and begins to write that.
LEMMA DeleteSessionInv ==
  ASSUME StoreInv, NEW chat \in Chats, DeleteSession(chat)
  PROVE  StoreInv'
<1> USE DEF StoreInv
<1> DEFINE found == RunsOf(mem, chat)
           todo == IF backend = "sqlite" THEN Schedule
                   ELSE IF found # {} THEN <<"save", "return">> ELSE <<"return">>
<1>1. /\ UNCHANGED <<backend, sequence, disk, issued, gone>> /\ mem' = Purge(mem, chat)
      /\ call' = [NoCall EXCEPT !.chat = chat, !.found = found, !.todo = todo]
  BY DEF DeleteSession, Schedule
<1>2. /\ mem' \in Snapshots /\ found \in SUBSET Jobs
      /\ \A j \in found : Without(mem', j)
      /\ \A j \in Jobs : Without(mem, j) => Without(mem', j)
  BY <1>1, PurgeFine DEF StoreTypes
<1>3. backend \in {"json", "sqlite"}
  BY StoreAssumption DEF StoreTypes
<1>4. todo \in Seq(Writes)
  <2>1. <<"save", "return">> \in Seq(Writes) /\ <<"return">> \in Seq(Writes)
    BY DEF Writes
  <2>2. QED
    BY <2>1, ScheduleFine
<1> HIDE DEF found, todo
<1>5. /\ call' \in Calls /\ call'.event = NoEvent /\ call'.found = found /\ call'.todo = todo
  BY <1>1, <1>2, <1>4 DEF NoCall, Calls
<1>6. StoreTypes'
  BY <1>1, <1>2, <1>5 DEF StoreTypes
<1>7. CallKnown'
  <2>1. CASE backend = "sqlite"
    BY <1>1, <1>5, <2>1, ScheduleFine DEF CallKnown, todo
  <2>2. CASE backend = "json"
    <3>1. todo \in {<<"save", "return">>, <<"return">>}
      BY <2>2 DEF todo
    <3>2. Range(todo) \subseteq {"save", "return"}
      BY <3>1 DEF Range
    <3>3. /\ \A i \in 2 .. Len(todo) : todo[i] # "run"
          /\ \A i \in 1 .. (Len(todo) - 1) : todo[i] # "return"
      <4>1. CASE todo = <<"save", "return">>
        BY <4>1
      <4>2. CASE todo = <<"return">>
        BY <4>2
      <4>3. QED
        BY <3>1, <4>1, <4>2
    <3>4. QED
      BY <1>1, <1>5, <2>2, <3>2, <3>3 DEF CallKnown
  <2>3. QED
    BY <1>3, <2>1, <2>2
<1>8. NumbersKept'
  BY <1>1, <1>5 DEF NumbersKept
<1>9. DeletionKnown'
  <2> SUFFICES ASSUME NEW j \in found
               PROVE  /\ Without(mem', j)
                      /\ backend' = "json" /\ "save" \notin Range(todo) => Without(disk'.snapshot, j)
                      /\ backend' = "sqlite" =>
                           /\ \A r \in RowsOf(disk', j) : r.kind \in Range(todo)
                           /\ NotesOf(disk', j) # {} => "transcript" \in Range(todo)
    BY <1>5 DEF DeletionKnown
  <2>1. CASE backend = "sqlite"
    <3>1. \A r \in RowsOf(disk, j) : r.kind \in Kinds
      BY <2>1 DEF StoreTypes, TablesOfDisk, Rows, RowsOf
    <3>2. QED
      BY <1>1, <1>2, <2>1, <3>1, ScheduleFine DEF todo
  <2>2. CASE backend = "json"
    <3>1. todo = <<"save", "return">>
      BY <2>2 DEF todo
    <3>2. 1 \in DOMAIN todo /\ todo[1] = "save"
      BY <3>1
    <3>3. "save" \in Range(todo)
      BY <3>2 DEF Range
    <3>4. QED
      BY <1>1, <1>2, <2>2, <3>3
  <2>3. QED
    BY <1>3, <2>1, <2>2
<1>10. GoneKnown'
  BY <1>1, <1>2 DEF GoneKnown, Restored, StoreTypes
<1>11. QED
  BY <1>6, <1>7, <1>8, <1>9, <1>10

\* A title is set or deleted, and written.
LEMMA SetTitleInv ==
  ASSUME StoreInv, NEW chat \in Chats, NEW on \in BOOLEAN, SetTitle(chat, on)
  PROVE  StoreInv'
<1> USE DEF StoreInv
<1> DEFINE titles == IF on THEN mem.titles \cup {chat} ELSE mem.titles \ {chat}
           todo == <<IF backend = "json" THEN "save" ELSE "retitle", "return">>
<1>1. /\ UNCHANGED <<backend, sequence, disk, issued, gone>> /\ mem' = [mem EXCEPT !.titles = titles]
      /\ call' = [NoCall EXCEPT !.chat = chat, !.todo = todo]
  BY DEF SetTitle
<1>2. titles \in SUBSET Chats
  BY DEF StoreTypes, Snapshots
<1> HIDE DEF titles
<1>3. mem' \in Snapshots /\ \A j : Without(mem, j) => Without(mem', j)
  <2>1. mem' \in Snapshots /\ mem'.rows = mem.rows /\ mem'.transcript = mem.transcript
    BY <1>1, <1>2 DEF StoreTypes, Snapshots
  <2>2. QED
    BY <2>1 DEF Without, RowsOf, NotesOf
<1>4. /\ todo \in Seq(Writes)
      /\ Range(todo) \subseteq IF backend = "json" THEN {"save", "return"} ELSE Deletions
      /\ \A i \in 2 .. Len(todo) : todo[i] # "run"
      /\ \A i \in 1 .. (Len(todo) - 1) : todo[i] # "return"
  BY DEF Writes, Range, Deletions
<1> HIDE DEF todo
<1>5. /\ call' \in Calls /\ call'.event = NoEvent /\ call'.found = {} /\ call'.todo = todo
  BY <1>1, <1>4 DEF NoCall, Calls
<1>6. StoreTypes'
  BY <1>1, <1>3, <1>5 DEF StoreTypes
<1>7. CallKnown'
  BY <1>1, <1>4, <1>5 DEF CallKnown
<1>8. NumbersKept' /\ DeletionKnown'
  BY <1>1, <1>5 DEF NumbersKept, DeletionKnown
<1>9. GoneKnown'
  BY <1>1, <1>3 DEF GoneKnown, Restored
<1>10. QED
  BY <1>6, <1>7, <1>8, <1>9

-----------------------------------------------------------------------------
\* The first write of a call tells what the call is.
LEMMA FirstWrite ==
  ASSUME StoreTypes, CallKnown, Locked
  PROVE  LET first == Head(call.todo) IN
         /\ first = "save" => backend = "json"
         /\ first = "row" => call.todo = <<"row", "sequence", "return">>
         /\ first = "sequence" => call.todo = <<"sequence", "return">>
         /\ first \in {"row", "sequence"} =>
              /\ backend = "sqlite" /\ call.event # NoEvent
              /\ call.found = {} /\ call.event.job \notin gone
         /\ first \in Kinds \cup {"transcript", "title", "retitle"} => backend = "sqlite" /\ call.event = NoEvent
<1> DEFINE first == Head(call.todo)
<1>1. backend \in {"json", "sqlite"}
  BY StoreAssumption DEF StoreTypes
<1>2. first \in Range(call.todo)
  BY TodoTail DEF StoreTypes
<1>3. Kinds \cap {"save", "row", "sequence", "return", "transcript", "title", "retitle"} = {}
  BY StoreAssumption DEF Kinds
<1>4. CASE call.event = NoEvent
  <2>1. CASE backend = "json"
    <3>1. first \in {"save", "return"}
      BY <1>2, <1>4, <2>1 DEF CallKnown
    <3>2. QED
      BY <1>3, <2>1, <3>1
  <2>2. CASE backend = "sqlite"
    <3>1. first \in Deletions
      BY <1>2, <1>4, <2>2 DEF CallKnown
    <3>2. first \notin {"save", "row", "sequence"}
      BY <1>3, <3>1 DEF Deletions
    <3>3. QED
      BY <1>4, <2>2, <3>2
  <2>3. QED
    BY <1>1, <2>1, <2>2
<1>5. CASE call.event # NoEvent
  <2>1. CASE backend = "json"
    <3>1. call.todo \in {<<"save", "return">>, <<"return">>}
      BY <1>5, <2>1 DEF CallKnown
    <3>2. first \in {"save", "return"}
      BY <3>1
    <3>3. QED
      BY <1>3, <2>1, <3>2
  <2>2. CASE backend = "sqlite"
    <3>1. call.todo \in {<<"row", "sequence", "return">>, <<"sequence", "return">>, <<"return">>}
      BY <1>5, <2>2 DEF CallKnown
    <3>2. /\ first \in {"row", "sequence", "return"}
          /\ first = "row" => call.todo = <<"row", "sequence", "return">>
          /\ first = "sequence" => call.todo = <<"sequence", "return">>
      BY <3>1
    <3>3. call.found = {} /\ call.event.job \notin gone
      BY <1>5 DEF CallKnown
    <3>4. QED
      BY <1>3, <1>5, <2>2, <3>2, <3>3
  <2>3. QED
    BY <1>1, <2>1, <2>2
<1>6. QED
  BY <1>4, <1>5

\* When its first write is done a call goes on with the next.
LEMMA DoneCall ==
  ASSUME StoreTypes, CallKnown, Locked, Head(call.todo) # "return", Done, UNCHANGED <<backend, gone>>
  PROVE  /\ call' \in Calls /\ call'.todo = Tail(call.todo)
         /\ call'.event = call.event /\ call'.found = call.found
         /\ CallKnown'
<1> DEFINE todo == call.todo
<1>1. call \in Calls
  BY DEF StoreTypes
<1>2. /\ Tail(todo) \in Seq(Writes) /\ Range(Tail(todo)) \subseteq Range(todo)
      /\ \A i \in 2 .. Len(Tail(todo)) : Tail(todo)[i] # "run"
      /\ \A i \in 1 .. (Len(Tail(todo)) - 1) : Tail(todo)[i] # "return"
  BY <1>1, TodoTail
<1>3. call' \in Calls /\ call'.todo = Tail(todo) /\ call'.event = call.event /\ call'.found = call.found
  BY <1>1, <1>2 DEF Done, Calls
<1>4. ASSUME call.event # NoEvent
      PROVE  /\ call.found = {} /\ call.event.job \notin gone
             /\ Tail(todo) \in (IF backend = "json" THEN {<<"save", "return">>, <<"return">>}
                                ELSE {<<"row", "sequence", "return">>, <<"sequence", "return">>, <<"return">>})
  <2>1. CASE backend = "json"
    <3>1. todo \in {<<"save", "return">>, <<"return">>}
      BY <1>4, <2>1 DEF CallKnown
    <3>2. todo = <<"save", "return">>
      BY <3>1
    <3>3. Tail(todo) = <<"return">>
      BY <3>2
    <3>4. QED
      BY <1>4, <2>1, <3>3 DEF CallKnown
  <2>2. CASE backend # "json"
    <3>1. todo \in {<<"row", "sequence", "return">>, <<"sequence", "return">>, <<"return">>}
      BY <1>4, <2>2 DEF CallKnown
    <3>2. todo \in {<<"row", "sequence", "return">>, <<"sequence", "return">>}
      BY <3>1
    <3>3. Tail(todo) \in {<<"sequence", "return">>, <<"return">>}
      <4>1. CASE todo = <<"row", "sequence", "return">>
        BY <4>1
      <4>2. CASE todo = <<"sequence", "return">>
        BY <4>2
      <4>3. QED
        BY <3>2, <4>1, <4>2
    <3>4. QED
      BY <1>4, <2>2, <3>3 DEF CallKnown
  <2>3. QED
    BY <2>1, <2>2
<1>5. call.event = NoEvent => Range(Tail(todo)) \subseteq IF backend = "json" THEN {"save", "return"} ELSE Deletions
  BY <1>2 DEF CallKnown
<1> HIDE DEF todo
<1>6. CallKnown'
  BY <1>2, <1>3, <1>4, <1>5 DEF CallKnown
<1>7. QED
  BY <1>3, <1>6 DEF todo

\* A job of which nothing is left stays so as long as nothing of it is added.
LEMMA GoneStays ==
  ASSUME StoreTypes, GoneKnown, backend = "sqlite", disk' \in TablesOfDisk, UNCHANGED <<backend, mem, gone>>,
         \A j \in gone : Without(disk, j) => Without(disk', j)
  PROVE  GoneKnown'
<1>1. disk \in TablesOfDisk
  BY DEF StoreTypes
<1>2. Restored = LoadSnapshot(disk) /\ Restored' = LoadSnapshot(disk')
  BY DEF Restored
<1>3. \A j \in gone : Without(mem, j) /\ Without(disk, j)
  BY <1>1, <1>2, LoadFine DEF GoneKnown
<1>4. \A j \in gone : Without(Restored', j)
  BY <1>2, <1>3, LoadFine
<1>5. QED
  BY <1>3, <1>4 DEF GoneKnown

\* The file is written.
LEMMA SaveInv ==
  ASSUME StoreInv, Save, UNCHANGED <<backend, mem, sequence, issued, gone>>
  PROVE  StoreInv'
<1> USE DEF StoreInv
<1>1. Locked /\ Head(call.todo) = "save" /\ Done /\ disk' = [snapshot |-> mem, sequence |-> sequence]
  BY DEF Save, ToDo
<1>2. backend = "json"
  BY <1>1, FirstWrite
<1>3. /\ call' \in Calls /\ call'.todo = Tail(call.todo)
      /\ call'.event = call.event /\ call'.found = call.found
      /\ CallKnown'
  BY <1>1, DoneCall
<1>4. disk' \in FileOfDisk /\ disk'.snapshot = mem /\ disk'.sequence = sequence
  BY <1>1 DEF StoreTypes, FileOfDisk
<1>5. StoreTypes'
  BY <1>2, <1>3, <1>4 DEF StoreTypes
<1>6. NumbersKept'
  <2>1. issued <= sequence /\ sequence <= sequence
    BY <1>2 DEF NumbersKept, StoreTypes, FileOfDisk
  <2>2. QED
    BY <1>4, <2>1 DEF NumbersKept
<1>7. DeletionKnown'
  BY <1>2, <1>3, <1>4 DEF DeletionKnown
<1>8. GoneKnown'
  BY <1>2, <1>4 DEF GoneKnown, Restored
<1>9. QED
  BY <1>3, <1>5, <1>6, <1>7, <1>8

\* The row of the event is written.
LEMMA StoreRowInv ==
  ASSUME StoreInv, StoreRow, UNCHANGED <<backend, mem, sequence, issued, gone>>
  PROVE  /\ StoreInv'
         /\ backend = "sqlite" /\ \A r \in disk.rows : Has(disk'.rows, r.kind, r.job)
<1> USE DEF StoreInv
<1> DEFINE e == call.event
           note == [id |-> e.is, job |-> e.job]
           row == Row(e.type, e.job, e.is)
<1>1. Locked /\ Head(call.todo) = "row" /\ Done
  BY DEF StoreRow, ToDo
<1>2. /\ backend = "sqlite" /\ e # NoEvent /\ call.found = {} /\ e.job \notin gone
      /\ call.todo = <<"row", "sequence", "return">>
  BY <1>1, FirstWrite
<1>3. /\ call' \in Calls /\ call'.todo = Tail(call.todo)
      /\ call'.event = call.event /\ call'.found = call.found
      /\ CallKnown'
  BY <1>1, DoneCall
<1>4. e \in Events /\ disk \in TablesOfDisk
  BY <1>2 DEF StoreTypes, Calls
<1>5. /\ disk.rows \in SUBSET Rows /\ disk.transcript \in Seq(Notes)
      /\ disk.titles \in SUBSET Chats /\ disk.sequence \in Nat /\ e.job \in Jobs
  BY <1>4, EventKinds DEF TablesOfDisk
<1> DEFINE Fine == /\ disk' \in TablesOfDisk /\ disk'.sequence = disk.sequence
                   /\ \A r \in disk'.rows : r \in disk.rows \/ r.job = e.job
                   /\ \A m \in Range(disk'.transcript) : m \in Range(disk.transcript) \/ m.job = e.job
                   /\ \A r \in disk.rows : Has(disk'.rows, r.kind, r.job)
<1>6. \A r \in disk.rows : Has(disk.rows, r.kind, r.job)
  BY DEF Has
<1>7. ASSUME e.type = "message" PROVE Fine
  <2>1. note \in Notes /\ note.job = e.job
    BY <1>4, <1>5, <1>7, EventKinds, StoreAssumption DEF Notes
  <2>2. disk' = [disk EXCEPT !.transcript = Inserted(@, note)]
    BY <1>7 DEF StoreRow
  <2> HIDE DEF note
  <2>3. /\ Inserted(disk.transcript, note) \in Seq(Notes)
        /\ Range(Inserted(disk.transcript, note)) \subseteq Range(disk.transcript) \cup {note}
    BY <1>5, <2>1, AppendRange DEF Inserted
  <2>4. /\ disk' \in TablesOfDisk /\ disk'.rows = disk.rows /\ disk'.sequence = disk.sequence
        /\ disk'.transcript = Inserted(disk.transcript, note)
    BY <1>4, <1>5, <2>2, <2>3 DEF TablesOfDisk
  <2>5. QED
    BY <1>6, <2>1, <2>3, <2>4
<1>8. ASSUME e.type = "hint" PROVE Fine
  <2>1. disk' = disk
    BY <1>8 DEF StoreRow
  <2>2. QED
    BY <1>4, <1>6, <2>1
<1>9. ASSUME e.type \notin {"message", "hint"} PROVE Fine
  <2>1. row \in Rows /\ row.job = e.job
    BY <1>4, <1>5, <1>9, EventKinds DEF Row, Rows, Kinds
  <2>2. disk' = [disk EXCEPT !.rows = Upserted(@, row)]
    BY <1>9 DEF StoreRow
  <2> HIDE DEF row
  <2>3. /\ Upserted(disk.rows, row) \in SUBSET Rows /\ Upserted(disk.rows, row) \subseteq disk.rows \cup {row}
        /\ \A r \in disk.rows : Has(Upserted(disk.rows, row), r.kind, r.job)
    BY <1>5, <2>1, UpsertedFine
  <2>4. /\ disk' \in TablesOfDisk /\ disk'.transcript = disk.transcript /\ disk'.sequence = disk.sequence
        /\ disk'.rows = Upserted(disk.rows, row)
    BY <1>4, <1>5, <2>2, <2>3 DEF TablesOfDisk
  <2>5. QED
    BY <2>1, <2>3, <2>4
<1>10. Fine
  BY <1>7, <1>8, <1>9
<1> HIDE DEF e, note, row
<1>11. StoreTypes'
  BY <1>2, <1>3, <1>10 DEF StoreTypes
<1>12. NumbersKept'
  <2>1. call'.todo = <<"sequence", "return">>
    BY <1>2, <1>3
  <2>2. QED
    BY <1>10, <2>1 DEF NumbersKept
<1>13. DeletionKnown'
  BY <1>2, <1>3 DEF DeletionKnown
<1>14. GoneKnown'
  <2>1. \A j \in gone : Without(disk, j) => Without(disk', j)
    BY <1>2, <1>10 DEF Without, RowsOf, NotesOf
  <2>2. QED
    BY <1>2, <1>10, <2>1, GoneStays
<1>15. QED
  BY <1>2, <1>3, <1>10, <1>11, <1>12, <1>13, <1>14

\* The number is written.
LEMMA StoreSequenceInv ==
  ASSUME StoreInv, StoreSequence, UNCHANGED <<backend, mem, sequence, issued, gone>>
  PROVE  StoreInv' /\ disk'.rows = disk.rows
<1> USE DEF StoreInv
<1>1. Locked /\ Head(call.todo) = "sequence" /\ Done /\ disk' = [disk EXCEPT !.sequence = sequence]
  BY DEF StoreSequence, ToDo
<1>2. backend = "sqlite" /\ call.found = {}
  BY <1>1, FirstWrite
<1>3. /\ call' \in Calls /\ call'.event = call.event /\ call'.found = call.found
      /\ CallKnown'
  BY <1>1, DoneCall
<1>4. /\ disk' \in TablesOfDisk /\ disk'.sequence = sequence
      /\ disk'.rows = disk.rows /\ disk'.transcript = disk.transcript
  BY <1>1, <1>2 DEF StoreTypes, TablesOfDisk
<1>5. StoreTypes'
  BY <1>2, <1>3, <1>4 DEF StoreTypes
<1>6. NumbersKept'
  <2>1. issued <= sequence /\ sequence <= sequence
    BY <1>2 DEF NumbersKept, StoreTypes, TablesOfDisk
  <2>2. QED
    BY <1>4, <2>1 DEF NumbersKept
<1>7. DeletionKnown'
  BY <1>2, <1>3 DEF DeletionKnown
<1>8. GoneKnown'
  <2>1. \A j \in gone : Without(disk, j) => Without(disk', j)
    BY <1>4 DEF Without, RowsOf, NotesOf
  <2>2. QED
    BY <1>2, <1>4, <2>1, GoneStays
<1>9. QED
  BY <1>3, <1>4, <1>5, <1>6, <1>7, <1>8

\* Without a member it has fewer, and what is kept of it is as before.
LEMMA RemoveShrinks ==
  ASSUME NEW T, NEW s \in Seq(T), NEW i \in 1 .. Len(s)
  PROVE  /\ RemoveAt(s, i) \in Seq(T) /\ Range(RemoveAt(s, i)) \subseteq Range(s)
         /\ IsInjective(s) => IsInjective(RemoveAt(s, i))
         /\ \A S : s[i] \notin S => KeepOnly(RemoveAt(s, i), S) = KeepOnly(s, S)
<1> DEFINE a == SubSeq(s, 1, i - 1)
           b == SubSeq(s, i + 1, Len(s))
<1>0. Len(s) \in Nat /\ i \in Nat /\ i <= Len(s)
  OBVIOUS
<1>1. Len(s) \in Nat /\ DOMAIN s = 1 .. Len(s) /\ i \in Nat /\ 1 <= i /\ i <= Len(s)
  OBVIOUS
<1>2. a \in Seq(T) /\ Len(a) = i - 1 /\ \A k \in 1 .. (i - 1) : a[k] = s[k]
  BY <1>1
<1>3. b \in Seq(T) /\ Len(b) = Len(s) - i /\ \A k \in 1 .. (Len(s) - i) : b[k] = s[i + k]
  <2>1. i + 1 \in 1 .. (Len(s) + 1) /\ Len(s) \in i .. Len(s)
    BY <1>1
  <2>2. b \in Seq(T) /\ Len(b) = (IF i + 1 <= Len(s) THEN Len(s) - (i + 1) + 1 ELSE 0)
        /\ \A k \in 1 .. (Len(s) - (i + 1) + 1) : b[k] = s[(i + 1) + k - 1]
    BY <1>1, <2>1, SubSeqProperties
  <2> HIDE DEF b
  <2>3. Len(b) = Len(s) - i
    <3>1. Len(b) = IF i + 1 <= Len(s) THEN Len(s) - (i + 1) + 1 ELSE 0
      BY ONLY <2>2
    <3>2. QED
      BY ONLY <1>0, <3>1
  <2>4. \A k \in 1 .. (Len(s) - i) : k \in 1 .. (Len(s) - (i + 1) + 1) /\ (i + 1) + k - 1 = i + k
    BY <1>1
  <2>5. \A k \in 1 .. (Len(s) - i) : b[k] = s[i + k]
    BY <2>2, <2>4
  <2>6. QED
    BY <2>2, <2>3, <2>5
<1> HIDE DEF a, b
<1>4. a \o b \in Seq(T) /\ Len(a \o b) = Len(s) - 1 /\ DOMAIN (a \o b) = 1 .. (Len(s) - 1)
  <2>1. a \o b \in Seq(T) /\ Len(a \o b) = Len(a) + Len(b)
    BY <1>2, <1>3, ConcatProperties
  <2>2. Len(a \o b) = Len(s) - 1
    BY <1>1, <1>2, <1>3, <2>1
  <2>3. QED
    BY <2>1, <2>2
<1>5. \A k \in 1 .. (Len(s) - 1) : (a \o b)[k] = IF k <= i - 1 THEN s[k] ELSE s[k + 1]
  <2> TAKE k \in 1 .. (Len(s) - 1)
  <2>1. CASE k <= i - 1
    BY <1>1, <1>2, <1>3, <2>1
  <2>2. CASE ~ (k <= i - 1)
    <3>1. k - (i - 1) \in 1 .. (Len(s) - i) /\ (a \o b)[k] = b[k - (i - 1)]
      BY <1>1, <1>2, <1>3, <2>2
    <3>2. i + (k - (i - 1)) = k + 1
      BY <1>1
    <3>3. QED
      BY <1>3, <2>2, <3>1, <3>2
  <2>3. QED
    BY <2>1, <2>2
<1>6. \A k \in 1 .. (Len(s) - 1) : k \in 1 .. Len(s) /\ k + 1 \in 1 .. Len(s)
  BY <1>1
<1>7. Range(a \o b) \subseteq Range(s)
  <2>1. \A k \in 1 .. (Len(s) - 1) : (a \o b)[k] \in Range(s)
    BY <1>1, <1>5, <1>6 DEF Range
  <2>2. QED
    BY <1>4, <2>1 DEF Range
<1>8. IsInjective(s) => IsInjective(a \o b)
  <2> SUFFICES ASSUME IsInjective(s), NEW j \in 1 .. (Len(s) - 1), NEW k \in 1 .. (Len(s) - 1),
                      (a \o b)[j] = (a \o b)[k]
               PROVE  j = k
    BY <1>4 DEF IsInjective
  <2>1. \A x, y \in 1 .. Len(s) : s[x] = s[y] => x = y
    BY <1>1 DEF IsInjective
  <2>2. (IF j <= i - 1 THEN j ELSE j + 1) = (IF k <= i - 1 THEN k ELSE k + 1)
    BY <1>5, <1>6, <2>1
  <2> QED
    BY <1>1, <2>2
<1> DEFINE m == <<s[i]>>
<1>9. s[i] \in T /\ m \in Seq(T) /\ Len(m) = 1 /\ m[1] = s[i]
  OBVIOUS
<1> HIDE DEF m
<1>10. s = (a \o m) \o b
  <2> DEFINE am == a \o m
  <2>1. am \in Seq(T) /\ Len(am) = i /\ (\A k \in 1 .. (i - 1) : am[k] = a[k]) /\ am[i] = s[i]
    <3>1. /\ am \in Seq(T) /\ Len(am) = Len(a) + Len(m)
          /\ \A k \in 1 .. (Len(a) + Len(m)) : am[k] = IF k <= Len(a) THEN a[k] ELSE m[k - Len(a)]
      BY <1>2, <1>9, ConcatProperties
    <3> HIDE DEF am
    <3>2. Len(a) + Len(m) = i /\ i \in 1 .. i /\ ~ (i <= i - 1) /\ i - (i - 1) = 1
      BY <1>1, <1>2, <1>9
    <3>3. \A k \in 1 .. (i - 1) : k \in 1 .. i /\ k <= i - 1
      BY <1>1
    <3> QED
      BY <1>2, <1>9, <3>1, <3>2, <3>3
  <2> HIDE DEF am
  <2>2. /\ am \o b \in Seq(T) /\ Len(am \o b) = Len(s)
        /\ \A k \in 1 .. Len(s) : (am \o b)[k] = IF k <= i THEN am[k] ELSE b[k - i]
    <3>1. /\ am \o b \in Seq(T) /\ Len(am \o b) = Len(am) + Len(b)
          /\ \A k \in 1 .. (Len(am) + Len(b)) :
               (am \o b)[k] = IF k <= Len(am) THEN am[k] ELSE b[k - Len(am)]
      BY <1>3, <2>1, ConcatProperties
    <3>2. Len(am) + Len(b) = Len(s)
      BY <1>1, <1>3, <2>1
    <3> QED
      BY <2>1, <3>1, <3>2
  <2>3. ASSUME NEW k \in 1 .. Len(s) PROVE (am \o b)[k] = s[k]
    <3>1. CASE k <= i
      <4>1. (am \o b)[k] = am[k]
        BY <2>2, <3>1
      <4>2. k = i \/ k \in 1 .. (i - 1)
        BY <1>1, <3>1
      <4> QED
        BY <1>2, <2>1, <4>1, <4>2
    <3>2. CASE ~ (k <= i)
      <4>1. k - i \in 1 .. (Len(s) - i) /\ i + (k - i) = k
        BY <1>1, <3>2
      <4>2. (am \o b)[k] = b[k - i]
        BY <2>2, <3>2
      <4> QED
        BY <1>3, <4>1, <4>2
    <3> QED
      BY <3>1, <3>2
  <2>4. DOMAIN (am \o b) = 1 .. Len(s)
    BY <2>2
  <2>5. s = am \o b
    <3>1. s = [k \in 1 .. Len(s) |-> s[k]]
      BY <1>1
    <3>2. am \o b = [k \in 1 .. Len(s) |-> (am \o b)[k]]
      BY <2>2, <2>4, LenProperties
    <3> QED
      BY <2>3, <3>1, <3>2
  <2> QED
    BY <2>5 DEF am
<1>11. ASSUME NEW S, s[i] \notin S PROVE KeepOnly(a \o b, S) = KeepOnly(s, S)
  <2>1. KeepOnly(m, S) = <<>>
    <3>1. <<>> \in Seq(T) /\ Append(<<>>, s[i]) = m
      BY <1>9, AppendIsConcat, ConcatEmptySeq DEF m
    <3>2. KeepOnly(Append(<<>>, s[i]), S) = KeepOnly(<<>>, S)
      BY <1>9, <1>11, <3>1, KeepAppend
    <3> QED
      BY <3>1, <3>2, KeepEmpty
  <2>2. a \o m \in Seq(T)
    BY <1>2, <1>9
  <2>3. KeepOnly(a \o m, S) = KeepOnly(a, S) \o <<>>
    <3>1. KeepOnly(a \o m, S) = KeepOnly(a, S) \o KeepOnly(m, S)
      BY <1>2, <1>9, KeepConcat
    <3> QED
      BY <2>1, <3>1
  <2>4. KeepOnly(a, S) \in Seq(T) /\ KeepOnly(a, S) \o <<>> = KeepOnly(a, S)
    BY <1>2, KeepRange, ConcatEmptySeq
  <2>5. KeepOnly((a \o m) \o b, S) = KeepOnly(a \o m, S) \o KeepOnly(b, S)
    BY <1>3, <2>2, KeepConcat
  <2>6. KeepOnly(a \o b, S) = KeepOnly(a, S) \o KeepOnly(b, S)
    BY <1>2, <1>3, KeepConcat
  <2> QED
    <3>1. KeepOnly(s, S) = KeepOnly((a \o m) \o b, S)
      BY <1>10
    <3>2. KeepOnly(a \o m, S) = KeepOnly(a, S)
      BY <2>3, <2>4
    <3> QED
      BY <2>5, <2>6, <3>1, <3>2
<1> QED
  BY <1>4, <1>7, <1>8, <1>11 DEF RemoveAt, a, b

\* A deletion takes away, and passes to the next write when there is nothing
\* left of a kind.
LEMMA DeletionGoesOn ==
  ASSUME StoreInv, Locked, backend = "sqlite", call.event = NoEvent, Head(call.todo) # "return",
         UNCHANGED <<backend, mem, sequence, issued, gone>>,
         disk' \in TablesOfDisk, disk'.sequence = disk.sequence,
         \A j \in Jobs : RowsOf(disk', j) \subseteq RowsOf(disk, j) /\ NotesOf(disk', j) \subseteq NotesOf(disk, j),
         \/ UNCHANGED call
         \/ /\ Done
            /\ \A j \in call.found : \A r \in RowsOf(disk', j) : r.kind # Head(call.todo)
            /\ \A j \in call.found : NotesOf(disk', j) # {} => Head(call.todo) # "transcript"
  PROVE  StoreInv'
<1> USE DEF StoreInv
<1>1. gone \in SUBSET Jobs /\ call \in Calls /\ call.found \in SUBSET Jobs
  BY DEF StoreTypes, Calls
<1>2. /\ call' \in Calls /\ CallKnown' /\ call'.event = NoEvent /\ call'.found = call.found
      /\ \A w \in Range(call.todo) : w \in Range(call'.todo) \/ (w = Head(call.todo) /\ Done)
  <2>1. CASE UNCHANGED call
    BY <1>1, <2>1 DEF CallKnown
  <2>2. CASE Done
    BY <1>1, <2>2, DoneCall, TodoTail
  <2>3. QED
    BY <2>1, <2>2
<1>3. StoreTypes'
  BY <1>2 DEF StoreTypes
<1>4. NumbersKept'
  BY <1>2 DEF NumbersKept
<1>5. DeletionKnown'
  <2> SUFFICES ASSUME NEW j \in call.found
               PROVE  /\ Without(mem, j)
                      /\ \A r \in RowsOf(disk', j) : r.kind \in Range(call'.todo)
                      /\ NotesOf(disk', j) # {} => "transcript" \in Range(call'.todo)
    BY <1>2 DEF DeletionKnown
  <2>1. /\ Without(mem, j) /\ \A r \in RowsOf(disk, j) : r.kind \in Range(call.todo)
        /\ NotesOf(disk, j) # {} => "transcript" \in Range(call.todo)
    BY DEF DeletionKnown
  <2>2. RowsOf(disk', j) \subseteq RowsOf(disk, j) /\ NotesOf(disk', j) \subseteq NotesOf(disk, j)
    BY <1>1
  <2>3. CASE UNCHANGED call
    BY <2>1, <2>2, <2>3
  <2>4. CASE /\ Done
             /\ \A x \in call.found : \A r \in RowsOf(disk', x) : r.kind # Head(call.todo)
             /\ \A x \in call.found : NotesOf(disk', x) # {} => Head(call.todo) # "transcript"
    BY <1>2, <2>1, <2>2, <2>4
  <2>5. QED
    BY <2>3, <2>4
<1>6. GoneKnown'
  <2>1. \A j \in gone : Without(disk, j) => Without(disk', j)
    BY <1>1 DEF Without
  <2>2. QED
    BY <2>1, GoneStays
<1>7. QED
  BY <1>2, <1>3, <1>4, <1>5, <1>6

\* A row of a deleted job is taken away, or there is none left of its kind.
LEMMA DeleteRowsInv ==
  ASSUME StoreInv, DeleteRows, UNCHANGED <<backend, mem, sequence, issued, gone>>
  PROVE  /\ StoreInv'
         /\ backend = "sqlite"
         /\ \A r \in disk.rows : r \in disk'.rows \/ (r.kind = Head(call.todo) /\ r.job \in call.found)
<1> USE DEF StoreInv
<1> DEFINE hit == {r \in disk.rows : r.kind = Head(call.todo) /\ r.job \in call.found}
<1>1. Locked /\ Head(call.todo) \in Kinds
  BY DEF DeleteRows
<1>2. backend = "sqlite" /\ call.event = NoEvent
  BY <1>1, FirstWrite
<1>3. disk \in TablesOfDisk /\ Head(call.todo) \notin {"return", "transcript"} /\ call.found \in SUBSET Jobs
  BY <1>1, <1>2, StoreAssumption DEF StoreTypes, Kinds, Calls
<1>4. CASE \E r \in hit : disk' = [disk EXCEPT !.rows = @ \ {r}] /\ UNCHANGED call
  <2>1. PICK r \in hit : disk' = [disk EXCEPT !.rows = @ \ {r}] /\ UNCHANGED call
    BY <1>4
  <2>2. /\ disk' \in TablesOfDisk /\ disk'.sequence = disk.sequence
        /\ disk'.rows = disk.rows \ {r} /\ disk'.transcript = disk.transcript
    BY <1>3, <2>1 DEF TablesOfDisk
  <2>3. \A j \in Jobs : RowsOf(disk', j) \subseteq RowsOf(disk, j) /\ NotesOf(disk', j) \subseteq NotesOf(disk, j)
    BY <2>2 DEF RowsOf, NotesOf
  <2>4. StoreInv'
    BY <1>1, <1>2, <1>3, <2>1, <2>2, <2>3, DeletionGoesOn
  <2>5. QED
    BY <1>2, <2>1, <2>2, <2>4
<1>5. CASE hit = {} /\ Done /\ UNCHANGED disk
  <2>1. \A j \in call.found : \A r \in RowsOf(disk', j) : r.kind # Head(call.todo)
    BY <1>5 DEF RowsOf
  <2>2. StoreInv'
    BY <1>1, <1>2, <1>3, <1>5, <2>1, DeletionGoesOn
  <2>3. QED
    BY <1>2, <1>5, <2>2
<1>6. QED
  BY <1>4, <1>5 DEF DeleteRows

\* A message of a deleted job is taken away, or there is none left.
LEMMA DeleteTranscriptInv ==
  ASSUME StoreInv, DeleteTranscript, UNCHANGED <<backend, mem, sequence, issued, gone>>
  PROVE  StoreInv' /\ disk'.rows = disk.rows
<1> USE DEF StoreInv
<1> DEFINE hit(m) == m.job \in call.found
           notes == disk.transcript
<1>1. Locked /\ Head(call.todo) = "transcript"
  BY DEF DeleteTranscript, ToDo
<1>2. backend = "sqlite" /\ call.event = NoEvent
  BY <1>1, FirstWrite
<1>3. disk \in TablesOfDisk /\ notes \in Seq(Notes) /\ call.found \in SUBSET Jobs
  BY <1>2 DEF StoreTypes, TablesOfDisk, Calls
<1>4. CASE \E m \in Range(notes) : hit(m)
  <2> DEFINE I == {i \in 1 .. Len(notes) : hit(notes[i])}
  <2>1. disk' = [disk EXCEPT !.transcript = RemoveFirstMatch(@, hit)] /\ UNCHANGED call
    BY <1>4 DEF DeleteTranscript
  <2>2. I # {} /\ I \in SUBSET Nat
    <3>1. PICK m \in Range(notes) : hit(m)
      BY <1>4
    <3>2. PICK i \in 1 .. Len(notes) : notes[i] = m
      BY <1>3, <3>1 DEF Range
    <3>3. QED
      BY <3>1, <3>2
  <2>3. RemoveFirstMatch(notes, hit) = RemoveAt(notes, Min(I))
    BY <2>2 DEF RemoveFirstMatch, SelectInSeq
  <2>4. Min(I) \in 1 .. Len(notes)
    BY <2>2, LeastOf
  <2>5. RemoveAt(notes, Min(I)) \in Seq(Notes) /\ Range(RemoveAt(notes, Min(I))) \subseteq Range(notes)
    BY <1>3, <2>4, RemoveShrinks
  <2>6. disk' = [disk EXCEPT !.transcript = RemoveAt(notes, Min(I))]
    BY <2>1, <2>3
  <2> HIDE DEF I
  <2>7. /\ disk' \in TablesOfDisk /\ disk'.sequence = disk.sequence /\ disk'.rows = disk.rows
        /\ Range(disk'.transcript) \subseteq Range(disk.transcript)
    BY <1>3, <2>5, <2>6 DEF TablesOfDisk
  <2>8. \A j \in Jobs : RowsOf(disk', j) \subseteq RowsOf(disk, j) /\ NotesOf(disk', j) \subseteq NotesOf(disk, j)
    BY <2>7 DEF RowsOf, NotesOf
  <2>9. QED
    BY <1>1, <1>2, <2>1, <2>7, <2>8, DeletionGoesOn
<1>5. CASE ~ \E m \in Range(notes) : hit(m)
  <2>1. Done /\ UNCHANGED disk
    BY <1>5 DEF DeleteTranscript
  <2>2. \A j \in call.found : NotesOf(disk', j) = {}
    BY <1>5, <2>1 DEF NotesOf
  <2>3. \A j \in call.found : \A r \in RowsOf(disk', j) : r.kind # Head(call.todo)
    BY <1>1, <1>3, <2>1, StoreAssumption DEF RowsOf, TablesOfDisk, Rows, Kinds
  <2>4. QED
    BY <1>1, <1>2, <1>3, <2>1, <2>2, <2>3, DeletionGoesOn
<1>6. QED
  BY <1>4, <1>5

\* A title is taken away, or written.
LEMMA WriteTitleInv ==
  ASSUME StoreInv, DeleteTitle \/ Retitle, UNCHANGED <<backend, mem, sequence, issued, gone>>
  PROVE  StoreInv' /\ disk'.rows = disk.rows
<1> USE DEF StoreInv
<1>1. Locked /\ Head(call.todo) \in {"title", "retitle"} /\ Done
  BY DEF DeleteTitle, Retitle, ToDo
<1>2. backend = "sqlite" /\ call.event = NoEvent
  BY <1>1, FirstWrite
<1>3. disk \in TablesOfDisk /\ call.found \in SUBSET Jobs /\ mem.titles \in SUBSET Chats
  BY <1>2 DEF StoreTypes, Calls, Snapshots
<1>4. PICK titles \in SUBSET Chats : disk' = [disk EXCEPT !.titles = titles]
  <2>1. disk.titles \ {call.chat} \in SUBSET Chats
    BY <1>3 DEF TablesOfDisk
  <2>2. disk' = [disk EXCEPT !.titles = disk.titles \ {call.chat}] \/ disk' = [disk EXCEPT !.titles = mem.titles]
    BY DEF DeleteTitle, Retitle
  <2>3. QED
    BY <1>3, <2>1, <2>2
<1>5. /\ disk' \in TablesOfDisk /\ disk'.sequence = disk.sequence
      /\ disk'.rows = disk.rows /\ disk'.transcript = disk.transcript
  BY <1>3, <1>4 DEF TablesOfDisk
<1>6. \A j \in Jobs : RowsOf(disk', j) = RowsOf(disk, j) /\ NotesOf(disk', j) = NotesOf(disk, j)
  BY <1>5 DEF RowsOf, NotesOf
<1>7. \A j \in call.found : \A r \in RowsOf(disk', j) : r.kind # Head(call.todo)
  BY <1>1, <1>5, StoreAssumption DEF RowsOf, TablesOfDisk, Rows, Kinds
<1>8. QED
  BY <1>1, <1>2, <1>5, <1>6, <1>7, DeletionGoesOn

\* A call ends: an event is in memory, and its number on disk; of the jobs
\* of a deletion nothing is left.
LEMMA ReturnInv ==
  ASSUME StoreInv, Return
  PROVE  StoreInv'
<1> USE DEF StoreInv
<1>1. /\ Locked /\ Head(call.todo) = "return" /\ call' = NoCall /\ gone' = gone \cup call.found
      /\ UNCHANGED <<backend, sequence, disk>>
  BY DEF Return, ToDo
<1>2. call \in Calls /\ call.found \in SUBSET Jobs /\ gone \in SUBSET Jobs
  BY DEF StoreTypes, Calls
<1>3. call.todo = <<"return">>
  BY <1>1, <1>2, TodoTail
<1>4. Range(call.todo) = {"return"}
  BY <1>3 DEF Range
<1>5. call' \in Calls /\ call'.event = NoEvent /\ call'.found = {} /\ call'.todo = <<>>
  BY <1>1 DEF NoCall, Calls
<1>6. CallKnown'
  BY <1>5, EmptyRange DEF CallKnown
<1>7. /\ mem' \in Snapshots /\ issued' \in Nat /\ issued' <= disk.sequence
      /\ \A j \in gone : Without(mem', j)
      /\ call.event # NoEvent => call.found = {}
      /\ call.event = NoEvent => mem' = mem
  <2>1. CASE call.event = NoEvent
    <3>1. UNCHANGED <<mem, issued>>
      BY <2>1 DEF Return
    <3>2. QED
      BY <2>1, <3>1 DEF StoreTypes, NumbersKept, GoneKnown
  <2>2. CASE call.event # NoEvent
    <3>1. issued' = sequence /\ mem' = IF backend = "json" THEN mem ELSE Reduce(mem, call.event)
      BY <2>2 DEF Return
    <3>2. disk.sequence = sequence
      BY <1>3, <2>2 DEF NumbersKept
    <3>3. call.event \in Events /\ call.event.job \notin gone /\ call.found = {}
      BY <1>2, <2>2 DEF Calls, CallKnown
    <3>4. mem \in Snapshots /\ sequence \in Nat /\ \A j \in gone : Without(mem, j)
      BY DEF StoreTypes, GoneKnown
    <3>5. /\ Reduce(mem, call.event) \in Snapshots
          /\ \A j \in gone : Without(Reduce(mem, call.event), j)
      BY <1>2, <3>3, <3>4, ReduceFine
    <3>6. QED
      BY <2>2, <3>1, <3>2, <3>3, <3>4, <3>5
  <2>3. QED
    BY <2>1, <2>2
<1>8. StoreTypes'
  BY <1>1, <1>2, <1>5, <1>7 DEF StoreTypes
<1>9. NumbersKept'
  BY <1>1, <1>5, <1>7 DEF NumbersKept
<1>10. DeletionKnown'
  BY <1>5 DEF DeletionKnown
<1>11. GoneKnown'
  <2>1. ASSUME NEW j \in call.found PROVE Without(mem', j) /\ Without(Restored, j)
    <3>1. Without(mem, j) /\ mem' = mem
      BY <1>7, <2>1 DEF DeletionKnown
    <3>2. CASE backend = "json"
      BY <1>4, <2>1, <3>1, <3>2 DEF DeletionKnown, Restored
    <3>3. CASE backend # "json"
      <4>1. backend = "sqlite" /\ disk \in TablesOfDisk
        BY <3>3, StoreAssumption DEF StoreTypes
      <4>2. \A r \in RowsOf(disk, j) : r.kind \in Kinds
        BY <4>1 DEF RowsOf, TablesOfDisk, Rows
      <4>3. "return" \notin Kinds
        BY StoreAssumption DEF Kinds
      <4>4. Without(disk, j)
        BY <1>4, <2>1, <4>1, <4>2, <4>3 DEF DeletionKnown, Without
      <4>5. QED
        BY <3>1, <3>3, <4>1, <4>4, LoadFine DEF Restored
    <3>4. QED
      BY <3>2, <3>3
  <2>2. Restored' = Restored
    BY <1>1 DEF Restored
  <2>3. \A j \in gone : Without(mem', j) /\ Without(Restored, j)
    BY <1>7 DEF GoneKnown
  <2>4. QED
    BY <1>1, <2>1, <2>2, <2>3 DEF GoneKnown
<1>12. QED
  BY <1>6, <1>8, <1>9, <1>10, <1>11

\* The process is started again, with what is on disk.
LEMMA RestartInv ==
  ASSUME StoreInv, Restart
  PROVE  StoreInv'
<1> USE DEF StoreInv
<1>1. mem' = Restored /\ sequence' = disk.sequence /\ call' = NoCall /\ UNCHANGED <<backend, disk, issued, gone>>
  BY DEF Restart
<1>2. call' \in Calls /\ call'.event = NoEvent /\ call'.found = {} /\ call'.todo = <<>>
  BY <1>1 DEF NoCall, Calls
<1>3. Restored \in Snapshots /\ Restored' = Restored /\ disk.sequence \in Nat
  BY <1>1, RestoredFine DEF Restored, StoreTypes, FileOfDisk, TablesOfDisk
<1>4. StoreTypes'
  BY <1>1, <1>2, <1>3 DEF StoreTypes
<1>5. CallKnown'
  BY <1>2, EmptyRange DEF CallKnown
<1>6. NumbersKept'
  <2>1. issued <= disk.sequence /\ disk.sequence <= disk.sequence
    BY <1>3 DEF NumbersKept
  <2>2. QED
    BY <1>1, <1>2, <2>1 DEF NumbersKept
<1>7. DeletionKnown' /\ GoneKnown'
  BY <1>1, <1>2, <1>3 DEF DeletionKnown, GoneKnown
<1>8. QED
  BY <1>4, <1>5, <1>6, <1>7

\* The invariant holds from one step to the next.
LEMMA StoreStepInv ==
  ASSUME StoreInv, [StoreNext]_storeVars
  PROVE  StoreInv'
<1>1. ASSUME NEW e \in Events, Record(e) PROVE StoreInv'
  BY <1>1, AppendInv DEF Record
<1>2. ASSUME NEW j \in Jobs, RecordRunOfTurn(j) PROVE StoreInv'
  <2> DEFINE e == [type |-> "run", job |-> j, is |-> "turn"]
  <2>1. e \in Events
    BY DEF Events
  <2>2. Append_(e)
    BY <1>2 DEF RecordRunOfTurn
  <2> HIDE DEF e
  <2>3. QED
    BY <2>1, <2>2, AppendInv
<1>3. ASSUME NEW chat \in Chats, DeleteSession(chat) PROVE StoreInv'
  BY <1>3, DeleteSessionInv
<1>4. ASSUME NEW chat \in Chats, NEW on \in BOOLEAN, SetTitle(chat, on) PROVE StoreInv'
  BY <1>4, SetTitleInv
<1>5. ASSUME Write PROVE StoreInv'
  BY <1>5, SaveInv, StoreRowInv, StoreSequenceInv, DeleteRowsInv, DeleteTranscriptInv, WriteTitleInv DEF Write
<1>6. ASSUME Return PROVE StoreInv'
  BY <1>6, ReturnInv
<1>7. ASSUME Restart PROVE StoreInv'
  BY <1>7, RestartInv
<1>8. ASSUME UNCHANGED storeVars PROVE StoreInv'
  <2>1. UNCHANGED <<backend, mem, sequence, disk, call, issued, gone>>
    BY <1>8 DEF storeVars
  <2>2. QED
    BY <2>1 DEF StoreInv, StoreTypes, CallKnown, NumbersKept, DeletionKnown, GoneKnown, Restored
<1>9. QED
  BY <1>1, <1>2, <1>3, <1>4, <1>5, <1>6, <1>7, <1>8 DEF StoreNext

\* Of what a deletion takes from the disk, the run went before.
LEMMA RunGoesFirst ==
  ASSUME StoreInv, [StoreNext]_storeVars, backend = "sqlite",
         NEW r \in disk.rows, ~ Has(disk'.rows, r.kind, r.job), r.kind # "run"
  PROVE  ~ Has(disk.rows, "run", r.job)
<1>1. r \notin disk'.rows
  BY DEF Has
<1>2. ~ UNCHANGED disk
  BY <1>1
<1>3. Write
  <2>1. \A e : ~ Record(e)
    BY <1>2 DEF Record, Append_
  <2>2. \A j : ~ RecordRunOfTurn(j)
    BY <1>2 DEF RecordRunOfTurn, Append_
  <2>3. \A chat, on : ~ DeleteSession(chat) /\ ~ SetTitle(chat, on)
    BY <1>2 DEF DeleteSession, SetTitle
  <2>4. ~ Return /\ ~ Restart /\ ~ UNCHANGED storeVars
    BY <1>2 DEF Return, Restart, storeVars
  <2>5. QED
    BY <2>1, <2>2, <2>3, <2>4 DEF StoreNext
<1>4. UNCHANGED <<backend, mem, sequence, issued, gone>>
  BY <1>3 DEF Write
<1>5. ~ Save
  BY FirstWrite DEF StoreInv, Save, ToDo
<1>6. ~ StoreRow
  BY <1>4, StoreRowInv
<1>7. ~ StoreSequence /\ ~ DeleteTranscript /\ ~ DeleteTitle /\ ~ Retitle
  BY <1>1, <1>4, StoreSequenceInv, DeleteTranscriptInv, WriteTitleInv
<1>8. DeleteRows
  BY <1>3, <1>5, <1>6, <1>7 DEF Write
<1>9. r.kind = Head(call.todo) /\ r.job \in call.found /\ Locked
  BY <1>1, <1>4, <1>8, DeleteRowsInv DEF DeleteRows
<1>10. "run" \notin Range(call.todo)
  BY <1>9, TodoTail DEF StoreInv, StoreTypes
<1>11. \A x \in RowsOf(disk, r.job) : x.kind \in Range(call.todo)
  BY <1>9 DEF StoreInv, DeletionKnown
<1>12. QED
  BY <1>10, <1>11 DEF Has, RowsOf

-----------------------------------------------------------------------------
\* The invariant of the store.
LEMMA StoreIsSound == StoreSpec => []StoreInv
<1>1. StoreInv /\ [StoreNext]_storeVars => StoreInv'
  BY StoreStepInv
<1>2. QED
  BY <1>1, StoreInitInv, PTL DEF StoreSpec

\* Of a job deleted with its session nothing comes back, from memory or from
\* disk, whatever is recorded of other jobs, deleted or restarted meanwhile
\* and wherever in a call the process ends (delete_session,
\* purge_session_from_snapshot, load_snapshot).
THEOREM DeletedStaysDeleted == StoreSpec => []NothingLeftOfDeleted
<1>1. StoreInv => NothingLeftOfDeleted
  <2> SUFFICES ASSUME StoreInv, NEW s \in {mem, Restored}, NEW j \in gone
               PROVE  (\A r \in s.rows : r.job # j) /\ (\A m \in Range(s.transcript) : m.job # j)
    BY DEF NothingLeftOfDeleted
  <2>1. Without(s, j)
    BY DEF StoreInv, GoneKnown
  <2>2. QED
    BY <2>1 DEF Without, RowsOf, NotesOf
<1>2. QED
  BY <1>1, StoreIsSound, PTL

\* A number that append has returned is not returned again: it was on disk
\* before append returned, so a start begins after it (next_sequence, init,
\* load_persisted_state).
THEOREM NumbersAreKept == StoreSpec => []SequenceNeverReused
<1>1. StoreInv => SequenceNeverReused
  <2> SUFFICES ASSUME StoreInv PROVE sequence >= issued
    BY DEF SequenceNeverReused
  <2>1. issued \in Nat /\ sequence \in Nat /\ disk.sequence \in Nat
    BY DEF StoreInv, StoreTypes, FileOfDisk, TablesOfDisk
  <2>2. issued <= disk.sequence /\ disk.sequence <= sequence
    BY DEF StoreInv, NumbersKept
  <2>3. QED
    BY <2>1, <2>2
<1>2. QED
  BY <1>1, StoreIsSound, PTL

\* A deletion that is cut short leaves no job that a start lists without one
\* of its records: the run, by which a job is listed, goes first
\* (delete_session).
THEOREM ListedJobsAreWhole == StoreSpec => ShownWhole
<1> DEFINE Whole == LET lost == {r \in disk.rows : ~Has(disk'.rows, r.kind, r.job)} IN
                    backend = "sqlite" =>
                      \A r \in lost : r.kind # "run" => ~Has(disk.rows, "run", r.job)
<1>1. StoreInv /\ [StoreNext]_storeVars => Whole
  BY RunGoesFirst
<1>2. QED
  BY <1>1, StoreIsSound, PTL DEF StoreSpec, ShownWhole

-----------------------------------------------------------------------------
(* What a restart changes of the answers of the store.                      *)

\* A message is in a table once.
LEMMA InsertedFine ==
  ASSUME NEW T, NEW s \in Seq(T), NEW m \in T
  PROVE  /\ Inserted(s, m) \in Seq(T) /\ Range(Inserted(s, m)) = Range(s) \cup {m}
         /\ IsInjective(s) => IsInjective(Inserted(s, m))
BY AppendRange, AppendOnce DEF Inserted

\* The recursion of Stored has a solution for every transcript.
LEMMA StoredDef ==
  ASSUME NEW T, NEW s \in Seq(T)
  PROVE  /\ Stored(s)[0] = <<>>
         /\ \A n \in 1 .. Len(s) : Stored(s)[n] = Inserted(Stored(s)[n - 1], s[n])
<1> DEFINE N == Len(s)
           S == Seq(T)
           g == [n \in 1 .. N |-> [v \in S |-> Inserted(v, s[n])]]
           Body(h, n) == IF n = 0 THEN <<>> ELSE Inserted(h[n - 1], s[n])
<1>1. N \in Nat /\ <<>> \in S /\ \A n \in 1 .. N : s[n] \in T
  OBVIOUS
<1>2. \A n \in 1 .. N : \A v \in S : Inserted(v, s[n]) \in S
  BY <1>1, InsertedFine
<1>3. /\ g \in [1 .. N -> [S -> S]]
      /\ \A n \in 1 .. N : \A v \in S : g[n][v] = Inserted(v, s[n])
  BY <1>2
<1>4. Stored(s) = CHOOSE h : h = [n \in 0 .. N |-> Body(h, n)]
  BY DEF Stored
<1> HIDE DEF g, S, N
<1>5. PICK f \in [0 .. N -> S] : f[0] = <<>> /\ \A n \in 1 .. N : f[n] = g[n][f[n - 1]]
  <2>1. Stepwise(N, S, <<>>, g) # {}
    BY ONLY <1>1, <1>3, StepwiseExists
  <2> QED
    BY <2>1 DEF Stepwise
<1>6. \A n \in 0 .. N : f[n] = Body(f, n)
  <2> TAKE n \in 0 .. N
  <2>1. CASE n = 0
    BY <1>5, <2>1
  <2>2. CASE n # 0
    <3>1. n \in 1 .. N /\ n - 1 \in 0 .. N
      BY <1>1, <2>2
    <3>2. f[n - 1] \in S /\ f[n] = g[n][f[n - 1]]
      BY <1>5, <3>1
    <3>3. f[n] = Inserted(f[n - 1], s[n])
      BY <1>3, <3>1, <3>2
    <3> QED
      BY <2>2, <3>3
  <2> QED
    BY <2>1, <2>2
<1> HIDE DEF Body
<1>7. f = [n \in 0 .. N |-> Body(f, n)]
  <2>1. f = [n \in 0 .. N |-> f[n]]
    BY <1>5
  <2>2. [n \in 0 .. N |-> f[n]] = [n \in 0 .. N |-> Body(f, n)]
    BY <1>6
  <2> QED
    BY <2>1, <2>2
<1> DEFINE k == Stored(s)
<1>8. k = [n \in 0 .. N |-> Body(k, n)]
  BY <1>4, <1>7
<1> HIDE DEF k
<1>9. \A n \in 0 .. N : k[n] = Body(k, n)
  BY <1>8
<1>10. k[0] = <<>> /\ \A n \in 1 .. N : k[n] = Inserted(k[n - 1], s[n])
  BY <1>1, <1>9 DEF Body
<1> QED
  BY <1>10 DEF k, N

\* A table begins empty, and the last message of a transcript is inserted last.
LEMMA TableEmpty == AsTable(<<>>) = <<>>
<1>1. <<>> \in Seq({}) /\ Len(<<>>) = 0
  OBVIOUS
<1> QED
  BY <1>1, StoredDef DEF AsTable

LEMMA TableAppend ==
  ASSUME NEW T, NEW s \in Seq(T), NEW x \in T
  PROVE  AsTable(Append(s, x)) = Inserted(AsTable(s), x)
<1> DEFINE t == Append(s, x)
<1>1. /\ Len(s) \in Nat /\ t \in Seq(T) /\ Len(t) = Len(s) + 1 /\ t[Len(s) + 1] = x
      /\ \A i \in 1 .. Len(s) : t[i] = s[i]
  BY AppendProperties
<1> HIDE DEF t
<1> DEFINE Differ == {n \in 0 .. Len(s) : Stored(t)[n] # Stored(s)[n]}
<1>2. Differ = {}
  <2>1. SUFFICES ASSUME Differ # {} PROVE FALSE
    OBVIOUS
  <2>2. PICK N \in Differ : \A n \in Differ : N <= n
    <3>1. Differ \in SUBSET Nat
      BY <1>1
    <3> HIDE DEF Differ
    <3>2. QED
      BY <2>1, <3>1, LeastExists
  <2>3. N \in 0 .. Len(s) /\ Stored(t)[N] # Stored(s)[N]
    BY <2>2
  <2>4. N # 0
    BY <1>1, <2>3, StoredDef
  <2>5. N - 1 \in 0 .. Len(s) /\ N - 1 \notin Differ
    BY <1>1, <2>2, <2>3, <2>4
  <2>6. Stored(t)[N - 1] = Stored(s)[N - 1]
    BY <2>5
  <2>7. N \in 1 .. Len(s) /\ N \in 1 .. Len(t)
    BY <1>1, <2>3, <2>4
  <2>8. Stored(s)[N] = Inserted(Stored(s)[N - 1], s[N])
    BY <2>7, StoredDef
  <2>9. Stored(t)[N] = Inserted(Stored(t)[N - 1], t[N])
    BY <1>1, <2>7, StoredDef
  <2> QED
    BY <1>1, <2>3, <2>6, <2>7, <2>8, <2>9
<1>3. Stored(t)[Len(s)] = Stored(s)[Len(s)]
  BY <1>1, <1>2
<1>4. Stored(t)[Len(t)] = Inserted(Stored(t)[Len(s)], x)
  <2>1. Len(t) \in 1 .. Len(t) /\ t[Len(t)] = x /\ Len(t) - 1 = Len(s)
    BY <1>1
  <2>2. Stored(t)[Len(t)] = Inserted(Stored(t)[Len(t) - 1], t[Len(t)])
    BY <1>1, <2>1, StoredDef
  <2> QED
    BY <2>1, <2>2
<1> QED
  BY <1>3, <1>4 DEF AsTable, t

\* A table has the messages of the transcript, each of them once.
LEMMA TableRange ==
  ASSUME NEW T
  PROVE  \A s \in Seq(T) : /\ AsTable(s) \in Seq(T) /\ Range(AsTable(s)) = Range(s)
                           /\ IsInjective(AsTable(s))
<1> DEFINE Fine(s) == AsTable(s) \in Seq(T) /\ Range(AsTable(s)) = Range(s) /\ IsInjective(AsTable(s))
           Good == {s \in Seq(T) : Fine(s)}
<1>1. Fine(<<>>)
  <2>1. <<>> \in Seq(T) /\ IsInjective(<<>>)
    BY DEF IsInjective
  <2> QED
    BY <2>1, TableEmpty
<1>2. ASSUME NEW s \in Seq(T), NEW x \in T, Fine(s) PROVE Fine(Append(s, x))
  <2>1. Range(Append(s, x)) = Range(s) \cup {x} /\ AsTable(Append(s, x)) = Inserted(AsTable(s), x)
    BY AppendRange, TableAppend
  <2>2. /\ Inserted(AsTable(s), x) \in Seq(T) /\ Range(Inserted(AsTable(s), x)) = Range(AsTable(s)) \cup {x}
        /\ IsInjective(Inserted(AsTable(s), x))
    BY <1>2, InsertedFine
  <2> QED
    BY <1>2, <2>1, <2>2
<1> HIDE DEF Fine
<1>3. <<>> \in Good /\ \A s \in Seq(T) \cap Good, x \in T : Append(s, x) \in Good
  BY <1>1, <1>2, AppendProperties
<1> HIDE DEF Good
<1>4. Seq(T) \subseteq Good
  BY <1>3, SequenceInduction
<1> QED
  BY <1>4 DEF Good, Fine

\* A transcript that has every message once is its own table.
LEMMA TableSame ==
  ASSUME NEW T
  PROVE  \A s \in Seq(T) : IsInjective(s) => AsTable(s) = s
<1> DEFINE Fine(s) == IsInjective(s) => AsTable(s) = s
           Good == {s \in Seq(T) : Fine(s)}
<1>1. Fine(<<>>)
  BY TableEmpty
<1>2. ASSUME NEW s \in Seq(T), NEW x \in T, Fine(s) PROVE Fine(Append(s, x))
  BY <1>2, AppendOnce, TableAppend DEF Inserted
<1> HIDE DEF Fine
<1>3. <<>> \in Good /\ \A s \in Seq(T) \cap Good, x \in T : Append(s, x) \in Good
  BY <1>1, <1>2, AppendProperties
<1> HIDE DEF Good
<1>4. Seq(T) \subseteq Good
  BY <1>3, SequenceInduction
<1> QED
  BY <1>4 DEF Good, Fine

\* What is kept of a transcript has as its table what is kept of the table.
LEMMA TableKeeps ==
  ASSUME NEW T, NEW S
  PROVE  \A s \in Seq(T) : AsTable(KeepOnly(s, S)) = KeepOnly(AsTable(s), S)
<1> DEFINE Fine(s) == AsTable(KeepOnly(s, S)) = KeepOnly(AsTable(s), S)
           Good == {s \in Seq(T) : Fine(s)}
<1>1. Fine(<<>>)
  BY TableEmpty, KeepEmpty
<1>2. ASSUME NEW s \in Seq(T), NEW x \in T, Fine(s) PROVE Fine(Append(s, x))
  <2> DEFINE table == AsTable(s)
             kept == KeepOnly(s, S)
  <2>1. table \in Seq(T) /\ kept \in Seq(T) /\ KeepOnly(table, S) \in Seq(T)
        /\ Range(KeepOnly(table, S)) = Range(table) \cap S
    BY TableRange, KeepRange
  <2>2. AsTable(Append(s, x)) = Inserted(table, x) /\ AsTable(kept) = KeepOnly(table, S)
    BY <1>2, TableAppend
  <2>3. KeepOnly(Append(s, x), S) = IF x \in S THEN Append(kept, x) ELSE kept
    BY KeepAppend
  <2>4. AsTable(Append(kept, x)) = Inserted(AsTable(kept), x)
    BY <2>1, TableAppend
  <2>5. KeepOnly(Append(table, x), S) = IF x \in S THEN Append(KeepOnly(table, S), x) ELSE KeepOnly(table, S)
    BY <2>1, KeepAppend
  <2> HIDE DEF table, kept
  <2> QED
    BY <2>1, <2>2, <2>3, <2>4, <2>5 DEF Inserted
<1> HIDE DEF Fine
<1>3. <<>> \in Good /\ \A s \in Seq(T) \cap Good, x \in T : Append(s, x) \in Good
  BY <1>1, <1>2, AppendProperties
<1> HIDE DEF Good
<1>4. Seq(T) \subseteq Good
  BY <1>3, SequenceInduction
<1> QED
  BY <1>4 DEF Good, Fine

\* The index leads to every row that a start would index.
Indexed(s) ==
  \A r \in s.rows : /\ r.kind = "run" => r.job \in s.runs
                    /\ r.kind = "task" => r.job \in s.plans
                    /\ r.kind = "suspension" => r.job \in s.questions

\* The same rows, but for the current turn of the runs of `behind`.
SameRows(R, Q, behind) ==
  /\ \A r \in R \cup Q : (r.kind = "run" /\ r.job \in behind) \/ (r \in R <=> r \in Q)
  /\ \A j \in behind : Has(R, "run", j) <=> Has(Q, "run", j)

\* Rows that are the same are so when fewer turns are looked at, and when the
\* rows of the same jobs are taken from both.
LEMMA SameRowsMore ==
  ASSUME NEW R, NEW Q, NEW B, NEW C, SameRows(R, Q, B), B \subseteq C
  PROVE  SameRows(R, Q, C)
<1>1. ASSUME NEW j \in C PROVE Has(R, "run", j) <=> Has(Q, "run", j)
  BY DEF SameRows, Has
<1> QED
  BY <1>1 DEF SameRows

LEMMA SameRowsRest ==
  ASSUME NEW R, NEW Q, NEW B, NEW F, SameRows(R, Q, B)
  PROVE  SameRows({r \in R : r.job \notin F}, {r \in Q : r.job \notin F}, B)
BY DEF SameRows, Has

\* A row put into both leaves them the same; it tells the turn of its run.
LEMMA SameRowsUpserted ==
  ASSUME NEW R, NEW Q, NEW B, NEW C, NEW row, SameRows(R, Q, B),
         \A j \in B : j \in C \/ (row.kind = "run" /\ row.job = j),
         C \subseteq B
  PROVE  SameRows(Upserted(R, row), Upserted(Q, row), C)
<1>1. ASSUME NEW r \in Upserted(R, row) \cup Upserted(Q, row), ~ (r.kind = "run" /\ r.job \in C)
      PROVE  r \in Upserted(R, row) <=> r \in Upserted(Q, row)
  <2>1. CASE r = row
    BY <2>1 DEF Upserted
  <2>2. CASE r # row
    <3>1. r \in R \cup Q /\ (r.kind # row.kind \/ r.job # row.job)
      BY <1>1, <2>2 DEF Upserted
    <3>2. ~ (r.kind = "run" /\ r.job \in B)
      BY <1>1, <3>1
    <3>3. r \in R <=> r \in Q
      BY <3>1, <3>2 DEF SameRows
    <3> QED
      BY <2>2, <3>1, <3>3 DEF Upserted
  <2> QED
    BY <2>1, <2>2
<1>2. ASSUME NEW j \in C PROVE Has(Upserted(R, row), "run", j) <=> Has(Upserted(Q, row), "run", j)
  <2>1. Has(R, "run", j) <=> Has(Q, "run", j)
    BY DEF SameRows
  <2>2. CASE row.kind = "run" /\ row.job = j
    BY <2>2 DEF Has, Upserted
  <2>3. CASE ~ (row.kind = "run" /\ row.job = j)
    <3>1. ASSUME NEW P PROVE Has(Upserted(P, row), "run", j) <=> Has(P, "run", j)
      BY <2>3 DEF Has, Upserted
    <3> QED
      BY <2>1, <3>1
  <2> QED
    BY <2>2, <2>3
<1> QED
  BY <1>1, <1>2 DEF SameRows

\* The turn a run is in does not tell where its turn is not looked at.
LEMMA SameRowsTurn ==
  ASSUME NEW R, NEW Q, NEW B, NEW j \in B, NEW is, SameRows(R, Q, B)
  PROVE  SameRows(IF Has(R, "run", j) THEN Upserted(R, Row("run", j, is)) ELSE R, Q, B)
<1>1. CASE ~ Has(R, "run", j)
  BY <1>1
<1>2. CASE Has(R, "run", j)
  <2> DEFINE run == Row("run", j, is)
  <2>1. run.kind = "run" /\ run.job = j
    BY DEF Row
  <2> HIDE DEF run
  <2>2. ASSUME NEW r \in Upserted(R, run) \cup Q, ~ (r.kind = "run" /\ r.job \in B)
        PROVE  r \in Upserted(R, run) <=> r \in Q
    BY <2>1, <2>2 DEF Upserted, SameRows
  <2>3. ASSUME NEW i \in B PROVE Has(Upserted(R, run), "run", i) <=> Has(Q, "run", i)
    BY <1>2, <2>1 DEF Upserted, SameRows, Has
  <2> QED
    BY <1>2, <2>2, <2>3 DEF SameRows, run
<1> QED
  BY <1>1, <1>2

\* What an event does to each part of a snapshot.
RowsWith(R, e) ==
  LET base == IF e.type = "turn" /\ Has(R, "run", e.job) THEN Upserted(R, Row("run", e.job, "turn")) ELSE R
  IN  IF e.type \in {"message", "hint"} THEN R ELSE Upserted(base, Row(e.type, e.job, e.is))
NotesWith(t, e) == IF e.type = "message" THEN Append(t, [id |-> e.is, job |-> e.job]) ELSE t

LEMMA ReduceParts ==
  ASSUME NEW s \in Snapshots, NEW e \in Events
  PROVE  LET t == Reduce(s, e) IN
         /\ t.rows = RowsWith(s.rows, e) /\ t.transcript = NotesWith(s.transcript, e) /\ t.titles = s.titles
         /\ Indexed(s) => Indexed(t)
<1> DEFINE t == Reduce(s, e)
           new == Row(e.type, e.job, e.is)
<1>1. new.kind = e.type /\ new.job = e.job
  BY DEF Row
<1>2. CASE e.type = "run"
  <2>1. t = [s EXCEPT !.rows = Upserted(@, new), !.runs = @ \cup {e.job}]
    BY <1>2, StoreAssumption DEF Reduce
  <2> HIDE DEF new, t
  <2>2. /\ t.rows = Upserted(s.rows, new) /\ t.runs = s.runs \cup {e.job}
        /\ t.transcript = s.transcript /\ t.titles = s.titles /\ t.plans = s.plans /\ t.questions = s.questions
    BY <2>1 DEF Snapshots
  <2>3. Indexed(s) => Indexed(t)
    BY <1>1, <1>2, <2>2 DEF Indexed, Upserted
  <2> QED
    BY <1>2, <2>2, <2>3 DEF RowsWith, NotesWith, new, t
<1>3. CASE e.type = "turn"
  <2> DEFINE run == Row("run", e.job, "turn")
             base == IF Has(s.rows, "run", e.job) THEN Upserted(s.rows, run) ELSE s.rows
  <2>1. t = [s EXCEPT !.rows = Upserted(base, new)] /\ run.kind = "run" /\ run.job = e.job
    BY <1>3, StoreAssumption DEF Reduce, Row
  <2> HIDE DEF new, t, run
  <2>2. /\ t.rows = Upserted(base, new) /\ t.runs = s.runs
        /\ t.transcript = s.transcript /\ t.titles = s.titles /\ t.plans = s.plans /\ t.questions = s.questions
    BY <2>1 DEF Snapshots
  <2>3. ASSUME Indexed(s), NEW r \in base
        PROVE  /\ r.kind = "run" => r.job \in s.runs
               /\ r.kind = "task" => r.job \in s.plans
               /\ r.kind = "suspension" => r.job \in s.questions
    <3>1. CASE r \in s.rows
      BY <2>3, <3>1 DEF Indexed
    <3>2. CASE r \notin s.rows
      <4>1. r = run /\ Has(s.rows, "run", e.job)
        BY <2>3, <3>2 DEF Upserted
      <4> QED
        BY <2>1, <2>3, <4>1 DEF Has, Indexed
    <3> QED
      BY <3>1, <3>2
  <2> HIDE DEF base
  <2>4. Indexed(s) => Indexed(t)
    BY <1>1, <1>3, <2>2, <2>3 DEF Indexed, Upserted
  <2> QED
    BY <1>3, <2>2, <2>4 DEF RowsWith, NotesWith, new, t, base, run
<1>4. CASE e.type \in Range(Tables)
  <2>1. e.type \notin {"run", "turn", "message", "hint"}
    BY <1>4, StoreAssumption
  <2>2. t = [s EXCEPT !.rows = Upserted(@, new),
                      !.plans = IF e.type = "task" THEN @ \cup {e.job} ELSE @,
                      !.questions = IF e.type = "suspension" THEN @ \cup {e.job} ELSE @]
    BY <1>4, <2>1 DEF Reduce
  <2> HIDE DEF new, t
  <2>3. /\ t.rows = Upserted(s.rows, new) /\ t.runs = s.runs
        /\ t.transcript = s.transcript /\ t.titles = s.titles
        /\ t.plans = (IF e.type = "task" THEN s.plans \cup {e.job} ELSE s.plans)
        /\ t.questions = (IF e.type = "suspension" THEN s.questions \cup {e.job} ELSE s.questions)
    BY <2>2 DEF Snapshots
  <2>4. Indexed(s) => Indexed(t)
    BY <1>1, <2>1, <2>3 DEF Indexed, Upserted
  <2> QED
    BY <2>1, <2>3, <2>4 DEF RowsWith, NotesWith, new, t
<1>5. CASE e.type = "message"
  <2> DEFINE note == [id |-> e.is, job |-> e.job]
  <2>1. t = [s EXCEPT !.transcript = Append(@, note)]
    BY <1>5, StoreAssumption DEF Reduce
  <2> HIDE DEF note, t
  <2>2. /\ t.rows = s.rows /\ t.runs = s.runs /\ t.transcript = Append(s.transcript, note)
        /\ t.titles = s.titles /\ t.plans = s.plans /\ t.questions = s.questions
    BY <2>1 DEF Snapshots
  <2> QED
    BY <1>5, <2>2 DEF RowsWith, NotesWith, Indexed, note, t
<1>6. CASE e.type = "hint"
  BY <1>6, StoreAssumption DEF Reduce, RowsWith, NotesWith
<1> QED
  BY <1>2, <1>3, <1>4, <1>5, <1>6, EventKinds

\* The rows as they are compared: the runs of `behind` without their turn.
Masked(rows) == {IF r.kind = "run" /\ r.job \in Behind THEN [r EXCEPT !.is = "none"] ELSE r : r \in rows}

\* The same rows are compared as one set.
LEMMA MaskedSame ==
  ASSUME NEW R \in SUBSET Rows, NEW Q \in SUBSET Rows, SameRows(R, Q, Behind)
  PROVE  Masked(R) = Masked(Q)
<1> DEFINE m(r) == IF r.kind = "run" /\ r.job \in Behind THEN [r EXCEPT !.is = "none"] ELSE r
<1>1. ASSUME NEW P \in SUBSET Rows, NEW O \in SUBSET Rows, SameRows(P, O, Behind), NEW r \in P
      PROVE  \E q \in O : m(q) = m(r)
  <2>1. CASE r.kind = "run" /\ r.job \in Behind
    <3>1. PICK q \in O : q.kind = "run" /\ q.job = r.job
      BY <1>1, <2>1 DEF SameRows, Has
    <3>2. [r EXCEPT !.is = "none"] = [q EXCEPT !.is = "none"]
      BY <1>1, <2>1, <3>1 DEF Rows
    <3> QED
      BY <2>1, <3>1, <3>2
  <2>2. CASE ~ (r.kind = "run" /\ r.job \in Behind)
    BY <1>1, <2>2 DEF SameRows
  <2> QED
    BY <2>1, <2>2
<1>2. SameRows(Q, R, Behind)
  BY DEF SameRows
<1>3. Masked(R) = {m(r) : r \in R} /\ Masked(Q) = {m(r) : r \in Q}
  BY DEF Masked
<1> HIDE DEF m
<1>4. \A r \in R : \E q \in Q : m(q) = m(r)
  BY <1>1
<1>5. \A r \in Q : \E q \in R : m(q) = m(r)
  BY <1>1, <1>2
<1> QED
  BY <1>3, <1>4, <1>5

\* A row that is compared is one of a row of its kind and job.
LEMMA MaskedKinds ==
  ASSUME NEW R \in SUBSET Rows, NEW r \in Masked(R)
  PROVE  \E q \in R : q.kind = r.kind /\ q.job = r.job
<1>1. PICK q \in R : r = IF q.kind = "run" /\ q.job \in Behind THEN [q EXCEPT !.is = "none"] ELSE q
  BY DEF Masked
<1>2. [q EXCEPT !.is = "none"].kind = q.kind /\ [q EXCEPT !.is = "none"].job = q.job
  BY DEF Rows
<1> QED
  BY <1>1, <1>2

\* What is answered of a snapshot depends on its rows, its transcript and the
\* titles of the sessions it lists.
LEMMA AnswersSame ==
  ASSUME NEW s, NEW t, s.rows = t.rows, s.transcript = t.transcript, Indexed(s), Indexed(t),
         \A r \in s.rows : r.kind = "run" => (ChatOf[r.job] \in s.titles <=> ChatOf[r.job] \in t.titles)
  PROVE  Answers(s) = Answers(t)
<1> DEFINE listed == {ChatOf[r.job] : r \in {x \in s.rows : x.kind = "run"}}
           view(u, c) == [chat |-> c, title |-> c \in u.titles, history |-> History(u, c)]
<1>1. \A c : History(s, c) = History(t, c)
  BY DEF History
<1>2. \A c \in listed : c \in s.titles <=> c \in t.titles
  OBVIOUS
<1>3. \A c \in listed : view(s, c) = view(t, c)
  <2> SUFFICES ASSUME NEW c \in listed PROVE view(s, c) = view(t, c)
    OBVIOUS
  <2>1. (c \in s.titles) = (c \in t.titles)
    BY <1>2
  <2> QED
    BY <1>1, <2>1
<1>4. Sessions(s) = {view(s, c) : c \in listed} /\ Sessions(t) = {view(t, c) : c \in listed}
  BY DEF Sessions
<1>5. Sessions(s) = Sessions(t)
  <2> HIDE DEF view, listed
  <2> QED
    BY <1>3, <1>4
<1> DEFINE about(u, j) == <<RunByJob(u, j), ActiveTurn(u, j), TasksForPlan(u, j),
                            SuspensionByQuestion(u, j), RecordsOf(u, j)>>
<1>6. ASSUME NEW j \in Jobs PROVE about(s, j) = about(t, j)
  <2>1. RunByJob(s, j) = RunByJob(t, j)
    BY DEF RunByJob, Indexed
  <2>2. TasksForPlan(s, j) = TasksForPlan(t, j)
    BY DEF TasksForPlan, Indexed
  <2>3. SuspensionByQuestion(s, j) = SuspensionByQuestion(t, j)
    BY DEF SuspensionByQuestion, Indexed
  <2>4. ActiveTurn(s, j) = ActiveTurn(t, j) /\ RecordsOf(s, j) = RecordsOf(t, j)
    BY DEF ActiveTurn, RecordsOf
  <2> QED
    BY <2>1, <2>2, <2>3, <2>4
<1>7. Answers(s) = [sessions |-> Sessions(s), jobs |-> [j \in Jobs |-> about(s, j)]]
      /\ Answers(t) = [sessions |-> Sessions(t), jobs |-> [j \in Jobs |-> about(t, j)]]
  BY DEF Answers
<1> HIDE DEF about
<1>8. [j \in Jobs |-> about(s, j)] = [j \in Jobs |-> about(t, j)]
  BY <1>6
<1> QED
  BY <1>5, <1>7, <1>8

\* Snapshots with the same rows, messages and listed titles are answered the same.
LEMMA SeenSame ==
  ASSUME NEW s \in Snapshots, NEW t \in Snapshots, SameRows(s.rows, t.rows, Behind),
         AsTable(s.transcript) = AsTable(t.transcript), Indexed(s), Indexed(t),
         \A r \in s.rows : r.kind = "run" => (ChatOf[r.job] \in s.titles <=> ChatOf[r.job] \in t.titles)
  PROVE  Seen(s) = Seen(t)
<1> DEFINE seen(u) == [u EXCEPT !.rows = Masked(u.rows), !.transcript = AsTable(u.transcript)]
<1>1. Seen(s) = Answers(seen(s)) /\ Seen(t) = Answers(seen(t))
  BY DEF Seen, Masked
<1>2. ASSUME NEW u \in Snapshots, Indexed(u)
      PROVE  /\ seen(u).rows = Masked(u.rows) /\ seen(u).transcript = AsTable(u.transcript)
             /\ seen(u).titles = u.titles /\ Indexed(seen(u))
  <2> DEFINE x == seen(u)
  <2>1. /\ x.rows = Masked(u.rows) /\ x.transcript = AsTable(u.transcript) /\ x.titles = u.titles
        /\ x.runs = u.runs /\ x.plans = u.plans /\ x.questions = u.questions
    BY DEF Snapshots
  <2> HIDE DEF x
  <2>2. ASSUME NEW r \in Masked(u.rows)
        PROVE  /\ r.kind = "run" => r.job \in u.runs
               /\ r.kind = "task" => r.job \in u.plans
               /\ r.kind = "suspension" => r.job \in u.questions
    <3>1. PICK q \in u.rows : q.kind = r.kind /\ q.job = r.job
      BY MaskedKinds DEF Snapshots
    <3> QED
      BY <1>2, <3>1 DEF Indexed
  <2>3. Indexed(x)
    BY <2>1, <2>2 DEF Indexed
  <2> QED
    BY <2>1, <2>3 DEF x
<1> HIDE DEF seen
<1>3. Masked(s.rows) = Masked(t.rows)
  BY MaskedSame DEF Snapshots
<1>4. ASSUME NEW r \in Masked(s.rows), r.kind = "run"
      PROVE  ChatOf[r.job] \in s.titles <=> ChatOf[r.job] \in t.titles
  <2>1. PICK q \in s.rows : q.kind = r.kind /\ q.job = r.job
    BY MaskedKinds DEF Snapshots
  <2> QED
    BY <1>4, <2>1
<1> QED
  BY <1>1, <1>2, <1>3, <1>4, AnswersSame

\* A call is of a session, or records an event; the run of a recorded turn is owed.
CallShape ==
  /\ Locked /\ call.event = NoEvent => call.chat \in Chats
  /\ call.event # NoEvent => call.chat = "none"
  /\ call.event.type = "turn" => call.event.job \in owed

\* SQLite writes before memory is changed: what memory has of an event whose
\* row is written is what it will have when the call returns.
RowWritten == call.event # NoEvent /\ call.todo # <<"row", "sequence", "return">>
Remembered == IF RowWritten THEN Reduce(mem, call.event) ELSE mem
TurnsUnknown == IF call.event # NoEvent /\ ~RowWritten THEN Behind ELSE owed
RowsLeft  == {r \in disk.rows : r.job \notin call.found}
NotesLeft == {m \in Range(disk.transcript) : m.job \notin call.found}

\* What the tables have, but for what a deletion is still to take from them.
TablesAgree ==
  backend = "sqlite" =>
    /\ SameRows(Remembered.rows, RowsLeft, TurnsUnknown)
    /\ IsInjective(disk.transcript)
    /\ AsTable(Remembered.transcript) = KeepOnly(disk.transcript, NotesLeft)

TitlesAgree ==
  backend = "sqlite" =>
    /\ mem.titles \ {call.chat} = disk.titles \ {call.chat}
    /\ "title" \in Range(call.todo) => call.chat \notin mem.titles
    /\ Range(call.todo) \cap {"title", "retitle"} = {} => mem.titles = disk.titles

\* The file, when nothing is to be saved.  Deleting a session that has no run
\* takes its title from memory alone.
FileAgrees ==
  backend = "json" /\ "save" \notin Range(call.todo) =>
    LET s == disk.snapshot IN
    /\ s.rows = mem.rows /\ s.transcript = mem.transcript
    /\ s.runs = mem.runs /\ s.questions = mem.questions /\ s.plans = mem.plans
    /\ \A r \in mem.rows : r.kind = "run" => (ChatOf[r.job] \in s.titles <=> ChatOf[r.job] \in mem.titles)

IndexKept == Indexed(mem) /\ (backend = "json" => Indexed(disk.snapshot))

KeptInv == CallShape /\ IndexKept /\ TablesAgree /\ TitlesAgree /\ FileAgrees

\* When a call has nothing left to write, memory and tables are the same.
LEMMA TablesSame ==
  ASSUME StoreInv, KeptInv, backend = "sqlite", call.event = NoEvent, Range(call.todo) \subseteq {"return"}
  PROVE  /\ RowsLeft = disk.rows /\ SameRows(mem.rows, disk.rows, owed)
         /\ AsTable(mem.transcript) = disk.transcript /\ mem.titles = disk.titles
<1>1. disk \in TablesOfDisk /\ disk.transcript \in Seq(Notes) /\ disk.rows \in SUBSET Rows
  BY DEF StoreInv, StoreTypes, TablesOfDisk
<1>2. Remembered = mem /\ TurnsUnknown = owed
  BY DEF Remembered, RowWritten, TurnsUnknown
<1>3. "return" \notin Kinds
  BY StoreAssumption DEF Kinds
<1>4. RowsLeft = disk.rows
  <2>1. ASSUME NEW r \in disk.rows, r.job \in call.found PROVE FALSE
    <3>1. r.kind \in Range(call.todo)
      BY <2>1 DEF StoreInv, DeletionKnown, RowsOf
    <3> QED
      BY <1>1, <1>3, <3>1 DEF Rows
  <2> QED
    BY <2>1 DEF RowsLeft
<1>5. Range(disk.transcript) \subseteq NotesLeft
  <2>1. ASSUME NEW m \in Range(disk.transcript), m.job \in call.found PROVE FALSE
    <3>1. "transcript" \in Range(call.todo)
      BY <2>1 DEF StoreInv, DeletionKnown, NotesOf
    <3> QED
      BY <3>1
  <2> QED
    BY <2>1 DEF NotesLeft
<1>6. KeepOnly(disk.transcript, NotesLeft) = disk.transcript
  BY <1>1, <1>5, KeepAll
<1> QED
  BY <1>2, <1>4, <1>6 DEF KeptInv, TablesAgree, TitlesAgree

\* Between two calls nothing is left to write.
LEMMA BetweenCalls ==
  ASSUME StoreInv, ~Locked
  PROVE  call.event = NoEvent /\ Range(call.todo) = {}
<1>1. call.todo = <<>>
  BY DEF Locked
<1>2. call.event # NoEvent => call.todo \in {<<"save", "return">>, <<"return">>, <<"row", "sequence", "return">>, <<"sequence", "return">>}
  BY DEF StoreInv, CallKnown
<1>3. <<"save", "return">> # <<>> /\ <<"return">> # <<>> /\ <<"row", "sequence", "return">> # <<>> /\ <<"sequence", "return">> # <<>>
  OBVIOUS
<1> QED
  BY <1>1, <1>2, <1>3, EmptyRange

\* A new store has written all there is.
LEMMA KeptInit == ASSUME StoreInit PROVE KeptInv
<1>1. call = NoCall /\ call.event = NoEvent /\ call.todo = <<>> /\ call.found = {} /\ call.chat = "none"
      /\ NoEvent.type = "none"
  BY DEF StoreInit, NoCall, NoEvent
<1>2. mem = EmptySnapshot /\ mem.rows = {} /\ mem.transcript = <<>> /\ mem.titles = {}
  BY DEF StoreInit, EmptySnapshot
<1>3. CallShape /\ IndexKept
  BY <1>1, <1>2 DEF CallShape, Locked, IndexKept, Indexed, StoreInit, EmptyDisk
<1>4. Range(call.todo) = {}
  BY <1>1, EmptyRange
<1>5. TablesAgree /\ TitlesAgree
  <2> SUFFICES ASSUME backend = "sqlite" PROVE TablesAgree /\ TitlesAgree
    BY DEF TablesAgree, TitlesAgree
  <2>1. disk.rows = {} /\ disk.transcript = <<>> /\ disk.titles = {}
    BY DEF StoreInit, EmptyDisk
  <2>2. SameRows({}, {}, owed) /\ RowsLeft = {} /\ IsInjective(<<>>)
    BY <2>1 DEF SameRows, Has, RowsLeft, IsInjective
  <2>3. Remembered = mem /\ TurnsUnknown = owed
    BY <1>1 DEF Remembered, RowWritten, TurnsUnknown
  <2> QED
    BY <1>2, <1>4, <2>1, <2>2, <2>3, TableEmpty, KeepEmpty DEF TablesAgree, TitlesAgree
<1>6. FileAgrees
  BY <1>2 DEF StoreInit, EmptyDisk, FileAgrees
<1> QED
  BY <1>3, <1>5, <1>6 DEF KeptInv

\* Nothing is written yet of an event that is being recorded.
LEMMA AppendKeeps ==
  ASSUME StoreInv, KeptInv, NEW e \in Events, Append_(e), owed \ {e.job} \subseteq owed',
         owed \subseteq owed' \/ e.type = "run", e.type = "turn" => e.job \in owed'
  PROVE  KeptInv'
<1>1. /\ ~Locked /\ UNCHANGED <<backend, disk>>
      /\ mem' = IF backend = "json" THEN Reduce(mem, e) ELSE mem
  BY DEF Append_
<1>2. /\ call'.event = e /\ call'.found = {} /\ call'.chat = "none"
      /\ call'.todo = IF backend = "json" THEN <<"save", "return">> ELSE <<"row", "sequence", "return">>
  BY DEF Append_, NoCall
<1>3. e # NoEvent
  BY EventKinds
<1>4. CallShape'
  BY <1>2, <1>3 DEF CallShape
<1>5. IndexKept'
  <2>1. Indexed(mem) /\ (backend = "json" => Indexed(disk.snapshot)) /\ mem \in Snapshots
    BY DEF KeptInv, IndexKept, StoreInv, StoreTypes
  <2>2. Indexed(Reduce(mem, e))
    BY <2>1, ReduceParts
  <2> QED
    BY <1>1, <2>1, <2>2 DEF IndexKept
<1>6. CASE backend = "sqlite"
  <2>1. call.event = NoEvent /\ Range(call.todo) = {}
    BY <1>1, BetweenCalls
  <2>2. SameRows(mem.rows, disk.rows, owed) /\ AsTable(mem.transcript) = disk.transcript /\ mem.titles = disk.titles
    BY <1>6, <2>1, TablesSame
  <2>3. mem' = mem /\ Remembered' = mem /\ TurnsUnknown' = Behind'
    BY <1>1, <1>2, <1>3, <1>6 DEF Remembered, RowWritten, TurnsUnknown
  <2>4. owed \subseteq Behind'
    BY <1>2 DEF Behind
  <2>5. SameRows(mem.rows, disk.rows, Behind')
    BY <2>2, <2>4, SameRowsMore
  <2>6. RowsLeft' = disk.rows /\ NotesLeft' = Range(disk.transcript)
    BY <1>1, <1>2 DEF RowsLeft, NotesLeft
  <2>7. disk.transcript \in Seq(Notes)
    BY <1>6 DEF StoreInv, StoreTypes, TablesOfDisk
  <2>8. KeepOnly(disk.transcript, NotesLeft') = disk.transcript
    BY <2>6, <2>7, KeepAll
  <2>9. TablesAgree'
    BY <1>1, <1>6, <2>2, <2>3, <2>5, <2>6, <2>8 DEF TablesAgree, KeptInv
  <2>10. "title" \notin Range(call'.todo)
    BY <1>2, <1>6 DEF Range
  <2>11. TitlesAgree' /\ FileAgrees'
    BY <1>1, <1>6, <2>2, <2>3, <2>10 DEF TitlesAgree, FileAgrees
  <2> QED
    BY <1>4, <1>5, <2>9, <2>11 DEF KeptInv
<1>7. CASE backend = "json"
  <2>1. call'.todo = <<"save", "return">>
    BY <1>2, <1>7
  <2>2. "save" \in Range(call'.todo)
    BY <2>1 DEF Range
  <2>3. TablesAgree' /\ TitlesAgree' /\ FileAgrees'
    BY <1>1, <1>7, <2>2 DEF TablesAgree, TitlesAgree, FileAgrees
  <2> QED
    BY <1>4, <1>5, <2>3 DEF KeptInv
<1> QED
  BY <1>6, <1>7, StoreAssumption DEF StoreInv, StoreTypes

\* A write leaves what the call is.
LEMMA CallStays ==
  ASSUME StoreInv, Done \/ UNCHANGED call
  PROVE  call'.event = call.event /\ call'.chat = call.chat /\ call'.found = call.found
BY DEF Done, StoreInv, StoreTypes, Calls

\* A call stays what it is until it returns.
LEMMA ShapeStays ==
  ASSUME StoreInv, KeptInv, Locked, Done \/ UNCHANGED call, UNCHANGED owed
  PROVE  CallShape'
BY CallStays DEF KeptInv, CallShape

\* Where no call is under way memory and tables are the same.
LEMMA AgreeAtRest ==
  ASSUME StoreTypes', backend' = "sqlite", call' = NoCall, Indexed(mem'), IsInjective(disk'.transcript),
         SameRows(mem'.rows, disk'.rows, owed'), AsTable(mem'.transcript) = disk'.transcript,
         mem'.titles = disk'.titles
  PROVE  KeptInv'
<1>1. call'.event = NoEvent /\ call'.todo = <<>> /\ call'.found = {} /\ NoEvent.type = "none"
  BY DEF NoCall, NoEvent
<1>2. CallShape' /\ IndexKept' /\ TitlesAgree' /\ FileAgrees'
  BY <1>1, EmptyRange DEF CallShape, Locked, IndexKept, TitlesAgree, FileAgrees
<1>3. Remembered' = mem' /\ TurnsUnknown' = owed' /\ RowsLeft' = disk'.rows /\ NotesLeft' = Range(disk'.transcript)
  BY <1>1 DEF Remembered, RowWritten, TurnsUnknown, RowsLeft, NotesLeft
<1>4. disk'.transcript \in Seq(Notes)
  BY DEF StoreTypes, TablesOfDisk
<1>5. KeepOnly(disk'.transcript, NotesLeft') = disk'.transcript
  BY <1>3, <1>4, KeepAll
<1>6. TablesAgree'
  BY <1>3, <1>5 DEF TablesAgree
<1> QED
  BY <1>2, <1>6 DEF KeptInv

\* A start makes the index of the rows it reads.
LEMMA LoadIndexed == ASSUME NEW d \in TablesOfDisk PROVE Indexed(LoadSnapshot(d))
<1> DEFINE of(kind) == {r.job : r \in {x \in d.rows : x.kind = kind}}
           s == LoadSnapshot(d)
<1>1. s.rows = d.rows /\ s.runs = of("run") /\ s.questions = of("suspension") /\ s.plans = of("task")
  <2> HIDE DEF of
  <2>1. s = [EmptySnapshot EXCEPT !.rows = d.rows, !.transcript = d.transcript, !.titles = d.titles,
                                  !.runs = of("run"), !.questions = of("suspension"), !.plans = of("task")]
    BY DEF LoadSnapshot, of
  <2> HIDE DEF s
  <2> QED
    BY <2>1 DEF EmptySnapshot
<1> HIDE DEF s
<1> QED
  BY <1>1 DEF Indexed, s

\* A start agrees with what it is read from.
LEMMA RestartKeeps == ASSUME StoreInv, StoreInv', KeptInv, Restart PROVE KeptInv'
<1>1. mem' = Restored /\ call' = NoCall /\ owed' = {} /\ UNCHANGED <<backend, disk>>
  BY DEF Restart
<1>2. CASE backend = "sqlite"
  <2>1. disk \in TablesOfDisk /\ disk.transcript \in Seq(Notes) /\ IsInjective(disk.transcript)
    BY <1>2 DEF StoreInv, StoreTypes, TablesOfDisk, KeptInv, TablesAgree
  <2>2. mem' = LoadSnapshot(disk)
    BY <1>1, <1>2 DEF Restored
  <2>3. mem'.rows = disk.rows /\ mem'.transcript = disk.transcript /\ mem'.titles = disk.titles
    BY <2>1, <2>2, LoadFine
  <2>4. Indexed(mem')
    BY <2>1, <2>2, LoadIndexed
  <2>5. AsTable(disk.transcript) = disk.transcript
    BY <2>1, TableSame
  <2>6. SameRows(disk.rows, disk.rows, {})
    BY DEF SameRows
  <2> QED
    BY <1>1, <1>2, <2>1, <2>3, <2>4, <2>5, <2>6, AgreeAtRest DEF StoreInv
<1>3. CASE backend = "json"
  <2>1. mem' = disk.snapshot /\ Indexed(disk.snapshot)
    BY <1>1, <1>3 DEF Restored, KeptInv, IndexKept
  <2>2. CallShape' /\ IndexKept'
    BY <1>1, <1>3, <2>1 DEF NoCall, NoEvent, CallShape, Locked, IndexKept
  <2>3. TablesAgree' /\ TitlesAgree' /\ FileAgrees'
    BY <1>1, <1>3, <2>1 DEF TablesAgree, TitlesAgree, FileAgrees
  <2> QED
    BY <2>2, <2>3 DEF KeptInv
<1> QED
  BY <1>2, <1>3, StoreAssumption DEF StoreInv, StoreTypes

\* What is returned from is written.
LEMMA ReturnKeeps == ASSUME StoreInv, StoreInv', KeptInv, Return PROVE KeptInv'
<1>1. Locked /\ Head(call.todo) = "return" /\ call' = NoCall /\ UNCHANGED <<backend, disk, owed>>
  BY DEF Return, ToDo
<1>2. call \in Calls
  BY DEF StoreInv, StoreTypes
<1>3. call.todo = <<"return">>
  BY <1>1, <1>2, TodoTail DEF StoreInv
<1>4. Range(call.todo) = {"return"}
  BY <1>3 DEF Range
<1>5. mem' = IF call.event = NoEvent \/ backend = "json" THEN mem ELSE Reduce(mem, call.event)
  BY DEF Return
<1>6. CASE backend = "sqlite" /\ call.event = NoEvent
  <2>1. SameRows(mem.rows, disk.rows, owed) /\ AsTable(mem.transcript) = disk.transcript /\ mem.titles = disk.titles
    BY <1>4, <1>6, TablesSame
  <2>2. IsInjective(disk.transcript) /\ Indexed(mem)
    BY <1>6 DEF KeptInv, TablesAgree, IndexKept
  <2> QED
    BY <1>1, <1>5, <1>6, <2>1, <2>2, AgreeAtRest DEF StoreInv
<1>7. CASE backend = "sqlite" /\ call.event # NoEvent
  <2>1. call.event \in Events /\ call.found = {} /\ mem \in Snapshots
    BY <1>2, <1>7 DEF StoreInv, StoreTypes, CallKnown, Calls
  <2>2. RowWritten
    <3>1. <<"return">> # <<"row", "sequence", "return">>
      OBVIOUS
    <3> QED
      BY <1>3, <1>7, <3>1 DEF RowWritten
  <2>3. mem' = Remembered /\ TurnsUnknown = owed
    BY <1>5, <1>7, <2>2 DEF Remembered, TurnsUnknown
  <2>4. RowsLeft = disk.rows /\ NotesLeft = Range(disk.transcript) /\ disk.transcript \in Seq(Notes)
    BY <1>7, <2>1 DEF RowsLeft, NotesLeft, StoreInv, StoreTypes, TablesOfDisk
  <2>5. KeepOnly(disk.transcript, NotesLeft) = disk.transcript
    BY <2>4, KeepAll
  <2>6. SameRows(mem'.rows, disk.rows, owed) /\ AsTable(mem'.transcript) = disk.transcript
        /\ IsInjective(disk.transcript)
    BY <1>7, <2>3, <2>4, <2>5 DEF KeptInv, TablesAgree
  <2>7. mem'.titles = mem.titles /\ Indexed(mem')
    BY <1>5, <1>7, <2>1, ReduceParts DEF KeptInv, IndexKept
  <2>8. mem.titles = disk.titles
    BY <1>4, <1>7 DEF KeptInv, TitlesAgree
  <2> QED
    BY <1>1, <1>7, <2>6, <2>7, <2>8, AgreeAtRest DEF StoreInv
<1>8. CASE backend = "json"
  <2>1. mem' = mem /\ "save" \notin Range(call.todo)
    BY <1>4, <1>5, <1>8
  <2>2. CallShape' /\ IndexKept'
    BY <1>1, <1>8, <2>1 DEF NoCall, NoEvent, CallShape, Locked, IndexKept, KeptInv
  <2>3. TablesAgree' /\ TitlesAgree' /\ FileAgrees'
    BY <1>1, <1>8, <2>1 DEF TablesAgree, TitlesAgree, FileAgrees, KeptInv
  <2> QED
    BY <2>2, <2>3 DEF KeptInv
<1> QED
  BY <1>6, <1>7, <1>8, StoreAssumption DEF StoreInv, StoreTypes

\* The file is all of memory.
LEMMA SaveKeeps ==
  ASSUME StoreInv, KeptInv, Save, UNCHANGED <<backend, mem, owed>>
  PROVE  KeptInv'
<1>1. Locked /\ Head(call.todo) = "save" /\ Done /\ disk'.snapshot = mem
  BY DEF Save, ToDo
<1>2. backend = "json"
  BY <1>1, FirstWrite DEF StoreInv
<1>3. CallShape'
  BY <1>1, ShapeStays
<1>4. IndexKept' /\ TablesAgree' /\ TitlesAgree' /\ FileAgrees'
  BY <1>1, <1>2 DEF IndexKept, TablesAgree, TitlesAgree, FileAgrees, KeptInv
<1> QED
  BY <1>3, <1>4 DEF KeptInv

\* The row of an event is written: from then on memory, when the call
\* returns, will have what the tables have.
LEMMA StoreRowKeeps ==
  ASSUME StoreInv, StoreInv', KeptInv, StoreRow, UNCHANGED <<backend, mem, owed>>
  PROVE  KeptInv'
<1> DEFINE e == call.event
           note == [id |-> e.is, job |-> e.job]
           row == Row(e.type, e.job, e.is)
<1>1. Locked /\ Head(call.todo) = "row" /\ Done
  BY DEF StoreRow, ToDo
<1>2. backend = "sqlite" /\ e # NoEvent /\ call.found = {} /\ call.todo = <<"row", "sequence", "return">>
  BY <1>1, FirstWrite DEF StoreInv
<1>3. e \in Events /\ disk \in TablesOfDisk /\ mem \in Snapshots /\ call \in Calls
  BY <1>2 DEF StoreInv, StoreTypes, Calls
<1>4. /\ disk.rows \in SUBSET Rows /\ disk.transcript \in Seq(Notes) /\ mem.transcript \in Seq(Notes)
      /\ disk'.transcript \in Seq(Notes)
  BY <1>2, <1>3 DEF TablesOfDisk, Snapshots, StoreInv, StoreTypes
<1>5. call'.event = e /\ call'.found = {} /\ call'.chat = call.chat /\ call'.todo = <<"sequence", "return">>
  <2>1. call'.todo = Tail(call.todo)
    BY <1>1, DoneCall, <1>3 DEF Done, Calls
  <2>2. Tail(<<"row", "sequence", "return">>) = <<"sequence", "return">>
    OBVIOUS
  <2> QED
    BY <1>1, <1>2, <2>1, <2>2, CallStays
<1>6. ~RowWritten /\ RowWritten'
  <2>1. <<"sequence", "return">> # <<"row", "sequence", "return">>
    OBVIOUS
  <2> QED
    BY <1>2, <1>5, <2>1 DEF RowWritten
<1>7. Remembered = mem /\ TurnsUnknown = Behind /\ Remembered' = Reduce(mem, e) /\ TurnsUnknown' = owed
  BY <1>2, <1>5, <1>6 DEF Remembered, TurnsUnknown
<1>8. /\ RowsLeft = disk.rows /\ NotesLeft = Range(disk.transcript)
      /\ RowsLeft' = disk'.rows /\ NotesLeft' = Range(disk'.transcript)
  BY <1>2, <1>5 DEF RowsLeft, NotesLeft
<1>9. /\ KeepOnly(disk.transcript, NotesLeft) = disk.transcript
      /\ KeepOnly(disk'.transcript, NotesLeft') = disk'.transcript
  BY <1>4, <1>8, KeepAll
<1>10. /\ SameRows(mem.rows, disk.rows, Behind) /\ IsInjective(disk.transcript)
       /\ AsTable(mem.transcript) = disk.transcript
  BY <1>2, <1>7, <1>8, <1>9 DEF KeptInv, TablesAgree
<1>11. /\ Remembered'.rows = RowsWith(mem.rows, e) /\ Remembered'.transcript = NotesWith(mem.transcript, e)
  BY <1>3, <1>7, ReduceParts
<1> DEFINE Agree == /\ SameRows(RowsWith(mem.rows, e), disk'.rows, owed)
                    /\ IsInjective(disk'.transcript)
                    /\ AsTable(NotesWith(mem.transcript, e)) = disk'.transcript
                    /\ disk'.titles = disk.titles
<1>12. Behind = owed \cup (IF e.type \in {"turn", "run"} THEN {e.job} ELSE {})
  BY DEF Behind
<1>13. ASSUME e.type = "message" PROVE Agree
  <2>1. note \in Notes
    BY <1>3, <1>13, EventKinds, StoreAssumption DEF Notes
  <2>2. disk' = [disk EXCEPT !.transcript = Inserted(@, note)]
    BY <1>13 DEF StoreRow
  <2>3. RowsWith(mem.rows, e) = mem.rows /\ NotesWith(mem.transcript, e) = Append(mem.transcript, note)
    BY <1>13 DEF RowsWith, NotesWith
  <2> HIDE DEF note, e
  <2>4. disk'.rows = disk.rows /\ disk'.titles = disk.titles /\ disk'.transcript = Inserted(disk.transcript, note)
    BY <1>3, <2>2 DEF TablesOfDisk
  <2>5. AsTable(Append(mem.transcript, note)) = Inserted(disk.transcript, note)
    BY <1>4, <1>10, <2>1, TableAppend
  <2>6. IsInjective(Inserted(disk.transcript, note))
    BY <1>4, <1>10, <2>1, InsertedFine
  <2>7. Behind = owed
    BY <1>12, <1>13
  <2> QED
    BY <1>10, <2>3, <2>4, <2>5, <2>6, <2>7
<1>14. ASSUME e.type = "hint" PROVE Agree
  <2>1. disk' = disk
    BY <1>14 DEF StoreRow
  <2>2. RowsWith(mem.rows, e) = mem.rows /\ NotesWith(mem.transcript, e) = mem.transcript
    BY <1>14 DEF RowsWith, NotesWith
  <2>3. Behind = owed
    BY <1>12, <1>14
  <2> QED
    BY <1>10, <2>1, <2>2, <2>3
<1>15. ASSUME e.type \notin {"message", "hint"} PROVE Agree
  <2> DEFINE base == IF e.type = "turn" /\ Has(mem.rows, "run", e.job)
                     THEN Upserted(mem.rows, Row("run", e.job, "turn")) ELSE mem.rows
  <2>1. disk' = [disk EXCEPT !.rows = Upserted(@, row)]
    BY <1>15 DEF StoreRow
  <2>2. RowsWith(mem.rows, e) = Upserted(base, row) /\ NotesWith(mem.transcript, e) = mem.transcript
    BY <1>15 DEF RowsWith, NotesWith
  <2>3. row.kind = e.type /\ row.job = e.job
    BY DEF Row
  <2> HIDE DEF row, e
  <2>4. disk'.rows = Upserted(disk.rows, row) /\ disk'.titles = disk.titles /\ disk'.transcript = disk.transcript
    BY <1>3, <2>1 DEF TablesOfDisk
  <2>5. SameRows(base, disk.rows, Behind)
    <3>1. CASE e.type = "turn"
      <4>1. e.job \in Behind
        BY <1>12, <3>1
      <4> QED
        BY <1>10, <3>1, <4>1, SameRowsTurn
    <3>2. CASE e.type # "turn"
      BY <1>10, <3>2
    <3> QED
      BY <3>1, <3>2
  <2>6. \A j \in Behind : j \in owed \/ (row.kind = "run" /\ row.job = j)
    <3>1. e.type = "turn" => e.job \in owed
      BY <1>1 DEF KeptInv, CallShape, e
    <3> QED
      BY <1>12, <2>3, <3>1
  <2>7. owed \subseteq Behind
    BY <1>12
  <2> HIDE DEF base
  <2>8. SameRows(Upserted(base, row), Upserted(disk.rows, row), owed)
    BY <2>5, <2>6, <2>7, SameRowsUpserted
  <2> QED
    BY <1>10, <2>2, <2>4, <2>8
<1>16. Agree
  BY <1>13, <1>14, <1>15
<1> HIDE DEF e, note, row
<1>17. TablesAgree'
  BY <1>7, <1>8, <1>9, <1>11, <1>16 DEF TablesAgree
<1>18. TitlesAgree'
  <2>1. /\ Range(call.todo) \cap {"title", "retitle"} = {}
        /\ Range(call'.todo) \cap {"title", "retitle"} = {}
    BY <1>2, <1>5 DEF Range
  <2>2. mem.titles = disk.titles
    BY <1>2, <2>1 DEF KeptInv, TitlesAgree
  <2> QED
    BY <1>16, <2>1, <2>2 DEF TitlesAgree
<1>19. CallShape' /\ IndexKept' /\ FileAgrees'
  BY <1>1, <1>2, ShapeStays DEF IndexKept, FileAgrees, KeptInv
<1> QED
  BY <1>17, <1>18, <1>19 DEF KeptInv

\* The number is written.
LEMMA StoreSequenceKeeps ==
  ASSUME StoreInv, KeptInv, StoreSequence, UNCHANGED <<backend, mem, owed>>
  PROVE  KeptInv'
<1>1. Locked /\ Head(call.todo) = "sequence" /\ Done /\ disk' = [disk EXCEPT !.sequence = sequence]
  BY DEF StoreSequence, ToDo
<1>2. backend = "sqlite" /\ call.event # NoEvent /\ call.todo = <<"sequence", "return">>
  BY <1>1, FirstWrite DEF StoreInv
<1>3. disk \in TablesOfDisk /\ call \in Calls
  BY <1>2 DEF StoreInv, StoreTypes
<1>4. disk'.rows = disk.rows /\ disk'.transcript = disk.transcript /\ disk'.titles = disk.titles
  BY <1>1, <1>3 DEF TablesOfDisk
<1>5. call'.event = call.event /\ call'.found = call.found /\ call'.chat = call.chat
  BY <1>1, CallStays
<1>6. call'.todo = <<"return">>
  <2>1. Tail(<<"sequence", "return">>) = <<"return">>
    OBVIOUS
  <2> QED
    BY <1>1, <1>2, <1>3, <2>1 DEF Done, Calls
<1>7. RowWritten /\ RowWritten'
  <2>1. <<"sequence", "return">> # <<"row", "sequence", "return">> /\ <<"return">> # <<"row", "sequence", "return">>
    OBVIOUS
  <2> QED
    BY <1>2, <1>5, <1>6, <2>1 DEF RowWritten
<1>8. Remembered' = Remembered /\ TurnsUnknown' = TurnsUnknown /\ RowsLeft' = RowsLeft /\ NotesLeft' = NotesLeft
  BY <1>4, <1>5, <1>7 DEF Remembered, TurnsUnknown, RowsLeft, NotesLeft
<1>9. TablesAgree'
  BY <1>4, <1>8 DEF KeptInv, TablesAgree
<1>10. TitlesAgree'
  <2>1. /\ Range(call.todo) \cap {"title", "retitle"} = {}
        /\ Range(call'.todo) \cap {"title", "retitle"} = {}
    BY <1>2, <1>6 DEF Range
  <2> QED
    BY <1>2, <1>4, <1>5, <2>1 DEF KeptInv, TitlesAgree
<1>11. CallShape' /\ IndexKept' /\ FileAgrees'
  BY <1>1, <1>2, ShapeStays DEF IndexKept, FileAgrees, KeptInv
<1> QED
  BY <1>9, <1>10, <1>11 DEF KeptInv

\* What a deletion takes from the tables is what it was to take.
LEMMA DeletionKeeps ==
  ASSUME StoreInv, KeptInv, Locked, backend = "sqlite", call.event = NoEvent, Done \/ UNCHANGED call,
         UNCHANGED <<backend, mem, owed>>, RowsLeft' = RowsLeft, IsInjective(disk'.transcript),
         KeepOnly(disk'.transcript, NotesLeft') = KeepOnly(disk.transcript, NotesLeft),
         \/ disk'.titles = disk.titles /\ (UNCHANGED call \/ Head(call.todo) \notin {"title", "retitle"})
         \/ disk'.titles = mem.titles
  PROVE  KeptInv'
<1>1. call'.event = NoEvent /\ call'.chat = call.chat
  BY CallStays
<1>2. Remembered = mem /\ Remembered' = mem /\ TurnsUnknown = owed /\ TurnsUnknown' = owed
  BY <1>1 DEF Remembered, RowWritten, TurnsUnknown
<1>3. TablesAgree'
  BY <1>2 DEF KeptInv, TablesAgree
<1>4. /\ \A w \in Range(call'.todo) : w \in Range(call.todo)
      /\ \A w \in Range(call.todo) : w \in Range(call'.todo) \/ (Done /\ w = Head(call.todo))
  <2>1. call \in Calls /\ CallKnown
    BY DEF StoreInv, StoreTypes
  <2>2. CASE Done
    <3>1. call'.todo = Tail(call.todo)
      BY <2>1, <2>2 DEF Done, Calls
    <3> QED
      BY <2>1, <2>2, <3>1, TodoTail
  <2> QED
    BY <2>2
<1>5. TitlesAgree'
  <2>1. CASE disk'.titles = mem.titles
    BY <1>1, <1>4, <2>1 DEF KeptInv, TitlesAgree
  <2>2. CASE disk'.titles = disk.titles /\ (UNCHANGED call \/ Head(call.todo) \notin {"title", "retitle"})
    <3>1. Range(call'.todo) \cap {"title", "retitle"} = {} => Range(call.todo) \cap {"title", "retitle"} = {}
      BY <1>4, <2>2
    <3> QED
      BY <1>1, <1>4, <2>2, <3>1 DEF KeptInv, TitlesAgree
  <2> QED
    BY <2>1, <2>2
<1>6. CallShape' /\ IndexKept' /\ FileAgrees'
  BY ShapeStays DEF IndexKept, FileAgrees, KeptInv
<1> QED
  BY <1>3, <1>5, <1>6 DEF KeptInv

\* A row that goes is of a job that is being deleted.
LEMMA DeleteRowsKeeps ==
  ASSUME StoreInv, KeptInv, DeleteRows, UNCHANGED <<backend, mem, owed>>
  PROVE  KeptInv'
<1> DEFINE hit == {r \in disk.rows : r.kind = Head(call.todo) /\ r.job \in call.found}
<1>1. Locked /\ Head(call.todo) \in Kinds
  BY DEF DeleteRows
<1>2. backend = "sqlite" /\ call.event = NoEvent
  BY <1>1, FirstWrite DEF StoreInv
<1>3. disk \in TablesOfDisk /\ Head(call.todo) \notin {"title", "retitle"}
  BY <1>1, <1>2, StoreAssumption DEF StoreInv, StoreTypes, Kinds
<1>4. IsInjective(disk.transcript)
  BY <1>2 DEF KeptInv, TablesAgree
<1>5. CASE \E r \in hit : disk' = [disk EXCEPT !.rows = @ \ {r}] /\ UNCHANGED call
  <2>1. PICK r \in hit : disk' = [disk EXCEPT !.rows = @ \ {r}] /\ UNCHANGED call
    BY <1>5
  <2>2. disk'.rows = disk.rows \ {r} /\ disk'.transcript = disk.transcript /\ disk'.titles = disk.titles
    BY <1>3, <2>1 DEF TablesOfDisk
  <2>3. RowsLeft' = RowsLeft /\ NotesLeft' = NotesLeft
    BY <2>1, <2>2 DEF RowsLeft, NotesLeft
  <2> QED
    BY <1>1, <1>2, <1>4, <2>1, <2>2, <2>3, DeletionKeeps
<1>6. CASE hit = {} /\ Done /\ UNCHANGED disk
  <2>1. RowsLeft' = RowsLeft /\ NotesLeft' = NotesLeft
    BY <1>6, CallStays DEF RowsLeft, NotesLeft
  <2> QED
    BY <1>1, <1>2, <1>3, <1>4, <1>6, <2>1, DeletionKeeps
<1> QED
  BY <1>5, <1>6 DEF DeleteRows

\* So is a message.
LEMMA DeleteTranscriptKeeps ==
  ASSUME StoreInv, KeptInv, DeleteTranscript, UNCHANGED <<backend, mem, owed>>
  PROVE  KeptInv'
<1> DEFINE hit(m) == m.job \in call.found
           notes == disk.transcript
<1>1. Locked /\ Head(call.todo) = "transcript"
  BY DEF DeleteTranscript, ToDo
<1>2. backend = "sqlite" /\ call.event = NoEvent
  BY <1>1, FirstWrite DEF StoreInv
<1>3. disk \in TablesOfDisk /\ notes \in Seq(Notes) /\ IsInjective(notes)
  BY <1>2 DEF StoreInv, StoreTypes, TablesOfDisk, KeptInv, TablesAgree
<1>4. CASE \E m \in Range(notes) : hit(m)
  <2> DEFINE I == {i \in 1 .. Len(notes) : hit(notes[i])}
             rest1 == RemoveAt(notes, Min(I))
  <2>1. disk' = [disk EXCEPT !.transcript = RemoveFirstMatch(@, hit)] /\ UNCHANGED call
    BY <1>4 DEF DeleteTranscript
  <2>2. I # {} /\ I \in SUBSET Nat
    <3>1. PICK m \in Range(notes) : hit(m)
      BY <1>4
    <3>2. PICK i \in 1 .. Len(notes) : notes[i] = m
      BY <1>3, <3>1 DEF Range
    <3>3. QED
      BY <3>1, <3>2
  <2>3. RemoveFirstMatch(notes, hit) = rest1
    BY <2>2 DEF RemoveFirstMatch, SelectInSeq
  <2>4. Min(I) \in 1 .. Len(notes) /\ hit(notes[Min(I)])
    BY <2>2, LeastOf
  <2>5. notes[Min(I)] \notin NotesLeft
    BY <2>4 DEF NotesLeft
  <2>6. /\ rest1 \in Seq(Notes) /\ Range(rest1) \subseteq Range(notes) /\ IsInjective(rest1)
        /\ KeepOnly(rest1, NotesLeft) = KeepOnly(notes, NotesLeft)
    <3> HIDE DEF I, notes
    <3> QED
      BY <1>3, <2>4, <2>5, RemoveShrinks
  <2>7. disk' = [disk EXCEPT !.transcript = rest1]
    BY <2>1, <2>3
  <2> HIDE DEF I, rest1
  <2>8. disk'.rows = disk.rows /\ disk'.transcript = rest1 /\ disk'.titles = disk.titles
    BY <1>3, <2>7 DEF TablesOfDisk
  <2>9. RowsLeft' = RowsLeft /\ NotesLeft' = {m \in Range(rest1) : m.job \notin call.found}
    BY <2>1, <2>8 DEF RowsLeft, NotesLeft
  <2>10. Range(rest1) \cap NotesLeft = Range(rest1) \cap NotesLeft'
    BY <2>6, <2>9 DEF NotesLeft
  <2>11. KeepOnly(rest1, NotesLeft') = KeepOnly(rest1, NotesLeft)
    BY <2>6, <2>10, KeepSame
  <2> QED
    BY <1>1, <1>2, <2>1, <2>6, <2>8, <2>9, <2>11, DeletionKeeps
<1>5. CASE ~ \E m \in Range(notes) : hit(m)
  <2>1. Done /\ UNCHANGED disk
    BY <1>5 DEF DeleteTranscript
  <2>2. RowsLeft' = RowsLeft /\ NotesLeft' = NotesLeft
    BY <2>1, CallStays DEF RowsLeft, NotesLeft
  <2> QED
    BY <1>1, <1>2, <1>3, <2>1, <2>2, DeletionKeeps
<1> QED
  BY <1>4, <1>5

\* The titles are written as memory has them.
LEMMA WriteTitleKeeps ==
  ASSUME StoreInv, KeptInv, DeleteTitle \/ Retitle, UNCHANGED <<backend, mem, owed>>
  PROVE  KeptInv'
<1>1. Locked /\ Head(call.todo) \in {"title", "retitle"} /\ Done
  BY DEF DeleteTitle, Retitle, ToDo
<1>2. backend = "sqlite" /\ call.event = NoEvent
  BY <1>1, FirstWrite DEF StoreInv
<1>3. disk \in TablesOfDisk /\ IsInjective(disk.transcript)
  BY <1>2 DEF StoreInv, StoreTypes, KeptInv, TablesAgree
<1>4. disk'.rows = disk.rows /\ disk'.transcript = disk.transcript /\ disk'.titles = mem.titles
  <2>1. CASE Retitle
    BY <1>3, <2>1 DEF Retitle, TablesOfDisk
  <2>2. CASE DeleteTitle
    <3>1. Head(call.todo) = "title" /\ disk' = [disk EXCEPT !.titles = disk.titles \ {call.chat}]
      BY <2>2 DEF DeleteTitle, ToDo
    <3>2. "title" \in Range(call.todo)
      BY <1>1, <3>1, TodoTail DEF StoreInv, StoreTypes
    <3>3. call.chat \notin mem.titles /\ mem.titles \ {call.chat} = disk.titles \ {call.chat}
      BY <1>2, <3>2 DEF KeptInv, TitlesAgree
    <3>4. mem.titles = disk.titles \ {call.chat}
      BY <3>3
    <3> QED
      BY <1>3, <3>1, <3>4 DEF TablesOfDisk
  <2> QED
    BY <2>1, <2>2
<1>5. RowsLeft' = RowsLeft /\ NotesLeft' = NotesLeft
  BY <1>1, <1>4, CallStays DEF RowsLeft, NotesLeft
<1> QED
  BY <1>1, <1>2, <1>3, <1>4, <1>5, DeletionKeeps

\* A deletion takes from memory what it is to take from the tables.
LEMMA DeleteSessionKeeps ==
  ASSUME StoreInv, StoreInv', KeptInv, NEW chat \in Chats, DeleteSession(chat)
  PROVE  KeptInv'
<1> DEFINE found == RunsOf(mem, chat)
           todo == IF backend = "sqlite" THEN Schedule
                   ELSE IF found # {} THEN <<"save", "return">> ELSE <<"return">>
           stay == {m \in Range(mem.transcript) : m.job \notin found}
           kept == KeepOnly(mem.transcript, stay)
<1>1. /\ ~Locked /\ UNCHANGED <<backend, disk, owed>> /\ mem' = Purge(mem, chat)
      /\ call' = [NoCall EXCEPT !.chat = chat, !.found = found, !.todo = todo]
  BY DEF DeleteSession, Schedule
<1>2. call'.event = NoEvent /\ call'.chat = chat /\ call'.found = found /\ call'.todo = todo
  <2> HIDE DEF found, todo
  <2> QED
    BY <1>1 DEF NoCall
<1>3. call.event = NoEvent /\ Range(call.todo) = {} /\ NoEvent.type = "none"
  BY <1>1, BetweenCalls DEF NoEvent
<1>4. mem \in Snapshots /\ mem.transcript \in Seq(Notes) /\ mem.rows \in SUBSET Rows
  BY DEF StoreInv, StoreTypes, Snapshots
<1>5. /\ mem'.rows = {r \in mem.rows : r.job \notin found} /\ mem'.titles = mem.titles \ {chat}
      /\ mem'.transcript = kept /\ mem'.runs = mem.runs \ found
      /\ mem'.questions = mem.questions /\ mem'.plans = mem.plans
  <2>1. mem' = [mem EXCEPT !.rows = {r \in @ : r.job \notin found}, !.runs = @ \ found,
                           !.transcript = kept, !.titles = @ \ {chat}]
    BY <1>1 DEF Purge
  <2> HIDE DEF found, kept
  <2> QED
    BY <1>4, <2>1 DEF Snapshots
<1>6. CallShape'
  BY <1>2, <1>3 DEF CallShape
<1>7. IndexKept'
  BY <1>1, <1>5 DEF KeptInv, IndexKept, Indexed
<1>8. CASE backend = "sqlite"
  <2>1. /\ SameRows(mem.rows, disk.rows, owed) /\ AsTable(mem.transcript) = disk.transcript
        /\ mem.titles = disk.titles /\ IsInjective(disk.transcript)
    BY <1>3, <1>8, TablesSame DEF KeptInv, TablesAgree
  <2>2. Remembered' = mem' /\ TurnsUnknown' = owed
    BY <1>1, <1>2 DEF Remembered, RowWritten, TurnsUnknown
  <2>3. RowsLeft' = {r \in disk.rows : r.job \notin found}
        /\ NotesLeft' = {m \in Range(disk.transcript) : m.job \notin found}
    BY <1>1, <1>2 DEF RowsLeft, NotesLeft
  <2> HIDE DEF found
  <2>4. SameRows(mem'.rows, RowsLeft', owed)
    <3>1. SameRows({r \in mem.rows : r.job \notin found}, {r \in disk.rows : r.job \notin found}, owed)
      BY <2>1, SameRowsRest
    <3> QED
      BY <1>5, <2>3, <3>1
  <2>5. AsTable(kept) = KeepOnly(AsTable(mem.transcript), stay)
    BY <1>4, TableKeeps
  <2>6. Range(AsTable(mem.transcript)) = Range(mem.transcript)
    BY <1>4, TableRange
  <2>7. stay = NotesLeft'
    BY <2>1, <2>3, <2>6
  <2>8. TablesAgree'
    <3>1. AsTable(mem'.transcript) = KeepOnly(disk.transcript, NotesLeft')
      <4>1. AsTable(kept) = KeepOnly(disk.transcript, stay)
        BY <2>1, <2>5
      <4> HIDE DEF kept, stay
      <4> QED
        BY <1>5, <2>7, <4>1
    <3> HIDE DEF kept, stay
    <3>2. IsInjective(disk'.transcript) /\ disk'.transcript = disk.transcript
      BY <1>1, <2>1
    <3> QED
      BY <2>2, <2>4, <3>1, <3>2 DEF TablesAgree
  <2>9. "title" \in Range(call'.todo)
    BY <1>2, <1>8, ScheduleFine
  <2>10. TitlesAgree' /\ FileAgrees'
    BY <1>1, <1>2, <1>5, <1>8, <2>1, <2>9 DEF TitlesAgree, FileAgrees
  <2> QED
    BY <1>6, <1>7, <2>8, <2>10 DEF KeptInv
<1>9. CASE backend = "json"
  <2>1. TablesAgree' /\ TitlesAgree'
    BY <1>1, <1>9 DEF TablesAgree, TitlesAgree
  <2>2. FileAgrees'
    <3>1. CASE found # {}
      <4>1. call'.todo = <<"save", "return">>
        BY <1>2, <1>9, <3>1
      <4>2. "save" \in Range(call'.todo)
        BY <4>1 DEF Range
      <4> QED
        BY <4>2 DEF FileAgrees
    <3>2. CASE found = {}
      <4>1. Range(mem.transcript) \subseteq stay
        BY <3>2
      <4>2. kept = mem.transcript
        BY <1>4, <4>1, KeepAll
      <4>3. mem'.rows = mem.rows /\ mem'.runs = mem.runs
        BY <1>5, <3>2
      <4>4. ASSUME NEW r \in mem.rows, r.kind = "run" PROVE ChatOf[r.job] # chat
        <5>1. r.job \in Jobs /\ Has(mem.rows, "run", r.job)
          BY <1>4, <4>4 DEF Rows, Has
        <5> QED
          BY <3>2, <5>1 DEF RunsOf, JobsOf
      <4> HIDE DEF found, stay, kept
      <4>5. LET s == disk.snapshot IN
            /\ s.rows = mem.rows /\ s.transcript = mem.transcript
            /\ s.runs = mem.runs /\ s.questions = mem.questions /\ s.plans = mem.plans
            /\ \A r \in mem.rows : r.kind = "run" => (ChatOf[r.job] \in s.titles <=> ChatOf[r.job] \in mem.titles)
        BY <1>3, <1>9 DEF KeptInv, FileAgrees
      <4> QED
        BY <1>1, <1>5, <4>2, <4>3, <4>4, <4>5 DEF FileAgrees
    <3> QED
      BY <3>1, <3>2
  <2> QED
    BY <1>6, <1>7, <2>1, <2>2 DEF KeptInv
<1> QED
  BY <1>8, <1>9, StoreAssumption DEF StoreInv, StoreTypes

\* A title in memory is about to be written.
LEMMA SetTitleKeeps ==
  ASSUME StoreInv, StoreInv', KeptInv, NEW chat \in Chats, NEW on \in BOOLEAN, SetTitle(chat, on)
  PROVE  KeptInv'
<1> DEFINE titles == IF on THEN mem.titles \cup {chat} ELSE mem.titles \ {chat}
           todo == <<IF backend = "json" THEN "save" ELSE "retitle", "return">>
<1>1. /\ ~Locked /\ UNCHANGED <<backend, disk, owed>> /\ mem' = [mem EXCEPT !.titles = titles]
      /\ call' = [NoCall EXCEPT !.chat = chat, !.todo = todo]
  BY DEF SetTitle
<1>2. call'.event = NoEvent /\ call'.chat = chat /\ call'.found = {} /\ call'.todo = todo
  <2> HIDE DEF todo
  <2> QED
    BY <1>1 DEF NoCall
<1>3. call.event = NoEvent /\ Range(call.todo) = {} /\ NoEvent.type = "none"
  BY <1>1, BetweenCalls DEF NoEvent
<1>4. mem \in Snapshots
  BY DEF StoreInv, StoreTypes
<1>5. titles \ {chat} = mem.titles \ {chat}
  OBVIOUS
<1>6. /\ backend = "json" => "save" \in Range(todo)
      /\ backend # "json" => "retitle" \in Range(todo)
      /\ "title" \notin Range(todo)
  BY DEF Range
<1> HIDE DEF titles, todo
<1>7. /\ mem'.rows = mem.rows /\ mem'.titles = titles /\ mem'.transcript = mem.transcript
      /\ mem'.runs = mem.runs /\ mem'.questions = mem.questions /\ mem'.plans = mem.plans
  BY <1>1, <1>4 DEF Snapshots
<1>8. CallShape' /\ IndexKept'
  BY <1>1, <1>2, <1>3, <1>7 DEF CallShape, KeptInv, IndexKept, Indexed
<1>9. CASE backend = "sqlite"
  <2>1. /\ SameRows(mem.rows, disk.rows, owed) /\ AsTable(mem.transcript) = disk.transcript
        /\ mem.titles = disk.titles /\ IsInjective(disk.transcript)
    BY <1>3, <1>9, TablesSame DEF KeptInv, TablesAgree
  <2>2. Remembered' = mem' /\ TurnsUnknown' = owed /\ RowsLeft' = disk.rows /\ NotesLeft' = Range(disk.transcript)
    BY <1>1, <1>2 DEF Remembered, RowWritten, TurnsUnknown, RowsLeft, NotesLeft
  <2>3. KeepOnly(disk.transcript, NotesLeft') = disk.transcript
    BY <1>9, <2>2, KeepAll DEF StoreInv, StoreTypes, TablesOfDisk
  <2>4. TablesAgree'
    BY <1>1, <1>7, <2>1, <2>2, <2>3 DEF TablesAgree
  <2>5. TitlesAgree' /\ FileAgrees'
    BY <1>1, <1>2, <1>5, <1>6, <1>7, <1>9, <2>1 DEF TitlesAgree, FileAgrees
  <2> QED
    BY <1>8, <2>4, <2>5 DEF KeptInv
<1>10. CASE backend = "json"
  <2>1. TablesAgree' /\ TitlesAgree' /\ FileAgrees'
    BY <1>1, <1>2, <1>6, <1>10 DEF TablesAgree, TitlesAgree, FileAgrees
  <2> QED
    BY <1>8, <2>1 DEF KeptInv
<1> QED
  BY <1>9, <1>10, StoreAssumption DEF StoreInv, StoreTypes

\* Every step leaves memory and disk in agreement.
LEMMA KeptStep == ASSUME StoreInv, StoreInv', KeptInv, [StoreNext]_storeVars PROVE KeptInv'
<1>1. ASSUME NEW e \in Events, Record(e) PROVE KeptInv'
  <2>1. Append_(e) /\ owed' = IF e.type = "turn" THEN owed \cup {e.job} ELSE owed
    BY <1>1 DEF Record
  <2>2. owed \ {e.job} \subseteq owed' /\ owed \subseteq owed' /\ (e.type = "turn" => e.job \in owed')
    BY <2>1
  <2> QED
    BY <2>1, <2>2, AppendKeeps
<1>2. ASSUME NEW j \in Jobs, RecordRunOfTurn(j) PROVE KeptInv'
  <2> DEFINE e == [type |-> "run", job |-> j, is |-> "turn"]
  <2>1. e \in Events /\ e.type = "run" /\ e.job = j
    BY DEF Events
  <2>2. Append_(e) /\ owed' = owed \ {j}
    BY <1>2 DEF RecordRunOfTurn
  <2> HIDE DEF e
  <2> QED
    BY <2>1, <2>2, AppendKeeps
<1>3. ASSUME NEW chat \in Chats, DeleteSession(chat) PROVE KeptInv'
  BY <1>3, DeleteSessionKeeps
<1>4. ASSUME NEW chat \in Chats, NEW on \in BOOLEAN, SetTitle(chat, on) PROVE KeptInv'
  BY <1>4, SetTitleKeeps
<1>5. ASSUME Write PROVE KeptInv'
  BY <1>5, SaveKeeps, StoreRowKeeps, StoreSequenceKeeps, DeleteRowsKeeps, DeleteTranscriptKeeps, WriteTitleKeeps
  DEF Write
<1>6. ASSUME Return PROVE KeptInv'
  BY <1>6, ReturnKeeps
<1>7. ASSUME Restart PROVE KeptInv'
  BY <1>7, RestartKeeps
<1>8. ASSUME UNCHANGED storeVars PROVE KeptInv'
  <2>1. UNCHANGED <<backend, mem, disk, call, owed>>
    BY <1>8 DEF storeVars
  <2> QED
    BY <2>1 DEF KeptInv, CallShape, Locked, IndexKept, TablesAgree, TitlesAgree, FileAgrees, Remembered,
                RowWritten, TurnsUnknown, Behind, RowsLeft, NotesLeft
<1> QED
  BY <1>1, <1>2, <1>3, <1>4, <1>5, <1>6, <1>7, <1>8 DEF StoreNext

\* What a start finds is answered as memory is, or as memory will be when
\* the call returns.
LEMMA NothingMissing == ASSUME StoreInv, KeptInv PROVE RestartLosesNothing
<1> SUFFICES ASSUME call.chat = "none", backend = "json" => ~Locked
             PROVE  Seen(Restored) \in {Seen(mem)} \cup
                      (IF call.event = NoEvent THEN {} ELSE {Seen(Reduce(mem, call.event))})
  BY DEF RestartLosesNothing
<1>1. mem \in Snapshots /\ Restored \in Snapshots /\ Indexed(mem) /\ call \in Calls
  BY RestoredFine DEF StoreInv, StoreTypes, KeptInv, IndexKept
<1>2. CASE backend = "json"
  <2>1. Restored = disk.snapshot /\ Indexed(Restored)
    BY <1>2 DEF Restored, KeptInv, IndexKept
  <2>2. Range(call.todo) = {}
    BY <1>2, BetweenCalls
  <2>3. /\ Restored.rows = mem.rows /\ Restored.transcript = mem.transcript
        /\ \A r \in mem.rows : r.kind = "run" => (ChatOf[r.job] \in Restored.titles <=> ChatOf[r.job] \in mem.titles)
    BY <1>2, <2>1, <2>2 DEF KeptInv, FileAgrees
  <2>4. SameRows(Restored.rows, mem.rows, Behind)
    BY <2>3 DEF SameRows
  <2>5. Seen(Restored) = Seen(mem)
    BY <1>1, <2>1, <2>3, <2>4, SeenSame
  <2> QED
    BY <2>5
<1>3. CASE backend = "sqlite"
  <2>1. disk \in TablesOfDisk /\ disk.transcript \in Seq(Notes) /\ IsInjective(disk.transcript)
    BY <1>3 DEF StoreInv, StoreTypes, TablesOfDisk, KeptInv, TablesAgree
  <2>2. Restored = LoadSnapshot(disk)
    BY <1>3 DEF Restored
  <2>3. /\ Restored.rows = disk.rows /\ Restored.transcript = disk.transcript /\ Restored.titles = disk.titles
        /\ Indexed(Restored)
    BY <2>1, <2>2, LoadFine, LoadIndexed
  <2>4. AsTable(disk.transcript) = disk.transcript
    BY <2>1, TableSame
  <2>5. ASSUME NEW s \in Snapshots, Indexed(s), SameRows(s.rows, disk.rows, Behind),
               AsTable(s.transcript) = disk.transcript, s.titles = disk.titles
        PROVE  Seen(Restored) = Seen(s)
    <3>1. SameRows(Restored.rows, s.rows, Behind)
      BY <2>3, <2>5 DEF SameRows
    <3> QED
      BY <1>1, <2>3, <2>4, <2>5, <3>1, SeenSame
  <2>6. owed \subseteq Behind
    BY DEF Behind
  <2>7. CASE call.event = NoEvent
    <3>1. ~Locked
      <4>1. "none" \notin Chats
        BY StoreAssumption DEF Chats
      <4> QED
        BY <2>7, <4>1 DEF KeptInv, CallShape
    <3>2. Range(call.todo) = {}
      BY <3>1, BetweenCalls
    <3>3. SameRows(mem.rows, disk.rows, owed) /\ AsTable(mem.transcript) = disk.transcript /\ mem.titles = disk.titles
      BY <1>3, <2>7, <3>2, TablesSame
    <3>4. SameRows(mem.rows, disk.rows, Behind)
      BY <2>6, <3>3, SameRowsMore
    <3>5. Seen(Restored) = Seen(mem)
      BY <1>1, <2>5, <3>3, <3>4
    <3> QED
      BY <3>5
  <2>8. CASE call.event # NoEvent
    <3>1. /\ call.found = {} /\ call.event \in Events
          /\ call.todo \in {<<"row", "sequence", "return">>, <<"sequence", "return">>, <<"return">>}
      BY <1>1, <1>3, <2>8 DEF StoreInv, CallKnown, Calls
    <3>2. Range(call.todo) \cap {"title", "retitle"} = {}
      BY <3>1 DEF Range
    <3>3. mem.titles = disk.titles
      BY <1>3, <3>2 DEF KeptInv, TitlesAgree
    <3>4. RowsLeft = disk.rows /\ NotesLeft = Range(disk.transcript)
      BY <3>1 DEF RowsLeft, NotesLeft
    <3>5. KeepOnly(disk.transcript, NotesLeft) = disk.transcript
      BY <2>1, <3>4, KeepAll
    <3>6. /\ SameRows(Remembered.rows, disk.rows, TurnsUnknown)
          /\ AsTable(Remembered.transcript) = disk.transcript
      BY <1>3, <3>4, <3>5 DEF KeptInv, TablesAgree
    <3>7. TurnsUnknown \subseteq Behind
      BY <2>6 DEF TurnsUnknown
    <3>8. SameRows(Remembered.rows, disk.rows, Behind)
      BY <3>6, <3>7, SameRowsMore
    <3>9. Remembered \in {mem, Reduce(mem, call.event)}
      BY DEF Remembered
    <3>10. Remembered \in Snapshots /\ Indexed(Remembered) /\ Remembered.titles = mem.titles
      BY <1>1, <3>1, <3>9, ReduceFine, ReduceParts
    <3>11. Seen(Restored) = Seen(Remembered)
      BY <2>5, <3>3, <3>6, <3>8, <3>10
    <3> QED
      BY <2>8, <3>9, <3>11
  <2> QED
    BY <2>7, <2>8
<1> QED
  BY <1>2, <1>3, StoreAssumption DEF StoreInv, StoreTypes

\* Whatever was recorded, deleted and restarted before, and wherever in a call
\* the process ends, a start answers as memory did, with the event being
\* recorded or without it; JSON for what append has returned from (append,
\* reduce_event, persist_event, load_snapshot, load_persisted_state).
THEOREM NothingIsLost == StoreSpec => []RestartLosesNothing
<1> DEFINE Both == StoreInv /\ KeptInv
<1>1. StoreInit => Both
  BY StoreInitInv, KeptInit
<1>2. Both /\ [StoreNext]_storeVars => Both'
  BY StoreStepInv, KeptStep
<1>3. Both => RestartLosesNothing
  BY NothingMissing
<1> HIDE DEF Both
<1> QED
  BY <1>1, <1>2, <1>3, PTL DEF StoreSpec

-----------------------------------------------------------------------------
(* ResultCache, used by one thread.                                         *)

CallSteps == {"idle", "forget", "touch", "missed", "room", "choose", "evict", "unlist", "insert"}

CacheTypes ==
  /\ entries \in SUBSET CacheKeys /\ IsFiniteSet(entries) /\ Cardinality(entries) <= MaxEntries
  /\ old \subseteq entries
  /\ order \in Seq(CacheKeys) /\ IsInjective(order)
  /\ at \in [CacheThreads -> CallSteps]
  /\ for \in [CacheThreads -> CacheKeys] /\ victim \in [CacheThreads -> CacheKeys]

\* What the order lists when the entries and it are not changed together.
OrderFits(t) ==
  /\ at[t] \in {"idle", "missed", "room", "choose", "evict", "insert"} => Range(order) = entries
  /\ at[t] = "forget" => Range(order) = entries \cup {for[t]}
  /\ at[t] = "unlist" => Range(order) = entries \cup {victim[t]} /\ victim[t] \notin entries
  /\ at[t] = "touch" => Range(order) \cup {for[t]} = entries
  /\ at[t] \in {"forget", "missed", "room", "choose", "evict", "unlist", "insert"} => for[t] \notin entries

\* When there is room, and what goes to make some.
RoomFits(t) ==
  /\ at[t] \in {"choose", "evict"} => Cardinality(entries) = MaxEntries
  /\ at[t] = "evict" => order # <<>> /\ victim[t] = Head(order)
  /\ at[t] = "insert" => Cardinality(entries) < MaxEntries

CacheInv == CacheTypes /\ \A t \in CacheThreads : OrderFits(t) /\ RoomFits(t)

StaleKeys == old \cap Range(UsedKeys)

LEMMA SameHelpers ==
  /\ \A s, S : L!KeepOnly(s, S) = KeepOnly(s, S)
  /\ \A f : L!Range(f) = Range(f)
BY DEF L!KeepOnly, L!Kept, L!Range, KeepOnly, Kept, Range

LeastNext ==
  L!DropLast \/ \E k \in CacheKeys : L!Use(k) \/ L!Hold(k) \/ L!Age(k) \/ L!Lapse(k) \/ L!Renew(k)

\* What a step of the thread has to keep, and to be of a least recently used
\* cache.
CacheGoesOn == CacheInv' /\ [LeastNext]_<<UsedKeys, StaleKeys>>

\* The keys in order of use, by the order of access and the entries.
LEMMA KeysUsed ==
  ASSUME CacheTypes
  PROVE  /\ UsedKeys \in Seq(CacheKeys) /\ IsInjective(UsedKeys)
         /\ Range(UsedKeys) = Range(order) \cap entries
         /\ Range(order) \subseteq entries => UsedKeys = order
BY KeepRange, KeepOnce, KeepAll DEF CacheTypes, UsedKeys

LEMMA CacheInitInv ==
  ASSUME CacheInit
  PROVE  CacheInv /\ UsedKeys = <<>> /\ StaleKeys = {}
<1>1. IsFiniteSet({}) /\ Cardinality({}) = 0 /\ Range(<<>>) = {}
  BY FS_EmptySet, EmptyRange
<1>2. CacheTypes
  <2>1. (CHOOSE k \in CacheKeys : TRUE) \in CacheKeys
    BY CacheAssumption
  <2>2. for \in [CacheThreads -> CacheKeys] /\ victim \in [CacheThreads -> CacheKeys]
    BY <2>1 DEF CacheInit
  <2>3. order = <<>> /\ order \in Seq(CacheKeys) /\ IsInjective(order)
    BY DEF CacheInit, IsInjective
  <2>4. at \in [CacheThreads -> CallSteps]
    BY DEF CacheInit, CallSteps
  <2>5. entries = {} /\ old = {} /\ Cardinality(entries) <= MaxEntries
    BY <1>1, CacheAssumption DEF CacheInit
  <2>6. QED
    BY <1>1, <2>2, <2>3, <2>4, <2>5 DEF CacheTypes
<1>3. \A t \in CacheThreads : OrderFits(t) /\ RoomFits(t)
  BY <1>1 DEF CacheInit, OrderFits, RoomFits
<1>4. UsedKeys = <<>> /\ StaleKeys = {}
  BY KeepEmpty DEF CacheInit, UsedKeys, StaleKeys
<1>5. QED
  BY <1>2, <1>3, <1>4 DEF CacheInv

\* A key is looked for: an expired entry of it lapses.
LEMMA GetCachedGoesOn ==
  ASSUME NEW t, CacheThreads = {t}, CacheInv, NEW k \in CacheKeys, GetCached(t, k)
  PROVE  CacheGoesOn
<1> USE DEF CacheInv
<1> DEFINE step == IF k \in old THEN "forget" ELSE IF k \in entries THEN "touch" ELSE "missed"
<1>1. /\ at[t] = "idle" /\ for' = [for EXCEPT ![t] = k] /\ at' = [at EXCEPT ![t] = step]
      /\ entries' = entries \ (old \cap {k}) /\ old' = old \ {k} /\ UNCHANGED <<order, victim>>
  BY DEF GetCached, Go
<1>2. Range(order) = entries /\ old \subseteq entries /\ entries \subseteq CacheKeys /\ order \in Seq(CacheKeys)
  BY <1>1 DEF OrderFits, CacheTypes
<1>3. step \in CallSteps
  BY DEF CallSteps
<1>4. CacheTypes' /\ at'[t] = step /\ for'[t] = k
  <2>1. IsFiniteSet(entries') /\ Cardinality(entries') <= MaxEntries
    <3>1. /\ IsFiniteSet(entries) /\ IsFiniteSet(entries')
          /\ Cardinality(entries) <= MaxEntries /\ Cardinality(entries') <= Cardinality(entries)
      BY <1>1, FS_Subset DEF CacheTypes
    <3>2. Cardinality(entries) \in Nat /\ Cardinality(entries') \in Nat
      BY <3>1, FS_CardinalityType
    <3>3. QED
      BY <3>1, <3>2, CacheAssumption
  <2> HIDE DEF step
  <2>2. QED
    BY <1>1, <1>2, <1>3, <2>1 DEF CacheTypes
<1>5. OrderFits(t)' /\ RoomFits(t)'
  <2>1. CASE k \in old
    BY <1>1, <1>2, <1>4, <2>1 DEF OrderFits, RoomFits
  <2>2. CASE k \notin old
    BY <1>1, <1>2, <1>4, <2>2 DEF OrderFits, RoomFits
  <2>3. QED
    BY <2>1, <2>2
<1>6. CASE k \in old
  <2>1. UsedKeys = order /\ Range(UsedKeys) = entries
    BY <1>2, KeysUsed
  <2>2. UsedKeys' = KeepOnly(order, entries \ {k}) /\ Range(UsedKeys') = entries \ {k}
    <3>1. entries' = entries \ {k} /\ order' = order
      BY <1>1, <1>6
    <3>2. Range(KeepOnly(order, entries \ {k})) = entries \ {k}
      BY <1>2, KeepRange
    <3>3. QED
      BY <3>1, <3>2 DEF UsedKeys
  <2>3. KeepOnly(order, entries \ {k}) = KeepOnly(order, CacheKeys \ {k})
    <3>1. Range(order) \cap (entries \ {k}) = Range(order) \cap (CacheKeys \ {k})
      BY <1>2
    <3>2. QED
      BY <1>2, <3>1, KeepSame
  <2>4. k \in StaleKeys /\ StaleKeys' = StaleKeys \ {k}
    BY <1>1, <1>2, <1>6, <2>1, <2>2 DEF StaleKeys
  <2>5. L!Lapse(k)
    BY <2>1, <2>2, <2>3, <2>4, SameHelpers DEF L!Lapse, StaleKeys
  <2>6. QED
    BY <1>4, <1>5, <2>5 DEF CacheGoesOn, LeastNext
<1>7. CASE k \notin old
  <2>1. UNCHANGED <<UsedKeys, StaleKeys>>
    BY <1>1, <1>7 DEF UsedKeys, StaleKeys
  <2>2. QED
    BY <1>4, <1>5, <2>1 DEF CacheGoesOn
<1>8. QED
  BY <1>6, <1>7

\* The key of a lapsed entry is taken from the order.
LEMMA ForgetGoesOn ==
  ASSUME NEW t, CacheThreads = {t}, CacheInv, Forget(t) \/ Unlist(t)
  PROVE  CacheGoesOn
<1> USE DEF CacheInv
<1>1. PICK k \in CacheKeys \ entries :
        /\ order' = KeepOnly(order, CacheKeys \ {k}) /\ Range(order) = entries \cup {k}
        /\ \/ at[t] = "forget" /\ at' = [at EXCEPT ![t] = "missed"]
           \/ at[t] = "unlist" /\ at' = [at EXCEPT ![t] = "room"]
        /\ UNCHANGED <<entries, old, for, victim>>
  BY DEF Forget, Unlist, Go, OrderFits, CacheTypes
<1>2. order \in Seq(CacheKeys) /\ entries \subseteq CacheKeys /\ for[t] \notin entries
  BY <1>1 DEF CacheTypes, OrderFits
<1>3. /\ order' \in Seq(CacheKeys) /\ IsInjective(order')
      /\ Range(order') = Range(order) \cap (CacheKeys \ {k})
  BY <1>1, KeepRange, KeepOnce DEF CacheTypes
<1>4. Range(order') = entries
  BY <1>1, <1>2, <1>3
<1>5. CacheTypes' /\ at'[t] \in {"missed", "room"}
  BY <1>1, <1>3 DEF CacheTypes, CallSteps
<1>6. OrderFits(t)' /\ RoomFits(t)'
  BY <1>1, <1>2, <1>4, <1>5 DEF OrderFits, RoomFits
<1>7. UsedKeys' = UsedKeys
  <2>1. UsedKeys' = KeepOnly(order, (CacheKeys \ {k}) \cap entries)
    BY <1>1, <1>2, KeepAgain DEF UsedKeys
  <2>2. (CacheKeys \ {k}) \cap entries = entries
    BY <1>1, <1>2
  <2>3. QED
    BY <2>1, <2>2 DEF UsedKeys
<1>8. UNCHANGED <<UsedKeys, StaleKeys>>
  BY <1>1, <1>7 DEF StaleKeys
<1>9. QED
  BY <1>5, <1>6, <1>8 DEF CacheGoesOn

\* A key goes to the end of the order: it is used, or held from now on.
LEMMA TouchGoesOn ==
  ASSUME NEW t, CacheThreads = {t}, CacheInv, Touch(t)
  PROVE  CacheGoesOn
<1> USE DEF CacheInv
<1> DEFINE k == for[t]
           others == KeepOnly(order, CacheKeys \ {k})
<1>1. /\ at[t] = "touch" /\ order' = Append(others, k)
      /\ at' = [at EXCEPT ![t] = "idle"] /\ UNCHANGED <<entries, old, for, victim>>
  BY DEF Touch, Touched, Go
<1>2. k \in CacheKeys /\ order \in Seq(CacheKeys) /\ IsInjective(order)
      /\ entries \subseteq CacheKeys /\ old \subseteq entries
  BY DEF CacheTypes
<1>3. Range(order) \cup {k} = entries
  BY <1>1 DEF OrderFits
<1>4. others \in Seq(CacheKeys) /\ IsInjective(others) /\ Range(others) = Range(order) \cap (CacheKeys \ {k})
  BY <1>2, KeepRange, KeepOnce
<1> HIDE DEF k, others
<1>5. Range(others) = entries \ {k} /\ k \notin Range(others)
  BY <1>2, <1>3, <1>4
<1>6. order' \in Seq(CacheKeys) /\ IsInjective(order') /\ Range(order') = entries
  <2>1. order' \in Seq(CacheKeys) /\ Range(order') = Range(others) \cup {k}
    BY <1>1, <1>2, <1>4, AppendRange
  <2>2. IsInjective(order')
    BY <1>1, <1>2, <1>4, <1>5, AppendOnce
  <2>3. QED
    BY <1>3, <1>5, <2>1, <2>2
<1>7. CacheTypes' /\ at'[t] = "idle"
  BY <1>1, <1>6 DEF CacheTypes, CallSteps
<1>8. OrderFits(t)' /\ RoomFits(t)'
  BY <1>1, <1>6, <1>7 DEF OrderFits, RoomFits
<1>9. UsedKeys = order /\ Range(UsedKeys) = Range(order)
  BY <1>3, KeysUsed
<1>10. UsedKeys' = order' /\ Range(UsedKeys') = entries
  BY <1>1, <1>6, KeepAll DEF UsedKeys
<1>11. CASE k \in Range(order)
  <2>1. Range(order) = entries
    BY <1>3, <1>11
  <2>2. StaleKeys' = StaleKeys
    BY <1>1, <1>9, <1>10, <2>1 DEF StaleKeys
  <2>3. L!Use(k)
    BY <1>1, <1>9, <1>10, <1>11, <2>2, SameHelpers DEF L!Use, StaleKeys, others
  <2>4. QED
    BY <1>2, <1>7, <1>8, <2>3 DEF CacheGoesOn, LeastNext
<1>12. CASE k \notin Range(order)
  <2>1. others = order
    <3>1. Range(order) \subseteq CacheKeys \ {k}
      BY <1>2, <1>3, <1>12
    <3>2. QED
      BY <1>2, <3>1, KeepAll DEF others
  <2>2. Len(order) < MaxEntries
    <3>1. IsFiniteSet(Range(order)) /\ Cardinality(Range(order)) = Len(order)
      BY <1>2, OnceLength
    <3>2. Cardinality(entries) = Len(order) + 1 /\ Cardinality(entries) <= MaxEntries
      BY <1>3, <1>12, <3>1, FS_AddElement DEF CacheTypes
    <3>3. Len(order) \in Nat
      BY <1>2
    <3>4. QED
      BY <3>2, <3>3, CacheAssumption
  <2>3. StaleKeys' \in {StaleKeys, StaleKeys \cup {k}}
    BY <1>1, <1>3, <1>9, <1>10 DEF StaleKeys
  <2>4. L!Hold(k)
    BY <1>1, <1>9, <1>10, <1>12, <2>1, <2>2, <2>3, SameHelpers DEF L!Hold, StaleKeys
  <2>5. QED
    BY <1>2, <1>7, <1>8, <2>4 DEF CacheGoesOn, LeastNext
<1>13. QED
  BY <1>11, <1>12

\* The plan is executed; is there room for its result, and if not, what is
\* to go?
LEMMA MakeRoomGoesOn ==
  ASSUME NEW t, CacheThreads = {t}, CacheInv, Compute(t) \/ Room(t) \/ ChooseVictim(t)
  PROVE  CacheGoesOn
<1> USE DEF CacheInv
<1>1. /\ UNCHANGED <<entries, old, order, for>> /\ at[t] \in {"missed", "room", "choose"}
      /\ Range(order) = entries /\ for[t] \notin entries
  BY DEF Compute, Room, ChooseVictim, OrderFits
<1>2. Cardinality(entries) \in Nat /\ Cardinality(entries) <= MaxEntries
  BY FS_CardinalityType DEF CacheTypes
<1>3. UNCHANGED <<UsedKeys, StaleKeys>>
  BY <1>1 DEF UsedKeys, StaleKeys
<1>4. CASE Compute(t)
  <2>1. PICK step \in {"room", "idle"} : at' = [at EXCEPT ![t] = step] /\ UNCHANGED victim
    BY <1>4 DEF Compute, Go
  <2>2. CacheTypes' /\ at'[t] = step
    BY <1>1, <2>1 DEF CacheTypes, CallSteps
  <2>3. OrderFits(t)' /\ RoomFits(t)'
    BY <1>1, <2>2 DEF OrderFits, RoomFits
  <2>4. QED
    BY <1>3, <2>2, <2>3 DEF CacheGoesOn
<1>5. CASE Room(t)
  <2> DEFINE step == IF Cardinality(entries) < MaxEntries \/ for[t] \in entries THEN "insert" ELSE "choose"
  <2>1. at' = [at EXCEPT ![t] = step] /\ UNCHANGED victim
    BY <1>5 DEF Room, Go
  <2>2. step \in {"insert", "choose"} /\ (step = "insert" <=> Cardinality(entries) < MaxEntries)
    BY <1>1
  <2> HIDE DEF step
  <2>3. CacheTypes' /\ at'[t] = step
    BY <1>1, <2>1, <2>2 DEF CacheTypes, CallSteps
  <2>4. ~ (Cardinality(entries) < MaxEntries) => Cardinality(entries) = MaxEntries
    BY <1>2, CacheAssumption
  <2>5. OrderFits(t)' /\ RoomFits(t)'
    BY <1>1, <2>2, <2>3, <2>4 DEF OrderFits, RoomFits
  <2>6. QED
    BY <1>3, <2>3, <2>5 DEF CacheGoesOn
<1>6. CASE ChooseVictim(t)
  <2>1. at[t] = "choose" /\ Cardinality(entries) = MaxEntries
    BY <1>6 DEF ChooseVictim, RoomFits
  <2>2. order # <<>>
    <3>1. entries # {}
      BY <2>1, FS_EmptySet, CacheAssumption
    <3>2. QED
      BY <1>1, <3>1, EmptyRange
  <2>3. at' = [at EXCEPT ![t] = "evict"] /\ victim' = [victim EXCEPT ![t] = Head(order)]
    BY <1>6, <2>2 DEF ChooseVictim, Go
  <2>4. Head(order) \in CacheKeys
    BY <2>2, TailRange DEF CacheTypes
  <2>5. CacheTypes' /\ at'[t] = "evict" /\ victim'[t] = Head(order)
    BY <1>1, <2>3, <2>4 DEF CacheTypes, CallSteps
  <2>6. OrderFits(t)' /\ RoomFits(t)'
    BY <1>1, <2>1, <2>2, <2>5 DEF OrderFits, RoomFits
  <2>7. QED
    BY <1>3, <2>5, <2>6 DEF CacheGoesOn
<1>7. QED
  BY <1>4, <1>5, <1>6

\* The entry of the key at the head of the order goes: the one not used for
\* longest.
LEMMA EvictGoesOn ==
  ASSUME NEW t, CacheThreads = {t}, CacheInv, Evict(t)
  PROVE  CacheGoesOn
<1> USE DEF CacheInv
<1> DEFINE k == victim[t]
<1>1. /\ at[t] = "evict" /\ entries' = entries \ {k} /\ old' = old \ {k}
      /\ UNCHANGED <<order, for, victim>>
      /\ at' = [at EXCEPT ![t] = IF k \in entries THEN "unlist" ELSE "room"]
  BY DEF Evict, Go
<1>2. /\ Range(order) = entries /\ for[t] \notin entries /\ order # <<>> /\ k = Head(order)
      /\ Cardinality(entries) = MaxEntries
  BY <1>1 DEF OrderFits, RoomFits
<1>3. /\ order \in Seq(CacheKeys) /\ IsInjective(order) /\ old \subseteq entries /\ entries \subseteq CacheKeys
      /\ IsFiniteSet(entries)
  BY DEF CacheTypes
<1>4. k \in entries
  BY <1>2, <1>3, TailRange
<1> HIDE DEF k
<1>5. at' = [at EXCEPT ![t] = "unlist"]
  BY <1>1, <1>4
<1>6. CacheTypes' /\ at'[t] = "unlist"
  <2>1. IsFiniteSet(entries') /\ Cardinality(entries') = Cardinality(entries) - 1
    BY <1>1, <1>3, <1>4, FS_RemoveElement
  <2>2. Cardinality(entries') <= MaxEntries
    BY <1>2, <2>1, CacheAssumption
  <2>3. QED
    BY <1>1, <1>3, <1>5, <2>1, <2>2 DEF CacheTypes, CallSteps
<1>7. OrderFits(t)' /\ RoomFits(t)'
  BY <1>1, <1>2, <1>4, <1>6 DEF OrderFits, RoomFits, k
<1>8. UsedKeys = order /\ Range(UsedKeys) = entries
  BY <1>2, KeysUsed
<1>9. UsedKeys' = Tail(order) /\ Range(UsedKeys') = entries \ {k}
  <2>1. UsedKeys' = KeepOnly(order, entries \ {k})
    BY <1>1 DEF UsedKeys
  <2>2. KeepOnly(order, entries \ {k}) = Tail(order)
    BY <1>2, <1>3, KeepTail
  <2>3. Range(KeepOnly(order, entries \ {k})) = entries \ {k}
    BY <1>2, <1>3, KeepRange
  <2>4. QED
    BY <2>1, <2>2, <2>3
<1>10. Len(order) = MaxEntries
  BY <1>2, <1>3, OnceLength
<1>11. StaleKeys' = StaleKeys \ {k}
  BY <1>1, <1>8, <1>9 DEF StaleKeys
<1>12. L!DropLast
  BY <1>2, <1>8, <1>9, <1>10, <1>11 DEF L!DropLast, StaleKeys
<1>13. QED
  BY <1>6, <1>7, <1>12 DEF CacheGoesOn, LeastNext

\* The result gets an entry, which the order does not list yet.
LEMMA InsertGoesOn ==
  ASSUME NEW t, CacheThreads = {t}, CacheInv, Insert(t)
  PROVE  CacheGoesOn
<1> USE DEF CacheInv
<1> DEFINE k == for[t]
<1>1. /\ at[t] = "insert" /\ entries' = entries \cup {k} /\ old' = old \ {k}
      /\ UNCHANGED <<order, for, victim>> /\ at' = [at EXCEPT ![t] = "touch"]
  BY DEF Insert, Go
<1>2. Range(order) = entries /\ k \notin entries /\ Cardinality(entries) < MaxEntries
  BY <1>1 DEF OrderFits, RoomFits
<1>3. /\ order \in Seq(CacheKeys) /\ old \subseteq entries /\ entries \subseteq CacheKeys
      /\ IsFiniteSet(entries) /\ k \in CacheKeys
  BY DEF CacheTypes
<1> HIDE DEF k
<1>4. CacheTypes' /\ at'[t] = "touch"
  <2>1. IsFiniteSet(entries') /\ Cardinality(entries') = Cardinality(entries) + 1 /\ Cardinality(entries) \in Nat
    BY <1>1, <1>2, <1>3, FS_AddElement, FS_CardinalityType
  <2>2. Cardinality(entries') <= MaxEntries
    BY <1>2, <2>1, CacheAssumption
  <2>3. QED
    BY <1>1, <1>3, <2>1, <2>2 DEF CacheTypes, CallSteps
<1>5. OrderFits(t)' /\ RoomFits(t)'
  BY <1>1, <1>2, <1>4 DEF OrderFits, RoomFits, k
<1>6. UsedKeys' = UsedKeys /\ Range(UsedKeys) = entries
  <2>1. Range(order) \cap entries' = Range(order) \cap entries
    BY <1>1, <1>2
  <2>2. KeepOnly(order, entries') = KeepOnly(order, entries)
    BY <1>3, <2>1, KeepSame
  <2>3. QED
    BY <1>1, <1>2, <2>2, KeysUsed DEF UsedKeys
<1>7. StaleKeys' = StaleKeys
  BY <1>1, <1>2, <1>6 DEF StaleKeys
<1>8. QED
  BY <1>4, <1>5, <1>6, <1>7 DEF CacheGoesOn

\* The time of an entry ends.
LEMMA ExpireGoesOn ==
  ASSUME NEW t, CacheThreads = {t}, CacheInv, NEW k \in CacheKeys, Expire(k)
  PROVE  CacheGoesOn
<1> USE DEF CacheInv
<1>1. k \in entries \ old /\ old' = old \cup {k} /\ UNCHANGED <<entries, order, at, for, victim>>
  BY DEF Expire
<1>2. CacheTypes'
  BY <1>1 DEF CacheTypes
<1>3. OrderFits(t)' /\ RoomFits(t)'
  BY <1>1 DEF OrderFits, RoomFits
<1>4. UsedKeys' = UsedKeys
  BY <1>1 DEF UsedKeys
<1>5. CASE k \in Range(UsedKeys)
  <2>1. StaleKeys' = StaleKeys \cup {k}
    BY <1>1, <1>4, <1>5 DEF StaleKeys
  <2>2. L!Age(k)
    BY <1>4, <1>5, <2>1, SameHelpers DEF L!Age, StaleKeys
  <2>3. QED
    BY <1>2, <1>3, <2>2 DEF CacheGoesOn, LeastNext
<1>6. CASE k \notin Range(UsedKeys)
  <2>1. StaleKeys' = StaleKeys
    BY <1>1, <1>4, <1>6 DEF StaleKeys
  <2>2. QED
    BY <1>2, <1>3, <1>4, <2>1 DEF CacheGoesOn
<1>7. QED
  BY <1>5, <1>6

LEMMA CacheStepGoesOn ==
  ASSUME NEW t, CacheThreads = {t}, CacheInv, [CacheNext]_cacheVars
  PROVE  CacheGoesOn
<1>1. CASE CacheStep(t)
  BY <1>1, ForgetGoesOn, TouchGoesOn, MakeRoomGoesOn, EvictGoesOn, InsertGoesOn DEF CacheStep
<1>2. CASE \E k \in CacheKeys : GetCached(t, k)
  BY <1>2, GetCachedGoesOn
<1>3. CASE \E k \in CacheKeys : Expire(k)
  BY <1>3, ExpireGoesOn
<1>4. CASE UNCHANGED cacheVars
  <2>1. UNCHANGED <<entries, old, order, at, for, victim>>
    BY <1>4 DEF cacheVars
  <2>2. QED
    BY <2>1 DEF CacheGoesOn, CacheInv, CacheTypes, OrderFits, RoomFits, UsedKeys, StaleKeys
<1>5. QED
  BY <1>1, <1>2, <1>3, <1>4 DEF CacheNext

\* Used by the thread that handles messages, the cache of results holds what
\* was used last: although a call is several steps, each with a lock of its
\* own, it drops the key not used for longest, and no other one that is not
\* out of date (LruCache).
THEOREM CacheKeepsTheRecent ==
  ASSUME NEW t, CacheThreads = {t}
  PROVE  CacheSpec => KeepsTheRecent
<1>1. CacheInit => CacheInv /\ UsedKeys = <<>> /\ StaleKeys = {}
  BY CacheInitInv
<1>2. CacheInv /\ [CacheNext]_cacheVars => CacheInv' /\ [LeastNext]_<<UsedKeys, StaleKeys>>
  BY CacheStepGoesOn DEF CacheGoesOn
<1>3. CacheSpec => UsedKeys = <<>> /\ StaleKeys = {} /\ [][LeastNext]_<<UsedKeys, StaleKeys>>
  BY <1>1, <1>2, PTL DEF CacheSpec
<1>4. QED
  BY <1>3 DEF KeepsTheRecent, L!LeastRecentSpec, LeastNext, StaleKeys
=============================================================================
