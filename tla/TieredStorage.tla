--------------------------- MODULE TieredStorage ---------------------------
(***************************************************************************)
(* context/storage.rs: MemoryStorage (L1), FileStorage (L2) and what       *)
(* TieredStorage does with the two, called by one thread at a time.  A     *)
(* call is a step per tier, and the process may end between the two, which *)
(* leaves the files.  A value's size, times and counts are left out but    *)
(* for what they decide: whether its time to live is over, and whether it  *)
(* was idle for demotion_threshold_ms.                                     *)
(***************************************************************************)
EXTENDS Naturals, FiniteSets, SequencesExt, Retain

CONSTANTS
  TierKeys, TierValues,
  NotThere,
  MaxInMemory,          (* max_entries of L1                                *)
  PromotionThreshold,
  WritesFail            (* may a file not be written? (fs::write, logged)   *)

ASSUME TierAssumption ==
  /\ IsFiniteSet(TierKeys) /\ NotThere \notin TierValues
  /\ MaxInMemory \in Nat \ {0} /\ WritesFail \in BOOLEAN

VARIABLES
  l1,        (* entries: the value of each key in memory, or NotThere       *)
  lru,       (* lru_order                                                   *)
  files,     (* the value of each key's file, or NotThere                   *)
  over,      (* <<tier, key>>: entries whose time to live is over           *)
  idle,      (* keys of L1 not accessed for demotion_threshold_ms           *)
  rest       (* what the running call has still to do: a step, its key, its *)
             (* value, and the keys demote_cold_entries has still to take   *)

tierVars == <<l1, lru, files, over, idle, rest>>

Nothing == [todo |-> "nothing", key |-> NotThere, value |-> NotThere, cold |-> {}]

TierInit ==
  /\ l1 = [k \in TierKeys |-> NotThere] /\ files = l1
  /\ lru = <<>> /\ over = {} /\ idle = {} /\ rest = Nothing

In(tier) == {k \in TierKeys : tier[k] # NotThere}

Then(todo, k, v) == rest' = [rest EXCEPT !.todo = todo, !.key = k, !.value = v]

\* lru_order.retain
Listed(keys) == KeepOnly(lru, keys)

\* MemoryStorage.set_entry, with evict_lru and touch_lru
FirstInLine == IF lru = <<>> THEN {} ELSE {Head(lru)}

Full(k) == Cardinality(In(l1)) >= MaxInMemory /\ l1[k] = NotThere

Evicted(k) == IF Full(k) THEN FirstInLine ELSE {}

PutL1(k, v) ==
  LET out == Evicted(k) IN
  /\ l1' = [x \in TierKeys |-> IF x = k THEN v ELSE IF x \in out THEN NotThere ELSE l1[x]]
  /\ lru' = Append(Listed(TierKeys \ (out \cup {k})), k)
  /\ idle' = idle \ (out \cup {k})

DropL1(k) ==
  /\ l1' = [l1 EXCEPT ![k] = NotThere]
  /\ lru' = Listed(TierKeys \ {k})
  /\ idle' = idle \ {k}

\* FileStorage.set_entry: that a write failed is logged.
PutL2(k, v) ==
  \/ files' = [files EXCEPT ![k] = v]
  \/ WritesFail /\ UNCHANGED files

\* FileStorage.delete_entry, and get_entry of an entry whose time is over
DropL2(k) == files' = [files EXCEPT ![k] = NotThere]

Alive(n, k) == <<n, k>> \notin over
Fresh(n, ks) == {<<n, k>> : k \in ks}

-----------------------------------------------------------------------------
\* get: L1, then L2, which is promoted at promotion_threshold accesses.  The
\* file's count is not written back: each access is its first.
HitL1(k) ==
  /\ rest = Nothing /\ l1[k] # NotThere /\ Alive(1, k)
  /\ lru' = Append(Listed(TierKeys \ {k}), k)
  /\ idle' = idle \ {k}
  /\ UNCHANGED <<l1, files, over, rest>>

ExpiredL1(k) ==
  /\ rest = Nothing /\ l1[k] # NotThere /\ ~Alive(1, k)
  /\ DropL1(k)
  /\ over' = over \ Fresh(1, {k})
  /\ Then("read", k, NotThere)
  /\ UNCHANGED files

Stays(k) == files[k] = NotThere \/ (Alive(2, k) /\ PromotionThreshold > 1)

ReadL2(k) ==
  /\ \/ rest = Nothing /\ l1[k] = NotThere
     \/ rest.todo = "read" /\ rest.key = k
  /\ \/ Stays(k) /\ UNCHANGED <<l1, lru, files, over, idle>>
     \/ /\ ~Stays(k) /\ ~Alive(2, k)
        /\ DropL2(k)
        /\ over' = over \ Fresh(2, {k})
        /\ UNCHANGED <<l1, lru, idle>>
     \/ /\ ~Stays(k) /\ Alive(2, k)
        /\ over' = over \ Fresh(1, Evicted(k))
        /\ PutL1(k, files[k])
        /\ UNCHANGED files
  /\ rest' = Nothing

GetEntry(k) == HitL1(k) \/ ExpiredL1(k) \/ ReadL2(k)

\* set: L1, then L2
\* Mutant: L2 is left alone.
SetL1Only(k, v) ==
  /\ rest = Nothing
  /\ PutL1(k, v)
  /\ over' = over \ Fresh(1, Evicted(k) \cup {k})
  /\ UNCHANGED <<files, rest>>

Set(k, v) ==
  /\ rest = Nothing
  /\ PutL1(k, v)
  /\ over' = over \ Fresh(1, Evicted(k) \cup {k})
  /\ Then("write", k, v)
  /\ UNCHANGED files

\* delete: L1, then L2
Delete(k) ==
  /\ rest = Nothing /\ (l1[k] # NotThere \/ files[k] # NotThere)
  /\ IF l1[k] # NotThere THEN DropL1(k) ELSE UNCHANGED <<l1, lru, idle>>
  /\ over' = over \ Fresh(1, {k})
  /\ Then("unfile", k, NotThere)
  /\ UNCHANGED files

\* TieredStorageTrait.promote: L1, then the file is deleted
Promote(k) ==
  /\ rest = Nothing /\ files[k] # NotThere /\ Alive(2, k)
  /\ PutL1(k, files[k])
  /\ over' = over \ Fresh(1, Evicted(k) \cup {k})
  /\ Then("unfile", k, NotThere)
  /\ UNCHANGED files

\* demote, and demote_cold_entries for each of its keys: L2, then out of L1
DemoteOne(k, others) ==
  /\ l1[k] # NotThere /\ Alive(1, k)
  /\ PutL2(k, l1[k])
  /\ over' = over \ Fresh(2, {k})
  /\ lru' = Append(Listed(TierKeys \ {k}), k)
  /\ idle' = idle \ {k}
  /\ rest' = [todo |-> "forget", key |-> k, value |-> NotThere, cold |-> others]
  /\ UNCHANGED l1

Demote(k) == rest = Nothing /\ DemoteOne(k, {})

DemoteColdEntries ==
  /\ rest = Nothing /\ idle # {}
  /\ rest' = [Nothing EXCEPT !.todo = "demote", !.cold = idle]
  /\ UNCHANGED <<l1, lru, files, over, idle>>

NextCold(k) ==
  /\ rest.todo = "demote" /\ k \in rest.cold
  /\ \/ DemoteOne(k, rest.cold \ {k})
     \/ /\ ~Alive(1, k)
        /\ DropL1(k)
        /\ over' = over \ Fresh(1, {k})
        /\ rest' = IF rest.cold = {k} THEN Nothing ELSE [rest EXCEPT !.cold = @ \ {k}]
        /\ UNCHANGED files

\* The second tier of a set, of a delete or promote, and of a demote
Finish ==
  /\ \/ /\ rest.todo = "write"
        /\ PutL2(rest.key, rest.value)
        /\ over' = over \ Fresh(2, {rest.key})
        /\ UNCHANGED <<l1, lru, idle>>
     \/ /\ rest.todo = "unfile"
        /\ DropL2(rest.key)
        /\ over' = over \ Fresh(2, {rest.key})
        /\ UNCHANGED <<l1, lru, idle>>
     \/ /\ rest.todo = "forget"
        /\ DropL1(rest.key)
        /\ over' = over \ Fresh(1, {rest.key})
        /\ UNCHANGED files
  /\ rest' = IF rest.cold = {} THEN Nothing ELSE [Nothing EXCEPT !.todo = "demote", !.cold = rest.cold]

\* The world: a time to live ends, a key is not accessed, the process ends.
Time ==
  /\ \/ \E k \in In(l1) : over' = over \cup Fresh(1, {k}) /\ UNCHANGED idle
     \/ \E k \in In(files) : over' = over \cup Fresh(2, {k}) /\ UNCHANGED idle
     \/ \E k \in In(l1) : idle' = idle \cup {k} /\ UNCHANGED over
  /\ UNCHANGED <<l1, lru, files, rest>>

EndOfProcess ==
  /\ l1' = [k \in TierKeys |-> NotThere] /\ lru' = <<>> /\ idle' = {} /\ rest' = Nothing
  /\ over' = over \ Fresh(1, TierKeys)
  /\ UNCHANGED files

TierNext ==
  \/ \E k \in TierKeys : GetEntry(k) \/ Delete(k) \/ Promote(k) \/ Demote(k) \/ NextCold(k)
  \/ \E k \in TierKeys, v \in TierValues : Set(k, v)
  \/ DemoteColdEntries \/ Finish \/ Time \/ EndOfProcess

TierSpec == TierInit /\ [][TierNext]_tierVars

-----------------------------------------------------------------------------
\* Between calls, what memory and the file hold of a key is the same value:
\* an eviction, a promotion or a restart never brings an older one back
\* (TieredStorage.set, get, promote, demote).
TiersAgree ==
  rest = Nothing => \A k \in In(l1) \cap In(files) : l1[k] = files[k]

\* L1 keeps to its capacity: what evict_lru takes from the order is there to
\* evict (MemoryStorage).
MemoryBounded == Cardinality(In(l1)) <= MaxInMemory

\* Both, of the storage as it is used.
TiersHold == TiersAgree /\ MemoryBounded
=============================================================================
