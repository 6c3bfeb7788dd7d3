---------------------------- MODULE ResultCache ----------------------------
(***************************************************************************)
(* cache/lru.rs, LruCache: the cache of results, and the miss, computation *)
(* and store of agent/initial_execution.rs.  entries and access_order have *)
(* a mutex each, so a call is a few steps between which others run.  The   *)
(* value cached for a key is left out; statistics are too.                 *)
(***************************************************************************)
EXTENDS Naturals, FiniteSets, SequencesExt, Retain

CONSTANTS CacheThreads, CacheKeys, MaxEntries

ASSUME CacheAssumption == MaxEntries \in Nat \ {0} /\ CacheKeys # {}

VARIABLES
  entries,     (* keys with an entry                                        *)
  old,         (* entries whose time to live is over                        *)
  order,       (* access_order                                              *)
  at,          (* what each thread is about to do                           *)
  for,         (* the key each thread's call is about                       *)
  victim       (* evict_key of each thread                                  *)

cacheVars == <<entries, old, order, at, for, victim>>

CacheInit ==
  /\ entries = {} /\ old = {} /\ order = <<>>
  /\ at = [t \in CacheThreads |-> "idle"]
  /\ for \in [CacheThreads -> {CHOOSE k \in CacheKeys : TRUE}]
  /\ victim = for

Go(t, step) == at' = [at EXCEPT ![t] = step]

\* LruEvictionPolicy.on_access, and the same two lines of get and set
Touched(k) == Append(KeepOnly(order, CacheKeys \ {k}), k)

\* get, under the lock of the entries: an expired one is removed.
GetCached(t, k) ==
  /\ at[t] = "idle"
  /\ for' = [for EXCEPT ![t] = k]
  /\ entries' = entries \ (old \cap {k})
  /\ old' = old \ {k}
  /\ Go(t, IF k \in old THEN "forget" ELSE IF k \in entries THEN "touch" ELSE "missed")
  /\ UNCHANGED <<order, victim>>

\* get, then, under the lock of the order
Forget(t) ==
  /\ at[t] = "forget"
  /\ order' = KeepOnly(order, CacheKeys \ {for[t]})
  /\ Go(t, "missed")
  /\ UNCHANGED <<entries, old, for, victim>>

Touch(t) ==
  /\ at[t] = "touch"
  /\ order' = Touched(for[t])
  /\ Go(t, "idle")
  /\ UNCHANGED <<entries, old, for, victim>>

\* On a miss the plan is executed, and a success cached.
Compute(t) ==
  /\ at[t] = "missed"
  /\ \/ Go(t, "room") \/ Go(t, "idle")
  /\ UNCHANGED <<entries, old, order, for, victim>>

\* set: is there room?
Room(t) ==
  /\ at[t] = "room"
  /\ Go(t, IF Cardinality(entries) < MaxEntries \/ for[t] \in entries THEN "insert" ELSE "choose")
  /\ UNCHANGED <<entries, old, order, for, victim>>

\* Mutant: the most recently used one.
ChooseNewest(t) ==
  /\ at[t] = "choose"
  /\ IF order = <<>> THEN Go(t, "insert") /\ UNCHANGED victim
     ELSE Go(t, "evict") /\ victim' = [victim EXCEPT ![t] = Last(order)]
  /\ UNCHANGED <<entries, old, order, for>>

ChooseVictim(t) ==
  /\ at[t] = "choose"
  /\ IF order = <<>> THEN Go(t, "insert") /\ UNCHANGED victim
     ELSE Go(t, "evict") /\ victim' = [victim EXCEPT ![t] = Head(order)]
  /\ UNCHANGED <<entries, old, order, for>>

\* delete: the order is left alone when there was no entry.
Evict(t) ==
  /\ at[t] = "evict"
  /\ entries' = entries \ {victim[t]} /\ old' = old \ {victim[t]}
  /\ Go(t, IF victim[t] \in entries THEN "unlist" ELSE "room")
  /\ UNCHANGED <<order, for, victim>>

Unlist(t) ==
  /\ at[t] = "unlist"
  /\ order' = KeepOnly(order, CacheKeys \ {victim[t]})
  /\ Go(t, "room")
  /\ UNCHANGED <<entries, old, for, victim>>

Insert(t) ==
  /\ at[t] = "insert"
  /\ entries' = entries \cup {for[t]} /\ old' = old \ {for[t]}
  /\ Go(t, "touch")
  /\ UNCHANGED <<order, for, victim>>

\* is_cache_entry_expired
Expire(k) ==
  /\ k \in entries \ old
  /\ old' = old \cup {k}
  /\ UNCHANGED <<entries, order, at, for, victim>>

CacheStep(t) ==
  Forget(t) \/ Touch(t) \/ Compute(t) \/ Room(t) \/ ChooseVictim(t) \/ Evict(t) \/ Unlist(t) \/ Insert(t)

CacheNext ==
  \/ \E t \in CacheThreads : CacheStep(t) \/ \E k \in CacheKeys : GetCached(t, k)
  \/ \E k \in CacheKeys : Expire(k)

\* A thread in a call goes on.
CacheSpec == CacheInit /\ [][CacheNext]_cacheVars /\ \A t \in CacheThreads : WF_cacheVars(CacheStep(t))

-----------------------------------------------------------------------------
\* The keys by their last use, the entries alone.
UsedKeys == KeepOnly(order, entries)

L == INSTANCE LeastRecent WITH
  Keys <- CacheKeys, Size <- MaxEntries, used <- UsedKeys, stale <- old \cap Range(UsedKeys)

\* Used by one thread, the cache holds what was used last (LruCache).
KeepsTheRecent == L!LeastRecentSpec

=============================================================================
