----------------------------- MODULE MCServices -----------------------------
(* Six parts of the runtime that keep state of their own, for TLC: a         *)
(* behaviour is one of one part, chosen at the start.  The store has two     *)
(* jobs of one session and one of another.                                   *)
EXTENDS RuntimeStore, ResultCache, TieredStorage, Conversations, PlanExecution, RuntimeLifecycle, TLC

VARIABLE part

MCChatOf == ("j1" :> "c1") @@ ("j2" :> "c1") @@ ("j3" :> "c2")
MCTables == <<"task", "suspension">>

Parts == {"store", "cache", "tiers", "talk", "plan", "run"}

\* Where a part has several initial states, one will do when it is not chosen.
ServicesInit ==
  /\ part \in Parts
  /\ StoreInit /\ (part # "store" => backend = "json")
  /\ CacheInit /\ TierInit
  /\ TalkInit /\ (part # "talk" => ~direct)
  /\ PlanInit /\ (part # "plan" => plan = "Single" /\ ~failFast)
  /\ RunInit

StorePart == part = "store" /\ StoreNext
  /\ UNCHANGED <<part, cacheVars, tierVars, talkVars, planVars, runVars>>
CachePart == part = "cache" /\ CacheNext
  /\ UNCHANGED <<part, storeVars, tierVars, talkVars, planVars, runVars>>
TierPart == part = "tiers" /\ TierNext
  /\ UNCHANGED <<part, storeVars, cacheVars, talkVars, planVars, runVars>>
TalkPart == part = "talk" /\ TalkNext
  /\ UNCHANGED <<part, storeVars, cacheVars, tierVars, planVars, runVars>>
PlanPart == part = "plan" /\ PlanNext
  /\ UNCHANGED <<part, storeVars, cacheVars, tierVars, talkVars, runVars>>
RunPart == part = "run" /\ RunNext
  /\ UNCHANGED <<part, storeVars, cacheVars, tierVars, talkVars, planVars>>

servicesVars == <<part, storeVars, cacheVars, tierVars, talkVars, planVars, runVars>>

ServicesSpec ==
  ServicesInit /\ [][StorePart \/ CachePart \/ TierPart \/ TalkPart \/ PlanPart \/ RunPart]_servicesVars
=============================================================================
