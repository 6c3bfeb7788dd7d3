---------------------------- MODULE LeastRecent ----------------------------
(***************************************************************************)
(* What a least recently used cache promises: it holds at most Size keys,  *)
(* what it drops to make room is the one not used for longest, and what it *)
(* drops otherwise is out of date.                                         *)
(***************************************************************************)
EXTENDS Naturals, SequencesExt, Retain

CONSTANTS Keys, Size

VARIABLES
  used,     (* the keys held, the last used at the end                      *)
  stale     (* those whose time is over                                     *)

\* A hit, or a key set again.
Use(k) == k \in Range(used) /\ used' = Append(KeepOnly(used, Keys \ {k}), k) /\ UNCHANGED stale

\* A new key, when there is room.
Hold(k) ==
  /\ k \notin Range(used) /\ Len(used) < Size
  /\ used' = Append(used, k)
  /\ stale' \in {stale, stale \cup {k}}

\* To make room.
DropLast == Len(used) = Size /\ used' = Tail(used) /\ stale' = stale \ {Head(used)}

\* A key gets out of date, is dropped for it, or is renewed by being set.
Age(k)   == k \in Range(used) /\ stale' = stale \cup {k} /\ UNCHANGED used
Lapse(k) == k \in stale /\ used' = KeepOnly(used, Keys \ {k}) /\ stale' = stale \ {k}
Renew(k) == stale' = stale \ {k} /\ UNCHANGED used

LeastRecentSpec ==
  /\ used = <<>> /\ stale = {}
  /\ [][DropLast \/ \E k \in Keys : Use(k) \/ Hold(k) \/ Age(k) \/ Lapse(k) \/ Renew(k)]_<<used, stale>>
=============================================================================
