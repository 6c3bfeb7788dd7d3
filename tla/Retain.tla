------------------------------- MODULE Retain -------------------------------
(* Vec::retain and VecDeque::retain of Rust's library.                       *)
EXTENDS Naturals, Sequences

\* What is left of each prefix of `s` when only the members of S are kept
Kept(s, S) ==
  LET kept[n \in 0 .. Len(s)] ==
        IF n = 0 THEN <<>>
        ELSE IF s[n] \in S THEN Append(kept[n - 1], s[n]) ELSE kept[n - 1]
  IN  kept

KeepOnly(s, S) == Kept(s, S)[Len(s)]
=============================================================================
