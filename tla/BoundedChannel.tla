--------------------------- MODULE BoundedChannel ---------------------------
(***************************************************************************)
(* bus/bounded.rs: a crossbeam channel with room for Capacity + 1 messages *)
(* that BoundedSender::send keeps at Capacity by dropping, according to    *)
(* the strategy, the new message or the oldest one.  The length test, the  *)
(* eviction and the send are separate calls, so several threads that share *)
(* the sender interleave between them.                                     *)
(*                                                                         *)
(* Thread t sends the messages <<t, 1>>, <<t, 2>>, ... in that order; a    *)
(* consumer takes them from the front.                                     *)
(***************************************************************************)
EXTENDS Naturals, Sequences, FiniteSets

CONSTANTS
  Senders,     (* the threads that share the BoundedSender                  *)
  Capacity,    (* BufferStrategy's capacity                                 *)
  MaxMessages  (* bound on the messages a thread sends                      *)

ASSUME ChannelAssumption ==
  /\ IsFiniteSet(Senders) /\ Senders # {}
  /\ Capacity \in Nat \ {0}
  /\ MaxMessages \in Nat

VARIABLES
  strategy,    (* BufferStrategy: "dropping" or "sliding"                   *)
  queue,       (* the crossbeam channel                                     *)
  at,          (* where each thread is inside send                          *)
  sent,        (* how many sends each thread has begun                      *)
  dropped,     (* dropped_total                                             *)
  lost,        (* history: the messages dropped, in order                   *)
  taken        (* history: the messages received, in order                  *)

chanVars == <<strategy, queue, at, sent, dropped, lost, taken>>

Messages == Senders \X (1 .. MaxMessages)
InHand(t) == <<t, sent[t]>>

ChannelTypeOK ==
  /\ strategy \in {"dropping", "sliding"}
  /\ queue \in Seq(Messages)
  /\ at \in [Senders -> {"out", "check", "evict", "count", "push"}]
  /\ sent \in [Senders -> 0 .. MaxMessages]
  /\ dropped \in Nat
  /\ lost \in Seq(Messages)
  /\ taken \in Seq(Messages)

ChannelInit ==
  /\ strategy \in {"dropping", "sliding"}
  /\ queue = <<>> /\ lost = <<>> /\ taken = <<>>
  /\ at = [t \in Senders |-> "out"]
  /\ sent = [t \in Senders |-> 0]
  /\ dropped = 0

MoveTo(t, p) == at' = [at EXCEPT ![t] = p]

\* send(msg) is called.
BeginSend(t) ==
  /\ at[t] = "out"
  /\ sent[t] < MaxMessages
  /\ sent' = [sent EXCEPT ![t] = @ + 1]
  /\ MoveTo(t, "check")
  /\ UNCHANGED <<strategy, queue, dropped, lost, taken>>

\* Mutant: tx.len() > capacity.
CheckOffByOne(t) ==
  /\ at[t] = "check"
  /\ \/ /\ Len(queue) <= Capacity /\ MoveTo(t, "push") /\ UNCHANGED lost
     \/ /\ Len(queue) > Capacity /\ strategy = "dropping"
        /\ lost' = Append(lost, InHand(t)) /\ MoveTo(t, "count")
     \/ /\ Len(queue) > Capacity /\ strategy = "sliding"
        /\ MoveTo(t, "evict") /\ UNCHANGED lost
  /\ UNCHANGED <<strategy, queue, sent, dropped, taken>>

\* tx.len() >= capacity: a Dropping sender drops msg, a Sliding one evicts.
CheckLength(t) ==
  /\ at[t] = "check"
  /\ \/ /\ Len(queue) < Capacity
        /\ MoveTo(t, "push")
        /\ UNCHANGED lost
     \/ /\ Len(queue) >= Capacity /\ strategy = "dropping"
        /\ lost' = Append(lost, InHand(t))
        /\ MoveTo(t, "count")
     \/ /\ Len(queue) >= Capacity /\ strategy = "sliding"
        /\ MoveTo(t, "evict")
        /\ UNCHANGED lost
  /\ UNCHANGED <<strategy, queue, sent, dropped, taken>>

\* Mutant: recv instead of try_recv.
EvictBlocking(t) ==
  /\ at[t] = "evict" /\ queue # <<>>
  /\ lost' = Append(lost, Head(queue)) /\ queue' = Tail(queue)
  /\ MoveTo(t, "count") /\ UNCHANGED <<strategy, sent, dropped, taken>>

\* rx.try_recv(): by now the channel may be empty, and then the loop breaks.
Evict(t) ==
  /\ at[t] = "evict"
  /\ \/ /\ queue # <<>>
        /\ lost' = Append(lost, Head(queue))
        /\ queue' = Tail(queue)
        /\ MoveTo(t, "count")
     \/ /\ queue = <<>>
        /\ MoveTo(t, "push")
        /\ UNCHANGED <<queue, lost>>
  /\ UNCHANGED <<strategy, sent, dropped, taken>>

\* Mutants: no counter; no return after a Dropping drop.
RecordNothing(t) ==
  /\ at[t] = "count"
  /\ MoveTo(t, IF strategy = "dropping" THEN "out" ELSE "check")
  /\ UNCHANGED <<strategy, queue, sent, dropped, lost, taken>>

RecordThenSend(t) ==
  /\ at[t] = "count" /\ dropped' = dropped + 1
  /\ MoveTo(t, "push") /\ UNCHANGED <<strategy, queue, sent, lost, taken>>

\* record_drop; a Dropping send returns, a Sliding one tests the length again.
RecordDrop(t) ==
  /\ at[t] = "count"
  /\ dropped' = dropped + 1
  /\ MoveTo(t, IF strategy = "dropping" THEN "out" ELSE "check")
  /\ UNCHANGED <<strategy, queue, sent, lost, taken>>

\* tx.send(msg) blocks while all Capacity + 1 slots are taken.
Push(t) ==
  /\ at[t] = "push"
  /\ Len(queue) < Capacity + 1
  /\ queue' = Append(queue, InHand(t))
  /\ MoveTo(t, "out")
  /\ UNCHANGED <<strategy, sent, dropped, lost, taken>>

\* recv, try_recv or recv_timeout of a BoundedReceiver finds a message.
Receive ==
  /\ queue # <<>>
  /\ taken' = Append(taken, Head(queue))
  /\ queue' = Tail(queue)
  /\ UNCHANGED <<strategy, at, sent, dropped, lost>>

SendStep(t) == CheckLength(t) \/ Evict(t) \/ RecordDrop(t) \/ Push(t)

ChannelNext == (\E t \in Senders : BeginSend(t) \/ SendStep(t)) \/ Receive

ChannelSpec == ChannelInit /\ [][ChannelNext]_chanVars

\* A thread inside send goes on, and somebody keeps receiving.
ChannelFairSpec ==
  /\ ChannelSpec
  /\ \A t \in Senders : WF_chanVars(SendStep(t))
  /\ WF_chanVars(Receive)

-----------------------------------------------------------------------------
(* Properties.                                                              *)

Pushing == {t \in Senders : at[t] = "push"}
Counting == {t \in Senders : at[t] = "count"}

\* A thread that Dropping has just refused still has msg on its stack while
\* record_drop runs: it is lost already.
Holding(t) == at[t] \in {"check", "evict", "push"} \/ (at[t] = "count" /\ strategy = "sliding")
Instances(m) == Cardinality({i \in DOMAIN queue : queue[i] = m})
             + Cardinality({i \in DOMAIN taken : taken[i] = m})
             + Cardinality({i \in DOMAIN lost : lost[i] = m})
             + Cardinality({t \in Senders : Holding(t) /\ InHand(t) = m})

\* Whatever the interleaving, a message whose send has begun is in exactly
\* one place: with its sender, queued, received once, or dropped.
NothingLostUnseen ==
  \A m \in Messages : Instances(m) = IF m[2] <= sent[m[1]] THEN 1 ELSE 0

\* dropped_total is the number of messages dropped, up to the senders that
\* have not reached record_drop yet.
DropsAreCounted == Len(lost) = dropped + Cardinality(Counting)

\* Between the length test and the send, every other thread can do the same:
\* the messages queued and those about to be exceed the strategy's capacity
\* by one per thread at most.  The extra slot covers two threads, no more.
OvershootBound == Len(queue) + Cardinality(Pushing) <= Capacity - 1 + Cardinality(Senders)

\* The comment on bounded_channel (bounded.rs:136): the extra slot avoids
\* blocking between the eviction and the write.
NeverBlocks == \A t \in Pushing : Len(queue) < Capacity + 1

\* It does for one or two threads: their sends never wait for a receiver.
TwoSendersNeverBlock == Cardinality(Senders) <= 2 => NeverBlocks

\* Every send returns.
SendReturns == \A t \in Senders : at[t] # "out" ~> at[t] = "out"
=============================================================================
