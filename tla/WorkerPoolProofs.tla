-------------------------- MODULE WorkerPoolProofs --------------------------
(***************************************************************************)
(* Theorems about WorkerPool for every set of calls and workers, every     *)
(* pool size and every deadline, with their proofs.                        *)
(***************************************************************************)
EXTENDS WorkerPool, SequenceTheorems, FiniteSetTheorems, TLAPS

\* A thread exists only for a call that claimed a worker, and a call holds
\* a worker from the moment the scan picked one.
ThreadsHaveWorkers ==
  \A c \in Calls :
    /\ thread[c] # "none" => pc[c] = "returned" /\ picked[c] \in Workers
    /\ pc[c] \in {"handoff", "claim"} => picked[c] \in Workers

\* The workers of the pool are among those ever created: a resize adds only
\* new ones.
PoolCreated == \A i \in 1 .. Len(pool) : pool[i] \in created

\* The inductive invariant behind OneTaskPerWorker.
Inv == TypeOK /\ PoolNeverEmpty /\ PoolCreated /\ ThreadsHaveWorkers /\ OneTaskPerWorker

\* The index a scan probes lies in the pool, so it yields a worker.
LEMMA CandidateIsWorker ==
  ASSUME pool \in Seq(Workers), Len(pool) >= 1, scanFrom \in Nat, probed \in Nat
  PROVE  Candidate \in Workers
<1>1. Len(pool) \in Nat /\ Len(pool) > 0
  OBVIOUS
<1>2. (scanFrom + probed) % Len(pool) \in 0 .. Len(pool) - 1
  BY <1>1
<1>3. ((scanFrom + probed) % Len(pool)) + 1 \in 1 .. Len(pool)
  BY <1>1, <1>2
<1>4. QED
  BY <1>3, <1>1 DEF Candidate

LEMMA InitInv == Init => Inv
<1> SUFFICES ASSUME Init PROVE Inv
  OBVIOUS
<1>1. PoolTypes
  <2>1. \A i \in 1 .. Len(FirstPool) : FirstPool[i] \in Workers
    BY PoolAssumption
  <2>2. created \subseteq Workers
    BY <2>1 DEF Init
  <2>3. QED
    BY <2>2, PoolAssumption DEF Init, PoolTypes
<1>2. ScanTypes
  BY PoolAssumption DEF Init, ScanTypes
<1>3. CallTypes
  BY PoolAssumption DEF Init, CallTypes, PC, Stage, Reply
<1>4. WorkerTypes
  BY DEF Init, WorkerTypes
<1>5. PoolNeverEmpty
  BY PoolAssumption DEF Init, PoolNeverEmpty
<1>9. PoolCreated
  BY DEF Init, PoolCreated
<1>6. ThreadsHaveWorkers
  BY DEF Init, ThreadsHaveWorkers
<1>7. OneTaskPerWorker
  BY DEF Init, OneTaskPerWorker, Owners, Owning
<1>8. QED
  BY <1>1, <1>2, <1>3, <1>4, <1>5, <1>6, <1>7, <1>9 DEF Inv, TypeOK

-----------------------------------------------------------------------------
(* What scale_to does to the vector of workers.                             *)

LEMMA ClampInRange ==
  ASSUME NEW n \in 0 .. MaxSize + 1
  PROVE  Clamp(n) \in Nat /\ Clamp(n) >= MinSize /\ MinSize >= 1
BY PoolAssumption DEF Clamp

\* Growing keeps the workers there are and appends ones created just now.
Grown(fresh) ==
  /\ Len(fresh) \in Nat
  /\ \A i \in 1 .. Len(fresh) : fresh[i] \in Workers \ created
  /\ \A i, j \in 1 .. Len(fresh) : fresh[i] = fresh[j] => i = j
  /\ pool' \in Seq(Workers) /\ Len(pool') = Len(pool) + Len(fresh)
  /\ \A i \in 1 .. Len(pool) : pool'[i] = pool[i]
  /\ \A i \in 1 .. Len(pool') :
       i > Len(pool) => /\ i - Len(pool) \in 1 .. Len(fresh)
                        /\ pool'[i] = fresh[i - Len(pool)]
  /\ \A i \in 1 .. Len(fresh) : Len(pool) + i \in 1 .. Len(pool')
                                /\ pool'[Len(pool) + i] = fresh[i]
  /\ created' = created \cup {fresh[i] : i \in 1 .. Len(fresh)}
  /\ wRunning' = [w \in Workers |->
       IF \E i \in 1 .. Len(fresh) : fresh[i] = w THEN poolRunning ELSE wRunning[w]]

LEMMA ScaleUpFacts ==
  ASSUME Inv, NEW n \in 0 .. MaxSize + 1, ScaleUp(n)
  PROVE  \E fresh \in Seq(Workers) : Grown(fresh)
<1>1. PICK fresh \in [1 .. Clamp(n) - Len(pool) -> Workers \ created] :
        /\ Clamp(n) - Len(pool) > 0
        /\ \A i, j \in 1 .. Clamp(n) - Len(pool) : fresh[i] = fresh[j] => i = j
        /\ pool' = pool \o fresh
        /\ created' = created \cup {fresh[i] : i \in 1 .. Clamp(n) - Len(pool)}
        /\ wRunning' = [w \in Workers |->
             IF \E i \in 1 .. Clamp(n) - Len(pool) : fresh[i] = w
             THEN poolRunning ELSE wRunning[w]]
  BY DEF ScaleUp
<1> DEFINE k == Clamp(n) - Len(pool)
<1>2. pool \in Seq(Workers) /\ Len(pool) \in Nat
  BY DEF Inv, TypeOK, PoolTypes
<1>3. Clamp(n) \in Nat
  BY ClampInRange
<1>4. k \in Nat /\ fresh \in Seq(Workers) /\ Len(fresh) = k
  <2>1. k \in Nat
    BY <1>1, <1>2, <1>3
  <2>2. fresh \in [1 .. k -> Workers]
    BY <1>1
  <2>3. QED
    BY <2>1, <2>2
<1>5. /\ pool' \in Seq(Workers) /\ Len(pool') = Len(pool) + k
      /\ \A i \in 1 .. Len(pool) + k :
           pool'[i] = IF i <= Len(pool) THEN pool[i] ELSE fresh[i - Len(pool)]
  <2>1. pool' = pool \o fresh
    BY <1>1
  <2>2. QED
    BY <2>1, <1>2, <1>4, ConcatProperties
<1>6. \A i \in 1 .. Len(pool) : pool'[i] = pool[i]
  BY <1>2, <1>4, <1>5
<1>7. \A i \in 1 .. Len(pool') :
        i > Len(pool) => i - Len(pool) \in 1 .. k /\ pool'[i] = fresh[i - Len(pool)]
  BY <1>2, <1>4, <1>5
<1>8. \A i \in 1 .. k : Len(pool) + i \in 1 .. Len(pool') /\ pool'[Len(pool) + i] = fresh[i]
  <2>1. ASSUME NEW i \in 1 .. k
        PROVE  /\ Len(pool) + i \in 1 .. Len(pool) + k
               /\ ~(Len(pool) + i <= Len(pool)) /\ Len(pool) + i - Len(pool) = i
    BY <1>2, <1>4
  <2>2. QED
    BY <2>1, <1>5
<1>9. \A i \in 1 .. k : fresh[i] \in Workers \ created
  BY <1>1
<1>10. Grown(fresh)
  BY <1>1, <1>4, <1>5, <1>6, <1>7, <1>8, <1>9 DEF Grown
<1>11. QED
  BY <1>4, <1>10

\* Shrinking keeps a prefix and stops the rest.
LEMMA ScaleDownFacts ==
  ASSUME Inv, NEW n \in 0 .. MaxSize + 1, ScaleDown(n)
  PROVE  /\ pool' \in Seq(Workers) /\ Len(pool') >= 1 /\ Len(pool') < Len(pool)
         /\ \A i \in 1 .. Len(pool') : pool'[i] = pool[i]
         /\ created' = created
         /\ wRunning' = [w \in Workers |->
              IF \E i \in Len(pool') + 1 .. Len(pool) : pool[i] = w
              THEN FALSE ELSE wRunning[w]]
<1>1. /\ pool \in Seq(Workers) /\ Len(pool) \in Nat
      /\ Clamp(n) \in Nat /\ Clamp(n) >= 1 /\ Clamp(n) < Len(pool)
  <2>1. pool \in Seq(Workers) /\ Len(pool) \in Nat /\ Clamp(n) < Len(pool)
    BY DEF Inv, TypeOK, PoolTypes, ScaleDown
  <2>2. Clamp(n) \in Nat /\ Clamp(n) >= MinSize /\ MinSize \in Nat /\ MinSize >= 1
    BY ClampInRange, PoolAssumption
  <2>3. QED
    BY <2>1, <2>2
<1>2. \A i \in 1 .. Clamp(n) : pool[i] \in Workers
  BY <1>1
<1>3. /\ pool' \in Seq(Workers) /\ Len(pool') = Clamp(n)
      /\ \A i \in 1 .. Len(pool') : pool'[i] = pool[i]
  BY <1>1, <1>2, SubSeqProperties DEF ScaleDown
<1>4. QED
  BY <1>1, <1>3 DEF ScaleDown

LEMMA ScaleInv ==
  ASSUME Inv, NEW n \in 0 .. MaxSize + 1, ScaleTo(n)
  PROVE  PoolTypes' /\ PoolNeverEmpty' /\ PoolCreated'
<1>1. pool \in Seq(Workers) /\ Len(pool) \in Nat /\ Len(pool) >= 1
  BY DEF Inv, TypeOK, PoolTypes, PoolNeverEmpty
<1>2. UNCHANGED <<poolRunning, adm>>
  BY DEF ScaleTo
<1>3. CASE ScaleUp(n)
  <2>1. PICK fresh \in Seq(Workers) : Grown(fresh)
    BY <1>3, ScaleUpFacts
  <2>2. PoolTypes'
    BY <1>2, <2>1 DEF Grown, Inv, TypeOK, PoolTypes
  <2>3. ASSUME NEW i \in 1 .. Len(pool'), NEW j \in 1 .. Len(pool'), pool'[i] = pool'[j]
        PROVE  i = j
    <3>1. CASE i <= Len(pool) /\ j <= Len(pool)
      BY <2>3, <3>1, <2>1, <1>1 DEF Grown, Inv, PoolNeverEmpty
    <3>2. CASE i > Len(pool) /\ j > Len(pool)
      <4>1. fresh[i - Len(pool)] = fresh[j - Len(pool)]
        BY <2>3, <3>2, <2>1 DEF Grown
      <4>2. i - Len(pool) = j - Len(pool)
        BY <4>1, <3>2, <2>1 DEF Grown
      <4>3. i \in Int /\ j \in Int
        OBVIOUS
      <4>4. QED
        BY <4>2, <4>3, <1>1
    <3>3. CASE i <= Len(pool) /\ j > Len(pool)
      <4>1. pool'[i] \in created
        <5>1. i \in 1 .. Len(pool)
          BY <3>3, <1>1
        <5>2. QED
          BY <5>1, <2>1 DEF Grown, Inv, PoolCreated
      <4>2. pool'[j] \notin created
        BY <3>3, <2>1 DEF Grown
      <4>3. QED
        BY <2>3, <4>1, <4>2
    <3>4. CASE i > Len(pool) /\ j <= Len(pool)
      <4>1. pool'[j] \in created
        <5>1. j \in 1 .. Len(pool)
          BY <3>4, <1>1
        <5>2. QED
          BY <5>1, <2>1 DEF Grown, Inv, PoolCreated
      <4>2. pool'[i] \notin created
        BY <3>4, <2>1 DEF Grown
      <4>3. QED
        BY <2>3, <4>1, <4>2
    <3>5. QED
      BY <3>1, <3>2, <3>3, <3>4, <1>1
  <2>4. PoolNeverEmpty'
    <3>1. Len(pool') >= 1
      BY <1>1, <2>1 DEF Grown
    <3>2. QED
      BY <2>3, <3>1 DEF PoolNeverEmpty
  <2>5. PoolCreated'
    <3>1. ASSUME NEW i \in 1 .. Len(pool') PROVE pool'[i] \in created'
      <4>1. CASE i <= Len(pool)
        BY <4>1, <1>1, <2>1 DEF Grown, Inv, PoolCreated
      <4>2. CASE i > Len(pool)
        BY <4>2, <2>1 DEF Grown
      <4>3. QED
        BY <4>1, <4>2, <1>1
    <3>2. QED
      BY <3>1 DEF PoolCreated
  <2>6. QED
    BY <2>2, <2>4, <2>5
<1>4. CASE ScaleDown(n)
  <2>1. \A i \in 1 .. Len(pool') : i \in 1 .. Len(pool)
    <3>1. pool' \in Seq(Workers) /\ Len(pool') < Len(pool)
      BY <1>4, ScaleDownFacts
    <3>2. QED
      BY <1>1, <3>1
  <2>2. PoolTypes'
    BY <1>2, <1>4, ScaleDownFacts DEF Inv, TypeOK, PoolTypes
  <2>3. PoolNeverEmpty' /\ PoolCreated'
    BY <1>1, <1>4, <2>1, ScaleDownFacts DEF Inv, PoolNeverEmpty, PoolCreated
  <2>4. QED
    BY <2>2, <2>3
<1>5. QED
  BY <1>3, <1>4 DEF ScaleTo

-----------------------------------------------------------------------------
LEMMA StepInv == Inv /\ [Next]_vars => Inv'
<1> SUFFICES ASSUME Inv, [Next]_vars PROVE Inv'
  OBVIOUS
<1> USE DEF Goto, Answer, At, callVars, scanVars, workVars, poolVars
<1>1. ASSUME NEW c \in Calls, Submit(c) PROVE Inv'
  <2>1. TypeOK'
    BY <1>1, PoolAssumption DEF Inv, TypeOK, PoolTypes, ScanTypes, CallTypes, WorkerTypes,
       PC, Stage, Reply, Refusal, Outcome, Submit, ThreadStep
  <2>2. PoolNeverEmpty' /\ PoolCreated'
    BY <1>1 DEF Inv, PoolNeverEmpty, PoolCreated, Submit
  <2>3. ThreadsHaveWorkers'
    BY <1>1 DEF Inv, TypeOK, CallTypes, ThreadsHaveWorkers, Submit, ThreadStep
  <2>4. OneTaskPerWorker'
    BY <1>1 DEF Inv, TypeOK, CallTypes, WorkerTypes, Stage, ThreadsHaveWorkers,
       OneTaskPerWorker, Owners, Owning, Submit, ThreadStep
  <2>5. QED
    BY <2>1, <2>2, <2>3, <2>4 DEF Inv
<1>2. ASSUME NEW c \in Calls, ScanBegin(c) PROVE Inv'
  <2>1. TypeOK'
    BY <1>2, PoolAssumption DEF Inv, TypeOK, PoolTypes, ScanTypes, CallTypes, WorkerTypes,
       PC, Stage, Reply, Refusal, Outcome, ScanBegin, ThreadStep
  <2>2. PoolNeverEmpty' /\ PoolCreated'
    BY <1>2 DEF Inv, PoolNeverEmpty, PoolCreated, ScanBegin
  <2>3. ThreadsHaveWorkers'
    BY <1>2 DEF Inv, TypeOK, CallTypes, ThreadsHaveWorkers, ScanBegin, ThreadStep
  <2>4. OneTaskPerWorker'
    BY <1>2 DEF Inv, TypeOK, CallTypes, WorkerTypes, Stage, ThreadsHaveWorkers,
       OneTaskPerWorker, Owners, Owning, ScanBegin, ThreadStep
  <2>5. QED
    BY <2>1, <2>2, <2>3, <2>4 DEF Inv
<1>3. ASSUME NEW c \in Calls, Probe(c) PROVE Inv'
  <2>1. Candidate \in Workers
    <3>1. scanFrom \in Nat /\ probed \in Nat /\ pool \in Seq(Workers) /\ Len(pool) >= 1
      BY PoolAssumption DEF Inv, TypeOK, PoolTypes, ScanTypes, PoolNeverEmpty
    <3>2. QED
      BY <3>1, CandidateIsWorker
  <2>2. PoolTypes' /\ WorkerTypes'
    BY <1>3 DEF Inv, TypeOK, PoolTypes, WorkerTypes, Probe
  <2>3. ScanTypes'
    BY <1>3 DEF Inv, TypeOK, ScanTypes, Probe
  <2>4. CallTypes'
    BY <1>3, <2>1 DEF Inv, TypeOK, CallTypes, Probe, PC
  <2>5. PoolNeverEmpty' /\ PoolCreated'
    BY <1>3 DEF Inv, PoolNeverEmpty, PoolCreated, Probe
  <2>6. ThreadsHaveWorkers'
    BY <1>3, <2>1 DEF Inv, TypeOK, CallTypes, ThreadsHaveWorkers, Probe
  <2>7. busy' = busy /\ \A w \in Workers : Owners(w)' = Owners(w)
    <3>1. \A d \in Calls : picked'[d] # picked[d] => d = c
      BY <1>3 DEF Inv, TypeOK, CallTypes, Probe
    <3>2. thread[c] \notin Owning
      BY <1>3 DEF Inv, ThreadsHaveWorkers, Owning, Probe
    <3>3. thread' = thread /\ busy' = busy
      BY <1>3 DEF Probe
    <3>4. QED
      BY <3>1, <3>2, <3>3 DEF Owners
  <2>8. OneTaskPerWorker'
    BY <2>7 DEF Inv, OneTaskPerWorker
  <2>9. QED
    BY <2>2, <2>3, <2>4, <2>5, <2>6, <2>8 DEF Inv, TypeOK
<1>4. ASSUME NEW c \in Calls, GiveUp(c) PROVE Inv'
  <2>1. TypeOK'
    BY <1>4, PoolAssumption DEF Inv, TypeOK, PoolTypes, ScanTypes, CallTypes, WorkerTypes,
       PC, Stage, Reply, Refusal, Outcome, GiveUp, ThreadStep
  <2>2. PoolNeverEmpty' /\ PoolCreated'
    BY <1>4 DEF Inv, PoolNeverEmpty, PoolCreated, GiveUp
  <2>3. ThreadsHaveWorkers'
    BY <1>4 DEF Inv, TypeOK, CallTypes, ThreadsHaveWorkers, GiveUp, ThreadStep
  <2>4. OneTaskPerWorker'
    BY <1>4 DEF Inv, TypeOK, CallTypes, WorkerTypes, Stage, ThreadsHaveWorkers,
       OneTaskPerWorker, Owners, Owning, GiveUp, ThreadStep
  <2>5. QED
    BY <2>1, <2>2, <2>3, <2>4 DEF Inv
<1>5. ASSUME NEW c \in Calls, EnterWait(c) PROVE Inv'
  <2>1. TypeOK'
    BY <1>5, PoolAssumption DEF Inv, TypeOK, PoolTypes, ScanTypes, CallTypes, WorkerTypes,
       PC, Stage, Reply, Refusal, Outcome, EnterWait, ThreadStep
  <2>2. PoolNeverEmpty' /\ PoolCreated'
    BY <1>5 DEF Inv, PoolNeverEmpty, PoolCreated, EnterWait
  <2>3. ThreadsHaveWorkers'
    BY <1>5 DEF Inv, TypeOK, CallTypes, ThreadsHaveWorkers, EnterWait, ThreadStep
  <2>4. OneTaskPerWorker'
    BY <1>5 DEF Inv, TypeOK, CallTypes, WorkerTypes, Stage, ThreadsHaveWorkers,
       OneTaskPerWorker, Owners, Owning, EnterWait, ThreadStep
  <2>5. QED
    BY <2>1, <2>2, <2>3, <2>4 DEF Inv
<1>6. ASSUME NEW c \in Calls, WaitTimeout(c) PROVE Inv'
  <2>a. elapsed' \in [Calls -> 0 .. MaxWait]
    <3>1. PICK t \in (elapsed[c] + 1) .. MaxWait : elapsed' = [elapsed EXCEPT ![c] = t]
      BY <1>6 DEF WaitTimeout
    <3>2. elapsed \in [Calls -> 0 .. MaxWait] /\ t \in 0 .. MaxWait
      BY PoolAssumption DEF Inv, TypeOK, CallTypes
    <3>3. QED
      BY <3>1, <3>2
  <2>b. CallTypes'
    BY <1>6, <2>a DEF Inv, TypeOK, CallTypes, PC, WaitTimeout
  <2>c. PoolTypes' /\ ScanTypes' /\ WorkerTypes'
    BY <1>6 DEF Inv, TypeOK, PoolTypes, ScanTypes, WorkerTypes, WaitTimeout
  <2>1. TypeOK'
    BY <2>b, <2>c DEF TypeOK
  <2>2. PoolNeverEmpty' /\ PoolCreated'
    BY <1>6 DEF Inv, PoolNeverEmpty, PoolCreated, WaitTimeout
  <2>3. ThreadsHaveWorkers'
    BY <1>6 DEF Inv, TypeOK, CallTypes, ThreadsHaveWorkers, WaitTimeout, ThreadStep
  <2>4. OneTaskPerWorker'
    BY <1>6 DEF Inv, TypeOK, CallTypes, WorkerTypes, Stage, ThreadsHaveWorkers,
       OneTaskPerWorker, Owners, Owning, WaitTimeout, ThreadStep
  <2>5. QED
    BY <2>1, <2>2, <2>3, <2>4 DEF Inv
<1>7. ASSUME NEW c \in Calls, HandOff(c) PROVE Inv'
  <2>1. TypeOK'
    BY <1>7, PoolAssumption DEF Inv, TypeOK, PoolTypes, ScanTypes, CallTypes, WorkerTypes,
       PC, Stage, Reply, Refusal, Outcome, HandOff, ThreadStep
  <2>2. PoolNeverEmpty' /\ PoolCreated'
    BY <1>7 DEF Inv, PoolNeverEmpty, PoolCreated, HandOff
  <2>3. ThreadsHaveWorkers'
    BY <1>7 DEF Inv, TypeOK, CallTypes, ThreadsHaveWorkers, HandOff, ThreadStep
  <2>4. OneTaskPerWorker'
    BY <1>7 DEF Inv, TypeOK, CallTypes, WorkerTypes, Stage, ThreadsHaveWorkers,
       OneTaskPerWorker, Owners, Owning, HandOff, ThreadStep
  <2>5. QED
    BY <2>1, <2>2, <2>3, <2>4 DEF Inv
<1>8. ASSUME NEW c \in Calls, Claim(c) PROVE Inv'
  <2>1. TypeOK'
    BY <1>8, PoolAssumption DEF Inv, TypeOK, PoolTypes, ScanTypes, CallTypes, WorkerTypes,
       PC, Stage, Reply, Refusal, Outcome, Claim, ThreadStep
  <2>2. PoolNeverEmpty' /\ PoolCreated'
    BY <1>8 DEF Inv, PoolNeverEmpty, PoolCreated, Claim
  <2>3. ThreadsHaveWorkers'
    BY <1>8 DEF Inv, TypeOK, CallTypes, ThreadsHaveWorkers, Claim, ThreadStep
  <2>4. OneTaskPerWorker'
    BY <1>8 DEF Inv, TypeOK, CallTypes, WorkerTypes, Stage, ThreadsHaveWorkers,
       OneTaskPerWorker, Owners, Owning, Claim, ThreadStep
  <2>5. QED
    BY <2>1, <2>2, <2>3, <2>4 DEF Inv
<1>9. ASSUME NEW c \in Calls, Begin(c) PROVE Inv'
  <2>1. TypeOK'
    BY <1>9, PoolAssumption DEF Inv, TypeOK, PoolTypes, ScanTypes, CallTypes, WorkerTypes,
       PC, Stage, Reply, Refusal, Outcome, Begin, ThreadStep
  <2>2. PoolNeverEmpty' /\ PoolCreated'
    BY <1>9 DEF Inv, PoolNeverEmpty, PoolCreated, Begin
  <2>3. ThreadsHaveWorkers'
    BY <1>9 DEF Inv, TypeOK, CallTypes, ThreadsHaveWorkers, Begin, ThreadStep
  <2>4. OneTaskPerWorker'
    BY <1>9 DEF Inv, TypeOK, CallTypes, WorkerTypes, Stage, ThreadsHaveWorkers,
       OneTaskPerWorker, Owners, Owning, Begin, ThreadStep
  <2>5. QED
    BY <2>1, <2>2, <2>3, <2>4 DEF Inv
<1>10. ASSUME NEW c \in Calls, Execute(c) PROVE Inv'
  <2>1. TypeOK'
    BY <1>10, PoolAssumption DEF Inv, TypeOK, PoolTypes, ScanTypes, CallTypes, WorkerTypes,
       PC, Stage, Reply, Refusal, Outcome, Execute, ThreadStep
  <2>2. PoolNeverEmpty' /\ PoolCreated'
    BY <1>10 DEF Inv, PoolNeverEmpty, PoolCreated, Execute
  <2>3. ThreadsHaveWorkers'
    BY <1>10 DEF Inv, TypeOK, CallTypes, ThreadsHaveWorkers, Execute, ThreadStep
  <2>4. OneTaskPerWorker'
    BY <1>10 DEF Inv, TypeOK, CallTypes, WorkerTypes, Stage, ThreadsHaveWorkers,
       OneTaskPerWorker, Owners, Owning, Execute, ThreadStep
  <2>5. QED
    BY <2>1, <2>2, <2>3, <2>4 DEF Inv
<1>11. ASSUME NEW c \in Calls, Panic(c) PROVE Inv'
  <2>1. TypeOK'
    BY <1>11, PoolAssumption DEF Inv, TypeOK, PoolTypes, ScanTypes, CallTypes, WorkerTypes,
       PC, Stage, Reply, Refusal, Outcome, Panic, ThreadStep
  <2>2. PoolNeverEmpty' /\ PoolCreated'
    BY <1>11 DEF Inv, PoolNeverEmpty, PoolCreated, Panic
  <2>3. ThreadsHaveWorkers'
    BY <1>11 DEF Inv, TypeOK, CallTypes, ThreadsHaveWorkers, Panic, ThreadStep
  <2>4. OneTaskPerWorker'
    BY <1>11 DEF Inv, TypeOK, CallTypes, WorkerTypes, Stage, ThreadsHaveWorkers,
       OneTaskPerWorker, Owners, Owning, Panic, ThreadStep
  <2>5. QED
    BY <2>1, <2>2, <2>3, <2>4 DEF Inv
<1>12. ASSUME NEW c \in Calls, Cleanup(c) PROVE Inv'
  <2>1. TypeOK'
    BY <1>12, PoolAssumption DEF Inv, TypeOK, PoolTypes, ScanTypes, CallTypes, WorkerTypes,
       PC, Stage, Reply, Refusal, Outcome, Cleanup, ThreadStep
  <2>2. PoolNeverEmpty' /\ PoolCreated'
    BY <1>12 DEF Inv, PoolNeverEmpty, PoolCreated, Cleanup
  <2>3. ThreadsHaveWorkers'
    BY <1>12 DEF Inv, TypeOK, CallTypes, ThreadsHaveWorkers, Cleanup, ThreadStep
  <2>4. OneTaskPerWorker'
    BY <1>12 DEF Inv, TypeOK, CallTypes, WorkerTypes, Stage, ThreadsHaveWorkers,
       OneTaskPerWorker, Owners, Owning, Cleanup, ThreadStep
  <2>5. QED
    BY <2>1, <2>2, <2>3, <2>4 DEF Inv
<1>13. ASSUME NEW c \in Calls, Count(c) PROVE Inv'
  <2>1. TypeOK'
    <3>1. PoolTypes' /\ ScanTypes' /\ CallTypes'
      BY <1>13 DEF Inv, TypeOK, PoolTypes, ScanTypes, CallTypes, Stage, Count, ThreadStep
    <3>2. picked[c] \in Workers
      BY <1>13 DEF Inv, ThreadsHaveWorkers, Count, ThreadStep
    <3>3. completed[picked[c]] + 1 \in Nat /\ errors[picked[c]] + 1 \in Nat
      BY <3>2 DEF Inv, TypeOK, WorkerTypes
    <3>4. WorkerTypes'
      BY <1>13, <3>3 DEF Inv, TypeOK, WorkerTypes, Count
    <3>5. QED
      BY <3>1, <3>4 DEF TypeOK
  <2>2. PoolNeverEmpty' /\ PoolCreated'
    BY <1>13 DEF Inv, PoolNeverEmpty, PoolCreated, Count
  <2>3. ThreadsHaveWorkers'
    BY <1>13 DEF Inv, TypeOK, CallTypes, ThreadsHaveWorkers, Count, ThreadStep
  <2>4. OneTaskPerWorker'
    BY <1>13 DEF Inv, TypeOK, CallTypes, WorkerTypes, Stage, ThreadsHaveWorkers,
       OneTaskPerWorker, Owners, Owning, Count, ThreadStep
  <2>5. QED
    BY <2>1, <2>2, <2>3, <2>4 DEF Inv
<1>14. ASSUME NEW c \in Calls, Send(c) PROVE Inv'
  <2>1. TypeOK'
    BY <1>14, PoolAssumption DEF Inv, TypeOK, PoolTypes, ScanTypes, CallTypes, WorkerTypes,
       PC, Stage, Reply, Refusal, Outcome, Send, ThreadStep
  <2>2. PoolNeverEmpty' /\ PoolCreated'
    BY <1>14 DEF Inv, PoolNeverEmpty, PoolCreated, Send
  <2>3. ThreadsHaveWorkers'
    BY <1>14 DEF Inv, TypeOK, CallTypes, ThreadsHaveWorkers, Send, ThreadStep
  <2>4. OneTaskPerWorker'
    BY <1>14 DEF Inv, TypeOK, CallTypes, WorkerTypes, Stage, ThreadsHaveWorkers,
       OneTaskPerWorker, Owners, Owning, Send, ThreadStep
  <2>5. QED
    BY <2>1, <2>2, <2>3, <2>4 DEF Inv
<1>15. ASSUME NEW c \in Calls, DropGuard(c) PROVE Inv'
  <2>1. TypeOK'
    BY <1>15, PoolAssumption DEF Inv, TypeOK, PoolTypes, ScanTypes, CallTypes, WorkerTypes,
       PC, Stage, Reply, Refusal, Outcome, DropGuard, ThreadStep
  <2>2. PoolNeverEmpty' /\ PoolCreated'
    BY <1>15 DEF Inv, PoolNeverEmpty, PoolCreated, DropGuard
  <2>3. ThreadsHaveWorkers'
    BY <1>15 DEF Inv, TypeOK, CallTypes, ThreadsHaveWorkers, DropGuard, ThreadStep
  <2>4. OneTaskPerWorker'
    BY <1>15 DEF Inv, TypeOK, CallTypes, WorkerTypes, Stage, ThreadsHaveWorkers,
       OneTaskPerWorker, Owners, Owning, DropGuard, ThreadStep
  <2>5. QED
    BY <2>1, <2>2, <2>3, <2>4 DEF Inv
<1>16. ASSUME NEW c \in Calls, Notify(c) PROVE Inv'
  <2>1. TypeOK'
    <3>1. PoolTypes' /\ ScanTypes' /\ WorkerTypes'
      BY <1>16 DEF Inv, TypeOK, PoolTypes, ScanTypes, WorkerTypes, Notify
    <3>2. pc' \in [Calls -> PC] /\ elapsed' \in [Calls -> 0 .. MaxWait]
      <4>1. CASE \E d \in Calls : pc[d] = "waiting"
        <5>1. PICK d \in Calls :
                /\ Goto(d, "scan")
                /\ \E t \in elapsed[d] .. MaxWait : elapsed' = [elapsed EXCEPT ![d] = t]
          BY <1>16, <4>1 DEF Notify, NotifyOne
        <5>2. PICK t \in elapsed[d] .. MaxWait : elapsed' = [elapsed EXCEPT ![d] = t]
          BY <5>1
        <5>3. t \in 0 .. MaxWait
          BY PoolAssumption DEF Inv, TypeOK, CallTypes
        <5>4. QED
          BY <5>1, <5>2, <5>3 DEF Inv, TypeOK, CallTypes, PC
      <4>2. CASE ~\E d \in Calls : pc[d] = "waiting"
        BY <1>16, <4>2 DEF Notify, NotifyOne, Inv, TypeOK, CallTypes
      <4>3. QED
        BY <4>1, <4>2
    <3>3. thread' \in [Calls -> Stage]
      BY <1>16 DEF Notify, ThreadStep, Inv, TypeOK, CallTypes, Stage
    <3>4. UNCHANGED <<picked, outcome, reply>>
      BY <1>16 DEF Notify
    <3>5. QED
      BY <3>1, <3>2, <3>3, <3>4 DEF Inv, TypeOK, CallTypes
  <2>2. PoolNeverEmpty' /\ PoolCreated'
    BY <1>16 DEF Inv, PoolNeverEmpty, PoolCreated, Notify
  <2>3. ThreadsHaveWorkers'
    BY <1>16 DEF Inv, TypeOK, CallTypes, ThreadsHaveWorkers, Notify, NotifyOne, ThreadStep
  <2>4. OneTaskPerWorker'
    BY <1>16 DEF Inv, TypeOK, CallTypes, WorkerTypes, Stage, ThreadsHaveWorkers,
       OneTaskPerWorker, Owners, Owning, Notify, NotifyOne, ThreadStep
  <2>5. QED
    BY <2>1, <2>2, <2>3, <2>4 DEF Inv
<1>17. ASSUME NEW c \in Calls, DropSender(c) PROVE Inv'
  <2>1. TypeOK'
    BY <1>17, PoolAssumption DEF Inv, TypeOK, PoolTypes, ScanTypes, CallTypes, WorkerTypes,
       PC, Stage, Reply, Refusal, Outcome, DropSender, ThreadStep
  <2>2. PoolNeverEmpty' /\ PoolCreated'
    BY <1>17 DEF Inv, PoolNeverEmpty, PoolCreated, DropSender
  <2>3. ThreadsHaveWorkers'
    BY <1>17 DEF Inv, TypeOK, CallTypes, ThreadsHaveWorkers, DropSender, ThreadStep
  <2>4. OneTaskPerWorker'
    BY <1>17 DEF Inv, TypeOK, CallTypes, WorkerTypes, Stage, ThreadsHaveWorkers,
       OneTaskPerWorker, Owners, Owning, DropSender, ThreadStep
  <2>5. QED
    BY <2>1, <2>2, <2>3, <2>4 DEF Inv
<1>18. CASE StartPool
  <2>1. TypeOK'
    BY <1>18 DEF Inv, TypeOK, PoolTypes, ScanTypes, CallTypes, WorkerTypes, StartPool, SetAll
  <2>2. PoolNeverEmpty' /\ PoolCreated' /\ ThreadsHaveWorkers' /\ OneTaskPerWorker'
    BY <1>18 DEF Inv, PoolNeverEmpty, PoolCreated, ThreadsHaveWorkers, OneTaskPerWorker,
       Owners, StartPool
  <2>3. QED
    BY <2>1, <2>2 DEF Inv
<1>19. CASE StartWorkers
  <2>1. TypeOK'
    BY <1>19 DEF Inv, TypeOK, PoolTypes, ScanTypes, CallTypes, WorkerTypes, StartWorkers, SetAll
  <2>2. PoolNeverEmpty' /\ PoolCreated' /\ ThreadsHaveWorkers' /\ OneTaskPerWorker'
    BY <1>19 DEF Inv, PoolNeverEmpty, PoolCreated, ThreadsHaveWorkers, OneTaskPerWorker,
       Owners, StartWorkers
  <2>3. QED
    BY <2>1, <2>2 DEF Inv
<1>20. CASE StopPool
  <2>1. TypeOK'
    BY <1>20 DEF Inv, TypeOK, PoolTypes, ScanTypes, CallTypes, WorkerTypes, StopPool, SetAll
  <2>2. PoolNeverEmpty' /\ PoolCreated' /\ ThreadsHaveWorkers' /\ OneTaskPerWorker'
    BY <1>20 DEF Inv, PoolNeverEmpty, PoolCreated, ThreadsHaveWorkers, OneTaskPerWorker,
       Owners, StopPool
  <2>3. QED
    BY <2>1, <2>2 DEF Inv
<1>21. CASE StopWorkers
  <2>1. TypeOK'
    BY <1>21 DEF Inv, TypeOK, PoolTypes, ScanTypes, CallTypes, WorkerTypes, StopWorkers, SetAll
  <2>2. PoolNeverEmpty' /\ PoolCreated' /\ ThreadsHaveWorkers' /\ OneTaskPerWorker'
    BY <1>21 DEF Inv, PoolNeverEmpty, PoolCreated, ThreadsHaveWorkers, OneTaskPerWorker,
       Owners, StopWorkers
  <2>3. QED
    BY <2>1, <2>2 DEF Inv
<1>22. ASSUME NEW n \in 0 .. MaxSize + 1, ScaleTo(n) PROVE Inv'
  <2>1. UNCHANGED <<poolRunning, adm, callVars, scanVars, workVars>>
    BY <1>22 DEF ScaleTo
  <2>2. ScanTypes' /\ CallTypes' /\ WorkerTypes' /\ ThreadsHaveWorkers' /\ OneTaskPerWorker'
    BY <2>1 DEF Inv, TypeOK, ScanTypes, CallTypes, WorkerTypes, ThreadsHaveWorkers,
       OneTaskPerWorker, Owners
  <2>3. QED
    BY <1>22, <2>2, ScaleInv DEF Inv, TypeOK
<1>23. CASE UNCHANGED vars
  BY <1>23 DEF vars, Inv, TypeOK, PoolTypes, ScanTypes, CallTypes, WorkerTypes,
     PoolNeverEmpty, PoolCreated, ThreadsHaveWorkers, OneTaskPerWorker, Owners
<1>24. QED
  BY <1>1, <1>2, <1>3, <1>4, <1>5, <1>6, <1>7, <1>8, <1>9, <1>10, <1>11, <1>12, <1>13,
     <1>14, <1>15, <1>16, <1>17, <1>18, <1>19, <1>20, <1>21, <1>22, <1>23 DEF Next,
     Submitter, WorkerThread, Administrator

LEMMA InvHolds == Spec => []Inv
  BY InitInv, StepInv, PTL DEF Spec

\* Every variable keeps its type in every reachable state.
THEOREM TypeCorrectness == Spec => []TypeOK
<1>1. Inv => TypeOK
  BY DEF Inv
<1>2. QED
  BY <1>1, InvHolds, PTL

\* A worker's busy flag is exact, and a worker works for one call at a time,
\* whatever submissions race for it (WorkerAgent::submit_task, PanicGuard).
THEOREM WorkerExclusion == Spec => []OneTaskPerWorker
<1>1. Inv => OneTaskPerWorker
  BY DEF Inv
<1>2. QED
  BY <1>1, InvHolds, PTL

\* No sequence of resizes empties the pool or puts a worker in it twice
\* (WorkerPool::scale_to).
THEOREM PoolKeepsWorkers == Spec => []PoolNeverEmpty
<1>1. Inv => PoolNeverEmpty
  BY DEF Inv
<1>2. QED
  BY <1>1, InvHolds, PTL

-----------------------------------------------------------------------------
(* The pool's running flag and its workers'.                                *)

\* While start (stop) is setting the workers' flags, the pool's is set.
AdminKnows ==
  /\ adm = "starting" => poolRunning
  /\ adm = "stopping" => ~poolRunning

FlagInv == FlagsAgree /\ AdminKnows

LEMMA CallsKeepPool ==
  ASSUME NEW c \in Calls, Submitter(c) \/ WorkerThread(c)
  PROVE  UNCHANGED poolVars
BY DEF Submitter, WorkerThread, Submit, ScanBegin, Probe, GiveUp, EnterWait, WaitTimeout,
   HandOff, Claim, Begin, Execute, Panic, Cleanup, Count, Send, DropGuard, Notify,
   DropSender

LEMMA StepFlagInv == Inv /\ FlagInv /\ [Next]_vars => FlagInv'
<1> SUFFICES ASSUME Inv, FlagInv, [Next]_vars PROVE FlagInv'
  OBVIOUS
<1>1. CASE UNCHANGED poolVars
  BY <1>1 DEF poolVars, FlagInv, FlagsAgree, AdminKnows
<1>2. CASE StartPool \/ StopPool
  BY <1>2 DEF StartPool, StopPool, FlagInv, FlagsAgree, AdminKnows
<1>3. CASE StartWorkers \/ StopWorkers
  <2>1. \A i \in 1 .. Len(pool) : pool[i] \in Workers
    BY DEF Inv, TypeOK, PoolTypes
  <2>2. created \subseteq Workers
    BY DEF Inv, TypeOK, PoolTypes
  <2>3. UNCHANGED <<pool, poolRunning, created>>
    BY <1>3 DEF StartWorkers, StopWorkers
  <2>4. PICK b \in BOOLEAN : SetAll(b) /\ b = poolRunning
    BY <1>3 DEF StartWorkers, StopWorkers, FlagInv, AdminKnows, Inv, TypeOK, PoolTypes
  <2>5. \A i \in 1 .. Len(pool) : wRunning'[pool[i]] = poolRunning
    BY <2>1, <2>4 DEF SetAll
  <2>6. \A w \in created : wRunning'[w] => \E i \in 1 .. Len(pool) : pool[i] = w
    BY <2>2, <2>4 DEF SetAll, FlagInv, FlagsAgree
  <2>7. AdminKnows'
    BY <1>3 DEF StartWorkers, StopWorkers, AdminKnows
  <2>8. QED
    BY <2>3, <2>5, <2>6, <2>7 DEF FlagInv, FlagsAgree
<1>4. ASSUME NEW n \in 0 .. MaxSize + 1, ScaleTo(n) PROVE FlagInv'
  <2>1. AdminKnows' /\ poolRunning' = poolRunning /\ adm' = adm /\ adm = "none"
    BY <1>4 DEF ScaleTo, FlagInv, AdminKnows
  <2>2. pool \in Seq(Workers) /\ Len(pool) \in Nat /\ created \subseteq Workers
    BY DEF Inv, TypeOK, PoolTypes
  <2>3. \A i \in 1 .. Len(pool) : pool[i] \in created /\ wRunning[pool[i]] = poolRunning
    BY <2>1 DEF Inv, PoolCreated, FlagInv, FlagsAgree
  <2>4. CASE ScaleUp(n)
    <3>1. PICK fresh \in Seq(Workers) : Grown(fresh)
      BY <1>4, <2>4, ScaleUpFacts
    <3>3. ASSUME NEW i \in 1 .. Len(pool') PROVE wRunning'[pool'[i]] = poolRunning
      <4>1. CASE i <= Len(pool)
        <5>1. pool'[i] = pool[i] /\ pool[i] \in created /\ wRunning[pool[i]] = poolRunning
          BY <2>2, <2>3, <3>1, <4>1 DEF Grown
        <5>2. QED
          BY <2>2, <3>1, <5>1 DEF Grown
      <4>2. CASE i > Len(pool)
        <5>1. i - Len(pool) \in 1 .. Len(fresh) /\ pool'[i] = fresh[i - Len(pool)]
          BY <2>2, <3>1, <4>2 DEF Grown
        <5>2. QED
          BY <3>1, <5>1 DEF Grown
      <4>3. QED
        BY <4>1, <4>2, <2>2
    <3>4. ASSUME NEW w \in created', wRunning'[w]
          PROVE  \E i \in 1 .. Len(pool') : pool'[i] = w
      <4>1. CASE w \in created
        <5>1. PICK i \in 1 .. Len(pool) : pool[i] = w
          BY <3>1, <3>4, <4>1, <2>2 DEF Grown, FlagInv, FlagsAgree
        <5>2. i \in 1 .. Len(pool') /\ pool'[i] = w
          BY <5>1, <3>1, <2>2 DEF Grown
        <5>3. QED
          BY <5>2
      <4>2. CASE w \notin created
        <5>1. PICK i \in 1 .. Len(fresh) : fresh[i] = w
          BY <3>1, <4>2 DEF Grown
        <5>2. Len(pool) + i \in 1 .. Len(pool') /\ pool'[Len(pool) + i] = w
          BY <5>1, <3>1, <2>2 DEF Grown
        <5>3. QED
          BY <5>2
      <4>3. QED
        BY <4>1, <4>2
    <3>5. QED
      BY <2>1, <3>3, <3>4 DEF FlagInv, FlagsAgree
  <2>5. CASE ScaleDown(n)
    <3>1. /\ pool' \in Seq(Workers) /\ Len(pool') \in Nat /\ Len(pool') < Len(pool)
          /\ \A i \in 1 .. Len(pool') : i \in 1 .. Len(pool) /\ pool'[i] = pool[i]
          /\ created' = created
          /\ wRunning' = [w \in Workers |->
               IF \E i \in Len(pool') + 1 .. Len(pool) : pool[i] = w
               THEN FALSE ELSE wRunning[w]]
      <4>1. /\ pool' \in Seq(Workers) /\ Len(pool') < Len(pool)
            /\ \A i \in 1 .. Len(pool') : pool'[i] = pool[i]
            /\ created' = created
            /\ wRunning' = [w \in Workers |->
                 IF \E i \in Len(pool') + 1 .. Len(pool) : pool[i] = w
                 THEN FALSE ELSE wRunning[w]]
        BY <2>5, ScaleDownFacts
      <4>2. Len(pool') \in Nat
        BY <4>1
      <4>3. QED
        BY <2>2, <4>1, <4>2
    <3>2. ASSUME NEW i \in 1 .. Len(pool') PROVE wRunning'[pool'[i]] = poolRunning
      <4>1. ~\E j \in Len(pool') + 1 .. Len(pool) : pool[j] = pool[i]
        BY <2>2, <3>1 DEF Inv, PoolNeverEmpty
      <4>2. QED
        BY <2>2, <2>3, <3>1, <4>1
    <3>3. ASSUME NEW w \in created', wRunning'[w]
          PROVE  \E i \in 1 .. Len(pool') : pool'[i] = w
      <4>1. wRunning[w] /\ ~\E j \in Len(pool') + 1 .. Len(pool) : pool[j] = w
        BY <2>2, <3>1, <3>3
      <4>2. PICK i \in 1 .. Len(pool) : pool[i] = w
        BY <3>1, <4>1 DEF FlagInv, FlagsAgree
      <4>3. i \in 1 .. Len(pool')
        BY <4>1, <4>2, <2>2, <3>1
      <4>4. QED
        BY <3>1, <4>2, <4>3
    <3>4. QED
      BY <2>1, <3>2, <3>3 DEF FlagInv, FlagsAgree
  <2>6. QED
    BY <1>4, <2>4, <2>5 DEF ScaleTo
<1>5. QED
  BY <1>1, <1>2, <1>3, <1>4, CallsKeepPool DEF Next, Administrator, vars

\* Outside of start and stop every worker of the pool runs exactly when the
\* pool does, and no worker outside the pool runs (start, stop, scale_to).
THEOREM PoolAndWorkersAgree == Spec => []FlagsAgree
<1>1. Init => FlagInv
  <2>1. Init => poolRunning = FALSE /\ adm = "none" /\ \A w \in Workers : wRunning[w] = FALSE
    BY DEF Init
  <2>2. Init => \A i \in 1 .. Len(pool) : pool[i] \in Workers
    BY PoolAssumption DEF Init
  <2>3. Init => created \subseteq Workers
    BY InitInv DEF Inv, TypeOK, PoolTypes
  <2>4. QED
    BY <2>1, <2>2, <2>3 DEF FlagInv, FlagsAgree, AdminKnows
<1>2. FlagInv => FlagsAgree
  BY DEF FlagInv
<1>3. QED
  BY <1>1, <1>2, StepFlagInv, InvHolds, PTL DEF Spec

-----------------------------------------------------------------------------
(* The pool implements TaskDispatch.                                        *)

\* What a call's answer says of its threads: there is none before the calling
\* thread returns or while the worker's thread may still give one, the worker
\* sends what the execution came to, and a call without a thread was refused.
RepliesFit ==
  \A c \in Calls :
    /\ pc[c] # "returned" => reply[c] = "none"
    /\ thread[c] \in {"spawned", "executing", "cleanup", "metrics", "send",
                      "unwind", "unwind_notify", "drop_sender"} => reply[c] = "none"
    /\ thread[c] \in {"cleanup", "metrics", "send"} => outcome[c] \in Outcome
    /\ thread[c] \in {"drop", "notify"} => reply[c] \in Outcome

LEMMA RepliesStep == Inv /\ RepliesFit /\ [Next]_vars => RepliesFit'
<1> SUFFICES ASSUME Inv, RepliesFit, [Next]_vars PROVE RepliesFit'
  OBVIOUS
<1> USE DEF Goto, Answer, At, callVars, scanVars, workVars, poolVars
<1>0. /\ pc \in [Calls -> PC] /\ thread \in [Calls -> Stage] /\ reply \in [Calls -> Reply]
      /\ outcome \in [Calls -> Outcome \cup {"none"}]
      /\ \A c \in Calls : thread[c] # "none" => pc[c] = "returned"
  BY DEF Inv, TypeOK, CallTypes, ThreadsHaveWorkers
<1>1. ASSUME NEW c \in Calls, Submitter(c) PROVE RepliesFit'
  <2>1. CASE Submit(c) \/ GiveUp(c) \/ HandOff(c) \/ Claim(c)
    BY <1>0, <2>1 DEF RepliesFit, Submit, GiveUp, HandOff, Claim
  <2>2. CASE ScanBegin(c) \/ Probe(c) \/ EnterWait(c) \/ WaitTimeout(c)
    BY <1>0, <2>2 DEF RepliesFit, ScanBegin, Probe, EnterWait, WaitTimeout
  <2>3. QED
    BY <1>1, <2>1, <2>2 DEF Submitter
<1>2. ASSUME NEW c \in Calls, WorkerThread(c) PROVE RepliesFit'
  <2>1. CASE Begin(c) \/ Execute(c) \/ Panic(c) \/ Cleanup(c) \/ Count(c)
    BY <1>0, <2>1 DEF RepliesFit, Begin, Execute, Panic, Cleanup, Count, ThreadStep
  <2>2. CASE Send(c) \/ DropGuard(c) \/ DropSender(c)
    BY <1>0, <2>2 DEF RepliesFit, Send, DropGuard, DropSender, ThreadStep
  <2>3. CASE Notify(c)
    BY <1>0, <2>3 DEF RepliesFit, Notify, NotifyOne, ThreadStep
  <2>4. QED
    BY <1>2, <2>1, <2>2, <2>3 DEF WorkerThread
<1>3. CASE Administrator
  BY <1>3 DEF RepliesFit, Administrator, StartPool, StartWorkers, StopPool, StopWorkers, ScaleTo
<1>4. CASE UNCHANGED vars
  BY <1>4 DEF RepliesFit, vars
<1>5. QED
  BY <1>1, <1>2, <1>3, <1>4 DEF Next

\* The refinement mapping of WorkerPool.
SlotOf(S) == IF S = {} THEN NoCall ELSE CHOOSE c \in S : TRUE
Call == [c \in Calls |-> AbstractCall(c)]
Slot == [w \in Workers |-> SlotOf(Owners(w))]

\* The two functions are what the INSTANCE substitutes.
LEMMA MappedVariables ==
  /\ Abstract!avars = <<Call, Slot>>
  /\ Abstract!avars' = <<Call', Slot'>>
BY DEF Abstract!avars, Call, Slot, SlotOf

\* A worker's slot is the call whose thread owns it, if there is one.
LEMMA SlotOfOne ==
  ASSUME NEW S, NEW c \in S, \A d \in S : d = c
  PROVE  SlotOf(S) = c
BY DEF SlotOf

\* The mapping looks at nothing of a call but its answer, its worker's thread
\* and whether it has begun.
LEMMA OneCallMoves ==
  ASSUME NEW c \in Calls,
         \A d \in Calls \ {c} :
           reply'[d] = reply[d] /\ thread'[d] = thread[d] /\ (pc'[d] = "idle" <=> pc[d] = "idle")
  PROVE  Call' = [Call EXCEPT ![c] = AbstractCall(c)']
BY DEF Call, AbstractCall, Panicked

LEMMA NoCallMoves ==
  ASSUME \A d \in Calls : AbstractCall(d)' = AbstractCall(d)
  PROVE  Call' = Call
BY DEF Call

LEMMA SlotsStay ==
  ASSUME \A d \in Calls : /\ thread'[d] \in Owning <=> thread[d] \in Owning
                          /\ thread[d] \in Owning => picked'[d] = picked[d]
  PROVE  Slot' = Slot
<1>1. \A w \in Workers : Owners(w)' = Owners(w)
  BY DEF Owners
<1>2. \A w \in Workers : SlotOf(Owners(w)') = SlotOf(Owners(w))
  BY <1>1
<1>3. QED
  BY <1>2 DEF Slot

LEMMA SlotInside ==
  ASSUME NEW S, S # {}
  PROVE  SlotOf(S) \in S
BY DEF SlotOf

\* A step of a submitting thread is a step of TaskDispatch or none of its
\* business: only the entry, the refusals and the claim are seen.
LEMMA SubmitterSimulates ==
  ASSUME Inv, RepliesFit, NEW c \in Calls, Submitter(c)
  PROVE  Abstract!DispatchNext \/ (Call' = Call /\ Slot' = Slot)
<1> USE DEF Goto, Answer, At, callVars, scanVars, workVars, poolVars
<1>0. /\ pc \in [Calls -> PC] /\ thread \in [Calls -> Stage] /\ reply \in [Calls -> Reply]
      /\ picked \in [Calls -> Workers \cup {NoWorker}]
      /\ \A d \in Calls : thread[d] # "none" => pc[d] = "returned"
      /\ \A d \in Calls : pc[d] # "returned" => reply[d] = "none"
  BY DEF Inv, TypeOK, CallTypes, ThreadsHaveWorkers, RepliesFit
<1>1. ASSUME thread' = thread, picked' = picked \/ thread[c] = "none",
             \A d \in Calls \ {c} : picked'[d] = picked[d]
      PROVE  Slot' = Slot
  <2>1. \A d \in Calls : thread[d] \in Owning => picked'[d] = picked[d]
    BY <1>1 DEF Owning
  <2>2. QED
    BY <1>1, <2>1, SlotsStay
<1>2. ASSUME Slot' = Slot, thread' = thread, thread[c] = "none", reply[c] = "none",
             NEW r \in Refusal, reply' = [reply EXCEPT ![c] = r],
             \A d \in Calls \ {c} : pc'[d] = pc[d]
      PROVE  Abstract!Refuse(c)
  <2>1. Call' = [Call EXCEPT ![c] = AbstractCall(c)']
    BY <1>0, <1>2, OneCallMoves
  <2>2. AbstractCall(c)' = r
    BY <1>0, <1>2 DEF AbstractCall, Refusal
  <2>3. Call[c] = "new" \/ Call[c] = "pending"
    BY <1>2 DEF Call, AbstractCall, Panicked
  <2>4. QED
    BY <1>2, <2>1, <2>2, <2>3
    DEF Abstract!Refuse, Abstract!Become, Abstract!Pending, Call, Slot, SlotOf
<1>3. CASE Submit(c)
  <2>1. thread[c] = "none" /\ reply[c] = "none" /\ pc[c] = "idle"
    BY <1>0, <1>3 DEF Submit
  <2>2. Slot' = Slot /\ thread' = thread /\ \A d \in Calls \ {c} : pc'[d] = pc[d]
    BY <1>0, <1>1, <1>3 DEF Submit
  <2>3. CASE poolRunning
    <3>1. reply' = reply /\ pc'[c] = "scan"
      BY <1>0, <1>3, <2>3 DEF Submit
    <3>2. Call' = [Call EXCEPT ![c] = AbstractCall(c)']
      BY <2>2, <3>1, OneCallMoves
    <3>3. AbstractCall(c) = "new" /\ AbstractCall(c)' = "pending"
      BY <2>1, <2>2, <3>1 DEF AbstractCall, Panicked
    <3>4. Abstract!Accept(c)
      BY <2>2, <3>2, <3>3
      DEF Abstract!Accept, Abstract!Become, Abstract!Pending, Call, Slot, SlotOf
    <3>5. QED
      BY <3>4 DEF Abstract!DispatchNext
  <2>4. CASE ~poolRunning
    <3>1. reply' = [reply EXCEPT ![c] = "pool_not_running"]
      BY <1>3, <2>4 DEF Submit
    <3>2. Abstract!Refuse(c)
      BY <1>2, <2>1, <2>2, <3>1 DEF Refusal
    <3>3. QED
      BY <3>2 DEF Abstract!DispatchNext
  <2>5. QED
    BY <2>3, <2>4
<1>4. CASE ScanBegin(c) \/ Probe(c) \/ EnterWait(c) \/ WaitTimeout(c)
  <2>1. /\ thread' = thread /\ reply' = reply
        /\ thread[c] = "none"
        /\ \A d \in Calls \ {c} : picked'[d] = picked[d]
        /\ \A d \in Calls : pc'[d] = "idle" <=> pc[d] = "idle"
    BY <1>0, <1>4 DEF ScanBegin, Probe, EnterWait, WaitTimeout
  <2>2. Slot' = Slot
    BY <1>1, <2>1
  <2>3. \A d \in Calls : AbstractCall(d)' = AbstractCall(d)
    BY <2>1 DEF AbstractCall, Panicked
  <2>4. QED
    BY <2>2, <2>3, NoCallMoves
<1>5. CASE GiveUp(c) \/ HandOff(c)
  <2>1. /\ thread' = thread /\ picked' = picked /\ thread[c] = "none" /\ reply[c] = "none"
        /\ \A d \in Calls \ {c} : pc'[d] = pc[d]
    BY <1>0, <1>5 DEF GiveUp, HandOff
  <2>2. Slot' = Slot
    BY <1>1, <2>1
  <2>3. CASE reply' = reply
    <3>1. \A d \in Calls : pc'[d] = "idle" <=> pc[d] = "idle"
      BY <1>0, <1>5 DEF GiveUp, HandOff
    <3>2. \A d \in Calls : AbstractCall(d)' = AbstractCall(d)
      BY <2>1, <2>3, <3>1 DEF AbstractCall, Panicked
    <3>3. QED
      BY <2>2, <3>2, NoCallMoves
  <2>4. CASE reply' # reply
    <3>1. \E r \in Refusal : reply' = [reply EXCEPT ![c] = r]
      BY <1>5, <2>4 DEF GiveUp, HandOff, Refusal
    <3>2. Abstract!Refuse(c)
      BY <1>2, <2>1, <2>2, <3>1
    <3>3. QED
      BY <3>2 DEF Abstract!DispatchNext
  <2>5. QED
    BY <2>3, <2>4
<1>6. CASE Claim(c)
  <2>1. /\ thread[c] = "none" /\ reply[c] = "none" /\ pc[c] = "claim"
        /\ picked' = picked /\ picked[c] \in Workers
        /\ \A d \in Calls \ {c} : pc'[d] = pc[d]
    BY <1>0, <1>6 DEF Claim, Inv, ThreadsHaveWorkers
  <2>2. CASE busy[picked[c]]
    <3>1. thread' = thread /\ reply' = [reply EXCEPT ![c] = "worker_busy"]
      BY <1>6, <2>2 DEF Claim
    <3>2. Slot' = Slot
      BY <1>1, <2>1, <3>1
    <3>3. Abstract!Refuse(c)
      BY <1>2, <2>1, <3>1, <3>2 DEF Refusal
    <3>4. QED
      BY <3>3 DEF Abstract!DispatchNext
  <2>3. CASE ~busy[picked[c]]
    <3> DEFINE w == picked[c]
    <3>1. /\ thread' = [thread EXCEPT ![c] = "spawned"] /\ reply' = reply
          /\ pc'[c] = "returned"
      BY <1>0, <1>6, <2>3 DEF Claim
    <3>2. Owners(w) = {} /\ Owners(w)' = {c}
      <4>1. Owners(w) = {}
        BY <2>1, <2>3 DEF Inv, OneTaskPerWorker
      <4>2. QED
        BY <1>0, <2>1, <3>1, <4>1 DEF Owners, Owning
    <3>3. \A v \in Workers \ {w} : Owners(v)' = Owners(v)
      BY <1>0, <2>1, <3>1 DEF Owners, Owning
    <3>4. SlotOf(Owners(w)) = NoCall /\ SlotOf(Owners(w)') = c
      <4>1. SlotOf({c}) = c
        BY SlotOfOne
      <4>2. SlotOf({}) = NoCall
        BY DEF SlotOf
      <4>3. QED
        BY <3>2, <4>1, <4>2
    <3>5. Slot[w] = NoCall /\ Slot' = [Slot EXCEPT ![w] = c]
      <4>1. \A v \in Workers \ {w} : SlotOf(Owners(v)') = SlotOf(Owners(v))
        BY <3>3
      <4>2. QED
        BY <2>1, <3>4, <4>1 DEF Slot
    <3>6. Call' = [Call EXCEPT ![c] = AbstractCall(c)']
      BY <1>0, <2>1, <3>1, OneCallMoves
    <3>7. AbstractCall(c) = "pending" /\ AbstractCall(c)' = "running"
      BY <1>0, <2>1, <3>1 DEF AbstractCall, Panicked
    <3>8. Abstract!Take(c, w)
      BY <2>1, <3>5, <3>6, <3>7
      DEF Abstract!Take, Abstract!Become, Abstract!Pending, Abstract!Running, Call, Slot, SlotOf
    <3>9. QED
      BY <2>1, <3>8 DEF Abstract!DispatchNext
  <2>4. QED
    BY <2>2, <2>3
<1>7. QED
  BY <1>3, <1>4, <1>5, <1>6 DEF Submitter

\* A step of a worker's thread is one too: the answer, the panic, the release
\* and the disconnection are seen.
LEMMA WorkerThreadSimulates ==
  ASSUME Inv, RepliesFit, NEW c \in Calls, WorkerThread(c)
  PROVE  Abstract!DispatchNext \/ (Call' = Call /\ Slot' = Slot)
<1> USE DEF Goto, Answer, At, callVars, scanVars, workVars, poolVars
<1> DEFINE w == picked[c]
<1>0. /\ pc \in [Calls -> PC] /\ thread \in [Calls -> Stage] /\ reply \in [Calls -> Reply]
      /\ picked \in [Calls -> Workers \cup {NoWorker}]
      /\ outcome \in [Calls -> Outcome \cup {"none"}]
      /\ \A d \in Calls : thread[d] # "none" => pc[d] = "returned" /\ picked[d] \in Workers
      /\ \A d \in Calls : thread[d] \in Owning => \A e \in Owners(picked[d]) : e = d
  <2>1. ASSUME NEW d \in Calls, thread[d] \in Owning, NEW e \in Owners(picked[d])
        PROVE  e = d
    <3>1. picked[d] \in Workers /\ d \in Owners(picked[d])
      BY <2>1 DEF Inv, ThreadsHaveWorkers, Owners, Owning
    <3>2. QED
      BY <2>1, <3>1 DEF Inv, OneTaskPerWorker
  <2>2. QED
    BY <2>1 DEF Inv, TypeOK, CallTypes, ThreadsHaveWorkers
<1>1. /\ thread[c] # "none" /\ w \in Workers /\ pc[c] = "returned"
      /\ picked' = picked /\ \A d \in Calls \ {c} : thread'[d] = thread[d]
      /\ \A d \in Calls : pc'[d] = "idle" <=> pc[d] = "idle"
  BY <1>0 DEF WorkerThread, Begin, Execute, Panic, Cleanup, Count, Send, DropGuard,
              Notify, NotifyOne, DropSender, ThreadStep
<1>2. ASSUME thread[c] \in Owning PROVE Slot[w] = c
  <2>1. c \in Owners(w) /\ \A d \in Owners(w) : d = c
    BY <1>0, <1>2 DEF Owners
  <2>2. QED
    BY <1>1, <2>1, SlotOfOne DEF Slot
<1>3. ASSUME thread'[c] \in Owning <=> thread[c] \in Owning PROVE Slot' = Slot
  BY <1>1, <1>3, SlotsStay
<1>4. ASSUME \A d \in Calls \ {c} : reply'[d] = reply[d]
      PROVE  Call' = [Call EXCEPT ![c] = AbstractCall(c)']
  BY <1>1, <1>4, OneCallMoves
<1>5. ASSUME reply' = reply, AbstractCall(c)' = AbstractCall(c) PROVE Call' = Call
  <2>1. \A d \in Calls \ {c} : AbstractCall(d)' = AbstractCall(d)
    BY <1>1, <1>5 DEF AbstractCall, Panicked
  <2>2. QED
    BY <1>5, <2>1, NoCallMoves
<1>6. CASE Begin(c) \/ Execute(c) \/ Cleanup(c) \/ Count(c)
  <2>1. /\ thread[c] \in {"spawned", "executing", "cleanup", "metrics"}
        /\ thread'[c] \in {"executing", "cleanup", "metrics", "send"} /\ reply' = reply
    BY <1>0, <1>6 DEF Begin, Execute, Cleanup, Count, ThreadStep
  <2>2. reply[c] = "none"
    BY <2>1 DEF RepliesFit
  <2>3. Slot' = Slot
    BY <1>3, <2>1 DEF Owning
  <2>4. AbstractCall(c) = "running" /\ AbstractCall(c)' = "running"
    BY <2>1, <2>2 DEF AbstractCall, Panicked
  <2>5. QED
    BY <1>5, <2>1, <2>3, <2>4
<1>7. CASE Panic(c)
  <2>1. /\ thread[c] = "executing" /\ thread'[c] = "unwind" /\ reply' = reply
        /\ reply[c] = "none"
    BY <1>0, <1>7 DEF Panic, ThreadStep, RepliesFit
  <2>2. Slot' = Slot /\ Slot[w] = c
    BY <1>2, <1>3, <2>1 DEF Owning
  <2>3. AbstractCall(c) = "running" /\ AbstractCall(c)' = "crashed"
    BY <2>1 DEF AbstractCall, Panicked
  <2>4. Abstract!Crash(c, w)
    BY <1>4, <2>1, <2>2, <2>3
    DEF Abstract!Crash, Abstract!Become, Abstract!Running, Abstract!Crashed, Call, Slot, SlotOf
  <2>5. QED
    BY <1>1, <2>4 DEF Abstract!DispatchNext
<1>8. CASE Send(c)
  <2>1. /\ thread[c] = "send" /\ thread'[c] = "drop" /\ reply[c] = "none"
        /\ outcome[c] \in Outcome /\ reply' = [reply EXCEPT ![c] = outcome[c]]
    BY <1>0, <1>8 DEF Send, ThreadStep, RepliesFit
  <2>2. Slot' = Slot /\ Slot[w] = c
    BY <1>2, <1>3, <2>1 DEF Owning
  <2>3. AbstractCall(c) = "running" /\ AbstractCall(c)' = outcome[c]
    BY <1>0, <2>1 DEF AbstractCall, Panicked, Outcome
  <2>4. Call' = [Call EXCEPT ![c] = outcome[c]]
    BY <1>0, <1>4, <2>1, <2>3
  <2>5. Abstract!Finish(c, w)
    BY <2>1, <2>2, <2>3, <2>4
    DEF Abstract!Finish, Abstract!Become, Abstract!Running, Call, Slot, SlotOf
  <2>6. QED
    BY <1>1, <2>5 DEF Abstract!DispatchNext
<1>9. CASE DropGuard(c)
  <2>1. /\ reply' = reply
        /\ \/ /\ thread[c] = "drop" /\ thread'[c] = "notify" /\ reply[c] \in Outcome
           \/ /\ thread[c] = "unwind" /\ thread'[c] = "unwind_notify" /\ reply[c] = "none"
    BY <1>0, <1>9 DEF DropGuard, ThreadStep, RepliesFit
  <2>2. Slot[w] = c
    BY <1>2, <2>1 DEF Owning
  <2>3. /\ AbstractCall(c) \in Outcome \cup {"crashed"}
        /\ AbstractCall(c)' = AbstractCall(c)
    BY <2>1 DEF AbstractCall, Panicked, Outcome
  <2>4. Call' = Call
    BY <1>5, <2>1, <2>3
  <2>5. Slot' = [Slot EXCEPT ![w] = NoCall]
    <3>1. Owners(w)' = {}
      BY <1>0, <1>1, <2>1 DEF Owners, Owning
    <3>2. \A v \in Workers \ {w} : Owners(v)' = Owners(v)
      BY <1>0, <1>1 DEF Owners
    <3>3. SlotOf(Owners(w)') = NoCall
      BY <3>1 DEF SlotOf
    <3>4. \A v \in Workers \ {w} : SlotOf(Owners(v)') = SlotOf(Owners(v))
      BY <3>2
    <3>5. QED
      BY <1>1, <3>3, <3>4 DEF Slot
  <2>6. Abstract!Release(c, w)
    BY <2>2, <2>3, <2>4, <2>5
    DEF Abstract!Release, Abstract!Crashed, Call, Slot, SlotOf
  <2>7. QED
    BY <1>1, <2>6 DEF Abstract!DispatchNext
<1>10. CASE Notify(c)
  <2>1. /\ reply' = reply
        /\ \/ thread[c] = "notify" /\ thread'[c] = "ended" /\ reply[c] \in Outcome
           \/ thread[c] = "unwind_notify" /\ thread'[c] = "drop_sender"
    BY <1>0, <1>10 DEF Notify, ThreadStep, RepliesFit
  <2>2. Slot' = Slot
    BY <1>3, <2>1 DEF Owning
  <2>3. AbstractCall(c)' = AbstractCall(c)
    BY <2>1 DEF AbstractCall, Panicked, Outcome
  <2>4. QED
    BY <1>5, <2>1, <2>2, <2>3
<1>11. CASE DropSender(c)
  <2>1. /\ thread[c] = "drop_sender" /\ thread'[c] = "ended" /\ reply[c] = "none"
        /\ reply' = [reply EXCEPT ![c] = "disconnected"]
    BY <1>0, <1>11 DEF DropSender, ThreadStep, RepliesFit
  <2>2. Slot' = Slot
    BY <1>3, <2>1 DEF Owning
  <2>3. AbstractCall(c) = "crashed" /\ AbstractCall(c)' = "disconnected"
    BY <1>0, <2>1 DEF AbstractCall, Panicked
  <2>4. Call' = [Call EXCEPT ![c] = "disconnected"]
    BY <1>0, <1>4, <2>1, <2>3
  <2>5. \A v \in Workers : Slot[v] # c
    <3>1. \A v \in Workers : c \notin Owners(v)
      BY <2>1 DEF Owners, Owning
    <3>2. ASSUME NEW v \in Workers PROVE SlotOf(Owners(v)) # c
      <4>1. CASE Owners(v) = {}
        BY <4>1, PoolAssumption DEF SlotOf
      <4>2. CASE Owners(v) # {}
        BY <3>1, <4>2, SlotInside
      <4>3. QED
        BY <4>1, <4>2
    <3>3. QED
      BY <3>2 DEF Slot
  <2>6. Abstract!Disconnect(c)
    BY <2>2, <2>3, <2>4, <2>5
    DEF Abstract!Disconnect, Abstract!Become, Abstract!Crashed, Call, Slot, SlotOf
  <2>7. QED
    BY <2>6 DEF Abstract!DispatchNext
<1>12. QED
  BY <1>6, <1>7, <1>8, <1>9, <1>10, <1>11 DEF WorkerThread

\* The pool keeps the promise of TaskDispatch: scans, wakeups, resizes and
\* stops are invisible, and every other step is an acceptance, a refusal, a
\* claim, an answer, a panic, a release or a disconnection that TaskDispatch
\* allows at that moment.
THEOREM PoolImplementsDispatch == Spec => ImplementsDispatch
<1>1. Init => RepliesFit
  BY DEF Init, RepliesFit
<1>2. Init => Abstract!DispatchInit
  <2> SUFFICES ASSUME Init PROVE Abstract!DispatchInit
    OBVIOUS
  <2>1. \A c \in Calls : AbstractCall(c) = "new"
    BY DEF Init, AbstractCall, Panicked
  <2>2. \A w \in Workers : Owners(w) = {}
    BY DEF Init, Owners, Owning
  <2>3. QED
    BY <2>1, <2>2 DEF Abstract!DispatchInit
<1>3. Inv /\ RepliesFit /\ [Next]_vars => [Abstract!DispatchNext]_(Abstract!avars)
  <2> SUFFICES ASSUME Inv, RepliesFit, [Next]_vars
               PROVE  Abstract!DispatchNext \/ (Call' = Call /\ Slot' = Slot)
    BY MappedVariables
  <2>1. CASE \E c \in Calls : Submitter(c) \/ WorkerThread(c)
    BY <2>1, SubmitterSimulates, WorkerThreadSimulates
  <2>2. CASE Administrator \/ UNCHANGED vars
    <3>1. thread' = thread /\ picked' = picked /\ pc' = pc /\ reply' = reply
      BY <2>2 DEF Administrator, StartPool, StartWorkers, StopPool, StopWorkers, ScaleTo,
                  vars, callVars, workVars
    <3>2. \A c \in Calls : AbstractCall(c)' = AbstractCall(c)
      BY <3>1 DEF AbstractCall, Panicked
    <3>3. QED
      BY <3>1, <3>2, NoCallMoves, SlotsStay
  <2>3. QED
    BY <2>1, <2>2 DEF Next
<1>4. Spec => [](Inv /\ RepliesFit)
  BY <1>1, InvHolds, RepliesStep, PTL DEF Spec
<1>5. QED
  BY <1>2, <1>3, <1>4, PTL DEF Spec, ImplementsDispatch, Abstract!Dispatch

-----------------------------------------------------------------------------
(* The metrics of a worker.                                                 *)

\* The answers a worker's metrics must account for.
LEMMA AnswersAreFinite ==
  ASSUME IsFiniteSet(Calls), NEW w, NEW r
  PROVE  /\ IsFiniteSet(Answered(w, r)) /\ Cardinality(Answered(w, r)) \in Nat
         /\ IsFiniteSet(Sending(w, r)) /\ Cardinality(Sending(w, r)) \in Nat
<1>1. Answered(w, r) \subseteq Calls /\ Sending(w, r) \subseteq Calls
  BY DEF Answered, Sending
<1>2. QED
  BY <1>1, FS_Subset, FS_CardinalityType

\* Only the count and the send move a call between "not counted", "being
\* sent" and "answered"; a refusal is neither a success nor a failure.
LEMMA StepMetrics ==
  ASSUME IsFiniteSet(Calls), Inv, RepliesFit, MetricsMatchAnswers, [Next]_vars
  PROVE  MetricsMatchAnswers'
<1> USE DEF Goto, Answer, At, callVars, scanVars, workVars, poolVars
<1>0. /\ pc \in [Calls -> PC] /\ thread \in [Calls -> Stage] /\ reply \in [Calls -> Reply]
      /\ picked \in [Calls -> Workers \cup {NoWorker}]
      /\ outcome \in [Calls -> Outcome \cup {"none"}]
      /\ completed \in [Workers -> Nat] /\ errors \in [Workers -> Nat]
      /\ \A d \in Calls : thread[d] # "none" => pc[d] = "returned" /\ picked[d] \in Workers
      /\ \A d \in Calls : pc[d] # "returned" => reply[d] = "none" /\ thread[d] = "none"
  BY DEF Inv, TypeOK, CallTypes, WorkerTypes, ThreadsHaveWorkers, RepliesFit
<1>1. ASSUME completed' = completed, errors' = errors,
             \A w \in Workers, r \in Outcome :
               Answered(w, r)' = Answered(w, r) /\ Sending(w, r)' = Sending(w, r)
      PROVE  MetricsMatchAnswers'
  BY <1>1 DEF MetricsMatchAnswers, Outcome
<1>2. ASSUME NEW c \in Calls, Submitter(c) PROVE MetricsMatchAnswers'
  <2>1. /\ completed' = completed /\ errors' = errors /\ outcome' = outcome
        /\ thread[c] = "none" /\ reply[c] = "none"
        /\ \A d \in Calls \ {c} : /\ thread'[d] = thread[d] /\ reply'[d] = reply[d]
                                  /\ picked'[d] = picked[d]
        /\ thread'[c] # "send" /\ reply'[c] \notin Outcome
    BY <1>0, <1>2 DEF Submitter, Submit, ScanBegin, Probe, GiveUp, EnterWait, WaitTimeout,
                      HandOff, Claim, Outcome
  <2>2. \A w \in Workers, r \in Outcome :
          Answered(w, r)' = Answered(w, r) /\ Sending(w, r)' = Sending(w, r)
    BY <2>1 DEF Answered, Sending, Outcome
  <2>3. QED
    BY <1>1, <2>1, <2>2
<1>3. ASSUME NEW c \in Calls, Count(c), NEW v, v = picked[c], NEW o, o = outcome[c]
      PROVE  MetricsMatchAnswers'
  <2>1. /\ thread[c] = "metrics" /\ thread' = [thread EXCEPT ![c] = "send"]
        /\ v \in Workers /\ o \in Outcome /\ v = picked[c] /\ o = outcome[c]
        /\ reply' = reply /\ picked' = picked /\ outcome' = outcome
    BY <1>0, <1>3 DEF Count, ThreadStep, RepliesFit
  <2>2. \A w \in Workers, r \in Outcome : Answered(w, r)' = Answered(w, r)
    BY <2>1 DEF Answered
  <2>3. /\ Sending(v, o)' = Sending(v, o) \cup {c}
        /\ c \notin Sending(v, o)
    BY <1>0, <2>1 DEF Sending
  <2>4. \A w \in Workers, r \in Outcome :
          w # v \/ r # o => Sending(w, r)' = Sending(w, r)
    BY <1>0, <2>1 DEF Sending
  <2>5. Cardinality(Sending(v, o)') = Cardinality(Sending(v, o)) + 1
    BY <2>3, AnswersAreFinite, FS_AddElement
  <2>6. CASE o = "success"
    <3>1. completed' = [completed EXCEPT ![v] = @ + 1] /\ errors' = errors
      BY <1>3, <2>6 DEF Count
    <3>2. ASSUME NEW w \in Workers
          PROVE  completed'[w] = Cardinality(Answered(w, "success")') + Cardinality(Sending(w, "success")')
      <4>1. Cardinality(Answered(w, "success")) \in Nat /\ Cardinality(Sending(w, "success")) \in Nat
        BY AnswersAreFinite
      <4>2. completed[w] = Cardinality(Answered(w, "success")) + Cardinality(Sending(w, "success"))
        BY DEF MetricsMatchAnswers
      <4>3. Answered(w, "success")' = Answered(w, "success")
        BY <2>2 DEF Outcome
      <4>4. CASE w = v
        BY <1>0, <2>5, <2>6, <3>1, <4>1, <4>2, <4>3, <4>4
      <4>5. CASE w # v
        <5>1. Sending(w, "success")' = Sending(w, "success")
          BY <2>4, <4>5 DEF Outcome
        <5>2. QED
          BY <1>0, <3>1, <4>2, <4>3, <4>5, <5>1
      <4>6. QED
        BY <4>4, <4>5
    <3>3. \A w \in Workers : errors'[w] = Cardinality(Answered(w, "failure")') + Cardinality(Sending(w, "failure")')
      BY <2>2, <2>4, <2>6, <3>1 DEF MetricsMatchAnswers, Outcome
    <3>4. QED
      BY <3>2, <3>3 DEF MetricsMatchAnswers
  <2>7. CASE o = "failure"
    <3>1. errors' = [errors EXCEPT ![v] = @ + 1] /\ completed' = completed
      BY <1>3, <2>7 DEF Count
    <3>2. ASSUME NEW w \in Workers
          PROVE  errors'[w] = Cardinality(Answered(w, "failure")') + Cardinality(Sending(w, "failure")')
      <4>1. Cardinality(Answered(w, "failure")) \in Nat /\ Cardinality(Sending(w, "failure")) \in Nat
        BY AnswersAreFinite
      <4>2. errors[w] = Cardinality(Answered(w, "failure")) + Cardinality(Sending(w, "failure"))
        BY DEF MetricsMatchAnswers
      <4>3. Answered(w, "failure")' = Answered(w, "failure")
        BY <2>2 DEF Outcome
      <4>4. CASE w = v
        BY <1>0, <2>5, <2>7, <3>1, <4>1, <4>2, <4>3, <4>4
      <4>5. CASE w # v
        <5>1. Sending(w, "failure")' = Sending(w, "failure")
          BY <2>4, <4>5 DEF Outcome
        <5>2. QED
          BY <1>0, <3>1, <4>2, <4>3, <4>5, <5>1
      <4>6. QED
        BY <4>4, <4>5
    <3>3. \A w \in Workers : completed'[w] = Cardinality(Answered(w, "success")') + Cardinality(Sending(w, "success")')
      BY <2>2, <2>4, <2>7, <3>1 DEF MetricsMatchAnswers, Outcome
    <3>4. QED
      BY <3>2, <3>3 DEF MetricsMatchAnswers
  <2>8. QED
    BY <2>1, <2>6, <2>7 DEF Outcome
<1>4. ASSUME NEW c \in Calls, Send(c), NEW v, v = picked[c], NEW o, o = outcome[c]
      PROVE  MetricsMatchAnswers'
  <2>1. /\ thread[c] = "send" /\ thread' = [thread EXCEPT ![c] = "drop"] /\ reply[c] = "none"
        /\ v \in Workers /\ o \in Outcome /\ v = picked[c] /\ o = outcome[c]
        /\ reply' = [reply EXCEPT ![c] = o]
        /\ picked' = picked /\ outcome' = outcome /\ completed' = completed /\ errors' = errors
    BY <1>0, <1>4 DEF Send, ThreadStep, RepliesFit
  <2>2. /\ Answered(v, o)' = Answered(v, o) \cup {c}
        /\ c \notin Answered(v, o)
        /\ Sending(v, o)' = Sending(v, o) \ {c}
        /\ c \in Sending(v, o)
    BY <1>0, <2>1 DEF Answered, Sending, Outcome
  <2>3. \A w \in Workers, r \in Outcome :
          w # v \/ r # o => /\ Answered(w, r)' = Answered(w, r)
                                     /\ Sending(w, r)' = Sending(w, r)
    BY <1>0, <2>1 DEF Answered, Sending, Outcome
  <2>4. /\ Cardinality(Answered(v, o)') = Cardinality(Answered(v, o)) + 1
        /\ Cardinality(Sending(v, o)') = Cardinality(Sending(v, o)) - 1
    <3>1. IsFiniteSet(Answered(v, o)) /\ IsFiniteSet(Sending(v, o))
      BY AnswersAreFinite
    <3>2. Cardinality(Answered(v, o) \cup {c}) = Cardinality(Answered(v, o)) + 1
      BY <2>2, <3>1, FS_AddElement
    <3>3. Cardinality(Sending(v, o) \ {c}) = Cardinality(Sending(v, o)) - 1
      BY <2>2, <3>1, FS_RemoveElement
    <3>4. QED
      BY <2>2, <3>2, <3>3
  <2>5. ASSUME NEW w \in Workers, NEW r \in Outcome
        PROVE  Cardinality(Answered(w, r)') + Cardinality(Sending(w, r)')
                 = Cardinality(Answered(w, r)) + Cardinality(Sending(w, r))
    <3>1. Cardinality(Answered(w, r)) \in Nat /\ Cardinality(Sending(w, r)) \in Nat
      BY AnswersAreFinite
    <3>2. CASE w = v /\ r = o
      BY <2>4, <3>1, <3>2
    <3>3. CASE w # v \/ r # o
      BY <2>3, <3>3
    <3>4. QED
      BY <3>2, <3>3
  <2>6. QED
    BY <2>1, <2>5 DEF MetricsMatchAnswers, Outcome
<1>5. ASSUME NEW c \in Calls,
             \/ Begin(c) \/ Execute(c) \/ Panic(c) \/ Cleanup(c) \/ DropGuard(c) \/ Notify(c)
             \/ DropSender(c)
      PROVE  MetricsMatchAnswers'
  <2>1. /\ completed' = completed /\ errors' = errors /\ picked' = picked
        /\ \A d \in Calls \ {c} : /\ thread'[d] = thread[d] /\ reply'[d] = reply[d]
                                  /\ outcome'[d] = outcome[d]
        /\ thread[c] # "send" /\ thread'[c] # "send"
        /\ reply'[c] = reply[c] \/ (reply[c] = "none" /\ reply'[c] = "disconnected")
    <3>1. CASE Begin(c) \/ Execute(c) \/ Panic(c) \/ Cleanup(c)
      BY <1>0, <3>1 DEF Begin, Execute, Panic, Cleanup, ThreadStep
    <3>2. CASE DropGuard(c) \/ Notify(c)
      BY <1>0, <3>2 DEF DropGuard, Notify, ThreadStep
    <3>3. CASE DropSender(c)
      BY <1>0, <3>3 DEF DropSender, ThreadStep, RepliesFit
    <3>4. QED
      BY <1>5, <3>1, <3>2, <3>3
  <2>2. \A w \in Workers, r \in Outcome :
          Answered(w, r)' = Answered(w, r) /\ Sending(w, r)' = Sending(w, r)
    BY <2>1 DEF Answered, Sending, Outcome
  <2>3. QED
    BY <1>1, <2>1, <2>2
<1>6. CASE Administrator \/ UNCHANGED vars
  <2>1. UNCHANGED <<completed, errors, picked, thread, reply, outcome>>
    BY <1>6 DEF Administrator, StartPool, StartWorkers, StopPool, StopWorkers, ScaleTo, vars
  <2>2. \A w \in Workers, r \in Outcome :
          Answered(w, r)' = Answered(w, r) /\ Sending(w, r)' = Sending(w, r)
    BY <2>1 DEF Answered, Sending
  <2>3. QED
    BY <1>1, <2>1, <2>2
<1>7. QED
  BY <1>2, <1>3, <1>4, <1>5, <1>6 DEF Next, WorkerThread

\* A caller that holds an answer finds it in the worker's metrics and the
\* metrics count nothing else: record_task_completion and record_error come
\* before the answer is sent, by the same thread.
THEOREM MetricsAreExact ==
  ASSUME IsFiniteSet(Calls)
  PROVE  Spec => []MetricsMatchAnswers
<1>1. Init => MetricsMatchAnswers /\ RepliesFit
  <2> SUFFICES ASSUME Init PROVE MetricsMatchAnswers /\ RepliesFit
    OBVIOUS
  <2>1. \A w \in Workers : /\ Answered(w, "success") = {} /\ Sending(w, "success") = {}
                            /\ Answered(w, "failure") = {} /\ Sending(w, "failure") = {}
    BY DEF Init, Answered, Sending
  <2>2. Cardinality({}) = 0
    BY FS_EmptySet
  <2>3. MetricsMatchAnswers
    <3>1. \A w \in Workers : completed[w] = 0 /\ errors[w] = 0
      BY DEF Init
    <3>2. ASSUME NEW w \in Workers
          PROVE  /\ Cardinality(Answered(w, "success")) = 0 /\ Cardinality(Sending(w, "success")) = 0
                 /\ Cardinality(Answered(w, "failure")) = 0 /\ Cardinality(Sending(w, "failure")) = 0
      BY <2>1, <2>2
    <3>3. QED
      BY <3>1, <3>2 DEF MetricsMatchAnswers
  <2>4. QED
    BY <2>3 DEF Init, RepliesFit
<1>2. Inv /\ RepliesFit /\ MetricsMatchAnswers /\ [Next]_vars => MetricsMatchAnswers'
  BY StepMetrics
<1>3. QED
  BY <1>1, <1>2, InvHolds, RepliesStep, PTL DEF Spec
=============================================================================
