------------------------- MODULE OrchestratorProofs -------------------------
(***************************************************************************)
(* A plan of any number of sub-tasks, with any dependencies, is executed   *)
(* in their order, without executing one of them twice or losing one, and  *)
(* reports what has happened.                                              *)
(*                                                                         *)
(* The argument: sorting and dividing put every sub-task into one place of *)
(* one group (Sound, Divided), behind the groups of what it depends on     *)
(* when the dependencies make sense (InOrder); the place of a sub-task and *)
(* the place the thread has reached say what has happened to it (Executed).*)
(***************************************************************************)
EXTENDS Orchestrator, SequenceLemmas

AllNames == Names \cup Unknown

Labels == {"sort", "group", "next", "serial", "wait", "submit", "collect", "finish", "done"}

\* The labels at which the groups are being executed.
Executing == {"next", "serial", "wait", "submit", "collect"}

\* At these labels the thread is in a group.
InGroup == {"serial", "wait", "submit", "collect"}

PlanTypes ==
    /\ deps \in [Names -> SUBSET AllNames]
    /\ pc \in Labels
    /\ stack \in Seq([name : AllNames, todo : SUBSET AllNames])
    /\ order \in Seq(AllNames)
    /\ remaining \in Seq(AllNames)
    /\ groups \in Seq(Seq(Names))
    /\ current \in Nat /\ at \in Nat
    /\ \A n \in Names : task[n] \in {"none", "submitted"} \cup Answers(n)

\* Sorting: a name is sorted, on the stack, or neither, and is so once.
Sound ==
    /\ IsInjective(order)
    /\ Range(order) = visited
    /\ \A i \in DOMAIN stack : stack[i].name \notin visited
    /\ \A i, j \in DOMAIN stack : stack[i].name = stack[j].name => i = j

\* Dividing: a name is in one place of one group, or remains.
Divided ==
    /\ \A g, h \in DOMAIN groups : \A i \in DOMAIN groups[g], j \in DOMAIN groups[h] :
         groups[g][i] = groups[h][j] => g = h /\ i = j
    /\ IsInjective(remaining)
    /\ Range(remaining) \subseteq visited
    /\ Range(remaining) \cap Grouped = {}
    /\ pc = "sort" => groups = <<>> /\ remaining = <<>>
    /\ pc # "sort" => Names \subseteq Grouped \cup Range(remaining)
    /\ pc \notin {"sort", "group"} => remaining = <<>>

\* What a sub-task depends on is in the groups before its own.
InOrder ==
    WellFormed => \A g \in DOMAIN groups : \A n \in Range(groups[g]) : \A d \in deps[n] :
                    \E h \in DOMAIN groups : h < g /\ d \in Range(groups[h])

Fresh(n) == task[n] = "none" /\ status[n] = "Pending"
Taken(n) == task[n] # "none" /\ status[n] = "Running"
Good(n)  == task[n] = "success" /\ status[n] = "Completed"
Blocked(n) == task[n] = "blocked" /\ status[n] = "Completed"

\* The thread is past n: it has been completed, or a block has ended its group.
Past(n) == Good(n) \/ Blocked(n) \/ (Fresh(n) /\ \E m \in Names : Blocked(m))

\* What has happened to the sub-task at place i of group g.
Stands(g, i) ==
    LET n == groups[g][i] IN
    /\ g < current \/ (g = current /\ pc = "next") => Past(n)
    /\ g > current => Fresh(n)
    /\ g = current =>
         /\ pc = "serial"  => IF i < at THEN Good(n) ELSE Fresh(n)
         /\ pc = "wait"    => IF i < at THEN Good(n) ELSE IF i = at THEN Taken(n) ELSE Fresh(n)
         /\ pc = "submit"  => IF i < at THEN Taken(n) ELSE Fresh(n)
         /\ pc = "collect" => IF i < at THEN Good(n) ELSE Taken(n)

Executed == pc \in Executing => \A g \in DOMAIN groups : \A i \in DOMAIN groups[g] : Stands(g, i)

\* The place the thread has reached.
Reached ==
    /\ current <= Len(groups)
    /\ pc \in {"sort", "group"} => current = 0
    /\ pc \in InGroup => current \in DOMAIN groups /\ at \in DOMAIN groups[current]
    /\ pc \in {"submit", "collect"} => \A n \in Range(groups[current]) : ~ApiCall(n)

\* The records of the plan and of its sub-tasks.
Recorded ==
    /\ pc \in {"sort", "group"} => /\ \A n \in Names : task[n] = "none" /\ status[n] = "none"
    /\ pc \in {"sort", "group"} => plan = "none"
    /\ pc \in Executing => plan = "Running"
    /\ pc # "done" => result = "none"
    /\ pc = "finish" => last = "question" /\ plan = "Completed"
    /\ plan = "Completed" => \A n \in Names : status[n] \in {"Pending", "Completed"}
    /\ \A n \in Names : status[n] = "Completed" => task[n] \in Successes
    /\ \A n \in Names : status[n] \in {"none", "Pending"} => task[n] = "none"

PlanInv ==
    /\ TypeOK /\ PlanTypes /\ Sound /\ Divided /\ InOrder /\ Reached /\ Recorded /\ Executed
    /\ DependenciesFirst /\ ReportsWhatHappened

-----------------------------------------------------------------------------
(* The beginning.                                                           *)

\* No sub-task has been started, sorted or divided.
LEMMA PlanBegins == Init => PlanInv
<1> SUFFICES ASSUME Init PROVE PlanInv
  OBVIOUS
<1>e. /\ <<>> \in Seq(AllNames) /\ <<>> \in Seq(Seq(Names))
      /\ <<>> \in Seq([name : AllNames, todo : SUBSET AllNames])
      /\ Len(<<>>) = 0 /\ DOMAIN <<>> = {}
  OBVIOUS
<1>r. Range(<<>>) = {} /\ IsInjective(<<>>)
  BY <1>e DEF Range, IsInjective
<1>1. TypeOK
  <2>1. order \in [1 .. Len(order) -> Names \cup Unknown]
    BY <1>e DEF Init
  <2>2. QED
    BY <1>e, <1>r, <2>1 DEF TypeOK, Init, Statuses, Successes
<1>2. PlanTypes
  BY <1>e DEF PlanTypes, Init, Labels, AllNames
<1>3. Sound
  BY <1>e, <1>r DEF Sound, Init
<1>4. Divided
  BY <1>e, <1>r DEF Divided, Init
<1>5. InOrder
  BY <1>e DEF InOrder, Init
<1>6. Reached
  BY <1>e DEF Reached, Init, InGroup
<1>7. Recorded
  BY DEF Recorded, Init, Executing
<1>8. Executed
  BY DEF Executed, Init, Executing
<1>9. DependenciesFirst
  BY DEF DependenciesFirst, Init, Started
<1>10. ReportsWhatHappened
  BY DEF ReportsWhatHappened, Init
<1>11. QED
  BY <1>1, <1>2, <1>3, <1>4, <1>5, <1>6, <1>7, <1>8, <1>9, <1>10 DEF PlanInv

-----------------------------------------------------------------------------
(* Sorting.                                                                 *)

\* A step of the sorting that leaves the sort sound keeps the rest.
LEMMA SortKeeps ==
  ASSUME PlanInv, pc = "sort",
         UNCHANGED <<inputs, grouping, control, task, status, outcome>>,
         stack' \in Seq([name : AllNames, todo : SUBSET AllNames]),
         order' \in Seq(AllNames), visited' \subseteq AllNames, Sound'
  PROVE  PlanInv'
<1> USE DEF PlanInv
<1>u. /\ deps' = deps /\ safe' = safe /\ parallel' = parallel /\ remaining' = remaining /\ groups' = groups
      /\ pc' = pc /\ current' = current /\ at' = at /\ task' = task /\ status' = status
      /\ plan' = plan /\ last' = last /\ result' = result
  BY DEF inputs, grouping, control, outcome
<1>r. remaining = <<>> /\ groups = <<>> /\ Range(remaining) = {}
  BY EmptyRange DEF Divided
<1>1. TypeOK'
  <2>1. order' \in [1 .. Len(order') -> Names \cup Unknown]
    BY DEF AllNames
  <2>2. QED
    BY <1>u, <1>r, <2>1 DEF TypeOK, Sound, AllNames
<1>2. PlanTypes'
  BY <1>u DEF PlanTypes, Answers, ApiCall
<1>4. Divided'
  <2>1. Grouped' = Grouped
    BY <1>u DEF Grouped
  <2>2. QED
    BY <1>u, <1>r, <2>1 DEF Divided
<1>5. InOrder'
  BY <1>u DEF InOrder, WellFormed
<1>6. Reached'
  BY <1>u DEF Reached, ApiCall
<1>7. Recorded'
  BY <1>u DEF Recorded
<1>8. Executed'
  BY <1>u DEF Executed, Executing
<1>9. DependenciesFirst'
  BY <1>u DEF DependenciesFirst, WellFormed, Started
<1>10. ReportsWhatHappened'
  BY <1>u DEF ReportsWhatHappened
<1>11. QED
  BY <1>1, <1>2, <1>4, <1>5, <1>6, <1>7, <1>8, <1>9, <1>10

\* A name that is called was neither sorted nor on the stack.
LEMMA VisitSound ==
  ASSUME PlanInv, NEW calls \in Seq([name : AllNames, todo : SUBSET AllNames]), NEW n \in AllNames,
         Len(calls) = Len(stack), \A i \in DOMAIN stack : calls[i].name = stack[i].name
  PROVE  LET new == Visit(calls, n) IN
         /\ new \in Seq([name : AllNames, todo : SUBSET AllNames])
         /\ \A i \in DOMAIN new : new[i].name \notin visited
         /\ \A i, j \in DOMAIN new : new[i].name = new[j].name => i = j
<1> DEFINE Calls == [name : AllNames, todo : SUBSET AllNames]
           call == Call(n)
           t == Append(calls, call)
<1>d. stack \in Seq(Calls) /\ calls \in Seq(Calls) /\ DOMAIN stack = DOMAIN calls /\ Len(calls) \in Nat /\ DOMAIN calls = 1 .. Len(calls)
  BY DEF PlanInv, PlanTypes
<1>s. /\ \A i \in DOMAIN calls : calls[i].name \notin visited
      /\ \A i, j \in DOMAIN calls : calls[i].name = calls[j].name => i = j
  BY <1>d DEF PlanInv, Sound
<1>c. call \in Calls /\ call.name = n
  BY DEF Call, PlanInv, PlanTypes
<1>1. CASE n \in visited \cup Visiting
  BY <1>1, <1>s DEF Visit
<1>2. CASE n \notin visited \cup Visiting
  <2>1. Visit(calls, n) = t
    BY <1>2 DEF Visit
  <2>2. /\ t \in Seq(Calls) /\ Len(t) = Len(calls) + 1 /\ t[Len(calls) + 1] = call
        /\ \A i \in 1 .. Len(calls) : t[i] = calls[i]
    <3> HIDE DEF call, Calls
    <3>1. QED
      BY <1>c, <1>d, AppendProperties
  <2>3. \A i \in DOMAIN calls : calls[i].name # n
    BY <1>2, <1>d DEF Visiting
  <2>4. DOMAIN t = 1 .. (Len(calls) + 1)
    BY <2>2
  <2>5. \A i \in DOMAIN t : t[i].name = IF i = Len(calls) + 1 THEN n ELSE calls[i].name
    <3> HIDE DEF t, call
    <3>1. QED
      BY <2>2, <2>4, <1>c, <1>d
  <2>6. QED
    <3> HIDE DEF t
    <3>1. \A i \in DOMAIN t : t[i].name \notin visited
      BY <1>s, <1>2, <1>d, <2>4, <2>5
    <3>2. ASSUME NEW i \in DOMAIN t, NEW j \in DOMAIN t, t[i].name = t[j].name PROVE i = j
      BY <1>s, <1>d, <2>3, <2>4, <2>5, <3>2
    <3>3. QED
      BY <2>1, <2>2, <3>1, <3>2
<1>3. QED
  BY <1>1, <1>2

\* A key that has not been visited is called.
LEMMA SortTopInv == PlanInv /\ SortTop => PlanInv'
<1> SUFFICES ASSUME PlanInv, SortTop PROVE PlanInv'
  OBVIOUS
<1> DEFINE Calls == [name : AllNames, todo : SUBSET AllNames]
<1>1. PICK i \in DOMAIN Specs : stack' = Visit(<<>>, Specs[i])
  BY DEF SortTop
<1>2. Specs[i] \in AllNames
  BY PlanAssumption DEF AllNames
<1>3. /\ stack = <<>> /\ <<>> \in Seq(Calls) /\ Len(<<>>) = Len(stack)
      /\ \A j \in DOMAIN stack : <<>>[j].name = stack[j].name
  BY DEF SortTop
<1>4. /\ stack' \in Seq(Calls)
      /\ \A j \in DOMAIN stack' : stack'[j].name \notin visited
      /\ \A j, k \in DOMAIN stack' : stack'[j].name = stack'[k].name => j = k
  BY <1>1, <1>2, <1>3, VisitSound
<1>5. visited' = visited /\ order' = order
  BY DEF SortTop
<1>6. Sound' /\ order' \in Seq(AllNames) /\ visited' \subseteq AllNames
  BY <1>4, <1>5 DEF Sound, PlanInv, PlanTypes, TypeOK, AllNames
<1>7. QED
  BY <1>4, <1>6, SortKeeps DEF SortTop

\* So is a dependency of the topmost call.
LEMMA SortDependencyInv == PlanInv /\ SortDependency => PlanInv'
<1> SUFFICES ASSUME PlanInv, SortDependency PROVE PlanInv'
  OBVIOUS
<1> DEFINE Calls == [name : AllNames, todo : SUBSET AllNames]
<1>s. stack \in Seq(Calls) /\ stack # <<>>
  BY DEF PlanInv, PlanTypes, SortDependency
<1>n. Len(stack) \in DOMAIN stack /\ stack[Len(stack)] \in Calls
  <2> HIDE DEF Calls
  <2>1. QED
    BY <1>s, EmptySeq
<1>1. PICK d \in stack[Len(stack)].todo :
        stack' = Visit([stack EXCEPT ![Len(stack)].todo = @ \ {d}], d)
  BY DEF SortDependency
<1> DEFINE calls == [stack EXCEPT ![Len(stack)].todo = @ \ {d}]
<1>2. d \in AllNames
  BY <1>n, <1>1
<1>3. /\ calls \in Seq(Calls) /\ Len(calls) = Len(stack)
      /\ \A j \in DOMAIN stack : calls[j].name = stack[j].name
  <2>1. [stack[Len(stack)] EXCEPT !.todo = @ \ {d}] \in Calls
    BY <1>n
  <2> DEFINE top == [stack[Len(stack)] EXCEPT !.todo = @ \ {d}]
  <2>2. calls = [stack EXCEPT ![Len(stack)] = top] /\ top.name = stack[Len(stack)].name
    BY <1>n
  <2>3. /\ Len(stack) \in 1 .. Len(stack) /\ DOMAIN stack = 1 .. Len(stack)
    BY <1>s, <1>n
  <2> HIDE DEF Calls, calls, top
  <2>4. /\ calls \in Seq(Calls) /\ Len(calls) = Len(stack)
        /\ \A j \in 1 .. Len(stack) : calls[j] = IF j = Len(stack) THEN top ELSE stack[j]
    BY <1>s, <2>1, <2>2, <2>3, ExceptSeq DEF top
  <2>5. QED
    BY <2>2, <2>3, <2>4
<1>4. /\ stack' \in Seq(Calls)
      /\ \A j \in DOMAIN stack' : stack'[j].name \notin visited
      /\ \A j, k \in DOMAIN stack' : stack'[j].name = stack'[k].name => j = k
  <2> HIDE DEF calls
  <2>1. stack' = Visit(calls, d)
    BY <1>1 DEF calls
  <2>2. QED
    BY <2>1, <1>2, <1>3, VisitSound
<1>5. visited' = visited /\ order' = order
  BY DEF SortDependency
<1>6. Sound' /\ order' \in Seq(AllNames) /\ visited' \subseteq AllNames
  BY <1>4, <1>5 DEF Sound, PlanInv, PlanTypes, TypeOK, AllNames
<1>7. QED
  BY <1>4, <1>6, SortKeeps DEF SortDependency

\* The name that is done was on the stack and is not sorted yet.
LEMMA SortReturnInv == PlanInv /\ SortReturn => PlanInv'
<1> SUFFICES ASSUME PlanInv, SortReturn PROVE PlanInv'
  OBVIOUS
<1> DEFINE Calls == [name : AllNames, todo : SUBSET AllNames]
           n == stack[Len(stack)].name
<1>s. stack \in Seq(Calls) /\ stack # <<>> /\ order \in Seq(AllNames)
  BY DEF PlanInv, PlanTypes, SortReturn
<1>n. Len(stack) \in DOMAIN stack /\ Len(stack) \in Nat /\ Len(stack) > 0 /\ n \in AllNames
  <2>1. Len(stack) \in DOMAIN stack /\ Len(stack) \in Nat /\ Len(stack) > 0
    <3> HIDE DEF Calls
    <3>1. QED
      BY <1>s, EmptySeq
  <2>2. stack[Len(stack)] \in Calls
    <3> HIDE DEF Calls
    <3>1. QED
      BY <1>s, <2>1, ElementOfSeq
  <2>3. QED
    BY <2>1, <2>2
<1>1. /\ IsInjective(order) /\ Range(order) = visited /\ n \notin visited
      /\ \A i \in DOMAIN stack : stack[i].name \notin visited
      /\ \A i, j \in DOMAIN stack : stack[i].name = stack[j].name => i = j
  BY <1>n DEF PlanInv, Sound
<1>2. /\ visited' = visited \cup {n} /\ order' = Append(order, n)
      /\ stack' = SubSeq(stack, 1, Len(stack) - 1)
  BY DEF SortReturn
<1>3. /\ stack' \in Seq(Calls) /\ Len(stack') = Len(stack) - 1 /\ DOMAIN stack' = 1 .. (Len(stack) - 1)
      /\ \A i \in DOMAIN stack' : stack'[i] = stack[i]
  <2>1. /\ Len(stack) - 1 \in Int /\ 1 \in Int
        /\ \A i \in 1 .. (Len(stack) - 1) : stack[i] \in Calls
    <3>1. \A i \in 1 .. (Len(stack) - 1) : i \in 1 .. Len(stack)
      BY <1>n
    <3> HIDE DEF Calls
    <3>2. QED
      BY <1>s, <1>n, <3>1, ElementOfSeq
  <2> HIDE DEF Calls
  <2>2. /\ stack' \in Seq(Calls)
        /\ Len(stack') = IF 1 <= Len(stack) - 1 THEN (Len(stack) - 1) - 1 + 1 ELSE 0
        /\ \A i \in 1 .. (Len(stack) - 1) - 1 + 1 : stack'[i] = stack[1 + i - 1]
    BY <1>2, <2>1, SubSeqProperties
  <2>3. Len(stack') = Len(stack) - 1 /\ DOMAIN stack' = 1 .. (Len(stack) - 1)
    <3>1. Len(stack') = Len(stack) - 1
      <4>1. /\ Len(stack) \in Nat /\ Len(stack) > 0
            /\ Len(stack') = IF 1 <= Len(stack) - 1 THEN (Len(stack) - 1) - 1 + 1 ELSE 0
        BY <1>n, <2>2
      <4>2. ASSUME NEW k \in Nat, k > 0
            PROVE  (IF 1 <= k - 1 THEN (k - 1) - 1 + 1 ELSE 0) = k - 1
        BY <4>2
      <4>3. QED
        BY <4>1, <4>2
    <3>2. QED
      BY <2>2, <3>1, LenProperties
  <2>4. \A i \in 1 .. (Len(stack) - 1) : i \in 1 .. (Len(stack) - 1) - 1 + 1 /\ 1 + i - 1 = i
    BY <1>n
  <2>5. QED
    BY <2>2, <2>3, <2>4
<1>4. /\ \A i \in DOMAIN stack' : i \in DOMAIN stack /\ i # Len(stack)
  BY <1>s, <1>3
<1>5. order' \in Seq(AllNames) /\ Range(order') = visited' /\ IsInjective(order')
  <2> HIDE DEF n
  <2>1. QED
    BY <1>s, <1>n, <1>1, <1>2, AppendRange, AppendOnce
<1>6. \A i \in DOMAIN stack' : stack'[i].name \notin visited'
  BY <1>1, <1>2, <1>3, <1>4, <1>n
<1>7. \A i, j \in DOMAIN stack' : stack'[i].name = stack'[j].name => i = j
  BY <1>1, <1>3, <1>4
<1>8. Sound' /\ visited' \subseteq AllNames
  BY <1>5, <1>6, <1>7, <1>n, <1>2 DEF Sound, PlanInv, TypeOK, AllNames
<1>9. QED
  BY <1>3, <1>5, <1>8, SortKeeps DEF SortReturn

\* What has been sorted is divided: every sub-task is among it.
LEMMA SortedInv == PlanInv /\ Sorted => PlanInv'
<1> SUFFICES ASSUME PlanInv, Sorted PROVE PlanInv'
  OBVIOUS
<1> USE DEF PlanInv
<1>u. /\ deps' = deps /\ safe' = safe /\ parallel' = parallel /\ groups' = groups
      /\ visited' = visited /\ order' = order /\ stack' = stack
      /\ current' = current /\ at' = at /\ task' = task /\ status' = status
      /\ plan' = plan /\ last' = last /\ result' = result
      /\ pc = "sort" /\ pc' = "group" /\ remaining' = order /\ Names \subseteq visited
  BY DEF Sorted, inputs, sorting, outcome
<1>r. groups = <<>> /\ Grouped = {}
  BY <1>u DEF Divided, Grouped
<1>g. Grouped' = {}
  BY <1>u, <1>r DEF Grouped
<1>1. TypeOK'
  BY <1>u DEF TypeOK
<1>2. PlanTypes'
  BY <1>u DEF PlanTypes, Answers, ApiCall, Labels
<1>3. Sound'
  BY <1>u DEF Sound
<1>4. Divided'
  BY <1>u, <1>r, <1>g DEF Divided, Sound
<1>5. InOrder'
  BY <1>u DEF InOrder, WellFormed
<1>6. Reached'
  BY <1>u DEF Reached, InGroup
<1>7. Recorded'
  BY <1>u DEF Recorded, Executing
<1>8. Executed'
  BY <1>u DEF Executed, Executing
<1>9. DependenciesFirst'
  BY <1>u DEF DependenciesFirst, WellFormed, Started
<1>10. ReportsWhatHappened'
  BY <1>u DEF ReportsWhatHappened
<1>11. QED
  BY <1>1, <1>2, <1>3, <1>4, <1>5, <1>6, <1>7, <1>8, <1>9, <1>10

\* Every step of the sorting.
LEMMA SortInv == PlanInv /\ Sort => PlanInv'
BY SortTopInv, SortDependencyInv, SortReturnInv, SortedInv DEF Sort

-----------------------------------------------------------------------------
(* Dividing.                                                                *)

\* One more group.
LEMMA GroupAdded ==
  ASSUME NEW gs \in Seq(Seq(Names)), NEW g \in Seq(Names)
  PROVE  LET t == Append(gs, g) IN
         /\ t \in Seq(Seq(Names)) /\ Len(t) = Len(gs) + 1
         /\ DOMAIN t = DOMAIN gs \cup {Len(gs) + 1} /\ Len(gs) + 1 \notin DOMAIN gs
         /\ t[Len(gs) + 1] = g /\ \A h \in DOMAIN gs : t[h] = gs[h]
<1> DEFINE t == Append(gs, g)
<1>1. /\ t \in Seq(Seq(Names)) /\ Len(t) = Len(gs) + 1 /\ t[Len(gs) + 1] = g
      /\ \A h \in 1 .. Len(gs) : t[h] = gs[h]
  BY AppendProperties
<1>2. DOMAIN gs = 1 .. Len(gs) /\ Len(gs) \in Nat /\ DOMAIN t = 1 .. Len(t)
  BY <1>1, LenProperties
<1> HIDE DEF t
<1>3. DOMAIN t = DOMAIN gs \cup {Len(gs) + 1} /\ Len(gs) + 1 \notin DOMAIN gs
  <2>1. \A k \in Nat : 1 .. (k + 1) = (1 .. k) \cup {k + 1} /\ k + 1 \notin 1 .. k
    OBVIOUS
  <2>2. DOMAIN t = 1 .. (Len(gs) + 1)
    BY <1>1, <1>2
  <2>3. QED
    BY <1>2, <2>1, <2>2
<1>4. QED
  BY <1>1, <1>2, <1>3 DEF t

\* A group taken from what remains, without what is in an earlier one, keeps
\* the invariant when the dependencies of its members are in earlier groups.
LEMMA DivideKeeps ==
  ASSUME PlanInv, pc = "group", UNCHANGED <<inputs, sorting, control, task, status, outcome>>,
         NEW g \in Seq(Names), groups' = Append(groups, g), IsInjective(g),
         Range(g) \subseteq Range(remaining),
         remaining' \in Seq(AllNames), IsInjective(remaining'),
         Range(remaining') \subseteq Range(remaining), Range(remaining') \cap Range(g) = {},
         Names \cap Range(remaining) \subseteq Range(g) \cup Range(remaining'),
         WellFormed => \A n \in Range(g) : deps[n] \subseteq Grouped
  PROVE  PlanInv'
<1> USE DEF PlanInv
<1>u. /\ deps' = deps /\ safe' = safe /\ parallel' = parallel
      /\ visited' = visited /\ order' = order /\ stack' = stack /\ pc' = pc
      /\ current' = current /\ at' = at /\ task' = task /\ status' = status
      /\ plan' = plan /\ last' = last /\ result' = result
  BY DEF inputs, sorting, control, outcome
<1> DEFINE L == Len(groups) + 1
<1>a. /\ groups' \in Seq(Seq(Names)) /\ Len(groups') = L
      /\ DOMAIN groups' = DOMAIN groups \cup {L} /\ L \notin DOMAIN groups
      /\ groups'[L] = g /\ \A h \in DOMAIN groups : groups'[h] = groups[h]
  BY GroupAdded DEF PlanTypes
<1>d. DOMAIN groups = 1 .. Len(groups) /\ Len(groups) \in Nat /\ groups \in Seq(Seq(Names))
  BY LenProperties DEF PlanTypes
<1>c. current = 0
  BY DEF Reached
<1> HIDE DEF L
<1>g. Grouped' = Grouped \cup Range(g)
  <2>1. ASSUME NEW n \in Grouped' PROVE n \in Grouped \cup Range(g)
    <3>1. PICK h \in DOMAIN groups' : n \in Range(groups'[h])
      BY DEF Grouped
    <3>2. QED
      BY <1>a, <3>1 DEF Grouped
  <2>2. ASSUME NEW n \in Grouped PROVE n \in Grouped'
    <3>1. PICK h \in DOMAIN groups : n \in Range(groups[h])
      BY DEF Grouped
    <3>2. h \in DOMAIN groups' /\ n \in Range(groups'[h])
      BY <1>a, <3>1
    <3>3. QED
      BY <3>2 DEF Grouped
  <2>3. Range(g) \subseteq Grouped'
    <3>1. L \in DOMAIN groups' /\ Range(groups'[L]) = Range(g)
      BY <1>a
    <3>2. QED
      BY <3>1 DEF Grouped
  <2>4. QED
    BY <2>1, <2>2, <2>3
<1>1. TypeOK'
  <2>1. Len(groups') \in Nat
    BY <1>a, <1>d DEF L
  <2>2. current' \in 0 .. Len(groups')
    BY <1>u, <1>c, <2>1
  <2>3. QED
    BY <1>u, <2>2 DEF TypeOK
<1>2. PlanTypes'
  BY <1>u, <1>a DEF PlanTypes, Answers, ApiCall
<1>3. Sound'
  BY <1>u DEF Sound
<1>4. Divided'
  <2>1. ASSUME NEW h \in DOMAIN groups', NEW k \in DOMAIN groups',
               NEW i \in DOMAIN groups'[h], NEW j \in DOMAIN groups'[k], groups'[h][i] = groups'[k][j]
        PROVE  h = k /\ i = j
    <3>1. CASE h # L /\ k # L
      <4>1. h \in DOMAIN groups /\ k \in DOMAIN groups /\ groups'[h] = groups[h] /\ groups'[k] = groups[k]
        BY <1>a, <3>1
      <4>2. QED
        BY <2>1, <4>1 DEF Divided
    <3>2. CASE h = L /\ k = L
      BY <1>a, <2>1, <3>2 DEF IsInjective
    <3>3. CASE h = L /\ k # L
      <4>1. k \in DOMAIN groups /\ groups'[h] = g /\ groups'[k] = groups[k]
        BY <1>a, <3>3
      <4>2. groups[k][j] \in Grouped /\ g[i] \in Range(g)
        BY <4>1 DEF Grouped, Range
      <4>3. QED
        BY <2>1, <4>1, <4>2 DEF Divided
    <3>4. CASE h # L /\ k = L
      <4>1. h \in DOMAIN groups /\ groups'[k] = g /\ groups'[h] = groups[h]
        BY <1>a, <3>4
      <4>2. groups[h][i] \in Grouped /\ g[j] \in Range(g)
        BY <4>1 DEF Grouped, Range
      <4>3. QED
        BY <2>1, <4>1, <4>2 DEF Divided
    <3>5. QED
      BY <3>1, <3>2, <3>3, <3>4
  <2>2. Names \subseteq Grouped \cup Range(remaining)
    BY DEF Divided
  <2>3. Names \subseteq Grouped' \cup Range(remaining')
    BY <1>g, <2>2
  <2>4. Range(remaining') \subseteq visited' /\ Range(remaining') \cap Grouped' = {}
    BY <1>u, <1>g DEF Divided
  <2>5. QED
    BY <1>u, <2>1, <2>3, <2>4 DEF Divided
<1>5. InOrder'
  <2> SUFFICES ASSUME WellFormed', NEW h \in DOMAIN groups', NEW n \in Range(groups'[h]), NEW d \in deps'[n]
               PROVE  \E k \in DOMAIN groups' : k < h /\ d \in Range(groups'[k])
    BY DEF InOrder
  <2>w. WellFormed
    BY <1>u DEF WellFormed
  <2>1. CASE h \in DOMAIN groups
    <3>1. n \in Range(groups[h]) /\ d \in deps[n]
      BY <1>a, <1>u, <2>1
    <3>2. PICK k \in DOMAIN groups : k < h /\ d \in Range(groups[k])
      BY <2>1, <2>w, <3>1 DEF InOrder
    <3>3. QED
      BY <1>a, <3>2
  <2>2. CASE h = L
    <3>1. d \in Grouped
      BY <1>a, <1>u, <2>2, <2>w
    <3>2. PICK k \in DOMAIN groups : d \in Range(groups[k])
      BY <3>1 DEF Grouped
    <3>3. k < h
      BY <1>d, <2>2 DEF L
    <3>4. QED
      BY <1>a, <3>2, <3>3
  <2>3. QED
    BY <1>a, <2>1, <2>2
<1>6. Reached'
  <2>1. Len(groups') \in Nat
    BY <1>a, <1>d DEF L
  <2>2. QED
    BY <1>u, <1>c, <2>1 DEF Reached, InGroup
<1>7. Recorded'
  BY <1>u DEF Recorded
<1>8. Executed'
  BY <1>u DEF Executed, Executing
<1>9. DependenciesFirst'
  BY <1>u DEF DependenciesFirst, WellFormed, Started
<1>10. ReportsWhatHappened'
  BY <1>u DEF ReportsWhatHappened
<1>11. QED
  BY <1>1, <1>2, <1>3, <1>4, <1>5, <1>6, <1>7, <1>8, <1>9, <1>10

\* When the dependencies make sense, one of the sub-tasks that remain is ready.
LEMMA SomeReady ==
  ASSUME PlanInv, WellFormed, pc = "group", Range(remaining) \cap Names # {}
  PROVE  Range(remaining) \cap Ready # {}
<1> DEFINE Left == Range(remaining) \cap Names
<1>1. PICK rank \in [Names -> DOMAIN Specs] : \A n \in Names : \A d \in deps[n] : rank[d] < rank[n]
  BY DEF WellFormed
<1>2. DOMAIN Specs \subseteq Nat
  BY PlanAssumption
<1> DEFINE Ranks == {rank[n] : n \in Left}
<1>3. Ranks \in SUBSET Nat /\ Ranks # {}
  BY <1>1, <1>2
<1>4. PICK x \in Ranks : \A y \in Ranks : x <= y
  <2> HIDE DEF Ranks
  <2>1. QED
    BY <1>3, LeastExists
<1>5. PICK n \in Left : x = rank[n]
  BY DEF Ranks
<1>6. ASSUME NEW d \in deps[n] PROVE d \in Grouped
  <2>1. d \in Names
    BY <1>5 DEF WellFormed
  <2>2. rank[d] < rank[n] /\ rank[d] \in Nat /\ rank[n] \in Nat
    BY <1>1, <1>2, <1>5, <1>6, <2>1
  <2>3. d \notin Left
    BY <1>4, <1>5, <2>2
  <2>4. QED
    BY <2>1, <2>3 DEF PlanInv, Divided
<1>7. QED
  BY <1>5, <1>6 DEF Ready

LEMMA FormGroupInv == PlanInv /\ FormGroup => PlanInv'
<1> SUFFICES ASSUME PlanInv, FormGroup PROVE PlanInv'
  OBVIOUS
<1> DEFINE ready   == KeepOnly(remaining, Ready)
           waiting == KeepOnly(remaining, Waiting)
<1>r. remaining \in Seq(AllNames) /\ IsInjective(remaining)
  BY DEF PlanInv, PlanTypes, Divided
<1>s. Ready \subseteq Names /\ Waiting \subseteq Names /\ Ready \cap Waiting = {} /\ Names = Ready \cup Waiting
  BY DEF Ready, Waiting
<1>1. /\ ready \in Seq(AllNames) /\ Range(ready) = Range(remaining) \cap Ready
      /\ waiting \in Seq(AllNames) /\ Range(waiting) = Range(remaining) \cap Waiting
  BY <1>r, KeepRange
<1>2. IsInjective(ready) /\ IsInjective(waiting)
  BY <1>r, KeepOnce
<1>3. ready \in Seq(Names) /\ waiting \in Seq(Names)
  <2>1. ASSUME NEW s \in Seq(AllNames), Range(s) \subseteq Names PROVE s \in Seq(Names)
    <3>1. s \in [1 .. Len(s) -> AllNames] /\ Len(s) \in Nat /\ DOMAIN s = 1 .. Len(s)
      BY LenProperties
    <3>2. s \in [1 .. Len(s) -> Names]
      BY <2>1, <3>1 DEF Range
    <3>3. QED
      BY <3>1, <3>2
  <2> HIDE DEF ready, waiting
  <2>2. QED
    BY <1>1, <1>s, <2>1
<1>4. /\ pc = "group"
      /\ UNCHANGED <<inputs, sorting, control, task, status, outcome>>
  BY DEF FormGroup
<1>5. IF ready # <<>>
      THEN groups' = Append(groups, ready) /\ remaining' = waiting
      ELSE groups' = Append(groups, waiting) /\ remaining' = <<>>
  BY DEF FormGroup
<1>6. CASE ready # <<>>
  <2>1. groups' = Append(groups, ready) /\ remaining' = waiting
    BY <1>5, <1>6
  <2>2. \A n \in Range(ready) : deps[n] \subseteq Grouped
    BY <1>1 DEF Ready
  <2> HIDE DEF ready, waiting
  <2>3. /\ Range(ready) \subseteq Range(remaining) /\ Range(remaining') \subseteq Range(remaining)
        /\ Range(remaining') \cap Range(ready) = {}
        /\ Names \cap Range(remaining) \subseteq Range(ready) \cup Range(remaining')
    BY <1>1, <1>s, <2>1
  <2>4. QED
    BY <1>1, <1>2, <1>3, <1>4, <2>1, <2>2, <2>3, DivideKeeps
<1>7. CASE ready = <<>>
  <2>1. groups' = Append(groups, waiting) /\ remaining' = <<>>
    BY <1>5, <1>7
  <2>2. Range(remaining) \cap Ready = {}
    BY <1>1, <1>7, EmptyRange
  <2>3. WellFormed => Range(waiting) = {}
    BY <1>1, <1>4, <1>s, <2>2, SomeReady
  <2>4. <<>> \in Seq(AllNames) /\ IsInjective(<<>>) /\ Range(<<>>) = {}
    BY EmptyRange DEF IsInjective
  <2> HIDE DEF ready, waiting
  <2>5. /\ Range(waiting) \subseteq Range(remaining) /\ Range(remaining') \subseteq Range(remaining)
        /\ Range(remaining') \cap Range(waiting) = {}
        /\ Names \cap Range(remaining) \subseteq Range(waiting) \cup Range(remaining')
    BY <1>1, <1>s, <2>1, <2>2, <2>4
  <2>6. QED
    BY <1>2, <1>3, <1>4, <2>1, <2>3, <2>4, <2>5, DivideKeeps
<1>8. QED
  BY <1>6, <1>7

\* The places of the groups hold sub-tasks, and each sub-task has one.
LEMMA Places ==
  ASSUME PlanInv
  PROVE  /\ \A g \in DOMAIN groups : \A i \in DOMAIN groups[g] : groups[g][i] \in Names
         /\ \A g \in DOMAIN groups : g \in Nat /\ g > 0 /\ g <= Len(groups)
         /\ \A g \in 1 .. Len(groups) : g \in DOMAIN groups
         /\ Len(groups) \in Nat
         /\ \A g \in DOMAIN groups : Len(groups[g]) \in Nat /\ DOMAIN groups[g] = 1 .. Len(groups[g])
         /\ pc \notin {"sort", "group"} =>
              \A n \in Names : \E g \in DOMAIN groups : \E i \in DOMAIN groups[g] : n = groups[g][i]
<1>1. groups \in Seq(Seq(Names)) /\ DOMAIN groups = 1 .. Len(groups) /\ Len(groups) \in Nat
  BY LenProperties DEF PlanInv, PlanTypes
<1>2. \A g \in DOMAIN groups : groups[g] \in Seq(Names)
  BY <1>1
<1>3. \A g \in DOMAIN groups : /\ Len(groups[g]) \in Nat /\ DOMAIN groups[g] = 1 .. Len(groups[g])
                               /\ \A i \in DOMAIN groups[g] : groups[g][i] \in Names
  BY <1>2
<1>4. ASSUME pc \notin {"sort", "group"}, NEW n \in Names
      PROVE  \E g \in DOMAIN groups : \E i \in DOMAIN groups[g] : n = groups[g][i]
  <2>1. n \in Grouped
    BY <1>4, EmptyRange DEF PlanInv, Divided
  <2>2. PICK g \in DOMAIN groups : n \in Range(groups[g])
    BY <2>1 DEF Grouped
  <2>3. QED
    BY <2>2 DEF Range
<1>5. QED
  BY <1>1, <1>3, <1>4

\* The records are made: nothing has been started.
LEMMA BeginInv == PlanInv /\ Begin => PlanInv'
<1> SUFFICES ASSUME PlanInv, Begin PROVE PlanInv'
  OBVIOUS
<1> USE DEF PlanInv
<1>u. /\ deps' = deps /\ safe' = safe /\ parallel' = parallel /\ groups' = groups
      /\ visited' = visited /\ order' = order /\ stack' = stack /\ remaining' = remaining
      /\ current' = current /\ at' = at /\ task' = task
      /\ last' = last /\ result' = result
      /\ pc = "group" /\ pc' = "next" /\ remaining = <<>> /\ plan' = "Running"
      /\ status' = [n \in Names |-> "Pending"]
  BY DEF Begin, inputs, sorting, grouping
<1>n. current = 0 /\ \A n \in Names : task[n] = "none" /\ status[n] = "none"
  BY <1>u DEF Reached, Recorded
<1>1. TypeOK'
  BY <1>u DEF TypeOK, Statuses
<1>2. PlanTypes'
  BY <1>u DEF PlanTypes, Answers, ApiCall, Labels
<1>3. Sound'
  BY <1>u DEF Sound
<1>4. Divided'
  <2>1. Grouped' = Grouped
    BY <1>u DEF Grouped
  <2>2. QED
    BY <1>u, <2>1 DEF Divided
<1>5. InOrder'
  BY <1>u DEF InOrder, WellFormed
<1>6. Reached'
  BY <1>u DEF Reached, InGroup
<1>7. Recorded'
  BY <1>u, <1>n DEF Recorded, Executing
<1>8. Executed'
  <2>1. ASSUME NEW g \in DOMAIN groups, NEW i \in DOMAIN groups[g]
        PROVE  g \in Nat /\ g > 0 /\ groups[g][i] \in Names
    BY Places
  <2>2. \A n \in Names : Fresh(n)'
    BY <1>u, <1>n DEF Fresh
  <2>3. QED
    BY <1>u, <1>n, <2>1, <2>2 DEF Executed, Stands, Fresh
<1>9. DependenciesFirst'
  BY <1>u, <1>n DEF DependenciesFirst, Started
<1>10. ReportsWhatHappened'
  BY <1>u, <1>n DEF ReportsWhatHappened, Recorded
<1>11. QED
  BY <1>1, <1>2, <1>3, <1>4, <1>5, <1>6, <1>7, <1>8, <1>9, <1>10

-----------------------------------------------------------------------------
(* Executing.                                                               *)

\* The execution changes neither the order nor the groups.
LEMMA ExecutionKeeps ==
  ASSUME PlanInv, UNCHANGED <<inputs, sorting, grouping>>,
         pc \notin {"sort", "group"}, pc' \notin {"sort", "group"}
  PROVE  Sound' /\ Divided' /\ InOrder' /\ WellFormed' = WellFormed
<1> USE DEF PlanInv
<1>u. /\ deps' = deps /\ groups' = groups
      /\ visited' = visited /\ order' = order /\ stack' = stack /\ remaining' = remaining
  BY DEF inputs, sorting, grouping
<1>1. Sound'
  BY <1>u DEF Sound
<1>2. Divided'
  <2>1. Grouped' = Grouped
    BY <1>u DEF Grouped
  <2>2. QED
    BY <1>u, <2>1 DEF Divided
<1>3. WellFormed' = WellFormed
  BY <1>u DEF WellFormed
<1>4. InOrder'
  BY <1>u, <1>3 DEF InOrder
<1>5. QED
  BY <1>1, <1>2, <1>3, <1>4

\* The sub-task at the place the thread has reached is at no other.
LEMMA ThisPlace ==
  ASSUME PlanInv, pc \in InGroup
  PROVE  /\ current \in DOMAIN groups /\ at \in 1 .. Len(Group) /\ Len(Group) \in Nat
         /\ Group[at] \in Names
         /\ \A g \in DOMAIN groups : \A i \in DOMAIN groups[g] :
              g # current \/ i # at => groups[g][i] # Group[at]
<1>1. current \in DOMAIN groups /\ at \in DOMAIN groups[current]
  BY DEF PlanInv, Reached
<1>2. \A g \in DOMAIN groups : \A i \in DOMAIN groups[g] :
        groups[g][i] = groups[current][at] => g = current /\ i = at
  BY <1>1 DEF PlanInv, Divided
<1>3. QED
  BY <1>1, <1>2, Places DEF Group

\* As long as nothing starts, a completed sub-task remains so and a block is
\* not forgotten, what has been started was started in order.
LEMMA NothingStarts ==
  ASSUME PlanInv, deps' = deps, WellFormed' = WellFormed,
         \A n \in Names : Started(n)' => Started(n),
         \A n \in Names : status[n] = "Completed" => status'[n] = "Completed",
         \A n \in Names : Blocked(n) => Blocked(n)'
  PROVE  DependenciesFirst'
<1> SUFFICES ASSUME WellFormed, \A n \in Names : status'[n] = "Completed" => task'[n] # "blocked",
                    NEW n \in Names, Started(n)', NEW d \in deps[n]
             PROVE  status'[d] = "Completed"
  BY DEF DependenciesFirst
<1>1. \A m \in Names : status[m] = "Completed" => task[m] # "blocked"
  BY DEF Blocked
<1>2. d \in Names
  BY DEF WellFormed
<1>3. QED
  BY <1>1, <1>2 DEF PlanInv, DependenciesFirst

\* When no sub-task has been blocked, all that the one at this place depends on
\* has been completed.
LEMMA DependenciesDone ==
  ASSUME PlanInv, pc \in InGroup, WellFormed, \A m \in Names : ~Blocked(m),
         NEW d \in deps[Group[at]]
  PROVE  d \in Names /\ status[d] = "Completed"
<1>1. Group[at] \in Range(groups[current]) /\ current \in DOMAIN groups /\ Group[at] \in Names
  BY ThisPlace, Places DEF Range, Group
<1>2. PICK h \in DOMAIN groups : h < current /\ d \in Range(groups[h])
  BY <1>1 DEF PlanInv, InOrder
<1>3. PICK i \in DOMAIN groups[h] : d = groups[h][i]
  BY <1>2 DEF Range
<1>4. Past(d)
  BY <1>2, <1>3 DEF PlanInv, Executed, Stands, InGroup, Executing
<1>5. d \in Names
  BY <1>1 DEF WellFormed
<1>6. QED
  BY <1>4, <1>5 DEF Past, Good

\* What happens to one sub-task leaves the others as they stand.
LEMMA OthersStand ==
  ASSUME PlanInv, NEW n \in Names, ~Blocked(n),
         \A m \in Names \ {n} : task'[m] = task[m] /\ status'[m] = status[m]
  PROVE  \A m \in Names \ {n} : /\ Fresh(m) => Fresh(m)'
                                /\ Taken(m) => Taken(m)'
                                /\ Good(m) => Good(m)'
                                /\ Past(m) => Past(m)'
<1>1. \A m \in Names : Blocked(m) => Blocked(m)'
  BY DEF Blocked
<1>2. \A m \in Names \ {n} : /\ Fresh(m) => Fresh(m)'
                             /\ Taken(m) => Taken(m)'
                             /\ Good(m) => Good(m)'
  BY DEF Fresh, Taken, Good
<1>3. \A m \in Names \ {n} : Past(m) => Past(m)'
  BY <1>1, <1>2 DEF Past
<1>4. QED
  BY <1>2, <1>3

\* The next group has not been touched; the thread is past the one before.
LEMMA NextGroupInv == PlanInv /\ NextGroup => PlanInv'
<1> SUFFICES ASSUME PlanInv, NextGroup PROVE PlanInv'
  OBVIOUS
<1> USE DEF PlanInv
<1>u. /\ deps' = deps /\ safe' = safe /\ parallel' = parallel /\ groups' = groups
      /\ visited' = visited /\ order' = order /\ stack' = stack /\ remaining' = remaining
      /\ task' = task /\ status' = status /\ plan' = plan /\ last' = last /\ result' = result
      /\ pc = "next" /\ current < Len(groups) /\ current' = current + 1 /\ at' = 1
      /\ UNCHANGED <<inputs, sorting, grouping>>
  BY DEF NextGroup, inputs, sorting, grouping, outcome
<1>c. current \in Nat /\ current' \in DOMAIN groups /\ current' <= Len(groups)
  BY <1>u, Places DEF PlanTypes
<1>p. /\ pc' \in {"next", "submit", "serial"}
      /\ pc' = "next" => groups[current'] = <<>>
      /\ pc' # "next" => groups[current'] # <<>>
      /\ pc' = "submit" => \A n \in Range(groups[current']) : ~ApiCall(n)
  BY <1>u DEF NextGroup, InParallel
<1>k. Sound' /\ Divided' /\ InOrder' /\ WellFormed' = WellFormed
  <2>1. pc \notin {"sort", "group"} /\ pc' \notin {"sort", "group"}
    BY <1>u, <1>p
  <2>2. QED
    BY <1>u, <2>1, ExecutionKeeps
<1>1. TypeOK'
  BY <1>u, <1>c, Places DEF TypeOK
<1>2. PlanTypes'
  BY <1>u, <1>p DEF PlanTypes, Answers, ApiCall, Labels
<1>3. Reached'
  <2>1. groups[current'] # <<>> => 1 \in DOMAIN groups[current']
    <3>1. groups[current'] \in Seq(Names)
      BY <1>c DEF PlanTypes
    <3>2. QED
      BY <3>1, EmptySeq
  <2>2. QED
    BY <1>u, <1>c, <1>p, <2>1 DEF Reached, InGroup, ApiCall
<1>4. Recorded'
  BY <1>u, <1>p DEF Recorded, Executing
<1>5. Executed'
  <2> SUFFICES ASSUME NEW g \in DOMAIN groups, NEW i \in DOMAIN groups[g] PROVE Stands(g, i)'
    BY <1>u DEF Executed
  <2>1. Stands(g, i) /\ g \in Nat /\ i \in Nat /\ i >= 1
    BY <1>u, Places DEF Executed, Executing
  <2>2. CASE g < current'
    <3>1. Past(groups[g][i]) /\ ~(g > current') /\ g # current'
      BY <1>u, <1>c, <2>1, <2>2 DEF Stands
    <3>2. Past(groups[g][i])'
      BY <1>u, <3>1 DEF Past, Good, Blocked, Fresh
    <3>3. QED
      BY <3>1, <3>2 DEF Stands
  <2>3. CASE g >= current'
    <3>1. Fresh(groups[g][i]) /\ ~(g < current')
      BY <1>u, <1>c, <2>1, <2>3 DEF Stands
    <3>2. Fresh(groups[g][i])'
      BY <1>u, <3>1 DEF Fresh
    <3>3. g = current' => pc' \in {"submit", "serial"} /\ ~(i < at')
      BY <1>u, <1>p, <2>1
    <3>4. QED
      BY <3>1, <3>2, <3>3 DEF Stands
  <2>4. QED
    BY <1>c, <1>u, <2>1, <2>2, <2>3
<1>6. DependenciesFirst'
  BY <1>u, <1>k, NothingStarts DEF Started, Blocked
<1>7. ReportsWhatHappened'
  BY <1>u DEF ReportsWhatHappened
<1>8. QED
  BY <1>k, <1>1, <1>2, <1>3, <1>4, <1>5, <1>6, <1>7

\* What a member of a group depends on has been completed when it starts.
LEMMA StartsInOrder ==
  ASSUME PlanInv, pc \in InGroup, Group[at] \in Names, Fresh(Group[at]), deps' = deps, WellFormed' = WellFormed,
         \A m \in Names \ {Group[at]} : task'[m] = task[m] /\ status'[m] = status[m]
  PROVE  DependenciesFirst'
<1> DEFINE n == Group[at]
<1> SUFFICES ASSUME WellFormed, \A m \in Names : status'[m] = "Completed" => task'[m] # "blocked",
                    NEW k \in Names, Started(k)', NEW d \in deps[k]
             PROVE  status'[d] = "Completed"
  BY DEF DependenciesFirst
<1>1. \A m \in Names : status[m] = "Completed" => m # n /\ task[m] # "blocked"
  BY DEF Fresh
<1>2. d \in Names /\ status[d] = "Completed"
  <2>1. CASE k = n
    BY <1>1, <2>1, DependenciesDone DEF Blocked
  <2>2. CASE k # n
    BY <1>1, <2>2 DEF PlanInv, DependenciesFirst, Started, WellFormed
  <2>3. QED
    BY <2>1, <2>2
<1>3. QED
  BY <1>1, <1>2

\* A member of a serial group starts: what it depends on has been completed.
LEMMA SerialStartInv == PlanInv /\ SerialStart => PlanInv'
<1> SUFFICES ASSUME PlanInv, SerialStart PROVE PlanInv'
  OBVIOUS
<1> USE DEF PlanInv
<1> DEFINE n == Group[at]
<1>u. /\ deps' = deps /\ safe' = safe /\ parallel' = parallel /\ groups' = groups
      /\ visited' = visited /\ order' = order /\ stack' = stack /\ remaining' = remaining
      /\ plan' = plan /\ last' = last /\ result' = result
      /\ pc = "serial" /\ pc' = "wait" /\ current' = current /\ at' = at
      /\ UNCHANGED <<inputs, sorting, grouping>>
      /\ status' = [status EXCEPT ![n] = "Running"] /\ task' = [task EXCEPT ![n] = "submitted"]
  BY DEF SerialStart, Start, inputs, sorting, grouping, outcome
<1>n. /\ n \in Names /\ current \in DOMAIN groups /\ at \in DOMAIN groups[current]
      /\ n = groups[current][at]
      /\ \A g \in DOMAIN groups : \A i \in DOMAIN groups[g] :
           g # current \/ i # at => groups[g][i] # n
  BY <1>u, ThisPlace DEF InGroup, Reached, Group
<1> HIDE DEF n
<1>f. Stands(current, at) /\ Fresh(n)
  BY <1>u, <1>n, Places DEF Executed, Stands, Executing
<1>o. /\ task'[n] = "submitted" /\ status'[n] = "Running"
      /\ \A m \in Names \ {n} : task'[m] = task[m] /\ status'[m] = status[m]
      /\ \A m \in Names \ {n} : /\ Fresh(m) => Fresh(m)'
                                /\ Taken(m) => Taken(m)'
                                /\ Good(m) => Good(m)'
                                /\ Past(m) => Past(m)'
  <2>1. /\ task'[n] = "submitted" /\ status'[n] = "Running"
        /\ \A m \in Names \ {n} : task'[m] = task[m] /\ status'[m] = status[m]
    BY <1>u, <1>n DEF TypeOK
  <2>2. QED
    BY <1>n, <1>f, <2>1, OthersStand DEF Fresh, Blocked
<1>k. Sound' /\ Divided' /\ InOrder' /\ WellFormed' = WellFormed
  BY <1>u, ExecutionKeeps
<1>1. TypeOK'
  BY <1>u, <1>n DEF TypeOK, Statuses
<1>2. PlanTypes'
  BY <1>u, <1>o DEF PlanTypes, Answers, ApiCall, Labels
<1>3. Reached'
  BY <1>u, <1>n DEF Reached, ApiCall
<1>4. Recorded'
  BY <1>u, <1>o DEF Recorded, Executing
<1>5. Executed'
  <2> SUFFICES ASSUME NEW g \in DOMAIN groups, NEW i \in DOMAIN groups[g] PROVE Stands(g, i)'
    BY <1>u DEF Executed
  <2>1. Stands(g, i) /\ groups[g][i] \in Names
    BY <1>u, Places DEF Executed, Executing
  <2>2. CASE g = current /\ i = at
    <3>1. Taken(groups[g][i])'
      BY <1>u, <1>n, <1>o, <2>2 DEF Taken
    <3>2. ~(g < current) /\ ~(g > current) /\ ~(i < at)
      BY <1>n, <2>2, Places
    <3>3. QED
      BY <1>u, <2>2, <3>1, <3>2 DEF Stands
  <2>3. CASE g # current \/ i # at
    <3> DEFINE m == groups[g][i]
    <3>1. m \in Names \ {n} /\ m' = m
      BY <1>n, <1>u, <2>1, <2>3
    <3>2. /\ Fresh(m) => Fresh(m)'
          /\ Good(m) => Good(m)'
          /\ Past(m) => Past(m)'
      BY <1>o, <3>1
    <3>3. QED
      BY <1>u, <2>1, <2>3, <3>2 DEF Stands
  <2>4. QED
    BY <2>2, <2>3
<1>6. DependenciesFirst'
  BY <1>u, <1>n, <1>f, <1>o, <1>k, StartsInOrder DEF n, InGroup
<1>7. ReportsWhatHappened'
  BY <1>u, <1>f, <1>o DEF ReportsWhatHappened, Recorded, Fresh, Executing
<1>8. QED
  BY <1>k, <1>1, <1>2, <1>3, <1>4, <1>5, <1>6, <1>7

\* A member of a parallel group starts before the one in front of it has ended.
LEMMA ParallelSubmitInv == PlanInv /\ ParallelSubmit => PlanInv'
<1> SUFFICES ASSUME PlanInv, ParallelSubmit PROVE PlanInv'
  OBVIOUS
<1> USE DEF PlanInv
<1> DEFINE n == Group[at]
<1>u. /\ deps' = deps /\ safe' = safe /\ parallel' = parallel /\ groups' = groups
      /\ visited' = visited /\ order' = order /\ stack' = stack /\ remaining' = remaining
      /\ plan' = plan /\ last' = last /\ result' = result
      /\ pc = "submit" /\ current' = current
      /\ UNCHANGED <<inputs, sorting, grouping>>
      /\ status' = [status EXCEPT ![n] = "Running"] /\ task' = [task EXCEPT ![n] = "submitted"]
  BY DEF ParallelSubmit, Start, inputs, sorting, grouping, outcome
<1>n. /\ n \in Names /\ current \in DOMAIN groups /\ at \in DOMAIN groups[current]
      /\ n = groups[current][at] /\ at \in 1 .. Len(Group) /\ Len(Group) \in Nat
      /\ DOMAIN groups[current] = 1 .. Len(Group)
      /\ \A g \in DOMAIN groups : \A i \in DOMAIN groups[g] :
           g # current \/ i # at => groups[g][i] # n
  BY <1>u, ThisPlace, Places DEF InGroup, Reached, Group
<1>p. \/ at < Len(Group) /\ at' = at + 1 /\ pc' = "submit"
      \/ at = Len(Group) /\ at' = 1 /\ pc' = "collect"
  BY <1>u, <1>n DEF ParallelSubmit
<1> HIDE DEF n
<1>f. Stands(current, at) /\ Fresh(n)
  BY <1>u, <1>n, Places DEF Executed, Stands, Executing
<1>o. /\ task'[n] = "submitted" /\ status'[n] = "Running"
      /\ \A m \in Names \ {n} : task'[m] = task[m] /\ status'[m] = status[m]
      /\ \A m \in Names \ {n} : /\ Fresh(m) => Fresh(m)'
                                /\ Taken(m) => Taken(m)'
                                /\ Good(m) => Good(m)'
                                /\ Past(m) => Past(m)'
  <2>1. /\ task'[n] = "submitted" /\ status'[n] = "Running"
        /\ \A m \in Names \ {n} : task'[m] = task[m] /\ status'[m] = status[m]
    BY <1>u, <1>n DEF TypeOK
  <2>2. QED
    BY <1>n, <1>f, <2>1, OthersStand DEF Fresh, Blocked
<1>k. Sound' /\ Divided' /\ InOrder' /\ WellFormed' = WellFormed
  <2>1. pc \notin {"sort", "group"} /\ pc' \notin {"sort", "group"}
    BY <1>u, <1>p
  <2>2. QED
    BY <1>u, <2>1, ExecutionKeeps
<1>1. TypeOK'
  BY <1>u, <1>n DEF TypeOK, Statuses
<1>2. PlanTypes'
  <2>1. at' \in Nat /\ pc' \in Labels
    BY <1>n, <1>p DEF Labels
  <2>2. QED
    BY <1>u, <1>o, <2>1 DEF PlanTypes, Answers, ApiCall
<1>3. Reached'
  <2>1. at' \in DOMAIN groups[current]
    BY <1>n, <1>p
  <2>2. QED
    BY <1>u, <1>n, <1>p, <2>1 DEF Reached, ApiCall
<1>4. Recorded'
  BY <1>u, <1>o, <1>p DEF Recorded, Executing
<1>5. Executed'
  <2> SUFFICES ASSUME NEW g \in DOMAIN groups, NEW i \in DOMAIN groups[g] PROVE Stands(g, i)'
    BY <1>u DEF Executed
  <2>1. Stands(g, i) /\ groups[g][i] \in Names /\ i \in Nat /\ i >= 1 /\ g \in Nat /\ current \in Nat
        /\ at \in Nat /\ (g = current => i <= Len(Group))
    BY <1>u, <1>n, Places DEF Executed, Executing
  <2>2. CASE g = current /\ i = at
    <3>1. Taken(groups[g][i])'
      BY <1>u, <1>n, <1>o, <2>2 DEF Taken
    <3>2. ~(g < current) /\ ~(g > current)
      BY <2>1, <2>2
    <3>3. (at < Len(Group) => i < at') /\ (at = Len(Group) => ~(i < at'))
      BY <1>n, <1>p, <2>1, <2>2
    <3>4. QED
      BY <1>n, <1>u, <1>p, <2>2, <3>1, <3>2, <3>3 DEF Stands
  <2>3. CASE g # current \/ i # at
    <3> DEFINE m == groups[g][i]
    <3>1. m \in Names \ {n} /\ m' = m
      BY <1>n, <1>u, <2>1, <2>3
    <3>2. /\ Fresh(m) => Fresh(m)'
          /\ Taken(m) => Taken(m)'
          /\ Past(m) => Past(m)'
      BY <1>o, <3>1
    <3>3. CASE g # current
      BY <1>u, <1>p, <2>1, <3>2, <3>3 DEF Stands
    <3>4. CASE g = current
      <4>1. (IF i < at THEN Taken(m) ELSE Fresh(m)) /\ i # at
        BY <1>u, <2>1, <2>3, <3>4 DEF Stands
      <4>2. pc' = "submit" => (i < at' <=> i < at)
        BY <1>p, <2>1, <4>1
      <4>3. pc' = "collect" => i < at /\ ~(i < at')
        BY <1>p, <2>1, <3>4, <4>1
      <4>4. QED
        BY <1>u, <1>p, <2>1, <3>2, <3>4, <4>1, <4>2, <4>3 DEF Stands
    <3>5. QED
      BY <3>3, <3>4
  <2>4. QED
    BY <2>2, <2>3
<1>6. DependenciesFirst'
  BY <1>u, <1>n, <1>f, <1>o, <1>k, StartsInOrder DEF n, InGroup
<1>7. ReportsWhatHappened'
  BY <1>u, <1>f, <1>o DEF ReportsWhatHappened, Recorded, Fresh, Executing
<1>8. QED
  BY <1>k, <1>1, <1>2, <1>3, <1>4, <1>5, <1>6, <1>7

\* The thread has the result of n, at the place it has reached, and stores it;
\* everything else stands as it did.
LEMMA ResultStored ==
  ASSUME PlanInv, pc \in {"wait", "collect"}, Answered(Group[at]), Finalize(Group[at]),
         deps' = deps, task' = task, WellFormed' = WellFormed
  PROVE  LET n == Group[at] IN
         /\ Taken(n)
         /\ status' \in [Names -> Statuses]
         /\ status'[n] = IF task[n] \in Successes THEN "Completed" ELSE "Failed"
         /\ \A m \in Names \ {n} : status'[m] = status[m]
         /\ \A m \in Names \ {n} : /\ Fresh(m) => Fresh(m)'
                                   /\ Taken(m) => Taken(m)'
                                   /\ Good(m) => Good(m)'
                                   /\ Past(m) => Past(m)'
         /\ DependenciesFirst'
<1> DEFINE n == Group[at]
<1>n. n \in Names /\ current \in DOMAIN groups /\ at \in DOMAIN groups[current] /\ n = groups[current][at]
  BY ThisPlace DEF InGroup, PlanInv, Reached, Group
<1>1. Taken(n)
  BY <1>n, Places DEF PlanInv, Executed, Stands, Executing
<1> HIDE DEF n
<1>2. /\ status' \in [Names -> Statuses]
      /\ status'[n] = IF task[n] \in Successes THEN "Completed" ELSE "Failed"
      /\ \A m \in Names \ {n} : status'[m] = status[m]
  <2>1. status' = [status EXCEPT ![n] = IF task[n] \in Successes THEN "Completed" ELSE "Failed"]
    BY DEF Finalize, n
  <2>2. status \in [Names -> Statuses]
    BY DEF PlanInv, TypeOK
  <2>3. QED
    BY <1>n, <2>1, <2>2 DEF Statuses
<1>3. \A m \in Names \ {n} : /\ Fresh(m) => Fresh(m)'
                             /\ Taken(m) => Taken(m)'
                             /\ Good(m) => Good(m)'
                             /\ Past(m) => Past(m)'
  BY <1>n, <1>1, <1>2, OthersStand DEF Taken, Blocked
<1>4. DependenciesFirst'
  <2>1. \A m \in Names : status[m] = "Completed" => status'[m] = "Completed"
    BY <1>1, <1>2 DEF Taken
  <2>2. \A m \in Names : Blocked(m) => Blocked(m)'
    BY <2>1 DEF Blocked
  <2>3. QED
    BY <2>1, <2>2, NothingStarts DEF Started
<1>5. QED
  BY <1>1, <1>2, <1>3, <1>4 DEF n

\* A result is a failure, which ends the plan; or it ends the group; or the
\* group goes on, which it does after a success only.
LEMMA ResultInv ==
  ASSUME PlanInv, pc \in {"wait", "collect"}, Answered(Group[at]), Finalize(Group[at]),
         UNCHANGED <<inputs, sorting, grouping, task>>,
         \/ PlanFails /\ task[Group[at]] \notin Successes
         \/ /\ GroupSucceeds(Group[at]) /\ task[Group[at]] \in Successes
            /\ at = Len(Group) \/ (pc = "wait" /\ task[Group[at]] \in {"blocked", "question"})
         \/ /\ task[Group[at]] = "success" /\ at < Len(Group) /\ at' = at + 1 /\ last' = task[Group[at]]
            /\ pc' = IF pc = "wait" THEN "serial" ELSE "collect"
            /\ UNCHANGED <<current, plan, result>>
  PROVE  PlanInv'
<1> USE DEF PlanInv
<1> DEFINE n == Group[at]
           Fails    == PlanFails /\ task[n] \notin Successes
           Succeeds == /\ GroupSucceeds(n) /\ task[n] \in Successes
                       /\ at = Len(Group) \/ (pc = "wait" /\ task[n] \in {"blocked", "question"})
           GoesOn   == /\ task[n] = "success" /\ at < Len(Group) /\ at' = at + 1 /\ last' = task[n]
                       /\ pc' = IF pc = "wait" THEN "serial" ELSE "collect"
                       /\ UNCHANGED <<current, plan, result>>
<1>u. /\ deps' = deps /\ safe' = safe /\ parallel' = parallel /\ groups' = groups
      /\ visited' = visited /\ order' = order /\ stack' = stack /\ remaining' = remaining
      /\ task' = task /\ UNCHANGED <<inputs, sorting, grouping>>
  BY DEF inputs, sorting, grouping
<1>n. /\ n \in Names /\ current \in DOMAIN groups /\ at \in DOMAIN groups[current]
      /\ n = groups[current][at] /\ at \in 1 .. Len(Group) /\ Len(Group) \in Nat
      /\ DOMAIN groups[current] = 1 .. Len(Group)
      /\ \A g \in DOMAIN groups : \A i \in DOMAIN groups[g] :
           g # current \/ i # at => groups[g][i] # n
  BY ThisPlace, Places DEF InGroup, Reached, Group
<1>q. Fails \/ Succeeds \/ GoesOn
  OBVIOUS
<1>c. /\ current' = current
      /\ pc' \in {"done", "finish", "next", "serial", "collect"}
      /\ pc' \in {"serial", "collect"} => GoesOn
      /\ pc' = "next" => Succeeds /\ task[n] # "question"
      /\ pc' = "finish" => Succeeds /\ task[n] = "question"
      /\ pc' = "done" => Fails
  BY <1>q DEF PlanFails, GroupSucceeds
<1>k. Sound' /\ Divided' /\ InOrder' /\ WellFormed' = WellFormed
  <2>1. pc \notin {"sort", "group"} /\ pc' \notin {"sort", "group"}
    BY <1>c
  <2>2. QED
    BY <1>u, <2>1, ExecutionKeeps
<1>o. /\ Taken(n)
      /\ status' \in [Names -> Statuses]
      /\ status'[n] = IF task[n] \in Successes THEN "Completed" ELSE "Failed"
      /\ \A m \in Names \ {n} : status'[m] = status[m]
      /\ \A m \in Names \ {n} : /\ Fresh(m) => Fresh(m)'
                                /\ Taken(m) => Taken(m)'
                                /\ Good(m) => Good(m)'
                                /\ Past(m) => Past(m)'
      /\ DependenciesFirst'
  BY <1>u, <1>k, ResultStored
<1>r. plan = "Running" /\ result = "none"
  BY DEF Recorded, Executing
<1>s. /\ plan' \in {"Running", "Failed", "Completed"}
      /\ plan' = "Running" \/ (plan' = "Failed" /\ pc' = "done") \/ (plan' = "Completed" /\ pc' = "finish")
      /\ pc' \in {"next", "serial", "collect"} => plan' = "Running"
      /\ pc' = "finish" => plan' = "Completed"
      /\ result' = IF pc' = "done" THEN "failure" ELSE "none"
      /\ last' = IF pc' = "done" THEN last ELSE task[n]
      /\ pc' # "done" => task[n] \in Successes
  <2> HIDE DEF n
  <2>1. CASE Fails
    <3>1. pc' = "done" /\ plan' = "Failed" /\ result' = "failure" /\ last' = last
      BY <2>1 DEF PlanFails
    <3>2. QED
      BY <3>1
  <2>2. CASE Succeeds
    <3>1. /\ (pc' = "finish" /\ plan' = "Completed") \/ (pc' = "next" /\ plan' = plan)
          /\ result' = result /\ last' = task[n] /\ task[n] \in Successes
      BY <2>2 DEF GroupSucceeds
    <3>2. QED
      BY <1>r, <3>1
  <2>3. CASE GoesOn
    <3>1. /\ pc' \in {"serial", "collect"} /\ plan' = plan /\ result' = result /\ last' = task[n]
          /\ task[n] \in Successes
      BY <2>3 DEF Successes
    <3>2. QED
      BY <1>r, <3>1
  <2>4. QED
    BY <1>q, <2>1, <2>2, <2>3
<1> HIDE DEF n, Fails, Succeeds, GoesOn
<1>1. TypeOK'
  BY <1>u, <1>c, <1>o, <1>s DEF TypeOK
<1>2. PlanTypes'
  <2>1. at' \in Nat
    BY <1>q DEF Fails, Succeeds, GoesOn, PlanFails, GroupSucceeds, PlanTypes
  <2>2. QED
    BY <1>u, <1>c, <2>1 DEF PlanTypes, Answers, ApiCall, Labels
<1>3. Reached'
  <2>1. GoesOn => at' \in DOMAIN groups[current]
    BY <1>n DEF GoesOn
  <2>2. pc' = "collect" => pc = "collect"
    BY <1>c DEF GoesOn
  <2>3. QED
    BY <1>u, <1>c, <1>n, <2>1, <2>2 DEF Reached, ApiCall, InGroup
<1>a. \A g \in DOMAIN groups : \A i \in DOMAIN groups[g] :
        /\ Stands(g, i) /\ groups[g][i] \in Names /\ i \in Nat /\ i >= 1 /\ g \in Nat /\ current \in Nat
        /\ at \in Nat /\ (g = current => i <= Len(Group))
  BY <1>n, Places DEF Executed, Executing
<1>p. ASSUME Succeeds, NEW m \in Names PROVE status'[m] \in {"Pending", "Completed"}
  <2>1. PICK g \in DOMAIN groups : \E i \in DOMAIN groups[g] : m = groups[g][i]
    BY Places
  <2>2. PICK i \in DOMAIN groups[g] : m = groups[g][i]
    BY <2>1
  <2>3. CASE m = n
    BY <1>o, <1>p, <2>3 DEF Succeeds
  <2>4. CASE m # n /\ g # current
    <3>1. Past(m) \/ Fresh(m)
      BY <1>a, <2>2, <2>4 DEF Stands
    <3>2. QED
      BY <1>o, <2>4, <3>1 DEF Past, Good, Blocked, Fresh
  <2>5. CASE m # n /\ g = current
    <3>1. i # at
      BY <1>n, <2>2, <2>5
    <3>2. i > at => pc = "wait"
      BY <1>a, <1>n, <1>p, <2>5 DEF Succeeds
    <3>3. Good(m) \/ Fresh(m)
      BY <1>a, <2>2, <2>5, <3>1, <3>2 DEF Stands
    <3>4. QED
      BY <1>o, <2>5, <3>3 DEF Good, Fresh
  <2>6. QED
    BY <2>3, <2>4, <2>5
<1>4. Recorded'
  <2>1. \A m \in Names : /\ status'[m] = "Completed" => task'[m] \in Successes
                         /\ status'[m] \in {"none", "Pending"} => task'[m] = "none"
    <3>1. \A m \in Names : m # n => /\ status'[m] = "Completed" => task'[m] \in Successes
                                    /\ status'[m] \in {"none", "Pending"} => task'[m] = "none"
      BY <1>u, <1>o DEF Recorded
    <3>2. QED
      BY <1>u, <1>o, <3>1
  <2>2. plan' = "Completed" => \A m \in Names : status'[m] \in {"Pending", "Completed"}
    BY <1>c, <1>s, <1>p
  <2>3. QED
    BY <1>c, <1>s, <2>1, <2>2 DEF Recorded, Executing, Succeeds
<1>5. Executed'
  <2> SUFFICES ASSUME pc' \in Executing, NEW g \in DOMAIN groups, NEW i \in DOMAIN groups[g]
               PROVE  Stands(g, i)'
    BY <1>u DEF Executed
  <2> DEFINE m == groups[g][i]
  <2>0. m' = m
    BY <1>u
  <2>1. CASE GoesOn
    <3>1. task[n] = "success" /\ status'[n] = "Completed" /\ at' = at + 1
      BY <1>o, <2>1 DEF GoesOn, Successes
    <3>2. (pc = "wait" /\ pc' = "serial") \/ (pc = "collect" /\ pc' = "collect")
      BY <2>1 DEF GoesOn
    <3>3. CASE g = current /\ i = at
      <4>1. Good(m)'
        BY <1>u, <1>n, <3>1, <3>3 DEF Good
      <4>2. i < at' /\ ~(g < current) /\ ~(g > current)
        BY <1>a, <3>1, <3>3
      <4>3. QED
        BY <1>c, <1>u, <3>2, <3>3, <4>1, <4>2 DEF Stands
    <3>4. CASE g # current \/ i # at
      <4>1. m \in Names \ {n}
        BY <1>a, <1>n, <3>4
      <4>2. /\ Fresh(m) => Fresh(m)'
            /\ Taken(m) => Taken(m)'
            /\ Good(m) => Good(m)'
            /\ Past(m) => Past(m)'
        BY <1>o, <2>0, <4>1
      <4>3. g = current => (i < at' <=> i < at)
        BY <1>a, <3>1, <3>4
      <4>4. QED
        BY <1>a, <1>c, <1>u, <3>2, <3>4, <4>2, <4>3 DEF Stands
    <3>5. QED
      BY <3>3, <3>4
  <2>2. CASE Succeeds
    <3>1. pc' = "next" /\ task[n] \in {"success", "blocked"} /\ status'[n] = "Completed"
      <4>1. pc' = "next"
        BY <1>c, <2>2 DEF Executing, Succeeds, GroupSucceeds
      <4>2. QED
        BY <1>c, <1>o, <2>2, <4>1 DEF Succeeds, Successes
    <3>3. CASE g < current
      <4>1. Past(m) /\ m \in Names \ {n}
        BY <1>a, <1>n, <3>3 DEF Stands
      <4>2. Past(m)' /\ ~(g > current)
        BY <1>a, <1>o, <2>0, <3>3, <4>1
      <4>3. QED
        BY <1>c, <1>u, <3>1, <3>3, <4>2 DEF Stands
    <3>4. CASE g > current
      <4>1. Fresh(m) /\ m \in Names \ {n}
        BY <1>a, <1>n, <3>4 DEF Stands
      <4>2. Fresh(m)' /\ ~(g < current) /\ g # current
        BY <1>a, <1>o, <2>0, <3>4, <4>1
      <4>3. QED
        BY <1>c, <1>u, <3>1, <4>2 DEF Stands
    <3>5. CASE g = current
      <4>1. Past(m)'
        <5>1. CASE i = at
          BY <1>u, <1>n, <3>1, <3>5, <5>1 DEF Past, Good, Blocked
        <5>2. CASE i < at
          <6>1. Good(m) /\ m \in Names \ {n}
            BY <1>a, <1>n, <3>5, <5>2 DEF Stands
          <6>2. Past(m)'
            BY <1>o, <2>0, <6>1 DEF Past
          <6>3. QED
            BY <6>2
        <5>3. CASE i > at
          <6>1. pc = "wait" /\ task[n] = "blocked"
            BY <1>a, <1>c, <1>n, <2>2, <3>1, <3>5, <5>3 DEF Succeeds
          <6>2. Fresh(m) /\ m \in Names \ {n}
            BY <1>a, <1>n, <3>5, <5>3, <6>1 DEF Stands
          <6>3. Fresh(m)'
            BY <1>o, <2>0, <6>2
          <6>4. task'[n] = "blocked" /\ status'[n] = "Completed"
            BY <1>u, <3>1, <6>1
          <6>5. QED
            BY <1>n, <6>3, <6>4 DEF Past, Blocked
        <5>4. QED
          BY <1>a, <5>1, <5>2, <5>3
      <4>2. QED
        BY <1>a, <1>c, <1>u, <3>1, <3>5, <4>1 DEF Stands
    <3>6. QED
      BY <1>a, <3>3, <3>4, <3>5
  <2>3. CASE Fails
    BY <2>3 DEF Fails, PlanFails, Executing
  <2>4. QED
    BY <1>q, <2>1, <2>2, <2>3
<1>6. ReportsWhatHappened'
  <2>1. plan' = "Failed" => status'[n] = "Failed"
    BY <1>c, <1>o, <1>s DEF Fails
  <2>2. plan' = "Completed" => \A m \in Names : status'[m] \notin {"Failed", "Running"}
    BY <1>c, <1>s, <1>p
  <2>3. result' \notin {"summary", "blocked"}
    BY <1>s
  <2>4. QED
    BY <1>n, <2>1, <2>2, <2>3 DEF ReportsWhatHappened
<1>7. QED
  BY <1>k, <1>o, <1>1, <1>2, <1>3, <1>4, <1>5, <1>6

\* What the pool says of a query or a transformation is neither a question nor a block.
LEMMA SafeAnswers ==
  ASSUME PlanInv, NEW n \in Names, task[n] \in Successes
  PROVE  task[n] \in {"success", "blocked", "question"} /\ (~ApiCall(n) => task[n] = "success")
BY DEF PlanInv, PlanTypes, Answers, Successes

LEMMA SerialEndInv == PlanInv /\ SerialEnd => PlanInv'
<1> SUFFICES ASSUME PlanInv, SerialEnd PROVE PlanInv'
  OBVIOUS
<1> DEFINE n == Group[at]
<1>1. /\ pc = "wait" /\ Answered(n) /\ Finalize(n)
      /\ UNCHANGED <<inputs, sorting, grouping, task>>
      /\ CASE task[n] \notin Successes -> PlanFails
           [] \/ task[n] = "blocked"
              \/ ApiCall(n) /\ task[n] = "question"
              \/ task[n] \in Successes /\ at = Len(Group) -> GroupSucceeds(n)
           [] OTHER -> /\ last' = task[n] /\ at' = at + 1 /\ pc' = "serial"
                       /\ UNCHANGED <<current, plan, result>>
  BY DEF SerialEnd
<1>2. n \in Names /\ at \in 1 .. Len(Group) /\ Len(Group) \in Nat
  BY <1>1, ThisPlace DEF InGroup
<1>3. task[n] \in Successes => task[n] \in {"success", "blocked", "question"} /\ (~ApiCall(n) => task[n] = "success")
  BY <1>2, SafeAnswers
<1> HIDE DEF n
<1>4. CASE task[n] \notin Successes
  <2>1. PlanFails
    BY <1>1, <1>4 DEF Successes
  <2>2. QED
    BY <1>1, <1>4, <2>1, ResultInv DEF n
<1>5. CASE task[n] \in Successes /\ (at = Len(Group) \/ task[n] \in {"blocked", "question"})
  <2>1. \/ task[n] = "blocked"
        \/ ApiCall(n) /\ task[n] = "question"
        \/ task[n] \in Successes /\ at = Len(Group)
    BY <1>3, <1>5
  <2>2. GroupSucceeds(n)
    BY <1>1, <1>5, <2>1
  <2>3. QED
    BY <1>1, <1>5, <2>2, ResultInv DEF n
<1>6. CASE task[n] \in Successes /\ at # Len(Group) /\ task[n] \notin {"blocked", "question"}
  <2>1. /\ last' = task[n] /\ at' = at + 1 /\ pc' = "serial"
        /\ UNCHANGED <<current, plan, result>>
    BY <1>1, <1>6
  <2>2. task[n] = "success" /\ at < Len(Group)
    BY <1>2, <1>3, <1>6
  <2>3. QED
    BY <1>1, <2>1, <2>2, ResultInv DEF n
<1>7. QED
  BY <1>4, <1>5, <1>6

LEMMA ParallelCollectInv == PlanInv /\ ParallelCollect => PlanInv'
<1> SUFFICES ASSUME PlanInv, ParallelCollect PROVE PlanInv'
  OBVIOUS
<1> DEFINE n == Group[at]
<1>1. /\ pc = "collect" /\ Answered(n) /\ Finalize(n)
      /\ UNCHANGED <<inputs, sorting, grouping, task>>
      /\ CASE task[n] \notin Successes -> PlanFails
           [] task[n] \in Successes /\ at = Len(Group) -> GroupSucceeds(n)
           [] OTHER -> GoOn(n)
  BY DEF ParallelCollect
<1>2. n \in Names /\ at \in 1 .. Len(Group) /\ Len(Group) \in Nat /\ ~ApiCall(n)
  <2>1. n \in Range(groups[current])
    BY <1>1, ThisPlace, Places DEF InGroup, Range, Group
  <2>2. QED
    BY <1>1, <2>1, ThisPlace DEF InGroup, PlanInv, Reached
<1>3. task[n] \in Successes => task[n] = "success"
  BY <1>2, SafeAnswers
<1> HIDE DEF n
<1>4. CASE task[n] \notin Successes
  <2>1. PlanFails
    BY <1>1, <1>4
  <2>2. QED
    BY <1>1, <1>4, <2>1, ResultInv DEF n
<1>5. CASE task[n] \in Successes /\ at = Len(Group)
  <2>1. GroupSucceeds(n)
    BY <1>1, <1>5
  <2>2. QED
    BY <1>1, <1>5, <2>1, ResultInv DEF n
<1>6. CASE task[n] \in Successes /\ at # Len(Group)
  <2>1. GoOn(n)
    BY <1>1, <1>6
  <2>2. task[n] = "success" /\ at < Len(Group)
    BY <1>2, <1>3, <1>6
  <2>3. /\ last' = task[n] /\ at' = at + 1 /\ pc' = "collect"
        /\ UNCHANGED <<current, plan, result>>
    BY <1>1, <2>1 DEF GoOn
  <2>4. QED
    BY <1>1, <2>2, <2>3, ResultInv DEF n
<1>7. QED
  BY <1>4, <1>5, <1>6

\* A summary covers every sub-task: when the thread is past all groups and none
\* has been blocked, all have been completed.
LEMMA FinishInv == PlanInv /\ Finish => PlanInv'
<1> SUFFICES ASSUME PlanInv, Finish PROVE PlanInv'
  OBVIOUS
<1> USE DEF PlanInv
<1>u. /\ deps' = deps /\ safe' = safe /\ parallel' = parallel /\ groups' = groups
      /\ visited' = visited /\ order' = order /\ stack' = stack /\ remaining' = remaining
      /\ current' = current /\ at' = at /\ task' = task /\ status' = status
      /\ last' = last /\ plan' = "Completed" /\ pc' = "done" /\ result' \in FinalResults
      /\ pc = "finish" \/ (pc = "next" /\ current = Len(groups))
      /\ UNCHANGED <<inputs, sorting, grouping>>
  BY DEF Finish, inputs, sorting, grouping
<1>k. Sound' /\ Divided' /\ InOrder' /\ WellFormed' = WellFormed
  <2>1. pc \notin {"sort", "group"} /\ pc' \notin {"sort", "group"}
    BY <1>u
  <2>2. QED
    BY <1>u, <2>1, ExecutionKeeps
<1>p. ASSUME pc = "next", NEW m \in Names PROVE Past(m)
  <2>1. PICK g \in DOMAIN groups : \E i \in DOMAIN groups[g] : m = groups[g][i]
    BY <1>p, Places
  <2>2. PICK i \in DOMAIN groups[g] : m = groups[g][i]
    BY <2>1
  <2>3. Stands(g, i) /\ g \in Nat /\ g <= Len(groups) /\ current = Len(groups)
    BY <1>p, <1>u, Places DEF Executed, Executing
  <2>4. g < current \/ g = current
    BY <2>3, Places
  <2>5. QED
    BY <1>p, <2>2, <2>3, <2>4 DEF Stands
<1>s. \A m \in Names : status[m] \in {"Pending", "Completed"}
  <2>1. CASE pc = "finish"
    BY <2>1 DEF Recorded
  <2>2. CASE pc = "next"
    BY <1>p, <2>2 DEF Past, Good, Blocked, Fresh
  <2>3. QED
    BY <1>u, <2>1, <2>2
<1>r. result' \in {"question", "blocked", "summary"}
  BY <1>u DEF FinalResults
<1>1. TypeOK'
  BY <1>u, <1>r DEF TypeOK
<1>2. PlanTypes'
  BY <1>u DEF PlanTypes, Answers, ApiCall, Labels
<1>3. Reached'
  BY <1>u DEF Reached, InGroup
<1>4. Recorded'
  BY <1>u, <1>s DEF Recorded, Executing
<1>5. Executed'
  BY <1>u DEF Executed, Executing
<1>6. DependenciesFirst'
  BY <1>u, <1>k, NothingStarts DEF Started, Blocked
<1>7. ReportsWhatHappened'
  <2>1. ASSUME result' = "summary", NEW m \in Names PROVE status'[m] = "Completed" /\ task'[m] = "success"
    <3>1. last # "question" /\ \A k \in Names : ~Blocked(k)
      BY <1>u, <2>1 DEF FinalResults, Blocked
    <3>2. pc = "next"
      BY <1>u, <3>1 DEF Recorded
    <3>3. Good(m)
      BY <1>p, <3>1, <3>2 DEF Past
    <3>4. QED
      BY <1>u, <3>3 DEF Good
  <2>2. result' = "blocked" => \E m \in Names : status[m] = "Completed" /\ task[m] = "blocked"
    BY <1>u DEF FinalResults
  <2>3. QED
    BY <1>u, <1>s, <2>1, <2>2 DEF ReportsWhatHappened
<1>8. QED
  BY <1>k, <1>1, <1>2, <1>3, <1>4, <1>5, <1>6, <1>7

\* The pool answers a sub-task that has been started and not completed.
LEMMA AnswerInv ==
  ASSUME PlanInv, NEW n \in Names, Answer(n)
  PROVE  PlanInv'
<1> USE DEF PlanInv
<1>u. /\ deps' = deps /\ safe' = safe /\ parallel' = parallel /\ groups' = groups
      /\ visited' = visited /\ order' = order /\ stack' = stack /\ remaining' = remaining
      /\ current' = current /\ at' = at /\ pc' = pc /\ status' = status
      /\ plan' = plan /\ last' = last /\ result' = result
      /\ UNCHANGED <<inputs, sorting, grouping>>
      /\ task[n] = "submitted"
  BY DEF Answer, inputs, sorting, grouping, control, outcome
<1>a. PICK r \in Answers(n) : task' = [task EXCEPT ![n] = r]
  BY DEF Answer
<1>r. r \in {"failure", "closed"} \cup Successes /\ r # "none"
  BY DEF Answers, Successes
<1>o. task'[n] = r /\ \A m \in Names \ {n} : task'[m] = task[m]
  BY <1>a DEF TypeOK
<1>s. status[n] \notin {"none", "Pending", "Completed"} /\ pc \notin {"sort", "group"}
  BY <1>u DEF Recorded, Successes
<1>f. /\ ~Fresh(n) /\ ~Good(n) /\ ~Blocked(n) /\ ~Past(n)
  BY <1>u, <1>s DEF Fresh, Good, Blocked, Past
<1>k. Sound' /\ Divided' /\ InOrder' /\ WellFormed' = WellFormed
  BY <1>u, <1>s, ExecutionKeeps
<1>1. TypeOK'
  BY <1>u, <1>a, <1>r DEF TypeOK
<1>2. PlanTypes'
  <2>1. \A m \in Names : task'[m] \in {"none", "submitted"} \cup Answers(m)
    BY <1>o DEF PlanTypes
  <2>2. QED
    BY <1>u, <2>1 DEF PlanTypes, Answers, ApiCall
<1>3. Reached'
  BY <1>u DEF Reached, ApiCall
<1>4. Recorded'
  <2>1. \A m \in Names : /\ status[m] = "Completed" => task'[m] \in Successes
                         /\ status[m] \in {"none", "Pending"} => task'[m] = "none"
    BY <1>o, <1>s DEF Recorded
  <2>2. QED
    BY <1>u, <1>s, <2>1 DEF Recorded
<1>5. Executed'
  <2> SUFFICES ASSUME pc \in Executing, NEW g \in DOMAIN groups, NEW i \in DOMAIN groups[g]
               PROVE  Stands(g, i)'
    BY <1>u DEF Executed
  <2> DEFINE m == groups[g][i]
  <2>0. m' = m /\ m \in Names /\ Stands(g, i)
    BY <1>u, Places DEF Executed
  <2>1. CASE m = n
    <3>1. Taken(m) => Taken(m)'
      BY <1>u, <1>o, <1>r, <2>0, <2>1 DEF Taken
    <3>2. QED
      BY <1>u, <1>f, <2>0, <2>1, <3>1 DEF Stands
  <2>2. CASE m # n
    <3>1. \A k \in Names \ {n} : /\ Fresh(k) => Fresh(k)'
                                 /\ Taken(k) => Taken(k)'
                                 /\ Good(k) => Good(k)'
                                 /\ Past(k) => Past(k)'
      BY <1>u, <1>o, <1>f, OthersStand
    <3>2. /\ Fresh(m) => Fresh(m)'
          /\ Taken(m) => Taken(m)'
          /\ Good(m) => Good(m)'
          /\ Past(m) => Past(m)'
      BY <2>0, <2>2, <3>1
    <3>3. QED
      BY <1>u, <2>0, <3>2 DEF Stands
  <2>3. QED
    BY <2>1, <2>2
<1>6. DependenciesFirst'
  <2>1. \A m \in Names : Started(m)' => Started(m)
    BY <1>u, <1>o DEF Started
  <2>2. \A m \in Names : Blocked(m) => Blocked(m)'
    BY <1>u, <1>o, <1>f DEF Blocked
  <2>3. QED
    BY <1>u, <1>k, <2>1, <2>2, NothingStarts
<1>7. ReportsWhatHappened'
  <2>1. \A m \in Names : status[m] = "Completed" => task'[m] = task[m]
    BY <1>o, <1>s
  <2>2. QED
    BY <1>u, <2>1 DEF ReportsWhatHappened
<1>8. QED
  BY <1>k, <1>1, <1>2, <1>3, <1>4, <1>5, <1>6, <1>7

-----------------------------------------------------------------------------
(* The theorems.                                                            *)

\* PlanInv is inductive.
LEMMA PlanStepInv == PlanInv /\ [Next]_vars => PlanInv'
<1>1. ASSUME PlanInv, UNCHANGED vars PROVE PlanInv'
  <2>1. /\ deps' = deps /\ safe' = safe /\ parallel' = parallel /\ groups' = groups
        /\ visited' = visited /\ order' = order /\ stack' = stack /\ remaining' = remaining
        /\ current' = current /\ at' = at /\ pc' = pc /\ task' = task /\ status' = status
        /\ plan' = plan /\ last' = last /\ result' = result
    BY <1>1 DEF vars, inputs, sorting, grouping, control, outcome
  <2>2. TypeOK' /\ PlanTypes' /\ Sound'
    BY <1>1, <2>1 DEF PlanInv, TypeOK, PlanTypes, Sound, Answers, ApiCall
  <2>3. Divided' /\ InOrder' /\ Reached' /\ Recorded'
    BY <1>1, <2>1 DEF PlanInv, Divided, Grouped, InOrder, WellFormed, Reached, Recorded, ApiCall
  <2>4. Executed'
    BY <1>1, <2>1 DEF PlanInv, Executed, Stands, Past, Good, Blocked, Fresh, Taken
  <2>5. DependenciesFirst' /\ ReportsWhatHappened'
    BY <1>1, <2>1 DEF PlanInv, DependenciesFirst, WellFormed, Started, ReportsWhatHappened
  <2>6. QED
    BY <2>2, <2>3, <2>4, <2>5 DEF PlanInv
<1>2. QED
  BY <1>1, SortInv, FormGroupInv, BeginInv, NextGroupInv, SerialStartInv, SerialEndInv,
     ParallelSubmitInv, ParallelCollectInv, FinishInv, AnswerInv
     DEF Next, Thread, Divide, Execute

\* PlanInv holds of every reachable state, for any names and dependencies.
LEMMA PlanIsSound == Spec => []PlanInv
BY PlanBegins, PlanStepInv, PTL DEF Spec

\* Every reachable state of a plan is well typed, and no name is sorted twice.
THEOREM PlanTypeCorrectness == Spec => []TypeOK
<1>1. PlanInv => TypeOK
  BY DEF PlanInv
<1>2. QED
  BY <1>1, PlanIsSound, PTL

\* While no sub-task is blocked, one starts only when all that it depends on
\* has been completed, for any number of sub-tasks and any dependencies that
\* name sub-tasks and have no cycle (compute_parallel_groups, execute_group_*).
THEOREM DependenciesComeFirst == Spec => []DependenciesFirst
<1>1. PlanInv => DependenciesFirst
  BY DEF PlanInv
<1>2. QED
  BY <1>1, PlanIsSound, PTL

\* A plan fails only when one of its sub-tasks has failed, leaves none running
\* when it is completed, and its summary covers every sub-task, whatever the
\* dependencies are (execute_orchestration_plan_impl).
THEOREM PlanTellsTheTruth == Spec => []ReportsWhatHappened
<1>1. PlanInv => ReportsWhatHappened
  BY DEF PlanInv
<1>2. QED
  BY <1>1, PlanIsSound, PTL

\* No sub-task is submitted twice or put back after its end, also where a cycle
\* or an unknown name forces the groups.
THEOREM EachIsExecutedOnce == Spec => ExecutedOnce
<1> DEFINE Once == \A n \in Names :
                     /\ Started(n) => task'[n] # "none" /\ (task'[n] = "submitted" => task[n] = "submitted")
                     /\ status[n] \in {"Completed", "Failed"} => status'[n] = status[n]
<1>1. ASSUME PlanInv, pc \in InGroup, Start(Group[at]), pc # "wait", pc # "collect" PROVE Once
  <2>1. Group[at] \in Names /\ current \in DOMAIN groups /\ at \in DOMAIN groups[current]
        /\ Group[at] = groups[current][at]
    BY <1>1, ThisPlace DEF PlanInv, Reached, Group
  <2>2. Fresh(Group[at])
    BY <1>1, <2>1, Places DEF PlanInv, Executed, Stands, InGroup, Executing
  <2>3. /\ task \in [Names -> {"none", "submitted", "failure", "closed"} \cup Successes]
        /\ status \in [Names -> Statuses]
    BY <1>1 DEF PlanInv, TypeOK
  <2>4. QED
    BY <1>1, <2>1, <2>2, <2>3 DEF Start, Started, Fresh
<1>2. ASSUME PlanInv, pc \in {"wait", "collect"}, Answered(Group[at]), Finalize(Group[at]), task' = task
      PROVE  Once
  <2>1. Group[at] \in Names /\ current \in DOMAIN groups /\ at \in DOMAIN groups[current]
        /\ Group[at] = groups[current][at]
    BY <1>2, ThisPlace DEF InGroup, PlanInv, Reached, Group
  <2>2. Taken(Group[at])
    BY <1>2, <2>1, Places DEF PlanInv, Executed, Stands, Executing
  <2>3. status \in [Names -> Statuses]
    BY <1>2 DEF PlanInv, TypeOK
  <2>4. QED
    BY <1>2, <2>1, <2>2, <2>3 DEF Finalize, Started, Taken
<1>3. ASSUME task' = task, status' = status PROVE Once
  BY <1>3 DEF Started
<1>4. ASSUME PlanInv, Begin PROVE Once
  BY <1>4 DEF Begin, PlanInv, Recorded, Started
<1>5. ASSUME PlanInv, NEW n \in Names, Answer(n) PROVE Once
  <2>1. PICK r \in Answers(n) : task' = [task EXCEPT ![n] = r]
    BY <1>5 DEF Answer
  <2>2. task[n] = "submitted" /\ status' = status /\ r \notin {"none", "submitted"}
    BY <1>5 DEF Answer, Answers, Successes
  <2>3. task \in [Names -> {"none", "submitted", "failure", "closed"} \cup Successes]
    BY <1>5 DEF PlanInv, TypeOK
  <2>4. QED
    BY <2>1, <2>2, <2>3 DEF Started
<1>6. PlanInv /\ [Next]_vars => [Once]_vars
  <2> SUFFICES ASSUME PlanInv, Next PROVE Once
    OBVIOUS
  <2> HIDE DEF Once
  <2>1. CASE Sort
    BY <1>3, <2>1 DEF Sort, SortTop, SortDependency, SortReturn, Sorted
  <2>2. CASE FormGroup \/ NextGroup \/ Finish
    BY <1>3, <2>2 DEF FormGroup, NextGroup, Finish
  <2>3. CASE SerialStart \/ ParallelSubmit
    BY <1>1, <2>3 DEF SerialStart, ParallelSubmit, InGroup
  <2>4. CASE SerialEnd \/ ParallelCollect
    BY <1>2, <2>4 DEF SerialEnd, ParallelCollect
  <2>5. QED
    BY <1>4, <1>5, <2>1, <2>2, <2>3, <2>4 DEF Next, Thread, Divide, Execute
<1>7. QED
  BY <1>6, PlanIsSound, PTL DEF Spec, ExecutedOnce
=============================================================================
