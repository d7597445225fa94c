------------------------- MODULE ThreadPool_proofs -------------------------
(***************************************************************************)
(* Proofs about ThreadPool, for every number of tasks and workers: no      *)
(* wake-up is lost, and the pool implements TaskSchedule.                  *)
(*                                                                         *)
(* The list of timers stays sorted (Sorted), so that its back is what      *)
(* every sleeper has to wait for, and no task is in two places (Listed).   *)
(***************************************************************************)
EXTENDS ThreadPool, SequenceTheorems, TLAPS

Sorted == \A i, j \in 1 .. Len(timers) : i < j => timers[i].at >= timers[j].at

Listed ==
    /\ \A i \in 1 .. Len(tasks) : fate[tasks[i]] = "queued"
    /\ \A i, j \in 1 .. Len(tasks) : tasks[i] = tasks[j] => i = j
    /\ \A i \in 1 .. Len(timers) : fate[timers[i].task] = "timed"
    /\ \A i, j \in 1 .. Len(timers) : timers[i].task = timers[j].task => i = j

Jobs == \A w \in Worker : pc[w] \in {"run", "lastrun"} =>
            job[w] \in Task /\ fate[job[w]] \in {"running", "done"}

\* Before stop() no worker leaves its loop.
Working == Continue => \A w \in Worker : pc[w] \in {"loop", "run", "check", "asleep"}

IndInv == TypeOK /\ Sorted /\ Listed /\ Jobs /\ Working /\ NoLostWakeUp

-----------------------------------------------------------------------------
(* Lists.                                                                  *)

\* A function on 1 .. n is a sequence of length n.
LEMMA FunctionIsSeq ==
  ASSUME NEW S, NEW n \in Nat, NEW f \in [1 .. n -> S]
  PROVE  f \in Seq(S) /\ Len(f) = n
<1>1. f \in Seq(S)
  BY SeqDef
<1>2. 1 .. n = 1 .. Len(f) /\ Len(f) \in Nat
  BY <1>1, LenProperties
<1> QED BY <1>1, <1>2

LEMMA InsertedSeq ==
  ASSUME timers \in Seq(Timer), NEW i \in 1 .. Len(timers) + 1, NEW e \in Timer
  PROVE  Inserted(i, e) \in Seq(Timer) /\ Len(Inserted(i, e)) = Len(timers) + 1
<1>1. Len(timers) \in Nat /\ \A j \in 1 .. Len(timers) : timers[j] \in Timer
  BY LenProperties, ElementOfSeq
<1>2. Inserted(i, e) \in [1 .. Len(timers) + 1 -> Timer]
  BY <1>1 DEF Inserted
<1> QED BY <1>1, <1>2, FunctionIsSeq

LEMMA ErasedSeq ==
  ASSUME timers \in Seq(Timer), NEW i \in 1 .. Len(timers)
  PROVE  Erased(i) \in Seq(Timer) /\ Len(Erased(i)) = Len(timers) - 1
<1>1. Len(timers) \in Nat /\ \A j \in 1 .. Len(timers) : timers[j] \in Timer
  BY LenProperties, ElementOfSeq
<1>2. Erased(i) \in [1 .. Len(timers) - 1 -> Timer]
  BY <1>1 DEF Erased
<1> QED BY <1>1, <1>2, FunctionIsSeq

\* What erasing leaves, and what it takes away.
LEMMA ErasedEntries ==
  ASSUME timers \in Seq(Timer), NEW i \in 1 .. Len(timers)
  PROVE  /\ \A j \in 1 .. Len(timers) - 1 : \E k \in 1 .. Len(timers) :
               k # i /\ Erased(i)[j] = timers[k] /\ k >= j /\ k <= j + 1 /\ (k > j <=> j >= i)
         /\ \A k \in 1 .. Len(timers) : k # i =>
               \E j \in 1 .. Len(timers) - 1 : Erased(i)[j] = timers[k]
<1>1. Len(timers) \in Nat
  BY LenProperties
<1>2. ASSUME NEW j \in 1 .. Len(timers) - 1
      PROVE  \E k \in 1 .. Len(timers) :
               k # i /\ Erased(i)[j] = timers[k] /\ k >= j /\ k <= j + 1 /\ (k > j <=> j >= i)
  <2>1. CASE j < i
    BY <1>1, <2>1 DEF Erased
  <2>2. CASE j >= i
    <3>1. j + 1 \in 1 .. Len(timers) /\ j + 1 # i /\ Erased(i)[j] = timers[j + 1]
      BY <1>1, <2>2 DEF Erased
    <3> QED BY <3>1, <2>2
  <2> QED BY <2>1, <2>2
<1>3. ASSUME NEW k \in 1 .. Len(timers), k # i
      PROVE  \E j \in 1 .. Len(timers) - 1 : Erased(i)[j] = timers[k]
  <2>1. CASE k < i
    BY <1>1, <2>1 DEF Erased
  <2>2. CASE k > i
    <3>1. k - 1 \in 1 .. Len(timers) - 1 /\ Erased(i)[k - 1] = timers[k]
      BY <1>1, <2>2 DEF Erased
    <3> QED BY <3>1
  <2> QED BY <1>3, <2>1, <2>2
<1> QED BY <1>2, <1>3

LEMMA TailFacts ==
  ASSUME tasks \in Seq(Task), tasks # <<>>
  PROVE  /\ Head(tasks) \in Task /\ Head(tasks) = tasks[1]
         /\ Tail(tasks) \in Seq(Task) /\ Len(Tail(tasks)) = Len(tasks) - 1
         /\ Len(tasks) \in Nat \ {0}
         /\ \A i \in 1 .. Len(tasks) - 1 : Tail(tasks)[i] = tasks[i + 1]
<1>1. Len(tasks) \in Nat \ {0}
  BY LenProperties, EmptySeq
<1>2. Head(tasks) = tasks[1]
  OBVIOUS
<1> QED BY <1>1, <1>2, HeadTailProperties

\* What the type invariant says of the lists.
LEMMA ListTypes ==
  ASSUME TypeOK
  PROVE  /\ Len(tasks) \in Nat /\ Len(timers) \in Nat
         /\ \A i \in 1 .. Len(tasks) : tasks[i] \in Task
         /\ \A i \in 1 .. Len(timers) :
               timers[i] \in Timer /\ timers[i].at \in Nat /\ timers[i].task \in Task
<1>1. tasks \in Seq(Task) /\ timers \in Seq(Timer)
  BY DEF TypeOK
<1>2. \A i \in 1 .. Len(timers) : timers[i] \in Timer
  BY <1>1, ElementOfSeq
<1>3. \A i \in 1 .. Len(tasks) : tasks[i] \in Task
  BY <1>1, ElementOfSeq
<1> QED BY <1>1, <1>2, <1>3, LenProperties DEF Timer

-----------------------------------------------------------------------------
(* The lists after each operation.                                         *)

Lists == tasks \in Seq(Task) /\ timers \in Seq(Timer) /\ fate \in [Task -> Fates]

LEMMA PushLists ==
  ASSUME TypeOK, Sorted, Listed, NEW t \in Task, Push(t)
  PROVE  Lists' /\ Sorted' /\ Listed'
<1>1. tasks \in Seq(Task) /\ timers \in Seq(Timer) /\ fate \in [Task -> Fates]
  BY DEF TypeOK
<1>2. /\ tasks' = Append(tasks, t) /\ timers' = timers
      /\ fate' = [fate EXCEPT ![t] = "queued"] /\ fate[t] = "new"
  BY DEF Push
<1>3. /\ tasks' \in Seq(Task) /\ Len(tasks') = Len(tasks) + 1
      /\ \A i \in 1 .. Len(tasks) : tasks'[i] = tasks[i]
      /\ tasks'[Len(tasks) + 1] = t
  BY <1>1, <1>2, AppendProperties
<1>4. Lists'
  BY <1>1, <1>2, <1>3 DEF Lists, Fates
<1>5. \A i \in 1 .. Len(tasks) : tasks[i] # t
  BY <1>2 DEF Listed
<1>6. /\ \A i \in 1 .. Len(tasks') : fate'[tasks'[i]] = "queued"
      /\ \A i, j \in 1 .. Len(tasks') : tasks'[i] = tasks'[j] => i = j
  BY <1>1, <1>2, <1>3, <1>5, ListTypes DEF Listed
<1>7. \A i \in 1 .. Len(timers') : fate'[timers'[i].task] = "timed"
  BY <1>1, <1>2, ListTypes DEF Listed
<1> QED BY <1>2, <1>4, <1>6, <1>7 DEF Listed, Sorted

LEMMA PushDelayedLists ==
  ASSUME TypeOK, Sorted, Listed, NEW t \in Task, NEW d \in Delay, PushDelayed(t, d)
  PROVE  Lists' /\ Sorted' /\ Listed'
<1> DEFINE e == Entry(now + d, t)
<1>1. tasks \in Seq(Task) /\ timers \in Seq(Timer) /\ fate \in [Task -> Fates]
  BY DEF TypeOK
<1>2. /\ fate' = [fate EXCEPT ![t] = "timed"] /\ fate[t] = "new" /\ tasks' = tasks
  BY DEF PushDelayed
<1>3. PICK i \in 1 .. Len(timers) + 1 : IsPlace(i, now + d) /\ timers' = Inserted(i, e)
  BY DEF PushDelayed
<1>4. now + d \in Nat
  BY TimeAssumption DEF TypeOK
<1>5. e \in Timer /\ e.at = now + d /\ e.task = t
  BY <1>4 DEF Entry, Timer
<1>6. timers' \in Seq(Timer) /\ Len(timers') = Len(timers) + 1
  BY <1>1, <1>3, <1>5, InsertedSeq
<1>7. Lists'
  BY <1>1, <1>2, <1>6 DEF Lists, Fates
<1>8. \A j \in 1 .. Len(timers) + 1 : timers'[j] =
         IF j < i THEN timers[j] ELSE IF j = i THEN e ELSE timers[j - 1]
  BY <1>3 DEF Inserted
<1> HIDE DEF e
<1>9. Sorted'
  <2>1. \A j \in 1 .. Len(timers) : j >= i => timers[j].at < now + d
    BY <1>3, <1>4, ListTypes DEF IsPlace, Sorted
  <2>2. \A j \in 1 .. i - 1 : timers[j].at >= now + d
    BY <1>3 DEF IsPlace
  <2>3. SUFFICES ASSUME NEW j \in 1 .. Len(timers) + 1, NEW k \in 1 .. Len(timers) + 1, j < k
                 PROVE  timers'[j].at >= timers'[k].at
    BY <1>6 DEF Sorted
  <2>4. CASE j < i /\ k < i
    BY <1>8, <2>3, <2>4, ListTypes DEF Sorted
  <2>5. CASE j < i /\ k = i
    BY <1>5, <1>8, <2>2, <2>3, <2>5, ListTypes
  <2>6. CASE j < i /\ k > i
    BY <1>8, <2>3, <2>6, ListTypes DEF Sorted
  <2>7. CASE j = i
    BY <1>4, <1>5, <1>8, <2>1, <2>3, <2>7, ListTypes, SMTT(60)
  <2>8. CASE j > i
    BY <1>8, <2>3, <2>8, ListTypes, SMTT(60) DEF Sorted
  <2> QED BY <2>4, <2>5, <2>6, <2>7, <2>8, ListTypes
<1>10. \A j \in 1 .. Len(timers) : timers[j].task # t
  BY <1>2 DEF Listed
<1> DEFINE old(j) == IF j < i THEN j ELSE j - 1
<1>0. \A j \in 1 .. Len(timers) + 1 : j # i =>
         old(j) \in 1 .. Len(timers) /\ timers'[j] = timers[old(j)]
  BY <1>8, ListTypes
<1>00. timers'[i] = e
  BY <1>8
<1>11. \A j \in 1 .. Len(timers) + 1 : fate'[timers'[j].task] = "timed"
  <2> HIDE DEF old
  <2>1. \A k \in 1 .. Len(timers) : fate'[timers[k].task] = "timed"
    BY <1>1, <1>2, ListTypes DEF Listed
  <2>2. fate'[t] = "timed"
    BY <1>1, <1>2
  <2> QED BY <1>0, <1>00, <1>5, <2>1, <2>2
<1>12. \A j, k \in 1 .. Len(timers) + 1 : timers'[j].task = timers'[k].task => j = k
  <2>1. \A j, k \in 1 .. Len(timers) + 1 : j # i /\ k # i /\ old(j) = old(k) => j = k
    BY ListTypes
  <2> HIDE DEF old
  <2> QED BY <1>0, <1>00, <1>5, <1>10, <2>1 DEF Listed
<1>13. \A j \in 1 .. Len(tasks) : fate'[tasks[j]] = "queued"
  BY <1>1, <1>2, ListTypes DEF Listed
<1> QED BY <1>2, <1>6, <1>7, <1>9, <1>11, <1>12, <1>13 DEF Listed

\* Cancelling and starting a timer both take one entry away.
LEMMA ErasedLists ==
  ASSUME TypeOK, Sorted, Listed, NEW i \in 1 .. Len(timers), NEW f \in Fates,
         timers' = Erased(i), tasks' = tasks,
         fate' = [fate EXCEPT ![timers[i].task] = f]
  PROVE  Lists' /\ Sorted' /\ Listed'
<1>1. tasks \in Seq(Task) /\ timers \in Seq(Timer) /\ fate \in [Task -> Fates]
  BY DEF TypeOK
<1>2. timers' \in Seq(Timer) /\ Len(timers') = Len(timers) - 1
  BY <1>1, ErasedSeq
<1>3. Lists'
  BY <1>1, <1>2 DEF Lists
<1>4. \A j \in 1 .. Len(timers) - 1 :
         timers'[j] = IF j < i THEN timers[j] ELSE timers[j + 1]
  BY DEF Erased
<1> DEFINE old(j) == IF j < i THEN j ELSE j + 1
<1>0. \A j \in 1 .. Len(timers) - 1 :
         old(j) \in 1 .. Len(timers) /\ timers'[j] = timers[old(j)]
  BY <1>4, ListTypes
<1>5. Sorted'
  <2>1. \A j, k \in 1 .. Len(timers) - 1 : j < k => old(j) < old(k)
    BY ListTypes
  <2> HIDE DEF old
  <2> QED BY <1>0, <1>2, <2>1 DEF Sorted
<1>6. timers[i].task \in Task /\ fate[timers[i].task] = "timed"
  BY ListTypes DEF Listed
<1>7. \A j \in 1 .. Len(timers) : j # i => fate'[timers[j].task] = "timed"
  BY <1>1, <1>6, ListTypes DEF Listed
<1>8. \A j \in 1 .. Len(timers) - 1 : fate'[timers'[j].task] = "timed"
  BY <1>4, <1>7, ListTypes
<1>9. \A j, k \in 1 .. Len(timers) - 1 : timers'[j].task = timers'[k].task => j = k
  <2>1. \A j, k \in 1 .. Len(timers) - 1 : old(j) = old(k) => j = k
    BY ListTypes
  <2> HIDE DEF old
  <2> QED BY <1>0, <2>1, SMTT(60) DEF Listed
<1>10. \A j \in 1 .. Len(tasks) : fate'[tasks[j]] = "queued"
  BY <1>1, <1>6, ListTypes DEF Listed
<1> QED BY <1>2, <1>3, <1>5, <1>8, <1>9, <1>10, SMTT(60) DEF Listed

LEMMA PopLists ==
  ASSUME TypeOK, Sorted, Listed, NEW w \in Worker, Pop(w)
  PROVE  /\ Lists' /\ Sorted' /\ Listed'
         /\ \E t \in Task : /\ job' = [job EXCEPT ![w] = t]
                            /\ fate' = [fate EXCEPT ![t] = "running"]
                            /\ fate[t] \in {"queued", "timed"}
<1>1. tasks \in Seq(Task) /\ timers \in Seq(Timer) /\ fate \in [Task -> Fates]
      /\ job \in [Worker -> Task \cup {NoTask}]
  BY DEF TypeOK
<1>2. CASE tasks # <<>>
  <2> DEFINE t == Head(tasks)
  <2>1. /\ job' = [job EXCEPT ![w] = t] /\ tasks' = Tail(tasks) /\ timers' = timers
        /\ fate' = [fate EXCEPT ![job'[w]] = "running"]
    BY <1>2 DEF Pop
  <2>2. t \in Task /\ t = tasks[1] /\ Len(tasks) \in Nat \ {0}
        /\ tasks' \in Seq(Task) /\ Len(tasks') = Len(tasks) - 1
        /\ \A i \in 1 .. Len(tasks) - 1 : tasks'[i] = tasks[i + 1]
    BY <1>1, <1>2, <2>1, TailFacts
  <2> HIDE DEF t
  <2>3. fate' = [fate EXCEPT ![t] = "running"]
    BY <1>1, <2>1
  <2>4. fate[t] = "queued"
    BY <2>2 DEF Listed
  <2>5. Lists'
    BY <1>1, <2>1, <2>2, <2>3 DEF Lists, Fates
  <2>6. \A i \in 1 .. Len(tasks) - 1 : fate'[tasks'[i]] = "queued"
    <3>1. \A j \in 2 .. Len(tasks) : tasks[j] # t
      BY <2>2 DEF Listed
    <3>2. \A j \in 2 .. Len(tasks) : tasks[j] \in Task /\ fate[tasks[j]] = "queued"
      BY <2>2, ListTypes DEF Listed
    <3>3. \A j \in 2 .. Len(tasks) : fate'[tasks[j]] = "queued"
      BY <1>1, <2>3, <3>1, <3>2
    <3> QED BY <2>2, <3>3
  <2>7. \A i, j \in 1 .. Len(tasks) - 1 : tasks'[i] = tasks'[j] => i = j
    BY <2>2 DEF Listed
  <2>8. \A i \in 1 .. Len(timers) : fate'[timers[i].task] = "timed"
    BY <1>1, <2>3, <2>4, ListTypes DEF Listed
  <2>9. Listed'
    BY <2>1, <2>2, <2>6, <2>7, <2>8 DEF Listed
  <2> QED BY <2>1, <2>2, <2>3, <2>4, <2>5, <2>9 DEF Sorted
<1>3. CASE tasks = <<>>
  <2> DEFINE t == timers[Len(timers)].task
  <2>1. /\ job' = [job EXCEPT ![w] = t] /\ tasks' = tasks
        /\ timers' = Erased(Len(timers)) /\ timers # <<>>
        /\ fate' = [fate EXCEPT ![job'[w]] = "running"]
    BY <1>3 DEF Pop, TimerDue, Soonest
  <2>2. Len(timers) \in 1 .. Len(timers)
    BY <1>1, <2>1, EmptySeq, LenProperties
  <2>3. t \in Task /\ fate[t] = "timed"
    BY <2>2, ListTypes DEF Listed
  <2>4. fate' = [fate EXCEPT ![t] = "running"]
    BY <1>1, <2>1
  <2>5. Lists' /\ Sorted' /\ Listed'
    BY <2>1, <2>2, <2>4, ErasedLists DEF Fates
  <2> HIDE DEF t
  <2> QED BY <2>1, <2>3, <2>4, <2>5
<1> QED BY <1>2, <1>3

-----------------------------------------------------------------------------
(* The invariant.                                                          *)

LEMMA InitInv == Init => IndInv
<1> SUFFICES ASSUME Init PROVE IndInv
  OBVIOUS
<1>1. tasks \in Seq(Task) /\ timers \in Seq(Timer) /\ Len(tasks) = 0 /\ Len(timers) = 0
  BY EmptySeq DEF Init
<1>2. TypeOK
  BY <1>1 DEF Init, TypeOK, Steps, Fates
<1> QED BY <1>1, <1>2 DEF Init, IndInv, Sorted, Listed, Jobs, Working, NoLostWakeUp, Continue

LEMMA PushInv ==
  ASSUME IndInv, NEW t \in Task, Push(t)
  PROVE  IndInv'
<1> USE DEF IndInv
<1>1. Lists' /\ Sorted' /\ Listed'
  BY PushLists
<1>2. /\ fate[t] = "new" /\ fate' = [fate EXCEPT ![t] = "queued"] /\ NotifyOne
      /\ UNCHANGED <<now, timers, phase, pc, job, deadline>>
  BY DEF Push
<1>3. notified' \in [Worker -> BOOLEAN] /\ \A w \in Worker : notified[w] => notified'[w]
  BY <1>2 DEF NotifyOne, TypeOK
<1>4. TypeOK'
  BY <1>1, <1>2, <1>3 DEF TypeOK, Lists
<1>5. Jobs'
  BY <1>2 DEF Jobs, TypeOK
<1>6. Continue => \E w \in Worker : Attends(w, Never)'
  <2> HAVE Continue
  <2>1. CASE Sleeping = {}
    BY <1>2, <1>3, <2>1, WorkerAssumption DEF Sleeping, Attends, Working
  <2>2. CASE Sleeping # {}
    <3>1. PICK w \in Sleeping : notified' = [notified EXCEPT ![w] = TRUE]
      BY <1>2, <2>2 DEF NotifyOne
    <3>2. w \in Worker /\ pc'[w] = "asleep" /\ notified'[w]
      BY <1>2, <3>1 DEF Sleeping, TypeOK
    <3> QED BY <3>2 DEF Attends
  <2> QED BY <2>1, <2>2
<1>7. NoLostWakeUp'
  BY <1>2, <1>3, <1>6 DEF NoLostWakeUp, Attends, Continue, Sleeping
<1> QED BY <1>1, <1>2, <1>4, <1>5, <1>7 DEF Working, Continue

LEMMA PushDelayedInv ==
  ASSUME IndInv, NEW t \in Task, NEW d \in Delay, PushDelayed(t, d)
  PROVE  IndInv'
<1> USE DEF IndInv
<1>1. Lists' /\ Sorted' /\ Listed'
  BY PushDelayedLists
<1>2. /\ fate[t] = "new" /\ fate' = [fate EXCEPT ![t] = "timed"] /\ NotifyAll
      /\ UNCHANGED <<now, tasks, phase, pc, job, deadline>>
  BY DEF PushDelayed
<1>3. /\ notified' \in [Worker -> BOOLEAN]
      /\ \A w \in Worker : notified'[w] <=> notified[w] \/ pc[w] = "asleep"
  BY <1>2 DEF NotifyAll, TypeOK
<1>4. TypeOK'
  BY <1>1, <1>2, <1>3 DEF TypeOK, Lists
<1>5. Jobs'
  BY <1>2 DEF Jobs, TypeOK
<1>6. Continue => \A w \in Worker : \A at \in Nat \cup {Never} : Attends(w, at)'
  BY <1>2, <1>3 DEF Attends, Working
<1>7. Continue => \A i \in 1 .. Len(timers') : \E w \in Worker : Attends(w, timers[i].at)'
  <2>1. \A i \in 1 .. Len(timers') : timers'[i].at \in Nat
    <3>1. timers' \in Seq(Timer)
      BY <1>1 DEF Lists
    <3>2. \A i \in 1 .. Len(timers') : timers'[i] \in Timer
      BY <3>1, ElementOfSeq
    <3> QED BY <3>2 DEF Timer
  <2> QED BY <1>6, <2>1, WorkerAssumption DEF Attends
<1>8. NoLostWakeUp'
  BY <1>2, <1>3, <1>6, <1>7, WorkerAssumption DEF NoLostWakeUp, Continue, Sleeping
<1> QED BY <1>1, <1>2, <1>4, <1>5, <1>8 DEF Working, Continue

LEMMA CancelInv ==
  ASSUME IndInv, NEW i \in 1 .. Len(timers), Cancel(i)
  PROVE  IndInv'
<1> USE DEF IndInv
<1>1. /\ fate' = [fate EXCEPT ![timers[i].task] = "cancelled"] /\ timers' = Erased(i)
      /\ UNCHANGED <<now, tasks, phase, pc, job, deadline, notified>>
  BY DEF Cancel
<1>2. Lists' /\ Sorted' /\ Listed'
  BY <1>1, ErasedLists DEF Fates
<1>3. TypeOK'
  BY <1>1, <1>2 DEF TypeOK, Lists
<1>4. fate[timers[i].task] = "timed" /\ timers[i].task \in Task
  BY ListTypes DEF Listed
<1>5. Jobs'
  BY <1>1, <1>4 DEF Jobs, TypeOK
<1>6. timers \in Seq(Timer)
  BY DEF TypeOK
<1>7. \A j \in 1 .. Len(timers') : \E k \in 1 .. Len(timers) : timers'[j] = timers[k]
  <2>1. Len(Erased(i)) = Len(timers) - 1
    BY <1>6, ErasedSeq
  <2>2. \A j \in 1 .. Len(timers) - 1 : \E k \in 1 .. Len(timers) : Erased(i)[j] = timers[k]
    BY <1>6, ErasedEntries
  <2> QED BY <1>1, <2>1, <2>2
<1>8. NoLostWakeUp'
  BY <1>1, <1>7 DEF NoLostWakeUp, Attends, Continue, Sleeping
<1> QED BY <1>1, <1>2, <1>3, <1>5, <1>8 DEF Working, Continue

LEMMA LoopInv ==
  ASSUME IndInv, NEW w \in Worker, Loop(w)
  PROVE  IndInv'
<1> USE DEF IndInv
<1>1. pc[w] = "loop" /\ UNCHANGED <<now, phase, deadline, notified>>
  BY DEF Loop
<1>2. CASE Continue /\ Ready /\ Pop(w) /\ Go(w, "run")
  <2>1. Lists' /\ Sorted' /\ Listed'
    BY <1>2, PopLists
  <2>2. PICK t \in Task : /\ job' = [job EXCEPT ![w] = t]
                         /\ fate' = [fate EXCEPT ![t] = "running"]
                         /\ fate[t] \in {"queued", "timed"}
    BY <1>2, PopLists
  <2>3. pc' = [pc EXCEPT ![w] = "run"] /\ Continue
    BY <1>2 DEF Go
  <2>4. TypeOK'
    BY <1>1, <2>1, <2>2, <2>3 DEF TypeOK, Lists, Steps
  <2>5. Jobs'
    BY <2>2, <2>3 DEF Jobs, TypeOK
  <2>6. Working'
    BY <1>1, <2>3 DEF Working, TypeOK, Continue
  <2>7. \A at : Attends(w, at)'
    BY <2>3 DEF Attends, TypeOK
  <2>8. NoLostWakeUp'
    BY <1>1, <2>3, <2>7 DEF NoLostWakeUp, Continue
  <2> QED BY <2>1, <2>4, <2>5, <2>6, <2>8
<1>3. CASE Go(w, IF Continue THEN "check" ELSE "drain") /\ UNCHANGED <<tasks, timers, job, fate>>
  <2>1. pc' = [pc EXCEPT ![w] = IF Continue THEN "check" ELSE "drain"]
    BY <1>3 DEF Go
  <2>2. TypeOK'
    BY <1>1, <1>3, <2>1 DEF TypeOK, Steps
  <2>3. Jobs'
    BY <1>3, <2>1 DEF Jobs, TypeOK
  <2>4. Working'
    BY <1>1, <2>1 DEF Working, TypeOK, Continue
  <2>5. Continue => \A at : Attends(w, at)'
    BY <2>1 DEF Attends, TypeOK
  <2>6. NoLostWakeUp'
    BY <1>1, <1>3, <2>1, <2>5 DEF NoLostWakeUp, Continue, Sleeping, TypeOK
  <2> QED BY <1>3, <2>2, <2>3, <2>4, <2>6 DEF Sorted, Listed
<1> QED BY <1>2, <1>3 DEF Loop

LEMMA RunInv ==
  ASSUME IndInv, NEW w \in Worker, Run(w)
  PROVE  IndInv'
<1> USE DEF IndInv
<1> DEFINE t == job[w]
           next == IF pc[w] = "run" THEN "loop" ELSE "drain"
<1>1. /\ pc[w] \in {"run", "lastrun"}
      /\ fate' = [fate EXCEPT ![t] = "done"] /\ pc' = [pc EXCEPT ![w] = next]
      /\ job' = [job EXCEPT ![w] = NoTask]
      /\ UNCHANGED <<now, tasks, timers, phase, deadline, notified>>
  BY DEF Run, Go
<1>2. t \in Task /\ fate[t] \in {"running", "done"}
  BY <1>1 DEF Jobs
<1>3. next \in {"loop", "drain"} /\ (Continue => next = "loop")
  BY <1>1 DEF Working
<1> HIDE DEF t, next
<1>4. TypeOK'
  BY <1>1, <1>2, <1>3 DEF TypeOK, Steps, Fates
<1>5. Jobs'
  BY <1>1, <1>2, <1>3 DEF Jobs, TypeOK
<1>6. Listed'
  <2>1. \A i \in 1 .. Len(tasks) : fate'[tasks[i]] = "queued"
    BY <1>1, <1>2, ListTypes DEF Listed, TypeOK
  <2>2. \A i \in 1 .. Len(timers) : fate'[timers[i].task] = "timed"
    BY <1>1, <1>2, ListTypes DEF Listed, TypeOK
  <2> QED BY <1>1, <2>1, <2>2 DEF Listed
<1>7. Working'
  BY <1>1, <1>3 DEF Working, TypeOK, Continue
<1>8. Continue => \A at : Attends(w, at)'
  BY <1>1, <1>3 DEF Attends, TypeOK
<1>9. NoLostWakeUp'
  BY <1>1, <1>3, <1>8 DEF NoLostWakeUp, Continue, Sleeping, TypeOK
<1> QED BY <1>1, <1>4, <1>5, <1>6, <1>7, <1>9 DEF Sorted

LEMMA CheckInv ==
  ASSUME IndInv, NEW w \in Worker, Check(w)
  PROVE  IndInv'
<1> USE DEF IndInv
<1>1. pc[w] = "check" /\ UNCHANGED <<now, tasks, timers, phase, job, notified, fate>>
  BY DEF Check
<1>2. CASE Continue /\ ~ Ready /\ Go(w, "asleep") /\ deadline' = [deadline EXCEPT ![w] =
                   IF timers = <<>> THEN Never ELSE timers[Soonest].at]
  <2> DEFINE d == IF timers = <<>> THEN Never ELSE timers[Soonest].at
  <2>1. pc' = [pc EXCEPT ![w] = "asleep"] /\ deadline' = [deadline EXCEPT ![w] = d]
    BY <1>2 DEF Go
  <2>2. /\ d \in Nat \cup {Never}
        /\ \A i \in 1 .. Len(timers) : d # Never /\ d <= timers[i].at
    <3>1. CASE timers = <<>>
      BY <3>1, EmptySeq
    <3>2. CASE timers # <<>>
      <4>1. Len(timers) \in 1 .. Len(timers)
        BY <3>2, EmptySeq, LenProperties, ListTypes DEF TypeOK
      <4> QED BY <3>2, <4>1, ListTypes DEF Soonest, Sorted, Never
    <3> QED BY <3>1, <3>2
  <2> HIDE DEF d
  <2>3. TypeOK'
    BY <1>1, <2>1, <2>2 DEF TypeOK, Steps
  <2>4. Jobs' /\ Working'
    BY <1>1, <1>2, <2>1 DEF Jobs, Working, TypeOK, Continue
  <2>5. \A i \in 1 .. Len(timers) : Attends(w, timers[i].at)'
    BY <1>1, <2>1, <2>2 DEF Attends, TypeOK
  <2>6. tasks = <<>> /\ phase = "running"
    BY <1>2 DEF Ready, Continue
  <2>7. NoLostWakeUp'
    BY <1>1, <2>5, <2>6 DEF NoLostWakeUp, Continue
  <2> QED BY <1>1, <2>3, <2>4, <2>7 DEF Sorted, Listed
<1>3. CASE UNCHANGED deadline /\ (Go(w, "loop") \/ (~ Continue /\ Go(w, "drain")))
  <2>1. PICK next \in {"loop", "drain"} :
           pc' = [pc EXCEPT ![w] = next] /\ (Continue => next = "loop")
    BY <1>3 DEF Go
  <2>2. TypeOK'
    BY <1>1, <1>3, <2>1 DEF TypeOK, Steps
  <2>3. Jobs' /\ Working'
    BY <1>1, <2>1 DEF Jobs, Working, TypeOK, Continue
  <2>4. Continue => \A at : Attends(w, at)'
    BY <2>1 DEF Attends, TypeOK
  <2>5. NoLostWakeUp'
    BY <1>1, <1>3, <2>1, <2>4 DEF NoLostWakeUp, Continue, Sleeping, TypeOK
  <2> QED BY <1>1, <2>2, <2>3, <2>5 DEF Sorted, Listed
<1> HIDE DEF IndInv
<1>4. CASE Ready
  <2>1. UNCHANGED deadline /\ Go(w, "loop")
    BY <1>4 DEF Check
  <2> QED BY <1>3, <2>1 DEF Go
<1>5. CASE ~ Ready /\ ~ Continue
  <2>1. UNCHANGED deadline /\ Go(w, "drain")
    BY <1>5 DEF Check
  <2> QED BY <1>3, <1>5, <2>1
<1>6. CASE ~ Ready /\ Continue
  <2>1. Go(w, "asleep") /\ deadline' = [deadline EXCEPT ![w] =
                   IF timers = <<>> THEN Never ELSE timers[Soonest].at]
    BY <1>6 DEF Check
  <2> QED BY <1>2, <1>6, <2>1
<1> QED BY <1>4, <1>5, <1>6

LEMMA WakeUpInv ==
  ASSUME IndInv, NEW w \in Worker, WakeUp(w)
  PROVE  IndInv'
<1> USE DEF IndInv
<1>1. /\ pc[w] = "asleep" /\ pc' = [pc EXCEPT ![w] = "loop"]
      /\ deadline' = [deadline EXCEPT ![w] = Never]
      /\ notified' = [notified EXCEPT ![w] = FALSE]
      /\ UNCHANGED <<now, tasks, timers, phase, job, fate>>
  BY DEF WakeUp, Go
<1>2. TypeOK'
  BY <1>1 DEF TypeOK, Steps
<1>3. Jobs' /\ Working'
  BY <1>1 DEF Jobs, Working, TypeOK, Continue
<1>4. \A at : Attends(w, at)'
  BY <1>1 DEF Attends, TypeOK
<1>5. NoLostWakeUp'
  BY <1>1, <1>4 DEF NoLostWakeUp, Continue, Sleeping, TypeOK
<1> QED BY <1>1, <1>2, <1>3, <1>5 DEF Sorted, Listed

LEMMA DrainInv ==
  ASSUME IndInv, NEW w \in Worker, Drain(w)
  PROVE  IndInv'
<1> USE DEF IndInv
<1>1. pc[w] = "drain" /\ UNCHANGED <<now, phase, deadline, notified>> /\ ~ Continue
  BY DEF Drain, Working
<1>2. CASE Pop(w) /\ Go(w, "lastrun")
  <2>1. Lists' /\ Sorted' /\ Listed'
    BY <1>2, PopLists
  <2>2. PICK t \in Task : /\ job' = [job EXCEPT ![w] = t]
                         /\ fate' = [fate EXCEPT ![t] = "running"]
                         /\ fate[t] \in {"queued", "timed"}
    BY <1>2, PopLists
  <2>3. pc' = [pc EXCEPT ![w] = "lastrun"]
    BY <1>2 DEF Go
  <2>4. TypeOK'
    BY <1>1, <2>1, <2>2, <2>3 DEF TypeOK, Lists, Steps
  <2>5. Jobs' /\ Working'
    BY <1>1, <2>2, <2>3 DEF Jobs, Working, TypeOK, Continue
  <2>6. NoLostWakeUp'
    BY <1>1, <2>3 DEF NoLostWakeUp, Continue, Sleeping, TypeOK
  <2> QED BY <2>1, <2>4, <2>5, <2>6
<1>3. CASE Go(w, "exited") /\ UNCHANGED <<tasks, timers, job, fate>>
  <2>1. pc' = [pc EXCEPT ![w] = "exited"]
    BY <1>3 DEF Go
  <2>2. TypeOK'
    BY <1>1, <1>3, <2>1 DEF TypeOK, Steps
  <2>3. Jobs' /\ Working'
    BY <1>1, <1>3, <2>1 DEF Jobs, Working, TypeOK, Continue
  <2>4. NoLostWakeUp'
    BY <1>1, <2>1 DEF NoLostWakeUp, Continue, Sleeping, TypeOK
  <2> QED BY <1>3, <2>2, <2>3, <2>4 DEF Sorted, Listed
<1> QED BY <1>2, <1>3 DEF Drain

LEMMA MainInv ==
  ASSUME IndInv, Start \/ Stop \/ Join \/ Tick
  PROVE  IndInv'
<1> USE DEF IndInv
<1>1. CASE Start
  <2>1. /\ phase' = "running" /\ pc' = [w \in Worker |-> "loop"]
        /\ UNCHANGED <<now, tasks, timers, job, deadline, notified, fate>>
    BY <1>1 DEF Start
  <2>2. TypeOK' /\ Jobs' /\ Working'
    BY <2>1 DEF TypeOK, Jobs, Working, Steps
  <2>3. NoLostWakeUp'
    BY <2>1, WorkerAssumption DEF NoLostWakeUp, Attends, Continue
  <2> QED BY <2>1, <2>2, <2>3 DEF Sorted, Listed
<1>2. CASE Stop
  <2>1. /\ phase' = "stopped" /\ UNCHANGED <<now, tasks, timers, pc, job, deadline, fate>>
        /\ notified' = [w \in Worker |-> notified[w] \/ pc[w] = "asleep"]
    BY <1>2 DEF Stop, NotifyAll
  <2>2. notified' \in [Worker -> BOOLEAN] /\ Sleeping' = {}
    BY <2>1 DEF TypeOK, Sleeping
  <2>3. TypeOK' /\ Jobs' /\ Working'
    BY <2>1, <2>2 DEF TypeOK, Jobs, Working, Continue
  <2>4. NoLostWakeUp'
    BY <2>1, <2>2 DEF NoLostWakeUp, Continue
  <2> QED BY <2>1, <2>3, <2>4 DEF Sorted, Listed
<1>3. CASE Join
  BY <1>3 DEF Join, TypeOK, Jobs, Working, Continue, NoLostWakeUp, Sorted, Listed
<1>4. CASE Tick
  <2>1. now' \in Nat /\ UNCHANGED <<tasks, timers, phase, pc, job, deadline, notified, fate>>
    BY <1>4 DEF Tick, TypeOK
  <2> QED BY <2>1 DEF TypeOK, Jobs, Working, Continue, NoLostWakeUp, Attends, Sleeping, Sorted, Listed
<1> QED BY <1>1, <1>2, <1>3, <1>4

LEMMA NextInv == IndInv /\ [Next]_vars => IndInv'
<1> SUFFICES ASSUME IndInv, [Next]_vars PROVE IndInv'
  OBVIOUS
<1>1. CASE UNCHANGED vars
  BY <1>1 DEF vars, IndInv, TypeOK, Jobs, Working, Continue, NoLostWakeUp, Attends,
              Sleeping, Sorted, Listed
<1>2. CASE Start \/ Stop \/ Join \/ Tick
  BY <1>2, MainInv
<1>3. ASSUME NEW t \in Task, Push(t) PROVE IndInv'
  BY <1>3, PushInv
<1>4. ASSUME NEW t \in Task, NEW d \in Delay, PushDelayed(t, d) PROVE IndInv'
  BY <1>4, PushDelayedInv
<1>5. ASSUME NEW i \in 1 .. Len(timers), Cancel(i) PROVE IndInv'
  BY <1>5, CancelInv
<1>6. ASSUME NEW w \in Worker, Work(w) \/ SpuriousWake(w) PROVE IndInv'
  BY <1>6, LoopInv, RunInv, CheckInv, WakeUpInv, DrainInv DEF Work, Wake, SpuriousWake
<1> QED BY <1>1, <1>2, <1>3, <1>4, <1>5, <1>6 DEF Next

\* No wake-up is lost, for every number of tasks and workers: a sleeping pool
\* has nothing to do, and stop() reaches every sleeper.
THEOREM NothingSleepsThrough == Spec => []NoLostWakeUp
<1>1. Init => IndInv
  BY InitInv
<1>2. IndInv /\ [Next]_vars => IndInv'
  BY NextInv
<1>3. IndInv => NoLostWakeUp
  BY DEF IndInv
<1> QED BY <1>1, <1>2, <1>3, PTL DEF Spec

\* Every value stays of its type.
THEOREM Typed == Spec => []TypeOK
<1>1. IndInv => TypeOK
  BY DEF IndInv
<1> QED BY <1>1, InitInv, NextInv, PTL DEF Spec

-----------------------------------------------------------------------------
(* The pool implements TaskSchedule.                                       *)

Alarms == {timers[i] : i \in 1 .. Len(timers)}
Started == {t \in Task : fate[t] \in {"running", "done"}}
Dropped == {t \in Task : fate[t] = "cancelled"}

\* A new task is nowhere in the schedule.
LEMMA NewIsFresh ==
  ASSUME IndInv, NEW t \in Task, fate[t] = "new"
  PROVE  t \notin Schedule!InUse /\ \A a \in Alarms : a.task # t
<1>1. \A i \in 1 .. Len(tasks) : tasks[i] # t
  BY DEF IndInv, Listed
<1>2. \A i \in 1 .. Len(timers) : timers[i].task # t
  BY DEF IndInv, Listed
<1> QED BY <1>1, <1>2 DEF Schedule!InUse, Schedule!Alarmed, Alarms

LEMMA ErasedAlarms ==
  ASSUME IndInv, NEW i \in 1 .. Len(timers), timers' = Erased(i)
  PROVE  Alarms' = Alarms \ {timers[i]}
<1>1. timers \in Seq(Timer)
  BY DEF IndInv, TypeOK
<1>2. Len(timers') = Len(timers) - 1
  BY <1>1, ErasedSeq
<1>3. \A j \in 1 .. Len(timers') : \E k \in 1 .. Len(timers) : k # i /\ timers'[j] = timers[k]
  <2>1. \A j \in 1 .. Len(timers) - 1 :
           \E k \in 1 .. Len(timers) : k # i /\ Erased(i)[j] = timers[k]
    BY <1>1, ErasedEntries
  <2> QED BY <1>2, <2>1
<1>4. \A k \in 1 .. Len(timers) : k # i => \E j \in 1 .. Len(timers') : timers'[j] = timers[k]
  <2>1. \A k \in 1 .. Len(timers) : k # i =>
           \E j \in 1 .. Len(timers) - 1 : Erased(i)[j] = timers[k]
    BY <1>1, ErasedEntries
  <2> QED BY <1>2, <2>1
<1>5. \A k \in 1 .. Len(timers) : k # i => timers[k] # timers[i]
  BY DEF IndInv, Listed
<1>6. ASSUME NEW a \in Alarms' PROVE a \in Alarms \ {timers[i]}
  <2>1. PICK j \in 1 .. Len(timers') : a = timers'[j]
    BY <1>6 DEF Alarms
  <2>2. PICK k \in 1 .. Len(timers) : k # i /\ a = timers[k]
    BY <1>3, <2>1
  <2> QED BY <1>5, <2>2 DEF Alarms
<1>7. ASSUME NEW a \in Alarms \ {timers[i]} PROVE a \in Alarms'
  BY <1>4 DEF Alarms
<1> QED BY <1>6, <1>7

LEMMA InsertedAlarms ==
  ASSUME IndInv, NEW i \in 1 .. Len(timers) + 1, NEW e \in Timer, timers' = Inserted(i, e)
  PROVE  Alarms' = Alarms \cup {e}
<1>1. timers \in Seq(Timer) /\ Len(timers) \in Nat
  BY ListTypes DEF IndInv, TypeOK
<1>2. Len(timers') = Len(timers) + 1
  BY <1>1, InsertedSeq
<1>3. \A j \in 1 .. Len(timers) + 1 : timers'[j] =
         IF j < i THEN timers[j] ELSE IF j = i THEN e ELSE timers[j - 1]
  BY DEF Inserted
<1>4. \A j \in 1 .. Len(timers) + 1 : timers'[j] \in Alarms \cup {e}
  <2> TAKE j \in 1 .. Len(timers) + 1
  <2>1. CASE j < i
    BY <1>1, <1>3, <2>1 DEF Alarms
  <2>2. CASE j = i
    BY <1>3, <2>2
  <2>3. CASE j > i
    BY <1>1, <1>3, <2>3 DEF Alarms
  <2> QED BY <1>1, <2>1, <2>2, <2>3
<1>5. \A k \in 1 .. Len(timers) : \E j \in 1 .. Len(timers) + 1 : timers'[j] = timers[k]
  <2> TAKE k \in 1 .. Len(timers)
  <2>1. CASE k < i
    BY <1>1, <1>3, <2>1
  <2>2. CASE k >= i
    <3>1. k + 1 \in 1 .. Len(timers) + 1 /\ timers'[k + 1] = timers[k]
      BY <1>1, <1>3, <2>2
    <3> QED BY <3>1
  <2> QED BY <1>1, <2>1, <2>2
<1>6. timers'[i] = e
  BY <1>3
<1> QED BY <1>2, <1>4, <1>5, <1>6 DEF Alarms

\* The fate of one task changes, from one that counts as nothing.
LEMMA FateSets ==
  ASSUME IndInv, NEW t \in Task, NEW f \in Fates, fate' = [fate EXCEPT ![t] = f],
         fate[t] \in {"new", "queued", "timed"}
  PROVE  /\ t \notin Started
         /\ f \in {"queued", "timed"} => Started' = Started /\ Dropped' = Dropped
         /\ f = "cancelled" => Started' = Started /\ Dropped' = Dropped \cup {t}
         /\ f = "running" => Started' = Started \cup {t} /\ Dropped' = Dropped
<1>1. fate \in [Task -> Fates]
  BY DEF IndInv, TypeOK
<1>2. \A u \in Task : fate'[u] = IF u = t THEN f ELSE fate[u]
  BY <1>1
<1> QED BY <1>2 DEF Started, Dropped

LEMMA PopStarts ==
  ASSUME IndInv, NEW w \in Worker, Pop(w), now' = now
  PROVE  Schedule!Next
<1>1. TypeOK /\ fate \in [Task -> Fates] /\ job \in [Worker -> Task \cup {NoTask}]
  BY DEF IndInv, TypeOK
<1>2. CASE tasks # <<>>
  <2> DEFINE t == Head(tasks)
  <2>1. t \in Task /\ fate[t] = "queued"
    BY <1>1, <1>2, TailFacts DEF IndInv, TypeOK, Listed
  <2>2. /\ fate' = [fate EXCEPT ![t] = "running"] /\ tasks' = Tail(tasks)
        /\ timers' = timers
    BY <1>1, <1>2 DEF Pop
  <2>3. t \notin Started /\ Started' = Started \cup {t} /\ Dropped' = Dropped
    BY <2>1, <2>2, FateSets DEF Fates
  <2>4. Alarms' = Alarms
    BY <2>2 DEF Alarms
  <2>5. Schedule!StartFirst
    BY <1>2, <2>2, <2>3, <2>4 DEF Schedule!StartFirst, Started, Dropped, Alarms
  <2> QED BY <2>5 DEF Schedule!Next
<1>3. CASE tasks = <<>>
  <2>0. PICK a : a = timers[Len(timers)]
    OBVIOUS
  <2>1. /\ timers # <<>> /\ a.at <= now /\ tasks' = tasks /\ timers' = Erased(Len(timers))
        /\ fate' = [fate EXCEPT ![a.task] = "running"]
    BY <1>1, <1>3, <2>0 DEF Pop, TimerDue, Soonest
  <2>2. Len(timers) \in 1 .. Len(timers)
    BY <1>1, <2>1, EmptySeq, LenProperties DEF TypeOK
  <2>3. a \in Alarms /\ a.task \in Task /\ fate[a.task] = "timed"
    BY <1>1, <2>0, <2>2, ListTypes DEF IndInv, Listed, Alarms
  <2>4. \A i \in 1 .. Len(timers) : a.at <= timers[i].at
    BY <1>1, <2>0, <2>2, ListTypes DEF IndInv, Sorted
  <2>5. Alarms' = Alarms \ {a}
    BY <2>0, <2>1, <2>2, ErasedAlarms
  <2>6. a.task \notin Started /\ Started' = Started \cup {a.task} /\ Dropped' = Dropped
    BY <2>1, <2>3, FateSets DEF Fates
  <2>7. \A b \in Alarms : a.at <= b.at
    BY <2>4 DEF Alarms
  <2>8. Schedule!StartSoonest(a)
    BY <1>3, <2>1, <2>3, <2>5, <2>6, <2>7 DEF Schedule!StartSoonest, Started, Dropped, Alarms
  <2> QED BY <2>3, <2>8 DEF Schedule!Next, Alarms
<1> QED BY <1>2, <1>3

LEMMA Simulation == IndInv /\ [Next]_vars => [Schedule!Next]_Schedule!vars
<1> SUFFICES ASSUME IndInv, [Next]_vars PROVE [Schedule!Next]_Schedule!vars
  OBVIOUS
<1>1. TypeOK
  BY DEF IndInv
<1>2. ASSUME UNCHANGED <<now, tasks, timers, fate>> PROVE UNCHANGED Schedule!vars
  BY <1>2 DEF Schedule!vars
<1>3. ASSUME NEW t \in Task, Push(t) PROVE Schedule!Next
  <2>1. /\ fate[t] = "new" /\ fate' = [fate EXCEPT ![t] = "queued"]
        /\ tasks' = Append(tasks, t) /\ UNCHANGED <<now, timers>>
    BY <1>3 DEF Push
  <2>2. t \notin Schedule!InUse /\ Started' = Started /\ Dropped' = Dropped
    BY <2>1, NewIsFresh, FateSets DEF Fates
  <2>3. Schedule!Accept(t)
    BY <2>1, <2>2 DEF Schedule!Accept, Started, Dropped
  <2> QED BY <2>3 DEF Schedule!Next
<1>4. ASSUME NEW t \in Task, NEW d \in Delay, PushDelayed(t, d) PROVE Schedule!Next
  <2> DEFINE e == Entry(now + d, t)
  <2>1. /\ fate[t] = "new" /\ fate' = [fate EXCEPT ![t] = "timed"] /\ UNCHANGED <<now, tasks>>
    BY <1>4 DEF PushDelayed
  <2>2. PICK i \in 1 .. Len(timers) + 1 : timers' = Inserted(i, e)
    BY <1>4 DEF PushDelayed
  <2>3. e \in Timer /\ e.at >= now /\ e.task = t
    BY <1>1, TimeAssumption DEF TypeOK, Entry, Timer
  <2>4. Alarms' = Alarms \cup {e}
    BY <2>2, <2>3, InsertedAlarms
  <2>5. /\ t \notin Schedule!InUse /\ e \notin Alarms
        /\ Started' = Started /\ Dropped' = Dropped
    BY <2>1, <2>3, NewIsFresh, FateSets DEF Fates
  <2> HIDE DEF e
  <2>6. Schedule!SetAlarm(t)
    BY <2>1, <2>3, <2>4, <2>5 DEF Schedule!SetAlarm, Started, Dropped, Alarms
  <2> QED BY <2>6 DEF Schedule!Next
<1>5. ASSUME NEW i \in 1 .. Len(timers), Cancel(i) PROVE Schedule!Next
  <2>0. PICK a : a = timers[i]
    OBVIOUS
  <2>1. /\ fate' = [fate EXCEPT ![a.task] = "cancelled"] /\ timers' = Erased(i)
        /\ UNCHANGED <<now, tasks>>
    BY <1>5, <2>0 DEF Cancel
  <2>2. a \in Alarms /\ a.task \in Task /\ fate[a.task] = "timed"
    BY <1>1, <2>0, ListTypes DEF IndInv, Listed, Alarms
  <2>3. Alarms' = Alarms \ {a}
    BY <2>0, <2>1, ErasedAlarms
  <2>4. Started' = Started /\ Dropped' = Dropped \cup {a.task}
    BY <2>1, <2>2, FateSets DEF Fates
  <2>5. Schedule!Drop(a)
    BY <2>1, <2>2, <2>3, <2>4 DEF Schedule!Drop, Started, Dropped, Alarms
  <2> QED BY <2>2, <2>5 DEF Schedule!Next, Alarms
<1>6. ASSUME NEW w \in Worker, Pop(w), now' = now PROVE Schedule!Next
  BY <1>6, PopStarts
<1>7. ASSUME NEW w \in Worker, Run(w) PROVE UNCHANGED Schedule!vars
  <2>1. /\ job[w] \in Task /\ fate[job[w]] \in {"running", "done"}
        /\ fate' = [fate EXCEPT ![job[w]] = "done"]
        /\ UNCHANGED <<now, tasks, timers>>
    BY <1>7 DEF IndInv, Jobs, Run
  <2>2. \A t \in Task : fate'[t] = IF t = job[w] THEN "done" ELSE fate[t]
    BY <1>1, <2>1 DEF TypeOK
  <2>3. Started' = Started /\ Dropped' = Dropped
    BY <2>1, <2>2 DEF Started, Dropped
  <2> QED BY <2>1, <2>3 DEF Schedule!vars, Started, Dropped
<1>8. CASE Tick
  <2>1. now' = now + 1 /\ UNCHANGED <<tasks, timers, fate>>
    BY <1>8 DEF Tick
  <2>2. Schedule!Pass
    BY <2>1 DEF Schedule!Pass
  <2> QED BY <2>2 DEF Schedule!Next
<1>9. ASSUME NEW w \in Worker, Work(w) \/ SpuriousWake(w)
      PROVE  Schedule!Next \/ UNCHANGED Schedule!vars
  <2>1. CASE Loop(w)
    BY <1>2, <1>6, <2>1 DEF Loop
  <2>2. CASE Run(w)
    BY <1>7, <2>2
  <2>3. CASE Check(w)
    BY <1>2, <2>3 DEF Check
  <2>4. CASE WakeUp(w)
    BY <1>2, <2>4 DEF WakeUp
  <2>5. CASE Drain(w)
    BY <1>2, <1>6, <2>5 DEF Drain
  <2> QED BY <1>9, <2>1, <2>2, <2>3, <2>4, <2>5 DEF Work, Wake, SpuriousWake
<1>10. CASE Start \/ Stop \/ Join
  BY <1>2, <1>10 DEF Start, Stop, Join
<1>11. CASE UNCHANGED vars
  BY <1>2, <1>11 DEF vars
<1> QED BY <1>3, <1>4, <1>5, <1>8, <1>9, <1>10, <1>11 DEF Next

\* The pool starts tasks as TaskSchedule says, whatever the number of callers,
\* tasks and workers.
THEOREM KeepsSchedule == Spec => InOrder
<1>1. Init => Schedule!Init
  <2> SUFFICES ASSUME Init PROVE Schedule!Init
    OBVIOUS
  <2>1. timers = <<>> /\ Len(timers) = 0
    BY DEF Init
  <2> QED BY <2>1 DEF Init, Schedule!Init
<1> QED BY <1>1, InitInv, NextInv, Simulation, PTL DEF Spec, InOrder, Schedule!Spec
=============================================================================
