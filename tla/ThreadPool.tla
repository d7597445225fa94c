----------------------------- MODULE ThreadPool -----------------------------
(***************************************************************************)
(* Sunshine's task pool (src/task_pool.h, src/thread_pool.h): any thread   *)
(* pushes tasks, delays them or cancels them, worker threads run them.     *)
(* pop() and cancel() take _task_mutex only; push(), pushDelayed(), stop() *)
(* and a worker that goes to sleep also hold _lock.  Each of these is one  *)
(* step: between the ready() and the next() of a worker that goes to sleep *)
(* nobody can push, and a task taken away in between changes its deadline  *)
(* as if it had been taken before.                                         *)
(***************************************************************************)
EXTENDS Integers, Sequences

CONSTANTS
    Task,       \* task objects; one object is pushed at most once
    Worker,     \* threads of the pool (main.cpp starts one)
    Delay,      \* delays callers ask for, in ticks
    MaxTime,    \* last tick (bound)
    NoTask

ASSUME TimeAssumption == MaxTime \in Nat /\ Delay \subseteq Nat
ASSUME WorkerAssumption == Worker # {}
ASSUME TaskAssumption == NoTask \notin Task

VARIABLES
    now,        \* steady_clock
    tasks,      \* _tasks
    timers,     \* _timer_tasks; the back is taken first
    phase,      \* of main(); _continue is phase = "running"
    pc, job,    \* of each worker
    deadline,   \* of wait_until; Never is a wait without one
    notified,   \* whether a notify reached the sleeping worker
    fate        \* history: what became of each task

vars == <<now, tasks, timers, phase, pc, job, deadline, notified, fate>>

Timer == [at : Nat, task : Task]
Never == -1
Fates == {"new", "queued", "timed", "running", "done", "cancelled"}
Steps == {"unborn", "loop", "run", "check", "asleep", "drain", "lastrun", "exited"}

Init ==
    /\ now = 0
    /\ tasks = <<>> /\ timers = <<>>
    /\ phase = "new"
    /\ pc = [w \in Worker |-> "unborn"]
    /\ job = [w \in Worker |-> NoTask]
    /\ deadline = [w \in Worker |-> Never]
    /\ notified = [w \in Worker |-> FALSE]
    /\ fate = [t \in Task |-> "new"]

Continue == phase = "running"

-----------------------------------------------------------------------------
(* The condition variable.                                                 *)

Sleeping == {w \in Worker : pc[w] = "asleep" /\ ~ notified[w]}

NotifyOne ==
    IF Sleeping = {} THEN UNCHANGED notified
    ELSE \E w \in Sleeping : notified' = [notified EXCEPT ![w] = TRUE]

NotifyAll == notified' = [w \in Worker |-> notified[w] \/ pc[w] = "asleep"]

-----------------------------------------------------------------------------
(* Callers.                                                                *)

Push(t) ==
    /\ fate[t] = "new"
    /\ tasks' = Append(tasks, t)
    /\ fate' = [fate EXCEPT ![t] = "queued"]
    /\ NotifyOne
    /\ UNCHANGED <<now, timers, phase, pc, job, deadline>>

\* Mutant: the entry goes before the first one that is due later.
IsPlaceLater(i, at) ==
    /\ \A j \in 1 .. i - 1 : timers[j].at <= at
    /\ i <= Len(timers) => timers[i].at > at

\* The entry goes before the first one that is due earlier.
IsPlace(i, at) ==
    /\ \A j \in 1 .. i - 1 : timers[j].at >= at
    /\ i <= Len(timers) => timers[i].at < at

\* Mutant: time and task are swapped.
EntrySwapped(at, t) == [at |-> t, task |-> at]
Entry(at, t) == [at |-> at, task |-> t]

Inserted(i, entry) ==
    [j \in 1 .. Len(timers) + 1 |->
        IF j < i THEN timers[j] ELSE IF j = i THEN entry ELSE timers[j - 1]]

Erased(i) ==
    [j \in 1 .. Len(timers) - 1 |-> IF j < i THEN timers[j] ELSE timers[j + 1]]

PushDelayed(t, d) ==
    /\ fate[t] = "new" /\ now + d <= MaxTime
    /\ \E i \in 1 .. Len(timers) + 1 :
          IsPlace(i, now + d) /\ timers' = Inserted(i, Entry(now + d, t))
    /\ fate' = [fate EXCEPT ![t] = "timed"]
    /\ NotifyAll
    /\ UNCHANGED <<now, tasks, phase, pc, job, deadline>>

\* cancel() of a task that runs, has run or was pushed returns false.
Cancel(i) ==
    /\ fate' = [fate EXCEPT ![timers[i].task] = "cancelled"]
    /\ timers' = Erased(i)
    /\ UNCHANGED <<now, tasks, phase, pc, job, deadline, notified>>

-----------------------------------------------------------------------------
(* Workers.                                                                *)

TimerDue == timers # <<>> /\ timers[Len(timers)].at <= now
Ready == tasks # <<>> \/ TimerDue

\* Mutant: the soonest task is looked for at the front.
Soonest1 == 1
Soonest == Len(timers)

\* pop(): tasks first, then a timer that is due.
Pop(w) ==
    /\ \/ /\ tasks # <<>>
          /\ job' = [job EXCEPT ![w] = Head(tasks)]
          /\ tasks' = Tail(tasks)
          /\ UNCHANGED timers
       \/ /\ tasks = <<>> /\ TimerDue
          /\ job' = [job EXCEPT ![w] = timers[Soonest].task]
          /\ timers' = Erased(Soonest)
          /\ UNCHANGED tasks
    /\ fate' = [fate EXCEPT ![job'[w]] = "running"]

Go(w, at) == pc' = [pc EXCEPT ![w] = at]

\* while (_continue) { if (auto task = this->pop()) ...
Loop(w) ==
    /\ pc[w] = "loop"
    /\ \/ Continue /\ Ready /\ Pop(w) /\ Go(w, "run")
       \/ /\ Go(w, IF Continue THEN "check" ELSE "drain")
          /\ ~ (Continue /\ Ready)
          /\ UNCHANGED <<tasks, timers, job, fate>>
    /\ UNCHANGED <<now, phase, deadline, notified>>

Run(w) ==
    /\ pc[w] \in {"run", "lastrun"}
    /\ fate' = [fate EXCEPT ![job[w]] = "done"]
    /\ Go(w, IF pc[w] = "run" THEN "loop" ELSE "drain")
    /\ job' = [job EXCEPT ![w] = NoTask]
    /\ UNCHANGED <<now, tasks, timers, phase, deadline, notified>>

\* Mutant: the worker trusts the pop() it did before it took the lock.
CheckBlind(w) ==
    /\ pc[w] = "check"
    /\ Go(w, "asleep")
    /\ deadline' = [deadline EXCEPT ![w] = Never]
    /\ UNCHANGED <<now, tasks, timers, phase, job, notified, fate>>

\* Under _lock: a task may have come, or stop() may have been called, since
\* pop() found nothing.
Check(w) ==
    /\ pc[w] = "check"
    /\ IF Ready THEN Go(w, "loop") /\ UNCHANGED deadline
       ELSE IF ~ Continue THEN Go(w, "drain") /\ UNCHANGED deadline
       ELSE /\ Go(w, "asleep")
            /\ deadline' = [deadline EXCEPT ![w] =
                   IF timers = <<>> THEN Never ELSE timers[Soonest].at]
    /\ UNCHANGED <<now, tasks, timers, phase, job, notified, fate>>

TimedOut(w) == deadline[w] # Never /\ deadline[w] <= now

WakeUp(w) ==
    /\ pc[w] = "asleep" /\ Go(w, "loop")
    /\ deadline' = [deadline EXCEPT ![w] = Never]
    /\ notified' = [notified EXCEPT ![w] = FALSE]
    /\ UNCHANGED <<now, tasks, timers, phase, job, fate>>

Wake(w) == (notified[w] \/ TimedOut(w)) /\ WakeUp(w)

\* A wait may also end for no reason.
SpuriousWake(w) == ~ notified[w] /\ ~ TimedOut(w) /\ WakeUp(w)

\* Mutant: a worker leaves what remains.
DrainNothing(w) ==
    /\ pc[w] = "drain" /\ Go(w, "exited")
    /\ UNCHANGED <<now, tasks, timers, phase, job, deadline, notified, fate>>

\* "Execute remaining tasks": what is not due yet is left behind.
Drain(w) ==
    /\ pc[w] = "drain"
    /\ \/ Ready /\ Pop(w) /\ Go(w, "lastrun")
       \/ ~ Ready /\ Go(w, "exited") /\ UNCHANGED <<tasks, timers, job, fate>>
    /\ UNCHANGED <<now, phase, deadline, notified>>

-----------------------------------------------------------------------------
(* main() and time.                                                        *)

Start ==
    /\ phase = "new" /\ phase' = "running"
    /\ pc' = [w \in Worker |-> "loop"]
    /\ UNCHANGED <<now, tasks, timers, job, deadline, notified, fate>>

Stop ==
    /\ phase = "running" /\ phase' = "stopped"
    /\ NotifyAll
    /\ UNCHANGED <<now, tasks, timers, pc, job, deadline, fate>>

Join ==
    /\ phase = "stopped" /\ phase' = "joined"
    /\ \A w \in Worker : pc[w] = "exited"
    /\ UNCHANGED <<now, tasks, timers, pc, job, deadline, notified, fate>>

Tick ==
    /\ now < MaxTime /\ now' = now + 1
    /\ UNCHANGED <<tasks, timers, phase, pc, job, deadline, notified, fate>>

Work(w) == Loop(w) \/ Run(w) \/ Check(w) \/ Wake(w) \/ Drain(w)

Next ==
    \/ Start \/ Stop \/ Join \/ Tick
    \/ \E t \in Task : Push(t) \/ \E d \in Delay : PushDelayed(t, d)
    \/ \E i \in 1 .. Len(timers) : Cancel(i)
    \/ \E w \in Worker : Work(w) \/ SpuriousWake(w)

\* Threads are scheduled, time passes, and main() joins the pool it stopped.
Fairness ==
    /\ \A w \in Worker : WF_vars(Work(w))
    /\ WF_vars(Tick) /\ WF_vars(Join)

Spec == Init /\ [][Next]_vars /\ Fairness

-----------------------------------------------------------------------------
TypeOK ==
    /\ now \in Nat
    /\ tasks \in Seq(Task)
    /\ timers \in Seq(Timer)
    /\ phase \in {"new", "running", "stopped", "joined"}
    /\ pc \in [Worker -> Steps]
    /\ job \in [Worker -> Task \cup {NoTask}]
    /\ deadline \in [Worker -> Nat \cup {Never}]
    /\ notified \in [Worker -> BOOLEAN]
    /\ fate \in [Task -> Fates]

\* The worker will look at the pool again by the given time.
Attends(w, at) ==
    \/ pc[w] \in {"loop", "run", "check"}
    \/ pc[w] = "asleep" /\ notified[w]
    \/ pc[w] = "asleep" /\ deadline[w] # Never /\ deadline[w] <= at

\* No wake-up is lost.  While the pool runs, a pushed task always has a worker
\* that is awake or about to be, every delayed task one that wakes up in time,
\* and once stop() was called nobody goes on sleeping, so that join() returns.
NoLostWakeUp ==
    /\ Continue /\ tasks # <<>> => \E w \in Worker : Attends(w, Never)
    /\ Continue => \A i \in 1 .. Len(timers) : \E w \in Worker : Attends(w, timers[i].at)
    /\ phase = "stopped" => Sleeping = {}

\* The pool is a schedule: tasks start in the order they were pushed, delayed
\* tasks only when due, soonest first and after all pushed ones, a cancelled
\* task never starts and no task starts twice.
Schedule == INSTANCE TaskSchedule WITH
    clock   <- now,
    waiting <- tasks,
    alarms  <- {timers[i] : i \in 1 .. Len(timers)},
    started <- {t \in Task : fate[t] \in {"running", "done"}},
    dropped <- {t \in Task : fate[t] = "cancelled"}

InOrder == Schedule!Spec

\* A task pushed while the pool runs is run, even when stop() is called in the
\* meantime: the workers empty the queue before they exit.  A delayed task is
\* started or cancelled unless the pool is stopped: pushed tasks, which go first,
\* only put it off.
EveryTaskRuns ==
    \A t \in Task :
        /\ (Continue /\ fate[t] = "queued") ~> fate[t] = "done"
        /\ (Continue /\ fate[t] = "timed") ~> (fate[t] # "timed" \/ ~ Continue)
=============================================================================
