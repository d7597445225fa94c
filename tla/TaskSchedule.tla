---------------------------- MODULE TaskSchedule ----------------------------
(***************************************************************************)
(* What the users of Sunshine's task pool rely on: tasks that were pushed  *)
(* start in that order, a delayed task starts once it is due, soonest      *)
(* first and only when no pushed task waits, a cancelled one never starts  *)
(* and no task starts twice.                                               *)
(***************************************************************************)
EXTENDS Naturals, Sequences

CONSTANT Task

VARIABLES
    clock,
    waiting,    \* pushed tasks, in order
    alarms,     \* delayed tasks, each with its time
    started,    \* tasks that were started
    dropped     \* tasks that were cancelled

vars == <<clock, waiting, alarms, started, dropped>>

Alarmed == {a.task : a \in alarms}
InUse == {waiting[i] : i \in 1 .. Len(waiting)} \cup Alarmed \cup started \cup dropped

Init ==
    /\ clock = 0
    /\ waiting = <<>>
    /\ alarms = {} /\ started = {} /\ dropped = {}

Accept(t) ==
    /\ t \notin InUse
    /\ waiting' = Append(waiting, t)
    /\ UNCHANGED <<clock, alarms, started, dropped>>

SetAlarm(t) ==
    /\ t \notin InUse
    /\ \E a \in alarms' \ alarms :
          /\ a.task = t /\ a.at >= clock
          /\ alarms' = alarms \cup {a}
    /\ UNCHANGED <<clock, waiting, started, dropped>>

Drop(a) ==
    /\ a \in alarms
    /\ alarms' = alarms \ {a}
    /\ dropped' = dropped \cup {a.task}
    /\ UNCHANGED <<clock, waiting, started>>

StartFirst ==
    /\ waiting # <<>>
    /\ waiting' = Tail(waiting)
    /\ started' = started \cup {Head(waiting)}
    /\ Head(waiting) \notin started
    /\ UNCHANGED <<clock, alarms, dropped>>

StartSoonest(a) ==
    /\ waiting = <<>>
    /\ a \in alarms /\ a.at <= clock
    /\ \A b \in alarms : a.at <= b.at
    /\ a.task \notin started
    /\ alarms' = alarms \ {a}
    /\ started' = started \cup {a.task}
    /\ UNCHANGED <<clock, waiting, dropped>>

Pass == clock' = clock + 1 /\ UNCHANGED <<waiting, alarms, started, dropped>>

Next ==
    \/ StartFirst
    \/ Pass
    \/ \E t \in Task : Accept(t) \/ SetAlarm(t)
    \/ \E a \in alarms : Drop(a) \/ StartSoonest(a)

Spec == Init /\ [][Next]_vars
=============================================================================
