------------------------ MODULE StreamSession_proofs ------------------------
(***************************************************************************)
(* For every number of launches: no thread of the host works on a session  *)
(* that has been freed, and running_sessions counts the slots.             *)
(***************************************************************************)
EXTENDS StreamSession, FiniteSetTheorems, TLAPS

----------------------------------------------------------------------------
\* The inductive invariant.

\* Only who holds the lock changes the slots.
Lock ==
    /\ clear.by = "none" => clear = NoClear
    /\ clear.by = "rtsp" => rtsp.pc = "clear"
    /\ clear.by = "https" => https.pc = "clear"
    /\ clear.todo \subseteq slots
    /\ clear.cur # None => clear.cur \in slots /\ clear.cur \notin clear.todo

\* The request in hand has not been answered.
Asked ==
    /\ https.pc = "answer" => https.cur # None
    /\ https.cur # None => client[https.cur] \in {"launching", "resuming"}

\* A session has no thread and no controlEnd before its ANNOUNCE has come so far.
Before == {"idle", "launching", "resuming", "answered", "open"}
Unborn(l) == \/ client[l] \in Before
             \/ rtsp.cur = l /\ rtsp.pc \in {"insert", "ref", "remove", "push"}
Fresh ==
    /\ \A l \in Launch : Unborn(l) =>
          /\ ~ses[l].spawned /\ ses[l].live = 0 /\ ~ses[l].controlEnd
          /\ l \notin control.sessions
    /\ \A l \in slots : client[l] \notin Before
    /\ rtsp.cur # None => client[rtsp.cur] = "announcing"
    /\ rtsp.pc = "insert" => rtsp.cur \notin slots
    /\ rtsp.pc \in {"ref", "remove", "push", "spawn"} => rtsp.cur \in slots
    /\ rtsp.pc = "spawn" => ~ses[rtsp.cur].spawned

\* What a join has waited for stays so until the session is freed.
Ended ==
    /\ control.pc = "none" =>
          control.sessions = {} /\ rtsp.pc \notin {"push", "spawn", "run", "count"}
    /\ control.pc # "left" => \A l \in control.sessions : ~ses[l].controlEnd
    /\ clear.step = "erase" => Joinable(ses[clear.cur])
    /\ rtsp.pc \in {"run", "count"} /\ rtsp.cur \notin slots =>
          ses[rtsp.cur].live = 0 /\ ses[rtsp.cur].controlEnd

\* A session is in the slots before it is counted, and after it is counted out.
Uncounted == IF rtsp.pc \in {"ref", "remove", "push", "spawn", "run", "count"} THEN 1 ELSE 0
Joined == IF clear.step = "erase" THEN 1 ELSE 0
Balance == running = Cardinality(slots) - Uncounted - Joined

\* stop() changes the state and shutdown only.
LEMMA StopSession ==
    ASSUME NEW s \in Session
    PROVE  /\ Stop(s) \in Session
           /\ Stop(s).live = s.live
           /\ Stop(s).spawned = s.spawned
           /\ Stop(s).controlEnd = s.controlEnd
<1>1. CASE s.state = "RUNNING"
  <2>1. Stop(s) = [s EXCEPT !.state = "STOPPING", !.shutdown = TRUE]
    BY <1>1 DEF Stop
  <2> QED
    BY <2>1 DEF Session
<1>2. CASE s.state # "RUNNING"
  BY <1>2 DEF Stop
<1> QED
  BY <1>1, <1>2

LEMMA TypeInductive ==
    ASSUME TypeOK, Lock, [Next]_vars
    PROVE  TypeOK'
<1> USE LaunchAssumption
<1>1. CASE Refuse
  <2>1. client' \in [Launch -> Stage]
    BY <1>1 DEF TypeOK, Refuse, Stage
  <2>2. https' \in Https
    BY <1>1 DEF TypeOK, Refuse, Https, Idle
  <2> QED
    BY <1>1, <2>1, <2>2 DEF TypeOK, Refuse, threads
<1>2. CASE Answer
  <2>1. app' \in BOOLEAN
    BY <1>2 DEF TypeOK, Answer
  <2>2. event' \in Event
    BY <1>2 DEF TypeOK, Answer, Event, Https, SessionRaise, NoEvent
  <2>3. client' \in [Launch -> Stage]
    BY <1>2 DEF TypeOK, Answer, Stage
  <2>4. https' \in Https
    BY <1>2 DEF TypeOK, Answer, Https, Idle
  <2> QED
    BY <1>2, <2>1, <2>2, <2>3, <2>4 DEF TypeOK, Answer, threads
<1>3. CASE Terminate
  <2>1. app' \in BOOLEAN
    BY <1>3 DEF TypeOK, Terminate
  <2>2. https' \in Https
    BY <1>3 DEF TypeOK, Terminate, Https, Idle
  <2> QED
    BY <1>3, <2>1, <2>2 DEF TypeOK, Terminate, threads
<1>4. ASSUME NEW l \in Launch, ClearVisit(l) PROVE TypeOK'
  <2>1. ses' \in [Launch -> Session]
    <3>1. ses \in [Launch -> Session] /\ Stop(ses[l]) \in Session
      BY StopSession DEF TypeOK
    <3>2. ses' = [ses EXCEPT ![l] = Stop(ses[l])] \/ ses' = ses
      BY <1>4 DEF ClearVisit
    <3> QED
      BY <3>1, <3>2
  <2>2. clear' \in Clear /\ (clear'.cur = None <=> clear'.step = "visit")
    BY <1>4, ZenonT(60) DEF TypeOK, ClearVisit, Clear, NoClear
  <2> QED
    BY <1>4, <2>1, <2>2 DEF TypeOK, ClearVisit, threads
<1>5. CASE Join
  <2>1. running' \in Int
    BY <1>5 DEF TypeOK, Join
  <2>2. clear' \in Clear /\ (clear'.cur = None <=> clear'.step = "visit")
    BY <1>5 DEF TypeOK, Join, Clear, NoClear
  <2> QED
    BY <1>5, <2>1, <2>2 DEF TypeOK, Join, threads
<1>6. CASE Erase
  <2>1. slots' \in SUBSET Launch
    BY <1>6 DEF TypeOK, Erase, Rtsp
  <2>2. ses' \in [Launch -> Session]
    BY <1>6 DEF TypeOK, Erase, Session, NoSession, Gone
  <2>3. control' \in Control
    BY <1>6 DEF TypeOK, Erase, Control, NoContext, Rtsp
  <2>4. clear' \in Clear /\ (clear'.cur = None <=> clear'.step = "visit")
    BY <1>6 DEF TypeOK, Erase, Clear, NoClear
  <2> QED
    BY <1>6, <2>1, <2>2, <2>3, <2>4 DEF TypeOK, Erase, threads
<1>7. CASE JoinThrows
  <2>1. clear' \in Clear /\ (clear'.cur = None <=> clear'.step = "visit")
    BY <1>7 DEF TypeOK, JoinThrows, Clear, NoClear
  <2>2. https' \in Https
    BY <1>7 DEF TypeOK, JoinThrows, Https, Idle
  <2> QED
    BY <1>7, <2>1, <2>2 DEF TypeOK, JoinThrows, threads
<1>8. CASE ClearEnd
  <2>1. clear' \in Clear /\ (clear'.cur = None <=> clear'.step = "visit")
    BY <1>8 DEF TypeOK, ClearEnd, Clear, NoClear
  <2>2. rtsp' \in Rtsp /\ (rtsp'.cur = None <=> rtsp'.pc \in {"idle", "clear"})
    BY <1>8 DEF TypeOK, ClearEnd, Rtsp, Lock
  <2>3. https' \in Https
    BY <1>8 DEF TypeOK, ClearEnd, Https, Idle
  <2> QED
    BY <1>8, <2>1, <2>2, <2>3 DEF TypeOK, ClearEnd, threads
<1>9. ASSUME NEW a \in {"https", "rtsp"}, ClearBegin(a) PROVE TypeOK'
  <2>1. clear' \in Clear /\ (clear'.cur = None <=> clear'.step = "visit")
    BY <1>9 DEF TypeOK, ClearBegin, Clear, NoClear
  <2> QED
    BY <1>9, <2>1 DEF TypeOK, ClearBegin, threads
<1>10. CASE Insert
  <2>1. slots' \in SUBSET Launch
    BY <1>10 DEF TypeOK, Insert, Rtsp
  <2>2. rtsp' \in Rtsp /\ (rtsp'.cur = None <=> rtsp'.pc \in {"idle", "clear"})
    BY <1>10 DEF TypeOK, Insert, Rtsp, Idle
  <2> QED
    BY <1>10, <2>1, <2>2 DEF TypeOK, Insert, threads
<1>11. CASE Remove
  <2>1. slots' \in SUBSET Launch
    BY <1>11 DEF TypeOK, Remove, Rtsp
  <2>2. client' \in [Launch -> Stage]
    BY <1>11 DEF TypeOK, Remove, Stage
  <2>3. rtsp' \in Rtsp /\ (rtsp'.cur = None <=> rtsp'.pc \in {"idle", "clear"})
    BY <1>11 DEF TypeOK, Remove, Rtsp, Idle
  <2> QED
    BY <1>11, <2>1, <2>2, <2>3 DEF TypeOK, Remove, threads
<1>12. CASE Ref
  <2>1. control' \in Control
    BY <1>12 DEF TypeOK, Ref, Control, NoContext, Rtsp
  <2>2. rtsp' \in Rtsp /\ (rtsp'.cur = None <=> rtsp'.pc \in {"idle", "clear"})
    BY <1>12 DEF TypeOK, Ref, Rtsp, Idle
  <2> QED
    BY <1>12, <2>1, <2>2 DEF TypeOK, Ref, threads
<1>13. CASE RefFails
  <2>1. rtsp' \in Rtsp /\ (rtsp'.cur = None <=> rtsp'.pc \in {"idle", "clear"})
    BY <1>13 DEF TypeOK, RefFails, Rtsp, Idle
  <2> QED
    BY <1>13, <2>1 DEF TypeOK, RefFails, threads
<1>14. CASE Push
  <2>1. control' \in Control
    BY <1>14 DEF TypeOK, Push, Control, NoContext, Rtsp
  <2>2. rtsp' \in Rtsp /\ (rtsp'.cur = None <=> rtsp'.pc \in {"idle", "clear"})
    BY <1>14 DEF TypeOK, Push, Rtsp, Idle
  <2> QED
    BY <1>14, <2>1, <2>2 DEF TypeOK, Push, threads
<1>15. CASE Spawn
  <2>1. ses' \in [Launch -> Session]
    <3>0. \A s \in Session, n \in 0..2 : [s EXCEPT !.spawned = TRUE, !.live = n] \in Session
      BY DEF Session
    <3>1. PICK n \in 0..2 : n = 2
      OBVIOUS
    <3>2. rtsp.cur \in Launch
      BY <1>15 DEF TypeOK, Spawn, Rtsp
    <3>3. ses' = [ses EXCEPT ![rtsp.cur] = [ses[rtsp.cur] EXCEPT !.spawned = TRUE, !.live = n]]
      BY <1>15, <3>1, <3>2 DEF TypeOK, Spawn
    <3> QED
      BY <3>0, <3>2, <3>3 DEF TypeOK
  <2>2. rtsp' \in Rtsp /\ (rtsp'.cur = None <=> rtsp'.pc \in {"idle", "clear"})
    BY <1>15 DEF TypeOK, Spawn, Rtsp, Idle
  <2> QED
    BY <1>15, <2>1, <2>2 DEF TypeOK, Spawn, threads
<1>16. CASE Run
  <2>1. ses' \in [Launch -> Session]
    BY <1>16, ZenonT(60) DEF TypeOK, Run, Session, NoSession, Gone
  <2>2. rtsp' \in Rtsp /\ (rtsp'.cur = None <=> rtsp'.pc \in {"idle", "clear"})
    BY <1>16 DEF TypeOK, Run, Rtsp, Idle
  <2> QED
    BY <1>16, <2>1, <2>2 DEF TypeOK, Run, threads
<1>17. CASE Count
  <2>1. running' \in Int
    BY <1>17 DEF TypeOK, Count
  <2>2. client' \in [Launch -> Stage]
    BY <1>17 DEF TypeOK, Count, Stage
  <2>3. rtsp' \in Rtsp /\ (rtsp'.cur = None <=> rtsp'.pc \in {"idle", "clear"})
    BY <1>17 DEF TypeOK, Count, Rtsp, Idle
  <2>4. ses' \in [Launch -> Session]
    BY <1>17 DEF TypeOK, Count, Session, NoSession, Gone
  <2>5. control' \in Control
    BY <1>17 DEF TypeOK, Count, Control, NoContext, Rtsp
  <2> QED
    BY <1>17, <2>1, <2>2, <2>3, <2>4, <2>5 DEF TypeOK, Count, threads
<1>18. CASE Pass
  <2>1. ses' \in [Launch -> Session]
    <3> DEFINE checked == [l \in Launch |-> IF l \in control.sessions /\ ses[l].silent
                                              THEN Stop(ses[l]) ELSE ses[l]]
               gone == {l \in control.sessions : checked[l].state = "STOPPING"}
    <3>1. \A l \in Launch : checked[l] \in Session
      BY StopSession DEF TypeOK
    <3>2. ses' = [l \in Launch |-> [checked[l] EXCEPT !.controlEnd = @ \/ l \in gone]]
      BY <1>18 DEF Pass
    <3> HIDE DEF checked, gone
    <3>3. \A l \in Launch : [checked[l] EXCEPT !.controlEnd = @ \/ l \in gone] \in Session
      BY <3>1 DEF Session
    <3> QED
      BY <3>2, <3>3
  <2>2. control' \in Control
    BY <1>18 DEF TypeOK, Pass, Control, NoContext, Rtsp
  <2> QED
    BY <1>18, <2>1, <2>2 DEF TypeOK, Pass, threads
<1>19. CASE Leave
  <2>1. ses' \in [Launch -> Session]
    BY <1>19, ZenonT(60) DEF TypeOK, Leave, Session, NoSession, Gone
  <2>2. control' \in Control
    BY <1>19 DEF TypeOK, Leave, Control, NoContext, Rtsp
  <2> QED
    BY <1>19, <2>1, <2>2 DEF TypeOK, Leave, threads
<1>20. CASE Pop
  <2>1. event' \in Event
    BY <1>20 DEF TypeOK, Pop, Event, Https, SessionRaise, NoEvent
  <2>2. control' \in Control
    BY <1>20 DEF TypeOK, Pop, Control, NoContext, Rtsp
  <2> QED
    BY <1>20, <2>1, <2>2 DEF TypeOK, Pop, threads
<1>21. CASE Cancel
  <2>1. https' \in Https
    BY <1>21 DEF TypeOK, Cancel, Https, Idle
  <2> QED
    BY <1>21, <2>1 DEF TypeOK, Cancel, threads
<1>22. CASE AppEnds
  <2>1. app' \in BOOLEAN
    BY <1>22 DEF TypeOK, AppEnds
  <2> QED
    BY <1>22, <2>1 DEF TypeOK, AppEnds, threads
<1>23. CASE Kill
  <2>1. app' \in BOOLEAN
    BY <1>23 DEF TypeOK, Kill
  <2>2. event' \in Event
    BY <1>23 DEF TypeOK, Kill, Event, Https, SessionRaise, NoEvent
  <2>3. client' \in [Launch -> Stage]
    BY <1>23 DEF TypeOK, Kill, Stage
  <2>4. ses' \in [Launch -> Session]
    BY <1>23 DEF TypeOK, Kill, Session, NoSession, Gone
  <2>5. slots' \in SUBSET Launch
    BY <1>23 DEF TypeOK, Kill, Rtsp
  <2>6. control' \in Control
    BY <1>23 DEF TypeOK, Kill, Control, NoContext, Rtsp
  <2>7. clear' \in Clear /\ (clear'.cur = None <=> clear'.step = "visit")
    BY <1>23 DEF TypeOK, Kill, Clear, NoClear
  <2>8. rtsp' \in Rtsp /\ (rtsp'.cur = None <=> rtsp'.pc \in {"idle", "clear"})
    BY <1>23 DEF TypeOK, Kill, Rtsp, Idle
  <2>9. https' \in Https
    BY <1>23 DEF TypeOK, Kill, Https, Idle
  <2>10. running' \in Int
    BY <1>23 DEF TypeOK, Kill
  <2> QED
    BY <1>23, <2>1, <2>2, <2>3, <2>4, <2>5, <2>6, <2>7, <2>8, <2>9, <2>10 DEF TypeOK, Kill, threads
<1>24. CASE Wake
  <2>1. rtsp' \in Rtsp /\ (rtsp'.cur = None <=> rtsp'.pc \in {"idle", "clear"})
    BY <1>24 DEF TypeOK, Wake, Rtsp, Idle
  <2> QED
    BY <1>24, <2>1 DEF TypeOK, Wake, threads
<1>25. CASE TimerDue
  <2>1. event' \in Event
    <3>1. event \in Event /\ event' = [event EXCEPT !.armed = FALSE, !.expired = event.expired + 1]
      BY <1>25 DEF TypeOK, TimerDue
    <3>2. event.expired + 1 \in Nat
      BY <3>1 DEF Event
    <3>3. \A n \in Nat : [event EXCEPT !.armed = FALSE, !.expired = n] \in Event
      BY <3>1 DEF Event
    <3> QED
      BY <3>1, <3>2, <3>3
  <2> QED
    BY <1>25, <2>1 DEF TypeOK, TimerDue, threads
<1>26. CASE Expire
  <2>1. event' \in Event
    <3>1. /\ event \in Event /\ event.expired > 0
          /\ event' = [event EXCEPT !.pending = None, !.expired = event.expired - 1]
      BY <1>26 DEF TypeOK, Expire
    <3>2. event.expired - 1 \in Nat
      BY <3>1 DEF Event
    <3>3. \A n \in Nat : [event EXCEPT !.pending = None, !.expired = n] \in Event
      BY <3>1 DEF Event
    <3> QED
      BY <3>1, <3>2, <3>3
  <2>2. rtsp' \in Rtsp /\ (rtsp'.cur = None <=> rtsp'.pc \in {"idle", "clear"})
    BY <1>26 DEF TypeOK, Expire, Rtsp, Idle
  <2> QED
    BY <1>26, <2>1, <2>2 DEF TypeOK, Expire, threads
<1>27. ASSUME NEW l \in Launch, Ask(l) PROVE TypeOK'
  <2>1. client' \in [Launch -> Stage]
    BY <1>27 DEF TypeOK, Ask, Stage
  <2>2. https' \in Https
    BY <1>27 DEF TypeOK, Ask, Https, Idle
  <2> QED
    BY <1>27, <2>1, <2>2 DEF TypeOK, Ask, threads
<1>28. ASSUME NEW l \in Launch, Accept(l) PROVE TypeOK'
  <2>1. client' \in [Launch -> Stage]
    BY <1>28 DEF TypeOK, Accept, Stage
  <2>2. rtsp' \in Rtsp /\ (rtsp'.cur = None <=> rtsp'.pc \in {"idle", "clear"})
    BY <1>28 DEF TypeOK, Accept, Rtsp, Idle
  <2> QED
    BY <1>28, <2>1, <2>2 DEF TypeOK, Accept, threads
<1>29. ASSUME NEW l \in Launch, Announce(l) PROVE TypeOK'
  <2>1. client' \in [Launch -> Stage]
    BY <1>29 DEF TypeOK, Announce, Stage
  <2>2. rtsp' \in Rtsp /\ (rtsp'.cur = None <=> rtsp'.pc \in {"idle", "clear"})
    BY <1>29 DEF TypeOK, Announce, Rtsp, Idle
  <2> QED
    BY <1>29, <2>1, <2>2 DEF TypeOK, Announce, threads
<1>30. ASSUME NEW l \in Launch, Play(l) PROVE TypeOK'
  <2>1. client' \in [Launch -> Stage]
    BY <1>30 DEF TypeOK, Play, Stage
  <2>2. rtsp' \in Rtsp /\ (rtsp'.cur = None <=> rtsp'.pc \in {"idle", "clear"})
    BY <1>30 DEF TypeOK, Play, Rtsp, Idle
  <2> QED
    BY <1>30, <2>1, <2>2 DEF TypeOK, Play, threads
<1>31. ASSUME NEW l \in Launch, Silence(l) PROVE TypeOK'
  <2>1. ses' \in [Launch -> Session]
    BY <1>31 DEF TypeOK, Silence, Session, NoSession, Gone
  <2> QED
    BY <1>31, <2>1 DEF TypeOK, Silence, threads
<1>32. ASSUME NEW l \in Launch, Connect(l) PROVE TypeOK'
  <2>1. ses' \in [Launch -> Session]
    BY <1>32 DEF TypeOK, Connect, Session, NoSession, Gone
  <2>2. event' \in Event
    BY <1>32, ZenonT(60) DEF TypeOK, Connect, Event, Https, SessionRaise, NoEvent
  <2>3. control' \in Control
    BY <1>32 DEF TypeOK, Connect, Control, NoContext, Rtsp
  <2> QED
    BY <1>32, <2>1, <2>2, <2>3 DEF TypeOK, Connect, threads
<1>33. ASSUME NEW l \in Launch, Disconnect(l) PROVE TypeOK'
  <2>1. ses' \in [Launch -> Session]
    BY <1>33, StopSession DEF TypeOK, Disconnect
  <2> QED
    BY <1>33, <2>1 DEF TypeOK, Disconnect, threads
<1>34. ASSUME NEW l \in Launch, ThreadEnds(l) PROVE TypeOK'
  <2>1. ses' \in [Launch -> Session]
    <3>1. [ses[l] EXCEPT !.live = @ - 1] \in Session
      BY <1>34 DEF TypeOK, ThreadEnds, Session
    <3>2. Stop([ses[l] EXCEPT !.live = @ - 1]) \in Session
      BY <3>1, StopSession
    <3>3. ses' = [ses EXCEPT ![l] = Stop([ses[l] EXCEPT !.live = ses[l].live - 1])]
      BY <1>34 DEF ThreadEnds
    <3> QED
      BY <3>2, <3>3 DEF TypeOK
  <2> QED
    BY <1>34, <2>1 DEF TypeOK, ThreadEnds, threads
<1>35. CASE UNCHANGED vars
  BY <1>35 DEF TypeOK, vars, threads
<1> QED
  BY <1>1, <1>2, <1>3, <1>4, <1>5, <1>6, <1>7, <1>8, <1>9, <1>10, <1>11, <1>12, <1>13, <1>14, <1>15, <1>16, <1>17, <1>18, <1>19, <1>20, <1>21, <1>22, <1>23, <1>24, <1>25, <1>26, <1>27, <1>28, <1>29, <1>30, <1>31, <1>32, <1>33, <1>34, <1>35 DEF Next, HttpsNext, ClearNext, LockNext, StartNext, ControlNext

\* What a visit, a pass and a leave keep of the sessions, and what they change.
LEMMA VisitKeeps ==
    ASSUME TypeOK, NEW l \in Launch, ClearVisit(l)
    PROVE  /\ \A k \in Launch : /\ ses'[k].live = ses[k].live
                                /\ ses'[k].spawned = ses[k].spawned
                                /\ ses'[k].controlEnd = ses[k].controlEnd
           /\ clear'.by = clear.by /\ clear'.todo = clear.todo \ {l}
           /\ clear'.cur \in {l, None} /\ clear'.step \in {"visit", "join"}
<1>1. ses \in [Launch -> Session] /\ clear \in Clear /\ clear.cur = None
  BY DEF TypeOK, ClearVisit
<1>2. CASE ses' = [ses EXCEPT ![l] = Stop(ses[l])] /\
           clear' = [clear EXCEPT !.todo = clear.todo \ {l}, !.cur = l, !.step = "join"]
  <2>1. \A k \in Launch : ses'[k] = IF k = l THEN Stop(ses[l]) ELSE ses[k]
    BY <1>1, <1>2
  <2>2. /\ clear'.by = clear.by /\ clear'.todo = clear.todo \ {l}
        /\ clear'.cur = l /\ clear'.step = "join"
    BY <1>1, <1>2 DEF Clear
  <2> QED
    BY <1>1, <2>1, <2>2, StopSession
<1>3. CASE ses' = ses /\ clear' = [clear EXCEPT !.todo = clear.todo \ {l}]
  BY <1>1, <1>3 DEF ClearVisit, Clear
<1> QED
  BY <1>2, <1>3 DEF ClearVisit

LEMMA PassKeeps ==
    ASSUME TypeOK, Pass
    PROVE  /\ \A k \in Launch :
                 /\ ses'[k].live = ses[k].live
                 /\ ses'[k].spawned = ses[k].spawned
                 /\ ses'[k].controlEnd =
                      (ses[k].controlEnd \/ k \in control.sessions \ control'.sessions)
           /\ control'.sessions \subseteq control.sessions
           /\ control'.pc \in {"poll", "leave"}
<1> DEFINE checked == [l \in Launch |-> IF l \in control.sessions /\ ses[l].silent
                                          THEN Stop(ses[l]) ELSE ses[l]]
           gone == {l \in control.sessions : checked[l].state = "STOPPING"}
<1>1. \A k \in Launch : /\ checked[k] \in Session
                        /\ checked[k].live = ses[k].live
                        /\ checked[k].spawned = ses[k].spawned
                        /\ checked[k].controlEnd = ses[k].controlEnd
  BY StopSession DEF TypeOK
<1>2. gone \subseteq control.sessions
  OBVIOUS
<1>3. /\ ses' = [l \in Launch |-> [checked[l] EXCEPT !.controlEnd = @ \/ l \in gone]]
      /\ control'.sessions = control.sessions \ gone
      /\ control'.pc \in {"poll", "leave"}
  BY DEF Pass
<1> HIDE DEF checked, gone
<1>4. \A k \in Launch : /\ ses'[k].live = checked[k].live
                        /\ ses'[k].spawned = checked[k].spawned
                        /\ ses'[k].controlEnd = (checked[k].controlEnd \/ k \in gone)
  BY <1>1, <1>3 DEF Session
<1> QED
  BY <1>1, <1>2, <1>3, <1>4

LEMMA LeaveKeeps ==
    ASSUME TypeOK, Leave
    PROVE  /\ \A k \in Launch :
                 /\ ses'[k].live = ses[k].live
                 /\ ses'[k].spawned = ses[k].spawned
                 /\ ses'[k].controlEnd = (ses[k].controlEnd \/ k \in control.sessions)
           /\ control'.sessions = control.sessions
           /\ control'.pc = "left"
<1>1. \A k \in Launch :
        ses'[k] = IF k \in control.sessions
                    THEN [ses[k] EXCEPT !.shutdown = TRUE, !.controlEnd = TRUE] ELSE ses[k]
  BY DEF Leave
<1>2. \A s \in Session : LET t == [s EXCEPT !.shutdown = TRUE, !.controlEnd = TRUE]
                         IN t.live = s.live /\ t.spawned = s.spawned /\ t.controlEnd = TRUE
  BY DEF Session
<1> QED
  BY <1>1, <1>2, ZenonT(60) DEF TypeOK, Leave, Session, Control

\* An erased session is ended, is not served and is not starting; the others stay as they are.
LEMMA EraseKeeps ==
    ASSUME TypeOK, Lock, Fresh, Ended, Owned, Erase
    PROVE  /\ clear.cur \in Launch /\ clear.cur \in slots /\ slots' = slots \ {clear.cur}
           /\ ses[clear.cur].spawned /\ ses[clear.cur].live = 0 /\ ses[clear.cur].controlEnd
           /\ rtsp.pc \in {"insert", "ref", "remove", "push", "spawn"} => rtsp.cur # clear.cur
           /\ control.pc # "left" => clear.cur \notin control.sessions
           /\ \A k \in Launch \ {clear.cur} : ses'[k] = ses[k]
           /\ ses'[clear.cur].live = 0
           /\ clear.cur \in Holders(slots') => ses'[clear.cur] = ses[clear.cur]
           /\ (control' = NoContext /\ Holders(slots') = {}) \/ control' = control
           /\ clear'.step = "visit" /\ UNCHANGED <<rtsp, client>>
<1>1. /\ clear.cur \in Launch /\ clear.cur \in slots /\ slots' = slots \ {clear.cur}
      /\ ses[clear.cur].spawned /\ ses[clear.cur].live = 0 /\ ses[clear.cur].controlEnd
      /\ ses[clear.cur] \in Session
  BY LaunchAssumption DEF TypeOK, Lock, Ended, Joinable, Erase, Clear
<1>2. rtsp.pc \in {"insert", "ref", "remove", "push", "spawn"} => rtsp.cur # clear.cur
  BY <1>1 DEF Fresh, Unborn
<1>3. control.pc # "left" => clear.cur \notin control.sessions
  BY <1>1 DEF Ended
<1>4. ses' = [ses EXCEPT ![clear.cur] = IF clear.cur \in Holders(slots') THEN ses[clear.cur]
                                                                       ELSE Gone(ses[clear.cur])]
  BY DEF Erase
<1>5. Gone(ses[clear.cur]).live = 0
  BY <1>1 DEF Gone, NoSession
<1>6. /\ \A k \in Launch \ {clear.cur} : ses'[k] = ses[k]
      /\ ses'[clear.cur] = IF clear.cur \in Holders(slots') THEN ses[clear.cur]
                                                            ELSE Gone(ses[clear.cur])
  BY <1>1, <1>4 DEF TypeOK
<1>7. /\ (control' = NoContext /\ Holders(slots') = {}) \/ control' = control
      /\ clear'.step = "visit" /\ UNCHANGED <<rtsp, client>>
  BY DEF TypeOK, Erase, Clear, threads
<1> QED
  BY <1>1, <1>2, <1>3, <1>5, <1>6, <1>7

LEMMA LockInductive ==
    ASSUME TypeOK, Lock, Asked, Fresh, Ended, Owned, [Next]_vars
    PROVE  Lock'
<1> USE LaunchAssumption DEF TypeOK, Lock, NoClear, Clear
<1>1. CASE Refuse
  BY <1>1 DEF Refuse, Stage, Https, Idle
<1>2. CASE Answer
  BY <1>2 DEF Answer, Stage, Https, Idle
<1>3. CASE Terminate
  BY <1>3 DEF Terminate, Https, Idle
<1>4. ASSUME NEW l \in Launch, ClearVisit(l) PROVE Lock'
  <2>1. /\ \A k \in Launch : /\ ses'[k].live = ses[k].live
                             /\ ses'[k].spawned = ses[k].spawned
                             /\ ses'[k].controlEnd = ses[k].controlEnd
        /\ clear'.by = clear.by /\ clear'.todo = clear.todo \ {l}
        /\ clear'.cur \in {l, None} /\ clear'.step \in {"visit", "join"}
    BY <1>4, VisitKeeps
  <2>2. l \in clear.todo /\ UNCHANGED <<client, slots, control, rtsp, https>>
    BY <1>4 DEF ClearVisit, threads
  <2> QED
    BY <2>1, <2>2
<1>5. CASE Join
  BY <1>5 DEF Join, threads
<1>6. CASE Erase
  BY <1>6 DEF Erase, threads, Session, Control, NoContext, Gone, NoSession
<1>7. CASE JoinThrows
  BY <1>7 DEF JoinThrows, Https, Idle
<1>8. CASE ClearEnd
  BY <1>8 DEF ClearEnd, Rtsp, Https
<1>9. ASSUME NEW a \in {"https", "rtsp"}, ClearBegin(a) PROVE Lock'
  BY <1>9 DEF ClearBegin, threads
<1>10. CASE Insert
  BY <1>10 DEF Insert, Rtsp
<1>11. CASE Remove
  BY <1>11 DEF Remove, Stage, Rtsp
<1>12. CASE Ref
  BY <1>12 DEF Ref, Control, NoContext, Rtsp
<1>13. CASE RefFails
  BY <1>13 DEF RefFails, Rtsp
<1>14. CASE Push
  BY <1>14 DEF Push, Control, NoContext, Rtsp
<1>15. CASE Spawn
  BY <1>15 DEF Spawn, Session, Rtsp
<1>16. CASE Run
  BY <1>16 DEF Run, Session, Rtsp
<1>17. CASE Count
  BY <1>17 DEF Count, Stage, Rtsp, Session, Control, NoContext, Gone, NoSession
<1>18. CASE Pass
  BY <1>18 DEF Pass, threads, Session, Control, NoContext, Stop
<1>19. CASE Leave
  BY <1>19 DEF Leave, threads, Session, Control, NoContext
<1>20. CASE Pop
  BY <1>20 DEF Pop, threads, Control, NoContext
<1>21. CASE Cancel
  BY <1>21 DEF Cancel, Https
<1>22. CASE AppEnds
  BY <1>22 DEF AppEnds, threads
<1>23. CASE Kill
  BY <1>23 DEF Kill, threads, Stage, Session, Control, NoContext, Rtsp, Https, Idle, NoSession
<1>24. CASE Wake
  BY <1>24 DEF Wake, Rtsp
<1>25. CASE TimerDue
  BY <1>25 DEF TimerDue, threads
<1>26. CASE Expire
  BY <1>26 DEF Expire, Rtsp
<1>27. ASSUME NEW l \in Launch, Ask(l) PROVE Lock'
  BY <1>27 DEF Ask, Stage, Https
<1>28. ASSUME NEW l \in Launch, Accept(l) PROVE Lock'
  BY <1>28 DEF Accept, Stage, Rtsp
<1>29. ASSUME NEW l \in Launch, Announce(l) PROVE Lock'
  BY <1>29 DEF Announce, Stage, Rtsp
<1>30. ASSUME NEW l \in Launch, Play(l) PROVE Lock'
  BY <1>30 DEF Play, Stage, Rtsp
<1>31. ASSUME NEW l \in Launch, Silence(l) PROVE Lock'
  BY <1>31 DEF Silence, threads, Session, Stop
<1>32. ASSUME NEW l \in Launch, Connect(l) PROVE Lock'
  BY <1>32 DEF Connect, threads, Session, Control, NoContext, Stop
<1>33. ASSUME NEW l \in Launch, Disconnect(l) PROVE Lock'
  BY <1>33 DEF Disconnect, threads, Session, Stop
<1>34. ASSUME NEW l \in Launch, ThreadEnds(l) PROVE Lock'
  BY <1>34 DEF ThreadEnds, threads, Session, Stop
<1>35. CASE UNCHANGED vars
  BY <1>35 DEF vars, threads
<1> HIDE DEF TypeOK, Lock, NoClear, Clear
<1> QED
  BY <1>1, <1>2, <1>3, <1>4, <1>5, <1>6, <1>7, <1>8, <1>9, <1>10, <1>11, <1>12, <1>13, <1>14, <1>15, <1>16, <1>17, <1>18, <1>19, <1>20, <1>21, <1>22, <1>23, <1>24, <1>25, <1>26, <1>27, <1>28, <1>29, <1>30, <1>31, <1>32, <1>33, <1>34, <1>35 DEF Next, HttpsNext, ClearNext, LockNext, StartNext, ControlNext

LEMMA AskedInductive ==
    ASSUME TypeOK, Lock, Asked, Fresh, Ended, Owned, [Next]_vars
    PROVE  Asked'
<1> USE LaunchAssumption DEF TypeOK, Asked, Https
<1>1. CASE Refuse
  BY <1>1 DEF Refuse, Stage, Idle
<1>2. CASE Answer
  BY <1>2 DEF Answer, Stage, Idle
<1>3. CASE Terminate
  BY <1>3 DEF Terminate, Idle
<1>4. ASSUME NEW l \in Launch, ClearVisit(l) PROVE Asked'
  BY <1>4 DEF ClearVisit, threads, Session, Clear, Stop
<1>5. CASE Join
  BY <1>5 DEF Join, threads, Clear
<1>6. CASE Erase
  BY <1>6 DEF Erase, threads, Session, Control, NoContext, Clear, Gone, NoSession
<1>7. CASE JoinThrows
  BY <1>7 DEF JoinThrows, Clear, Idle, NoClear
<1>8. CASE ClearEnd
  BY <1>8 DEF ClearEnd, Lock, All, Clear
<1>9. ASSUME NEW a \in {"https", "rtsp"}, ClearBegin(a) PROVE Asked'
  BY <1>9 DEF ClearBegin, threads, Clear, NoClear
<1>10. CASE Insert
  BY <1>10 DEF Insert, Rtsp
<1>11. CASE Remove
  BY <1>11 DEF Remove, Fresh, Rtsp
<1>12. CASE Ref
  BY <1>12 DEF Ref, Control, NoContext, Rtsp
<1>13. CASE RefFails
  BY <1>13 DEF RefFails, Rtsp
<1>14. CASE Push
  BY <1>14 DEF Push, Control, NoContext, Rtsp
<1>15. CASE Spawn
  BY <1>15 DEF Spawn, Session, Rtsp
<1>16. CASE Run
  BY <1>16 DEF Run, Session, Rtsp
<1>17. CASE Count
  BY <1>17 DEF Count, Fresh, Rtsp
<1>18. CASE Pass
  BY <1>18 DEF Pass, threads, Session, Control, NoContext, Stop
<1>19. CASE Leave
  BY <1>19 DEF Leave, threads, Session, Control, NoContext
<1>20. CASE Pop
  BY <1>20 DEF Pop, threads, Control, NoContext
<1>21. CASE Cancel
  BY <1>21 DEF Cancel
<1>22. CASE AppEnds
  BY <1>22 DEF AppEnds, threads
<1>23. CASE Kill
  BY <1>23 DEF Kill, threads, Stage, Session, Control, NoContext, Clear, Rtsp, Idle, NoClear, NoSession
<1>24. CASE Wake
  BY <1>24 DEF Wake, Rtsp
<1>25. CASE TimerDue
  BY <1>25 DEF TimerDue, threads
<1>26. CASE Expire
  BY <1>26 DEF Expire, Rtsp
<1>27. ASSUME NEW l \in Launch, Ask(l) PROVE Asked'
  BY <1>27 DEF Ask, Stage
<1>28. ASSUME NEW l \in Launch, Accept(l) PROVE Asked'
  BY <1>28 DEF Accept, Stage, Rtsp
<1>29. ASSUME NEW l \in Launch, Announce(l) PROVE Asked'
  BY <1>29 DEF Announce, Stage, Rtsp
<1>30. ASSUME NEW l \in Launch, Play(l) PROVE Asked'
  BY <1>30 DEF Play, Stage, Rtsp
<1>31. ASSUME NEW l \in Launch, Silence(l) PROVE Asked'
  BY <1>31 DEF Silence, threads, Session, Stop
<1>32. ASSUME NEW l \in Launch, Connect(l) PROVE Asked'
  BY <1>32 DEF Connect, threads, Session, Control, NoContext, Stop
<1>33. ASSUME NEW l \in Launch, Disconnect(l) PROVE Asked'
  BY <1>33 DEF Disconnect, threads, Session, Stop
<1>34. ASSUME NEW l \in Launch, ThreadEnds(l) PROVE Asked'
  BY <1>34 DEF ThreadEnds, threads, Session, Stop
<1>35. CASE UNCHANGED vars
  BY <1>35 DEF vars, threads
<1> HIDE DEF TypeOK, Asked, Https
<1> QED
  BY <1>1, <1>2, <1>3, <1>4, <1>5, <1>6, <1>7, <1>8, <1>9, <1>10, <1>11, <1>12, <1>13, <1>14, <1>15, <1>16, <1>17, <1>18, <1>19, <1>20, <1>21, <1>22, <1>23, <1>24, <1>25, <1>26, <1>27, <1>28, <1>29, <1>30, <1>31, <1>32, <1>33, <1>34, <1>35 DEF Next, HttpsNext, ClearNext, LockNext, StartNext, ControlNext

LEMMA FreshInductive ==
    ASSUME TypeOK, Lock, Asked, Fresh, Ended, Owned, [Next]_vars
    PROVE  Fresh'
<1> USE LaunchAssumption DEF TypeOK, Fresh, Unborn, Before, Rtsp, Stage
<1>1. CASE Refuse
  BY <1>1 DEF Refuse, Asked, Https
<1>2. CASE Answer
  BY <1>2 DEF Answer, Asked, Https
<1>3. CASE Terminate
  BY <1>3 DEF Terminate, Https, Idle
<1>4. ASSUME NEW l \in Launch, ClearVisit(l) PROVE Fresh'
  <2>1. /\ \A k \in Launch : /\ ses'[k].live = ses[k].live
                             /\ ses'[k].spawned = ses[k].spawned
                             /\ ses'[k].controlEnd = ses[k].controlEnd
        /\ clear'.by = clear.by /\ clear'.todo = clear.todo \ {l}
        /\ clear'.cur \in {l, None} /\ clear'.step \in {"visit", "join"}
    BY <1>4, VisitKeeps
  <2>2. l \in clear.todo /\ UNCHANGED <<client, slots, control, rtsp, https>>
    BY <1>4 DEF ClearVisit, threads
  <2> QED
    BY <2>1, <2>2
<1>5. CASE Join
  BY <1>5 DEF Join, threads, Clear
<1>6. CASE Erase
  BY <1>6, EraseKeeps DEF NoContext
<1>7. CASE JoinThrows
  BY <1>7 DEF JoinThrows, Clear, Https, Idle, NoClear
<1>8. CASE ClearEnd
  BY <1>8 DEF ClearEnd, Clear, Https, NoClear
<1>9. ASSUME NEW a \in {"https", "rtsp"}, ClearBegin(a) PROVE Fresh'
  BY <1>9 DEF ClearBegin, threads, Clear, NoClear
<1>10. CASE Insert
  BY <1>10 DEF Insert
<1>11. CASE Remove
  BY <1>11 DEF Remove
<1>12. CASE Ref
  BY <1>12 DEF Ref, Control, NoContext
<1>13. CASE RefFails
  BY <1>13 DEF RefFails
<1>14. CASE Push
  BY <1>14 DEF Push, Control, NoContext
<1>15. CASE Spawn
  BY <1>15 DEF Spawn, Session
<1>16. CASE Run
  BY <1>16 DEF Run, Session
<1>17. CASE Count
  BY <1>17 DEF Count, Session, Control, NoContext, Gone, NoSession
<1>18. CASE Pass
  BY <1>18, PassKeeps, ZenonT(60) DEF Pass, threads
<1>19. CASE Leave
  BY <1>19, LeaveKeeps DEF Leave, threads
<1>20. CASE Pop
  BY <1>20 DEF Pop, threads, Control, NoContext
<1>21. CASE Cancel
  BY <1>21 DEF Cancel, Https
<1>22. CASE AppEnds
  BY <1>22 DEF AppEnds, threads
<1>23. CASE Kill
  BY <1>23 DEF Kill, threads, Session, Control, NoContext, Clear, Https, Idle, NoClear, NoSession
<1>24. CASE Wake
  BY <1>24 DEF Wake
<1>25. CASE TimerDue
  BY <1>25 DEF TimerDue, threads
<1>26. CASE Expire
  BY <1>26 DEF Expire
<1>27. ASSUME NEW l \in Launch, Ask(l) PROVE Fresh'
  BY <1>27 DEF Ask, Https
<1>28. ASSUME NEW l \in Launch, Accept(l) PROVE Fresh'
  BY <1>28 DEF Accept
<1>29. ASSUME NEW l \in Launch, Announce(l) PROVE Fresh'
  BY <1>29 DEF Announce
<1>30. ASSUME NEW l \in Launch, Play(l) PROVE Fresh'
  BY <1>30 DEF Play
<1>31. ASSUME NEW l \in Launch, Silence(l) PROVE Fresh'
  BY <1>31 DEF Silence, threads, Session, Stop
<1>32. ASSUME NEW l \in Launch, Connect(l) PROVE Fresh'
  BY <1>32 DEF Connect, threads, Session, Control, NoContext, Stop
<1>33. ASSUME NEW l \in Launch, Disconnect(l) PROVE Fresh'
  BY <1>33 DEF Disconnect, threads, Session, Stop
<1>34. ASSUME NEW l \in Launch, ThreadEnds(l) PROVE Fresh'
  BY <1>34 DEF ThreadEnds, threads, Session, Stop
<1>35. CASE UNCHANGED vars
  BY <1>35 DEF vars, threads
<1> HIDE DEF TypeOK, Fresh, Unborn, Before, Rtsp, Stage
<1> QED
  BY <1>1, <1>2, <1>3, <1>4, <1>5, <1>6, <1>7, <1>8, <1>9, <1>10, <1>11, <1>12, <1>13, <1>14, <1>15, <1>16, <1>17, <1>18, <1>19, <1>20, <1>21, <1>22, <1>23, <1>24, <1>25, <1>26, <1>27, <1>28, <1>29, <1>30, <1>31, <1>32, <1>33, <1>34, <1>35 DEF Next, HttpsNext, ClearNext, LockNext, StartNext, ControlNext

LEMMA EndedInductive ==
    ASSUME TypeOK, Lock, Asked, Fresh, Ended, Owned, [Next]_vars
    PROVE  Ended'
<1> USE LaunchAssumption DEF TypeOK, Ended, Joinable, Clear, Rtsp, Control
<1>1. CASE Refuse
  BY <1>1 DEF Refuse, Stage, Https, Idle
<1>2. CASE Answer
  BY <1>2 DEF Answer, Stage, Https, Idle
<1>3. CASE Terminate
  BY <1>3 DEF Terminate, Https, Idle
<1>4. ASSUME NEW l \in Launch, ClearVisit(l) PROVE Ended'
  <2>1. /\ \A k \in Launch : /\ ses'[k].live = ses[k].live
                             /\ ses'[k].spawned = ses[k].spawned
                             /\ ses'[k].controlEnd = ses[k].controlEnd
        /\ clear'.by = clear.by /\ clear'.todo = clear.todo \ {l}
        /\ clear'.cur \in {l, None} /\ clear'.step \in {"visit", "join"}
    BY <1>4, VisitKeeps
  <2>2. l \in clear.todo /\ UNCHANGED <<client, slots, control, rtsp, https>>
    BY <1>4 DEF ClearVisit, threads
  <2> QED
    BY <2>1, <2>2
<1>5. CASE Join
  BY <1>5 DEF Join, threads
<1>6. CASE Erase
  BY <1>6, EraseKeeps DEF NoContext, Holders
<1>7. CASE JoinThrows
  BY <1>7 DEF JoinThrows, Https, Idle, NoClear
<1>8. CASE ClearEnd
  BY <1>8 DEF ClearEnd, Https, NoClear
<1>9. ASSUME NEW a \in {"https", "rtsp"}, ClearBegin(a) PROVE Ended'
  BY <1>9 DEF ClearBegin, threads, NoClear
<1>10. CASE Insert
  BY <1>10 DEF Insert
<1>11. CASE Remove
  BY <1>11 DEF Remove, Stage
<1>12. CASE Ref
  BY <1>12 DEF Ref, NoContext
<1>13. CASE RefFails
  BY <1>13 DEF RefFails
<1>14. CASE Push
  BY <1>14 DEF Push, Control, Rtsp, Fresh, Unborn
<1>15. CASE Spawn
  BY <1>15 DEF Spawn, Session, Rtsp, Fresh
<1>16. CASE Run
  BY <1>16 DEF Run, Session
<1>17. CASE Count
  BY <1>17 DEF Count, Session, Rtsp, Control, NoContext, Lock
<1>18. CASE Pass
  <2>1. /\ \A k \in Launch :
              /\ ses'[k].live = ses[k].live
              /\ ses'[k].spawned = ses[k].spawned
              /\ ses[k].controlEnd => ses'[k].controlEnd
        /\ \A k \in control'.sessions : k \in control.sessions /\ (ses'[k].controlEnd => ses[k].controlEnd)
        /\ control'.pc \in {"poll", "leave"}
    BY <1>18, PassKeeps
  <2>2. UNCHANGED <<client, slots, clear, rtsp>> /\ control.pc = "poll"
    BY <1>18 DEF Pass, threads
  <2> QED
    BY <2>1, <2>2
<1>19. CASE Leave
  <2>1. /\ \A k \in Launch :
              /\ ses'[k].live = ses[k].live
              /\ ses'[k].spawned = ses[k].spawned
              /\ ses[k].controlEnd => ses'[k].controlEnd
        /\ control'.pc = "left"
    BY <1>19, LeaveKeeps
  <2>2. UNCHANGED <<client, slots, clear, rtsp>>
    BY <1>19 DEF Leave, threads
  <2> QED
    BY <2>1, <2>2
<1>20. CASE Pop
  BY <1>20 DEF Pop, threads, NoContext
<1>21. CASE Cancel
  BY <1>21 DEF Cancel, Https
<1>22. CASE AppEnds
  BY <1>22 DEF AppEnds, threads
<1>23. CASE Kill
  BY <1>23 DEF Kill, threads, Stage, Session, NoContext, Https, Idle, NoClear, NoSession
<1>24. CASE Wake
  BY <1>24 DEF Wake
<1>25. CASE TimerDue
  BY <1>25 DEF TimerDue, threads
<1>26. CASE Expire
  BY <1>26 DEF Expire
<1>27. ASSUME NEW l \in Launch, Ask(l) PROVE Ended'
  BY <1>27 DEF Ask, Stage, Https
<1>28. ASSUME NEW l \in Launch, Accept(l) PROVE Ended'
  BY <1>28 DEF Accept, Stage
<1>29. ASSUME NEW l \in Launch, Announce(l) PROVE Ended'
  BY <1>29 DEF Announce, Stage
<1>30. ASSUME NEW l \in Launch, Play(l) PROVE Ended'
  BY <1>30 DEF Play, Stage
<1>31. ASSUME NEW l \in Launch, Silence(l) PROVE Ended'
  BY <1>31 DEF Silence, threads, Session, Stop
<1>32. ASSUME NEW l \in Launch, Connect(l) PROVE Ended'
  BY <1>32 DEF Connect, threads, Session, NoContext, Stop
<1>33. ASSUME NEW l \in Launch, Disconnect(l) PROVE Ended'
  BY <1>33 DEF Disconnect, threads, Session, Stop
<1>34. ASSUME NEW l \in Launch, ThreadEnds(l) PROVE Ended'
  BY <1>34 DEF ThreadEnds, threads, Session, Stop
<1>35. CASE UNCHANGED vars
  BY <1>35 DEF vars, threads
<1> HIDE DEF TypeOK, Ended, Joinable, Clear, Rtsp, Control
<1> QED
  BY <1>1, <1>2, <1>3, <1>4, <1>5, <1>6, <1>7, <1>8, <1>9, <1>10, <1>11, <1>12, <1>13, <1>14, <1>15, <1>16, <1>17, <1>18, <1>19, <1>20, <1>21, <1>22, <1>23, <1>24, <1>25, <1>26, <1>27, <1>28, <1>29, <1>30, <1>31, <1>32, <1>33, <1>34, <1>35 DEF Next, HttpsNext, ClearNext, LockNext, StartNext, ControlNext

LEMMA OwnedInductive ==
    ASSUME TypeOK, Lock, Asked, Fresh, Ended, Owned, [Next]_vars
    PROVE  Owned'
<1> USE LaunchAssumption DEF TypeOK, Owned, Holders
<1>1. CASE Refuse
  BY <1>1 DEF Refuse, Stage, Https, Idle
<1>2. CASE Answer
  BY <1>2 DEF Answer, Stage, Https, Idle
<1>3. CASE Terminate
  BY <1>3 DEF Terminate, Https, Idle
<1>4. ASSUME NEW l \in Launch, ClearVisit(l) PROVE Owned'
  <2>1. /\ \A k \in Launch : /\ ses'[k].live = ses[k].live
                             /\ ses'[k].spawned = ses[k].spawned
                             /\ ses'[k].controlEnd = ses[k].controlEnd
        /\ clear'.by = clear.by /\ clear'.todo = clear.todo \ {l}
        /\ clear'.cur \in {l, None} /\ clear'.step \in {"visit", "join"}
    BY <1>4, VisitKeeps
  <2>2. l \in clear.todo /\ UNCHANGED <<client, slots, control, rtsp, https>>
    BY <1>4 DEF ClearVisit, threads
  <2> QED
    BY <2>1, <2>2
<1>5. CASE Join
  BY <1>5 DEF Join, threads, Clear
<1>6. CASE Erase
  BY <1>6, EraseKeeps DEF NoContext
<1>7. CASE JoinThrows
  BY <1>7 DEF JoinThrows, Clear, Https, Idle, NoClear
<1>8. CASE ClearEnd
  BY <1>8 DEF ClearEnd, Lock, Rtsp
<1>9. ASSUME NEW a \in {"https", "rtsp"}, ClearBegin(a) PROVE Owned'
  BY <1>9 DEF ClearBegin, threads, Clear, NoClear
<1>10. CASE Insert
  BY <1>10 DEF Insert, Fresh, Rtsp
<1>11. CASE Remove
  BY <1>11 DEF Remove, Stage, Rtsp
<1>12. CASE Ref
  BY <1>12 DEF Ref, Control, NoContext, Rtsp
<1>13. CASE RefFails
  BY <1>13 DEF RefFails, Rtsp
<1>14. CASE Push
  BY <1>14 DEF Push, Control, NoContext, Rtsp
<1>15. CASE Spawn
  BY <1>15 DEF Spawn, Session, Rtsp
<1>16. CASE Run
  BY <1>16 DEF Run, Session, Rtsp
<1>17. CASE Count
  BY <1>17 DEF Count, Rtsp, Ended, Session, Control, NoContext, Gone, NoSession
<1>18. CASE Pass
  BY <1>18, PassKeeps DEF Pass, threads
<1>19. CASE Leave
  BY <1>19 DEF Leave, threads, Session, Control, NoContext
<1>20. CASE Pop
  BY <1>20 DEF Pop, threads, Control, NoContext
<1>21. CASE Cancel
  BY <1>21 DEF Cancel, Https
<1>22. CASE AppEnds
  BY <1>22 DEF AppEnds, threads
<1>23. CASE Kill
  BY <1>23 DEF Kill, threads, Stage, Session, Control, NoContext, Clear, Rtsp, Https, Idle, NoClear, NoSession
<1>24. CASE Wake
  BY <1>24 DEF Wake, Rtsp
<1>25. CASE TimerDue
  BY <1>25 DEF TimerDue, threads
<1>26. CASE Expire
  BY <1>26 DEF Expire, Rtsp
<1>27. ASSUME NEW l \in Launch, Ask(l) PROVE Owned'
  BY <1>27 DEF Ask, Stage, Https
<1>28. ASSUME NEW l \in Launch, Accept(l) PROVE Owned'
  BY <1>28 DEF Accept, Stage, Rtsp
<1>29. ASSUME NEW l \in Launch, Announce(l) PROVE Owned'
  BY <1>29 DEF Announce, Stage, Rtsp
<1>30. ASSUME NEW l \in Launch, Play(l) PROVE Owned'
  BY <1>30 DEF Play, Stage, Rtsp
<1>31. ASSUME NEW l \in Launch, Silence(l) PROVE Owned'
  BY <1>31 DEF Silence, threads, Session, Stop
<1>32. ASSUME NEW l \in Launch, Connect(l) PROVE Owned'
  BY <1>32 DEF Connect, threads, Session, Control, NoContext, Stop
<1>33. ASSUME NEW l \in Launch, Disconnect(l) PROVE Owned'
  BY <1>33 DEF Disconnect, threads, Session, Stop
<1>34. ASSUME NEW l \in Launch, ThreadEnds(l) PROVE Owned'
  BY <1>34 DEF ThreadEnds, threads, Session, Stop
<1>35. CASE UNCHANGED vars
  BY <1>35 DEF vars, threads
<1> HIDE DEF TypeOK, Owned, Holders
<1> QED
  BY <1>1, <1>2, <1>3, <1>4, <1>5, <1>6, <1>7, <1>8, <1>9, <1>10, <1>11, <1>12, <1>13, <1>14, <1>15, <1>16, <1>17, <1>18, <1>19, <1>20, <1>21, <1>22, <1>23, <1>24, <1>25, <1>26, <1>27, <1>28, <1>29, <1>30, <1>31, <1>32, <1>33, <1>34, <1>35 DEF Next, HttpsNext, ClearNext, LockNext, StartNext, ControlNext

LEMMA SlotsFinite ==
    ASSUME TypeOK
    PROVE  IsFiniteSet(slots) /\ Cardinality(slots) \in Nat
BY LaunchAssumption, FS_Subset, FS_CardinalityType DEF TypeOK

LEMMA OneLess ==
    ASSUME NEW S, IsFiniteSet(S), NEW x \in S
    PROVE  Cardinality(S \ {x}) = Cardinality(S) - 1
<1>1. Cardinality(S \ {x}) = IF x \in S THEN Cardinality(S) - 1 ELSE Cardinality(S)
  BY FS_RemoveElement, Zenon
<1> QED
  BY <1>1

LEMMA BalanceInductive ==
    ASSUME TypeOK, Lock, Fresh, Ended, Owned, Balance, [Next]_vars
    PROVE  Balance'
<1> USE LaunchAssumption DEF TypeOK, Balance, Uncounted, Joined, Clear, Rtsp
<1>1. CASE Refuse
  BY <1>1 DEF Refuse, Stage, Https, Idle
<1>2. CASE Answer
  BY <1>2 DEF Answer, Stage, Https, Idle
<1>3. CASE Terminate
  BY <1>3 DEF Terminate, Https, Idle
<1>4. ASSUME NEW l \in Launch, ClearVisit(l) PROVE Balance'
  <2>1. clear'.step \in {"visit", "join"}
    BY <1>4, VisitKeeps
  <2>2. clear.step = "visit" /\ UNCHANGED <<slots, rtsp, running>>
    BY <1>4 DEF ClearVisit, threads
  <2> QED
    BY <2>1, <2>2
<1>5. CASE Join
  BY <1>5, SlotsFinite DEF Join, threads
<1>6. CASE Erase
  <2>1. clear.cur \in slots /\ slots' = slots \ {clear.cur}
    BY <1>6, EraseKeeps
  <2>2. Cardinality(slots') = Cardinality(slots) - 1
    BY <2>1, SlotsFinite, OneLess
  <2>3. clear.step = "erase" /\ clear'.step = "visit" /\ UNCHANGED <<rtsp, running>>
    BY <1>6 DEF Erase, threads
  <2> QED
    BY <2>2, <2>3, SlotsFinite
<1>7. CASE JoinThrows
  BY <1>7 DEF JoinThrows, Https, Idle, NoClear
<1>8. CASE ClearEnd
  BY <1>8 DEF ClearEnd, Lock, NoClear
<1>9. ASSUME NEW a \in {"https", "rtsp"}, ClearBegin(a) PROVE Balance'
  BY <1>9 DEF ClearBegin, Lock, NoClear, threads
<1>10. CASE Insert
  <2>1. rtsp.cur \notin slots /\ slots' = slots \union {rtsp.cur}
    BY <1>10 DEF Insert, Fresh
  <2>2. Cardinality(slots') = Cardinality(slots) + 1
    BY <2>1, SlotsFinite, FS_AddElement
  <2> QED
    BY <1>10, <2>2, SlotsFinite DEF Insert
<1>11. CASE Remove
  <2>1. rtsp.cur \in slots /\ slots' = slots \ {rtsp.cur}
    BY <1>11 DEF Remove, Fresh
  <2>2. Cardinality(slots') = Cardinality(slots) - 1
    BY <2>1, SlotsFinite, OneLess
  <2> QED
    BY <1>11, <2>2, SlotsFinite DEF Remove
<1>12. CASE Ref
  BY <1>12 DEF Ref, Control, NoContext
<1>13. CASE RefFails
  BY <1>13 DEF RefFails
<1>14. CASE Push
  BY <1>14 DEF Push, Control, NoContext
<1>15. CASE Spawn
  BY <1>15 DEF Spawn, Session
<1>16. CASE Run
  BY <1>16 DEF Run, Session
<1>17. CASE Count
  BY <1>17, SlotsFinite DEF Count
<1>18. CASE Pass
  BY <1>18 DEF Pass, threads, Session, Control, NoContext, Stop
<1>19. CASE Leave
  BY <1>19 DEF Leave, threads, Session, Control, NoContext
<1>20. CASE Pop
  BY <1>20 DEF Pop, threads, Control, NoContext
<1>21. CASE Cancel
  BY <1>21 DEF Cancel, Https
<1>22. CASE AppEnds
  BY <1>22 DEF AppEnds, threads
<1>23. CASE Kill
  BY <1>23, FS_EmptySet DEF Kill, Idle, NoClear
<1>24. CASE Wake
  BY <1>24 DEF Wake
<1>25. CASE TimerDue
  BY <1>25 DEF TimerDue, threads
<1>26. CASE Expire
  BY <1>26 DEF Expire
<1>27. ASSUME NEW l \in Launch, Ask(l) PROVE Balance'
  BY <1>27 DEF Ask, Stage, Https
<1>28. ASSUME NEW l \in Launch, Accept(l) PROVE Balance'
  BY <1>28 DEF Accept, Stage
<1>29. ASSUME NEW l \in Launch, Announce(l) PROVE Balance'
  BY <1>29 DEF Announce, Stage
<1>30. ASSUME NEW l \in Launch, Play(l) PROVE Balance'
  BY <1>30 DEF Play, Stage
<1>31. ASSUME NEW l \in Launch, Silence(l) PROVE Balance'
  BY <1>31 DEF Silence, threads, Session, Stop
<1>32. ASSUME NEW l \in Launch, Connect(l) PROVE Balance'
  BY <1>32 DEF Connect, threads, Session, Control, NoContext, Stop
<1>33. ASSUME NEW l \in Launch, Disconnect(l) PROVE Balance'
  BY <1>33 DEF Disconnect, threads, Session, Stop
<1>34. ASSUME NEW l \in Launch, ThreadEnds(l) PROVE Balance'
  BY <1>34 DEF ThreadEnds, threads, Session, Stop
<1>35. CASE UNCHANGED vars
  BY <1>35 DEF vars, threads
<1> HIDE DEF TypeOK, Balance, Uncounted, Joined, Clear, Rtsp
<1> QED
  BY <1>1, <1>2, <1>3, <1>4, <1>5, <1>6, <1>7, <1>8, <1>9, <1>10, <1>11, <1>12, <1>13, <1>14, <1>15, <1>16, <1>17, <1>18, <1>19, <1>20, <1>21, <1>22, <1>23, <1>24, <1>25, <1>26, <1>27, <1>28, <1>29, <1>30, <1>31, <1>32, <1>33, <1>34, <1>35 DEF Next, HttpsNext, ClearNext, LockNext, StartNext, ControlNext

\* The whole invariant.
Inv == TypeOK /\ Lock /\ Asked /\ Fresh /\ Ended /\ Owned /\ Balance

LEMMA InvInit ==
    ASSUME Init
    PROVE  Inv
<1> USE LaunchAssumption DEF Init
<1>1. TypeOK
  <2>1. NoSession \in Session /\ NoEvent \in Event
    BY DEF Session, NoSession, Event, NoEvent
  <2>2. NoContext \in Control /\ NoClear \in Clear /\ Idle \in Rtsp /\ Idle \in Https
    BY DEF NoContext, Control, NoClear, Clear, Idle, Rtsp, Https
  <2>3. /\ client \in [Launch -> Stage] /\ slots \in SUBSET Launch
        /\ running \in Int
    BY DEF Stage
  <2>4. ses \in [Launch -> Session]
    BY <2>1
  <2>5. /\ clear.cur = None <=> clear.step = "visit"
        /\ rtsp.cur = None <=> rtsp.pc \in {"idle", "clear"}
    BY DEF NoClear, Idle
  <2>6. app \in BOOLEAN
    OBVIOUS
  <2> QED
    BY <2>1, <2>2, <2>3, <2>4, <2>5, <2>6 DEF TypeOK
<1>2. Lock /\ Asked /\ Fresh /\ Ended
  BY DEF Lock, Asked, Fresh, Unborn, Before, Ended, Joinable, NoSession, NoContext, NoClear, Idle
<1>3. Owned
  BY DEF Owned, Holders, NoSession, NoContext
<1>4. Balance
  BY FS_EmptySet DEF Balance, Uncounted, Joined, NoClear, Idle
<1> QED
  BY <1>1, <1>2, <1>3, <1>4 DEF Inv

LEMMA InvNext ==
    ASSUME Inv, [Next]_vars
    PROVE  Inv'
<1>1. TypeOK /\ Lock /\ Asked /\ Fresh /\ Ended /\ Owned /\ Balance
  BY DEF Inv
<1>2. TypeOK'
  BY <1>1, TypeInductive
<1>4. Lock' /\ Asked' /\ Fresh' /\ Ended' /\ Owned' /\ Balance'
  BY <1>1, LockInductive, AskedInductive, FreshInductive, EndedInductive, OwnedInductive,
     BalanceInductive
<1> QED
  BY <1>2, <1>4 DEF Inv

LEMMA Invariance == Spec => []Inv
<1>1. Init => Inv
  BY InvInit
<1>2. Inv /\ [Next]_vars => Inv'
  BY InvNext
<1> QED
  BY <1>1, <1>2, PTL DEF Spec

\* Every variable keeps its type, and a thread has a session in hand exactly while it handles
\* one (rtsp.cpp:552, 1084).
THEOREM Typed == Spec => []TypeOK
<1>1. Inv => TypeOK
  BY DEF Inv
<1> QED
  BY <1>1, Invariance, PTL

\* Neither the control thread, which keeps raw pointers, nor a video or audio thread works on
\* a session that was freed (stream.cpp:318, 1971).
THEOREM NeverFreedInUse == Spec => []Owned
<1>1. Inv => Owned
  BY DEF Inv
<1> QED
  BY <1>1, Invariance, PTL

\* Between two starts or ends, running_sessions is the number of the slots (stream.cpp:1926,
\* 1977).
THEOREM CountKept == Spec => []Counted
<1>1. Inv => Counted
  <2> SUFFICES ASSUME Inv, Quiet PROVE running = Cardinality(slots)
    BY DEF Counted
  <2>1. Cardinality(slots) \in Nat
    BY SlotsFinite DEF Inv
  <2>2. Uncounted = 0 /\ Joined = 0
    BY DEF Quiet, Uncounted, Joined
  <2>3. running = Cardinality(slots) - Uncounted - Joined
    BY DEF Inv, Balance
  <2> QED
    BY <2>1, <2>2, <2>3
<1> QED
  BY <1>1, Invariance, PTL
=============================================================================
