--------------------------- MODULE StreamSession ---------------------------
(***************************************************************************)
(* From a launch to the end of its stream (src/nvhttp.cpp, src/rtsp.cpp,   *)
(* src/stream.cpp).  The HTTPS thread takes launches and cancels, the RTSP *)
(* thread runs one handler of its io_context at a time and then clears the *)
(* stopped sessions, the control thread serves the clients' peers, and     *)
(* every session has a video and an audio thread.                          *)
(***************************************************************************)
EXTENDS Integers, FiniteSets

CONSTANTS
    Launch,     \* launch sessions; the stream session of one has its name
    None

ASSUME LaunchAssumption == IsFiniteSet(Launch) /\ None \notin Launch

VARIABLES
    app,        \* proc::proc.running()
    event,      \* launch_event with its timer, raised_timer
    client,     \* how far the client of a launch is
    ses,        \* session_t
    slots,      \* _session_slots
    control,    \* the broadcast context: its thread, and the _sessions it serves
    clear,      \* the one clear() that holds the lock of the slots
    rtsp, https,            \* the two threads
    running     \* running_sessions

threads == <<rtsp, https>>
vars == <<app, event, client, ses, slots, control, clear, rtsp, https, running>>

NoSession == [state |-> "STOPPED", spawned |-> FALSE, live |-> 0, shutdown |-> FALSE,
              controlEnd |-> FALSE, peer |-> FALSE, silent |-> FALSE]
NoContext == [pc |-> "none", sessions |-> {}]
NoClear == [by |-> "none", todo |-> {}, cur |-> None, step |-> "visit"]

NoEvent == [pending |-> None, armed |-> FALSE, expired |-> 0]
Idle == [pc |-> "idle", cur |-> None]

Init ==
    /\ app = FALSE /\ event = NoEvent
    /\ client = [l \in Launch |-> "idle"]
    /\ ses = [l \in Launch |-> NoSession] /\ slots = {}
    /\ control = NoContext /\ clear = NoClear
    /\ rtsp = Idle /\ https = Idle /\ running = 0

\* Mutant: the state changes, but the threads are not told.
StopUntold(s) == IF s.state = "RUNNING" THEN [s EXCEPT !.state = "STOPPING"] ELSE s

\* session::stop(): only a RUNNING session stops.
Stop(s) == IF s.state = "RUNNING" THEN [s EXCEPT !.state = "STOPPING", !.shutdown = TRUE] ELSE s

----------------------------------------------------------------------------
\* The HTTPS thread.

\* GET /launch, or /resume while the app runs: session_count() clears the stopped sessions.
Ask(l) ==
    /\ https.pc = "idle" /\ client[l] = "idle"
    /\ client' = [client EXCEPT ![l] = IF app THEN "resuming" ELSE "launching"]
    /\ https' = [pc |-> "clear", cur |-> l]
    /\ UNCHANGED <<app, event, ses, slots, control, clear, rtsp, running>>

\* The encoder, the encryption or the app fails the request.
Refuse ==
    /\ https.pc = "answer"
    /\ client' = [client EXCEPT ![https.cur] = "refused"]
    /\ https' = Idle
    /\ UNCHANGED <<app, event, ses, slots, control, clear, rtsp, running>>

\* Mutant: the timer is not armed.
SessionRaiseUntimed(l) ==
    event' = IF event.pending # None THEN event ELSE [event EXCEPT !.pending = l]

\* A launch is dropped while another is pending.
SessionRaise(l) ==
    event' = IF event.pending # None THEN event ELSE [event EXCEPT !.pending = l, !.armed = TRUE]

\* The app is executed, the launch raised, and the answer is 200 even if it was dropped.
Answer ==
    /\ https.pc = "answer"
    /\ app' = (app \/ client[https.cur] = "launching")
    /\ SessionRaise(https.cur)
    /\ client' = [client EXCEPT ![https.cur] = "answered"]
    /\ https' = Idle
    /\ UNCHANGED <<ses, slots, control, clear, rtsp, running>>

\* GET /cancel clears every session, then ends the app.
Cancel ==
    /\ https.pc = "idle"
    /\ https' = [pc |-> "clear", cur |-> None]
    /\ UNCHANGED <<app, event, client, ses, slots, control, clear, rtsp, running>>

Terminate ==
    /\ https.pc = "terminate"
    /\ app' = FALSE
    /\ https' = Idle
    /\ UNCHANGED <<event, client, ses, slots, control, clear, rtsp, running>>

\* The app exits by itself.
AppEnds ==
    /\ app /\ app' = FALSE
    /\ UNCHANGED <<event, client, ses, slots, control, clear, threads, running>>

----------------------------------------------------------------------------
\* clear(), by the HTTPS or the RTSP thread, under the lock of the slots.

ClearBegin(a) ==
    /\ clear.by = "none"
    /\ "clear" = IF a = "https" THEN https.pc ELSE rtsp.pc
    /\ clear' = [NoClear EXCEPT !.by = a, !.todo = slots]
    /\ UNCHANGED <<app, event, client, ses, slots, control, threads, running>>

All == clear.by = "https" /\ https.cur = None

ClearVisit(l) ==
    /\ clear.step = "visit" /\ l \in clear.todo
    /\ IF All \/ ses[l].state = "STOPPING"
         THEN /\ ses' = [ses EXCEPT ![l] = Stop(@)]
              /\ clear' = [clear EXCEPT !.todo = @ \ {l}, !.cur = l, !.step = "join"]
         ELSE /\ clear' = [clear EXCEPT !.todo = @ \ {l}]
              /\ UNCHANGED ses
    /\ UNCHANGED <<app, event, client, slots, control, threads, running>>

\* Mutant: controlEnd is not waited for.
JoinableEarly(s) == s.spawned /\ s.live = 0

\* session::join() waits for the two threads and for controlEnd.
Joinable(s) == s.spawned /\ s.live = 0 /\ s.controlEnd

Join ==
    /\ clear.step = "join" /\ Joinable(ses[clear.cur])
    /\ running' = running - 1
    /\ clear' = [clear EXCEPT !.step = "erase"]
    /\ UNCHANGED <<app, event, client, ses, slots, control, threads>>

\* The sessions among S that hold the broadcast context.  When the last is gone,
\* end_broadcast() ends its threads; none hangs then, as a pop() is for a session that holds it.
Holders(S) ==
    CASE rtsp.pc \in {"ref", "remove"} -> S \ {rtsp.cur}
      [] rtsp.pc \in {"push", "spawn", "run", "count"} -> S \union {rtsp.cur}
      [] OTHER -> S

\* The session_t is destroyed; a thread not joined would run on.
Gone(s) == [NoSession EXCEPT !.live = s.live]

\* Mutant: the iterator stays at the erased session.
EraseStays ==
    /\ clear.step = "erase"
    /\ slots' = slots \ {clear.cur}
    /\ ses' = [ses EXCEPT ![clear.cur] = IF clear.cur \in Holders(slots') THEN @ ELSE Gone(@)]
    /\ control' = IF Holders(slots') = {} THEN NoContext ELSE control
    /\ clear' = [clear EXCEPT !.step = "visit"]
    /\ UNCHANGED <<app, event, client, threads, running>>

Erase ==
    /\ clear.step = "erase"
    /\ slots' = slots \ {clear.cur}
    /\ ses' = [ses EXCEPT ![clear.cur] = IF clear.cur \in Holders(slots') THEN @ ELSE Gone(@)]
    /\ control' = IF Holders(slots') = {} THEN NoContext ELSE control
    /\ clear' = [clear EXCEPT !.cur = None, !.step = "visit"]
    /\ UNCHANGED <<app, event, client, threads, running>>

\* A thread that was not started yet cannot be joined: the request is given up.
JoinThrows ==
    /\ clear.step = "join" /\ ~ses[clear.cur].spawned
    /\ clear' = NoClear
    /\ https' = Idle
    /\ UNCHANGED <<app, event, client, ses, slots, control, rtsp, running>>

\* The join took ten seconds: the process ends, and its service starts it again.
Kill ==
    /\ clear.step = "join" /\ ses[clear.cur].spawned /\ ~Joinable(ses[clear.cur])
    /\ app' = FALSE /\ event' = NoEvent
    /\ client' = [l \in Launch |-> "idle"]
    /\ ses' = [l \in Launch |-> NoSession] /\ slots' = {}
    /\ control' = NoContext /\ clear' = NoClear
    /\ rtsp' = Idle /\ https' = Idle /\ running' = 0

ClearEnd ==
    /\ clear.by # "none" /\ clear.step = "visit" /\ clear.todo = {}
    /\ clear' = NoClear
    /\ IF clear.by = "rtsp"
         THEN rtsp' = [rtsp EXCEPT !.pc = "idle"] /\ UNCHANGED https
         ELSE /\ https' = [https EXCEPT !.pc = IF All THEN "terminate" ELSE "answer"]
              /\ UNCHANGED rtsp
    /\ UNCHANGED <<app, event, client, ses, slots, control, running>>

----------------------------------------------------------------------------
\* The RTSP thread.

\* The connection of l's ANNOUNCE; those before it change nothing.  Handlers run in the order
\* in which they were queued: one that comes after the timer's waits for it.
\* Clients encrypt RTSP with the key of their own launch, so that a connection which is
\* handed another launch cannot speak.
Accept(l) ==
    /\ rtsp.pc = "idle" /\ event.expired = 0 /\ client[l] = "answered"
    /\ client' = [client EXCEPT ![l] = IF event.pending = l THEN "open" ELSE "refused"]
    /\ rtsp' = [rtsp EXCEPT !.pc = "clear"]
    /\ UNCHANGED <<app, event, ses, slots, control, clear, https, running>>

\* ANNOUNCE with parameters that are accepted.
Announce(l) ==
    /\ rtsp.pc = "idle" /\ event.expired = 0 /\ client[l] = "open"
    /\ client' = [client EXCEPT ![l] = "announcing"]
    /\ rtsp' = [pc |-> "insert", cur |-> l]
    /\ UNCHANGED <<app, event, ses, slots, control, clear, https, running>>

Insert ==
    /\ rtsp.pc = "insert" /\ clear.by = "none"
    /\ slots' = slots \union {rtsp.cur}
    /\ rtsp' = [rtsp EXCEPT !.pc = "ref"]
    /\ UNCHANGED <<app, event, client, ses, control, clear, https, running>>

\* broadcast.ref(): the first one starts the threads of the context.
Ref ==
    /\ rtsp.pc = "ref"
    /\ control' = IF control.pc = "none" THEN [control EXCEPT !.pc = "poll"] ELSE control
    /\ rtsp' = [rtsp EXCEPT !.pc = "push"]
    /\ UNCHANGED <<app, event, client, ses, slots, clear, https, running>>

RefFails ==
    /\ rtsp.pc = "ref" /\ control.pc = "none"
    /\ rtsp' = [rtsp EXCEPT !.pc = "remove"]
    /\ UNCHANGED <<app, event, client, ses, slots, control, clear, https, running>>

\* Mutant: a session that failed to start is counted as one that ended.
RemoveCounted ==
    /\ rtsp.pc = "remove" /\ clear.by = "none"
    /\ slots' = slots \ {rtsp.cur}
    /\ client' = [client EXCEPT ![rtsp.cur] = "refused"]
    /\ running' = running - 1
    /\ rtsp' = [pc |-> "clear", cur |-> None]
    /\ UNCHANGED <<app, event, ses, control, clear, https>>

Remove ==
    /\ rtsp.pc = "remove" /\ clear.by = "none"
    /\ slots' = slots \ {rtsp.cur}
    /\ client' = [client EXCEPT ![rtsp.cur] = "refused"]
    /\ rtsp' = [pc |-> "clear", cur |-> None]
    /\ UNCHANGED <<app, event, ses, control, clear, https, running>>

\* _sessions is locked while the control thread is in get_session().
Push ==
    /\ rtsp.pc = "push" /\ control.pc # "pop"
    /\ control' = [control EXCEPT !.sessions = @ \union {rtsp.cur}]
    /\ rtsp' = [rtsp EXCEPT !.pc = "spawn"]
    /\ UNCHANGED <<app, event, client, ses, slots, clear, https, running>>

Spawn ==
    /\ rtsp.pc = "spawn"
    /\ ses' = [ses EXCEPT ![rtsp.cur].spawned = TRUE, ![rtsp.cur].live = 2]
    /\ rtsp' = [rtsp EXCEPT !.pc = "run"]
    /\ UNCHANGED <<app, event, client, slots, control, clear, https, running>>

Run ==
    /\ rtsp.pc = "run"
    /\ ses' = [ses EXCEPT ![rtsp.cur].state = "RUNNING"]
    /\ rtsp' = [rtsp EXCEPT !.pc = "count"]
    /\ UNCHANGED <<app, event, client, slots, control, clear, https, running>>

\* The answer is 200.
Count ==
    /\ rtsp.pc = "count"
    /\ running' = running + 1
    /\ client' = [client EXCEPT ![rtsp.cur] = "announced"]
    /\ rtsp' = [pc |-> "clear", cur |-> None]
    /\ ses' = [ses EXCEPT ![rtsp.cur] = IF rtsp.cur \in slots THEN @ ELSE Gone(@)]
    /\ control' = IF slots = {} THEN NoContext ELSE control
    /\ UNCHANGED <<app, event, slots, clear, https>>

\* PLAY, for which the client connects once more; it may have been queued before the timer's
\* handler.
Play(l) ==
    /\ rtsp.pc = "idle" /\ client[l] = "announced"
    /\ client' = [client EXCEPT ![l] = IF event.pending = l THEN "playing" ELSE "refused"]
    /\ rtsp' = [rtsp EXCEPT !.pc = "clear"]
    /\ UNCHANGED <<app, event, ses, slots, control, clear, https, running>>

\* run_one_for(500ms) returns without a handler.
Wake ==
    /\ rtsp.pc = "idle" /\ slots # {} /\ event.expired = 0
    /\ rtsp' = [rtsp EXCEPT !.pc = "clear"]
    /\ UNCHANGED <<app, event, client, ses, slots, control, clear, https, running>>

\* raised_timer is due: its handler is queued, and cannot be cancelled any more.
TimerDue ==
    /\ rtsp.pc = "idle" /\ event.armed
    /\ event' = [event EXCEPT !.armed = FALSE, !.expired = @ + 1]
    /\ UNCHANGED <<app, client, ses, slots, control, clear, threads, running>>

Expire ==
    /\ rtsp.pc = "idle" /\ event.expired > 0
    /\ event' = [event EXCEPT !.pending = None, !.expired = @ - 1]
    /\ rtsp' = [rtsp EXCEPT !.pc = "clear"]
    /\ UNCHANGED <<app, client, ses, slots, control, clear, https, running>>

----------------------------------------------------------------------------
\* The control thread.

\* One pass over _sessions: who is silent too long is stopped, who is STOPPING dropped.
\* The loop is left when the app has ended, unless a session waits for its peer.
Pass ==
    /\ control.pc = "poll"
    /\ LET checked == [l \in Launch |-> IF l \in control.sessions /\ ses[l].silent
                                          THEN Stop(ses[l]) ELSE ses[l]]
           gone == {l \in control.sessions : checked[l].state = "STOPPING"}
           awaiting == \E l \in control.sessions \ gone : ~ses[l].peer
       IN /\ ses' = [l \in Launch |-> [checked[l] EXCEPT !.controlEnd = @ \/ l \in gone]]
          /\ control' = [pc |-> IF app \/ awaiting THEN "poll" ELSE "leave",
                         sessions |-> control.sessions \ gone]
    /\ UNCHANGED <<app, event, client, slots, clear, threads, running>>

Leave ==
    /\ control.pc = "leave"
    /\ ses' = [l \in Launch |-> IF l \in control.sessions
                 THEN [ses[l] EXCEPT !.shutdown = TRUE, !.controlEnd = TRUE] ELSE ses[l]]
    /\ control' = [control EXCEPT !.pc = "left"]
    /\ UNCHANGED <<app, event, client, slots, clear, threads, running>>

\* A client's peer connects: session_clear() cancels the timer and takes the launch, if it
\* is still the pending one, by a pop() that waits for one.
Connect(l) ==
    /\ control.pc = "poll" /\ l \in control.sessions
    /\ client[l] = "playing" /\ ~ses[l].peer /\ ~ses[l].silent
    /\ ses' = [ses EXCEPT ![l].peer = TRUE]
    /\ IF event.pending = l
         THEN /\ event' = [event EXCEPT !.armed = FALSE]
              /\ control' = [control EXCEPT !.pc = "pop"]
         ELSE UNCHANGED <<event, control>>
    /\ UNCHANGED <<app, client, slots, clear, threads, running>>

Pop ==
    /\ control.pc = "pop" /\ event.pending # None
    /\ event' = [event EXCEPT !.pending = None]
    /\ control' = [control EXCEPT !.pc = "poll"]
    /\ UNCHANGED <<app, client, ses, slots, clear, threads, running>>

Disconnect(l) ==
    /\ control.pc = "poll" /\ l \in control.sessions /\ ses[l].peer
    /\ ses' = [ses EXCEPT ![l] = Stop(@)]
    /\ UNCHANGED <<app, event, client, slots, control, clear, threads, running>>

----------------------------------------------------------------------------
\* The client falls silent for longer than ping_timeout.
Silence(l) ==
    /\ rtsp.cur # l /\ ses[l].state = "RUNNING" /\ ~ses[l].silent
    /\ ses' = [ses EXCEPT ![l].silent = TRUE]
    /\ UNCHANGED <<app, event, client, slots, control, clear, threads, running>>

\* The video or the audio thread returns, told to or by itself, and stops the session.
ThreadEnds(l) ==
    /\ ses[l].live > 0
    /\ ses' = [ses EXCEPT ![l] = Stop([ses[l] EXCEPT !.live = @ - 1])]
    /\ UNCHANGED <<app, event, client, slots, control, clear, threads, running>>

HttpsNext == Refuse \/ Answer \/ Terminate
ClearNext == \/ \E l \in Launch : ClearVisit(l)
             \/ Join \/ Erase \/ JoinThrows \/ ClearEnd
LockNext == ClearBegin("rtsp") \/ Insert \/ Remove
StartNext == Ref \/ RefFails \/ Push \/ Spawn \/ Run \/ Count
ControlNext == Pass \/ Leave \/ Pop

Next ==
    \/ HttpsNext \/ ClearNext \/ LockNext \/ StartNext \/ ControlNext
    \/ ClearBegin("https") \/ Cancel \/ AppEnds \/ Kill \/ Wake \/ TimerDue \/ Expire
    \/ \E l \in Launch : \/ Ask(l) \/ Accept(l) \/ Announce(l) \/ Play(l) \/ Silence(l)
                         \/ Connect(l) \/ Disconnect(l) \/ ThreadEnds(l)

\* Every thread goes on while it can, and told threads end.  The RTSP thread gets the lock of
\* the slots between two requests, and the io_context looks at its timer whenever it waits.
\* The watchdog is only relied on for a session that stop() came too early for, or that
\* started after the control thread had left.
Missed == ses[clear.cur].state = "RUNNING" \/ control.pc = "left"

Fairness ==
    /\ WF_vars(HttpsNext) /\ WF_vars(ClearBegin("https")) /\ WF_vars(ClearNext)
    /\ SF_vars(LockNext) /\ WF_vars(StartNext) /\ WF_vars(ControlNext)
    /\ WF_vars(Kill /\ Missed) /\ WF_vars(Wake \/ Expire) /\ SF_vars(TimerDue)
    /\ \A l \in Launch : WF_vars(ses[l].shutdown /\ ThreadEnds(l))

Spec == Init /\ [][Next]_vars /\ Fairness

----------------------------------------------------------------------------
Stage == {"idle", "launching", "resuming", "answered", "refused", "open", "announcing",
          "announced", "playing"}
Event == [pending : Launch \union {None}, armed : BOOLEAN, expired : Nat]
Session == [state : {"STOPPED", "RUNNING", "STOPPING"}, spawned : BOOLEAN, live : 0..2,
            shutdown : BOOLEAN, controlEnd : BOOLEAN, peer : BOOLEAN, silent : BOOLEAN]
Control == [pc : {"none", "poll", "pop", "leave", "left"}, sessions : SUBSET Launch]
Clear == [by : {"none", "https", "rtsp"}, todo : SUBSET Launch,
          cur : Launch \union {None}, step : {"visit", "join", "erase"}]
Rtsp == [pc : {"idle", "clear", "insert", "ref", "remove", "push", "spawn", "run", "count"},
         cur : Launch \union {None}]
Https == [pc : {"idle", "clear", "answer", "terminate"}, cur : Launch \union {None}]

\* Every variable has its type, and a thread has a session in hand exactly while it handles
\* one (rtsp.cpp:552, 1084).
TypeOK ==
    /\ app \in BOOLEAN /\ event \in Event /\ client \in [Launch -> Stage]
    /\ ses \in [Launch -> Session] /\ slots \in SUBSET Launch
    /\ control \in Control /\ clear \in Clear /\ rtsp \in Rtsp /\ https \in Https
    /\ running \in Int
    /\ clear.cur = None <=> clear.step = "visit"
    /\ rtsp.cur = None <=> rtsp.pc \in {"idle", "clear"}

\* Whoever the control thread serves by a raw pointer, and whoever a video or audio thread
\* runs for, is a session that still exists (stream.cpp:318, 1971).
Owned ==
    /\ control.pc # "left" => control.sessions \subseteq Holders(slots)
    /\ \A l \in Launch : ses[l].live > 0 => l \in Holders(slots)

\* While no session starts or ends, running_sessions is the number of the slots: no start
\* or join is counted twice, and the unsigned counter does not stay below zero
\* (stream.cpp:1926, 1977).
Quiet == rtsp.pc \in {"idle", "clear"} /\ clear.step = "visit"
Counted == Quiet => running = Cardinality(slots)

\* A pending launch does not stay: its client comes or its timer discards it (rtsp.cpp:502).
LaunchEnds == \A l \in Launch : event.pending = l ~> event.pending # l

\* A session that is stopping, or whose client the serving control thread hears no more,
\* leaves the slots: no join hangs, unless the control thread itself hangs in the pop() of
\* session_clear() (rtsp.cpp:549, stream.cpp:1898).
Hung == control.pc = "pop" /\ event.pending = None
Ending(l) ==
    /\ l \in slots
    /\ \/ ses[l].state = "STOPPING"
       \/ ses[l].silent /\ l \in control.sessions /\ control.pc = "poll"
SessionEnds == \A l \in Launch : Ending(l) ~> (l \notin slots \/ Hung)

\* session_clear() takes the launch of a session whose client has connected: "the ID should
\* always match" (rtsp.cpp:519).
OwnTaken == [][Pop => \E l \in control.sessions : ses[l].peer /\ event.pending = l]_vars
=============================================================================
