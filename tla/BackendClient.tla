--------------------------- MODULE BackendClient ---------------------------
(***************************************************************************)
(* The threads of Sunshine's backend client (Sunshine/src/                 *)
(* backend_client.cpp): start() registers the machine once, in the main    *)
(* thread, while a thread of its own sends a keepalive every 20 s and      *)
(* another asks for the PIN every 5 s.  They share globals under g_mutex.  *)
(* How start() comes by the device_id and the password is in               *)
(* DeviceIdentity; here it has a complete identity to start with.          *)
(*                                                                         *)
(* Of the backend there is what one machine at one address sees of it: its *)
(* row, and messages that wait for a goroutine (DeviceRegistry models what *)
(* happens inside).                                                        *)
(***************************************************************************)
EXTENDS Naturals

CONSTANTS
    Ids, Passwords, Pins, Hostnames,
    PinWords,               \* those of them that contain "pin", in any case
    MaxStarts,              \* starts of Sunshine (bound)
    Nil                     \* an empty string, no row, nobody

Identity == [id : Ids, pw : Passwords]
Text == Identity \cup {[id |-> Nil, pw |-> Nil]}
Row == [id : Ids, pw : Passwords, pin : Pins]

ASSUME WordsAssumption == PinWords \subseteq Ids \cup Passwords \cup Hostnames
ASSUME StartsAssumption == MaxStarts \in Nat

VARIABLES
    main,       \* main thread of Sunshine, and the file as it first read it
    threads,    \* registration (the main thread), heartbeat, PIN polling
    g,          \* the globals behind g_mutex
    row,        \* the backend's row of this machine, or Nil
    listening,  \* whether the backend listens
    inbox,      \* messages the backend has accepted, equal ones once
    starts

clientVars == <<main, threads, g, row, listening, inbox, starts>>

Threads == {"register", "keepalive", "pin"}

ASSUME NilAssumption == Nil \notin Ids \cup Passwords \cup Pins \cup Hostnames \cup Row \cup Threads

NoReply == "nothing"    \* the empty string sendTcpMessage returns
Main == [at : {"off", "registering", "up", "stopped"}, cache : Text]
Thread == [at : {"none", "sleep", "send", "wait", "heard"},
           reply : {NoReply, "OK"} \cup Pins]
Global == [id : Ids \cup {Nil}, pw : Passwords \cup {Nil}, pin : Pins \cup {Nil},
           connected : BOOLEAN]

\* Who asks, and what the backend takes it for.
Message == [kind : Threads, type : Threads, text : Text, to : Threads \cup {Nil}]

Blank == [id |-> Nil, pw |-> Nil]
Off == [at |-> "off", cache |-> Blank]
NoThread == [at |-> "none", reply |-> NoReply]
Cleared == [id |-> Nil, pw |-> Nil, pin |-> Nil, connected |-> FALSE]

ClientInit ==
    /\ main = Off /\ g = Cleared /\ threads = [t \in Threads |-> NoThread]
    /\ row = Nil /\ listening \in BOOLEAN /\ inbox = {}
    /\ starts = 0

-----------------------------------------------------------------------------
(* The main thread.                                                        *)

\* get_config_string() read the file before start() drew what was missing, so
\* in the first run of all it goes on answering with empty strings.
Start ==
    /\ main.at = "off" /\ starts < MaxStarts
    /\ starts' = starts + 1
    /\ \E me \in Identity :
          /\ g' = [id |-> me.id, pw |-> me.pw, pin |-> Nil, connected |-> FALSE]
          /\ \E cache \in {me, Blank} : main' = [at |-> "registering", cache |-> cache]
    /\ threads' = [t \in Threads |->
                     [at |-> IF t = "register" THEN "send" ELSE "sleep", reply |-> NoReply]]
    /\ UNCHANGED <<row, listening, inbox>>

\* stop() clears the globals and joins nobody.
Stop ==
    /\ main.at = "up"
    /\ main' = [main EXCEPT !.at = "stopped"]
    /\ g' = Cleared
    /\ UNCHANGED <<threads, row, listening, inbox, starts>>

\* The process ends, after stop() or anywhere before it.  What the backend has
\* accepted from it is served all the same.
Die ==
    /\ main.at # "off"
    /\ main' = Off /\ g' = Cleared
    /\ threads' = [t \in Threads |-> NoThread]
    /\ inbox' = {[m EXCEPT !.to = Nil] : m \in inbox}
    /\ UNCHANGED <<row, listening, starts>>

-----------------------------------------------------------------------------
(* The threads.  g_running is set as long as the main thread is here.      *)

Running == main.at \in {"registering", "up"}

Wake(t) ==
    /\ threads[t].at = "sleep"
    /\ threads' = [threads EXCEPT ![t].at = IF Running THEN "send" ELSE "none"]
    /\ UNCHANGED <<main, g, row, listening, inbox, starts>>

\* A global that stop() has cleared falls back on the cached file.  A PIN
\* request names the machine, but the backend looks at its address only.
Letter(t) ==
    IF t = "pin" THEN Blank
    ELSE [k \in {"id", "pw"} |-> IF g[k] = Nil THEN main.cache[k] ELSE g[k]]

\* parseMessage looks for "pin" in the whole message before anything else.
Parsed(t, words) == IF t = "pin" \/ words \cap PinWords # {} THEN "pin" ELSE t

\* Only a registration names the host; nobody parses a message twice.
Send(t) ==
    /\ threads[t].at = "send"
    /\ \/ /\ listening
          /\ \E host \in IF t = "register" THEN Hostnames ELSE {Nil} :
                inbox' = inbox \cup
                    {[kind |-> t, type |-> Parsed(t, {Letter(t).id, Letter(t).pw, host}),
                      text |-> Letter(t), to |-> t]}
          /\ threads' = [threads EXCEPT ![t].at = "wait"]
       \/ /\ ~listening
          /\ threads' = [threads EXCEPT ![t] = [at |-> "heard", reply |-> NoReply]]
          /\ UNCHANGED inbox
    /\ UNCHANGED <<main, g, row, listening, starts>>

\* Mutant: the answer to a poll is not checked to be a PIN.
NotedUnchecked(t, reply) ==
    CASE t = "pin" -> [g EXCEPT !.pin = reply]
      [] t = "keepalive" -> [g EXCEPT !.connected = reply # NoReply]
      [] t = "register" -> [g EXCEPT !.connected = reply = "OK"]

Noted(t, reply) ==
    CASE t = "pin" -> IF reply \in Pins THEN [g EXCEPT !.pin = reply] ELSE g
      [] t = "keepalive" -> [g EXCEPT !.connected = reply # NoReply]
      [] t = "register" -> [g EXCEPT !.connected = reply = "OK"]

\* Mutant: polling ends with the first answer that holds no PIN.
ResumesIfAnswered(t) ==
    IF t = "register" \/ ~Running \/ threads[t].reply = NoReply THEN NoThread
    ELSE [NoThread EXCEPT !.at = "sleep"]

Resumes(t) ==
    IF t = "register" \/ ~Running THEN NoThread ELSE [NoThread EXCEPT !.at = "sleep"]

Hear(t) ==
    /\ threads[t].at = "heard"
    /\ g' = Noted(t, threads[t].reply)
    /\ threads' = [threads EXCEPT ![t] = Resumes(t)]
    /\ main' = IF t = "register" THEN [main EXCEPT !.at = "up"] ELSE main
    /\ UNCHANGED <<row, listening, inbox, starts>>

-----------------------------------------------------------------------------
(* The backend, as this machine sees it.                                   *)

NewRow(text, pin) == [id |-> text.id, pw |-> text.pw, pin |-> pin]

\* Mutant: a password that is stored is never replaced.
RefreshedOnce(r, text) == IF r.pw = Nil THEN [r EXCEPT !.pw = text.pw] ELSE r

Refreshed(r, text) == IF text.pw = Nil THEN r ELSE [r EXCEPT !.pw = text.pw]

\* Only a new device is answered OK, and only one with a row hears a PIN.
Handles(m, r, reply) ==
    \/ /\ m.type = "register" /\ row = Nil
       /\ reply = "OK" /\ \E pin \in Pins : r = NewRow(m.text, pin)
    \/ /\ m.type = "register" /\ row # Nil
       /\ reply = NoReply /\ r = [row EXCEPT !.id = m.text.id, !.pw = m.text.pw]
    \/ /\ m.type = "keepalive"
       /\ reply = NoReply /\ r = IF row = Nil THEN Nil ELSE Refreshed(row, m.text)
    \/ /\ m.type = "pin"
       /\ r = row /\ reply = IF row = Nil THEN NoReply ELSE row.pin

\* handleConnection answers and closes the connection.
Serve(m) ==
    /\ m \in inbox
    /\ inbox' = inbox \ {m}
    /\ \E r \in Row \cup {Nil}, reply \in {NoReply, "OK"} \cup Pins :
          /\ Handles(m, r, reply)
          /\ row' = r
          /\ threads' = IF m.to = Nil THEN threads
                        ELSE [threads EXCEPT ![m.to] = [at |-> "heard", reply |-> reply]]
    /\ UNCHANGED <<main, g, listening, starts>>

DeleteDevice ==
    /\ row # Nil /\ row' = Nil
    /\ UNCHANGED <<main, threads, g, listening, inbox, starts>>

\* The kernel of a dead backend resets its connections.
BackendDies ==
    /\ listening /\ listening' = FALSE
    /\ inbox' = {}
    /\ threads' = [t \in Threads |-> IF \E m \in inbox : m.to = t
                                     THEN [at |-> "heard", reply |-> NoReply] ELSE threads[t]]
    /\ UNCHANGED <<main, g, row, starts>>

BackendStarts ==
    /\ ~listening /\ listening' = TRUE
    /\ UNCHANGED <<main, threads, g, row, inbox, starts>>

\* The path is cut: the backend may serve the message, but no answer and no
\* reset ever reaches recv(), which has no timeout.
Cut(m) ==
    /\ m \in inbox /\ m.to # Nil
    /\ inbox' = (inbox \ {m}) \cup {[m EXCEPT !.to = Nil]}
    /\ UNCHANGED <<main, threads, g, row, listening, starts>>

-----------------------------------------------------------------------------
ThreadSteps(t) == Send(t) \/ Hear(t) \/ (t # "register" /\ Wake(t))
Served(t) == \E m \in inbox : m.to = t /\ Serve(m)

ClientNext ==
    \/ Start \/ Stop \/ Die
    \/ \E t \in Threads : ThreadSteps(t)
    \/ \E t \in Threads \cup {Nil} : Served(t)
    \/ \E m \in inbox : Cut(m)
    \/ DeleteDevice \/ BackendDies \/ BackendStarts

\* Threads are scheduled, sleeps end, and the backend serves what it accepted.
ClientFairness ==
    /\ \A t \in Threads : WF_clientVars(ThreadSteps(t))
    /\ \A t \in Threads \cup {Nil} : WF_clientVars(Served(t))

ClientSpec == ClientInit /\ [][ClientNext]_clientVars /\ ClientFairness

-----------------------------------------------------------------------------
(* Properties.                                                             *)

ClientTypeOK ==
    /\ main \in Main /\ g \in Global /\ threads \in [Threads -> Thread]
    /\ row \in Row \cup {Nil} /\ listening \in BOOLEAN /\ inbox \subseteq Message
    /\ starts \in 0 .. MaxStarts

Stuck(t) == threads[t].at = "wait" /\ \A m \in inbox : m.to # t

\* Nothing stands between a thread and the row of its machine.
Reaches(t) == Running /\ listening /\ row # Nil /\ ~Stuck(t)

\* The PIN of the row ends up in get_status(), whatever the polls heard before.
PinGetsThrough ==
    \A p \in Pins : <>[](Reaches("pin") /\ row.pin = p) => <>[](g.pin = p)

\* Heartbeats bring the row to the password Sunshine uses, although a missed
\* registration is not repeated and old messages may be served late.  It takes
\* an identity in which the backend does not see a PIN request.
PasswordArrives ==
    <>[](Reaches("keepalive") /\ {g.id, g.pw} \cap PinWords = {})
        => <>[](row # Nil /\ row.pw = g.pw)

\* monitor.go:362 says so of every password that is reported; the code does
\* not keep it for one that contains "pin", and no run lists it.
AnyPasswordArrives == <>[]Reaches("keepalive") => <>[](row # Nil /\ row.pw = g.pw)

\* What a thread may be answered: handleRegister says OK, handlePin a PIN, and
\* handleKeepalive nothing; an empty answer is also a connection that failed.
\* A question that contains "pin" is taken for one after the PIN.
Diverted == IF PinWords = {} THEN {} ELSE Pins
Replies == [register |-> {NoReply, "OK"} \cup Diverted,
            keepalive |-> {NoReply} \cup Diverted,
            pin |-> {NoReply} \cup Pins]

\* A thread asks one question at a time and hears no answer but to its own,
\* whatever dies, is cut off or is served late; a PIN in place of the answer
\* only where a question may contain "pin", and "OK" for a registration alone.
OneDialogue ==
    /\ \A t \in Threads : threads[t].reply \in Replies[t]
    /\ \A m \in inbox : m.to # Nil => m.to = m.kind /\ threads[m.to].at = "wait"
    /\ \A m, n \in inbox : m.to # Nil /\ m.to = n.to => m = n

\* The backend can do something with all it has accepted: what it takes for a
\* registration has device_id and password, so its two errors are never sent.
NoneRefused ==
    \A m \in inbox : \E r \in Row \cup {Nil}, reply \in Replies[m.kind] : Handles(m, r, reply)

\* get_status() begins to say "connected" when a registration hears OK, or a
\* heartbeat that was taken for a PIN request a PIN, and at no other time.  The
\* heartbeats that are taken for heartbeats end it, be they received or lost.
StatusStep ==
    /\ g'.connected /\ ~g.connected =>
          \/ threads["register"] = [at |-> "heard", reply |-> "OK"]
          \/ threads["keepalive"].at = "heard" /\ threads["keepalive"].reply \in Diverted
    /\ Hear("keepalive") => (g'.connected => threads["keepalive"].reply \in Diverted)
=============================================================================
