------------------------------- MODULE Input --------------------------------
(***************************************************************************)
(* Keyboard, mouse buttons and gamepads of a stream (src/input.cpp).  The  *)
(* pool's one worker handles packets and timers one after the other; the   *)
(* thread that joins a session calls reset() beside it.  A timer is known  *)
(* by the address of its task, which a later task may get again.           *)
(* Of a gamepad there is its BACK button, which held down for              *)
(* back_button_timeout becomes a press of HOME.                            *)
(***************************************************************************)
EXTENDS Integers, FiniteSets

CONSTANTS
    Key, Shifts,    \* keys, and those that set the flag of one modifier
    Shift,          \* VKEY_SHIFT, which is the left one for the OS
    Hotkey,         \* keys that are shortcuts together with the modifiers
    KeyMap,         \* config::input.keybindings
    Pad,            \* numbers a client gives its gamepads
    MaxPads,        \* MAX_GAMEPADS
    Mixes,          \* the sets of devices a client may use
    Addr,           \* addresses of tasks
    MaxSent,        \* packets (bound)
    MaxSessions,    \* sessions, one after the other (bound)
    Null, Disabled, NoTask, NoId

ASSUME KeyAssumption == Shift \in Shifts /\ Shifts \subseteq Key /\ Hotkey \subseteq Key \ Shifts
ASSUME AddrAssumption == Null \notin Addr /\ Disabled \notin Addr
ASSUME PadAssumption == MaxPads \in Nat /\ NoId \notin Int

VARIABLES
    session, phase,     \* "live", then reset() has "cancelled" its timers and pushed its
                        \* task, "resetting", which has run, "ended"
    mouse_press,        \* buttons pressed, as far as the client goes
    timeout,            \* mouse_left_button_timeout
    key_press,          \* keys pressed
    shift,              \* shortcutFlags
    crossed,            \* history: one of two Shifts was let go of, the other is held
    repeat_id,          \* key_press_repeat_id
    mix,                \* the devices of this client
    gamepads,           \* of each session, by the client's number
    mask,               \* gamepadMask
    frees,              \* ids whose free_gamepad() is pushed
    timers,             \* the pool's delayed tasks
    running, task,      \* the one its worker took, and its address
    os,                 \* what the OS holds down
    sent                \* packets handled

client == <<session, phase>>
mouse == <<mouse_press, timeout>>
keyboard == <<key_press, shift, crossed, repeat_id>>
pads == <<mix, gamepads, mask, frees>>
pool == <<timers, running, task>>
vars == <<client, mouse, keyboard, pads, pool, os, sent>>

Buttons == {"LEFT", "RIGHT"}
Release(s) == [kind |-> "release", session |-> s]
Repeat(k, synthetic) == [kind |-> "repeat", key |-> k, synthetic |-> synthetic]
Back(s, p) == [kind |-> "back", session |-> s, pad |-> p]

Id == 0 .. MaxPads - 1

\* gamepad_t: BACK in gamepad_state, whether back_button_state is UP (it is never
\* DOWN), and what the client last said of BACK (history).
NoPad == [id |-> NoId, back |-> FALSE, timeout |-> Null, up |-> FALSE, held |-> FALSE]

Free(a) == timers[a] = NoTask /\ task # a

\* task_pool.cancel() finds nothing under an address no timer has.
Without(a) == IF a \in Addr THEN [timers EXCEPT ![a] = NoTask] ELSE timers

\* pushDelayed() puts t at a free address among the timers rest.
Delayed(rest, a, t) == [rest EXCEPT ![a] = t]

Init ==
    /\ session = 1 /\ phase = "live" /\ sent = 0
    /\ mouse_press = {} /\ timeout = Null
    /\ key_press = {} /\ shift = FALSE /\ crossed = FALSE /\ repeat_id = Null
    /\ timers = [a \in Addr |-> NoTask]
    /\ running = NoTask /\ task = Null
    /\ mix \in Mixes /\ mask = {} /\ frees = {}
    /\ gamepads = [s \in 1 .. MaxSessions |-> [p \in Pad |-> NoPad]]
    /\ os = [buttons |-> {}, keys |-> {}, back |-> {}]

-----------------------------------------------------------------------------
(* Packets: a worker that runs no timer handles one that is queued.  What  *)
(* is queued when the session is reset goes before the task of reset().    *)

Packet(device) ==
    /\ device \in mix
    /\ running = NoTask /\ phase # "ended"
    /\ sent < MaxSent /\ sent' = sent + 1
    /\ UNCHANGED client

\* Mutant: the marker goes to the wrong id.
MoveRelRepeat ==
    /\ Packet("mouse") /\ repeat_id' = Disabled
    /\ UNCHANGED <<mouse, key_press, shift, crossed, pads, pool, os>>

MoveRel ==
    /\ Packet("mouse") /\ timeout' = Disabled
    /\ UNCHANGED <<mouse_press, keyboard, pads, pool, os>>

MoveAbs ==
    /\ Packet("mouse") /\ timeout = Disabled /\ timeout' = Null
    /\ UNCHANGED <<mouse_press, keyboard, pads, pool, os>>

PressButton(b) ==
    /\ Packet("mouse") /\ b \notin mouse_press
    /\ \/ /\ b = "RIGHT" /\ timeout \in Addr      \* a whole click at once
          /\ UNCHANGED <<mouse_press, os>>
       \/ /\ ~ (b = "RIGHT" /\ timeout \in Addr)
          /\ mouse_press' = mouse_press \cup {b}
          /\ os' = [os EXCEPT !.buttons = @ \cup {b}]
    /\ UNCHANGED <<timeout, keyboard, pads, pool>>

\* The left button is released 10 ms later if the coordinates are absolute.
ReleaseButton(b) ==
    /\ Packet("mouse") /\ b \in mouse_press
    /\ mouse_press' = mouse_press \ {b}
    /\ \/ /\ b = "LEFT" /\ timeout = Null
          /\ \E a \in Addr :
                /\ Free(a) /\ timeout' = a
                /\ timers' = Delayed(timers, a, Release(session))
          /\ UNCHANGED os
       \/ /\ ~ (b = "LEFT" /\ timeout = Null)
          /\ os' = [os EXCEPT !.buttons = @ \ {b}]
          /\ UNCHANGED <<timeout, timers>>
    /\ UNCHANGED <<keyboard, pads, running, task>>

\* send_key_and_modifiers(): a synthetic modifier is pressed and let go.
Pressed(k, synthetic) ==
    [os EXCEPT !.keys = (@ \cup {KeyMap[k]}) \ (IF synthetic THEN {Shift} ELSE {})]

\* Mutant: the key that repeats goes on when another one is pressed.
CancelNothing == timers
CancelRepeat == Without(repeat_id)

\* The left, the right and the plain key of a modifier set and clear one flag.
PressKey(k, asks) ==
    /\ Packet("keyboard") /\ k \notin key_press
    /\ ~ (shift /\ k \in Hotkey)
    /\ LET synthetic == k \notin Shifts /\ asks /\ ~ shift
       IN  /\ \E a \in Addr :
                 /\ CancelRepeat[a] = NoTask /\ repeat_id' = a
                 /\ timers' = Delayed(CancelRepeat, a, Repeat(k, synthetic))
           /\ os' = Pressed(k, synthetic)
    /\ key_press' = key_press \cup {k}
    /\ shift' = (shift \/ KeyMap[k] \in Shifts)
    /\ UNCHANGED <<mouse, crossed, pads, running, task>>

ReleaseKey(k) ==
    /\ Packet("keyboard") /\ k \in key_press
    /\ key_press' = key_press \ {k}
    /\ os' = [os EXCEPT !.keys = @ \ {KeyMap[k]}]
    /\ shift' = (shift /\ KeyMap[k] \notin Shifts)
    /\ crossed' = (key_press' \cap Shifts # {} /\ (crossed \/ k \in Shifts))
    /\ UNCHANGED <<mouse, repeat_id, pads, pool>>

-----------------------------------------------------------------------------
(* Timers.                                                                 *)

TakeTimer(a) ==
    /\ running = NoTask /\ phase # "resetting" /\ frees = {} /\ timers[a] # NoTask
    /\ running' = timers[a] /\ task' = a
    /\ timers' = [timers EXCEPT ![a] = NoTask]
    /\ UNCHANGED <<client, mouse, keyboard, pads, os, sent>>

Done == running' = NoTask /\ task' = Null

\* Mutant: the button is released although it was pressed again.
RunReleaseAlways ==
    /\ running # NoTask /\ running.kind = "release" /\ Done
    /\ os' = [os EXCEPT !.buttons = @ \ {"LEFT"}]
    /\ timeout' = IF running.session = session THEN Null ELSE timeout
    /\ UNCHANGED <<client, mouse_press, keyboard, pads, timers, sent>>

\* Mutant: "left_released" is taken at its word.
RunReleaseInverted ==
    /\ running # NoTask /\ running.kind = "release" /\ Done
    /\ UNCHANGED <<client, mouse, keyboard, pads, timers, os, sent>>

\* The timeout keeps its value when the button was pressed again meanwhile.
RunRelease ==
    /\ running # NoTask /\ running.kind = "release" /\ Done
    /\ \/ "LEFT" \in mouse_press /\ UNCHANGED <<os, timeout>>
       \/ /\ "LEFT" \notin mouse_press
          /\ os' = [os EXCEPT !.buttons = @ \ {"LEFT"}]
          /\ timeout' = IF running.session = session THEN Null ELSE timeout
    /\ UNCHANGED <<client, mouse_press, keyboard, pads, timers, sent>>

\* Mutant: a key repeats without a look at whether it is still pressed.
RunRepeatBlind ==
    /\ running # NoTask /\ running.kind = "repeat" /\ Done
    /\ os' = Pressed(running.key, running.synthetic)
    /\ \E a \in Addr :
          /\ Free(a) /\ repeat_id' = a /\ timers' = Delayed(timers, a, running)
    /\ UNCHANGED <<client, mouse, key_press, shift, crossed, pads, sent>>

RunRepeat ==
    /\ running # NoTask /\ running.kind = "repeat" /\ Done
    /\ \/ /\ running.key \notin key_press
          /\ repeat_id' = Null /\ UNCHANGED <<os, timers>>
       \/ /\ running.key \in key_press
          /\ os' = Pressed(running.key, running.synthetic)
          /\ \E a \in Addr :
                /\ Free(a) /\ repeat_id' = a
                /\ timers' = Delayed(timers, a, running)
    /\ UNCHANGED <<client, mouse, key_press, shift, crossed, pads, sent>>

-----------------------------------------------------------------------------
(* Gamepads, with back_button_timeout set.                                 *)

\* alloc_id(): the first that is free.
AllocId(i) == i \in Id \ mask /\ 0 .. i - 1 \subseteq mask

\* free_gamepad()
FreeId(i) == mask' = mask \ {i} /\ os' = [os EXCEPT !.back = @ \ {i}]

Change(p, pad) == gamepads' = [gamepads EXCEPT ![session][p] = pad]

\* A packet that finds no id, no device, or no gamepad.
PadIgnored == UNCHANGED <<gamepads, mask, timers, os>>

Neighbours == UNCHANGED <<mouse, keyboard, mix, frees, running, task>>

\* PSS_CONTROLLER_ARRIVAL_PACKET; platf::alloc_gamepad() may fail.
Arrival(p) ==
    /\ Packet("pads") /\ Neighbours
    /\ \/ /\ gamepads[session][p].id = NoId
          /\ \E i \in Id :
                /\ AllocId(i) /\ mask' = mask \cup {i}
                /\ Change(p, [gamepads[session][p] EXCEPT !.id = i, !.held = FALSE])
          /\ UNCHANGED <<timers, os>>
       \/ PadIgnored

\* Mutant: the gamepad keeps its id.
RemovedKept(pad) == pad

Removed(pad) == [pad EXCEPT !.id = NoId]

\* The last packet of a gamepad, or one of a gamepad that has gone.
Removal(p) ==
    /\ Packet("pads") /\ Neighbours
    /\ LET pad == gamepads[session][p]
       IN  \/ pad.id = NoId /\ PadIgnored
           \/ /\ pad.id # NoId
              /\ FreeId(pad.id) /\ Change(p, Removed(pad))
              /\ UNCHANGED timers

\* The gamepad of the id i shows BACK but while back_button_state forces it up; a
\* change of what it shows sets the timer or cancels it.
Update(p, i, back) ==
    LET pad == gamepads[session][p]
        shown == back /\ ~ pad.up
    IN  /\ mask' = mask \cup {i}
        /\ os' = [os EXCEPT !.back = IF shown THEN @ \cup {i} ELSE @ \ {i}]
        /\ \E t \in Addr \cup {Null} :
              /\ Change(p, [id |-> i, back |-> shown, timeout |-> t, up |-> pad.up /\ back,
                            held |-> back])
              /\ \/ shown = pad.back /\ t = pad.timeout /\ UNCHANGED timers
                 \/ /\ shown /\ ~ pad.back /\ t # Null /\ Free(t)
                    /\ timers' = Delayed(timers, t, Back(session, p))
                 \/ ~ shown /\ pad.back /\ t = Null /\ timers' = Without(pad.timeout)

\* The state of an active gamepad, which is allocated if need be.
State(p, back) ==
    /\ Packet("pads") /\ Neighbours
    /\ LET pad == gamepads[session][p]
       IN  \/ pad.id = NoId /\ PadIgnored
           \/ \E i \in Id : /\ i = pad.id \/ (pad.id = NoId /\ AllocId(i))
                           /\ Update(p, i, back)

\* BACK goes up, and HOME down and up again.  A gamepad that has gone meanwhile has
\* the id -1: an update of it is taken to hit no device.
RunBack ==
    /\ running # NoTask /\ running.kind = "back"
    /\ running' = NoTask /\ task' = Null
    /\ gamepads' = [gamepads EXCEPT ![running.session][running.pad] =
                      [@ EXCEPT !.up = TRUE, !.back = FALSE, !.timeout = Null]]
    /\ os' = [os EXCEPT !.back = @ \ {gamepads[running.session][running.pad].id}]
    /\ UNCHANGED <<client, mouse, keyboard, mix, mask, frees, timers, sent>>

\* Who still holds the input_t of a session: its session_t, or a timer.
Held(s) ==
    \/ s = session /\ phase # "ended"
    \/ \E t \in {timers[a] : a \in Addr} \cup {running} :
          t # NoTask /\ t.kind \in {"release", "back"} /\ t.session = s

Ids(s) == {gamepads[s][p].id : p \in Pad} \ {NoId}

\* The last reference goes: ~gamepad_t() pushes free_gamepad().
Destroy(s) ==
    /\ s <= session /\ Ids(s) # {} /\ ~ Held(s)
    /\ frees' = frees \cup Ids(s)
    /\ gamepads' = [gamepads EXCEPT ![s] = [p \in Pad |-> NoPad]]
    /\ UNCHANGED <<client, mouse, keyboard, mix, mask, pool, os, sent>>

FreeGamepad ==
    /\ running = NoTask
    /\ \E i \in frees : frees' = frees \ {i} /\ FreeId(i)
    /\ UNCHANGED <<client, mouse, keyboard, mix, gamepads, pool, sent>>

Worker == (\E a \in Addr : TakeTimer(a)) \/ RunRelease \/ RunRepeat \/ RunBack \/ FreeGamepad

-----------------------------------------------------------------------------
(* Sessions.                                                               *)

\* reset(), on the thread that joins the session: the ids keep their values.
Reset ==
    /\ phase = "live" /\ phase' = "cancelled"
    /\ timers' = [a \in Addr |-> IF a \in {repeat_id, timeout} THEN NoTask ELSE timers[a]]
    /\ UNCHANGED <<session, mouse, keyboard, pads, running, task, os, sent>>

PushResetTask ==
    /\ phase = "cancelled" /\ phase' = "resetting"
    /\ UNCHANGED <<session, mouse, keyboard, pads, pool, os, sent>>

\* Mutant: keys are forgotten, not released.
ResetTaskForgets ==
    /\ phase = "resetting" /\ running = NoTask /\ phase' = "ended"
    /\ os' = [os EXCEPT !.buttons = @ \ mouse_press]
    /\ mouse_press' = {} /\ key_press' = {} /\ crossed' = FALSE
    /\ UNCHANGED <<session, timeout, shift, repeat_id, pads, pool, sent>>

\* The task of reset() releases by the client's names, not the mapped ones.
ResetTask ==
    /\ phase = "resetting" /\ running = NoTask /\ phase' = "ended"
    /\ os' = [os EXCEPT !.buttons = @ \ mouse_press, !.keys = @ \ key_press]
    /\ mouse_press' = {} /\ key_press' = {} /\ crossed' = FALSE
    /\ UNCHANGED <<session, timeout, shift, repeat_id, pads, pool, sent>>

\* alloc(): a new input_t, and the keyboard and buttons all sessions share.  The
\* motion of one pixel it delays, to and fro, is left out.
Alloc ==
    /\ phase = "ended" /\ session < MaxSessions
    /\ session' = session + 1 /\ phase' = "live"
    /\ timeout' = Null /\ shift' = FALSE
    /\ UNCHANGED <<mouse_press, key_press, crossed, repeat_id, pads, pool, os, sent>>

Next ==
    \/ MoveRel \/ MoveAbs
    \/ \E b \in Buttons : PressButton(b) \/ ReleaseButton(b)
    \/ \E k \in Key : ReleaseKey(k) \/ \E asks \in BOOLEAN : PressKey(k, asks)
    \/ \E p \in Pad : Arrival(p) \/ Removal(p) \/ \E back \in BOOLEAN : State(p, back)
    \/ \E s \in 1 .. MaxSessions : Destroy(s)
    \/ Worker \/ Reset \/ PushResetTask \/ ResetTask \/ Alloc

\* reset() returns, and the worker runs its task and every timer: what is due
\* soonest goes first, so a key that repeats keeps no other timer waiting.
Spec ==
    /\ Init /\ [][Next]_vars
    /\ WF_vars(PushResetTask) /\ WF_vars(Worker \/ ResetTask)
    /\ \A a \in Addr : SF_vars(TakeTimer(a))

-----------------------------------------------------------------------------
Timer ==
    {Release(s) : s \in 1 .. MaxSessions} \cup {Repeat(k, s) : k \in Key, s \in BOOLEAN}
    \cup {Back(s, p) : s \in 1 .. MaxSessions, p \in Pad}
Gamepad == [id : Id \cup {NoId}, back : BOOLEAN, timeout : Addr \cup {Null}, up : BOOLEAN,
            held : BOOLEAN]

ASSUME BoundAssumption == MaxSent \in Nat /\ MaxSessions \in Nat \ {0}
ASSUME TaskAssumption == NoTask \notin Timer

TypeOK ==
    /\ session \in 1 .. MaxSessions /\ phase \in {"live", "cancelled", "resetting", "ended"}
    /\ mouse_press \subseteq Buttons /\ timeout \in Addr \cup {Null, Disabled}
    /\ key_press \subseteq Key /\ shift \in BOOLEAN
    /\ crossed \in BOOLEAN /\ repeat_id \in Addr \cup {Null}
    /\ timers \in [Addr -> Timer \cup {NoTask}]
    /\ running \in Timer \cup {NoTask} /\ task \in Addr \cup {Null}
    /\ gamepads \in [1 .. MaxSessions -> [Pad -> Gamepad]]
    /\ mask \subseteq Id /\ frees \subseteq Id
    /\ os = [buttons |-> os.buttons, keys |-> os.keys, back |-> os.back]
    /\ os.buttons \subseteq Buttons /\ os.back \subseteq Id
    /\ sent \in 0 .. MaxSent

Repeating(a) == timers[a] # NoTask /\ timers[a].kind = "repeat"

\* What repeats a key or makes HOME of BACK can always be cancelled: it waits
\* under key_press_repeat_id, or the back_timeout_id of its gamepad, also after
\* sessions have ended, gamepads have gone and addresses were used again.  In
\* particular one key repeats at a time, and a gamepad has one timer.
RepeatKnown == \A a \in Addr : Repeating(a) => repeat_id = a
BackKnown ==
    \A a \in Addr : timers[a] # NoTask /\ timers[a].kind = "back" =>
        gamepads[timers[a].session][timers[a].pad].timeout = a
TimersKnown == RepeatKnown /\ BackKnown

Plugged(s, p) == gamepads[s][p].id # NoId

\* Every id that is taken is that of one gamepad, of this session or of one that
\* has ended, or is about to be freed; and a gamepad shows the OS what the client
\* says of BACK, but for a BACK that was made HOME and is held on.
PadsKept ==
    /\ mask = frees \cup UNION {Ids(s) : s \in 1 .. MaxSessions}
    /\ \A s, r \in 1 .. MaxSessions : \A p, q \in Pad :
          Plugged(s, p) =>
            /\ gamepads[s][p].id \notin frees
            /\ gamepads[s][p].id = gamepads[r][q].id => s = r /\ p = q
            /\ gamepads[s][p].id \in os.back
                  <=> gamepads[s][p].held /\ ~ gamepads[s][p].up

\* HOME is pressed only for a gamepad that is there and whose BACK is held.  The code
\* does not keep it (input.cpp:1111: a gamepad that goes leaves its timer behind), and
\* no run lists it.
HomeIsHeld ==
    running # NoTask /\ running.kind = "back" =>
        LET pad == gamepads[running.session][running.pad]
        IN  pad.id # NoId /\ pad.held

\* The OS holds down what the client does.  Without keybindings: no modifier that
\* was pressed for one key only stays down, and none lets go of one that is held,
\* unless one of two Shifts was released before; no repetition presses a key again
\* after its release.  Of the buttons: the release that was put off does not undo
\* a newer press, and only the left button may be down for a while longer.
Mirrored ==
    /\ os.keys \subseteq key_press
    /\ key_press \ os.keys \subseteq (IF crossed THEN {Shift} ELSE {})
    /\ mouse_press \subseteq os.buttons
    /\ "RIGHT" \in os.buttons => "RIGHT" \in mouse_press

\* "... requesting modifier keys that are not current pressed" (input.cpp:730): one
\* flag for two Shifts forgets the one still held (input.cpp:640), presses a Shift
\* of its own for the next key and lets go of the left one.  No run lists it.
KeysMirrored == os.keys = key_press

LeftOverdue == "LEFT" \in os.buttons /\ "LEFT" \notin mouse_press

\* Within one session a left button the client let go of is let go of in the OS,
\* 10 ms later if need be, or pressed again.
LeftIsReleased == LeftOverdue ~> ~ LeftOverdue \/ phase # "live" \/ session > 1

\* "Reset input on session stop to avoid stuck repeated keys" (stream.cpp:1919):
\* after a reset no key repeats any more until a new session begins.
NoRepeat ==
    /\ \A a \in Addr : ~ Repeating(a)
    /\ running # NoTask => running.kind # "repeat"

RepeatsEnd == phase = "cancelled" ~> (phase = "live" \/ (phase = "ended" /\ NoRepeat))

\* Nothing that was put off stays put off.
PutOffEnds == LeftIsReleased /\ RepeatsEnd

\* The same comment, of the keys that are held down.
KeysReleased == phase = "ended" => os.keys = {}
=============================================================================
