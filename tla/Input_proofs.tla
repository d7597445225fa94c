---------------------------- MODULE Input_proofs ----------------------------
(***************************************************************************)
(* Theorems about Input, for any keys, gamepads, addresses, packets and    *)
(* sessions: a timer of a key or of a gamepad can always be cancelled,     *)
(* every id of a gamepad is accounted for, and without keybindings the OS  *)
(* holds down what the client does.  Then theorems about InputQueue, which *)
(* brings the packets here: whatever it batches, none is lost or sent      *)
(* twice, and none passes one it must not.                                 *)
(***************************************************************************)
EXTENDS Input, InputQueue, SequenceTheorems, TLAPS

\* config::input.keybindings is empty.
Plain == KeyMap = [k \in Key |-> k]

\* A repetition that runs is the only one there is.
Alone ==
    running # NoTask /\ running.kind = "repeat" => \A a \in Addr : ~ Repeating(a)

\* A repetition that lets go of a modifier by itself goes on only while the
\* client holds no left Shift, or has crossed two: pressing one cancels it.
Apart(t) ==
    t # NoTask /\ t.kind = "repeat" /\ t.synthetic => crossed \/ Shift \notin key_press
Synthetic == Apart(running) /\ \A a \in Addr : Apart(timers[a])

\* The flag of the modifiers is set while one is held, unless two were crossed,
\* and a session that has ended holds nothing.
Flagged ==
    /\ ~ crossed /\ key_press \cap Shifts # {} => shift
    /\ phase = "ended" => key_press = {} /\ mouse_press = {}

\* BACK is down while its timer waits, and a timer that runs is the only one of
\* its gamepad.
Waiting(a) == timers[a] # NoTask /\ timers[a].kind = "back"
BackHeld == \A a \in Addr : Waiting(a) => gamepads[timers[a].session][timers[a].pad].back
BackAlone ==
    running # NoTask /\ running.kind = "back" => \A a \in Addr : timers[a] # running

BackInv == TypeOK /\ BackKnown /\ BackHeld /\ BackAlone
RepeatInv == TypeOK /\ RepeatKnown /\ Alone
MirrorInv == RepeatInv /\ Synthetic /\ Flagged /\ Mirrored

-----------------------------------------------------------------------------
(* Timers.                                                                 *)

LEMMA TimerKinds ==
    /\ \A s \in 1 .. MaxSessions : Release(s) \in Timer /\ Release(s).kind = "release"
    /\ \A s \in 1 .. MaxSessions, p \in Pad :
          /\ Back(s, p) \in Timer /\ Back(s, p).kind = "back"
          /\ Back(s, p).session = s /\ Back(s, p).pad = p
    /\ \A k \in Key, s \in BOOLEAN :
          /\ Repeat(k, s) \in Timer /\ Repeat(k, s).kind = "repeat"
          /\ Repeat(k, s).key = k /\ Repeat(k, s).synthetic = s
<1>1. \A s \in 1 .. MaxSessions : Release(s) \in Timer
  BY DEF Timer
<1>2. \A k \in Key, s \in BOOLEAN : Repeat(k, s) \in Timer
  BY DEF Timer
<1>3. \A s \in 1 .. MaxSessions : Release(s).kind = "release"
  BY DEF Release
<1>4. \A k \in Key, s \in BOOLEAN :
         /\ Repeat(k, s).kind = "repeat"
         /\ Repeat(k, s).key = k /\ Repeat(k, s).synthetic = s
  BY DEF Repeat
<1>5. \A s \in 1 .. MaxSessions, p \in Pad : Back(s, p) \in Timer
  BY DEF Timer
<1>6. \A s \in 1 .. MaxSessions, p \in Pad :
         /\ Back(s, p).kind = "back"
         /\ Back(s, p).session = s /\ Back(s, p).pad = p
  BY DEF Back
<1> QED BY <1>1, <1>2, <1>3, <1>4, <1>5, <1>6

LEMMA RepeatFields ==
    \A t \in Timer :
      /\ t.kind = "repeat" => t.key \in Key /\ t.synthetic \in BOOLEAN
      /\ t.kind = "back" => /\ t.session \in 1 .. MaxSessions /\ t.pad \in Pad
                            /\ t = Back(t.session, t.pad)
BY DEF Timer, Release, Repeat, Back

\* cancel() takes tasks away and adds none.
LEMMA WithoutType ==
    ASSUME timers \in [Addr -> Timer \cup {NoTask}], NEW a
    PROVE  /\ Without(a) \in [Addr -> Timer \cup {NoTask}]
           /\ \A b \in Addr : Without(a)[b] = IF b = a THEN NoTask ELSE timers[b]
BY DEF Without

-----------------------------------------------------------------------------
(* Types.                                                                  *)

LEMMA InitType == Init => TypeOK
<1> SUFFICES ASSUME Init PROVE TypeOK
  OBVIOUS
<1>1. 1 \in 1 .. MaxSessions /\ 0 \in 0 .. MaxSent
  BY BoundAssumption
<1>2. /\ os = [buttons |-> os.buttons, keys |-> os.keys, back |-> os.back]
      /\ os.buttons \subseteq Buttons
  BY DEF Init
<1>3. gamepads \in [1 .. MaxSessions -> [Pad -> Gamepad]]
  BY DEF Init, Gamepad, NoPad
<1> QED BY <1>1, <1>2, <1>3 DEF Init, TypeOK

LEMMA PacketType ==
    ASSUME TypeOK, NEW d, Packet(d)
    PROVE  sent' \in 0 .. MaxSent /\ session' \in 1 .. MaxSessions
           /\ phase' \in {"live", "cancelled", "resetting", "ended"}
BY BoundAssumption DEF TypeOK, Packet, client

\* The handlers of gamepads, and the rest.
PadStep ==
    \/ \E p \in Pad : Arrival(p) \/ Removal(p) \/ \E back \in BOOLEAN : State(p, back)
    \/ RunBack \/ (\E s \in 1 .. MaxSessions : Destroy(s)) \/ FreeGamepad

\* What they do to all but the gamepads: a timer may go, and one of a gamepad come.
PadFrame ==
    /\ UNCHANGED <<client, mouse, keyboard>> /\ sent' \in 0 .. MaxSent
    /\ os' = [buttons |-> os.buttons, keys |-> os.keys, back |-> os'.back]
    /\ timers' \in [Addr -> Timer \cup {NoTask}]
    /\ \A a \in Addr :
          timers'[a] \in {timers[a], NoTask} \cup {Back(session, p) : p \in Pad}
    /\ running' \in {running, NoTask} /\ task' \in {task, Null}

PadType ==
    /\ gamepads' \in [1 .. MaxSessions -> [Pad -> Gamepad]]
    /\ mask' \subseteq Id /\ frees' \subseteq Id /\ os'.back \subseteq Id

LEMMA ChangeType ==
    ASSUME TypeOK, NEW p \in Pad, NEW pad \in Gamepad, Change(p, pad)
    PROVE  /\ gamepads' \in [1 .. MaxSessions -> [Pad -> Gamepad]]
           /\ \A s \in 1 .. MaxSessions : \A q \in Pad :
                 gamepads'[s][q] = IF s = session /\ q = p THEN pad ELSE gamepads[s][q]
BY DEF TypeOK, Change

LEMMA Frees ==
    ASSUME TypeOK, NEW i, FreeId(i)
    PROVE  /\ mask' = mask \ {i} /\ os'.back = os.back \ {i}
           /\ os' = [buttons |-> os.buttons, keys |-> os.keys, back |-> os'.back]
BY DEF TypeOK, FreeId

LEMMA PadSteps == ASSUME TypeOK, PadStep PROVE PadFrame /\ PadType
<1> USE BoundAssumption
<1>1. ASSUME NEW p \in Pad, Arrival(p) PROVE PadFrame /\ PadType
  <2>1. Packet("pads") /\ Neighbours /\ UNCHANGED <<timers, os>>
    BY <1>1 DEF Arrival, PadIgnored
  <2>2. PadFrame
    BY <2>1, PacketType DEF PadFrame, Neighbours, TypeOK, Packet, mouse, keyboard
  <2>5. frees' \subseteq Id /\ os'.back \subseteq Id
    BY <2>1 DEF TypeOK, Neighbours, mouse, keyboard
  <2>3. CASE PadIgnored
    BY <2>2, <2>3, <2>5 DEF PadIgnored, PadType, TypeOK
  <2>4. CASE \E i \in Id :
                /\ AllocId(i) /\ mask' = mask \cup {i}
                /\ Change(p, [gamepads[session][p] EXCEPT !.id = i, !.held = FALSE])
    <3>1. PICK i \in Id :
                /\ mask' = mask \cup {i}
                /\ Change(p, [gamepads[session][p] EXCEPT !.id = i, !.held = FALSE])
      BY <2>4
    <3>2. gamepads[session][p] \in Gamepad
      BY DEF TypeOK
    <3>3. [gamepads[session][p] EXCEPT !.id = i, !.held = FALSE] \in Gamepad
      BY <3>2 DEF Gamepad
    <3> QED BY <2>2, <2>5, <3>1, <3>3, ChangeType DEF PadType, TypeOK
  <2> QED BY <1>1, <2>2, <2>3, <2>4 DEF Arrival
<1>2. ASSUME NEW p \in Pad, Removal(p) PROVE PadFrame /\ PadType
  <2>1. Packet("pads") /\ Neighbours /\ UNCHANGED timers
    BY <1>2 DEF Removal, PadIgnored
  <2>2. CASE PadIgnored
    BY <2>1, <2>2, PacketType
       DEF PadIgnored, PadFrame, PadType, TypeOK, Neighbours, Packet, mouse, keyboard
  <2>3. CASE FreeId(gamepads[session][p].id) /\ Change(p, Removed(gamepads[session][p]))
    <3>4. gamepads[session][p] \in Gamepad
      BY DEF TypeOK
    <3>1. Removed(gamepads[session][p]) \in Gamepad
      BY <3>4 DEF Gamepad, Removed
    <3>2. PadType
      BY <2>1, <2>3, <3>1, ChangeType, Frees DEF PadType, TypeOK, Neighbours
    <3>3. PadFrame
      BY <2>1, <2>3, Frees, PacketType
         DEF PadFrame, TypeOK, Neighbours, Packet, mouse, keyboard
    <3> QED BY <3>2, <3>3
  <2> QED BY <1>2, <2>2, <2>3 DEF Removal
<1>3. ASSUME NEW p \in Pad, NEW back \in BOOLEAN, State(p, back)
      PROVE  PadFrame /\ PadType
  <2>1. Packet("pads") /\ Neighbours
    BY <1>3 DEF State
  <2>2. CASE PadIgnored
    BY <2>1, <2>2, PacketType
       DEF PadIgnored, PadFrame, PadType, TypeOK, Neighbours, Packet, mouse, keyboard
  <2>3. CASE \E i \in Id : Update(p, i, back)
    <3>1. PICK i \in Id : Update(p, i, back)
      BY <2>3
    <3>2. PICK t \in Addr \cup {Null} :
             /\ Change(p, [id |-> i, back |-> back /\ ~ gamepads[session][p].up,
                           timeout |-> t, up |-> gamepads[session][p].up /\ back,
                           held |-> back])
             /\ \/ UNCHANGED timers
                \/ t \in Addr /\ timers' = Delayed(timers, t, Back(session, p))
                \/ timers' = Without(gamepads[session][p].timeout)
      BY <3>1 DEF Update
    <3>3. /\ os' = [buttons |-> os.buttons, keys |-> os.keys, back |-> os'.back]
          /\ os'.back \subseteq Id /\ mask' \subseteq Id
      BY <3>1 DEF Update, TypeOK
    <3>4. gamepads[session][p].up \in BOOLEAN
      BY DEF TypeOK, Gamepad
    <3>5. gamepads' \in [1 .. MaxSessions -> [Pad -> Gamepad]]
      BY <3>2, <3>4, ChangeType DEF Gamepad
    <3>6. /\ timers' \in [Addr -> Timer \cup {NoTask}]
          /\ \A a \in Addr :
                timers'[a] \in {timers[a], NoTask} \cup {Back(session, q) : q \in Pad}
      <4>1. Back(session, p) \in Timer
        BY TimerKinds DEF TypeOK
      <4>2. CASE UNCHANGED timers
        BY <4>2 DEF TypeOK
      <4>3. CASE t \in Addr /\ timers' = Delayed(timers, t, Back(session, p))
        BY <4>1, <4>3 DEF TypeOK, Delayed
      <4>4. CASE timers' = Without(gamepads[session][p].timeout)
        BY <4>4, WithoutType DEF TypeOK
      <4> QED BY <3>2, <4>2, <4>3, <4>4
    <3>7. PadFrame
      BY <2>1, <3>3, <3>6, PacketType DEF PadFrame, TypeOK, Neighbours, Packet
    <3> QED BY <2>1, <3>3, <3>5, <3>7 DEF PadType, TypeOK, Neighbours
  <2> QED BY <1>3, <2>2, <2>3 DEF State
<1>4. ASSUME RunBack PROVE PadFrame /\ PadType
  <2>1. /\ running' = NoTask /\ task' = Null
        /\ UNCHANGED <<client, mouse, keyboard, mask, frees, timers, sent>>
    BY <1>4 DEF RunBack
  <2>2. /\ os' = [buttons |-> os.buttons, keys |-> os.keys, back |-> os'.back]
        /\ os'.back \subseteq Id
    BY <1>4 DEF RunBack, TypeOK
  <2>3. running.session \in 1 .. MaxSessions /\ running.pad \in Pad
    BY <1>4, RepeatFields DEF RunBack, TypeOK
  <2>4. gamepads' \in [1 .. MaxSessions -> [Pad -> Gamepad]]
    <3> DEFINE pad == [gamepads[running.session][running.pad] EXCEPT
                         !.up = TRUE, !.back = FALSE, !.timeout = Null]
    <3>0. gamepads[running.session][running.pad] \in Gamepad
      BY <2>3 DEF TypeOK
    <3>1. pad \in Gamepad
      BY <3>0 DEF Gamepad
    <3>2. gamepads' = [gamepads EXCEPT ![running.session][running.pad] = pad]
      BY <1>4 DEF RunBack
    <3> HIDE DEF pad
    <3> QED BY <2>3, <3>1, <3>2 DEF TypeOK
  <2> QED BY <2>1, <2>2, <2>4 DEF PadFrame, PadType, TypeOK
<1>5. ASSUME NEW s \in 1 .. MaxSessions, Destroy(s) PROVE PadFrame /\ PadType
  <2>1. Ids(s) \subseteq Id
    BY DEF Ids, TypeOK, Gamepad
  <2>2. NoPad \in Gamepad
    BY DEF NoPad, Gamepad
  <2> QED BY <1>5, <2>1, <2>2 DEF Destroy, PadFrame, PadType, TypeOK, pool
<1>6. ASSUME FreeGamepad PROVE PadFrame /\ PadType
  <2>1. PICK i \in frees : frees' = frees \ {i} /\ FreeId(i)
    BY <1>6 DEF FreeGamepad
  <2> QED BY <1>6, <2>1, Frees DEF FreeGamepad, PadFrame, PadType, TypeOK, pool
<1> QED BY <1>1, <1>2, <1>3, <1>4, <1>5, <1>6 DEF PadStep

LEMMA StepType == TypeOK /\ [Next]_vars => TypeOK'
<1> SUFFICES ASSUME TypeOK, [Next]_vars PROVE TypeOK'
  OBVIOUS
<1> USE AddrAssumption, BoundAssumption DEF pads
<1>0. CASE PadStep
  BY <1>0, PadSteps DEF PadFrame, PadType, TypeOK, client, mouse, keyboard
<1>1. ASSUME MoveRel PROVE TypeOK'
  BY <1>1, PacketType DEF MoveRel, TypeOK, keyboard, pool
<1>2. ASSUME MoveAbs PROVE TypeOK'
  BY <1>2, PacketType DEF MoveAbs, TypeOK, keyboard, pool
<1>3. ASSUME NEW b \in Buttons, PressButton(b) PROVE TypeOK'
  BY <1>3, PacketType DEF PressButton, TypeOK, keyboard, pool
<1>4. ASSUME NEW b \in Buttons, ReleaseButton(b) PROVE TypeOK'
  <2>1. CASE os' = [os EXCEPT !.buttons = @ \ {b}] /\ UNCHANGED <<timeout, timers>>
    BY <1>4, <2>1, PacketType DEF ReleaseButton, TypeOK, keyboard
  <2>2. CASE \E a \in Addr : /\ Free(a) /\ timeout' = a
                             /\ timers' = Delayed(timers, a, Release(session)) /\ UNCHANGED os
    BY <1>4, <2>2, PacketType, TimerKinds DEF ReleaseButton, TypeOK, keyboard, Delayed
  <2> QED BY <1>4, <2>1, <2>2 DEF ReleaseButton
<1>5. ASSUME NEW k \in Key, NEW asks \in BOOLEAN, PressKey(k, asks) PROVE TypeOK'
  <2> DEFINE synthetic == k \notin Shifts /\ asks /\ ~ shift
  <2>1. PICK a \in Addr : /\ repeat_id' = a
                          /\ timers' = Delayed(CancelRepeat, a, Repeat(k, synthetic))
    BY <1>5 DEF PressKey
  <2>2. synthetic \in BOOLEAN
    OBVIOUS
  <2>3. Repeat(k, synthetic) \in Timer
    BY <2>2, TimerKinds
  <2>4. CancelRepeat \in [Addr -> Timer \cup {NoTask}]
    BY WithoutType DEF TypeOK, CancelRepeat
  <2>5. timers' \in [Addr -> Timer \cup {NoTask}]
    <3> HIDE DEF synthetic
    <3> QED BY <2>1, <2>3, <2>4 DEF Delayed
  <2>6. /\ os' = [buttons |-> os'.buttons, keys |-> os'.keys, back |-> os.back]
        /\ os'.buttons = os.buttons
    BY <1>5 DEF PressKey, Pressed, TypeOK
  <2>7. key_press' \subseteq Key /\ shift' \in BOOLEAN /\ crossed' \in BOOLEAN
    BY <1>5 DEF PressKey, TypeOK
  <2>8. UNCHANGED <<mouse_press, timeout, pads, running, task>>
    BY <1>5 DEF PressKey, mouse
  <2>9. Packet("keyboard")
    BY <1>5 DEF PressKey
  <2> QED BY <2>1, <2>5, <2>6, <2>7, <2>8, <2>9, PacketType DEF TypeOK
<1>6. ASSUME NEW k \in Key, ReleaseKey(k) PROVE TypeOK'
  BY <1>6, PacketType DEF ReleaseKey, TypeOK, mouse, pool
<1>7. ASSUME NEW a \in Addr, TakeTimer(a) PROVE TypeOK'
  BY <1>7 DEF TakeTimer, TypeOK, client, mouse, keyboard
<1>8. ASSUME RunRelease PROVE TypeOK'
  <2>1. running' = NoTask /\ task' = Null
    BY <1>8 DEF RunRelease, Done
  <2>2. /\ os' = [buttons |-> os'.buttons, keys |-> os'.keys, back |-> os.back]
        /\ os'.buttons \subseteq Buttons
    BY <1>8 DEF RunRelease, TypeOK
  <2>3. timeout' \in {timeout, Null}
    BY <1>8 DEF RunRelease
  <2> QED BY <1>8, <2>1, <2>2, <2>3 DEF RunRelease, TypeOK, client, keyboard
<1>9. ASSUME RunRepeat PROVE TypeOK'
  <2>1. running' = NoTask /\ task' = Null
    BY <1>9 DEF RunRepeat, Done
  <2>2. CASE repeat_id' = Null /\ UNCHANGED <<os, timers>>
    BY <1>9, <2>1, <2>2 DEF RunRepeat, TypeOK, client, mouse
  <2>3. CASE /\ os' = Pressed(running.key, running.synthetic)
             /\ \E a \in Addr : /\ Free(a) /\ repeat_id' = a
                                /\ timers' = Delayed(timers, a, running)
    <3>1. /\ os' = [buttons |-> os'.buttons, keys |-> os'.keys, back |-> os.back]
          /\ os'.buttons = os.buttons
      BY <2>3 DEF Pressed, TypeOK
    <3>2. timers' \in [Addr -> Timer \cup {NoTask}] /\ repeat_id' \in Addr
      BY <2>3 DEF TypeOK, Delayed
    <3> QED BY <1>9, <2>1, <3>1, <3>2 DEF RunRepeat, TypeOK, client, mouse
  <2> QED BY <1>9, <2>2, <2>3 DEF RunRepeat
<1>10. ASSUME Reset PROVE TypeOK'
  BY <1>10 DEF Reset, TypeOK, mouse, keyboard
<1>11. ASSUME PushResetTask PROVE TypeOK'
  BY <1>11 DEF PushResetTask, TypeOK, mouse, keyboard, pool
<1>12. ASSUME ResetTask PROVE TypeOK'
  BY <1>12 DEF ResetTask, TypeOK, pool
<1>13. ASSUME Alloc PROVE TypeOK'
  <2>1. session' \in 1 .. MaxSessions
    BY <1>13 DEF Alloc, TypeOK
  <2> QED BY <1>13, <2>1 DEF Alloc, TypeOK, pool
<1>14. ASSUME UNCHANGED vars PROVE TypeOK'
  BY <1>14 DEF vars, TypeOK, client, mouse, keyboard, pool
<1> QED BY <1>0, <1>1, <1>2, <1>3, <1>4, <1>5, <1>6, <1>7, <1>8, <1>9, <1>10, <1>11,
           <1>12, <1>13, <1>14 DEF Next, Worker, PadStep

\* Every variable of keyboard, mouse and gamepads keeps its type.
THEOREM Typed == Spec => []TypeOK
<1> QED BY InitType, StepType, PTL DEF Spec

-----------------------------------------------------------------------------
(* One key repeats at a time, under its id.                                *)

\* Steps that set no repetition, and keep the id.
LEMMA NoNewRepeat ==
    ASSUME TypeOK, RepeatKnown, Alone, TypeOK', repeat_id' = repeat_id,
           \A a \in Addr : Repeating(a)' => Repeating(a),
           running' \in {running, NoTask}
    PROVE  RepeatKnown' /\ Alone'
BY DEF RepeatKnown, Alone

LEMMA StepRepeat == RepeatInv /\ [Next]_vars => RepeatInv'
<1> SUFFICES ASSUME RepeatInv, [Next]_vars PROVE RepeatInv'
  OBVIOUS
<1>0. TypeOK /\ RepeatKnown /\ Alone /\ TypeOK'
  BY StepType DEF RepeatInv
<1>1. ASSUME repeat_id' = repeat_id, running' \in {running, NoTask},
             \A a \in Addr : Repeating(a)' => Repeating(a)
      PROVE  RepeatInv'
  BY <1>0, <1>1, NoNewRepeat DEF RepeatInv
<1>2. ASSUME UNCHANGED <<repeat_id, timers, running>> PROVE RepeatInv'
  BY <1>1, <1>2 DEF Repeating
<1>3. ASSUME NEW b \in Buttons, ReleaseButton(b) PROVE RepeatInv'
  <2>1. \A a \in Addr : Repeating(a)' => Repeating(a)
    <3>1. CASE UNCHANGED timers
      BY <3>1 DEF Repeating
    <3>2. CASE \E a \in Addr : timers' = Delayed(timers, a, Release(session))
      BY <3>2, <1>0, TimerKinds DEF Repeating, Delayed, TypeOK
    <3> QED BY <1>3, <3>1, <3>2 DEF ReleaseButton
  <2> QED BY <1>1, <1>3, <2>1 DEF ReleaseButton, keyboard
<1>4. ASSUME NEW k \in Key, NEW asks \in BOOLEAN, PressKey(k, asks) PROVE RepeatInv'
  <2> DEFINE synthetic == k \notin Shifts /\ asks /\ ~ shift
  <2>1. PICK a \in Addr : /\ repeat_id' = a
                          /\ timers' = Delayed(CancelRepeat, a, Repeat(k, synthetic))
    BY <1>4 DEF PressKey
  <2> HIDE DEF synthetic
  <2>2. /\ CancelRepeat \in [Addr -> Timer \cup {NoTask}]
        /\ \A b \in Addr : CancelRepeat[b] = IF b = repeat_id THEN NoTask ELSE timers[b]
    BY <1>0, WithoutType DEF TypeOK, CancelRepeat
  <2>3. \A b \in Addr : b # a => timers'[b] = CancelRepeat[b]
    BY <2>1, <2>2 DEF Delayed
  <2>4. RepeatKnown'
    BY <1>0, <2>1, <2>2, <2>3 DEF RepeatKnown, Repeating
  <2>5. running' = NoTask
    BY <1>4 DEF PressKey, Packet
  <2> QED BY <1>0, <2>4, <2>5 DEF RepeatInv, Alone
<1>5. ASSUME NEW a \in Addr, TakeTimer(a) PROVE RepeatInv'
  <2>1. running' = timers[a] /\ repeat_id' = repeat_id /\ timers[a] # NoTask
    BY <1>5 DEF TakeTimer, keyboard
  <2>2. \A b \in Addr : timers'[b] = IF b = a THEN NoTask ELSE timers[b]
    BY <1>0, <1>5 DEF TakeTimer, TypeOK
  <2>3. RepeatKnown'
    BY <1>0, <2>1, <2>2 DEF RepeatKnown, Repeating
  <2>4. Alone'
    BY <1>0, <2>1, <2>2 DEF RepeatKnown, Repeating, Alone
  <2> QED BY <1>0, <2>3, <2>4 DEF RepeatInv
<1>6. ASSUME RunRelease PROVE RepeatInv'
  BY <1>1, <1>6 DEF RunRelease, Done, keyboard, Repeating
<1>7. ASSUME RunRepeat PROVE RepeatInv'
  <2>1. running' = NoTask /\ \A b \in Addr : ~ Repeating(b)
    BY <1>0, <1>7 DEF RunRepeat, Done, Alone
  <2>2. CASE UNCHANGED timers
    BY <1>0, <2>1, <2>2 DEF RepeatInv, RepeatKnown, Repeating, Alone
  <2>3. CASE \E a \in Addr : repeat_id' = a /\ timers' = Delayed(timers, a, running)
    <3>1. PICK a \in Addr : repeat_id' = a /\ timers' = Delayed(timers, a, running)
      BY <2>3
    <3>2. \A b \in Addr : b # a => timers'[b] = timers[b]
      BY <1>0, <3>1 DEF TypeOK, Delayed
    <3> QED BY <1>0, <2>1, <3>1, <3>2 DEF RepeatInv, RepeatKnown, Repeating, Alone
  <2> QED BY <1>7, <2>2, <2>3 DEF RunRepeat
<1>8. ASSUME Reset PROVE RepeatInv'
  <2>1. \A b \in Addr : timers'[b] \in {NoTask, timers[b]}
    BY <1>0, <1>8 DEF Reset
  <2> QED BY <1>1, <1>8, <2>1 DEF Reset, keyboard, Repeating
<1>9. ASSUME MoveRel \/ MoveAbs PROVE RepeatInv'
  BY <1>2, <1>9 DEF MoveRel, MoveAbs, keyboard, pool
<1>10. ASSUME NEW b \in Buttons, PressButton(b) PROVE RepeatInv'
  BY <1>2, <1>10 DEF PressButton, keyboard, pool
<1>11. ASSUME NEW k \in Key, ReleaseKey(k) PROVE RepeatInv'
  BY <1>2, <1>11 DEF ReleaseKey, pool
<1>12. ASSUME PushResetTask \/ ResetTask \/ Alloc PROVE RepeatInv'
  BY <1>2, <1>12 DEF PushResetTask, ResetTask, Alloc, keyboard, pool
<1>13. ASSUME UNCHANGED vars PROVE RepeatInv'
  BY <1>2, <1>13 DEF vars, keyboard, pool
<1>14. ASSUME PadStep PROVE RepeatInv'
  <2>1. PadFrame
    BY <1>0, <1>14, PadSteps
  <2>2. \A a \in Addr : Repeating(a)' => Repeating(a)
    BY <1>0, <2>1, TimerKinds DEF PadFrame, Repeating, TypeOK
  <2> QED BY <1>1, <2>1, <2>2 DEF PadFrame, keyboard
<1> QED BY <1>3, <1>4, <1>5, <1>6, <1>7, <1>8, <1>9, <1>10, <1>11, <1>12, <1>13, <1>14
        DEF Next, Worker, PadStep

-----------------------------------------------------------------------------
(* A gamepad has one timer, under its id.                                  *)

\* What the other handlers leave alone: no timer of a gamepad comes, and one that
\* is taken is gone.
DeskFrame ==
    /\ UNCHANGED <<gamepads, mask, frees>> /\ os'.back = os.back
    /\ \A a \in Addr : Waiting(a)' => timers'[a] = timers[a]
    /\ \/ running' \in {running, NoTask}
       \/ \E a \in Addr : running' = timers[a] /\ timers'[a] = NoTask

LEMMA DeskSteps ==
    ASSUME TypeOK, [Next]_vars, ~ PadStep PROVE DeskFrame
<1> USE DEF pads
<1>1. CASE MoveRel \/ MoveAbs
  BY <1>1 DEF MoveRel, MoveAbs, DeskFrame, Waiting, pool
<1>2. ASSUME NEW b \in Buttons, PressButton(b) PROVE DeskFrame
  <2>1. os'.back = os.back
    BY <1>2 DEF PressButton, TypeOK
  <2> QED BY <1>2, <2>1 DEF PressButton, DeskFrame, Waiting, pool
<1>3. ASSUME NEW b \in Buttons, ReleaseButton(b) PROVE DeskFrame
  <2>1. os'.back = os.back
    BY <1>3 DEF ReleaseButton, TypeOK
  <2>2. ASSUME NEW a \in Addr, Waiting(a)' PROVE timers'[a] = timers[a]
    BY <1>3, <2>2, TimerKinds DEF ReleaseButton, Waiting, Delayed, TypeOK
  <2> QED BY <1>3, <2>1, <2>2 DEF ReleaseButton, DeskFrame
<1>4. ASSUME NEW k \in Key, NEW asks \in BOOLEAN, PressKey(k, asks) PROVE DeskFrame
  <2> DEFINE synthetic == k \notin Shifts /\ asks /\ ~ shift
  <2>1. os'.back = os.back
    BY <1>4 DEF PressKey, Pressed, TypeOK
  <2>2. PICK a \in Addr : timers' = Delayed(CancelRepeat, a, Repeat(k, synthetic))
    BY <1>4 DEF PressKey
  <2>3. Repeat(k, synthetic) \in Timer /\ Repeat(k, synthetic).kind = "repeat"
    <3>1. synthetic \in BOOLEAN
      OBVIOUS
    <3> HIDE DEF synthetic
    <3> QED BY <3>1, TimerKinds
  <2> HIDE DEF synthetic
  <2>4. ASSUME NEW b \in Addr, Waiting(b)' PROVE timers'[b] = timers[b]
    BY <2>2, <2>3, <2>4, WithoutType DEF CancelRepeat, Waiting, Delayed, TypeOK
  <2> QED BY <1>4, <2>1, <2>4 DEF PressKey, DeskFrame
<1>5. ASSUME NEW k \in Key, ReleaseKey(k) PROVE DeskFrame
  <2>1. os'.back = os.back
    BY <1>5 DEF ReleaseKey, TypeOK
  <2> QED BY <1>5, <2>1 DEF ReleaseKey, DeskFrame, Waiting, pool
<1>6. ASSUME NEW a \in Addr, TakeTimer(a) PROVE DeskFrame
  BY <1>6 DEF TakeTimer, DeskFrame, Waiting, TypeOK
<1>7. CASE RunRelease
  <2>1. os'.back = os.back
    BY <1>7 DEF RunRelease, TypeOK
  <2> QED BY <1>7, <2>1 DEF RunRelease, Done, DeskFrame, Waiting
<1>8. CASE RunRepeat
  <2>1. os'.back = os.back
    BY <1>8 DEF RunRepeat, Pressed, TypeOK
  <2>2. ASSUME NEW a \in Addr, Waiting(a)' PROVE timers'[a] = timers[a]
    BY <1>8, <2>2 DEF RunRepeat, Waiting, Delayed, TypeOK
  <2> QED BY <1>8, <2>1, <2>2 DEF RunRepeat, Done, DeskFrame
<1>9. CASE Reset
  BY <1>9 DEF Reset, DeskFrame, Waiting
<1>10. CASE PushResetTask \/ Alloc
  BY <1>10 DEF PushResetTask, Alloc, DeskFrame, Waiting, pool
<1>11. CASE ResetTask
  <2>1. os'.back = os.back
    BY <1>11 DEF ResetTask, TypeOK
  <2> QED BY <1>11, <2>1 DEF ResetTask, DeskFrame, Waiting, pool
<1>12. CASE UNCHANGED vars
  BY <1>12 DEF vars, DeskFrame, Waiting, pool
<1> QED BY <1>1, <1>2, <1>3, <1>4, <1>5, <1>6, <1>7, <1>8, <1>9, <1>10, <1>11, <1>12
        DEF Next, Worker, PadStep

\* What a gamepad keeps when it gets an id.
LEMMA Forgets ==
    ASSUME NEW g \in Gamepad, NEW x
    PROVE  [g EXCEPT !.held = x] =
             [id |-> g.id, back |-> g.back, timeout |-> g.timeout, up |-> g.up, held |-> x]
BY DEF Gamepad

LEMMA Arrived ==
    ASSUME NEW g \in Gamepad, NEW i \in Id
    PROVE  [g EXCEPT !.id = i, !.held = FALSE] =
             [id |-> i, back |-> g.back, timeout |-> g.timeout, up |-> g.up, held |-> FALSE]
<1> DEFINE h == [g EXCEPT !.id = i]
<1>1. h = [id |-> i, back |-> g.back, timeout |-> g.timeout, up |-> g.up, held |-> g.held]
  BY DEF Gamepad
<1>2. h \in Gamepad
  BY <1>1 DEF Gamepad
<1>3. /\ h.id = i /\ h.back = g.back /\ h.timeout = g.timeout /\ h.up = g.up
  BY <1>1
<1>4. [h EXCEPT !.held = FALSE] =
        [id |-> h.id, back |-> h.back, timeout |-> h.timeout, up |-> h.up, held |-> FALSE]
  <2> HIDE DEF h
  <2> QED BY <1>2, Forgets
<1>5. [h EXCEPT !.held = FALSE] =
        [id |-> i, back |-> g.back, timeout |-> g.timeout, up |-> g.up, held |-> FALSE]
  <2> DEFINE new == [h EXCEPT !.held = FALSE]
  <2> HIDE DEF h, new
  <2>1. new = [id |-> h.id, back |-> h.back, timeout |-> h.timeout, up |-> h.up,
               held |-> FALSE]
    BY <1>4 DEF new
  <2>2. new = [id |-> i, back |-> g.back, timeout |-> g.timeout, up |-> g.up, held |-> FALSE]
    BY <1>3, <2>1
  <2> QED BY <2>2 DEF new
<1> QED BY <1>5 DEF h

\* A step that leaves the timer ids of gamepads alone, and adds no timer of theirs.
LEMMA BackLeft ==
    ASSUME BackInv, TypeOK',
           \A s \in 1 .. MaxSessions : \A p \in Pad :
               /\ gamepads'[s][p].timeout = gamepads[s][p].timeout
               /\ gamepads'[s][p].back = gamepads[s][p].back,
           \A a \in Addr : Waiting(a)' => timers'[a] = timers[a],
           \/ running' \in {running, NoTask}
           \/ \E a \in Addr : running' = timers[a] /\ timers'[a] = NoTask
    PROVE  BackInv'
<1>1. \A a \in Addr : Waiting(a) =>
          timers[a].session \in 1 .. MaxSessions /\ timers[a].pad \in Pad
  BY RepeatFields DEF BackInv, TypeOK, Waiting
<1>2. BackKnown' /\ BackHeld'
  BY <1>1 DEF BackInv, BackKnown, BackHeld, Waiting
<1>3. BackAlone'
  BY DEF BackInv, BackAlone, BackKnown, Waiting
<1> QED BY <1>2, <1>3 DEF BackInv

LEMMA StepBack == BackInv /\ [Next]_vars => BackInv'
<1> SUFFICES ASSUME BackInv, [Next]_vars PROVE BackInv'
  OBVIOUS
<1>0. /\ TypeOK /\ TypeOK' /\ BackKnown /\ BackHeld /\ BackAlone
      /\ \A a \in Addr : Waiting(a) =>
            /\ timers[a].session \in 1 .. MaxSessions /\ timers[a].pad \in Pad
            /\ timers[a] = Back(timers[a].session, timers[a].pad)
  BY StepType, RepeatFields DEF BackInv, TypeOK, Waiting
<1>1. CASE ~ PadStep
  <2>1. DeskFrame
    BY <1>0, <1>1, DeskSteps
  <2> QED BY <1>0, <2>1, BackLeft DEF DeskFrame
<1>2. ASSUME UNCHANGED <<gamepads, timers>>, running' \in {running, NoTask} PROVE BackInv'
  BY <1>0, <1>2, BackLeft DEF Waiting
<1>3. ASSUME NEW p \in Pad, Arrival(p) PROVE BackInv'
  <2>1. CASE PadIgnored
    BY <1>2, <1>3, <2>1 DEF Arrival, PadIgnored, Neighbours
  <2>2. CASE \E i \in Id :
               Change(p, [gamepads[session][p] EXCEPT !.id = i, !.held = FALSE])
    <3>1. PICK i \in Id :
             Change(p, [gamepads[session][p] EXCEPT !.id = i, !.held = FALSE])
      BY <2>2
    <3>2. gamepads[session][p] \in Gamepad
      BY <1>0 DEF TypeOK
    <3>3. [gamepads[session][p] EXCEPT !.id = i, !.held = FALSE] =
            [id |-> i, back |-> gamepads[session][p].back,
             timeout |-> gamepads[session][p].timeout, up |-> gamepads[session][p].up,
             held |-> FALSE]
      BY <3>2, Arrived
    <3>4. \A s \in 1 .. MaxSessions : \A q \in Pad :
             /\ gamepads'[s][q].timeout = gamepads[s][q].timeout
             /\ gamepads'[s][q].back = gamepads[s][q].back
      BY <1>0, <3>1, <3>3 DEF Change, TypeOK
    <3>5. UNCHANGED timers /\ running' = running
      BY <1>3 DEF Arrival, Neighbours, PadIgnored
    <3> QED BY <1>0, <3>4, <3>5, BackLeft DEF Waiting
  <2> QED BY <1>3, <2>1, <2>2 DEF Arrival
<1>4. ASSUME NEW p \in Pad, Removal(p) PROVE BackInv'
  <2>1. CASE PadIgnored
    BY <1>2, <1>4, <2>1 DEF Removal, PadIgnored, Neighbours
  <2>2. CASE Change(p, Removed(gamepads[session][p]))
    <3>1. gamepads[session][p] \in Gamepad
      BY <1>0 DEF TypeOK
    <3>2. Removed(gamepads[session][p]) =
            [id |-> NoId, back |-> gamepads[session][p].back,
             timeout |-> gamepads[session][p].timeout, up |-> gamepads[session][p].up,
             held |-> gamepads[session][p].held]
      BY <3>1 DEF Gamepad, Removed
    <3>3. \A s \in 1 .. MaxSessions : \A q \in Pad :
             /\ gamepads'[s][q].timeout = gamepads[s][q].timeout
             /\ gamepads'[s][q].back = gamepads[s][q].back
      BY <1>0, <2>2, <3>2 DEF Change, TypeOK
    <3>4. UNCHANGED timers /\ running' = running
      BY <1>4 DEF Removal, Neighbours, PadIgnored
    <3> QED BY <1>0, <3>3, <3>4, BackLeft DEF Waiting
  <2> QED BY <1>4, <2>1, <2>2 DEF Removal
<1>5. ASSUME NEW p \in Pad, NEW back \in BOOLEAN, State(p, back) PROVE BackInv'
  <2>0. running = NoTask /\ running' = NoTask
    BY <1>5 DEF State, Packet, Neighbours
  <2>1. CASE PadIgnored
    BY <1>2, <2>0, <2>1 DEF PadIgnored
  <2>2. CASE \E i \in Id : Update(p, i, back)
    <3> DEFINE pad == gamepads[session][p]
               shown == back /\ ~ pad.up
    <3>1. PICK i \in Id, t \in Addr \cup {Null} :
             /\ Change(p, [id |-> i, back |-> shown, timeout |-> t,
                           up |-> pad.up /\ back, held |-> back])
             /\ \/ shown = pad.back /\ t = pad.timeout /\ UNCHANGED timers
                \/ /\ shown /\ ~ pad.back /\ t # Null /\ Free(t)
                   /\ timers' = Delayed(timers, t, Back(session, p))
                \/ ~ shown /\ pad.back /\ t = Null /\ timers' = Without(pad.timeout)
      BY <2>2 DEF Update
    <3> DEFINE next == [id |-> i, back |-> shown, timeout |-> t, up |-> pad.up /\ back,
                        held |-> back]
    <3>2. \A s \in 1 .. MaxSessions : \A q \in Pad :
             gamepads'[s][q] = IF s = session /\ q = p THEN next ELSE gamepads[s][q]
      BY <1>0, <3>1 DEF Change, TypeOK
    <3>3. next.back = shown /\ next.timeout = t
      OBVIOUS
    <3>4. session \in 1 .. MaxSessions
      BY <1>0 DEF TypeOK
    <3>5. pad.back \in BOOLEAN /\ pad.up \in BOOLEAN
      BY <1>0 DEF TypeOK, Gamepad
    <3> HIDE DEF next
    \* What waits for another gamepad is not touched.
    <3>6. ASSUME NEW a \in Addr, Waiting(a)', timers'[a] = timers[a],
                 timers[a] # Back(session, p)
          PROVE  /\ gamepads'[timers'[a].session][timers'[a].pad].timeout = a
                 /\ gamepads'[timers'[a].session][timers'[a].pad].back
      BY <1>0, <3>2, <3>6 DEF Waiting, BackKnown, BackHeld
    <3>7. CASE shown = pad.back /\ t = pad.timeout /\ UNCHANGED timers
      <4>1. \A s \in 1 .. MaxSessions : \A q \in Pad :
               /\ gamepads'[s][q].timeout = gamepads[s][q].timeout
               /\ gamepads'[s][q].back = gamepads[s][q].back
        BY <3>2, <3>3, <3>7
      <4> QED BY <1>0, <2>0, <3>7, <4>1, BackLeft DEF Waiting
    <3>8. CASE /\ shown /\ ~ pad.back /\ t # Null /\ Free(t)
               /\ timers' = Delayed(timers, t, Back(session, p))
      <4>1. \A a \in Addr : timers[a] # Back(session, p)
        BY <1>0, <3>4, <3>8, TimerKinds, TaskAssumption DEF BackHeld, Waiting
      <4>2. t \in Addr /\ timers'[t] = Back(session, p)
        BY <1>0, <3>8 DEF Delayed, TypeOK
      <4>3. \A a \in Addr : a # t => timers'[a] = timers[a]
        BY <1>0, <3>8 DEF Delayed, TypeOK
      <4>4. /\ gamepads'[timers'[t].session][timers'[t].pad].timeout = t
            /\ gamepads'[timers'[t].session][timers'[t].pad].back
        <5>1. gamepads'[session][p] = next
          BY <3>2, <3>4
        <5>2. timers'[t].session = session /\ timers'[t].pad = p
          BY <3>4, <4>2, TimerKinds
        <5>3. gamepads'[timers'[t].session][timers'[t].pad] = next
          BY <5>1, <5>2
        <5>4. shown
          BY <3>8
        <5> HIDE DEF shown
        <5> QED BY <3>3, <5>3, <5>4
      <4>5. BackKnown' /\ BackHeld'
        BY <3>6, <4>1, <4>3, <4>4 DEF BackKnown, BackHeld, Waiting
      <4> QED BY <1>0, <2>0, <4>5 DEF BackInv, BackAlone
    <3>9. CASE ~ shown /\ pad.back /\ t = Null /\ timers' = Without(pad.timeout)
      <4>1. \A a \in Addr : timers'[a] = IF a = pad.timeout THEN NoTask ELSE timers[a]
        BY <1>0, <3>9, WithoutType DEF TypeOK
      <4>2. \A a \in Addr : Waiting(a)' =>
               timers'[a] = timers[a] /\ timers[a] # Back(session, p)
        BY <1>0, <3>4, <4>1, TimerKinds DEF BackKnown, Waiting
      <4>3. BackKnown' /\ BackHeld'
        BY <3>6, <4>2 DEF BackKnown, BackHeld, Waiting
      <4> QED BY <1>0, <2>0, <4>3 DEF BackInv, BackAlone
    <3> QED BY <3>1, <3>7, <3>8, <3>9
  <2> QED BY <1>5, <2>1, <2>2 DEF State
<1>6. CASE RunBack
  <2>1. /\ running # NoTask /\ running.kind = "back" /\ running' = NoTask
        /\ UNCHANGED timers
    BY <1>6 DEF RunBack
  <2>2. /\ running.session \in 1 .. MaxSessions /\ running.pad \in Pad
        /\ running = Back(running.session, running.pad)
    BY <1>0, <2>1, RepeatFields DEF TypeOK
  <2>3. \A a \in Addr : Waiting(a) =>
           ~ (timers[a].session = running.session /\ timers[a].pad = running.pad)
    BY <1>0, <2>1, <2>2 DEF BackAlone, Waiting
  <2>4. \A s \in 1 .. MaxSessions : \A q \in Pad :
           ~ (s = running.session /\ q = running.pad) => gamepads'[s][q] = gamepads[s][q]
    BY <1>0, <1>6, <2>2 DEF RunBack, TypeOK
  <2>5. BackKnown' /\ BackHeld'
    BY <1>0, <2>1, <2>3, <2>4 DEF BackKnown, BackHeld, Waiting
  <2> QED BY <1>0, <2>1, <2>5 DEF BackInv, BackAlone
<1>7. ASSUME NEW s \in 1 .. MaxSessions, Destroy(s) PROVE BackInv'
  <2>1. UNCHANGED <<timers, running>>
    BY <1>7 DEF Destroy, pool
  <2>2. \A a \in Addr : Waiting(a) => timers[a].session # s
    BY <1>7 DEF Destroy, Held, Waiting
  <2>3. \A r \in 1 .. MaxSessions : r # s => gamepads'[r] = gamepads[r]
    BY <1>0, <1>7 DEF Destroy, TypeOK
  <2>4. BackKnown' /\ BackHeld'
    BY <1>0, <2>1, <2>2, <2>3 DEF BackKnown, BackHeld, Waiting
  <2> QED BY <1>0, <2>1, <2>4 DEF BackInv, BackAlone
<1>8. CASE FreeGamepad
  BY <1>2, <1>8 DEF FreeGamepad, pool
<1> QED BY <1>1, <1>3, <1>4, <1>5, <1>6, <1>7, <1>8 DEF PadStep

\* The repetition of a key always waits under key_press_repeat_id, where the next
\* key or reset() cancels it (input.cpp:755, 1588), and the timer that makes BACK
\* HOME under the back_timeout_id of its gamepad, where the release of BACK does
\* (input.cpp:1184).
THEOREM TimersFound == Spec => []TimersKnown
<1>1. Init => RepeatInv /\ BackInv
  BY InitType
     DEF Init, RepeatInv, RepeatKnown, Repeating, Alone, BackInv, BackKnown, BackHeld,
         BackAlone, Waiting
<1>2. RepeatInv /\ BackInv => TimersKnown
  BY DEF RepeatInv, BackInv, TimersKnown
<1> QED BY <1>1, <1>2, StepRepeat, StepBack, PTL DEF Spec

-----------------------------------------------------------------------------
(* Every id of a gamepad is accounted for.                                 *)

\* The same, gamepad by gamepad; what the OS shows is of an id that is taken.
PadFacts ==
    /\ frees \subseteq mask /\ os.back \subseteq mask
    /\ \A i \in mask :
          i \in frees \/ \E s \in 1 .. MaxSessions : \E p \in Pad : gamepads[s][p].id = i
    /\ \A s \in 1 .. MaxSessions : \A p \in Pad :
          Plugged(s, p) =>
            /\ gamepads[s][p].id \in mask /\ gamepads[s][p].id \notin frees
            /\ \A r \in 1 .. MaxSessions : \A q \in Pad :
                  gamepads[s][p].id = gamepads[r][q].id => s = r /\ p = q
            /\ gamepads[s][p].id \in os.back
                  <=> gamepads[s][p].held /\ ~ gamepads[s][p].up

PadInv == TypeOK /\ PadFacts

LEMMA IdsAre ==
    ASSUME TypeOK
    PROVE  /\ NoId \notin Id
           /\ \A s \in 1 .. MaxSessions : \A p \in Pad : gamepads[s][p].id \in Id \cup {NoId}
<1>1. NoId \notin Id
  BY PadAssumption DEF Id
<1> QED BY <1>1 DEF TypeOK, Gamepad

LEMMA Facts == PadInv <=> TypeOK /\ PadsKept /\ os.back \subseteq mask
<1> SUFFICES ASSUME TypeOK PROVE PadFacts <=> PadsKept /\ os.back \subseteq mask
  BY DEF PadInv
<1> DEFINE Taken == UNION {Ids(s) : s \in 1 .. MaxSessions}
<1>1. \A i : i \in Taken <=>
          i # NoId /\ \E s \in 1 .. MaxSessions : \E p \in Pad : gamepads[s][p].id = i
  BY DEF Ids
<1>2. NoId \notin mask /\ NoId \notin frees
  BY IdsAre DEF TypeOK
<1>3. mask = frees \cup Taken <=>
        /\ frees \subseteq mask
        /\ \A i \in mask :
             i \in frees \/ \E s \in 1 .. MaxSessions : \E p \in Pad : gamepads[s][p].id = i
        /\ \A s \in 1 .. MaxSessions : \A p \in Pad :
             gamepads[s][p].id # NoId => gamepads[s][p].id \in mask
  <2> HIDE DEF Taken
  <2> QED BY <1>1, <1>2
<1> QED BY <1>3 DEF PadsKept, PadFacts, Plugged

\* One gamepad changes: it keeps its id, gets one that was free or loses it.
LEMMA OneChanged ==
    ASSUME TypeOK, PadFacts,
           NEW s \in 1 .. MaxSessions, NEW p \in Pad, NEW g,
           g.id = gamepads[s][p].id
             \/ (g.id \in Id \ mask /\ gamepads[s][p].id = NoId) \/ g.id = NoId,
           \A r \in 1 .. MaxSessions : \A q \in Pad :
               gamepads'[r][q] = IF r = s /\ q = p THEN g ELSE gamepads[r][q],
           frees' = frees, mask' = (mask \ {gamepads[s][p].id}) \cup ({g.id} \ {NoId}),
           os'.back \subseteq Id,
           \A j \in Id : j # g.id =>
               (j \in os'.back <=> j \in os.back /\ j # gamepads[s][p].id),
           g.id # NoId => (g.id \in os'.back <=> g.held /\ ~ g.up)
    PROVE  PadFacts'
<1> DEFINE old == gamepads[s][p].id
<1>0. /\ NoId \notin Id /\ frees \subseteq Id /\ mask \subseteq Id /\ old \in Id \cup {NoId}
      /\ \A r \in 1 .. MaxSessions : \A q \in Pad : gamepads[r][q].id \in Id \cup {NoId}
  BY IdsAre DEF TypeOK
<1>1. old # NoId => old \in mask /\ old \notin frees
  BY DEF PadFacts, Plugged
<1>2. old \notin frees
  BY <1>0, <1>1
<1>3. frees' \subseteq mask' /\ os'.back \subseteq mask'
  BY <1>0, <1>2 DEF PadFacts
<1>4. ASSUME NEW i \in mask'
      PROVE  i \in frees'
               \/ \E r \in 1 .. MaxSessions : \E q \in Pad : gamepads'[r][q].id = i
  <2>1. CASE i = g.id
    BY <2>1
  <2>2. CASE i # g.id
    <3>1. i \in mask /\ i # old
      BY <1>4, <2>2
    <3> QED BY <3>1 DEF PadFacts
  <2> QED BY <2>1, <2>2
<1>5. ASSUME NEW r \in 1 .. MaxSessions, NEW q \in Pad, Plugged(r, q)'
      PROVE  /\ gamepads'[r][q].id \in mask' /\ gamepads'[r][q].id \notin frees'
             /\ \A t \in 1 .. MaxSessions : \A u \in Pad :
                   gamepads'[r][q].id = gamepads'[t][u].id => r = t /\ q = u
             /\ gamepads'[r][q].id \in os'.back
                   <=> gamepads'[r][q].held /\ ~ gamepads'[r][q].up
  \* Nobody else has the id of the one that changes.
  <2>1. ASSUME NEW t \in 1 .. MaxSessions, NEW u \in Pad, ~ (t = s /\ u = p), g.id # NoId
        PROVE  gamepads[t][u].id # g.id
    BY <1>0, <2>1 DEF PadFacts, Plugged
  <2>2. CASE r = s /\ q = p
    <3>1. gamepads'[r][q] = g /\ g.id # NoId
      BY <1>5, <2>2 DEF Plugged
    <3>2. g.id \in mask' /\ g.id \notin frees'
      BY <1>0, <1>2, <3>1 DEF PadFacts
    <3> QED BY <2>1, <2>2, <3>1, <3>2
  <2>3. CASE ~ (r = s /\ q = p)
    <3>1. gamepads'[r][q] = gamepads[r][q] /\ Plugged(r, q)
      BY <1>5, <2>3 DEF Plugged
    <3>2. gamepads[r][q].id # old
      BY <2>3, <3>1 DEF PadFacts, Plugged
    <3>3. gamepads[r][q].id # g.id
      BY <2>1, <2>3, <3>1 DEF Plugged
    <3>4. gamepads[r][q].id \in mask' /\ gamepads[r][q].id \notin frees'
      BY <3>1, <3>2 DEF PadFacts
    <3>5. \A t \in 1 .. MaxSessions : \A u \in Pad :
             gamepads'[r][q].id = gamepads'[t][u].id => r = t /\ q = u
      BY <3>1, <3>3 DEF PadFacts
    <3>6. gamepads[r][q].id \in os'.back <=> gamepads[r][q].id \in os.back
      BY <1>0, <3>1, <3>2, <3>3 DEF Plugged
    <3> QED BY <3>1, <3>4, <3>5, <3>6 DEF PadFacts
  <2> QED BY <2>2, <2>3
<1> QED BY <1>3, <1>4, <1>5 DEF PadFacts

LEMMA StepPads == PadInv /\ [Next]_vars => PadInv'
<1> SUFFICES ASSUME PadInv, [Next]_vars PROVE PadInv'
  OBVIOUS
<1>0. TypeOK /\ TypeOK' /\ PadFacts
  BY StepType DEF PadInv
<1>1. ASSUME UNCHANGED <<gamepads, mask, frees>>, os'.back = os.back PROVE PadInv'
  BY <1>0, <1>1 DEF PadInv, PadFacts, Plugged
<1>2. CASE ~ PadStep
  BY <1>0, <1>1, <1>2, DeskSteps DEF DeskFrame
<1>3. ASSUME NEW s \in 1 .. MaxSessions, NEW p \in Pad, NEW g,
             g.id = gamepads[s][p].id
               \/ (g.id \in Id \ mask /\ gamepads[s][p].id = NoId) \/ g.id = NoId,
             \A r \in 1 .. MaxSessions : \A q \in Pad :
                 gamepads'[r][q] = IF r = s /\ q = p THEN g ELSE gamepads[r][q],
             frees' = frees, mask' = (mask \ {gamepads[s][p].id}) \cup ({g.id} \ {NoId}),
             \A j \in Id : j # g.id =>
                 (j \in os'.back <=> j \in os.back /\ j # gamepads[s][p].id),
             g.id # NoId => (g.id \in os'.back <=> g.held /\ ~ g.up)
      PROVE  PadInv'
  <2>1. PadFacts /\ os'.back \subseteq Id
    BY <1>0 DEF TypeOK
  <2>2. PadFacts'
    BY <1>0, <1>3, <2>1, OneChanged
  <2> QED BY <1>0, <2>2 DEF PadInv
<1>4. session \in 1 .. MaxSessions /\ os.back \subseteq Id /\ PadFacts
      /\ NoId \notin Id /\ mask \subseteq Id
  BY <1>0, IdsAre DEF TypeOK
<1>5. ASSUME NEW p \in Pad, Arrival(p) PROVE PadInv'
  <2>1. frees' = frees
    BY <1>5 DEF Arrival, Neighbours
  <2>2. CASE PadIgnored
    BY <1>1, <2>1, <2>2 DEF PadIgnored
  <2>3. CASE /\ gamepads[session][p].id = NoId /\ os' = os
             /\ \E i \in Id :
                   /\ AllocId(i) /\ mask' = mask \cup {i}
                   /\ Change(p, [gamepads[session][p] EXCEPT !.id = i, !.held = FALSE])
    <3>1. PICK i \in Id :
             /\ AllocId(i) /\ mask' = mask \cup {i}
             /\ Change(p, [gamepads[session][p] EXCEPT !.id = i, !.held = FALSE])
      BY <2>3
    <3>2. gamepads[session][p] \in Gamepad
      BY <1>0 DEF TypeOK
    <3> DEFINE g == [gamepads[session][p] EXCEPT !.id = i, !.held = FALSE]
    <3>3. g.id = i /\ g.held = FALSE
      BY <3>2, Arrived
    <3>4. \A r \in 1 .. MaxSessions : \A q \in Pad :
             gamepads'[r][q] = IF r = session /\ q = p THEN g ELSE gamepads[r][q]
      BY <1>0, <3>1 DEF Change, TypeOK
    <3> HIDE DEF g
    <3>5. i \notin mask
      BY <3>1 DEF AllocId
    <3>6. i \notin os'.back
      BY <1>4, <2>3, <3>5 DEF PadFacts
    <3> QED BY <1>3, <1>4, <2>1, <2>3, <3>1, <3>3, <3>4, <3>5, <3>6
  <2> QED BY <1>5, <2>2, <2>3 DEF Arrival
<1>6. ASSUME NEW p \in Pad, Removal(p) PROVE PadInv'
  <2>1. frees' = frees
    BY <1>6 DEF Removal, Neighbours
  <2>2. CASE PadIgnored
    BY <1>1, <2>1, <2>2 DEF PadIgnored
  <2>3. CASE /\ gamepads[session][p].id # NoId
             /\ FreeId(gamepads[session][p].id) /\ Change(p, Removed(gamepads[session][p]))
    <3>1. gamepads[session][p] \in Gamepad
      BY <1>0 DEF TypeOK
    <3> DEFINE g == Removed(gamepads[session][p])
    <3>2. g.id = NoId
      BY <3>1 DEF Gamepad, Removed
    <3>3. \A r \in 1 .. MaxSessions : \A q \in Pad :
             gamepads'[r][q] = IF r = session /\ q = p THEN g ELSE gamepads[r][q]
      BY <1>0, <2>3 DEF Change, TypeOK
    <3>4. /\ mask' = mask \ {gamepads[session][p].id}
          /\ os'.back = os.back \ {gamepads[session][p].id}
      BY <1>0, <2>3, Frees
    <3> HIDE DEF g
    <3> QED BY <1>3, <1>4, <2>1, <3>2, <3>3, <3>4
  <2> QED BY <1>6, <2>2, <2>3 DEF Removal
<1>7. ASSUME NEW p \in Pad, NEW back \in BOOLEAN, State(p, back) PROVE PadInv'
  <2>1. frees' = frees
    BY <1>7 DEF State, Neighbours
  <2>2. CASE PadIgnored
    BY <1>1, <2>1, <2>2 DEF PadIgnored
  <2>3. ASSUME NEW i \in Id, Update(p, i, back),
               i = gamepads[session][p].id \/ (gamepads[session][p].id = NoId /\ AllocId(i))
        PROVE  PadInv'
    <3> DEFINE pad == gamepads[session][p]
               shown == back /\ ~ pad.up
    <3>1. PICK t : Change(p, [id |-> i, back |-> shown, timeout |-> t,
                              up |-> pad.up /\ back, held |-> back])
      BY <2>3 DEF Update
    <3> DEFINE g == [id |-> i, back |-> shown, timeout |-> t, up |-> pad.up /\ back,
                     held |-> back]
    <3>2. \A r \in 1 .. MaxSessions : \A q \in Pad :
             gamepads'[r][q] = IF r = session /\ q = p THEN g ELSE gamepads[r][q]
      BY <1>0, <3>1 DEF Change, TypeOK
    <3>3. g.id = i /\ (shown <=> g.held /\ ~ g.up)
      OBVIOUS
    <3>4. mask' = mask \cup {i}
      BY <2>3 DEF Update
    <3>5. os'.back = IF shown THEN os.back \cup {i} ELSE os.back \ {i}
      BY <1>0, <2>3 DEF Update, TypeOK
    <3>6. i \in os'.back <=> g.held /\ ~ g.up
      BY <3>3, <3>5
    <3> HIDE DEF g, shown
    <3>7. AllocId(i) => i \notin mask
      BY DEF AllocId
    <3>8. pad.id # NoId => pad.id \in mask
      BY <1>4 DEF PadFacts, Plugged
    <3>9. i = pad.id \/ (pad.id = NoId /\ i \notin mask)
      BY <2>3, <3>7
    <3> HIDE DEF pad
    <3>10. mask' = (mask \ {pad.id}) \cup ({i} \ {NoId})
      BY <1>4, <2>3, <3>4, <3>8, <3>9
    <3>11. \A j \in Id : j # i => (j \in os'.back <=> j \in os.back /\ j # pad.id)
      BY <1>4, <3>5, <3>9
    <3>12. i = pad.id \/ (i \in Id \ mask /\ pad.id = NoId)
      BY <2>3, <3>9
    <3> QED BY <1>3, <1>4, <2>1, <3>2, <3>3, <3>6, <3>10, <3>11, <3>12 DEF pad
  <2> QED BY <1>7, <2>2, <2>3 DEF State
<1>8. CASE RunBack
  <2>1. /\ UNCHANGED <<mask, frees>> /\ running # NoTask /\ running.kind = "back"
        /\ gamepads' = [gamepads EXCEPT ![running.session][running.pad] =
                           [@ EXCEPT !.up = TRUE, !.back = FALSE, !.timeout = Null]]
    BY <1>8 DEF RunBack
  <2>2. running.session \in 1 .. MaxSessions /\ running.pad \in Pad
    BY <1>0, <2>1, RepeatFields DEF TypeOK
  <2> DEFINE pad == gamepads[running.session][running.pad]
             g == [pad EXCEPT !.up = TRUE, !.back = FALSE, !.timeout = Null]
  <2>3. os'.back = os.back \ {pad.id}
    BY <1>0, <1>8 DEF RunBack, TypeOK
  <2>4. pad \in Gamepad
    BY <1>0, <2>2 DEF TypeOK
  <2>5. g.id = pad.id /\ g.up = TRUE
    BY <2>4 DEF Gamepad
  <2>6. \A r \in 1 .. MaxSessions : \A q \in Pad :
           gamepads'[r][q] = IF r = running.session /\ q = running.pad THEN g
                                                                       ELSE gamepads[r][q]
    BY <1>0, <2>1, <2>2 DEF TypeOK
  <2>7. pad.id # NoId => pad.id \in mask
    BY <1>4, <2>2 DEF PadFacts, Plugged
  <2> HIDE DEF g
  <2> QED BY <1>3, <1>4, <2>1, <2>2, <2>3, <2>5, <2>6, <2>7
<1>9. ASSUME NEW s \in 1 .. MaxSessions, Destroy(s) PROVE PadInv'
  <2>1. /\ UNCHANGED <<mask, os>> /\ frees' = frees \cup Ids(s)
        /\ gamepads' = [gamepads EXCEPT ![s] = [p \in Pad |-> NoPad]]
    BY <1>9 DEF Destroy
  <2>2. /\ \A p \in Pad : gamepads'[s][p].id = NoId
        /\ \A r \in 1 .. MaxSessions : r # s => gamepads'[r] = gamepads[r]
    BY <1>0, <2>1 DEF TypeOK, NoPad
  <2>3. \A i : i \in Ids(s) <=> i # NoId /\ \E p \in Pad : gamepads[s][p].id = i
    BY DEF Ids
  <2>4. PadFacts'
    <3>1. frees' \subseteq mask' /\ os'.back \subseteq mask'
      BY <1>4, <2>1, <2>3 DEF PadFacts, Plugged
    <3>2. ASSUME NEW i \in mask'
          PROVE  i \in frees'
                   \/ \E r \in 1 .. MaxSessions : \E q \in Pad : gamepads'[r][q].id = i
      <4>1. CASE i \in frees
        BY <2>1, <4>1
      <4>2. CASE i \notin frees
        <5>1. PICK r \in 1 .. MaxSessions, q \in Pad : gamepads[r][q].id = i
          BY <1>4, <2>1, <3>2, <4>2 DEF PadFacts
        <5>2. i # NoId
          BY <1>4, <2>1, <3>2
        <5> QED BY <2>1, <2>2, <2>3, <5>1, <5>2
      <4> QED BY <4>1, <4>2
    <3>3. ASSUME NEW r \in 1 .. MaxSessions, NEW q \in Pad, Plugged(r, q)'
          PROVE  r # s /\ gamepads'[r][q] = gamepads[r][q] /\ Plugged(r, q)
                 /\ gamepads[r][q].id \notin Ids(s)
      BY <1>4, <2>2, <2>3, <3>3 DEF Plugged, PadFacts
    <3>4. ASSUME NEW r \in 1 .. MaxSessions, NEW q \in Pad, Plugged(r, q)'
          PROVE  \A t \in 1 .. MaxSessions : \A u \in Pad :
                   gamepads'[r][q].id = gamepads'[t][u].id => r = t /\ q = u
      BY <1>4, <2>2, <3>3, <3>4 DEF Plugged, PadFacts
    <3> QED BY <1>4, <2>1, <3>1, <3>2, <3>3, <3>4 DEF PadFacts
  <2> QED BY <1>0, <2>4 DEF PadInv
<1>10. CASE FreeGamepad
  <2>1. PICK i \in frees : frees' = frees \ {i} /\ FreeId(i)
    BY <1>10 DEF FreeGamepad
  <2>2. mask' = mask \ {i} /\ os'.back = os.back \ {i} /\ gamepads' = gamepads
    BY <1>0, <1>10, <2>1, Frees DEF FreeGamepad
  <2>3. \A s \in 1 .. MaxSessions : \A p \in Pad : Plugged(s, p) => gamepads[s][p].id # i
    BY <1>4, <2>1 DEF PadFacts
  <2>4. PadFacts'
    BY <1>4, <2>1, <2>2, <2>3 DEF PadFacts, Plugged
  <2> QED BY <1>0, <2>4 DEF PadInv
<1> QED BY <1>2, <1>5, <1>6, <1>7, <1>8, <1>9, <1>10 DEF PadStep

\* Every id that is taken is that of one gamepad or about to be freed, and a
\* gamepad shows the OS what the client says of BACK (input.cpp:1108, 1133).
THEOREM PadsFound == Spec => []PadsKept
<1>1. Init => PadInv
  BY InitType DEF Init, PadInv, PadFacts, Plugged, NoPad
<1>2. PadInv => PadsKept
  BY Facts
<1> QED BY <1>1, <1>2, StepPads, PTL DEF Spec
-----------------------------------------------------------------------------
(* The OS holds down what the client does.                                 *)

\* The part of Mirrored that is about keys.
KeysHeld ==
    /\ os.keys \subseteq key_press
    /\ key_press \ os.keys \subseteq (IF crossed THEN {Shift} ELSE {})

\* Steps of the keyboard's neighbours: no key and no repetition changes.
LEMMA KeysLeft ==
    ASSUME MirrorInv, RepeatInv', UNCHANGED <<key_press, shift, crossed>>, os'.keys = os.keys,
           \A a \in Addr : Repeating(a)' => timers'[a] = timers[a],
           running' = running \/ running' = NoTask
                \/ \E a \in Addr : running' = timers[a],
           phase' = "ended" => phase = "ended"
    PROVE  /\ Synthetic' /\ KeysHeld'
           /\ ~ crossed' /\ key_press' \cap Shifts # {} => shift'
           /\ phase' = "ended" => key_press' = {}
BY DEF MirrorInv, Synthetic, Apart, Flagged, Mirrored, KeysHeld, Repeating

LEMMA StepMirror == Plain /\ MirrorInv /\ [Next]_vars => MirrorInv'
<1> SUFFICES ASSUME Plain, MirrorInv, [Next]_vars PROVE MirrorInv'
  OBVIOUS
<1>0. /\ TypeOK /\ TypeOK' /\ RepeatInv /\ RepeatInv'
      /\ Synthetic /\ Flagged /\ Mirrored /\ RepeatKnown
  BY StepRepeat DEF MirrorInv, RepeatInv
<1> DEFINE Keys ==
      /\ UNCHANGED <<key_press, shift, crossed>> /\ os'.keys = os.keys
      /\ \A a \in Addr : Repeating(a)' => timers'[a] = timers[a]
      /\ running' = running \/ running' = NoTask \/ \E a \in Addr : running' = timers[a]
      /\ phase' = "ended" => phase = "ended"
    Buttoned ==
      /\ mouse_press' \subseteq os'.buttons
      /\ "RIGHT" \in os'.buttons => "RIGHT" \in mouse_press'
      /\ phase' = "ended" => mouse_press' = {}
<1>1. ASSUME Keys, Buttoned PROVE MirrorInv'
  <2>1. /\ Synthetic' /\ KeysHeld'
        /\ ~ crossed' /\ key_press' \cap Shifts # {} => shift'
        /\ phase' = "ended" => key_press' = {}
    BY <1>1, <1>0, KeysLeft
  <2> QED BY <1>0, <1>1, <2>1 DEF MirrorInv, Flagged, Mirrored, KeysHeld
<1>2. ASSUME UNCHANGED <<mouse_press, os>>, phase' = "ended" => phase = "ended"
      PROVE  Buttoned
  BY <1>0, <1>2 DEF Mirrored, Flagged
<1>3. ASSUME NEW d, Packet(d) PROVE phase' # "ended"
  BY <1>3 DEF Packet, client
<1>4. ASSUME MoveRel \/ MoveAbs PROVE MirrorInv'
  <2>1. Packet("mouse") /\ UNCHANGED <<mouse_press, keyboard, pool, os>>
    BY <1>4 DEF MoveRel, MoveAbs
  <2> QED BY <1>1, <1>2, <1>3, <2>1 DEF keyboard, pool
<1>5. ASSUME NEW b \in Buttons, PressButton(b) PROVE MirrorInv'
  <2>1. Packet("mouse") /\ UNCHANGED <<keyboard, pool>>
    BY <1>5 DEF PressButton
  <2>2. os'.keys = os.keys
    BY <1>0, <1>5 DEF PressButton, TypeOK
  <2>3. CASE UNCHANGED <<mouse_press, os>>
    BY <1>1, <1>2, <1>3, <2>1, <2>3 DEF keyboard, pool
  <2>4. CASE /\ mouse_press' = mouse_press \cup {b}
             /\ os' = [os EXCEPT !.buttons = @ \cup {b}]
    <3>1. os'.buttons = os.buttons \cup {b}
      BY <1>0, <2>4 DEF TypeOK
    <3>2. Buttoned
      BY <1>0, <1>3, <2>1, <2>4, <3>1 DEF Mirrored
    <3> QED BY <1>1, <1>3, <2>1, <2>2, <3>2 DEF keyboard, pool
  <2> QED BY <1>5, <2>3, <2>4 DEF PressButton
<1>6. ASSUME NEW b \in Buttons, ReleaseButton(b) PROVE MirrorInv'
  <2>1. /\ Packet("mouse") /\ UNCHANGED <<keyboard, running, task>>
        /\ mouse_press' = mouse_press \ {b}
    BY <1>6 DEF ReleaseButton
  <2>2. CASE /\ os' = [os EXCEPT !.buttons = @ \ {b}] /\ UNCHANGED <<timeout, timers>>
    <3>1. os'.buttons = os.buttons \ {b} /\ os'.keys = os.keys
      BY <1>0, <2>2 DEF TypeOK
    <3>2. Buttoned
      BY <1>0, <1>3, <2>1, <3>1 DEF Mirrored
    <3> QED BY <1>1, <1>3, <2>1, <2>2, <3>1, <3>2 DEF keyboard
  <2>3. CASE /\ b = "LEFT" /\ UNCHANGED os
             /\ \E a \in Addr : timers' = Delayed(timers, a, Release(session))
    <3>1. Buttoned
      BY <1>0, <1>3, <2>1, <2>3 DEF Mirrored
    <3>2. ASSUME NEW c \in Addr, Repeating(c)' PROVE timers'[c] = timers[c]
      BY <1>0, <2>3, <3>2, TimerKinds DEF Repeating, Delayed, TypeOK
    <3> QED BY <1>1, <1>3, <2>1, <2>3, <3>1, <3>2 DEF keyboard
  <2> QED BY <1>6, <2>2, <2>3 DEF ReleaseButton
<1>7. ASSUME NEW k \in Key, NEW asks \in BOOLEAN, PressKey(k, asks) PROVE MirrorInv'
  <2> DEFINE synthetic == k \notin Shifts /\ asks /\ ~ shift
  <2>1. PICK a \in Addr : /\ repeat_id' = a
                          /\ timers' = Delayed(CancelRepeat, a, Repeat(k, synthetic))
    BY <1>7 DEF PressKey
  <2>2. /\ CancelRepeat \in [Addr -> Timer \cup {NoTask}]
        /\ \A b \in Addr : CancelRepeat[b] = IF b = repeat_id THEN NoTask ELSE timers[b]
    BY <1>0, WithoutType DEF TypeOK, CancelRepeat
  <2>3. /\ Packet("keyboard") /\ running = NoTask /\ UNCHANGED <<mouse, crossed, running, task>>
        /\ key_press' = key_press \cup {k}
        /\ shift' = (shift \/ k \in Shifts)
    BY <1>7 DEF PressKey, Packet, Plain
  <2>4. os'.buttons = os.buttons /\ KeysHeld'
    <3>1. os' = Pressed(k, synthetic) /\ KeyMap[k] = k
      BY <1>7 DEF PressKey, Plain
    <3>2. synthetic => crossed \/ Shift \notin key_press'
      BY <1>0, <2>3, KeyAssumption DEF Flagged
    <3> HIDE DEF synthetic
    <3>3. os'.buttons = os.buttons
          /\ os'.keys = (os.keys \cup {k}) \ (IF synthetic THEN {Shift} ELSE {})
      BY <1>0, <3>1 DEF Pressed, TypeOK
    <3> QED BY <1>0, <2>3, <3>2, <3>3 DEF Mirrored, KeysHeld
  <2>5. \A b \in Addr : b # a => Apart(timers[b])' /\ ~ Repeating(b)'
    <3> SUFFICES ASSUME NEW b \in Addr, b # a PROVE Apart(timers[b])' /\ ~ Repeating(b)'
      OBVIOUS
    <3> HIDE DEF synthetic
    <3>1. timers'[b] = CancelRepeat[b]
      BY <2>1, <2>2 DEF Delayed
    <3> QED BY <1>0, <2>2, <3>1 DEF Apart, RepeatKnown, Repeating
  <2>6. Apart(timers[a])'
    <3>1. synthetic \in BOOLEAN
      OBVIOUS
    <3>2. synthetic => crossed' \/ Shift \notin key_press'
      BY <1>0, <2>3, KeyAssumption DEF Flagged
    <3> HIDE DEF synthetic
    <3>3. timers'[a] = Repeat(k, synthetic)
      BY <2>1, <2>2 DEF Delayed
    <3> QED BY <3>1, <3>2, <3>3, TimerKinds DEF Apart
  <2>7. Synthetic'
    BY <2>3, <2>5, <2>6 DEF Synthetic, Apart
  <2>8. Flagged' /\ Mirrored'
    BY <1>0, <1>3, <2>3, <2>4 DEF Flagged, Mirrored, KeysHeld, mouse
  <2> QED BY <1>0, <2>7, <2>8 DEF MirrorInv
<1>8. ASSUME NEW k \in Key, ReleaseKey(k) PROVE MirrorInv'
  <2>1. /\ Packet("keyboard") /\ UNCHANGED <<mouse, repeat_id, pool>>
        /\ key_press' = key_press \ {k}
        /\ os' = [os EXCEPT !.keys = @ \ {k}]
        /\ shift' = (shift /\ k \notin Shifts)
        /\ crossed' = (key_press' \cap Shifts # {} /\ (crossed \/ k \in Shifts))
    BY <1>8 DEF ReleaseKey, Plain
  <2>2. os'.buttons = os.buttons /\ os'.keys = os.keys \ {k}
    BY <1>0, <2>1 DEF TypeOK
  <2>3. Synthetic'
    BY <1>0, <2>1, KeyAssumption DEF Synthetic, Apart, pool
  <2>4. Flagged' /\ Mirrored'
    BY <1>0, <1>3, <2>1, <2>2, KeyAssumption DEF Flagged, Mirrored, mouse
  <2> QED BY <1>0, <2>3, <2>4 DEF MirrorInv
<1>9. ASSUME NEW a \in Addr, TakeTimer(a) PROVE MirrorInv'
  <2>1. /\ running' = timers[a] /\ UNCHANGED <<client, mouse, keyboard, os>>
        /\ timers' = [timers EXCEPT ![a] = NoTask]
    BY <1>9 DEF TakeTimer
  <2>2. \A b \in Addr : Repeating(b)' => timers'[b] = timers[b]
    BY <1>0, <2>1 DEF Repeating, TypeOK
  <2> QED BY <1>1, <1>2, <2>1, <2>2 DEF client, mouse, keyboard
<1>10. ASSUME RunRelease PROVE MirrorInv'
  <2>1. running' = NoTask /\ UNCHANGED <<client, mouse_press, keyboard, timers>>
    BY <1>10 DEF RunRelease, Done
  <2>2. CASE UNCHANGED os
    BY <1>1, <1>2, <2>1, <2>2 DEF client, keyboard
  <2>3. CASE "LEFT" \notin mouse_press /\ os' = [os EXCEPT !.buttons = @ \ {"LEFT"}]
    <3>1. os'.buttons = os.buttons \ {"LEFT"} /\ os'.keys = os.keys
      BY <1>0, <2>3 DEF TypeOK
    <3>2. Buttoned
      BY <1>0, <2>1, <2>3, <3>1 DEF Mirrored, Flagged, client
    <3> QED BY <1>1, <2>1, <3>1, <3>2 DEF client, keyboard
  <2> QED BY <1>10, <2>2, <2>3 DEF RunRelease
<1>11. ASSUME RunRepeat PROVE MirrorInv'
  <2>1. /\ running # NoTask /\ running.kind = "repeat" /\ running' = NoTask
        /\ UNCHANGED <<client, mouse, key_press, shift, crossed>>
    BY <1>11 DEF RunRepeat, Done
  <2>2. CASE UNCHANGED <<os, timers>>
    BY <1>1, <1>2, <2>1, <2>2 DEF client, mouse
  <2>3. CASE /\ running.key \in key_press
             /\ os' = Pressed(running.key, running.synthetic)
             /\ \E a \in Addr : timers' = Delayed(timers, a, running)
    <3>1. running.synthetic \in BOOLEAN /\ running.key \in Key
      BY <1>0, <2>1, RepeatFields DEF TypeOK
    <3>2. running.synthetic => crossed \/ Shift \notin key_press
      BY <1>0, <2>1 DEF Synthetic, Apart
    <3>3. os'.buttons = os.buttons
          /\ os'.keys = (os.keys \cup {running.key})
                            \ (IF running.synthetic THEN {Shift} ELSE {})
      BY <1>0, <2>3, <3>1 DEF Pressed, TypeOK, Plain
    <3>4. KeysHeld'
      BY <1>0, <2>1, <2>3, <3>1, <3>2, <3>3 DEF Mirrored, KeysHeld
    <3>5. \A b \in Addr : timers'[b] \in {timers[b], running}
      BY <1>0, <2>3 DEF Delayed, TypeOK
    <3>6. Synthetic'
      BY <1>0, <2>1, <3>5 DEF Synthetic, Apart
    <3>7. Flagged' /\ Mirrored'
      BY <1>0, <2>1, <3>3, <3>4 DEF Flagged, Mirrored, KeysHeld, client, mouse
    <3> QED BY <1>0, <3>6, <3>7 DEF MirrorInv
  <2> QED BY <1>11, <2>2, <2>3 DEF RunRepeat
<1>12. ASSUME Reset PROVE MirrorInv'
  <2>1. phase' = "cancelled" /\ UNCHANGED <<mouse, keyboard, running, os>>
    BY <1>12 DEF Reset
  <2>2. \A b \in Addr : timers'[b] \in {NoTask, timers[b]}
    BY <1>0, <1>12 DEF Reset
  <2> QED BY <1>1, <1>2, <2>1, <2>2 DEF mouse, keyboard, Repeating
<1>13. ASSUME PushResetTask PROVE MirrorInv'
  BY <1>1, <1>2, <1>13 DEF PushResetTask, mouse, keyboard, pool
<1>14. ASSUME ResetTask PROVE MirrorInv'
  <2>1. /\ os'.buttons = os.buttons \ mouse_press /\ os'.keys = os.keys \ key_press
        /\ mouse_press' = {} /\ key_press' = {} /\ crossed' = FALSE /\ UNCHANGED pool
    BY <1>14 DEF ResetTask
  <2> QED BY <1>0, <2>1 DEF MirrorInv, Synthetic, Apart, Flagged, Mirrored
<1>15. ASSUME Alloc PROVE MirrorInv'
  <2>1. phase = "ended" /\ phase' = "live" /\ shift' = FALSE
        /\ UNCHANGED <<mouse_press, key_press, crossed, pool, os>>
    BY <1>15 DEF Alloc
  <2> QED BY <1>0, <2>1 DEF MirrorInv, Synthetic, Apart, Flagged, Mirrored, pool
<1>16. ASSUME UNCHANGED vars PROVE MirrorInv'
  BY <1>1, <1>2, <1>16 DEF vars, client, mouse, keyboard, pool
<1>17. ASSUME PadStep PROVE MirrorInv'
  <2>1. PadFrame
    BY <1>0, <1>17, PadSteps
  <2>2. os'.keys = os.keys /\ os'.buttons = os.buttons
    BY <2>1 DEF PadFrame
  <2>3. Buttoned
    BY <1>0, <2>1, <2>2 DEF PadFrame, Mirrored, Flagged, client, mouse
  <2>4. \A a \in Addr : Repeating(a)' => timers'[a] = timers[a]
    BY <1>0, <2>1, TimerKinds DEF PadFrame, Repeating, TypeOK
  <2> QED BY <1>1, <2>1, <2>2, <2>3, <2>4 DEF PadFrame, client, keyboard
<1> QED BY <1>4, <1>5, <1>6, <1>7, <1>8, <1>9, <1>10, <1>11, <1>12, <1>13, <1>14, <1>15,
           <1>16, <1>17 DEF Next, Worker, PadStep

\* Without keybindings the OS holds down the keys the client holds down, but for
\* the left Shift once one of two was released, and of the buttons at most the
\* left one for longer, whatever timers and sessions do in between (input.cpp:588,
\* 637, 755, 1604).
THEOREM HeldAsClient == Plain /\ Spec => []Mirrored
<1>1. Init => MirrorInv
  BY InitType
     DEF Init, MirrorInv, RepeatInv, RepeatKnown, Repeating, Alone, Synthetic, Apart,
         Flagged, Mirrored
<1> SUFFICES ASSUME Plain PROVE Spec => []Mirrored
  OBVIOUS
<1>2. MirrorInv /\ [Next]_vars => MirrorInv'
  BY StepMirror
<1>3. MirrorInv => Mirrored
  BY DEF MirrorInv
<1> QED BY <1>1, <1>2, <1>3, PTL DEF Spec


\* Nothing is pressed once reset() is done, as far as this client goes.
AtRest == phase = "ended" => key_press = {} /\ mouse_press = {}

\* No repetition, put-off release or gamepad that is left over presses anything.
PressesNothing ==
    phase = "ended" /\ phase' = "ended" =>
        /\ os'.keys \subseteq os.keys
        /\ os'.buttons \subseteq os.buttons
        /\ os'.back \subseteq os.back

LEMMA StepRest == AtRest /\ [Next]_vars => AtRest'
<1> SUFFICES ASSUME AtRest, [Next]_vars, phase' = "ended"
             PROVE  key_press' = {} /\ mouse_press' = {}
  BY DEF AtRest
<1>1. CASE ResetTask
  BY <1>1 DEF ResetTask
<1>2. CASE UNCHANGED vars
  BY <1>2 DEF vars, client, mouse, keyboard, AtRest
<1>3. CASE Worker \/ \E s \in 1 .. MaxSessions : Destroy(s)
  BY <1>3
  DEF Worker, TakeTimer, RunRelease, RunRepeat, RunBack, FreeGamepad, Destroy,
      client, mouse, keyboard, AtRest
<1>4. CASE Reset \/ PushResetTask \/ Alloc
  BY <1>4 DEF Reset, PushResetTask, Alloc
<1>5. ASSUME NEW device, Packet(device)
      PROVE  FALSE
  BY <1>5 DEF Packet, client
<1> QED
  BY <1>1, <1>2, <1>3, <1>4, <1>5
  DEF Next, MoveRel, MoveAbs, PressButton, ReleaseButton, PressKey, ReleaseKey, Arrival, Removal, State

\* Once the task of reset() has run, and until the next session, no step presses a
\* key, a button or BACK, whatever timers, gamepads and addresses the session
\* left behind ("avoid stuck repeated keys", stream.cpp:1919).
THEOREM QuietAfterReset == Spec => [][PressesNothing]_vars
<1>1. TypeOK /\ AtRest /\ [Next]_vars => [PressesNothing]_vars
  <2> SUFFICES ASSUME TypeOK, AtRest, Next, phase = "ended", phase' = "ended"
               PROVE  /\ os'.keys \subseteq os.keys
                      /\ os'.buttons \subseteq os.buttons
                      /\ os'.back \subseteq os.back
    BY DEF PressesNothing
  <2>1. os = [buttons |-> os.buttons, keys |-> os.keys, back |-> os.back]
    BY DEF TypeOK
  <2>2. CASE RunRelease \/ RunBack \/ FreeGamepad
    BY <2>1, <2>2 DEF RunRelease, RunBack, FreeGamepad, FreeId
  <2>3. CASE RunRepeat
    BY <2>3 DEF RunRepeat, AtRest
  <2>4. CASE (\E a \in Addr : TakeTimer(a)) \/ \E s \in 1 .. MaxSessions : Destroy(s)
    BY <2>4 DEF TakeTimer, Destroy
  <2>5. ~Reset /\ ~PushResetTask /\ ~ResetTask /\ ~Alloc
    BY DEF Reset, PushResetTask, ResetTask, Alloc
  <2>6. ASSUME NEW device, Packet(device)
        PROVE  FALSE
    BY <2>6 DEF Packet
  <2> QED
    BY <2>2, <2>3, <2>4, <2>5, <2>6
    DEF Next, Worker, MoveRel, MoveAbs, PressButton, ReleaseButton, PressKey, ReleaseKey,
        Arrival, Removal, State
<1>2. Init => AtRest
  BY DEF Init, AtRest
<1> QED
  BY <1>1, <1>2, StepRest, Typed, PTL DEF Spec

-----------------------------------------------------------------------------
(* InputQueue: the line of the packets, and the tasks that take them.      *)

\* Of a line and all that was received: every item stands for packets like its
\* own.
Standing(line, all) ==
    \A i \in 1 .. Len(line) :
        /\ line[i].from \subseteq 1 .. Len(all)
        /\ \A a \in line[i].from : Alike(all[a], line[i].packet)

\* Every packet is in the line,
Everyone(line, all) ==
    \A n \in 1 .. Len(all) : \E i \in 1 .. Len(line) : n \in line[i].from

\* and once only,
Once(line) ==
    \A i, j \in 1 .. Len(line) : i # j => line[i].from \cap line[j].from = {}

\* behind those that it must not pass.
InOrder(line, all) ==
    \A i, j \in 1 .. Len(line) : \A b \in line[i].from, a \in line[j].from :
        i < j /\ a < b => MayPass(all[b], all[a])

Sound(line, all) ==
    Standing(line, all) /\ Everyone(line, all) /\ Once(line) /\ InOrder(line, all)

\* The packets the iterator has left behind let the batch pass.
PassedOver ==
    pc = "batch" => /\ at \in 1 .. Len(queue) + 1
                    /\ \A i \in 1 .. at - 1 : MayPass(entry.packet, queue[i].packet)

LineInv == QueueTypeOK /\ Sound(Line, received) /\ PassedOver

\* No entry waits without a task that will take it.
NoneStranded == Len(queue) <= tasks + IF pushing THEN 1 ELSE 0

-----------------------------------------------------------------------------
(* Packets: which verdicts batch them, and what may pass what.             *)

LEMMA AlikeFields ==
    ASSUME NEW p, NEW q, Alike(p, q)
    PROVE  /\ p.kind = q.kind
           /\ p.kind = "pad" => p.pad = q.pad /\ p.mask = q.mask
           /\ p.kind = "touch" => p.pointer = q.pointer /\ p.event = q.event
           /\ p.kind = "padTouch" => p.pad = q.pad /\ p.pointer = q.pointer /\ p.event = q.event
           /\ p.kind = "motion" => p.pad = q.pad /\ p.sensor = q.sensor
  BY DEF Alike, Track, Mode

LEMMA AlikeAgain ==
    ASSUME NEW p, NEW q, NEW r, Alike(p, q)
    PROVE  /\ Alike(q, p) /\ Alike(p, p)
           /\ Alike(q, r) => Alike(p, r)
  BY DEF Alike

\* What may pass what depends on nothing a batch could change.
LEMMA AlikePass ==
    ASSUME NEW p, NEW q, NEW p2, NEW q2, Alike(p, p2), Alike(q, q2), MayPass(p, q)
    PROVE  MayPass(p2, q2)
<1>1. /\ p.kind = p2.kind /\ q.kind = q2.kind
      /\ Track(p) = Track(p2) /\ Track(q) = Track(q2)
  BY DEF Alike
<1>2. p.kind = q.kind /\ p.kind \in {"pad", "touch", "padTouch", "motion"}
      /\ Track(p) # Track(q)
  BY DEF MayPass
<1>3. CASE p.kind = "pad"
  BY <1>1, <1>2, <1>3, AlikeFields DEF MayPass
<1>4. CASE p.kind = "touch"
  BY <1>1, <1>2, <1>4, AlikeFields DEF MayPass, Moving
<1>5. CASE p.kind = "padTouch"
  BY <1>1, <1>2, <1>5, AlikeFields DEF MayPass, Moving
<1>6. CASE p.kind = "motion"
  BY <1>1, <1>2, <1>6 DEF MayPass
<1> QED
  BY <1>2, <1>3, <1>4, <1>5, <1>6

\* batch() skips what may be passed, and batches what is alike.
LEMMA SkipMayPass ==
    ASSUME NEW d, NEW s, Verdict(d, s) = "skip"
    PROVE  MayPass(d, s)
<1>1. d.kind = s.kind
  BY DEF Verdict
<1>2. CASE d.kind = "pad"
  BY <1>1, <1>2 DEF Verdict, PadVerdict, MayPass, Track, Relative
<1>3. CASE d.kind = "touch"
  BY <1>1, <1>3 DEF Verdict, TouchVerdict, MayPass, Track, Relative
<1>4. CASE d.kind = "padTouch"
  BY <1>1, <1>4 DEF Verdict, PadTouchVerdict, TouchVerdict, MayPass, Track, Relative
<1>5. CASE d.kind = "motion"
  BY <1>1, <1>5 DEF Verdict, MotionVerdict, MayPass, Track, Relative
<1>6. CASE d.kind \notin {"pad", "touch", "padTouch", "motion"}
  BY <1>1, <1>6 DEF Verdict, MoveVerdict, AbsVerdict, PenVerdict, Relative
<1> QED
  BY <1>2, <1>3, <1>4, <1>5, <1>6

LEMMA BatchedAlike ==
    ASSUME NEW d, NEW s, Verdict(d, s) = "batched"
    PROVE  Alike(d, s)
<1>1. d.kind = s.kind
  BY DEF Verdict
<1>2. CASE d.kind \in Relative
  BY <1>1, <1>2 DEF Alike, Track, Mode, Relative
<1>3. CASE d.kind = "abs"
  BY <1>1, <1>3 DEF Verdict, AbsVerdict, Alike, Track, Mode, Relative
<1>4. CASE d.kind = "pad"
  BY <1>1, <1>4 DEF Verdict, PadVerdict, Alike, Track, Mode, Relative
<1>5. CASE d.kind = "touch"
  BY <1>1, <1>5 DEF Verdict, TouchVerdict, Alike, Track, Mode, Relative
<1>6. CASE d.kind = "pen"
  BY <1>1, <1>6 DEF Verdict, PenVerdict, Alike, Track, Mode, Relative
<1>7. CASE d.kind = "padTouch"
  BY <1>1, <1>7 DEF Verdict, PadTouchVerdict, TouchVerdict, Alike, Track, Mode, Relative
<1>8. CASE d.kind = "motion"
  BY <1>1, <1>8 DEF Verdict, MotionVerdict, Alike, Track, Mode, Relative
<1>9. d.kind \in Relative \/ d.kind \in {"abs", "pad", "touch", "pen", "padTouch", "motion"}
  BY <1>1 DEF Verdict, Relative
<1> QED
  BY <1>2, <1>3, <1>4, <1>5, <1>6, <1>7, <1>8, <1>9

LEMMA HalfNumber == Half \in Nat /\ 2 * Half \in Nat \ {0}
  BY DEF Half

LEMMA WrapRange ==
    ASSUME NEW v \in Int
    PROVE  Wrap(v) \in Int16 /\ Int16 \subseteq Int
<1>1. (v + Half) % (2 * Half) \in 0 .. 2 * Half - 1
  BY HalfNumber
<1> QED
  BY <1>1, HalfNumber DEF Wrap, Int16

\* What two packets of one kind are batched into is a packet of that kind.
LEMMA MergeKind ==
    ASSUME QueueTypeOK,
           NEW d \in kinds \cup Motion, NEW s \in kinds \cup Motion, d.kind = s.kind
    PROVE  Merge(d, s) \in kinds \cup Motion /\ Merge(d, s).kind = d.kind
<1>1. CASE d.kind \notin Relative
  BY <1>1 DEF Merge
<1>2. CASE d.kind \in Relative
  <2>1. d \in Motion /\ s \in Motion
    BY <1>2, MotionAssumption DEF QueueTypeOK
  <2>2. \A v \in Int : Wrap(v) \in Int16
    BY WrapRange
  <2>3. CASE d.kind = "move"
    <3>1. d.delta \in [{"x", "y"} -> Int16] /\ s.delta \in [{"x", "y"} -> Int16]
      BY <2>1, <2>3 DEF Motion
    <3>2. DOMAIN d.delta = {"x", "y"}
      BY <3>1
    <3>3. \A axis \in {"x", "y"} : Sum(d, s)[axis] \in Int
      <4>1. \A axis \in {"x", "y"} : d.delta[axis] \in Int /\ s.delta[axis] \in Int
        BY <3>1, WrapRange
      <4> QED
        BY <3>2, <4>1 DEF Sum
    <3>4. [axis \in DOMAIN d.delta |-> Wrap(Sum(d, s)[axis])] \in [{"x", "y"} -> Int16]
      BY <2>2, <3>2, <3>3
    <3> QED
      BY <1>2, <2>1, <2>3, <3>4 DEF Merge, Motion
  <2>4. CASE d.kind \in {"scroll", "hscroll"}
    <3>1. d.delta \in [{"amount"} -> Int16] /\ s.delta \in [{"amount"} -> Int16]
      BY <2>1, <2>4 DEF Motion
    <3>2. DOMAIN d.delta = {"amount"}
      BY <3>1
    <3>3. \A axis \in {"amount"} : Sum(d, s)[axis] \in Int
      <4>1. \A axis \in {"amount"} : d.delta[axis] \in Int /\ s.delta[axis] \in Int
        BY <3>1, WrapRange
      <4> QED
        BY <3>2, <4>1 DEF Sum
    <3>4. [axis \in DOMAIN d.delta |-> Wrap(Sum(d, s)[axis])] \in [{"amount"} -> Int16]
      BY <2>2, <3>2, <3>3
    <3> QED
      BY <1>2, <2>1, <2>4, <3>4 DEF Merge, Motion
  <2> QED
    BY <1>2, <2>3, <2>4 DEF Relative
<1> QED
  BY <1>1, <1>2

LEMMA MergeAlike ==
    ASSUME QueueTypeOK,
           NEW d \in kinds \cup Motion, NEW s \in kinds \cup Motion,
           Verdict(d, s) = "batched"
    PROVE  Alike(Merge(d, s), d) /\ Alike(Merge(d, s), s)
<1>1. Alike(d, s) /\ d.kind = s.kind
  BY BatchedAlike DEF Alike
<1>2. CASE d.kind \in Relative
  BY <1>1, <1>2, MergeKind DEF Alike, Track, Mode, Relative
<1>3. CASE d.kind \notin Relative
  BY <1>1, <1>3 DEF Merge, Alike
<1> QED
  BY <1>2, <1>3

-----------------------------------------------------------------------------
(* Lines.  A packet is received and joins the end of the line.             *)

Joins(line, line2, all, all2) ==
    /\ Len(line2) = Len(line) + 1
    /\ \A i \in 1 .. Len(line) : line2[i] = line[i]
    /\ Len(all2) = Len(all) + 1
    /\ \A i \in 1 .. Len(all) : all2[i] = all[i]
    /\ line2[Len(line) + 1] = Item(all2[Len(all) + 1], {Len(all) + 1})

LEMMA JoinSound ==
    ASSUME NEW line, NEW line2, NEW all, NEW all2, Len(line) \in Nat, Len(all) \in Nat,
           Sound(line, all), Joins(line, line2, all, all2)
    PROVE  Sound(line2, all2)
<1> DEFINE new == Len(all) + 1
<1>n. PICK n \in Nat : n = Len(line)
  OBVIOUS
<1>p. PICK p : p = all2[Len(all) + 1]
  OBVIOUS
<1>j. /\ Len(line2) = n + 1 /\ \A i \in 1 .. n : line2[i] = line[i]
      /\ line2[n + 1] = Item(p, {Len(all) + 1})
      /\ Len(all2) = Len(all) + 1 /\ \A i \in 1 .. Len(all) : all2[i] = all[i]
  BY <1>n, <1>p DEF Joins
<1> USE <1>n, <1>p, <1>j
<1>1. line2[n + 1].packet = p /\ line2[n + 1].from = {new}
  BY DEF Item
<1>2. \A i \in 1 .. n : line2[i].from \subseteq 1 .. Len(all)
  BY DEF Sound, Standing
<1>3. Standing(line2, all2)
  <2> SUFFICES ASSUME NEW i \in 1 .. n + 1
               PROVE  /\ line2[i].from \subseteq 1 .. Len(all2)
                      /\ \A a \in line2[i].from : Alike(all2[a], line2[i].packet)
    BY DEF Standing
  <2>1. CASE i \in 1 .. n
    <3>1. line2[i] = line[i] /\ line[i].from \subseteq 1 .. Len(all)
      BY <1>2, <2>1
    <3>2. \A a \in line[i].from : Alike(all[a], line[i].packet)
      BY <2>1 DEF Sound, Standing
    <3> QED
      BY <3>1, <3>2
  <2>2. CASE i = n + 1
    <3>1. new \in 1 .. Len(all2) /\ all2[new] = p
      OBVIOUS
    <3> QED
      BY <1>1, <2>2, <3>1 DEF Alike
  <2> QED
    BY <2>1, <2>2
<1>4. Everyone(line2, all2)
  <2> SUFFICES ASSUME NEW b \in 1 .. new
               PROVE  \E i \in 1 .. n + 1 : b \in line2[i].from
    BY DEF Everyone
  <2>1. CASE b \in 1 .. Len(all)
    <3>1. PICK i \in 1 .. n : b \in line[i].from
      BY <2>1 DEF Sound, Everyone
    <3> QED
      BY <3>1
  <2>2. CASE b = new
    <3>1. n + 1 \in 1 .. n + 1
      OBVIOUS
    <3> QED
      BY <1>1, <2>2, <3>1
  <2> QED
    BY <2>1, <2>2
<1>5. Once(line2)
  <2> SUFFICES ASSUME NEW i \in 1 .. n + 1, NEW j \in 1 .. n + 1, i # j
               PROVE  line2[i].from \cap line2[j].from = {}
    BY DEF Once
  <2>1. CASE i \in 1 .. n /\ j \in 1 .. n
    BY <2>1 DEF Sound, Once
  <2>2. CASE i = n + 1 /\ j \in 1 .. n
    <3>1. new \notin line2[j].from
      BY <1>2, <2>2
    <3> QED
      BY <1>1, <2>2, <3>1
  <2>3. CASE j = n + 1 /\ i \in 1 .. n
    <3>1. new \notin line2[i].from
      BY <1>2, <2>3
    <3> QED
      BY <1>1, <2>3, <3>1
  <2> QED
    BY <2>1, <2>2, <2>3
<1>6. InOrder(line2, all2)
  <2> SUFFICES ASSUME NEW i \in 1 .. n + 1, NEW j \in 1 .. n + 1,
                      NEW b \in line2[i].from, NEW a \in line2[j].from, i < j, a < b
               PROVE  MayPass(all2[b], all2[a])
    BY DEF InOrder
  <2>1. i \in 1 .. n /\ b \in 1 .. Len(all)
    BY <1>2
  <2>2. j \in 1 .. n
    <3> SUFFICES ASSUME j = n + 1 PROVE FALSE
      OBVIOUS
    <3>1. a = Len(all) + 1
      BY <1>1
    <3> QED
      BY <2>1, <3>1
  <2>3. a \in 1 .. Len(all)
    BY <1>2, <2>2
  <2> QED
    BY <2>1, <2>2, <2>3 DEF Sound, InOrder
<1> QED
  BY <1>3, <1>4, <1>5, <1>6 DEF Sound

\* The m-th item of the line is batched into the k-th, which may pass those in
\* between.
Batches(line, line2, k, m) ==
    /\ Len(line2) = Len(line) - 1
    /\ k \in 1 .. Len(line) /\ m \in k + 1 .. Len(line)
    /\ line2[k].from = line[k].from \cup line[m].from
    /\ Alike(line2[k].packet, line[k].packet) /\ Alike(line2[k].packet, line[m].packet)
    /\ \A i \in k + 1 .. m - 1 : MayPass(line[k].packet, line[i].packet)
    /\ \A i \in 1 .. m - 1 : i # k => line2[i] = line[i]
    /\ \A i \in m .. Len(line) - 1 : line2[i] = line[i + 1]

LEMMA BatchSound ==
    ASSUME NEW line, NEW line2, NEW all, Len(line) \in Nat, Len(all) \in Nat,
           NEW k, NEW m, Sound(line, all), Batches(line, line2, k, m)
    PROVE  Sound(line2, all)
<1>n. PICK n \in Nat : n = Len(line)
  OBVIOUS
<1>p. PICK p : p = line2[k].packet
  OBVIOUS
<1>b. /\ Len(line2) = n - 1 /\ k \in 1 .. n /\ m \in k + 1 .. n
      /\ Alike(p, line[k].packet) /\ Alike(p, line[m].packet)
      /\ \A i \in k + 1 .. m - 1 : MayPass(line[k].packet, line[i].packet)
      /\ \A i \in 1 .. m - 1 : i # k => line2[i] = line[i]
      /\ \A i \in m .. n - 1 : line2[i] = line[i + 1]
  BY <1>n, <1>p DEF Batches
<1> DEFINE Was(i) == IF i < m THEN i ELSE i + 1
<1>1. line2[k].packet = p /\ line2[k].from = line[k].from \cup line[m].from
  BY <1>p DEF Batches
<1> USE <1>n, <1>b
<1>2. \A i \in 1 .. n - 1 : /\ Was(i) \in 1 .. n /\ Was(i) # m
                            /\ i = k <=> Was(i) = k
                            /\ i # k => line2[i] = line[Was(i)]
  OBVIOUS
<1>3. \A i, j \in 1 .. n - 1 : i < j <=> Was(i) < Was(j)
  OBVIOUS
<1>4. \A i, j \in 1 .. n - 1 : i # j => Was(i) # Was(j)
  OBVIOUS
<1> HIDE DEF Was
<1>5. Standing(line2, all)
  <2> SUFFICES ASSUME NEW i \in 1 .. n - 1
               PROVE  /\ line2[i].from \subseteq 1 .. Len(all)
                      /\ \A a \in line2[i].from : Alike(all[a], line2[i].packet)
    BY DEF Standing
  <2>1. CASE i # k
    BY <1>2, <2>1 DEF Sound, Standing
  <2>2. CASE i = k
    <3>1. line[k].from \subseteq 1 .. Len(all) /\ line[m].from \subseteq 1 .. Len(all)
      BY DEF Sound, Standing
    <3>2. \A a \in line[k].from : Alike(all[a], p)
      BY AlikeAgain DEF Sound, Standing
    <3>3. \A a \in line[m].from : Alike(all[a], p)
      BY AlikeAgain DEF Sound, Standing
    <3> QED
      BY <1>1, <2>2, <3>1, <3>2, <3>3
  <2> QED
    BY <2>1, <2>2
<1>6. Everyone(line2, all)
  <2> SUFFICES ASSUME NEW b \in 1 .. Len(all)
               PROVE  \E i \in 1 .. n - 1 : b \in line2[i].from
    BY DEF Everyone
  <2>1. PICK i \in 1 .. n : b \in line[i].from
    BY DEF Sound, Everyone
  <2>2. CASE i = m \/ i = k
    <3>1. k \in 1 .. n - 1
      OBVIOUS
    <3>2. b \in line[k].from \/ b \in line[m].from
      BY <2>1, <2>2
    <3> QED
      BY <1>1, <3>1, <3>2
  <2>3. CASE i < m /\ i # k
    BY <2>1, <2>3
  <2>4. CASE i > m
    <3>1. i - 1 \in m .. n - 1 /\ i - 1 \in 1 .. n - 1 /\ (i - 1) + 1 = i
      BY <2>4
    <3>2. line2[i - 1] = line[i]
      BY <3>1
    <3> QED
      BY <2>1, <3>1, <3>2
  <2> QED
    BY <2>2, <2>3, <2>4
<1>7. Once(line2)
  <2> SUFFICES ASSUME NEW i \in 1 .. n - 1, NEW j \in 1 .. n - 1, i # j
               PROVE  line2[i].from \cap line2[j].from = {}
    BY DEF Once
  <2>1. CASE i # k /\ j # k
    <3>1. /\ Was(i) \in 1 .. n /\ Was(j) \in 1 .. n /\ Was(i) # Was(j)
          /\ line2[i] = line[Was(i)] /\ line2[j] = line[Was(j)]
      BY <1>2, <1>4, <2>1
    <3> QED
      BY <3>1 DEF Sound, Once
  <2>2. CASE i = k
    <3>1. line[k].from \cap line[Was(j)].from = {} /\ line[m].from \cap line[Was(j)].from = {}
      BY <1>2, <2>2 DEF Sound, Once
    <3> QED
      BY <1>1, <1>2, <2>2, <3>1
  <2>3. CASE j = k
    <3>1. line[k].from \cap line[Was(i)].from = {} /\ line[m].from \cap line[Was(i)].from = {}
      BY <1>2, <2>3 DEF Sound, Once
    <3> QED
      BY <1>1, <1>2, <2>3, <3>1
  <2> QED
    BY <2>1, <2>2, <2>3
<1>8. InOrder(line2, all)
  <2> SUFFICES ASSUME NEW i \in 1 .. n - 1, NEW j \in 1 .. n - 1,
                      NEW b \in line2[i].from, NEW a \in line2[j].from, i < j, a < b
               PROVE  MayPass(all[b], all[a])
    BY DEF InOrder
  <2>1. CASE i # k /\ j # k
    BY <1>2, <1>3, <2>1 DEF Sound, InOrder
  <2>2. CASE i = k /\ b \in line[k].from
    BY <1>2, <1>3, <2>2 DEF Sound, InOrder
  <2>3. CASE i = k /\ b \in line[m].from
    <3>1. Was(j) \in 1 .. n /\ line2[j] = line[Was(j)] /\ Was(j) > k /\ Was(j) # m
      BY <1>2, <1>3, <2>3
    <3>2. CASE Was(j) > m
      BY <2>3, <3>1, <3>2 DEF Sound, InOrder
    <3>3. CASE Was(j) < m
      <4>1. MayPass(line[k].packet, line[Was(j)].packet)
        BY <3>1, <3>3
      <4>2. Alike(line[k].packet, line[m].packet)
        BY AlikeAgain
      <4>3. Alike(all[b], line[m].packet) /\ Alike(all[a], line[Was(j)].packet)
        BY <2>3, <3>1 DEF Sound, Standing
      <4> QED
        BY <4>1, <4>2, <4>3, AlikeAgain, AlikePass
    <3> QED
      BY <3>1, <3>2, <3>3
  <2>4. CASE j = k
    <3>1. Was(i) \in 1 .. n /\ line2[i] = line[Was(i)] /\ Was(i) < k /\ Was(i) < m
      BY <1>2, <1>3, <2>4
    <3>2. a \in line[k].from \/ a \in line[m].from
      BY <1>1, <2>4
    <3> QED
      BY <3>1, <3>2 DEF Sound, InOrder
  <2> QED
    BY <1>1, <2>1, <2>2, <2>3, <2>4
<1> QED
  BY <1>5, <1>6, <1>7, <1>8 DEF Sound

-----------------------------------------------------------------------------
(* The line: what was sent, what is at hand, and what waits.              *)

LEMMA LineItems ==
    ASSUME NEW S, NEW o \in Seq(S), NEW x \in Seq(S), NEW q \in Seq(S)
    PROVE  /\ (o \o x) \o q \in Seq(S)
           /\ Len(o) \in Nat /\ Len(x) \in Nat /\ Len(q) \in Nat
           /\ Len((o \o x) \o q) = Len(o) + Len(x) + Len(q)
           /\ \A i \in 1 .. Len(o) : ((o \o x) \o q)[i] = o[i]
           /\ \A i \in 1 .. Len(x) : ((o \o x) \o q)[Len(o) + i] = x[i]
           /\ \A i \in 1 .. Len(q) : ((o \o x) \o q)[Len(o) + Len(x) + i] = q[i]
<1>1. Len(o) \in Nat /\ Len(x) \in Nat /\ Len(q) \in Nat
  BY LenProperties
<1>2. /\ o \o x \in Seq(S) /\ Len(o \o x) = Len(o) + Len(x)
      /\ \A i \in 1 .. Len(o) + Len(x) :
            (o \o x)[i] = IF i <= Len(o) THEN o[i] ELSE x[i - Len(o)]
  BY ConcatProperties
<1>3. /\ (o \o x) \o q \in Seq(S) /\ Len((o \o x) \o q) = Len(o \o x) + Len(q)
      /\ \A i \in 1 .. Len(o \o x) + Len(q) :
            ((o \o x) \o q)[i] = IF i <= Len(o \o x) THEN (o \o x)[i] ELSE q[i - Len(o \o x)]
  BY <1>2, ConcatProperties
<1>4. \A i \in 1 .. Len(o) : ((o \o x) \o q)[i] = o[i]
  BY <1>1, <1>2, <1>3
<1>5. \A i \in 1 .. Len(x) : ((o \o x) \o q)[Len(o) + i] = x[i]
  <2> SUFFICES ASSUME NEW i \in 1 .. Len(x)
               PROVE  ((o \o x) \o q)[Len(o) + i] = x[i]
    OBVIOUS
  <2>1. /\ Len(o) + i \in 1 .. Len(o) + Len(x) /\ ~ Len(o) + i <= Len(o)
        /\ Len(o) + i - Len(o) = i
    BY <1>1
  <2> QED
    BY <1>1, <1>2, <1>3, <2>1
<1>6. \A i \in 1 .. Len(q) : ((o \o x) \o q)[Len(o) + Len(x) + i] = q[i]
  <2> SUFFICES ASSUME NEW i \in 1 .. Len(q)
               PROVE  ((o \o x) \o q)[Len(o) + Len(x) + i] = q[i]
    OBVIOUS
  <2> DEFINE j == Len(o) + Len(x) + i
  <2>1. /\ j \in 1 .. Len(o) + Len(x) + Len(q) /\ ~ j <= Len(o) + Len(x)
        /\ j - (Len(o) + Len(x)) = i
    BY <1>1
  <2> HIDE DEF j
  <2>2. ((o \o x) \o q)[j] = q[i]
    BY <1>2, <1>3, <2>1
  <2> QED
    BY <2>2 DEF j
<1> QED
  BY <1>1, <1>2, <1>3, <1>4, <1>5, <1>6

LEMMA OneItem ==
    ASSUME NEW S, NEW o \in Seq(S), NEW e \in S, NEW q \in Seq(S)
    PROVE  /\ Len((o \o <<e>>) \o q) = Len(o) + 1 + Len(q)
           /\ \A i \in 1 .. Len(o) : ((o \o <<e>>) \o q)[i] = o[i]
           /\ ((o \o <<e>>) \o q)[Len(o) + 1] = e
           /\ \A i \in 1 .. Len(q) : ((o \o <<e>>) \o q)[Len(o) + 1 + i] = q[i]
<1>1. PICK x : x = <<e>>
  OBVIOUS
<1>s. x \in Seq(S)
  BY <1>1
<1>2. Len(x) = 1 /\ x[1] = e /\ 1 \in 1 .. 1
  BY <1>1
<1>3. /\ Len((o \o x) \o q) = Len(o) + 1 + Len(q)
      /\ \A i \in 1 .. Len(o) : ((o \o x) \o q)[i] = o[i]
      /\ ((o \o x) \o q)[Len(o) + 1] = e
      /\ \A i \in 1 .. Len(q) : ((o \o x) \o q)[Len(o) + 1 + i] = q[i]
  <2>1. /\ Len((o \o x) \o q) = Len(o) + Len(x) + Len(q)
        /\ \A i \in 1 .. Len(o) : ((o \o x) \o q)[i] = o[i]
        /\ \A i \in 1 .. Len(x) : ((o \o x) \o q)[Len(o) + i] = x[i]
        /\ \A i \in 1 .. Len(q) : ((o \o x) \o q)[Len(o) + Len(x) + i] = q[i]
    BY <1>s, LineItems
  <2> QED
    BY <1>2, <2>1
<1> QED
  BY <1>1, <1>3

LEMMA ItemSeq ==
    ASSUME NEW S, NEW e \in S
    PROVE  <<>> \in Seq(S) /\ <<e>> \in Seq(S) /\ Len(<<e>>) = 1 /\ <<e>>[1] = e
OBVIOUS

\* The list without one of its elements.
LEMMA ErasedSeq ==
    ASSUME NEW S, queue \in Seq(S), NEW i \in 1 .. Len(queue)
    PROVE  /\ Erased(i) \in Seq(S) /\ Len(Erased(i)) = Len(queue) - 1
           /\ \A j \in 1 .. Len(queue) - 1 :
                 Erased(i)[j] = IF j < i THEN queue[j] ELSE queue[j + 1]
<1>1. Len(queue) - 1 \in Nat /\ \A j \in 1 .. Len(queue) : queue[j] \in S
  BY LenProperties, ElementOfSeq
<1>2. Erased(i) \in [1 .. Len(queue) - 1 -> S]
  BY <1>1 DEF Erased
<1>3. Erased(i) \in Seq(S) /\ Len(Erased(i)) = Len(queue) - 1
  BY <1>1, <1>2, SeqDef
<1> QED
  BY <1>3 DEF Erased

LEMMA LineInit == QueueInit => LineInv
<1> SUFFICES ASSUME QueueInit PROVE LineInv
  OBVIOUS
<1>1. QueueTypeOK
  BY EmptySeq DEF QueueInit, QueueTypeOK
<1>2. Line = <<>> /\ Len(received) = 0 /\ Len(Line) = 0
  BY DEF QueueInit, Line
<1> QED
  BY <1>1, <1>2 DEF LineInv, QueueInit, PassedOver, Sound, Standing, Everyone, Once, InOrder

LEMMA LineTyped ==
    ASSUME QueueTypeOK
    PROVE  /\ out \in Seq(Items) /\ queue \in Seq(Items)
           /\ Len(queue) \in Nat /\ Len(received) \in Nat /\ Len(out) \in Nat
           /\ (IF pc = "idle" THEN <<>> ELSE <<entry>>) \in Seq(Items)
           /\ Line \in Seq(Items) /\ Len(Line) \in Nat
<1>1. (IF pc = "idle" THEN <<>> ELSE <<entry>>) \in Seq(Items)
  BY DEF QueueTypeOK
<1>2. Line \in Seq(Items)
  BY <1>1, LineItems DEF QueueTypeOK, Line
<1> QED
  BY <1>1, <1>2, LenProperties DEF QueueTypeOK

\* The steps, one by one.
LEMMA ReceiveLine ==
    ASSUME LineInv, NEW p \in kinds, Receive(p)
    PROVE  LineInv'
<1>t. QueueTypeOK
  BY DEF LineInv
<1> DEFINE now == IF pc = "idle" THEN <<>> ELSE <<entry>>
           new == Item(p, {Len(received) + 1})
<1>1. now \in Seq(Items) /\ out \in Seq(Items) /\ queue \in Seq(Items) /\ Len(received) \in Nat
  BY <1>t, LineTyped
<1>2. new \in Items
  BY <1>1 DEF Items, Item
<1>3. /\ queue' = Append(queue, new) /\ received' = Append(received, p)
      /\ UNCHANGED <<kinds, tasks, pc, entry, at, out>> /\ pushing' = TRUE /\ pc # "batch"
  BY DEF Receive
<1>4. /\ received' \in Seq(kinds) /\ Len(received') = Len(received) + 1
      /\ \A i \in 1 .. Len(received) : received'[i] = received[i]
      /\ received'[Len(received) + 1] = p
  BY <1>t, <1>3, AppendProperties DEF QueueTypeOK
<1>5. /\ queue' \in Seq(Items) /\ Len(queue') = Len(queue) + 1
      /\ \A i \in 1 .. Len(queue) : queue'[i] = queue[i]
      /\ queue'[Len(queue) + 1] = new
  BY <1>1, <1>2, <1>3, AppendProperties
<1>6. QueueTypeOK'
  BY <1>t, <1>3, <1>4, <1>5 DEF QueueTypeOK, Items
<1>7. Line = (out \o now) \o queue /\ Line' = (out \o now) \o queue'
  BY <1>3 DEF Line
<1> DEFINE n == Len(out) + Len(now) + Len(queue)
<1> HIDE DEF now, new
<1>8. Len(Line) = n /\ n \in Nat /\ Len(Line') = n + 1
  <2>1. Len(Line) = Len(out) + Len(now) + Len(queue) /\ n \in Nat
    BY <1>1, <1>7, LineItems
  <2>2. Len(Line') = Len(out) + Len(now) + Len(queue')
    BY <1>1, <1>5, <1>7, LineItems
  <2>3. Len(out) \in Nat /\ Len(now) \in Nat /\ Len(queue) \in Nat
    BY <1>1, LenProperties
  <2> QED
    BY <1>5, <2>1, <2>2, <2>3
<1>9. Line'[n + 1] = new
  <2>1. Len(queue) + 1 \in 1 .. Len(queue')
    BY <1>1, <1>5, LenProperties
  <2>2. n + 1 = Len(out) + Len(now) + (Len(queue) + 1)
    BY <1>1, LenProperties
  <2>3. Line'[Len(out) + Len(now) + (Len(queue) + 1)] = queue'[Len(queue) + 1]
    BY <1>1, <1>5, <1>7, <2>1, LineItems
  <2> QED
    BY <1>5, <2>2, <2>3
<1>10. \A i \in 1 .. n : Line'[i] = Line[i]
  <2> SUFFICES ASSUME NEW i \in 1 .. n PROVE Line'[i] = Line[i]
    OBVIOUS
  <2>1. /\ Len(out) \in Nat /\ Len(now) \in Nat /\ Len(queue) \in Nat
        /\ out \o now \in Seq(Items) /\ Len(out \o now) = Len(out) + Len(now)
    BY <1>1, ConcatProperties, LenProperties
  <2>2. Line[i] = IF i <= Len(out) + Len(now) THEN (out \o now)[i]
                  ELSE queue[i - (Len(out) + Len(now))]
    BY <1>1, <1>7, <2>1, ConcatProperties
  <2>3. Line'[i] = IF i <= Len(out) + Len(now) THEN (out \o now)[i]
                   ELSE queue'[i - (Len(out) + Len(now))]
    BY <1>5, <1>7, <2>1, ConcatProperties
  <2>4. i <= Len(out) + Len(now) \/ i - (Len(out) + Len(now)) \in 1 .. Len(queue)
    BY <2>1
  <2> QED
    BY <1>5, <2>2, <2>3, <2>4
<1>11. Sound(Line, received)
  BY DEF LineInv
<1> HIDE DEF n
<1>12. Sound(Line', received')
  <2>1. Joins(Line, Line', received, received')
    BY <1>4, <1>8, <1>9, <1>10 DEF Joins, new
  <2> QED
    BY <1>1, <1>8, <1>11, <2>1, JoinSound
<1>13. PassedOver'
  BY <1>3 DEF PassedOver
<1> QED
  BY <1>6, <1>12, <1>13 DEF LineInv

LEMMA TakeLine ==
    ASSUME LineInv, Take
    PROVE  LineInv'
<1>t. QueueTypeOK /\ Sound(Line, received)
  BY DEF LineInv
<1>1. /\ out \in Seq(Items) /\ queue \in Seq(Items) /\ <<>> \in Seq(Items)
      /\ tasks - 1 \in Nat /\ pc = "idle" /\ tasks' = tasks - 1
      /\ UNCHANGED <<kinds, received, pushing, out>>
  BY <1>t, LineTyped, EmptySeq DEF QueueTypeOK, Take
<1>2. CASE queue = <<>> /\ UNCHANGED <<queue, pc, entry, at>>
  <2>1. Line' = Line
    BY <1>1, <1>2 DEF Line
  <2>2. QueueTypeOK'
    BY <1>t, <1>1, <1>2 DEF QueueTypeOK, Items
  <2> QED
    BY <1>t, <1>1, <1>2, <2>1, <2>2 DEF LineInv, PassedOver
<1>3. CASE /\ queue # <<>> /\ entry' = Head(queue) /\ queue' = Tail(queue)
           /\ pc' = "batch" /\ at' = 1
  <2>1. /\ Head(queue) \in Items /\ Tail(queue) \in Seq(Items)
        /\ <<Head(queue)>> \in Seq(Items)
    BY <1>1, <1>3, HeadTailProperties, ItemSeq
  <2>2. QueueTypeOK'
    BY <1>t, <1>1, <1>3, <2>1 DEF QueueTypeOK, Items
  <2>3. <<Head(queue)>> \o Tail(queue) = queue
    BY <1>1, <1>3
  <2>4. Line' = (out \o <<Head(queue)>>) \o Tail(queue)
    BY <1>1, <1>3 DEF Line
  <2>5. Line = (out \o <<>>) \o queue
    BY <1>1 DEF Line
  <2>6. (out \o <<Head(queue)>>) \o Tail(queue) = out \o queue
    BY <1>1, <2>1, <2>3, ConcatAssociative
  <2>7. Line' = Line
    BY <1>1, <2>4, <2>5, <2>6, ConcatEmptySeq
  <2>8. PassedOver'
    BY <1>3, <2>1, LenProperties DEF PassedOver
  <2> QED
    BY <1>t, <1>1, <2>2, <2>7, <2>8 DEF LineInv
<1> QED
  BY <1>2, <1>3 DEF Take

\* The packet at the iterator goes into the one at hand.
LEMMA AbsorbLine ==
    ASSUME LineInv, pc = "batch", at <= Len(queue),
           Verdict(entry.packet, queue[at].packet) = "batched", Absorb,
           UNCHANGED <<kinds, received, pushing, tasks, out, pc, at>>
    PROVE  LineInv'
<1>t. QueueTypeOK /\ Sound(Line, received) /\ PassedOver /\ entry \in Items
  BY DEF LineInv, QueueTypeOK
<1>1. /\ out \in Seq(Items) /\ queue \in Seq(Items) /\ Len(queue) \in Nat /\ Len(out) \in Nat
      /\ at \in 1 .. Len(queue) /\ Len(received) \in Nat
  BY <1>t, LineTyped DEF PassedOver
<1>2. queue[at] \in Items /\ \A i \in 1 .. Len(queue) : queue[i] \in Items
  BY <1>1, ElementOfSeq
<1>3. /\ queue' \in Seq(Items) /\ Len(queue') = Len(queue) - 1
      /\ \A j \in 1 .. Len(queue) - 1 :
            queue'[j] = IF j < at THEN queue[j] ELSE queue[j + 1]
  BY <1>1, ErasedSeq DEF Absorb
<1> DEFINE p == Merge(entry.packet, queue[at].packet)
<1>4. /\ entry.packet \in kinds \cup Motion /\ queue[at].packet \in kinds \cup Motion
      /\ entry.from \in SUBSET Nat /\ queue[at].from \in SUBSET Nat
  BY <1>t, <1>2 DEF Items
<1>5. p \in kinds \cup Motion /\ Alike(p, entry.packet) /\ Alike(p, queue[at].packet)
  BY <1>t, <1>4, MergeAlike, MergeKind DEF Verdict
<1> HIDE DEF p
<1>6. /\ entry' = Item(p, entry.from \cup queue[at].from) /\ entry' \in Items
      /\ entry'.packet = p
  BY <1>4, <1>5 DEF Absorb, Item, Items, p
<1>7. QueueTypeOK'
  BY <1>t, <1>3, <1>6 DEF QueueTypeOK, Items
<1> DEFINE k == Len(out) + 1
           n == Len(out) + 1 + Len(queue)
<1>8. Line = (out \o <<entry>>) \o queue /\ Line' = (out \o <<entry'>>) \o queue'
  BY DEF Line
<1>9. /\ Len(Line') = Len(out) + 1 + Len(queue') /\ Line'[Len(out) + 1] = entry'
      /\ \A i \in 1 .. Len(out) : Line'[i] = out[i]
      /\ \A i \in 1 .. Len(queue') : Line'[Len(out) + 1 + i] = queue'[i]
  <2> DEFINE L2 == (out \o <<entry'>>) \o queue'
  <2>1. /\ Len(L2) = Len(out) + 1 + Len(queue') /\ L2[Len(out) + 1] = entry'
        /\ \A i \in 1 .. Len(out) : L2[i] = out[i]
        /\ \A i \in 1 .. Len(queue') : L2[Len(out) + 1 + i] = queue'[i]
    <3>1. out \in Seq(Items) /\ entry' \in Items /\ queue' \in Seq(Items)
      BY <1>1, <1>3, <1>6
    <3> QED
      BY <3>1, OneItem
  <2> HIDE DEF L2
  <2>2. Line' = L2
    BY <1>8 DEF L2
  <2> QED
    BY <2>1, <2>2
<1>10. /\ Len(Line) = n /\ Line[k] = entry
       /\ \A i \in 1 .. Len(out) : Line[i] = out[i]
       /\ \A i \in 1 .. Len(queue) : Line[k + i] = queue[i]
  <2> DEFINE L1 == (out \o <<entry>>) \o queue
  <2>1. /\ Len(L1) = Len(out) + 1 + Len(queue) /\ L1[Len(out) + 1] = entry
        /\ \A i \in 1 .. Len(out) : L1[i] = out[i]
        /\ \A i \in 1 .. Len(queue) : L1[Len(out) + 1 + i] = queue[i]
    BY <1>t, <1>1, OneItem
  <2> HIDE DEF L1
  <2>2. Line = L1
    BY <1>8 DEF L1
  <2> QED
    BY <2>1, <2>2
<1>11. /\ Len(Line') = n - 1 /\ Line'[k] = entry'
       /\ \A i \in 1 .. Len(out) : Line'[i] = out[i]
       /\ \A i \in 1 .. Len(queue) - 1 : Line'[k + i] = queue'[i]
  BY <1>1, <1>3, <1>9
<1> DEFINE m == k + at
<1>12. k \in 1 .. n /\ m \in k + 1 .. n /\ n \in Nat
  BY <1>1
<1>13. \A i \in 1 .. m - 1 : i # k => Line'[i] = Line[i]
  <2> SUFFICES ASSUME NEW i \in 1 .. m - 1, i # k PROVE Line'[i] = Line[i]
    OBVIOUS
  <2>1. CASE i \in 1 .. Len(out)
    BY <1>10, <1>11, <2>1
  <2>2. CASE i > k
    <3>1. i - k \in 1 .. Len(queue) - 1 /\ i - k < at /\ k + (i - k) = i
      BY <1>1, <2>2
    <3>2. Line'[k + (i - k)] = queue'[i - k] /\ Line[k + (i - k)] = queue[i - k]
      <4>1. i - k \in 1 .. Len(queue)
        BY <1>1, <3>1
      <4> QED
        BY <1>10, <1>11, <3>1, <4>1
    <3> QED
      BY <1>3, <3>1, <3>2
  <2> QED
    BY <1>1, <2>1, <2>2
<1>14. \A i \in m .. n - 1 : Line'[i] = Line[i + 1]
  <2> SUFFICES ASSUME NEW i \in m .. n - 1 PROVE Line'[i] = Line[i + 1]
    OBVIOUS
  <2>1. /\ i - k \in 1 .. Len(queue) - 1 /\ ~ i - k < at /\ k + (i - k) = i
        /\ (i - k) + 1 \in 1 .. Len(queue) /\ k + ((i - k) + 1) = i + 1
    BY <1>1
  <2>2. Line'[k + (i - k)] = queue'[i - k] /\ Line[k + ((i - k) + 1)] = queue[(i - k) + 1]
    BY <1>10, <1>11, <2>1
  <2> QED
    BY <1>3, <2>1, <2>2
<1>15. \A i \in k + 1 .. m - 1 : MayPass(Line[k].packet, Line[i].packet)
  <2> SUFFICES ASSUME NEW i \in k + 1 .. m - 1
               PROVE  MayPass(Line[k].packet, Line[i].packet)
    OBVIOUS
  <2>1. i - k \in 1 .. at - 1 /\ i - k \in 1 .. Len(queue) /\ k + (i - k) = i
    BY <1>1
  <2>2. Line[k + (i - k)] = queue[i - k]
    BY <1>10, <2>1
  <2> QED
    BY <1>t, <1>10, <2>1, <2>2 DEF PassedOver
<1>16. Line[m] = queue[at]
  BY <1>1, <1>10
<1> HIDE DEF k, n, m
<1>17. Sound(Line', received)
  <2>1. Batches(Line, Line', k, m)
    <3>1. Line'[k].packet = p /\ Line'[k].from = Line[k].from \cup Line[m].from
      BY <1>6, <1>10, <1>11, <1>16 DEF Item
    <3>2. Alike(Line'[k].packet, Line[k].packet) /\ Alike(Line'[k].packet, Line[m].packet)
      BY <1>5, <1>10, <1>16, <3>1
    <3>3. /\ Len(Line') = Len(Line) - 1
          /\ k \in 1 .. Len(Line) /\ m \in k + 1 .. Len(Line)
          /\ \A i \in m .. Len(Line) - 1 : Line'[i] = Line[i + 1]
      BY <1>10, <1>11, <1>12, <1>14
    <3>4. Line'[k].from = Line[k].from \cup Line[m].from
      BY <3>1
    <3> QED
      BY <1>13, <1>15, <3>2, <3>3, <3>4 DEF Batches
  <2> QED
    BY <1>t, <1>1, <1>10, <1>12, <2>1, BatchSound
<1>18. PassedOver'
  <2>1. at \in 1 .. Len(queue') + 1
    BY <1>1, <1>3
  <2>2. \A i \in 1 .. at - 1 : MayPass(entry'.packet, queue'[i].packet)
    <3> SUFFICES ASSUME NEW i \in 1 .. at - 1
                 PROVE  MayPass(entry'.packet, queue'[i].packet)
      OBVIOUS
    <3>1. i \in 1 .. Len(queue) - 1 /\ i < at
      BY <1>1
    <3>2. queue'[i] = queue[i]
      BY <1>3, <3>1
    <3>3. MayPass(entry.packet, queue[i].packet)
      BY <1>t DEF PassedOver
    <3>4. Alike(entry.packet, p) /\ Alike(queue[i].packet, queue[i].packet)
      BY <1>5, AlikeAgain DEF Alike
    <3> QED
      BY <1>6, <3>2, <3>3, <3>4, AlikePass
  <2> QED
    BY <2>1, <2>2 DEF PassedOver
<1> QED
  BY <1>7, <1>17, <1>18 DEF LineInv

LEMMA BatchLine ==
    ASSUME LineInv, Batch
    PROVE  LineInv'
<1>t. QueueTypeOK /\ Sound(Line, received) /\ PassedOver
  BY DEF LineInv
<1>1. pc = "batch" /\ UNCHANGED <<kinds, received, pushing, tasks, out>>
  BY DEF Batch
<1>2. CASE /\ at <= Len(queue) /\ Verdict(entry.packet, queue[at].packet) = "batched"
           /\ Absorb /\ UNCHANGED <<pc, at>>
  BY <1>1, <1>2, AbsorbLine
<1>3. CASE /\ at <= Len(queue) /\ Verdict(entry.packet, queue[at].packet) = "skip"
           /\ at' = at + 1 /\ UNCHANGED <<queue, pc, entry>>
  <2>1. QueueTypeOK' /\ Line' = Line
    BY <1>t, <1>1, <1>3 DEF QueueTypeOK, Items, Line
  <2>2. at \in 1 .. Len(queue) /\ Len(queue) \in Nat
    BY <1>t, <1>1, <1>3, LineTyped DEF PassedOver
  <2>3. MayPass(entry.packet, queue[at].packet)
    BY <1>3, SkipMayPass
  <2>4. PassedOver'
    BY <1>t, <1>1, <1>3, <2>2, <2>3 DEF PassedOver
  <2> QED
    BY <1>t, <1>1, <2>1, <2>4 DEF LineInv
<1>4. CASE pc' = "send" /\ UNCHANGED <<queue, entry, at>>
  <2>1. QueueTypeOK' /\ Line' = Line
    BY <1>t, <1>1, <1>4 DEF QueueTypeOK, Items, Line
  <2> QED
    BY <1>t, <1>1, <1>4, <2>1 DEF LineInv, PassedOver
<1> QED
  BY <1>2, <1>3, <1>4 DEF Batch

LEMMA SendLine ==
    ASSUME LineInv, Send
    PROVE  LineInv'
<1>t. QueueTypeOK /\ Sound(Line, received) /\ entry \in Items
  BY DEF LineInv, QueueTypeOK, Send
<1>1. /\ pc = "send" /\ pc' = "idle" /\ out' = Append(out, entry) /\ at' = 0
      /\ UNCHANGED <<kinds, received, queue, pushing, tasks>>
  BY DEF Send
<1>2. /\ out' \in Seq(Items) /\ out' = out \o <<entry>>
      /\ out \in Seq(Items) /\ queue \in Seq(Items)
  BY <1>t, <1>1, AppendProperties, AppendIsConcat DEF QueueTypeOK
<1>3. QueueTypeOK'
  BY <1>t, <1>1, <1>2 DEF QueueTypeOK, Items
<1>4. Line' = (out' \o <<>>) \o queue /\ Line = (out \o <<entry>>) \o queue
  BY <1>1 DEF Line
<1>5. Line' = Line
  BY <1>2, <1>4, ConcatEmptySeq
<1> QED
  BY <1>t, <1>1, <1>3, <1>5 DEF LineInv, PassedOver

LEMMA LineStep ==
    ASSUME LineInv, [QueueNext]_queueVars
    PROVE  LineInv'
<1>1. CASE \E p \in kinds : Receive(p)
  BY <1>1, ReceiveLine
<1>2. CASE Push
  <2>1. QueueTypeOK'
    <3>1. kinds' = kinds /\ Items' = Items
      BY <1>2 DEF Items, Push
    <3>2. tasks' \in Nat
      BY <1>2, SMT DEF LineInv, QueueTypeOK, Push
    <3>3. pushing' \in BOOLEAN
      BY <1>2, Zenon DEF Push
    <3> QED
      BY <1>2, <3>1, <3>2, <3>3, Zenon DEF LineInv, QueueTypeOK, Push
  <2>2. Line' = Line
    BY <1>2 DEF Line, Push
  <2> QED
    BY <1>2, <2>1, <2>2 DEF LineInv, PassedOver, Push
<1>3. CASE Take
  BY <1>3, TakeLine
<1>4. CASE Batch
  BY <1>4, BatchLine
<1>5. CASE Send
  BY <1>5, SendLine
<1>6. CASE UNCHANGED queueVars
  <2>1. QueueTypeOK' /\ Line' = Line
    BY <1>6 DEF LineInv, QueueTypeOK, Items, Line, queueVars
  <2> QED
    BY <1>6, <2>1 DEF LineInv, PassedOver, queueVars
<1> QED
  BY <1>1, <1>2, <1>3, <1>4, <1>5, <1>6 DEF QueueNext, QueueWorker

LEMMA LineHolds == QueueSpec => []LineInv
<1>1. LineInv /\ [QueueNext]_queueVars => LineInv'
  BY LineStep
<1> QED
  BY <1>1, LineInit, PTL DEF QueueSpec

\* The queue, its tasks and the packets keep their types; a batched delta is
\* 16 bits wide (passthrough_next_message, batch()).
THEOREM QueueTyped == QueueSpec => []QueueTypeOK
<1>1. LineInv => QueueTypeOK
  BY DEF LineInv
<1> QED
  BY <1>1, LineHolds, PTL

\* No packet is lost or sent twice, however many are batched (the loop of
\* passthrough_next_message, which erases from the list it walks).
THEOREM QueueComplete == QueueSpec => []NothingLost
<1>1. LineInv => NothingLost
  BY DEF LineInv, Sound, Everyone, Once, NothingLost
<1> QED
  BY <1>1, LineHolds, PTL

\* A batch is made of packets that agree on all but positions, and nothing
\* passes what it must not (the rules of the nine batch()).
THEOREM QueueOrder == QueueSpec => []OrderKept
<1>1. LineInv => OrderKept
  <2> SUFFICES ASSUME LineInv PROVE OrderKept
    OBVIOUS
  <2>1. ASSUME NEW i \in 1 .. Len(Line), NEW a \in Line[i].from, NEW b \in Line[i].from
        PROVE  Alike(received[a], received[b])
    <3>1. Alike(received[a], Line[i].packet) /\ Alike(received[b], Line[i].packet)
      BY DEF LineInv, Sound, Standing
    <3> QED
      BY <3>1, AlikeAgain
  <2> QED
    BY <2>1 DEF LineInv, Sound, InOrder, OrderKept
<1> QED
  BY <1>1, LineHolds, PTL

-----------------------------------------------------------------------------
(* Tasks.                                                                  *)

LEMMA StrandedStep == LineInv /\ NoneStranded /\ [QueueNext]_queueVars => NoneStranded'
<1> SUFFICES ASSUME LineInv, NoneStranded, [QueueNext]_queueVars PROVE NoneStranded'
  OBVIOUS
<1>t. /\ QueueTypeOK /\ Len(queue) \in Nat /\ tasks \in Nat
      /\ queue \in Seq(Items) /\ Len(received) \in Nat
  BY LineTyped DEF LineInv, QueueTypeOK
<1>1. CASE \E p \in kinds : Receive(p)
  <2>1. PICK p \in kinds : Receive(p)
    BY <1>1
  <2>2. Item(p, {Len(received) + 1}) \in Items
    BY <1>t DEF Items, Item
  <2>3. Len(queue') = Len(queue) + 1 /\ tasks' = tasks /\ pushing' = TRUE /\ ~ pushing
    BY <1>t, <2>1, <2>2, AppendProperties DEF Receive
  <2> QED
    BY <1>t, <2>3 DEF NoneStranded
<1>2. CASE Push
  BY <1>t, <1>2 DEF NoneStranded, Push
<1>3. CASE Take
  <2>1. CASE queue = <<>>
    BY <1>t, <1>3, <2>1 DEF NoneStranded, Take
  <2>2. CASE queue # <<>>
    <3>1. Len(queue') = Len(queue) - 1 /\ tasks' = tasks - 1 /\ pushing' = pushing
      BY <1>t, <1>3, <2>2, HeadTailProperties DEF Take
    <3> QED
      BY <1>t, <3>1 DEF NoneStranded
  <2> QED
    BY <2>1, <2>2
<1>4. CASE Batch
  <2>1. Len(queue') \in Nat /\ Len(queue') <= Len(queue)
    <3>1. CASE Absorb /\ at <= Len(queue)
      <4>1. at \in 1 .. Len(queue)
        BY <1>t, <1>4, <3>1 DEF LineInv, PassedOver, Batch
      <4> QED
        BY <1>t, <3>1, <4>1, ErasedSeq DEF Absorb
    <3> QED
      BY <1>t, <1>4, <3>1 DEF Batch
  <2>2. tasks' = tasks /\ pushing' = pushing
    BY <1>4 DEF Batch
  <2> QED
    BY <1>t, <2>1, <2>2 DEF NoneStranded
<1>5. CASE Send
  BY <1>5 DEF NoneStranded, Send
<1>6. CASE UNCHANGED queueVars
  BY <1>6 DEF NoneStranded, queueVars
<1> QED
  BY <1>1, <1>2, <1>3, <1>4, <1>5, <1>6 DEF QueueNext, QueueWorker

\* passthrough() queues a packet before it pushes its task, and a task that
\* finds nothing has left nothing: there is a task for every packet that waits.
THEOREM QueueServed == QueueSpec => []NoneStranded
<1>1. QueueInit => NoneStranded
  BY DEF QueueInit, NoneStranded
<1> QED
  BY <1>1, LineHolds, StrandedStep, PTL DEF QueueSpec
=============================================================================
