---------------------------- MODULE MCInputQueue ----------------------------
(* A client that uses one kind of device, and keys.                        *)
EXTENDS InputQueue, FiniteSetsExt

Key == [kind |-> "event"]

Move(x, y) == [kind |-> "move", delta |-> [x |-> x, y |-> y]]
Scroll(kind, v) == [kind |-> kind, delta |-> [amount |-> v]]
Moves == {Move(30000, 30000), Move(5, -5), Scroll("scroll", 120), Scroll("hscroll", 32760)}

Abs == [kind : {"abs"}, surface : {"small", "large"}]

\* Two pads; pad 0 presses a button, and pad 1 is taken away.
Pad(pad, mask, buttons) ==
    [kind |-> "pad", pad |-> pad, mask |-> mask, buttons |-> buttons]
Pads == {Pad(0, 3, 0), Pad(0, 3, 1), Pad(1, 3, 0), Pad(0, 1, 0)}

Touch(pointer, event) == [kind |-> "touch", pointer |-> pointer, event |-> event]
Touches == {Touch(1, "MOVE"), Touch(2, "MOVE"), Touch(1, "HOVER"), Touch(2, "UP")}

Pen(event, buttons, tool) ==
    [kind |-> "pen", event |-> event, buttons |-> buttons, tool |-> tool]
Pens == {Pen("MOVE", 0, "pen"), Pen("HOVER", 0, "pen"), Pen("MOVE", 1, "pen"),
         Pen("MOVE", 0, "eraser")}

PadTouch(pad, pointer, event) ==
    [kind |-> "padTouch", pad |-> pad, pointer |-> pointer, event |-> event]
PadTouches == {PadTouch(0, 1, "MOVE"), PadTouch(0, 2, "MOVE"), PadTouch(1, 1, "MOVE"),
               PadTouch(0, 2, "DOWN"), PadTouch(1, 1, "DOWN")}

Motions == [kind : {"motion"}, pad : {0, 1}, sensor : {"gyro", "accel"}]

AllTraffic == {Moves, Abs, Pads, Touches, Pens, PadTouches, Motions}
KeysAlong == {m \cup {Key} : m \in AllTraffic}
MovesOnly == {Moves}

\* "Batching is safe as long as the result doesn't overflow a 16-bit integer"
\* (input.cpp:1211): a batch moves as far as the packets it stands for.
SumsKept ==
    \A i \in 1 .. Len(out) : out[i].packet.kind \in Relative =>
        \A axis \in DOMAIN out[i].packet.delta :
            LET Delta(n) == received[n].delta[axis]
            IN  out[i].packet.delta[axis] = MapThenSumSet(Delta, out[i].from)
=============================================================================
