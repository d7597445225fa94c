------------------------------ MODULE MCInput -------------------------------
(* A keyboard of three keys and a mouse, or two gamepads.                  *)
EXTENDS Input

CONSTANTS RShift, N, Meta

DeskOrPads == {{"keyboard", "mouse"}, {"pads"}}

NoKeybindings == [k \in Key |-> k]
\* As key_rightalt_to_key_win does.
OneRebound == [k \in Key |-> IF k = N THEN Meta ELSE k]
=============================================================================
