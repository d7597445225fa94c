--------------------------- MODULE DeviceIdentity ---------------------------
(***************************************************************************)
(* sunshine_server.ini, where Sunshine keeps the device_id and the         *)
(* device_password of the machine (Sunshine/src/backend_client.cpp), and   *)
(* which the configuration tool (config_tool_python) edits.  Only these    *)
(* two settings matter here.  Sunshine reads the file once per process and *)
(* rewrites it in three steps for each setting it has to draw; the tool    *)
(* reads it when it is opened and writes its whole copy, in two steps, at  *)
(* every save.  BackendClient models the threads that use the identity.    *)
(***************************************************************************)
EXTENDS Naturals, FiniteSets

CONSTANTS
    Ids, Passwords,     \* what the generators draw, or the tool is given
    MaxStarts,          \* starts of Sunshine (bound)
    Nil                 \* an empty setting

Keys == {"id", "pw"}
Text == [id : Ids \cup {Nil}, pw : Passwords \cup {Nil}]
Blank == [id |-> Nil, pw |-> Nil]

ASSUME StartsAssumption == MaxStarts \in Nat
ASSUME NilAssumption == Nil \notin Ids \cup Passwords

VARIABLES
    file,       \* sunshine_server.ini
    main,       \* main thread of Sunshine, in start()
    tool,       \* the configuration tool and its copy of the file
    starts,
    sent,       \* history: identities the backend was sent
    spoilt      \* history: a save of the tool spoilt what was saved

vars == <<file, main, tool, starts, sent, spoilt>>

Main == [ at    : {"off", "check", "read", "open", "write", "register", "up"},
          key   : Keys,         \* the setting start() is at
          copy  : Text,         \* the file's text while it is rewritten
          me    : Text ]        \* existingId, existingPassword

Tool == [at : {"closed", "open", "saving"}, copy : Text]

Closed == [at |-> "closed", copy |-> Blank]
Off == [at |-> "off", key |-> "id", copy |-> Blank, me |-> Blank]

Init ==
    /\ file = Blank /\ main = Off /\ tool = Closed
    /\ starts = 0 /\ sent = {} /\ spoilt = FALSE

-----------------------------------------------------------------------------
(* start(): for each setting, take it from the file as it was first read,  *)
(* or draw it and rewrite the file.                                        *)

Sunshine(k) == main' = k /\ UNCHANGED tool

\* While the tool saves, the file is empty and two writers may share it.
Meets == spoilt' = (spoilt \/ tool.at = "saving")

Start ==
    /\ main.at = "off" /\ starts < MaxStarts
    /\ starts' = starts + 1
    /\ Sunshine([Off EXCEPT !.at = "check", !.me = file])
    /\ Meets
    /\ UNCHANGED <<file, sent>>

Advanced(k) ==
    [at |-> IF k.key = "id" THEN "check" ELSE "register",
     key |-> "pw", copy |-> Blank, me |-> k.me]

\* An eight-digit number or six characters, drawn anew each time.
Drawn(key) == IF key = "id" THEN Ids \ sent ELSE Passwords

CheckSetting ==
    /\ main.at = "check"
    /\ \/ /\ main.me[main.key] # Nil
          /\ Sunshine(Advanced(main))
       \/ /\ main.me[main.key] = Nil
          /\ \E v \in Drawn(main.key) :
                Sunshine([at |-> "read", key |-> main.key, copy |-> Blank,
                          me |-> [main.me EXCEPT ![main.key] = v]])
    /\ UNCHANGED <<file, starts, sent, spoilt>>

ReadFile ==
    /\ main.at = "read"
    /\ Sunshine([main EXCEPT !.at = "open", !.copy = file])
    /\ Meets
    /\ UNCHANGED <<file, starts, sent>>

\* Opening the stream for output empties the file.
OpenFile ==
    /\ main.at = "open"
    /\ file' = Blank
    /\ Sunshine([main EXCEPT !.at = "write"])
    /\ Meets
    /\ UNCHANGED <<starts, sent>>

\* Mutant: a line that is missing is not appended.
WithLineIfThere(text, key, v) ==
    IF text[key] = Nil THEN text ELSE [text EXCEPT ![key] = v]

\* Mutant: both settings are written to the line of the password.
WithPassword(text, key, v) == [text EXCEPT !.pw = v]

WithLine(text, key, v) == [text EXCEPT ![key] = v]

WriteFile ==
    /\ main.at = "write"
    /\ file' = WithLine(main.copy, main.key, main.me[main.key])
    /\ Sunshine(Advanced(main))
    /\ Meets
    /\ UNCHANGED <<starts, sent>>

\* registrationThread() and the first message of the other two threads.
Register ==
    /\ main.at = "register"
    /\ sent' = sent \cup {main.me.id}
    /\ Sunshine([main EXCEPT !.at = "up"])
    /\ UNCHANGED <<file, starts, spoilt>>

\* Sunshine is shut down, or its process dies anywhere.
Die ==
    /\ main.at # "off"
    /\ Sunshine(Off)
    /\ UNCHANGED <<file, starts, sent, spoilt>>

-----------------------------------------------------------------------------
(* The configuration tool.                                                 *)

OpenTool ==
    /\ tool.at = "closed"
    /\ tool' = [at |-> "open", copy |-> file]
    /\ UNCHANGED <<file, main, starts, sent, spoilt>>

\* A save that takes the identity, or the password, out of the file.
Undoes(new, old) ==
    \/ old.id # Nil /\ new.id # old.id
    \/ old.pw # Nil /\ new.pw = Nil

\* Opening the file for writing empties it.  The user may have typed another
\* password.
SaveTool ==
    /\ tool.at = "open"
    /\ \E pw \in Passwords \cup {tool.copy.pw} :
          tool' = [at |-> "saving", copy |-> [id |-> tool.copy.id, pw |-> pw]]
    /\ file' = Blank
    /\ spoilt' = (spoilt \/ main.at = "write" \/ Undoes(tool'.copy, file))
    /\ UNCHANGED <<main, starts, sent>>

Saved ==
    /\ tool.at = "saving"
    /\ file' = tool.copy
    /\ tool' = [at |-> "open", copy |-> tool.copy]
    /\ UNCHANGED <<main, starts, sent, spoilt>>

\* The tool ends, perhaps in the middle of a save.
CloseTool ==
    /\ tool.at # "closed"
    /\ tool' = Closed
    /\ spoilt' = (spoilt \/ tool.at = "saving")
    /\ UNCHANGED <<file, main, starts, sent>>

Next ==
    \/ Start \/ CheckSetting \/ ReadFile \/ OpenFile \/ WriteFile \/ Register \/ Die
    \/ OpenTool \/ SaveTool \/ Saved \/ CloseTool

Spec == Init /\ [][Next]_vars

-----------------------------------------------------------------------------
(* Properties.                                                             *)

TypeOK ==
    /\ file \in Text /\ main \in Main /\ tool \in Tool
    /\ starts \in 0 .. MaxStarts /\ sent \subseteq Ids /\ spoilt \in BOOLEAN

\* A machine keeps its identity: wherever Sunshine dies while it draws, saves
\* and uses it, and whatever the tool saves meanwhile, the backend is never
\* told two, unless a save of the tool undid a setting that was saved, stopped
\* half way, or met Sunshine at the file.
IdentityKept == spoilt \/ \A i, j \in sent : i = j

\* backend_client.cpp:7: the device_id is kept in sunshine_server.ini.
IdentityStable == \A i, j \in sent : i = j
=============================================================================
