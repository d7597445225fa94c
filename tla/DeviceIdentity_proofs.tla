----------------------- MODULE DeviceIdentity_proofs -----------------------
(***************************************************************************)
(* A machine keeps its identity, for any number of starts and whatever the *)
(* configuration tool does, as long as no save of the tool spoils the      *)
(* file.  The invariant speaks of what the file holds once a save that has *)
(* begun is over.                                                          *)
(***************************************************************************)
EXTENDS DeviceIdentity, TLAPS

Settled == IF tool.at = "saving" THEN tool.copy ELSE file

\* The file has the settings that start() found or saved, and start() knows
\* them; what is being rewritten is kept in the copy.
Remembered ==
    /\ \/ main.at \in {"check", "register", "up"}
       \/ main.at \in {"read", "open"} /\ main.key = "pw"
       => main.me.id \in {Nil, Settled.id}
    /\ (\/ main.at \in {"check", "register", "up"}
        \/ main.at \in {"read", "open"} /\ main.key = "id")
       /\ main.me.pw # Nil => Settled.pw # Nil
    /\ main.at \in {"open", "write"} /\ main.key = "pw" => main.copy.id = main.me.id
    /\ main.at \in {"open", "write"} /\ main.key = "id" /\ main.me.pw # Nil
       => main.copy.pw # Nil
    /\ main.at = "write" => tool.at # "saving"

\* start() has passed a setting only if it has a value for it.
Passed ==
    /\ main.at \in {"read", "open", "write"} /\ main.key = "id" => main.me.id # Nil
    /\ main.at \in {"read", "open", "write"} /\ main.key = "pw" => main.me.pw # Nil
    /\ main.at # "off" /\ main.key = "pw" => main.me.id # Nil
    /\ main.at \in {"register", "up"} => main.me.pw # Nil /\ main.key = "pw"

\* What the backend was told is in the file, and is not drawn again.
Told ==
    /\ \A i \in sent : i = Settled.id
    /\ sent # {} => /\ Settled.id # Nil /\ Settled.pw # Nil
                    /\ main.at # "off" => main.me.id # Nil /\ main.me.pw # Nil
                    /\ main.at \notin {"read", "open", "write"}

IInv == Passed /\ (spoilt \/ (Remembered /\ Told))

-----------------------------------------------------------------------------
(* Helpers.                                                                *)

\* A setting is one of two, and a text is what it holds for each.
LEMMA TextLine ==
    ASSUME NEW text \in Text, NEW key \in Keys, NEW v
    PROVE  /\ [text EXCEPT ![key] = v] = IF key = "id" THEN [id |-> v, pw |-> text.pw]
                                         ELSE [id |-> text.id, pw |-> v]
           /\ key = "id" => text[key] = text.id
           /\ key = "pw" => text[key] = text.pw
<1>1. [text EXCEPT !.id = v] = [id |-> v, pw |-> text.pw]
  BY DEF Text
<1>2. [text EXCEPT !.pw = v] = [id |-> text.id, pw |-> v]
  BY DEF Text
<1>3. "id" # "pw"
  OBVIOUS
<1> QED
  BY <1>1, <1>2, <1>3 DEF Keys

\* A setting is drawn from the values of that setting.
LEMMA DrawnLine ==
    ASSUME NEW key \in Keys, NEW v \in Drawn(key)
    PROVE  /\ key = "id" => v \in Ids
           /\ key = "pw" => v \in Passwords
           /\ v # Nil
  BY NilAssumption DEF Drawn, Keys

-----------------------------------------------------------------------------
(* Types.                                                                  *)

\* Every step keeps the variables in their types.
LEMMA TypeStep == TypeOK /\ Passed /\ [Next]_vars => TypeOK'
<1> SUFFICES ASSUME TypeOK, Passed, [Next]_vars PROVE TypeOK'
  OBVIOUS
<1> USE DEF TypeOK
<1>a. main.key \in Keys /\ main.me \in Text /\ main.copy \in Text
  BY DEF Main
<1>b. Blank \in Text /\ Off \in Main /\ Closed \in Tool
  BY DEF Blank, Off, Closed, Text, Main, Tool, Keys
<1>c. Advanced(main) \in Main
  BY <1>a, <1>b DEF Advanced, Main, Keys
<1>1. CASE Start
  <2>1. main' = [at |-> "check", key |-> "id", copy |-> Blank, me |-> file]
    BY <1>1 DEF Start, Sunshine, Off
  <2> QED
    BY <1>1, <1>b, <2>1, StartsAssumption DEF Start, Sunshine, Meets, Main, Keys
<1>2. CASE CheckSetting
  <2>1. CASE main' = Advanced(main)
    BY <1>2, <1>c, <2>1 DEF CheckSetting, Sunshine
  <2>2. ASSUME NEW v \in Drawn(main.key),
               main' = [at |-> "read", key |-> main.key, copy |-> Blank,
                        me |-> [main.me EXCEPT ![main.key] = v]]
        PROVE  main' \in Main
    <3>1. [main.me EXCEPT ![main.key] = v] \in Text
      BY <1>a, <2>2, TextLine, DrawnLine DEF Text, Keys
    <3> QED
      BY <1>a, <1>b, <2>2, <3>1 DEF Main
  <2> QED
    BY <1>2, <2>1, <2>2 DEF CheckSetting, Sunshine
<1>3. CASE ReadFile
  <2>1. main' = [at |-> "open", key |-> main.key, copy |-> file, me |-> main.me]
    BY <1>3 DEF ReadFile, Sunshine, Main
  <2> QED
    BY <1>3, <1>a, <2>1 DEF ReadFile, Sunshine, Meets, Main
<1>4. CASE OpenFile
  <2>1. main' = [at |-> "write", key |-> main.key, copy |-> main.copy, me |-> main.me]
    BY <1>4 DEF OpenFile, Sunshine, Main
  <2> QED
    BY <1>4, <1>a, <1>b, <2>1 DEF OpenFile, Sunshine, Meets, Main
<1>5. CASE WriteFile
  <2>1. file' \in Text
    BY <1>5, <1>a, TextLine DEF WriteFile, WithLine, Text, Keys
  <2> QED
    BY <1>5, <1>c, <2>1 DEF WriteFile, Sunshine, Meets
<1>6. CASE Register
  <2>1. main' = [at |-> "up", key |-> main.key, copy |-> main.copy, me |-> main.me]
    BY <1>6 DEF Register, Sunshine, Main
  <2>2. main' \in Main
    BY <1>a, <2>1 DEF Main
  <2>3. main.me.id \in Ids
    BY <1>6, <1>a DEF Register, Passed, Text
  <2> QED
    BY <1>6, <2>2, <2>3 DEF Register, Sunshine
<1>7. CASE Die
  BY <1>7, <1>b DEF Die, Sunshine
<1>8. CASE OpenTool
  BY <1>8 DEF OpenTool, Tool
<1>9. CASE SaveTool
  <2>1. PICK pw \in Passwords \cup {tool.copy.pw} :
          tool' = [at |-> "saving", copy |-> [id |-> tool.copy.id, pw |-> pw]]
    BY <1>9 DEF SaveTool
  <2>2. tool' \in Tool
    BY <2>1 DEF Tool, Text
  <2> QED
    BY <1>9, <1>b, <2>2 DEF SaveTool
<1>10. CASE Saved
  BY <1>10 DEF Saved, Tool
<1>11. CASE CloseTool
  BY <1>11, <1>b DEF CloseTool
<1>12. CASE UNCHANGED vars
  BY <1>12 DEF vars
<1> QED
  BY <1>1, <1>2, <1>3, <1>4, <1>5, <1>6, <1>7, <1>8, <1>9, <1>10, <1>11, <1>12 DEF Next

-----------------------------------------------------------------------------
(* The invariant.                                                          *)

\* start() passes no setting without a value.
LEMMA PassedStep == TypeOK /\ Passed /\ [Next]_vars => Passed'
<1> SUFFICES ASSUME TypeOK, Passed, [Next]_vars PROVE Passed'
  OBVIOUS
<1>a. main.key \in Keys /\ main.me \in Text /\ file \in Text
  BY DEF TypeOK, Main
<1>1. CASE Start
  BY <1>1 DEF Start, Sunshine, Off, Passed
<1>2. CASE CheckSetting
  <2>1. CASE main.me[main.key] # Nil /\ main' = Advanced(main)
    BY <1>a, <1>2, <2>1, TextLine DEF CheckSetting, Advanced, Passed, Keys
  <2>2. ASSUME NEW v \in Drawn(main.key),
               main' = [at |-> "read", key |-> main.key, copy |-> Blank,
                        me |-> [main.me EXCEPT ![main.key] = v]]
        PROVE  Passed'
    <3>1. /\ main'.at = "read" /\ main'.key = main.key
          /\ main'.me = IF main.key = "id" THEN [id |-> v, pw |-> main.me.pw]
                        ELSE [id |-> main.me.id, pw |-> v]
      BY <1>a, <2>2, TextLine
    <3>2. v # Nil
      BY <1>a, DrawnLine
    <3>3. main.at # "off"
      BY <1>2 DEF CheckSetting
    <3> QED
      BY <1>a, <3>1, <3>2, <3>3 DEF Passed, Keys
  <2> QED
    BY <1>2, <2>1, <2>2 DEF CheckSetting, Sunshine
<1>3. CASE ReadFile
  BY <1>3 DEF ReadFile, Sunshine, Passed, TypeOK, Main
<1>4. CASE OpenFile
  BY <1>4 DEF OpenFile, Sunshine, Passed, TypeOK, Main
<1>5. CASE WriteFile
  BY <1>a, <1>5 DEF WriteFile, Sunshine, Advanced, Passed, Keys
<1>6. CASE Register
  BY <1>6 DEF Register, Sunshine, Passed, TypeOK, Main
<1>7. CASE Die
  BY <1>7 DEF Die, Sunshine, Off, Passed
<1>8. CASE UNCHANGED main
  BY <1>8 DEF Passed
<1> QED
  BY <1>1, <1>2, <1>3, <1>4, <1>5, <1>6, <1>7, <1>8
     DEF Next, OpenTool, SaveTool, Saved, CloseTool, vars

\* A step that spoils nothing keeps what the file holds for start() and for the
\* backend.
LEMMA RememberedStep ==
    ASSUME TypeOK, Passed, Remembered, Told, [Next]_vars, ~spoilt'
    PROVE  Remembered' /\ Told'
<1> USE DEF Remembered, Told, Settled
<1>a. /\ main.key \in Keys /\ main.me \in Text /\ main.copy \in Text /\ file \in Text
      /\ tool.copy \in Text
  BY DEF TypeOK, Main, Tool
<1>b. Blank.id = Nil /\ Blank.pw = Nil
  BY DEF Blank
<1>1. CASE Start
  BY <1>1 DEF Start, Sunshine, Meets, Off, Keys
<1>2. CASE CheckSetting
  <2>1. CASE main.me[main.key] # Nil /\ main' = Advanced(main)
    BY <1>a, <1>2, <2>1, TextLine DEF CheckSetting, Sunshine, Advanced, Keys, Passed
  <2>2. ASSUME NEW v \in Drawn(main.key), main.me[main.key] = Nil,
               main' = [at |-> "read", key |-> main.key, copy |-> Blank,
                        me |-> [main.me EXCEPT ![main.key] = v]]
        PROVE  Remembered' /\ Told'
    <3>1. /\ main'.at = "read" /\ main'.key = main.key
          /\ main'.me = IF main.key = "id" THEN [id |-> v, pw |-> main.me.pw]
                        ELSE [id |-> main.me.id, pw |-> v]
      BY <1>a, <2>2, TextLine
    <3>2. UNCHANGED <<file, tool, sent>> /\ main.at = "check"
      BY <1>2 DEF CheckSetting, Sunshine
    <3>3. /\ main.key = "id" => main.me.id = Nil
          /\ main.key = "pw" => main.me.pw = Nil
      BY <1>a, <2>2, TextLine
    <3>4. sent = {}
      BY <1>a, <3>2, <3>3 DEF Keys
    <3> QED
      BY <1>a, <3>1, <3>2, <3>3, <3>4 DEF Keys
  <2> QED
    BY <1>2, <2>1, <2>2 DEF CheckSetting, Sunshine
<1>3. CASE ReadFile
  <2>1. main' = [at |-> "open", key |-> main.key, copy |-> file, me |-> main.me]
    BY <1>3 DEF ReadFile, Sunshine, TypeOK, Main
  <2> QED
    BY <1>a, <1>3, <2>1 DEF ReadFile, Sunshine, Meets, Passed, Keys
<1>4. CASE OpenFile
  <2>1. main' = [at |-> "write", key |-> main.key, copy |-> main.copy, me |-> main.me]
    BY <1>4 DEF OpenFile, Sunshine, TypeOK, Main
  <2> QED
    BY <1>a, <1>4, <2>1 DEF OpenFile, Sunshine, Meets, Passed
<1>5. CASE WriteFile
  <2>1. main' = [at |-> IF main.key = "id" THEN "check" ELSE "register",
                 key |-> "pw", copy |-> Blank, me |-> main.me]
    BY <1>5 DEF WriteFile, Sunshine, Advanced
  <2>2. /\ main.key = "id" => file' = [id |-> main.me.id, pw |-> main.copy.pw]
        /\ main.key = "pw" => file' = [id |-> main.copy.id, pw |-> main.me.pw]
    BY <1>a, <1>5, TextLine DEF WriteFile, WithLine, Keys
  <2> QED
    BY <1>a, <1>5, <2>1, <2>2 DEF WriteFile, Sunshine, Meets, Passed, Keys
<1>6. CASE Register
  <2>1. main' = [at |-> "up", key |-> main.key, copy |-> main.copy, me |-> main.me]
    BY <1>6 DEF Register, Sunshine, TypeOK, Main
  <2> QED
    BY <1>a, <1>6, <2>1 DEF Register, Sunshine, Passed
<1>7. CASE Die
  BY <1>7 DEF Die, Sunshine, Off
<1>8. CASE OpenTool
  BY <1>8 DEF OpenTool
<1>9. CASE SaveTool
  <2>a. spoilt' = (spoilt \/ main.at = "write" \/ Undoes(tool'.copy, file))
    BY <1>9 DEF SaveTool
  <2>b. main.at # "write" /\ ~Undoes(tool'.copy, file)
    BY <2>a, Zenon
  <2>c. tool'.at = "saving"
    BY <1>9 DEF SaveTool
  <2>1. Settled' = tool'.copy /\ ~Undoes(tool'.copy, file)
    BY <2>b, <2>c
  <2>2. Settled = file
    BY <1>9 DEF SaveTool
  <2>3. /\ file.id # Nil => Settled'.id = file.id
        /\ file.pw # Nil => Settled'.pw # Nil
    BY <2>1 DEF Undoes
  <2>4. main.at # "write" /\ UNCHANGED <<main, sent>>
    BY <1>9, <2>b DEF SaveTool
  <2> HIDE DEF Settled, Remembered, Told
  <2>5. Remembered'
    BY <1>a, <2>2, <2>3, <2>4 DEF Passed, Remembered
  <2>6. Told'
    BY <2>2, <2>3, <2>4 DEF Told
  <2> QED
    BY <2>5, <2>6
<1>10. CASE Saved
  BY <1>10 DEF Saved
<1>11. CASE CloseTool
  BY <1>11 DEF CloseTool, Closed
<1>12. CASE UNCHANGED vars
  BY <1>12 DEF vars
<1> QED
  BY <1>1, <1>2, <1>3, <1>4, <1>5, <1>6, <1>7, <1>8, <1>9, <1>10, <1>11, <1>12 DEF Next

\* Once spoilt, a history stays so.
LEMMA SpoiltStays == ASSUME spoilt \in BOOLEAN, spoilt, [Next]_vars PROVE spoilt'
<1>1. CASE Start \/ ReadFile \/ OpenFile \/ WriteFile
  BY <1>1 DEF Start, ReadFile, OpenFile, WriteFile, Meets
<1>2. CASE CloseTool
  BY <1>2 DEF CloseTool
<1>3. CASE SaveTool
  BY <1>3 DEF SaveTool
<1>4. CASE UNCHANGED spoilt
  BY <1>4
<1> QED
  BY <1>1, <1>2, <1>3, <1>4
     DEF Next, CheckSetting, Register, Die, OpenTool, Saved, vars

\* For any number of starts and any identities, the variables keep their types
\* and the backend is told one identity of a machine, unless a save of the tool
\* spoilt the file: backend_client.cpp saves before it registers.
THEOREM Identity == Spec => [](TypeOK /\ IdentityKept)
<1>1. Init => TypeOK /\ IInv
  <2> SUFFICES ASSUME Init PROVE TypeOK /\ IInv
    OBVIOUS
  <2>1. Blank \in Text /\ Off \in Main /\ Closed \in Tool
    BY DEF Blank, Text, Off, Main, Keys, Closed, Tool
  <2>a. starts \in 0 .. MaxStarts
    BY StartsAssumption DEF Init
  <2>b. spoilt \in BOOLEAN
    BY DEF Init
  <2>2. TypeOK
    BY <2>1, <2>a, <2>b DEF Init, TypeOK
  <2>3. Passed /\ Remembered /\ Told
    BY DEF Init, Passed, Remembered, Told, Off, Closed
  <2> QED
    BY <2>2, <2>3 DEF IInv
<1>2. TypeOK /\ IInv /\ [Next]_vars => TypeOK' /\ IInv'
  <2> SUFFICES ASSUME TypeOK, IInv, [Next]_vars PROVE TypeOK' /\ IInv'
    OBVIOUS
  <2>1. TypeOK' /\ Passed'
    BY TypeStep, PassedStep DEF IInv
  <2>2. CASE spoilt
    BY <2>1, <2>2, SpoiltStays DEF IInv, TypeOK
  <2>3. CASE ~spoilt'
    <3>1. ~spoilt
      BY <2>3, SpoiltStays DEF TypeOK
    <3> QED
      BY <2>1, <2>3, <3>1, RememberedStep DEF IInv
  <2> QED
    BY <2>1, <2>3 DEF IInv
<1>3. IInv => IdentityKept
  BY DEF IInv, Told, IdentityKept
<1> QED
  BY <1>1, <1>2, <1>3, PTL DEF Spec

\* In particular every variable keeps its type.
COROLLARY Typed == Spec => []TypeOK
BY Identity, PTL
=============================================================================
