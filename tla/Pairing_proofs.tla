-------------------------- MODULE Pairing_proofs --------------------------
(***************************************************************************)
(* For any clients, PINs and numbers of attempts, unpairings and deaths:   *)
(* whoever is listed or let in has proved the PIN, and whoever was told    *)
(* that he is paired stays so.                                             *)
(***************************************************************************)
EXTENDS Pairing, TLAPS

----------------------------------------------------------------------------
\* Typing.

LEMMA AcceptTyped ==
    ASSUME TypeOK, NEW e \in Try, NEW stage \in 1 .. 4, NEW knows \in Try \cup {None},
           NEW others \in SUBSET Request, Accept(e, stage, knows, others)
    PROVE  client' \in [Client -> Attempt] /\ requests' \subseteq Request
<1>1. client' \in [Client -> Attempt]
  BY DEF TypeOK, Accept, Attempt, Try
<1>2. requests' \subseteq Request
  <2>1. CASE Waits(e, stage) /\ stage < 4
    <3>1. [from |-> e, stage |-> stage + 1, knows |-> knows] \in Request
      BY <2>1 DEF Request
    <3>2. QED  BY <2>1, <3>1 DEF Accept
  <2>2. CASE ~ (Waits(e, stage) /\ stage < 4)
    BY <2>2 DEF Accept
  <2>3. QED  BY <2>1, <2>2
<1>3. QED  BY <1>1, <1>2

LEMMA FailTyped ==
    ASSUME TypeOK, NEW requested, NEW others \in SUBSET Request, Fail(requested, others)
    PROVE  client' \in [Client -> Attempt] /\ requests' \subseteq Request
<1>1. \A c \in Client : client[c] \in Attempt /\ [client[c] EXCEPT !.stage = 0] \in Attempt
  BY DEF TypeOK, Attempt
<1>2. QED  BY <1>1 DEF Fail

\* What a thread keeps for itself stays typed whichever of it a step sets.
LEMMA UpdateTyped ==
    ASSUME TypeOK, NEW t \in Thread, NEW at \in Places, NEW try \in Try \cup {None},
           NEW pin \in Pin \cup {None}, NEW copy \in SUBSET Try, NEW l \in Local
    PROVE  /\ [thread EXCEPT ![t] = l] \in [Thread -> Local]
           /\ [thread EXCEPT ![t].at = at] \in [Thread -> Local]
           /\ [thread EXCEPT ![t].at = at, ![t].try = try] \in [Thread -> Local]
           /\ [thread EXCEPT ![t].at = at, ![t].pin = pin] \in [Thread -> Local]
           /\ [thread EXCEPT ![t].at = at, ![t].copy = copy] \in [Thread -> Local]
<1>1. thread \in [Thread -> Local] /\ thread[t] \in Local
  BY DEF TypeOK
<1>2. \A k \in Local : [k EXCEPT !.at = at] \in Local
  BY DEF Local
<1>3. \A k \in Local : [k EXCEPT !.try = try] \in Local
  BY DEF Local
<1>4. \A k \in Local : [k EXCEPT !.pin = pin] \in Local
  BY DEF Local
<1>5. \A k \in Local : [k EXCEPT !.copy = copy] \in Local
  BY DEF Local
<1>6. QED  BY <1>1, <1>2, <1>3, <1>4, <1>5

LEMMA RestTyped ==
    ASSUME TypeOK, NEW t \in Thread, Rest(t)
    PROVE  thread' \in [Thread -> Local]
BY DEF TypeOK, Rest, Idle, Local, Places

LEMMA GoTyped ==
    ASSUME TypeOK, NEW t \in Thread, NEW place \in Places, Go(t, place)
    PROVE  thread' \in [Thread -> Local]
BY DEF TypeOK, Go, Local

Listing == {"append", "save", "write", "done"}

\* A thread that enters a PIN has one, and the HTTP thread knows whom it lists.
Given ==
    /\ \A t \in Thread : thread[t].at = "pin" => thread[t].pin \in Pin
    /\ thread["http"].at \in Listing => thread["http"].try \in Try

TypeInv == TypeOK /\ Given

LEMMA TypeInit == Init => TypeInv
<1> SUFFICES ASSUME Init PROVE TypeInv
  OBVIOUS
<1>2. Idle \in Local
  BY DEF Idle, Local, Places
<1>3. \A c \in Client : [stage |-> 0, n |-> 0] \in Attempt
  BY DEF Attempt
<1>4. 0 \in 0 .. MaxAdmin /\ 0 \in 0 .. MaxCrashes
  BY BoundAssumption
<1>5. client \in [Client -> Attempt] /\ thread \in [Thread -> Local]
  BY <1>2, <1>3 DEF Init
<1>6. file \in [list : SUBSET Try, torn : BOOLEAN]
  BY DEF Init
<1>7. TypeOK
  BY <1>4, <1>5, <1>6 DEF Init, TypeOK
<1>8. Given
  BY DEF Init, Given, Idle, Listing, Thread
<1>9. QED  BY <1>7, <1>8 DEF TypeInv

LEMMA TypeNext == TypeInv /\ [Next]_vars => TypeOK'
<1> SUFFICES ASSUME TypeInv, [Next]_vars PROVE TypeOK'
  OBVIOUS
<1>0. TypeOK
  BY DEF TypeInv
<1>1. CASE UNCHANGED vars
  BY <1>0, <1>1 DEF TypeOK, vars
<1>2. CASE Next
  <2> USE <1>0
  <2>0. spoilt' \in BOOLEAN
    BY <1>2 DEF Next, Note, TypeOK
  <2>t. "http" \in Thread /\ "config" \in Thread
    BY DEF Thread
  <2>i. Idle \in Local
    BY DEF Idle, Local, Places
  <2>1. ASSUME NEW c \in Client, Begin(c) PROVE TypeOK'
    <3>1. [c |-> c, n |-> client[c].n + 1] \in Try
      BY DEF TypeOK, Attempt, Try
    <3>2. requests' \subseteq Request
      BY <2>1, <3>1 DEF Begin, TypeOK, Request
    <3>3. client' \in [Client -> Attempt]
      BY <2>1 DEF Begin, TypeOK, Attempt
    <3>4. QED  BY <2>0, <2>1, <3>2, <3>3 DEF Begin, TypeOK, lists, counts
  <2>2. ASSUME NEW c \in Client, GiveUp(c) PROVE TypeOK'
    <3>1. client' \in [Client -> Attempt]
      BY <2>2 DEF GiveUp, TypeOK, Attempt
    <3>2. QED  BY <2>0, <2>2, <3>1 DEF GiveUp, TypeOK, lists, counts
  <2>3. ASSUME NEW c \in Client, Verify(c) PROVE TypeOK'
    <3>1. client' \in [Client -> Attempt]
      BY <2>3 DEF Verify, TypeOK, Attempt
    <3>2. QED  BY <2>0, <2>3, <3>1 DEF Verify, TypeOK, counts
  <2>4. ASSUME NEW r \in requests, GetServerCert(r) PROVE TypeOK'
    <3>1. r \in Request /\ r.from \in Try
      BY DEF TypeOK, Request
    <3>2. client' \in [Client -> Attempt] /\ requests' \subseteq Request
      BY <2>4, FailTyped DEF GetServerCert, TypeOK
    <3>3. sess' \in Session
      BY <2>4, <3>1 DEF GetServerCert, Session, Phase
    <3>4. thread' \in [Thread -> Local]
      BY <2>4, <2>t, GoTyped DEF GetServerCert, Places
    <3>5. QED  BY <2>0, <2>4, <3>2, <3>3, <3>4 DEF GetServerCert, TypeOK, lists, counts
  <2>5. ASSUME NEW r \in requests, InvalidId(r) PROVE TypeOK'
    <3>1. client' \in [Client -> Attempt] /\ requests' \subseteq Request
      BY <2>5, FailTyped DEF InvalidId, TypeOK
    <3>2. QED  BY <2>0, <2>5, <3>1 DEF InvalidId, TypeOK, lists, counts
  <2>6. ASSUME NEW r \in requests, OutOfOrder(r) \/ Refute(r) PROVE TypeOK'
    <3>1. client' \in [Client -> Attempt] /\ requests' \subseteq Request
      BY <2>6, FailTyped DEF OutOfOrder, Refute, TypeOK
    <3>2. QED  BY <2>0, <2>6, <3>1 DEF OutOfOrder, Refute, TypeOK, lists, counts
  <2>7. ASSUME NEW r \in requests, ClientChallenge(r) PROVE TypeOK'
    <3>1. r \in Request /\ r.from \in Try
      BY DEF TypeOK, Request
    <3>2. sess \in Session /\ sess.of \in Try
      BY <2>7 DEF ClientChallenge, InOrder, TypeOK, Session
    <3>3. client' \in [Client -> Attempt] /\ requests' \subseteq Request
      <4> DEFINE knows == IF SameKey(r) THEN sess.of ELSE None
      <4>1. knows \in Try \cup {None}
        BY <3>2
      <4>2. requests \ {r} \in SUBSET Request
        BY DEF TypeOK
      <4>3. Accept(r.from, 2, knows, requests \ {r})
        BY <2>7 DEF ClientChallenge
      <4> HIDE DEF knows
      <4>4. QED  BY <3>1, <4>1, <4>2, <4>3, AcceptTyped
    <3>4. sess' \in Session
      BY <2>7, <3>2 DEF ClientChallenge, Session, Phase
    <3>5. QED  BY <2>0, <2>7, <3>3, <3>4 DEF ClientChallenge, TypeOK, lists, counts
  <2>8. ASSUME NEW r \in requests, ServerChallengeResp(r) PROVE TypeOK'
    <3>1. r \in Request /\ r.from \in Try /\ r.knows \in Try \cup {None}
      BY DEF TypeOK, Request
    <3>2. sess \in Session /\ sess.of \in Try
      BY <2>8 DEF ServerChallengeResp, InOrder, TypeOK, Session
    <3>3. client' \in [Client -> Attempt] /\ requests' \subseteq Request
      <4>1. requests \ {r} \in SUBSET Request
        BY DEF TypeOK
      <4>2. Accept(r.from, 3, r.knows, requests \ {r})
        BY <2>8 DEF ServerChallengeResp
      <4>3. QED  BY <3>1, <4>1, <4>2, AcceptTyped
    <3>4. sess' \in Session
      <4>1. (IF SameKey(r) THEN [by |-> r.from, on |-> r.knows] ELSE None) \in Hash \cup {None}
        BY <3>1 DEF Hash
      <4>2. QED  BY <2>8, <3>2, <4>1 DEF ServerChallengeResp, Session, Phase
    <3>5. QED  BY <2>0, <2>8, <3>3, <3>4 DEF ServerChallengeResp, TypeOK, lists, counts
  <2>9. ASSUME NEW r \in requests, ClientPairingSecret(r) PROVE TypeOK'
    <3>1. r \in Request /\ r.from \in Try /\ r.from.c \in Client
      BY DEF TypeOK, Request, Try
    <3>2. sess' \in Session
      BY <2>9 DEF ClientPairingSecret, InOrder, TypeOK, Session, Phase
    <3>3. thread' \in [Thread -> Local]
      <4>1. "append" \in Places
        BY DEF Places
      <4>2. thread' = [thread EXCEPT !["http"].at = "append", !["http"].try = r.from]
        BY <2>9 DEF ClientPairingSecret
      <4>3. QED  BY <2>t, <2>i, <3>1, <4>1, <4>2, UpdateTyped
    <3>4. QED  BY <2>0, <2>9, <3>1, <3>2, <3>3 DEF ClientPairingSecret, TypeOK, counts
  <2>10. CASE FetchPin
    <3>1. thread' \in [Thread -> Local]
      <4>1. CASE Rest("http")
        BY <2>t, <4>1, RestTyped
      <4>2. ASSUME NEW p \in Handed,
                   thread' = [thread EXCEPT !["http"].at = "pin", !["http"].pin = p]
            PROVE  thread' \in [Thread -> Local]
        <5>1. "pin" \in Places /\ p \in Pin
          BY TypedAssumption DEF Places
        <5>2. QED  BY <2>t, <2>i, <4>2, <5>1, UpdateTyped
      <4>3. QED  BY <2>10, <4>1, <4>2 DEF FetchPin
    <3>2. UNCHANGED <<served, sess, lists, counts, granted, told>>
      BY <2>10 DEF FetchPin
    <3>3. QED  BY <2>0, <3>1, <3>2 DEF TypeOK, served, lists, counts
  <2>c. CASE CutFetch
    <3>1. thread' \in [Thread -> Local]
      BY <2>c, <2>t, GoTyped DEF CutFetch, Places
    <3>2. QED  BY <2>0, <2>c, <3>1 DEF CutFetch, TypeOK, served, lists, counts
  <2>11. CASE Append
    <3>1. thread' \in [Thread -> Local]
      BY <2>11, <2>t, GoTyped DEF Append, Places
    <3>2. thread["http"].try \in Try
      BY <2>11 DEF Append, At, TypeInv, Given, Listing
    <3>3. named_devices' \in SUBSET Try
      BY <2>11, <3>2 DEF Append, TypeOK
    <3>4. UNCHANGED <<served, sess, file, cert_chain, add_cert, counts, granted, told>>
      BY <2>11 DEF Append
    <3>5. QED  BY <2>0, <3>1, <3>3, <3>4 DEF TypeOK, served, counts
  <2>12. CASE Pairing
    <3>1. thread["http"].try \in Try
      BY <2>12 DEF Pairing, At, TypeInv, Given, Listing
    <3>2. thread' \in [Thread -> Local]
      BY <2>12, <2>t, RestTyped DEF Pairing
    <3>3. client' \in [Client -> Attempt]
      <4>1. thread["http"].try.c \in Client
        BY <3>1 DEF Try
      <4>2. QED  BY <2>12, <4>1 DEF Pairing, TypeOK, Attempt
    <3>4. told' \subseteq Try /\ sess' = None
      BY <2>12, <3>1 DEF Pairing, TypeOK
    <3>5. UNCHANGED <<requests, lists, counts, granted>>
      BY <2>12 DEF Pairing
    <3>6. QED  BY <2>0, <3>2, <3>3, <3>4, <3>5 DEF TypeOK, lists, counts
  <2>13. ASSUME NEW p \in Pin, SavePin(p) PROVE TypeOK'
    <3>1. thread' \in [Thread -> Local]
      <4>1. "pin" \in Places
        BY DEF Places
      <4>2. thread' = [thread EXCEPT !["config"].at = "pin", !["config"].pin = p]
        BY <2>13 DEF SavePin
      <4>3. QED  BY <2>t, <2>i, <4>1, <4>2, UpdateTyped
    <3>2. admins' \in 0 .. MaxAdmin
      BY <2>13, BoundAssumption DEF SavePin, TypeOK
    <3>3. QED  BY <2>0, <2>13, <3>1, <3>2 DEF SavePin, TypeOK, served, lists
  <2>14. ASSUME NEW t \in Thread, NoPairing(t) \/ Dangle(t) PROVE TypeOK'
    <3>1. thread' \in [Thread -> Local]
      BY <2>14, RestTyped DEF NoPairing, Dangle
    <3>2. QED  BY <2>0, <2>14, <3>1 DEF NoPairing, Dangle, TypeOK, served, lists, counts
  <2>15. ASSUME NEW t \in Thread, SecondPin(t) PROVE TypeOK'
    <3>1. client' \in [Client -> Attempt] /\ requests' \subseteq Request
      BY <2>15, FailTyped DEF SecondPin, TypeOK
    <3>2. thread' \in [Thread -> Local]
      BY <2>15, GoTyped DEF SecondPin, Places
    <3>3. QED  BY <2>0, <2>15, <3>1, <3>2 DEF SecondPin, TypeOK, lists, counts
  <2>16. ASSUME NEW t \in Thread, EnterPin(t) PROVE TypeOK'
    <3>1. sess \in Session /\ sess.of \in Try /\ thread[t].pin \in Pin \cup {None}
      BY <2>16 DEF EnterPin, TypeOK, Session, Local
    <3>2. sess' \in Session
      BY <2>16, <3>1 DEF EnterPin, Session, Phase
    <3>3. thread' \in [Thread -> Local]
      <4>1. "reply" \in Places
        BY DEF Places
      <4>2. thread' = [thread EXCEPT ![t].at = "reply", ![t].try = sess.of]
        BY <2>16 DEF EnterPin
      <4>3. QED  BY <2>i, <3>1, <4>1, <4>2, UpdateTyped
    <3>4. thread[t].pin \in Pin
      BY <2>16 DEF EnterPin, At, TypeInv, Given
    <3>5. granted' \subseteq [of : Try, pin : Pin]
      BY <2>16, <3>1, <3>4 DEF EnterPin, TypeOK
    <3>6. QED  BY <2>0, <2>16, <3>2, <3>3, <3>5 DEF EnterPin, TypeOK, served, lists, counts
  <2>17. ASSUME NEW t \in Thread, SendCert(t) PROVE TypeOK'
    <3>1. thread' \in [Thread -> Local]
      BY <2>17, RestTyped DEF SendCert
    <3>2. CASE sess.response = None
      BY <2>0, <2>17, <3>1, <3>2 DEF SendCert, TypeOK, served, lists, counts
    <3>3. CASE sess.response # None
      <4>1. sess \in Session /\ sess.response \in Try
        BY <2>17, <3>3 DEF SendCert, Intact, TypeOK, Session
      <4>2. client' \in [Client -> Attempt] /\ requests' \subseteq Request
        <5>1. Accept(sess.response, 1, None, requests) /\ requests \in SUBSET Request
          BY <2>17, <3>3 DEF SendCert, TypeOK
        <5>2. QED  BY <4>1, <5>1, AcceptTyped
      <4>3. sess' \in Session
        BY <2>17, <3>3, <4>1 DEF SendCert, Session
      <4>4. QED  BY <2>0, <2>17, <3>1, <4>2, <4>3 DEF SendCert, TypeOK, lists, counts
    <3>4. QED  BY <3>2, <3>3
  <2>18. ASSUME NEW t \in Thread PROVE Saved(t) \in Local
    BY <2>i DEF Saved, TypeOK, Local, Places
  <2>19. ASSUME NEW t \in Thread, SaveState(t) PROVE TypeOK'
    <3>1. thread' \in [Thread -> Local]
      <4>1. "write" \in Places /\ named_devices \in SUBSET Try
        BY DEF TypeOK, Places
      <4>2. \/ thread' = [thread EXCEPT ![t] = Saved(t)]
            \/ thread' = [thread EXCEPT ![t].at = "write", ![t].copy = named_devices]
        BY <2>19 DEF SaveState
      <4>3. Saved(t) \in Local
        BY <2>18
      <4>4. CASE thread' = [thread EXCEPT ![t] = Saved(t)]
        BY <2>t, <4>1, <4>3, <4>4, UpdateTyped
      <4>5. CASE thread' = [thread EXCEPT ![t].at = "write", ![t].copy = named_devices]
        BY <2>i, <4>1, <4>5, UpdateTyped
      <4>6. QED  BY <4>2, <4>4, <4>5
    <3>2. file' \in [list : SUBSET Try, torn : BOOLEAN]
      <4>1. file' = file \/ file' = [list |-> {}, torn |-> TRUE]
        BY <2>19 DEF SaveState
      <4>2. [list |-> {}, torn |-> TRUE] \in [list : SUBSET Try, torn : BOOLEAN]
        OBVIOUS
      <4>3. file \in [list : SUBSET Try, torn : BOOLEAN]
        BY DEF TypeOK
      <4>4. QED  BY <4>1, <4>2, <4>3
    <3>3. QED  BY <2>0, <2>19, <3>1, <3>2 DEF SaveState, TypeOK, served, counts
  <2>20. ASSUME NEW t \in Thread, WriteState(t) PROVE TypeOK'
    <3>1. thread' \in [Thread -> Local]
      <4>1. Saved(t) \in Local /\ "write" \in Places
        BY <2>18 DEF Places
      <4>2. thread' = [thread EXCEPT ![t] = Saved(t)]
        BY <2>20 DEF WriteState
      <4>3. QED  BY <4>1, <4>2, UpdateTyped
    <3>2. file' \in [list : SUBSET Try, torn : BOOLEAN]
      BY <2>20 DEF WriteState, TypeOK, Local
    <3>3. QED  BY <2>0, <2>20, <3>1, <3>2 DEF WriteState, TypeOK, served, counts
  <2>21. ASSUME NEW e \in named_devices, UnpairClient(e) PROVE TypeOK'
    <3>1. thread' \in [Thread -> Local]
      <4>1. "save" \in Places /\ e \in Try
        BY DEF TypeOK, Places
      <4>2. thread' = [thread EXCEPT !["config"].at = "save", !["config"].try = e]
        BY <2>21 DEF UnpairClient
      <4>3. QED  BY <2>t, <2>i, <4>1, <4>2, UpdateTyped
    <3>2. admins' \in 0 .. MaxAdmin
      BY <2>21, BoundAssumption DEF UnpairClient, TypeOK
    <3>3. QED  BY <2>0, <2>21, <3>1, <3>2 DEF UnpairClient, TypeOK, served
  <2>22. CASE EraseAllClients
    <3>1. thread' \in [Thread -> Local]
      BY <2>22, <2>t, GoTyped DEF EraseAllClients, Places
    <3>2. admins' \in 0 .. MaxAdmin
      BY <2>22, BoundAssumption DEF EraseAllClients, TypeOK
    <3>3. /\ named_devices' = {} /\ cert_chain' = {} /\ told' = {}
          /\ UNCHANGED <<served, sess, file, add_cert, crashes, granted>>
      BY <2>22 DEF EraseAllClients
    <3>4. QED  BY <2>0, <3>1, <3>2, <3>3 DEF TypeOK, served
  <2>23. CASE LoadState
    <3>1. file.list \in SUBSET Try
      BY DEF TypeOK
    <3>2. thread' \in [Thread -> Local]
      <4>1. CASE Rest("config")
        BY <2>t, <4>1, RestTyped
      <4>2. CASE thread' = [thread EXCEPT !["config"].at = "assign", !["config"].copy = file.list]
        <5>1. "assign" \in Places
          BY DEF Places
        <5>2. QED  BY <2>t, <2>i, <3>1, <4>2, <5>1, UpdateTyped
      <4>3. QED  BY <2>23, <4>1, <4>2 DEF LoadState
    <3>3. cert_chain' \subseteq Client
      <4>1. Certs(file.list) \subseteq Client
        BY <3>1 DEF Certs, Try
      <4>2. QED  BY <2>23, <4>1 DEF LoadState, TypeOK
    <3>4. UNCHANGED <<served, sess, named_devices, file, add_cert, counts, granted, told>>
      BY <2>23 DEF LoadState
    <3>5. QED  BY <2>0, <3>2, <3>3, <3>4 DEF TypeOK, served, counts
  <2>24. CASE AssignList
    <3>1. thread' \in [Thread -> Local]
      BY <2>24, <2>t, RestTyped DEF AssignList
    <3>2. named_devices' \in SUBSET Try
      <4>1. thread["config"].copy \in SUBSET Try
        BY <2>t DEF TypeOK, Local
      <4>2. QED  BY <2>24, <4>1 DEF AssignList
    <3>3. UNCHANGED <<served, sess, file, cert_chain, add_cert, counts, granted, told>>
      BY <2>24 DEF AssignList
    <3>4. QED  BY <2>0, <3>1, <3>2, <3>3 DEF TypeOK, served, counts
  <2>25. CASE Crash
    <3>1. thread' \in [Thread -> Local]
      BY <2>25, <2>i DEF Crash
    <3>2. client' \in [Client -> Attempt]
      BY <2>25 DEF Crash, TypeOK, Attempt
    <3>3. cert_chain' \subseteq Client /\ named_devices' \in SUBSET Try
      <4>1. file.list \in SUBSET Try /\ Certs(file.list) \subseteq Client
        BY DEF Certs, TypeOK, Try
      <4>2. QED  BY <2>25, <4>1 DEF Crash
    <3>4. crashes' \in 0 .. MaxCrashes
      BY <2>25, BoundAssumption DEF Crash, TypeOK
    <3>5. /\ sess' = None /\ add_cert' = {} /\ requests' = {}
          /\ UNCHANGED <<file, admins, granted, told>>
      BY <2>25 DEF Crash
    <3>6. QED  BY <2>0, <3>1, <3>2, <3>3, <3>4, <3>5 DEF TypeOK
  <2>26. QED
    <3>1. CASE \E c \in Client : Begin(c) \/ GiveUp(c) \/ Verify(c)
      BY <2>1, <2>2, <2>3, <3>1
    <3>2. CASE Http
      BY <2>4, <2>5, <2>6, <2>7, <2>8, <2>9, <2>10, <2>11, <2>12, <3>2 DEF Http
    <3>3. CASE \E t \in Thread : Both(t)
      BY <2>14, <2>15, <2>16, <2>17, <2>19, <2>20, <3>3 DEF Both
    <3>4. QED  BY <1>2, <2>13, <2>21, <2>22, <2>23, <2>24, <2>25, <2>c, <3>1, <3>2, <3>3 DEF Next
<1>3. QED  BY <1>1, <1>2

\* One thread goes where no PIN or listed client is needed.
LEMMA GivenNext == TypeInv /\ [Next]_vars => Given'
<1> SUFFICES ASSUME TypeInv, [Next]_vars PROVE Given'
  OBVIOUS
<1> USE DEF TypeInv
<1>t. "http" \in Thread /\ "config" \in Thread /\ DOMAIN thread = Thread
  BY DEF Thread, TypeOK
<1>l. \A t \in Thread : thread[t] \in Local
  BY DEF TypeOK
<1>k. ASSUME UNCHANGED thread PROVE Given'
  BY <1>k DEF Given
<1>r. ASSUME NEW t \in Thread, Rest(t) PROVE Given'
  BY <1>r, <1>t, <1>l DEF Given, Rest, Idle, Listing, Local
<1>g. ASSUME NEW t \in Thread, NEW place \in Places \ {"pin"}, Go(t, place),
             t = "http" /\ place \in Listing => thread[t].at \in Listing
      PROVE Given'
  BY <1>g, <1>t, <1>l DEF Given, Go, Local, Listing
<1>1. CASE UNCHANGED vars
  BY <1>1, <1>k DEF vars
<1>2. CASE Next
  <2>1. ASSUME NEW c \in Client, Begin(c) \/ GiveUp(c) \/ Verify(c) PROVE Given'
    BY <2>1, <1>k DEF Begin, GiveUp, Verify
  <2>2. ASSUME NEW r \in requests, GetServerCert(r) PROVE Given'
    BY <2>2, <1>t, <1>g DEF GetServerCert, Listing, Places
  <2>3. ASSUME NEW r \in requests,
               \/ InvalidId(r) \/ OutOfOrder(r) \/ ClientChallenge(r)
               \/ ServerChallengeResp(r) \/ Refute(r)
        PROVE Given'
    BY <2>3, <1>k DEF InvalidId, OutOfOrder, ClientChallenge, ServerChallengeResp, Refute
  <2>4. ASSUME NEW r \in requests, ClientPairingSecret(r) PROVE Given'
    <3>1. thread' = [thread EXCEPT !["http"].at = "append", !["http"].try = r.from]
      BY <2>4 DEF ClientPairingSecret
    <3>2. r.from \in Try
      BY DEF TypeOK, Request
    <3>3. QED  BY <3>1, <3>2, <1>t, <1>l DEF Given, Listing, Local
  <2>5. CASE FetchPin
    <3>1. ASSUME NEW p \in Handed,
                 thread' = [thread EXCEPT !["http"].at = "pin", !["http"].pin = p]
          PROVE  Given'
      BY <3>1, <1>t, <1>l, TypedAssumption DEF Given, Listing, Local
    <3>2. QED  BY <2>5, <3>1, <1>t, <1>r DEF FetchPin
  <2>c. CASE CutFetch
    BY <2>c, <1>t, <1>g DEF CutFetch, Listing, Places
  <2>6. CASE Append
    BY <2>6, <1>t, <1>g DEF Append, At, Listing, Places
  <2>7. CASE Pairing
    BY <2>7, <1>t, <1>r DEF Pairing
  <2>8. ASSUME NEW p \in Pin, SavePin(p) PROVE Given'
    <3>1. thread' = [thread EXCEPT !["config"].at = "pin", !["config"].pin = p]
      BY <2>8 DEF SavePin
    <3>2. QED  BY <3>1, <1>t, <1>l DEF Given, Listing, Local
  <2>9. ASSUME NEW t \in Thread, NoPairing(t) \/ Dangle(t) \/ SendCert(t) PROVE Given'
    BY <2>9, <1>r DEF NoPairing, Dangle, SendCert
  <2>10. ASSUME NEW t \in Thread, SecondPin(t) PROVE Given'
    BY <2>10, <1>g DEF SecondPin, Listing, Places
  <2>11. ASSUME NEW t \in Thread, EnterPin(t) PROVE Given'
    <3>1. thread' = [thread EXCEPT ![t].at = "reply", ![t].try = sess.of]
      BY <2>11 DEF EnterPin
    <3>2. QED  BY <3>1, <1>t, <1>l DEF Given, Listing, Local
  <2>12. ASSUME NEW t \in Thread, At(t, "save") \/ At(t, "write"),
                thread' = [thread EXCEPT ![t] = Saved(t)]
         PROVE  Given'
    <3>1. CASE t = "http"
      <4>1. Saved(t) = [thread[t] EXCEPT !.at = "done"]
        BY <3>1 DEF Saved
      <4>2. QED  BY <2>12, <3>1, <4>1, <1>t, <1>l DEF Given, Listing, Local, At
    <3>2. CASE t # "http"
      <4>1. Saved(t) = Idle \/ Saved(t) = [thread[t] EXCEPT !.at = "load"]
        BY <3>2 DEF Saved
      <4>2. QED  BY <2>12, <3>2, <4>1, <1>t, <1>l DEF Given, Idle, Local
    <3>3. QED  BY <3>1, <3>2
  <2>13. ASSUME NEW t \in Thread, SaveState(t) PROVE Given'
    <3>1. ASSUME thread' = [thread EXCEPT ![t].at = "write", ![t].copy = named_devices]
          PROVE  Given'
      BY <2>13, <3>1, <1>t, <1>l DEF SaveState, At, Given, Listing, Local
    <3>2. QED  BY <2>12, <2>13, <3>1 DEF SaveState
  <2>14. ASSUME NEW t \in Thread, WriteState(t) PROVE Given'
    BY <2>12, <2>14 DEF WriteState
  <2>15. ASSUME NEW e \in named_devices, UnpairClient(e) PROVE Given'
    <3>1. thread' = [thread EXCEPT !["config"].at = "save", !["config"].try = e]
      BY <2>15 DEF UnpairClient
    <3>2. QED  BY <3>1, <1>t, <1>l DEF Given, Listing, Local
  <2>16. CASE EraseAllClients
    BY <2>16, <1>t, <1>g DEF EraseAllClients, Places
  <2>17. CASE LoadState
    <3>1. ASSUME thread' = [thread EXCEPT !["config"].at = "assign", !["config"].copy = file.list]
          PROVE  Given'
      BY <3>1, <1>t, <1>l DEF Given, Listing, Local
    <3>2. QED  BY <2>17, <3>1, <1>t, <1>r DEF LoadState
  <2>18. CASE AssignList
    BY <2>18, <1>t, <1>r DEF AssignList
  <2>19. CASE Crash
    BY <2>19 DEF Crash, Given, Idle, Listing, Thread
  <2>20. QED
    <3>1. CASE \E t \in Thread : Both(t)
      BY <2>9, <2>10, <2>11, <2>13, <2>14, <3>1 DEF Both
    <3>2. CASE Http
      BY <2>2, <2>3, <2>4, <2>5, <2>6, <2>7, <3>2 DEF Http
    <3>3. QED  BY <1>2, <2>1, <2>8, <2>15, <2>16, <2>17, <2>18, <2>19, <2>c, <3>1, <3>2 DEF Next
<1>3. QED  BY <1>1, <1>2

\* What every state of the pairing is made of: no challenge is taken for a hash,
\* no attempt for a client, and no thread enters a PIN it was not given.
THEOREM Typing == Spec => []TypeOK
<1>1. TypeInv /\ [Next]_vars => TypeInv'
  BY TypeNext, GivenNext DEF TypeInv
<1>2. TypeInv => TypeOK
  BY DEF TypeInv
<1>3. QED  BY <1>1, <1>2, TypeInit, PTL DEF Spec

----------------------------------------------------------------------------
\* Who is listed has proved the PIN.

\* Where the proof of a PIN is on its way to the lists.
Carried ==
    /\ sess # None /\ sess.pin # None => [of |-> sess.of, pin |-> sess.pin] \in granted
    /\ sess # None /\ sess.clienthash # None => sess.clienthash.by = sess.of /\ Proved(sess.of)
    /\ thread["http"].at \in Listing => Proved(thread["http"].try)
    /\ \A t \in Thread : \A e \in thread[t].copy : Proved(e)

Secret == TypeInv /\ Carried /\ ListedProved

LEMMA SecretInit == Init => Secret
<1> SUFFICES ASSUME Init PROVE Secret
  OBVIOUS
<1>1. Carried
  BY DEF Init, Carried, Idle, Listing, Thread
<1>2. ListedProved
  BY DEF Init, ListedProved
<1>3. QED  BY <1>1, <1>2, TypeInit DEF Secret

\* A proof of the PIN is never taken back.
LEMMA GrantedKept == TypeInv /\ [Next]_vars => granted \subseteq granted'
BY DEF Next, vars, Http, Both, Begin, GiveUp, Verify, GetServerCert, InvalidId, OutOfOrder,
       ClientChallenge, ServerChallengeResp, Refute, ClientPairingSecret, FetchPin, CutFetch,
       Append, Pairing,
       NoPairing, SecondPin, EnterPin, SendCert, Dangle, SaveState, WriteState, SavePin,
       UnpairClient, EraseAllClients, LoadState, AssignList, Crash

\* The client that a proof lets in.
LEMMA ProvedCert ==
    ASSUME TypeInv, NEW e \in Try, Proved(e)
    PROVE  \E g \in granted : g.of.c = e.c /\ g.pin = Typed[e.c]
BY DEF Proved

\* The session holds a PIN only after it was granted to the one that opened it,
\* and a hash only of that one, made with that PIN.
LEMMA SessionSecret ==
    ASSUME Secret, [Next]_vars
    PROVE  /\ sess' # None /\ sess'.pin # None => [of |-> sess'.of, pin |-> sess'.pin] \in granted'
           /\ sess' # None /\ sess'.clienthash # None
              => sess'.clienthash.by = sess'.of /\ Proved(sess.of)'
<1> DEFINE Goal ==
      /\ sess' # None /\ sess'.pin # None => [of |-> sess'.of, pin |-> sess'.pin] \in granted'
      /\ sess' # None /\ sess'.clienthash # None
         => sess'.clienthash.by = sess'.of /\ Proved(sess.of)'
<1>t. TypeInv /\ TypeOK
  BY DEF Secret, TypeInv
<1>g. granted \subseteq granted'
  BY <1>t, GrantedKept
<1>s. sess # None => sess \in Session
  BY <1>t DEF TypeOK
<1>k. ASSUME UNCHANGED sess PROVE Goal
  BY <1>k, <1>g DEF Secret, Carried, Proved
<1>n. ASSUME sess' = None PROVE Goal
  BY <1>n
<1>p. ASSUME sess # None, sess' \in Session, sess'.of = sess.of, sess'.pin = sess.pin,
             sess'.clienthash = sess.clienthash
      PROVE Goal
  BY <1>p, <1>g DEF Secret, Carried, Proved
<1>1. CASE UNCHANGED vars
  BY <1>1, <1>k DEF vars
<1>2. CASE Next
  <2>1. ASSUME NEW c \in Client, Begin(c) \/ GiveUp(c) \/ Verify(c) PROVE Goal
    BY <2>1, <1>k DEF Begin, GiveUp, Verify
  <2>2. ASSUME NEW r \in requests, GetServerCert(r) PROVE Goal
    BY <2>2 DEF GetServerCert
  <2>3. ASSUME NEW r \in requests, InvalidId(r) PROVE Goal
    BY <2>3, <1>k DEF InvalidId
  <2>4. ASSUME NEW r \in requests, OutOfOrder(r) \/ Refute(r) PROVE Goal
    BY <2>4, <1>n DEF OutOfOrder, Refute
  <2>5. ASSUME NEW r \in requests, ClientChallenge(r) \/ ClientPairingSecret(r) PROVE Goal
    BY <2>5, <1>s, <1>p DEF ClientChallenge, ClientPairingSecret, InOrder, Session, Phase
  <2>6. ASSUME NEW r \in requests, ServerChallengeResp(r) PROVE Goal
    <3>1. sess # None /\ sess \in Session
      BY <2>6, <1>s DEF ServerChallengeResp, InOrder
    <3>2. /\ sess'.of = sess.of /\ sess'.pin = sess.pin
          /\ sess'.clienthash = IF SameKey(r) THEN [by |-> r.from, on |-> r.knows] ELSE None
      BY <2>6, <3>1 DEF ServerChallengeResp, Session
    <3>3. sess'.pin # None => [of |-> sess'.of, pin |-> sess'.pin] \in granted'
      BY <3>1, <3>2, <1>g DEF Secret, Carried
    <3>4. CASE SameKey(r)
      <4>1. r.from = sess.of /\ sess.pin = Typed[sess.of.c] /\ sess.of.c \in Client
        BY <3>1, <3>4 DEF SameKey, Session, Try
      <4>2. sess.pin # None
        BY <4>1, TypedAssumption, NoneAssumption
      <4>3. Proved(sess.of)'
        BY <3>1, <3>2, <4>1, <4>2, <1>g DEF Secret, Carried, Proved
      <4>4. QED  BY <3>2, <3>3, <3>4, <4>1, <4>3
    <3>5. CASE ~ SameKey(r)
      BY <3>2, <3>3, <3>5
    <3>6. QED  BY <3>4, <3>5
  <2>7. CASE FetchPin \/ CutFetch \/ Append
    BY <2>7, <1>k DEF FetchPin, CutFetch, Append
  <2>8. CASE Pairing
    BY <2>8, <1>n DEF Pairing
  <2>9. ASSUME NEW t \in Thread, NoPairing(t) \/ Dangle(t) \/ SaveState(t) \/ WriteState(t)
        PROVE  Goal
    BY <2>9, <1>k DEF NoPairing, Dangle, SaveState, WriteState
  <2>10. ASSUME NEW t \in Thread, SecondPin(t) PROVE Goal
    BY <2>10, <1>n DEF SecondPin
  <2>11. ASSUME NEW t \in Thread, EnterPin(t) PROVE Goal
    <3>1. /\ sess # None /\ sess \in Session
          /\ sess' = [sess EXCEPT !.last_phase = "GETSERVERCERT", !.pin = thread[t].pin]
          /\ granted' = granted \cup {[of |-> sess.of, pin |-> thread[t].pin]}
      BY <2>11, <1>s DEF EnterPin
    <3>2. /\ sess'.of = sess.of /\ sess'.pin = thread[t].pin
          /\ sess'.clienthash = sess.clienthash
      BY <3>1 DEF Session
    <3>3. QED  BY <3>1, <3>2, <1>g DEF Secret, Carried, Proved
  <2>12. ASSUME NEW t \in Thread, SendCert(t) PROVE Goal
    <3>1. sess # None /\ sess \in Session
      BY <2>12, <1>s DEF SendCert, Intact
    <3>2. CASE sess' = [sess EXCEPT !.response = None]
      BY <3>1, <3>2, <1>p DEF Session
    <3>3. QED  BY <2>12, <3>2, <1>k DEF SendCert, served
  <2>13. ASSUME NEW p \in Pin, SavePin(p) PROVE Goal
    BY <2>13, <1>k DEF SavePin
  <2>14. ASSUME NEW e \in named_devices, UnpairClient(e) PROVE Goal
    BY <2>14, <1>k DEF UnpairClient
  <2>15. CASE EraseAllClients \/ LoadState \/ AssignList
    BY <2>15, <1>k DEF EraseAllClients, LoadState, AssignList
  <2>16. CASE Crash
    BY <2>16, <1>n DEF Crash
  <2>17. QED
    <3>1. CASE \E t \in Thread : Both(t)
      BY <2>9, <2>10, <2>11, <2>12, <3>1 DEF Both
    <3>2. CASE Http
      BY <2>2, <2>3, <2>4, <2>5, <2>6, <2>7, <2>8, <3>2 DEF Http
    <3>3. QED  BY <1>2, <2>1, <2>7, <2>13, <2>14, <2>15, <2>16, <3>1, <3>2 DEF Next
<1>3. QED  BY <1>1, <1>2

\* A request is taken for the last one only from the attempt that opened the
\* session, which has proved its PIN.
LEMMA ProvesProved ==
    ASSUME Secret, NEW r \in requests, ClientPairingSecret(r)
    PROVE  Proved(r.from) /\ r.from \in Try /\ r.from.c \in Client
<1>1. TypeOK /\ r \in Request /\ r.from \in Try
  BY DEF Secret, TypeInv, TypeOK, Request
<1>2. sess # None /\ sess \in Session /\ sess.of \in Try
  BY <1>1 DEF ClientPairingSecret, InOrder, TypeOK, Session
<1>3. sess.clienthash = [by |-> r.from, on |-> sess.of]
  BY DEF ClientPairingSecret, Proves
<1>4. sess.clienthash \in Hash
  BY <1>1, <1>2, <1>3 DEF Hash
<1>5. r.from = sess.of /\ Proved(sess.of)
  BY <1>2, <1>3, <1>4, NoneAssumption DEF Secret, Carried
<1>6. QED  BY <1>1, <1>5 DEF Try

\* Whom a thread lists, or copies from list to file and back, has proved it.
LEMMA ThreadSecret ==
    ASSUME Secret, [Next]_vars
    PROVE  /\ thread'["http"].at \in Listing => Proved(thread["http"].try)'
           /\ \A t \in Thread : \A e \in thread'[t].copy : Proved(e)'
<1> DEFINE Goal ==
      /\ thread'["http"].at \in Listing => Proved(thread["http"].try)'
      /\ \A t \in Thread : \A e \in thread'[t].copy : Proved(e)'
<1>t. /\ TypeInv /\ TypeOK /\ "http" \in Thread /\ "config" \in Thread
      /\ thread \in [Thread -> Local] /\ \A t \in Thread : thread[t] \in Local
  BY DEF Secret, TypeInv, TypeOK, Thread
<1>g. granted \subseteq granted'
  BY <1>t, GrantedKept
<1>k. ASSUME UNCHANGED thread PROVE Goal
  BY <1>k, <1>g DEF Secret, Carried, Proved
<1>u. ASSUME NEW t \in Thread, NEW l \in Local, thread' = [thread EXCEPT ![t] = l],
             \A e \in l.copy : Proved(e), t = "http" /\ l.at \in Listing => Proved(l.try)
      PROVE  Goal
  BY <1>u, <1>t, <1>g DEF Secret, Carried, Proved
<1>c. \A t \in Thread : \A e \in thread[t].copy : Proved(e)
  BY DEF Secret, Carried
<1>r. ASSUME NEW t \in Thread, Rest(t) PROVE Goal
  <2>1. Idle \in Local /\ Idle.copy = {} /\ Idle.at \notin Listing
    BY DEF Idle, Local, Places, Listing
  <2>2. QED  BY <1>r, <1>u, <2>1 DEF Rest
<1>g1. ASSUME NEW t \in Thread, NEW place \in Places, Go(t, place),
              t = "http" /\ place \in Listing => thread[t].at \in Listing
       PROVE  Goal
  <2> DEFINE l == [thread[t] EXCEPT !.at = place]
  <2>1. l \in Local /\ l.copy = thread[t].copy /\ l.try = thread[t].try /\ l.at = place
    BY <1>t DEF Local
  <2>2. thread' = [thread EXCEPT ![t] = l]
    BY <1>g1 DEF Go
  <2>3. t = "http" /\ l.at \in Listing => Proved(l.try)
    BY <1>g1, <2>1 DEF Secret, Carried
  <2>4. \A e \in l.copy : Proved(e)
    BY <1>c, <2>1
  <2> HIDE DEF l
  <2>5. QED  BY <1>u, <2>1, <2>2, <2>3, <2>4
<1>o. ASSUME NEW t \in Thread, NEW l \in Local, thread' = [thread EXCEPT ![t] = l],
             l.copy = thread[t].copy, l.at \notin Listing
      PROVE  Goal
  BY <1>c, <1>o, <1>u
<1>1. CASE UNCHANGED vars
  BY <1>1, <1>k DEF vars
<1>2. CASE Next
  <2>1. ASSUME NEW c \in Client, Begin(c) \/ GiveUp(c) \/ Verify(c) PROVE Goal
    BY <2>1, <1>k DEF Begin, GiveUp, Verify
  <2>2. ASSUME NEW r \in requests, GetServerCert(r) PROVE Goal
    BY <2>2, <1>t, <1>g1 DEF GetServerCert, Listing, Places
  <2>3. ASSUME NEW r \in requests,
               \/ InvalidId(r) \/ OutOfOrder(r) \/ ClientChallenge(r)
               \/ ServerChallengeResp(r) \/ Refute(r)
        PROVE Goal
    BY <2>3, <1>k DEF InvalidId, OutOfOrder, ClientChallenge, ServerChallengeResp, Refute
  <2>4. ASSUME NEW r \in requests, ClientPairingSecret(r) PROVE Goal
    <3> DEFINE l == [thread["http"] EXCEPT !.at = "append", !.try = r.from]
    <3>1. Proved(r.from) /\ r.from \in Try
      BY <2>4, ProvesProved
    <3>2. l \in Local /\ l.copy = thread["http"].copy /\ l.try = r.from
      BY <1>t, <3>1 DEF Local, Places
    <3>3. thread' = [thread EXCEPT !["http"] = l]
      BY <2>4 DEF ClientPairingSecret
    <3>4. \A e \in l.copy : Proved(e)
      BY <1>c, <1>t, <3>2
    <3> HIDE DEF l
    <3>5. QED  BY <1>t, <1>u, <3>1, <3>2, <3>3, <3>4
  <2>5. CASE FetchPin
    <3>1. ASSUME NEW p \in Handed,
                 thread' = [thread EXCEPT !["http"].at = "pin", !["http"].pin = p]
          PROVE  Goal
      <4> DEFINE l == [thread["http"] EXCEPT !.at = "pin", !.pin = p]
      <4>1. l \in Local /\ l.copy = thread["http"].copy /\ l.at \notin Listing
        BY <1>t, TypedAssumption DEF Local, Places, Listing
      <4>2. thread' = [thread EXCEPT !["http"] = l]
        BY <3>1
      <4> HIDE DEF l
      <4>3. QED  BY <1>t, <1>o, <4>1, <4>2
    <3>2. QED  BY <2>5, <3>1, <1>t, <1>r DEF FetchPin
  <2>c. CASE CutFetch
    BY <2>c, <1>t, <1>g1 DEF CutFetch, Listing, Places
  <2>6. CASE Append
    BY <2>6, <1>t, <1>g1 DEF Append, At, Listing, Places
  <2>7. CASE Pairing
    BY <2>7, <1>t, <1>r DEF Pairing
  <2>8. ASSUME NEW p \in Pin, SavePin(p) PROVE Goal
    <3> DEFINE l == [thread["config"] EXCEPT !.at = "pin", !.pin = p]
    <3>1. l \in Local /\ l.copy = thread["config"].copy /\ l.at \notin Listing
      BY <1>t DEF Local, Places, Listing
    <3>2. thread' = [thread EXCEPT !["config"] = l]
      BY <2>8 DEF SavePin
    <3> HIDE DEF l
    <3>3. QED  BY <1>t, <1>o, <3>1, <3>2
  <2>9. ASSUME NEW t \in Thread, NoPairing(t) \/ Dangle(t) \/ SendCert(t) PROVE Goal
    BY <2>9, <1>r DEF NoPairing, Dangle, SendCert
  <2>10. ASSUME NEW t \in Thread, SecondPin(t) PROVE Goal
    BY <2>10, <1>g1 DEF SecondPin, Listing, Places
  <2>11. ASSUME NEW t \in Thread, EnterPin(t) PROVE Goal
    <3> DEFINE l == [thread[t] EXCEPT !.at = "reply", !.try = sess.of]
    <3>1. sess.of \in Try
      BY <2>11, <1>t DEF EnterPin, TypeOK, Session
    <3>2. l \in Local /\ l.copy = thread[t].copy /\ l.at \notin Listing
      BY <1>t, <3>1 DEF Local, Places, Listing
    <3>3. thread' = [thread EXCEPT ![t] = l]
      BY <2>11 DEF EnterPin
    <3> HIDE DEF l
    <3>4. QED  BY <1>o, <3>2, <3>3
  <2>12. ASSUME NEW t \in Thread, At(t, "save") \/ At(t, "write"),
                thread' = [thread EXCEPT ![t] = Saved(t)]
         PROVE  Goal
    <3>1. CASE t = "http"
      <4>1. Go(t, "done")
        BY <2>12, <3>1 DEF Saved, Go
      <4>2. QED  BY <2>12, <3>1, <4>1, <1>g1 DEF At, Places, Listing
    <3>2. CASE t # "http"
      <4>1. Rest(t) \/ Go(t, "load")
        BY <2>12, <3>2 DEF Saved, Go, Rest
      <4>2. QED  BY <3>2, <4>1, <1>r, <1>g1 DEF Places
    <3>3. QED  BY <3>1, <3>2
  <2>13. ASSUME NEW t \in Thread, SaveState(t) PROVE Goal
    <3>1. ASSUME thread' = [thread EXCEPT ![t].at = "write", ![t].copy = named_devices]
          PROVE  Goal
      <4> DEFINE l == [thread[t] EXCEPT !.at = "write", !.copy = named_devices]
      <4>1. l \in Local /\ l.copy = named_devices /\ l.try = thread[t].try
        BY <1>t DEF Local, Places, TypeOK
      <4>2. thread' = [thread EXCEPT ![t] = l]
        BY <3>1
      <4>3. \A e \in named_devices : Proved(e)
        BY DEF Secret, ListedProved
      <4>4. t = "http" => Proved(l.try)
        BY <2>13, <4>1 DEF SaveState, At, Secret, Carried, Listing
      <4> HIDE DEF l
      <4>5. QED  BY <1>u, <4>1, <4>2, <4>3, <4>4
    <3>2. QED  BY <2>12, <2>13, <3>1 DEF SaveState
  <2>14. ASSUME NEW t \in Thread, WriteState(t) PROVE Goal
    BY <2>12, <2>14 DEF WriteState
  <2>15. ASSUME NEW e \in named_devices, UnpairClient(e) PROVE Goal
    <3> DEFINE l == [thread["config"] EXCEPT !.at = "save", !.try = e]
    <3>1. l \in Local /\ l.copy = thread["config"].copy
      BY <1>t DEF Local, Places, TypeOK
    <3>2. thread' = [thread EXCEPT !["config"] = l]
      BY <2>15 DEF UnpairClient
    <3>3. \A f \in l.copy : Proved(f)
      BY <1>c, <1>t, <3>1
    <3> HIDE DEF l
    <3>4. QED  BY <1>t, <1>u, <3>1, <3>2, <3>3
  <2>16. CASE EraseAllClients
    BY <2>16, <1>t, <1>g1 DEF EraseAllClients, Places
  <2>17. CASE LoadState
    <3>1. ASSUME thread' = [thread EXCEPT !["config"].at = "assign", !["config"].copy = file.list]
          PROVE  Goal
      <4> DEFINE l == [thread["config"] EXCEPT !.at = "assign", !.copy = file.list]
      <4>1. l \in Local /\ l.copy = file.list
        BY <1>t DEF Local, Places, TypeOK
      <4>2. thread' = [thread EXCEPT !["config"] = l]
        BY <3>1
      <4>3. \A e \in file.list : Proved(e)
        BY DEF Secret, ListedProved
      <4> HIDE DEF l
      <4>4. QED  BY <1>t, <1>u, <4>1, <4>2, <4>3
    <3>2. QED  BY <2>17, <3>1, <1>t, <1>r DEF LoadState
  <2>18. CASE AssignList
    BY <2>18, <1>t, <1>r DEF AssignList
  <2>19. CASE Crash
    BY <2>19 DEF Crash, Idle, Listing, Thread
  <2>20. QED
    <3>1. CASE \E t \in Thread : Both(t)
      BY <2>9, <2>10, <2>11, <2>13, <2>14, <3>1 DEF Both
    <3>2. CASE Http
      BY <2>2, <2>3, <2>4, <2>5, <2>6, <2>7, <3>2 DEF Http
    <3>3. QED  BY <1>2, <2>1, <2>8, <2>15, <2>16, <2>17, <2>18, <2>19, <2>c, <3>1, <3>2 DEF Next
<1>3. QED  BY <1>1, <1>2

\* The lists, the file and the chain take only those who have proved it.
LEMMA ListsSecret ==
    ASSUME Secret, [Next]_vars
    PROVE  ListedProved'
<1>t. TypeInv /\ TypeOK /\ "http" \in Thread /\ "config" \in Thread
  BY DEF Secret, TypeInv, Thread
<1>g. granted \subseteq granted'
  BY <1>t, GrantedKept
<1>e. ASSUME named_devices' \cup file'.list \subseteq named_devices \cup file.list,
             cert_chain' \cup add_cert' \subseteq cert_chain \cup add_cert
      PROVE  ListedProved'
  BY <1>e, <1>g DEF Secret, ListedProved, Proved
<1>k. ASSUME UNCHANGED lists PROVE ListedProved'
  BY <1>k, <1>e DEF lists
<1>f. /\ \A e \in file.list : e \in Try /\ Proved(e)
      /\ \A c \in Certs(file.list) : \E h \in granted : h.of.c = c /\ h.pin = Typed[c]
  <2>1. \A e \in file.list : e \in Try /\ Proved(e)
    BY <1>t DEF Secret, ListedProved, TypeOK
  <2>2. QED  BY <2>1, <1>t, ProvedCert DEF Certs
<1>1. CASE UNCHANGED vars
  BY <1>1, <1>k DEF vars, lists
<1>2. CASE Next
  <2>1. ASSUME NEW c \in Client, Begin(c) \/ GiveUp(c) \/ Verify(c) PROVE ListedProved'
    BY <2>1, <1>k, <1>e DEF Begin, GiveUp, Verify
  <2>2. ASSUME NEW r \in requests,
               \/ GetServerCert(r) \/ InvalidId(r) \/ OutOfOrder(r) \/ ClientChallenge(r)
               \/ ServerChallengeResp(r) \/ Refute(r)
        PROVE  ListedProved'
    BY <2>2, <1>k DEF GetServerCert, InvalidId, OutOfOrder, ClientChallenge, ServerChallengeResp,
                      Refute
  <2>3. ASSUME NEW r \in requests, ClientPairingSecret(r) PROVE ListedProved'
    <3>1. \E h \in granted : h.of.c = r.from.c /\ h.pin = Typed[r.from.c]
      BY <2>3, <1>t, ProvesProved, ProvedCert
    <3>2. add_cert' = add_cert \cup {r.from.c} /\ UNCHANGED <<named_devices, file, cert_chain>>
      BY <2>3 DEF ClientPairingSecret
    <3>3. QED  BY <3>1, <3>2, <1>g DEF Secret, ListedProved, Proved
  <2>4. CASE FetchPin \/ CutFetch \/ Pairing
    BY <2>4, <1>k DEF FetchPin, CutFetch, Pairing
  <2>5. CASE Append
    <3>1. Proved(thread["http"].try)
      BY <2>5 DEF Append, At, Secret, Carried, Listing
    <3>2. /\ named_devices' = named_devices \cup {thread["http"].try}
          /\ UNCHANGED <<file, cert_chain, add_cert>>
      BY <2>5 DEF Append
    <3>3. QED  BY <3>1, <3>2, <1>g DEF Secret, ListedProved, Proved
  <2>6. ASSUME NEW t \in Thread,
               NoPairing(t) \/ SecondPin(t) \/ EnterPin(t) \/ SendCert(t) \/ Dangle(t)
        PROVE  ListedProved'
    BY <2>6, <1>k DEF NoPairing, SecondPin, EnterPin, SendCert, Dangle
  <2>7. ASSUME NEW t \in Thread, SaveState(t) PROVE ListedProved'
    <3>1. file'.list \subseteq file.list /\ UNCHANGED <<named_devices, cert_chain, add_cert>>
      BY <2>7 DEF SaveState
    <3>2. QED  BY <3>1, <1>e
  <2>8. ASSUME NEW t \in Thread, WriteState(t) PROVE ListedProved'
    <3>1. /\ file'.list = thread[t].copy /\ UNCHANGED <<named_devices, cert_chain, add_cert>>
          /\ \A e \in thread[t].copy : Proved(e)
      BY <2>8 DEF WriteState, Secret, Carried
    <3>2. QED  BY <3>1, <1>g DEF Secret, ListedProved, Proved
  <2>9. ASSUME NEW p \in Pin, SavePin(p) PROVE ListedProved'
    BY <2>9, <1>k DEF SavePin
  <2>10. ASSUME NEW e \in named_devices, UnpairClient(e) PROVE ListedProved'
    BY <2>10, <1>e DEF UnpairClient
  <2>11. CASE EraseAllClients
    BY <2>11, <1>e DEF EraseAllClients
  <2>12. CASE LoadState
    <3>1. /\ cert_chain' = cert_chain \/ cert_chain' = Certs(file.list)
          /\ UNCHANGED <<named_devices, file, add_cert>>
      BY <2>12 DEF LoadState
    <3>2. QED  BY <3>1, <1>f, <1>g DEF Secret, ListedProved, Proved
  <2>13. CASE AssignList
    <3>1. /\ named_devices' = thread["config"].copy /\ UNCHANGED <<file, cert_chain, add_cert>>
          /\ \A e \in thread["config"].copy : Proved(e)
      BY <2>13, <1>t DEF AssignList, Secret, Carried
    <3>2. QED  BY <3>1, <1>g DEF Secret, ListedProved, Proved
  <2>14. CASE Crash
    <3>1. /\ named_devices' = file.list /\ cert_chain' = Certs(file.list) /\ add_cert' = {}
          /\ UNCHANGED file
      BY <2>14 DEF Crash
    <3>2. QED  BY <3>1, <1>f, <1>g DEF ListedProved, Proved
  <2>15. QED
    <3>1. CASE \E t \in Thread : Both(t)
      BY <2>6, <2>7, <2>8, <3>1 DEF Both
    <3>2. CASE Http
      BY <2>2, <2>3, <2>4, <2>5, <3>2 DEF Http
    <3>3. QED  BY <1>2, <2>1, <2>4, <2>9, <2>10, <2>11, <2>12, <2>13, <2>14, <3>1, <3>2 DEF Next
<1>3. QED  BY <1>1, <1>2

LEMMA SecretNext == Secret /\ [Next]_vars => Secret'
<1> SUFFICES ASSUME Secret, [Next]_vars PROVE Secret'
  OBVIOUS
<1>1. TypeInv'
  BY TypeNext, GivenNext DEF Secret, TypeInv
<1>2. Carried'
  BY SessionSecret, ThreadSecret DEF Carried
<1>3. QED  BY <1>1, <1>2, ListsSecret DEF Secret

\* Who is listed, saved or let in over HTTPS had the PIN that was given to a
\* session it opened itself (clientpairingsecret(), nvhttp.cpp:561-588).
THEOREM OnlyProvedListed == Spec => []ListedProved
<1>1. Secret => ListedProved
  BY DEF Secret
<1>2. QED  BY <1>1, SecretInit, SecretNext, PTL DEF Spec

----------------------------------------------------------------------------
\* Who was told that he is paired stays so.

Changing == {"save", "write", "load", "assign"}

\* One thread at a time works on the lists, and the file is torn under its hands.
Alone ==
    /\ ~ (thread["http"].at \in Listing /\ thread["config"].at \in Changing)
    /\ file.torn => \E t \in Thread : At(t, "write")

ToldListed ==
    /\ \A e \in told : e \in named_devices /\ e.c \in cert_chain \cup add_cert
    /\ ~ file.torn => told \subseteq file.list

\* What goes to the file, or comes from it, holds all that were told.
Copied == \A t \in Thread : At(t, "write") \/ At(t, "assign") => told \subseteq thread[t].copy

\* How far the client that the HTTP thread lists has come.
Nearly ==
    /\ thread["http"].at \in Listing => thread["http"].try.c \in cert_chain \cup add_cert
    /\ thread["http"].at \in Listing \ {"append"} => thread["http"].try \in named_devices
    /\ At("http", "write") => thread["http"].try \in thread["http"].copy
    /\ At("http", "done") => ~ file.torn /\ thread["http"].try \in file.list

Kept == ~ spoilt => Alone /\ ToldListed /\ Copied /\ Nearly

LEMMA KeptInit == Init => Kept
BY DEF Init, Kept, Alone, ToldListed, Copied, Nearly, At, Idle, Listing, Thread

LEMMA KeptNext == TypeInv /\ Kept /\ [Next]_vars => Kept'
<1> SUFFICES ASSUME TypeInv, Kept, [Next]_vars PROVE Kept'
  OBVIOUS
<1>t. /\ TypeOK /\ Thread = {"http", "config"}
      /\ thread \in [Thread -> Local] /\ \A t \in Thread : thread[t] \in Local
      /\ file \in [list : SUBSET Try, torn : BOOLEAN]
  BY DEF TypeInv, TypeOK, Thread
<1>1. CASE UNCHANGED vars
  BY <1>1 DEF vars, Kept, Alone, ToldListed, Copied, Nearly, At
<1>2. CASE Next
  <2> SUFFICES ASSUME ~ spoilt' PROVE (Alone /\ ToldListed /\ Copied /\ Nearly)'
    BY DEF Kept
  <2> DEFINE Goal == (Alone /\ ToldListed /\ Copied /\ Nearly)'
  <2>n. /\ Alone /\ ToldListed /\ Copied /\ Nearly
        /\ ~ (thread'["http"].at \in Listing /\ thread'["config"].at \in Changing)
        /\ crashes' = crashes \/ ~ file.torn
    BY <1>2 DEF Next, Note, Kept, Listing, Changing
  <2>w. (thread["http"].at # "write" /\ thread["config"].at # "write") => ~ file.torn
    BY <1>t, <2>n DEF Alone, At
  <2>q. ASSUME UNCHANGED <<lists, told>>,
               \A t \in Thread :
                  \/ thread'[t] = thread[t]
                  \/ thread'[t].at \notin Listing \cup {"assign"} /\ thread[t].at # "write"
        PROVE  Goal
    <3>1. Alone'
      BY <1>t, <2>n, <2>q DEF Alone, At, lists
    <3>2. ToldListed'
      BY <2>n, <2>q DEF ToldListed, lists
    <3>3. Copied'
      BY <1>t, <2>n, <2>q DEF Copied, At, Listing
    <3>4. Nearly'
      BY <1>t, <2>n, <2>q DEF Nearly, At, Listing, lists
    <3>5. QED  BY <3>1, <3>2, <3>3, <3>4
  <2>k. ASSUME UNCHANGED <<lists, told, thread>> PROVE Goal
    BY <2>k, <2>q
  <2>r. ASSUME NEW t \in Thread, NEW l \in Local, UNCHANGED <<lists, told>>,
               thread' = [thread EXCEPT ![t] = l], l.at \notin Listing \cup {"assign"},
               thread[t].at # "write"
        PROVE  Goal
    BY <1>t, <2>r, <2>q
  <2>1. ASSUME NEW c \in Client, Begin(c) \/ GiveUp(c) PROVE Goal
    BY <2>1, <2>k DEF Begin, GiveUp
  <2>2. ASSUME NEW c \in Client, Verify(c) PROVE Goal
    <3>1. /\ cert_chain' = cert_chain \cup add_cert /\ add_cert' = {}
          /\ UNCHANGED <<thread, named_devices, file, told>>
      BY <2>2 DEF Verify
    <3>2. QED  BY <2>n, <3>1 DEF Alone, ToldListed, Copied, Nearly, At
  <2>3. ASSUME NEW r \in requests, GetServerCert(r) PROVE Goal
    <3> DEFINE l == [thread["http"] EXCEPT !.at = "fetch"]
    <3>1. l \in Local /\ l.at \notin Listing \cup {"assign"}
      BY <1>t DEF Local, Places, Listing
    <3>2. thread' = [thread EXCEPT !["http"] = l] /\ thread["http"].at = "idle"
      BY <2>3 DEF GetServerCert, Go, At
    <3>3. UNCHANGED <<lists, told>>
      BY <2>3 DEF GetServerCert
    <3> HIDE DEF l
    <3>4. QED  BY <1>t, <2>r, <3>1, <3>2, <3>3
  <2>4. ASSUME NEW r \in requests,
               \/ InvalidId(r) \/ OutOfOrder(r) \/ ClientChallenge(r)
               \/ ServerChallengeResp(r) \/ Refute(r)
        PROVE  Goal
    BY <2>4, <2>k DEF InvalidId, OutOfOrder, ClientChallenge, ServerChallengeResp, Refute
  <2>5. ASSUME NEW r \in requests, ClientPairingSecret(r) PROVE Goal
    <3>1. /\ thread["http"].at = "idle"
          /\ thread' = [thread EXCEPT !["http"].at = "append", !["http"].try = r.from]
          /\ add_cert' = add_cert \cup {r.from.c}
          /\ UNCHANGED <<named_devices, file, cert_chain, told>>
      BY <2>5 DEF ClientPairingSecret, InOrder, At
    <3>2. /\ thread'["http"].at = "append" /\ thread'["http"].try = r.from
          /\ thread'["config"] = thread["config"]
      BY <1>t, <3>1 DEF Local
    <3>3. Alone' /\ ToldListed'
      BY <1>t, <2>n, <3>1, <3>2 DEF Alone, ToldListed, At
    <3>4. Copied' /\ Nearly'
      BY <1>t, <2>n, <3>1, <3>2 DEF Copied, Nearly, At
    <3>5. QED  BY <3>3, <3>4
  <2>6. CASE FetchPin
    <3>1. thread["http"].at = "fetch" /\ UNCHANGED <<lists, told>>
      BY <2>6 DEF FetchPin, At
    <3>2. thread'["config"] = thread["config"] /\ thread'["http"].at \in {"idle", "pin"}
      BY <1>t, <2>6 DEF FetchPin, Rest, Idle, Local
    <3>3. QED  BY <1>t, <2>q, <3>1, <3>2 DEF Listing
  <2>c. CASE CutFetch
    <3>1. thread["http"].at = "fetch" /\ UNCHANGED <<lists, told>>
      BY <2>c DEF CutFetch, At
    <3>2. thread'["config"] = thread["config"] /\ thread'["http"].at = "cut"
      BY <1>t, <2>c DEF CutFetch, Go, Local
    <3>3. QED  BY <1>t, <2>q, <3>1, <3>2 DEF Listing
  <2>7. CASE Append
    <3>1. /\ thread["http"].at = "append" /\ thread' = [thread EXCEPT !["http"].at = "save"]
          /\ named_devices' = named_devices \cup {thread["http"].try}
          /\ UNCHANGED <<file, cert_chain, add_cert, told>>
      BY <2>7 DEF Append, Go, At
    <3>2. /\ thread'["http"].at = "save" /\ thread'["http"].try = thread["http"].try
          /\ thread'["config"] = thread["config"]
      BY <1>t, <3>1 DEF Local
    <3>3. Alone' /\ ToldListed'
      BY <1>t, <2>n, <3>1, <3>2 DEF Alone, ToldListed, At
    <3>4. Copied' /\ Nearly'
      BY <1>t, <2>n, <3>1, <3>2 DEF Copied, Nearly, At, Listing
    <3>5. QED  BY <3>3, <3>4
  <2>8. CASE Pairing
    <3>1. /\ thread["http"].at = "done" /\ thread' = [thread EXCEPT !["http"] = Idle]
          /\ told' = told \cup {thread["http"].try} /\ UNCHANGED lists
      BY <2>8 DEF Pairing, Rest, At
    <3>2. thread'["http"].at = "idle" /\ thread'["config"] = thread["config"]
      BY <1>t, <3>1 DEF Idle
    <3>3. thread["config"].at \notin Changing
      BY <2>n, <3>1 DEF Alone, Listing
    <3>4. Alone' /\ ToldListed'
      BY <1>t, <2>n, <3>1, <3>2, <3>3 DEF Alone, ToldListed, Nearly, At, Listing, lists
    <3>5. Copied' /\ Nearly'
      BY <1>t, <2>n, <3>1, <3>2, <3>3 DEF Copied, Nearly, At, Listing, Changing
    <3>6. QED  BY <3>4, <3>5
  <2>9. ASSUME NEW p \in Pin, SavePin(p) PROVE Goal
    <3>1. thread["config"].at = "idle" /\ UNCHANGED <<lists, told>>
      BY <2>9 DEF SavePin, At, lists
    <3>2. thread'["http"] = thread["http"] /\ thread'["config"].at = "pin"
      BY <1>t, <2>9 DEF SavePin, Local
    <3>3. QED  BY <1>t, <2>q, <3>1, <3>2 DEF Listing
  <2>10. ASSUME NEW t \in Thread, NoPairing(t) \/ Dangle(t) \/ SendCert(t) PROVE Goal
    <3>1. /\ thread[t].at # "write" /\ thread' = [thread EXCEPT ![t] = Idle]
          /\ UNCHANGED <<lists, told>>
      BY <2>10 DEF NoPairing, Dangle, SendCert, Rest, At
    <3>2. Idle \in Local /\ Idle.at \notin Listing \cup {"assign"}
      BY DEF Idle, Local, Places, Listing
    <3>3. QED  BY <2>r, <3>1, <3>2
  <2>11. ASSUME NEW t \in Thread, SecondPin(t) PROVE Goal
    <3> DEFINE l == [thread[t] EXCEPT !.at = "freed"]
    <3>1. l \in Local /\ l.at \notin Listing \cup {"assign"}
      BY <1>t DEF Local, Places, Listing
    <3>2. /\ thread' = [thread EXCEPT ![t] = l] /\ thread[t].at = "pin"
          /\ UNCHANGED <<lists, told>>
      BY <2>11 DEF SecondPin, Go, At
    <3> HIDE DEF l
    <3>3. QED  BY <2>r, <3>1, <3>2
  <2>12. ASSUME NEW t \in Thread, EnterPin(t) PROVE Goal
    <3> DEFINE l == [thread[t] EXCEPT !.at = "reply", !.try = sess.of]
    <3>1. sess.of \in Try
      BY <1>t, <2>12 DEF EnterPin, TypeOK, Session
    <3>2. l \in Local /\ l.at \notin Listing \cup {"assign"}
      BY <1>t, <3>1 DEF Local, Places, Listing
    <3>3. /\ thread' = [thread EXCEPT ![t] = l] /\ thread[t].at = "pin"
          /\ UNCHANGED <<lists, told>>
      BY <2>12 DEF EnterPin, At
    <3> HIDE DEF l
    <3>4. QED  BY <2>r, <3>2, <3>3
  <2>13. CASE SaveState("http")
    <3>1. thread["http"].at = "save" /\ thread["config"].at \notin Changing
      BY <2>13, <2>n DEF SaveState, At, Alone, Listing
    <3>2. ~ file.torn
      BY <2>w, <3>1 DEF Changing
    <3>3. /\ thread' = [thread EXCEPT !["http"].at = "write", !["http"].copy = named_devices]
          /\ file' = [list |-> {}, torn |-> TRUE]
          /\ UNCHANGED <<named_devices, cert_chain, add_cert, told>>
      BY <2>13, <3>2 DEF SaveState
    <3>4. /\ thread'["http"].at = "write" /\ thread'["http"].try = thread["http"].try
          /\ thread'["http"].copy = named_devices /\ thread'["config"] = thread["config"]
      BY <1>t, <3>3 DEF Local
    <3>5. Alone' /\ ToldListed'
      BY <1>t, <2>n, <3>3, <3>4 DEF Alone, ToldListed, At
    <3>6. Copied' /\ Nearly'
      BY <1>t, <2>n, <3>1, <3>3, <3>4 DEF Copied, ToldListed, Nearly, At, Listing
    <3>7. QED  BY <3>5, <3>6
  <2>14. CASE SaveState("config")
    <3>1. thread["config"].at = "save" /\ thread["http"].at \notin Listing
      BY <2>14, <2>n DEF SaveState, At, Alone, Changing
    <3>2. ~ file.torn
      BY <2>w, <3>1 DEF Listing
    <3>3. /\ thread' = [thread EXCEPT !["config"].at = "write", !["config"].copy = named_devices]
          /\ file' = [list |-> {}, torn |-> TRUE]
          /\ UNCHANGED <<named_devices, cert_chain, add_cert, told>>
      BY <2>14, <3>2 DEF SaveState
    <3>4. /\ thread'["config"].at = "write" /\ thread'["config"].copy = named_devices
          /\ thread'["http"] = thread["http"]
      BY <1>t, <3>3 DEF Local
    <3>5. Alone' /\ ToldListed'
      BY <1>t, <2>n, <3>3, <3>4 DEF Alone, ToldListed, At
    <3>6. Copied' /\ Nearly'
      BY <1>t, <2>n, <3>1, <3>3, <3>4 DEF Copied, ToldListed, Nearly, At, Listing
    <3>7. QED  BY <3>5, <3>6
  <2>15. CASE WriteState("http")
    <3>1. thread["http"].at = "write" /\ thread["config"].at \notin Changing
      BY <2>15, <2>n DEF WriteState, At, Alone, Listing
    <3>2. /\ thread' = [thread EXCEPT !["http"] = [thread["http"] EXCEPT !.at = "done"]]
          /\ file' = [list |-> thread["http"].copy, torn |-> FALSE]
          /\ UNCHANGED <<named_devices, cert_chain, add_cert, told>>
      BY <2>15 DEF WriteState, Saved
    <3>3. /\ thread'["http"].at = "done" /\ thread'["http"].try = thread["http"].try
          /\ thread'["config"] = thread["config"]
      BY <1>t, <3>2 DEF Local
    <3>4. Alone' /\ ToldListed'
      BY <1>t, <2>n, <3>1, <3>2, <3>3 DEF Alone, ToldListed, Copied, At
    <3>5. Copied' /\ Nearly'
      BY <1>t, <2>n, <3>1, <3>2, <3>3 DEF Copied, Nearly, At, Listing
    <3>6. QED  BY <3>4, <3>5
  <2>16. CASE WriteState("config")
    <3>1. thread["config"].at = "write" /\ thread["http"].at \notin Listing
      BY <2>16, <2>n DEF WriteState, At, Alone, Changing
    <3>2. /\ thread' = [thread EXCEPT !["config"] = Saved("config")]
          /\ file' = [list |-> thread["config"].copy, torn |-> FALSE]
          /\ UNCHANGED <<named_devices, cert_chain, add_cert, told>>
      BY <2>16 DEF WriteState
    <3>3. /\ thread'["config"].at \in {"idle", "load"} /\ thread'["http"] = thread["http"]
      BY <1>t, <3>2 DEF Saved, Idle, Local
    <3>4. Alone' /\ ToldListed'
      BY <1>t, <2>n, <3>1, <3>2, <3>3 DEF Alone, ToldListed, Copied, At
    <3>5. Copied' /\ Nearly'
      BY <1>t, <2>n, <3>1, <3>2, <3>3 DEF Copied, Nearly, At, Listing
    <3>6. QED  BY <3>4, <3>5
  <2>17. ASSUME NEW e \in named_devices, UnpairClient(e) PROVE Goal
    <3>1. /\ thread["config"].at = "idle" /\ told' = told \ {e}
          /\ thread' = [thread EXCEPT !["config"].at = "save", !["config"].try = e]
          /\ named_devices' = named_devices \ {e}
          /\ UNCHANGED <<file, cert_chain, add_cert>>
      BY <2>17 DEF UnpairClient, At
    <3>2. thread'["config"].at = "save" /\ thread'["http"] = thread["http"]
      BY <1>t, <3>1 DEF Local
    <3>3. thread["http"].at \notin Listing
      BY <2>n, <3>2 DEF Changing
    <3>4. ~ file.torn
      BY <2>w, <3>1, <3>3 DEF Listing
    <3>5. Alone' /\ ToldListed'
      BY <1>t, <2>n, <3>1, <3>2, <3>4 DEF Alone, ToldListed, At
    <3>6. Copied' /\ Nearly'
      BY <1>t, <2>n, <3>1, <3>2, <3>3 DEF Copied, Nearly, At, Listing
    <3>7. QED  BY <3>5, <3>6
  <2>18. CASE EraseAllClients
    <3>1. /\ thread["config"].at = "idle" /\ told' = {}
          /\ thread' = [thread EXCEPT !["config"].at = "save"]
          /\ UNCHANGED file
      BY <2>18 DEF EraseAllClients, Go, At
    <3>2. thread'["config"].at = "save" /\ thread'["http"] = thread["http"]
      BY <1>t, <3>1 DEF Local
    <3>3. thread["http"].at \notin Listing
      BY <2>n, <3>2 DEF Changing
    <3>4. ~ file.torn
      BY <2>w, <3>1, <3>3 DEF Listing
    <3>5. Alone' /\ ToldListed'
      BY <1>t, <2>n, <3>1, <3>4 DEF Alone, ToldListed, At
    <3>6. Copied' /\ Nearly'
      BY <1>t, <2>n, <3>1, <3>2, <3>3 DEF Copied, Nearly, At, Listing
    <3>7. QED  BY <3>5, <3>6
  <2>19. CASE LoadState
    <3>1. thread["config"].at = "load" /\ thread["http"].at \notin Listing
      BY <2>19, <2>n DEF LoadState, At, Alone, Changing
    <3>2. ~ file.torn
      BY <2>w, <3>1 DEF Listing
    <3>3. /\ cert_chain' = Certs(file.list)
          /\ thread' = [thread EXCEPT !["config"].at = "assign", !["config"].copy = file.list]
          /\ UNCHANGED <<named_devices, file, add_cert, told>>
      BY <2>19, <3>2 DEF LoadState
    <3>4. /\ thread'["config"].at = "assign" /\ thread'["config"].copy = file.list
          /\ thread'["http"] = thread["http"]
      BY <1>t, <3>3 DEF Local
    <3>5. \A e \in told : e.c \in Certs(file.list)
      BY <2>n, <3>2 DEF ToldListed, Certs
    <3>6. Alone' /\ ToldListed'
      BY <1>t, <2>n, <3>2, <3>3, <3>5 DEF Alone, ToldListed, At
    <3>7. Copied' /\ Nearly'
      BY <1>t, <2>n, <3>1, <3>2, <3>3, <3>4 DEF Copied, ToldListed, Nearly, At, Listing
    <3>8. QED  BY <3>6, <3>7
  <2>20. CASE AssignList
    <3>1. thread["config"].at = "assign" /\ thread["http"].at \notin Listing
      BY <2>20, <2>n DEF AssignList, At, Alone, Changing
    <3>2. ~ file.torn
      BY <2>w, <3>1 DEF Listing
    <3>3. /\ named_devices' = thread["config"].copy /\ thread' = [thread EXCEPT !["config"] = Idle]
          /\ UNCHANGED <<file, cert_chain, add_cert, told>>
      BY <2>20 DEF AssignList, Rest
    <3>4. thread'["config"].at = "idle" /\ thread'["http"] = thread["http"]
      BY <1>t, <3>3 DEF Idle
    <3>5. Alone' /\ ToldListed'
      BY <1>t, <2>n, <3>1, <3>2, <3>3 DEF Alone, ToldListed, Copied, At
    <3>6. Copied' /\ Nearly'
      BY <1>t, <2>n, <3>1, <3>3, <3>4 DEF Copied, Nearly, At, Listing
    <3>7. QED  BY <3>5, <3>6
  <2>21. CASE Crash
    <3>1. crashes' # crashes
      BY <1>t, <2>21, BoundAssumption DEF Crash, TypeOK
    <3>2. ~ file.torn
      BY <2>n, <3>1
    <3>3. /\ thread' = [t \in Thread |-> Idle] /\ named_devices' = file.list
          /\ cert_chain' = Certs(file.list) /\ UNCHANGED <<file, told>>
      BY <2>21 DEF Crash
    <3>4. \A t \in Thread : thread'[t].at = "idle"
      BY <3>3 DEF Idle
    <3>5. Alone' /\ ToldListed'
      BY <1>t, <2>n, <3>2, <3>3 DEF Alone, ToldListed, Certs, At
    <3>6. Copied' /\ Nearly'
      BY <1>t, <3>4 DEF Copied, Nearly, At, Listing
    <3>7. QED  BY <3>5, <3>6
  <2>22. QED
    <3>1. CASE \E t \in Thread : Both(t)
      BY <1>t, <2>10, <2>11, <2>12, <2>13, <2>14, <2>15, <2>16, <3>1 DEF Both
    <3>2. CASE Http
      BY <2>3, <2>4, <2>5, <2>6, <2>7, <2>8, <3>2 DEF Http
    <3>3. QED  BY <1>2, <2>1, <2>2, <2>9, <2>17, <2>18, <2>19, <2>20, <2>21, <2>c, <3>1, <3>2
          DEF Next
<1>3. QED  BY <1>1, <1>2

\* Whoever is told "paired" stays listed, saved and let in until he is unpaired,
\* but for a pairing that meets an unpairing and a death inside a save
\* (clientpairingsecret() and save_state(), nvhttp.cpp:589 and 301).
THEOREM PairedStays == Spec => []PairedIsKept
<1>1. TypeInv /\ [Next]_vars => TypeInv'
  BY TypeNext, GivenNext DEF TypeInv
<1>2. Kept => PairedIsKept
  BY DEF Kept, ToldListed, PairedIsKept
<1>3. QED  BY <1>1, <1>2, TypeInit, KeptInit, KeptNext, PTL DEF Spec
=============================================================================
