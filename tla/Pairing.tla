------------------------------ MODULE Pairing ------------------------------
(***************************************************************************)
(* Pairing of clients with Sunshine (Sunshine/src/nvhttp.cpp).  A client   *)
(* sends four requests, each after the answer to the one before, and proves*)
(* that it knows the PIN; it is then listed, saved to the state file and   *)
(* let in over HTTPS.  Three threads take part: HTTP serves the requests   *)
(* and blocks while it asks the backend for the PIN, HTTPS takes over new  *)
(* certificates at each handshake, and the web configuration gives PINs    *)
(* and unpairs.  No lock guards what they share.                           *)
(* Every client of this repository sends one uniqueid (moonlight-qt        *)
(* app/backend/nvhttp.cpp:497, NvHTTP.java:205 of moonlight-android), so   *)
(* map_id_sess has one entry at most, which all clients share, and the     *)
(* "first session" pin() falls back on is that one.                        *)
(* A key, a hash or a signature is the fact it proves: the salt makes a key*)
(* that of one attempt and one PIN (in the mode for local networks the     *)
(* fixed PIN and the password), a challenge that of one session.  Left out:*)
(* names, the PIN from standard input, and the queue's limit of 30.        *)
(***************************************************************************)
EXTENDS Naturals

CONSTANTS
    Client,
    Pin,
    Typed,          \* Typed[c]: the PIN the user of client c typed
    Handed,         \* PINs the backend may hand out
    Tries,          \* Tries[c]: attempts of client c (bound)
    MaxAdmin,       \* requests to the web configuration (bound)
    MaxCrashes,     \* ends of the program (bound)
    None

\* An attempt of a client; also the entry (uuid) that lists it.
Try == [c : Client, n : Nat]
Thread == {"http", "config"}
Phase == {"NONE", "GETSERVERCERT", "CLIENTCHALLENGE", "SERVERCHALLENGERESP",
          "CLIENTPAIRINGSECRET"}

\* clienthash: who sent it, and the challenge it is over.
Hash == [by : Try, on : Try \cup {None}]

\* pair_session_t: the attempt that opened it, the PIN in its key, whose
\* response waits for the PIN.
Session == [ of : Try, last_phase : Phase, pin : Pin \cup {None},
             response : Try \cup {None}, clienthash : Hash \cup {None} ]

Request == [from : Try, stage : 1 .. 4, knows : Try \cup {None}]

ASSUME TypedAssumption == Typed \in [Client -> Pin] /\ Handed \subseteq Pin
ASSUME BoundAssumption ==
    Tries \in [Client -> Nat] /\ MaxAdmin \in Nat /\ MaxCrashes \in Nat
ASSUME NoneAssumption ==
    /\ None \notin Try /\ None \notin Session /\ None \notin Hash /\ None \notin Pin

VARIABLES
    client,         \* stage: the request it waits for, 0 for none, 5 on HTTPS
    requests,       \* sent and not yet read by the HTTP thread
    sess,           \* the entry of map_id_sess, or None
    thread,         \* the HTTP and the web configuration thread
    named_devices,  \* client_root
    file,           \* the state file: its list, and whether it is half written
    cert_chain,     \* clients let in over HTTPS
    add_cert,       \* certificates on their way to cert_chain
    admins, crashes,
    granted,        \* history: PINs that made a session's key
    told,           \* history: attempts answered "paired" and not unpaired since
    spoilt          \* history: see Note

served == <<client, requests>>
lists == <<named_devices, file, cert_chain, add_cert>>
counts == <<admins, crashes>>
vars == <<client, requests, sess, thread, named_devices, file, cert_chain, add_cert,
          admins, crashes, granted, told, spoilt>>

Idle == [at |-> "idle", try |-> None, pin |-> None, copy |-> {}]

Init ==
    /\ client = [c \in Client |-> [stage |-> 0, n |-> 0]]
    /\ requests = {} /\ sess = None
    /\ thread = [t \in Thread |-> Idle]
    /\ named_devices = {} /\ cert_chain = {} /\ add_cert = {}
    /\ file = [list |-> {}, torn |-> FALSE]
    /\ admins = 0 /\ crashes = 0
    /\ granted = {} /\ told = {} /\ spoilt = FALSE

At(t, place) == thread[t].at = place
Go(t, place) == thread' = [thread EXCEPT ![t].at = place]
Rest(t) == thread' = [thread EXCEPT ![t] = Idle]

\* The HTTP thread lists a client while the web configuration unlists one, or
\* the program dies while it writes the file.
Note ==
    spoilt' = \/ spoilt
              \/ /\ thread'["http"].at \in {"append", "save", "write", "done"}
                 /\ thread'["config"].at \in {"save", "write", "load", "assign"}
              \/ crashes' # crashes /\ file.torn

-----------------------------------------------------------------------------
(* Clients.                                                                *)

Waits(e, stage) == client[e.c].n = e.n /\ client[e.c].stage = stage

\* The answer "paired 1" to the given request: the client goes on, if it still
\* waits.  Clients that check the server's proofs stop by GiveUp.
Accept(e, stage, knows, others) ==
    /\ client' = [client EXCEPT ![e.c].stage = IF Waits(e, stage) THEN stage + 1 ELSE @]
    /\ requests' = IF Waits(e, stage) /\ stage < 4
                   THEN others \cup {[from |-> e, stage |-> stage + 1, knows |-> knows]}
                   ELSE others

\* Any other answer, or none as the response is destroyed: those clients fail.
Fail(requested, others) ==
    /\ client' = [c \in Client |->
                    IF \E r \in requested : r.from.c = c /\ Waits(r.from, r.stage)
                    THEN [client[c] EXCEPT !.stage = 0] ELSE client[c]]
    /\ requests' = others

Begin(c) ==
    /\ client[c].stage = 0 /\ client[c].n < Tries[c]
    /\ client' = [client EXCEPT ![c] = [stage |-> 1, n |-> @.n + 1]]
    /\ requests' = requests \cup
            {[from |-> [c |-> c, n |-> client[c].n + 1], stage |-> 1, knows |-> None]}
    /\ UNCHANGED <<sess, thread, lists, counts, granted, told>>

\* A timeout, a check that fails, or the user: the request stays on its way.
GiveUp(c) ==
    /\ client[c].stage > 0
    /\ client' = [client EXCEPT ![c].stage = 0]
    /\ UNCHANGED <<requests, sess, thread, lists, counts, granted, told>>

-----------------------------------------------------------------------------
(* getservercert and the PIN.                                              *)

\* What is destroyed with the session: the response that waits in it.
Held == IF sess = None \/ sess.response = None THEN {}
        ELSE {[from |-> sess.response, stage |-> 1]}

GetServerCert(r) ==
    /\ At("http", "idle") /\ r.stage = 1
    /\ sess' = [of |-> r.from, last_phase |-> "NONE", pin |-> None,
                response |-> r.from, clienthash |-> None]
    /\ Go("http", "fetch")
    /\ Fail(Held, requests \ {r})
    /\ UNCHANGED <<lists, counts, granted, told>>

\* sendPin(): a PIN that is empty or not of four digits leaves the response
\* waiting.
FetchPin ==
    /\ At("http", "fetch")
    /\ \/ Rest("http")
       \/ \E p \in Handed : thread' = [thread EXCEPT !["http"].at = "pin", !["http"].pin = p]
    /\ UNCHANGED <<served, sess, lists, counts, granted, told>>

\* getPinFromManage() reads the answer without a timeout: when the path is cut
\* after the question, the HTTP thread waits until the program ends.
CutFetch ==
    /\ At("http", "fetch")
    /\ Go("http", "cut")
    /\ UNCHANGED <<served, sess, lists, counts, granted, told>>

\* The user gives a PIN on the configuration page.
SavePin(p) ==
    /\ At("config", "idle") /\ admins < MaxAdmin
    /\ admins' = admins + 1
    /\ thread' = [thread EXCEPT !["config"].at = "pin", !["config"].pin = p]
    /\ UNCHANGED <<served, sess, lists, crashes, granted, told>>

NoPairing(t) ==
    /\ At(t, "pin") /\ sess = None
    /\ Rest(t)
    /\ UNCHANGED <<served, sess, lists, counts, granted, told>>

\* fail_pair() frees the session pin() works on.
SecondPin(t) ==
    /\ At(t, "pin") /\ sess # None /\ sess.last_phase # "NONE"
    /\ sess' = None
    /\ Go(t, "freed")
    /\ Fail(Held, requests)
    /\ UNCHANGED <<lists, counts, granted, told>>

EnterPin(t) ==
    /\ At(t, "pin") /\ sess # None /\ sess.last_phase = "NONE"
    /\ sess' = [sess EXCEPT !.last_phase = "GETSERVERCERT", !.pin = thread[t].pin]
    /\ granted' = granted \cup {[of |-> sess.of, pin |-> thread[t].pin]}
    /\ thread' = [thread EXCEPT ![t].at = "reply", ![t].try = sess.of]
    /\ UNCHANGED <<served, lists, counts, told>>

\* The session that the thread refers to is still in the map.
Intact(t) == sess # None /\ sess.of = thread[t].try

\* Mutant: only one side of the Either is looked at.
SendCertNever(t) ==
    /\ At(t, "reply") /\ Intact(t)
    /\ Rest(t)
    /\ UNCHANGED <<served, sess, lists, counts, granted, told>>

SendCert(t) ==
    /\ At(t, "reply") /\ Intact(t)
    /\ Rest(t)
    /\ IF sess.response = None THEN UNCHANGED <<served, sess>>
       ELSE /\ sess' = [sess EXCEPT !.response = None]
            /\ Accept(sess.response, 1, None, requests)
    /\ UNCHANGED <<lists, counts, granted, told>>

\* The end of pin() on a session that was freed under it: what is left there
\* makes it return, or the program dies (Crash).
Dangle(t) ==
    /\ At(t, "freed") \/ (At(t, "reply") /\ ~ Intact(t))
    /\ Rest(t)
    /\ UNCHANGED <<served, sess, lists, counts, granted, told>>

-----------------------------------------------------------------------------
(* The later phases.                                                       *)

Before(stage) ==
    CASE stage = 2 -> "GETSERVERCERT"
      [] stage = 3 -> "CLIENTCHALLENGE"
      [] stage = 4 -> "SERVERCHALLENGERESP"

\* The client's key is the session's: same salt, same PIN.
SameKey(r) == r.from = sess.of /\ sess.pin = Typed[r.from.c]

InvalidId(r) ==
    /\ At("http", "idle") /\ r.stage > 1 /\ sess = None
    /\ Fail({r}, requests \ {r})
    /\ UNCHANGED <<sess, thread, lists, counts, granted, told>>

OutOfOrder(r) ==
    /\ At("http", "idle") /\ r.stage > 1
    /\ sess # None /\ sess.last_phase # Before(r.stage)
    /\ sess' = None
    /\ Fail(Held \cup {r}, requests \ {r})
    /\ UNCHANGED <<thread, lists, counts, granted, told>>

InOrder(r, stage) ==
    At("http", "idle") /\ r.stage = stage /\ sess # None /\ sess.last_phase = Before(stage)

\* With another key the client decrypts a challenge nobody sent.
ClientChallenge(r) ==
    /\ InOrder(r, 2)
    /\ sess' = [sess EXCEPT !.last_phase = "CLIENTCHALLENGE"]
    /\ Accept(r.from, 2, IF SameKey(r) THEN sess.of ELSE None, requests \ {r})
    /\ UNCHANGED <<thread, lists, counts, granted, told>>

\* Mutant: the decrypted challenge is kept in place of the hash.
ServerChallengeRespRaw(r) ==
    /\ InOrder(r, 3)
    /\ sess' = [sess EXCEPT !.last_phase = "SERVERCHALLENGERESP", !.clienthash = sess.of]
    /\ Accept(r.from, 3, r.knows, requests \ {r})
    /\ UNCHANGED <<thread, lists, counts, granted, told>>

ServerChallengeResp(r) ==
    /\ InOrder(r, 3)
    /\ sess' = [sess EXCEPT !.last_phase = "SERVERCHALLENGERESP",
                            !.clienthash = IF SameKey(r) THEN [by |-> r.from, on |-> r.knows]
                                           ELSE None]
    /\ Accept(r.from, 3, r.knows, requests \ {r})
    /\ UNCHANGED <<thread, lists, counts, granted, told>>

\* Mutant: only the signature is checked.
ProvesSigned(r) == r.from.c = sess.of.c

\* The hash is over this session's challenge and the secret now sent, and the
\* secret is signed by the client that opened the session.
Proves(r) ==
    sess.clienthash = [by |-> r.from, on |-> sess.of] /\ r.from.c = sess.of.c

Refute(r) ==
    /\ InOrder(r, 4) /\ ~ Proves(r)
    /\ sess' = None
    /\ Fail(Held \cup {r}, requests \ {r})
    /\ UNCHANGED <<thread, lists, counts, granted, told>>

\* add_cert->raise()
ClientPairingSecret(r) ==
    /\ InOrder(r, 4) /\ Proves(r)
    /\ sess' = [sess EXCEPT !.last_phase = "CLIENTPAIRINGSECRET"]
    /\ add_cert' = add_cert \cup {r.from.c}
    /\ thread' = [thread EXCEPT !["http"].at = "append", !["http"].try = r.from]
    /\ requests' = requests \ {r}
    /\ UNCHANGED <<client, named_devices, file, cert_chain, counts, granted, told>>

\* Mutant: the state is not saved.
AppendUnsaved ==
    /\ At("http", "append")
    /\ named_devices' = named_devices \cup {thread["http"].try}
    /\ Go("http", "done")
    /\ UNCHANGED <<served, sess, file, cert_chain, add_cert, counts, granted, told>>

\* add_authorized_client(); the certificate is read from the session although
\* SecondPin may have freed it.
Append ==
    /\ At("http", "append")
    /\ named_devices' = named_devices \cup {thread["http"].try}
    /\ Go("http", "save")
    /\ UNCHANGED <<served, sess, file, cert_chain, add_cert, counts, granted, told>>

Pairing ==
    /\ At("http", "done")
    /\ sess' = None
    /\ told' = told \cup {thread["http"].try}
    /\ client' = [client EXCEPT ![thread["http"].try.c].stage =
                    IF Waits(thread["http"].try, 4) THEN 5 ELSE @]
    /\ Rest("http")
    /\ UNCHANGED <<requests, lists, counts, granted>>

-----------------------------------------------------------------------------
(* The state file, the web configuration and HTTPS.                        *)

\* Where the caller of save_state() goes on; erase_all_clients() is done.
Saved(t) ==
    IF t = "http" THEN [thread[t] EXCEPT !.at = "done"]
    ELSE IF thread[t].try = None THEN Idle
    ELSE [thread[t] EXCEPT !.at = "load"]

\* save_state() reads the file first and leaves one alone that it cannot read.
SaveState(t) ==
    /\ At(t, "save")
    /\ IF file.torn
       THEN thread' = [thread EXCEPT ![t] = Saved(t)] /\ UNCHANGED file
       ELSE /\ thread' = [thread EXCEPT ![t].at = "write", ![t].copy = named_devices]
            /\ file' = [list |-> {}, torn |-> TRUE]
    /\ UNCHANGED <<served, sess, named_devices, cert_chain, add_cert, counts, granted, told>>

WriteState(t) ==
    /\ At(t, "write")
    /\ file' = [list |-> thread[t].copy, torn |-> FALSE]
    /\ thread' = [thread EXCEPT ![t] = Saved(t)]
    /\ UNCHANGED <<served, sess, named_devices, cert_chain, add_cert, counts, granted, told>>

UnpairClient(e) ==
    /\ At("config", "idle") /\ admins < MaxAdmin
    /\ admins' = admins + 1
    /\ named_devices' = named_devices \ {e}
    /\ thread' = [thread EXCEPT !["config"].at = "save", !["config"].try = e]
    /\ told' = told \ {e}
    /\ UNCHANGED <<served, sess, file, cert_chain, add_cert, crashes, granted>>

EraseAllClients ==
    /\ At("config", "idle") /\ admins < MaxAdmin
    /\ admins' = admins + 1
    /\ named_devices' = {} /\ cert_chain' = {}
    /\ Go("config", "save")
    /\ told' = {}
    /\ UNCHANGED <<served, sess, file, add_cert, crashes, granted>>

Certs(list) == {e.c : e \in list}

\* load_state(): the chain first, the list last.
LoadState ==
    /\ At("config", "load")
    /\ IF file.torn THEN Rest("config") /\ UNCHANGED cert_chain
       ELSE /\ cert_chain' = Certs(file.list)
            /\ thread' = [thread EXCEPT !["config"].at = "assign", !["config"].copy = file.list]
    /\ UNCHANGED <<served, sess, named_devices, file, add_cert, counts, granted, told>>

AssignList ==
    /\ At("config", "assign")
    /\ named_devices' = thread["config"].copy
    /\ Rest("config")
    /\ UNCHANGED <<served, sess, file, cert_chain, add_cert, counts, granted, told>>

\* verify(): the queue is emptied into the chain at each handshake, before the
\* client's certificate is looked up.
Verify(c) ==
    /\ client[c].stage \in {0, 5}
    /\ client[c].stage = 5 \/ add_cert # {}
    /\ cert_chain' = cert_chain \cup add_cert /\ add_cert' = {}
    /\ client' = [client EXCEPT ![c].stage = 0]
    /\ UNCHANGED <<requests, sess, thread, named_devices, file, counts, granted, told>>

\* The program dies, and start() reads the file: one torn by the death holds
\* nothing, and save_state() will never write it again.
Crash ==
    /\ crashes < MaxCrashes /\ crashes' = crashes + 1
    /\ sess' = None /\ add_cert' = {}
    /\ thread' = [t \in Thread |-> Idle]
    /\ named_devices' = file.list
    /\ cert_chain' = Certs(named_devices')
    /\ client' = [c \in Client |-> [client[c] EXCEPT !.stage = 0]]
    /\ requests' = {}
    /\ UNCHANGED <<file, admins, granted, told>>

Http ==
    \/ \E r \in requests :
          \/ GetServerCert(r) \/ InvalidId(r) \/ OutOfOrder(r) \/ ClientChallenge(r)
          \/ ServerChallengeResp(r) \/ Refute(r) \/ ClientPairingSecret(r)
    \/ FetchPin \/ Append \/ Pairing

\* What either thread does.
Both(t) ==
    \/ NoPairing(t) \/ SecondPin(t) \/ EnterPin(t) \/ SendCert(t) \/ Dangle(t)
    \/ SaveState(t) \/ WriteState(t)

Next ==
    /\ \/ \E c \in Client : Begin(c) \/ GiveUp(c) \/ Verify(c)
       \/ Http \/ CutFetch \/ \E t \in Thread : Both(t)
       \/ \E p \in Pin : SavePin(p)
       \/ \E e \in named_devices : UnpairClient(e)
       \/ EraseAllClients \/ LoadState \/ AssignList \/ Crash
    /\ Note

\* The threads are scheduled; unless the path to the backend is cut (CutFetch),
\* connecting fails or the question is answered sooner or later.
Spec ==
    /\ Init /\ [][Next]_vars
    /\ WF_vars((Http \/ Both("http")) /\ Note) /\ WF_vars(Both("config") /\ Note)

-----------------------------------------------------------------------------
Places == {"idle", "fetch", "cut", "pin", "reply", "freed", "append", "save", "write",
           "done", "load", "assign"}
Local == [at : Places, try : Try \cup {None}, pin : Pin \cup {None}, copy : SUBSET Try]
Attempt == [stage : 0 .. 5, n : Nat]

TypeOK ==
    /\ client \in [Client -> Attempt]
    /\ requests \subseteq Request
    /\ sess \in Session \cup {None}
    /\ thread \in [Thread -> Local]
    /\ named_devices \in SUBSET Try /\ file \in [list : SUBSET Try, torn : BOOLEAN]
    /\ cert_chain \subseteq Client /\ add_cert \subseteq Client
    /\ admins \in 0 .. MaxAdmin /\ crashes \in 0 .. MaxCrashes
    /\ granted \subseteq [of : Try, pin : Pin]
    /\ told \subseteq Try /\ spoilt \in BOOLEAN

Proved(e) == [of |-> e, pin |-> Typed[e.c]] \in granted

\* Whatever the threads, late requests of given-up attempts and clients that
\* share the one session do to each other: who is listed, saved or let in had the
\* PIN that was given to a session it opened itself, in the attempt that is
\* listed (the checks of last_phase and the hash over the session's challenge).
ListedProved ==
    /\ \A e \in named_devices \cup file.list : Proved(e)
    /\ \A c \in cert_chain \cup add_cert : \E g \in granted : g.of.c = c /\ g.pin = Typed[c]

\* "The client is now successfully paired and will be authorized to connect"
\* (nvhttp.cpp:592): it stays listed, saved and let in until it is unpaired, also
\* after a restart and while others pair or are unpaired.  Excepted are what the
\* code gets wrong: a pairing that meets an unpairing, and a death inside a save.
PairedIsKept ==
    ~ spoilt => \A e \in told :
        /\ e \in named_devices /\ e.c \in cert_chain \cup add_cert
        /\ file.torn \/ e \in file.list

\* The backend or the page gave this client's session no PIN.
Unanswered(c) ==
    /\ At("http", "idle") /\ sess # None /\ sess.last_phase = "NONE"
    /\ sess.response = [c |-> c, n |-> client[c].n]

\* The first request has no timeout in the client: it is answered, if only by
\* the end of its response, unless no PIN comes (nvhttp.cpp:890-910), or the HTTP
\* thread, which serves every client, is stuck in the question to the backend
\* (nvhttp.cpp:1797).
CertAnswered ==
    \A c \in Client :
        client[c].stage = 1 ~> client[c].stage # 1 \/ Unanswered(c) \/ At("http", "cut")
=============================================================================
