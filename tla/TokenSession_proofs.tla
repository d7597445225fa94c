------------------------ MODULE TokenSession_proofs ------------------------
(***************************************************************************)
(* Proofs about TokenSession: a session that was replaced or logged out is *)
(* never accepted again.                                                   *)
(*                                                                         *)
(* Logins that race leave several rows of one user, and a row behind the   *)
(* first one may hold a value that has ended.  The invariant says why that *)
(* is harmless: such a row stays behind a smaller one (Behind), because    *)
(* rows of a user are only deleted all at once, values are stored once     *)
(* (OneRow) and a value still to be stored is new (New).                   *)
(***************************************************************************)
EXTENDS TokenSession, TLAPS

Pending(q) == reqs[q].at \in {"create", "update"}

OneRow == \A r, s \in Live(tokens) : tokens[r].value = tokens[s].value => r = s

Known == ended \subseteq issued /\ \A r \in Live(tokens) : tokens[r].value \in issued

New ==
    /\ \A q \in Reqs : Pending(q) =>
          /\ reqs[q].value \in issued /\ reqs[q].value \notin ended
          /\ \A r \in Live(tokens) : tokens[r].value # reqs[q].value
    /\ \A p, q \in Reqs :
          Pending(p) /\ Pending(q) /\ reqs[p].value = reqs[q].value => p = q

Behind ==
    \A r \in Live(tokens) : tokens[r].value \in ended =>
        \E s \in Live(tokens) : tokens[s].user = tokens[r].user /\ s < r

IndInv == TypeOK /\ OneRow /\ Known /\ New /\ Behind

-----------------------------------------------------------------------------
\* What a goroutine holds is well typed, and a goroutine that answers, or is
\* idle, stores nothing more.
LEMMA ServingType ==
  ASSUME NEW at \in Steps, NEW u \in Users, NEW v \in Values \cup {NoValue},
         NEW r \in Rows \cup {NoRow}
  PROVE  LET k == Serving(at, u, v, r) IN
         k \in Req /\ k.at = at /\ k.user = u /\ k.value = v /\ k.row = r
<1>1. 0 \in 0 .. Life + 1
  BY LifeAssumption
<1> QED BY <1>1 DEF Serving, Req

LEMMA AnsweringType ==
  ASSUME NEW at \in Steps
  PROVE  Answering(at) \in Req /\ Answering(at).at = at /\ Answering(at).row = NoRow
<1> DEFINE u0 == CHOOSE u \in Users : TRUE
<1>1. u0 \in Users
  BY UsersAssumption
<1>2. Answering(at) = Serving(at, u0, NoValue, NoRow)
  BY DEF Answering
<1> HIDE DEF u0
<1> QED BY <1>1, <1>2, ServingType

LEMMA IdleType == Idle \in Req /\ Idle.at = "idle" /\ Idle.row = NoRow
BY AnsweringType DEF Idle, Steps

\* The invariant says what the property asks for.
LEMMA BehindSuffices ==
  ASSUME TypeOK, Behind
  PROVE  NoSessionReturns
<1>1. SUFFICES ASSUME NEW r \in CurrentRows(tokens), tokens[r].value \in ended
               PROVE  FALSE
  BY DEF NoSessionReturns, Current
<1>2. r \in Live(tokens) /\ IsFirst(r, TokensOf(tokens, tokens[r].user))
  BY DEF CurrentRows
<1>3. PICK s \in Live(tokens) : tokens[s].user = tokens[r].user /\ s < r
  BY <1>1, <1>2 DEF Behind
<1>4. r <= s
  BY <1>2, <1>3 DEF IsFirst, TokensOf
<1>5. r \in Nat /\ s \in Nat
  BY <1>2, RowsAssumption DEF Live
<1> QED BY <1>3, <1>4, <1>5

\* A step that leaves users and values of the rows alone, and makes no
\* request pending, keeps the invariant.
LEMMA AgeStep ==
  ASSUME IndInv, TypeOK', UNCHANGED <<issued, ended>>,
         Live(tokens') = Live(tokens),
         \A r \in Live(tokens) : /\ tokens'[r].user = tokens[r].user
                                 /\ tokens'[r].value = tokens[r].value,
         \A q \in Reqs : Pending(q)' => Pending(q) /\ reqs'[q].value = reqs[q].value
  PROVE  IndInv'
<1>1. OneRow' /\ Known' /\ Behind'
  BY DEF IndInv, OneRow, Known, Behind
<1>2. New'
  <2>1. ASSUME NEW q \in Reqs, Pending(q)'
        PROVE  /\ reqs'[q].value \in issued' /\ reqs'[q].value \notin ended'
               /\ \A r \in Live(tokens)' : tokens'[r].value # reqs'[q].value
    BY <2>1 DEF IndInv, New
  <2>2. ASSUME NEW p \in Reqs, NEW q \in Reqs, Pending(p)', Pending(q)',
               reqs'[p].value = reqs'[q].value
        PROVE  p = q
    BY <2>2 DEF IndInv, New
  <2> QED BY <2>1, <2>2 DEF New
<1> QED BY <1>1, <1>2 DEF IndInv

\* Storing a new value, in a fresh row or over a stored one, keeps it.
LEMMA WriteStep ==
  ASSUME IndInv, TypeOK', NEW q \in Reqs, Pending(q), NEW w \in Rows,
         issued' = issued, ended' = ended \cup Replaced,
         \A p \in Reqs : reqs'[p] = IF p = q THEN reqs'[q] ELSE reqs[p],
         ~Pending(q)',
         Live(tokens') = Live(tokens) \cup {w},
         tokens'[w].value = reqs[q].value,
         \A r \in Live(tokens) \ {w} : tokens'[r] = tokens[r],
         w \in Live(tokens) => tokens'[w].user = tokens[w].user
  PROVE  IndInv'
<1> DEFINE v == reqs[q].value
<1>1. /\ v \in issued /\ v \notin ended
      /\ \A r \in Live(tokens) : tokens[r].value # v
  BY DEF IndInv, New
<1>2. CurrentRows(tokens) \subseteq Live(tokens)
  BY DEF CurrentRows
<1>3. \A x \in Replaced : \E r \in CurrentRows(tokens) : x = tokens[r].value
  BY DEF Replaced, Current
<1>4. v \notin ended'
  BY <1>1, <1>2, <1>3
<1>5. OneRow'
  <2>1. SUFFICES ASSUME NEW r \in Live(tokens'), NEW s \in Live(tokens'),
                        tokens'[r].value = tokens'[s].value, r # s
                 PROVE  FALSE
    BY DEF OneRow
  <2>2. CASE r = w
    BY <1>1, <2>1, <2>2
  <2>3. CASE s = w
    BY <1>1, <2>1, <2>3
  <2>4. CASE r # w /\ s # w
    BY <2>1, <2>4 DEF IndInv, OneRow
  <2> QED BY <2>2, <2>3, <2>4
<1>6. Known'
  <2>1. ended' \subseteq issued'
    BY <1>2, <1>3 DEF IndInv, Known
  <2>2. ASSUME NEW r \in Live(tokens') PROVE tokens'[r].value \in issued'
    BY <1>1, <2>2 DEF IndInv, Known
  <2> QED BY <2>1, <2>2 DEF Known
<1>7. New'
  <2>1. ASSUME NEW p \in Reqs, Pending(p)'
        PROVE  /\ p # q /\ Pending(p) /\ reqs'[p] = reqs[p]
               /\ reqs[p].value # v
    <3>1. p # q
      BY <2>1
    <3>2. reqs'[p] = reqs[p]
      BY <3>1
    <3> QED BY <2>1, <3>1, <3>2 DEF Pending, IndInv, New
  <2>2. ASSUME NEW p \in Reqs, Pending(p)'
        PROVE  /\ reqs'[p].value \in issued' /\ reqs'[p].value \notin ended'
               /\ \A r \in Live(tokens)' : tokens'[r].value # reqs'[p].value
    <3>1. /\ reqs[p].value \in issued /\ reqs[p].value \notin ended
          /\ \A r \in Live(tokens) : tokens[r].value # reqs[p].value
      BY <2>1, <2>2 DEF IndInv, New
    <3>2. reqs[p].value \notin Replaced
      BY <1>2, <1>3, <3>1
    <3>3. \A r \in Live(tokens') : tokens'[r].value # reqs[p].value
      BY <2>1, <2>2, <3>1
    <3> QED BY <2>1, <2>2, <3>1, <3>2, <3>3
  <2>3. ASSUME NEW p \in Reqs, NEW r \in Reqs, Pending(p)', Pending(r)',
               reqs'[p].value = reqs'[r].value
        PROVE  p = r
    BY <2>1, <2>3 DEF IndInv, New
  <2> QED BY <2>2, <2>3 DEF New
<1>8. Behind'
  <2>1. SUFFICES ASSUME NEW r \in Live(tokens'), tokens'[r].value \in ended'
                 PROVE  \E s \in Live(tokens') :
                           tokens'[s].user = tokens'[r].user /\ s < r
    BY DEF Behind
  <2>2. r # w /\ r \in Live(tokens) /\ tokens'[r] = tokens[r]
    BY <1>4, <2>1
  <2>3. CASE tokens[r].value \in ended
    <3>1. PICK s \in Live(tokens) : tokens[s].user = tokens[r].user /\ s < r
      BY <2>2, <2>3 DEF IndInv, Behind
    <3>2. s \in Live(tokens') /\ tokens'[s].user = tokens[s].user
      BY <3>1
    <3> QED BY <2>2, <3>1, <3>2
  <2>4. CASE tokens[r].value \in Replaced
    <3>1. tokens'[r].value \notin Current(tokens')
      BY <2>2, <2>4 DEF Replaced
    <3>2. r \notin CurrentRows(tokens')
      BY <3>1 DEF Current
    <3>3. ~IsFirst(r, TokensOf(tokens', tokens'[r].user))
      BY <2>1, <3>2 DEF CurrentRows
    <3>4. r \in TokensOf(tokens', tokens'[r].user)
      BY <2>1 DEF TokensOf
    <3>5. PICK s \in TokensOf(tokens', tokens'[r].user) : ~(r <= s)
      BY <3>3, <3>4 DEF IsFirst
    <3>6. s \in Live(tokens') /\ tokens'[s].user = tokens'[r].user
      BY <3>5 DEF TokensOf
    <3>7. r \in Nat /\ s \in Nat
      BY <2>1, <3>6, RowsAssumption DEF Live
    <3> QED BY <3>5, <3>6, <3>7
  <2> QED BY <2>1, <2>2, <2>3, <2>4
<1> QED BY <1>5, <1>6, <1>7, <1>8 DEF IndInv

-----------------------------------------------------------------------------
(* The actions.                                                            *)

LEMMA InitInv == Init => IndInv
<1> SUFFICES ASSUME Init PROVE IndInv
  OBVIOUS
<1>1. Live(tokens) = {}
  BY DEF Init, Live
<1>2. \A q \in Reqs : reqs[q] = Idle
  BY DEF Init
<1>3. TypeOK
  BY IdleType DEF Init, TypeOK
<1>4. New
  BY <1>1, <1>2, IdleType DEF New, Pending
<1> QED BY <1>1, <1>3, <1>4 DEF IndInv, Init, OneRow, Known, Behind

\* Ageing: an age never leaves its range.
LEMMA OlderType == \A a \in 0 .. Life + 1 : Older(a) \in 0 .. Life + 1
BY LifeAssumption DEF Older

\* A login draws a value nobody knows.
LEMMA LoginInv ==
  ASSUME IndInv, NEW q \in Reqs, NEW u \in Users, Login(q, u)
  PROVE  IndInv'
<1>1. PICK v \in Values \ issued :
         /\ issued' = issued \cup {v}
         /\ \/ Become(q, Serving("create", u, v, NoRow))
            \/ \E r \in Rows : Become(q, Serving("update", u, v, r))
  BY DEF Login
<1>2. PICK r \in Rows \cup {NoRow}, at \in {"create", "update"} :
         Become(q, Serving(at, u, v, r))
  BY <1>1
<1> DEFINE k == Serving(at, u, v, r)
<1>3. k \in Req /\ k.at = at /\ k.value = v
  BY ServingType DEF Steps
<1>4. Become(q, k) /\ UNCHANGED <<tokens, ended>>
  BY <1>2 DEF Login
<1> HIDE DEF k
<1>5. \A p \in Reqs : reqs'[p] = IF p = q THEN k ELSE reqs[p]
  BY <1>4 DEF Become, IndInv, TypeOK
<1>6. TypeOK'
  BY <1>1, <1>3, <1>4 DEF Become, IndInv, TypeOK
<1>7. OneRow' /\ Known' /\ Behind'
  BY <1>1, <1>4 DEF IndInv, OneRow, Known, Behind, Live
<1>8. v \notin ended /\ \A s \in Live(tokens) : tokens[s].value # v
  BY <1>1 DEF IndInv, Known
<1>9. \A p \in Reqs : p # q => (Pending(p)' <=> Pending(p)) /\ reqs'[p] = reqs[p]
  BY <1>5 DEF Pending
<1>10. New'
  <2>1. ASSUME NEW p \in Reqs, Pending(p)'
        PROVE  /\ reqs'[p].value \in issued' /\ reqs'[p].value \notin ended'
               /\ \A s \in Live(tokens)' : tokens'[s].value # reqs'[p].value
    <3>1. CASE p = q
      BY <1>1, <1>3, <1>4, <1>5, <1>8, <3>1
    <3>2. CASE p # q
      BY <1>1, <1>4, <1>9, <2>1, <3>2 DEF IndInv, New
    <3> QED BY <3>1, <3>2
  <2>2. ASSUME NEW p \in Reqs, NEW s \in Reqs, Pending(p)', Pending(s)',
               reqs'[p].value = reqs'[s].value
        PROVE  p = s
    <3>1. \A t \in Reqs : t # q /\ Pending(t) => reqs[t].value # v
      BY <1>1 DEF IndInv, New
    <3>2. CASE p = q \/ s = q
      BY <1>3, <1>5, <1>9, <2>2, <3>1, <3>2
    <3>3. CASE p # q /\ s # q
      BY <1>9, <2>2, <3>3 DEF IndInv, New
    <3> QED BY <3>2, <3>3
  <2> QED BY <2>1, <2>2 DEF New
<1> QED BY <1>6, <1>7, <1>10 DEF IndInv

LEMMA CreateInv ==
  ASSUME IndInv, NEW q \in Reqs, CreateToken(q)
  PROVE  IndInv'
<1>1. PICK w \in FreshRows : tokens' = [tokens EXCEPT ![w] = NewToken(reqs[q])]
  BY DEF CreateToken
<1>2. /\ Pending(q) /\ issued' = issued /\ ended' = ended \cup Replaced
      /\ Become(q, Answering("stored"))
  BY DEF CreateToken, Pending
<1>3. w \in Rows /\ w \notin Live(tokens)
  BY DEF FreshRows
<1>4. reqs[q] \in Req /\ reqs[q].value \in Values
  BY <1>2 DEF IndInv, TypeOK, New
<1> DEFINE t == NewToken(reqs[q])
<1>5. t \in Token /\ t.value = reqs[q].value /\ t # NoRow
  BY <1>4, LifeAssumption, NullAssumption DEF NewToken, Token, Req
<1>6. tokens' = [tokens EXCEPT ![w] = t]
  BY <1>1
<1> HIDE DEF t
<1> DEFINE k == Answering("stored")
<1>7. k \in Req /\ k.at = "stored"
  BY AnsweringType DEF Steps
<1>8. Become(q, k)
  BY <1>2
<1> HIDE DEF k
<1>9. /\ \A p \in Reqs : reqs'[p] = IF p = q THEN reqs'[q] ELSE reqs[p]
      /\ reqs'[q] = k /\ ~Pending(q)'
  BY <1>7, <1>8 DEF Become, IndInv, TypeOK, Pending
<1>10. Live(tokens') = Live(tokens) \cup {w}
  BY <1>3, <1>5, <1>6 DEF Live, IndInv, TypeOK
<1>11. /\ tokens'[w].value = reqs[q].value
       /\ \A r \in Live(tokens) \ {w} : tokens'[r] = tokens[r]
  BY <1>3, <1>5, <1>6 DEF Live, IndInv, TypeOK
<1>12. ended' \subseteq Values
  BY <1>2 DEF Replaced, Current, CurrentRows, Live, IndInv, TypeOK, Token
<1>13. TypeOK'
  BY <1>2, <1>3, <1>5, <1>6, <1>7, <1>8, <1>12 DEF Become, IndInv, TypeOK
<1> QED BY <1>2, <1>3, <1>9, <1>10, <1>11, <1>13, WriteStep

LEMMA UpdateInv ==
  ASSUME IndInv, NEW q \in Reqs, UpdateToken(q)
  PROVE  IndInv'
<1> DEFINE w == reqs[q].row
           k == Answering("stored")
<1>1. /\ Pending(q) /\ issued' = issued /\ ended' = ended \cup Replaced
      /\ Become(q, k)
  BY DEF UpdateToken, Pending
<1>2. k \in Req /\ k.at = "stored"
  BY AnsweringType DEF Steps
<1> HIDE DEF k
<1>3. /\ \A p \in Reqs : reqs'[p] = IF p = q THEN reqs'[q] ELSE reqs[p]
      /\ reqs'[q] = k /\ ~Pending(q)'
  BY <1>1, <1>2 DEF Become, IndInv, TypeOK, Pending
<1>4. reqs' \in [Reqs -> Req]
  BY <1>1, <1>2 DEF Become, IndInv, TypeOK
<1>5. reqs[q].value \in Values
  BY <1>1 DEF IndInv, TypeOK, New
<1>6. ended' \subseteq Values
  BY <1>1 DEF Replaced, Current, CurrentRows, Live, IndInv, TypeOK, Token
<1>7. CASE w \in Live(tokens)
  <2> DEFINE t == [user |-> tokens[w].user, value |-> reqs[q].value, age |-> 0]
  <2>1. w \in Rows /\ tokens[w] \in Token
    BY <1>7 DEF Live, IndInv, TypeOK
  <2>2. t \in Token /\ t.value = reqs[q].value /\ t.user = tokens[w].user /\ t # NoRow
    BY <1>5, <2>1, LifeAssumption, NullAssumption DEF Token
  <2>3. tokens' = [tokens EXCEPT ![w] = t]
    BY <1>7 DEF UpdateToken, Updated
  <2> HIDE DEF t, w
  <2>4. Live(tokens') = Live(tokens) \cup {w}
    BY <1>7, <2>1, <2>2, <2>3 DEF Live, IndInv, TypeOK
  <2>5. /\ tokens'[w].value = reqs[q].value /\ tokens'[w].user = tokens[w].user
        /\ \A r \in Live(tokens) \ {w} : tokens'[r] = tokens[r]
    BY <2>1, <2>2, <2>3 DEF Live, IndInv, TypeOK
  <2>6. TypeOK'
    BY <1>1, <1>4, <1>6, <2>1, <2>2, <2>3 DEF IndInv, TypeOK
  <2> QED BY <1>1, <1>3, <2>1, <2>4, <2>5, <2>6, WriteStep
<1>8. CASE w \notin Live(tokens)
  <2>1. tokens' = tokens
    BY <1>8 DEF UpdateToken, Updated
  <2>2. Replaced = {}
    BY <2>1 DEF Replaced
  <2>3. UNCHANGED <<issued, ended>>
    BY <1>1, <2>2
  <2>4. \A p \in Reqs : Pending(p)' => Pending(p) /\ reqs'[p].value = reqs[p].value
    BY <1>3 DEF Pending
  <2>5. TypeOK'
    BY <1>4, <2>1, <2>3 DEF IndInv, TypeOK
  <2> QED BY <2>1, <2>3, <2>4, <2>5, AgeStep
<1> QED BY <1>7, <1>8

\* A logout removes every row of the user, so it uncovers none of them.
LEMMA LogoutInv ==
  ASSUME IndInv, NEW q \in Reqs, Logout(q)
  PROVE  IndInv'
<1> DEFINE u == reqs[q].user
<1>1. /\ tokens' = [r \in Rows |-> IF r \in TokensOf(tokens, u) THEN NoRow ELSE tokens[r]]
      /\ ended' = ended \cup {tokens[r].value : r \in TokensOf(tokens, u)}
      /\ Become(q, Idle) /\ issued' = issued
  BY DEF Logout, LogoutRows
<1>2. /\ \A p \in Reqs : reqs'[p] = IF p = q THEN Idle ELSE reqs[p]
      /\ reqs' \in [Reqs -> Req]
  BY <1>1, IdleType DEF Become, IndInv, TypeOK
<1>3. /\ Live(tokens') = Live(tokens) \ TokensOf(tokens, u)
      /\ \A r \in Live(tokens') : tokens'[r] = tokens[r]
  BY <1>1 DEF Live, TokensOf
<1>4. \A p \in Reqs : Pending(p)' => p # q /\ Pending(p) /\ reqs'[p] = reqs[p]
  BY <1>2, IdleType DEF Pending
<1>5. TypeOK'
  <2>1. tokens' \in [Rows -> Token \cup {NoRow}]
    BY <1>1 DEF IndInv, TypeOK
  <2>2. ended' \subseteq Values
    BY <1>1 DEF TokensOf, Live, IndInv, TypeOK, Token
  <2> QED BY <1>1, <1>2, <2>1, <2>2 DEF IndInv, TypeOK
<1>6. OneRow' /\ Known'
  BY <1>1, <1>3 DEF IndInv, OneRow, Known, TokensOf
<1>7. New'
  <2>1. ASSUME NEW p \in Reqs, Pending(p)'
        PROVE  /\ reqs'[p].value \in issued' /\ reqs'[p].value \notin ended'
               /\ \A r \in Live(tokens)' : tokens'[r].value # reqs'[p].value
    <3>1. /\ reqs[p].value \in issued /\ reqs[p].value \notin ended
          /\ \A r \in Live(tokens) : tokens[r].value # reqs[p].value
      BY <1>4, <2>1 DEF IndInv, New
    <3>2. TokensOf(tokens, u) \subseteq Live(tokens)
      BY DEF TokensOf
    <3> QED BY <1>1, <1>3, <1>4, <2>1, <3>1, <3>2
  <2>2. ASSUME NEW p \in Reqs, NEW s \in Reqs, Pending(p)', Pending(s)',
               reqs'[p].value = reqs'[s].value
        PROVE  p = s
    BY <1>4, <2>2 DEF IndInv, New
  <2> QED BY <2>1, <2>2 DEF New
<1>8. Behind'
  <2>1. SUFFICES ASSUME NEW r \in Live(tokens'), tokens'[r].value \in ended'
                 PROVE  \E s \in Live(tokens') :
                           tokens'[s].user = tokens'[r].user /\ s < r
    BY DEF Behind
  <2>2. r \in Live(tokens) /\ r \notin TokensOf(tokens, u) /\ tokens'[r] = tokens[r]
    BY <1>3, <2>1
  <2>3. tokens[r].value \in ended
    <3>1. ASSUME NEW x \in TokensOf(tokens, u), tokens[r].value = tokens[x].value
          PROVE  FALSE
      BY <2>2, <3>1 DEF IndInv, OneRow, TokensOf
    <3> QED BY <1>1, <2>1, <2>2, <3>1
  <2>4. PICK s \in Live(tokens) : tokens[s].user = tokens[r].user /\ s < r
    BY <2>2, <2>3 DEF IndInv, Behind
  <2>5. s \in Live(tokens')
    BY <1>3, <2>2, <2>4 DEF TokensOf
  <2> QED BY <1>3, <2>2, <2>4, <2>5
<1> QED BY <1>5, <1>6, <1>7, <1>8 DEF IndInv

\* A check holds a row, but nothing that will be stored.
LEMMA CheckInv ==
  ASSUME IndInv, NEW q \in Reqs, NEW u \in Users, NEW v \in Values, Check(q, u, v)
  PROVE  IndInv'
<1>1. PICK r \in Rows \cup {NoRow}, at \in {"touch", "refused"} :
         Become(q, Serving(at, u, v, r))
  BY DEF Check
<1> DEFINE k == Serving(at, u, v, r)
<1>2. k \in Req /\ k.at = at
  BY ServingType DEF Steps
<1>3. Become(q, k) /\ UNCHANGED <<tokens, issued, ended>>
  BY <1>1 DEF Check
<1> HIDE DEF k
<1>4. /\ \A p \in Reqs : reqs'[p] = IF p = q THEN k ELSE reqs[p]
      /\ reqs' \in [Reqs -> Req]
  BY <1>2, <1>3 DEF Become, IndInv, TypeOK
<1>5. \A p \in Reqs : Pending(p)' => Pending(p) /\ reqs'[p].value = reqs[p].value
  BY <1>2, <1>4 DEF Pending
<1>6. TypeOK'
  BY <1>3, <1>4 DEF IndInv, TypeOK
<1> QED BY <1>3, <1>5, <1>6, AgeStep

LEMMA TouchInv ==
  ASSUME IndInv, NEW q \in Reqs, Touch(q)
  PROVE  IndInv'
<1> DEFINE w == reqs[q].row
           k == Serving("passed", reqs[q].user, reqs[q].value, NoRow)
<1>1. reqs[q] \in Req
  BY DEF IndInv, TypeOK
<1>2. k \in Req /\ k.at = "passed"
  BY <1>1, ServingType DEF Req, Steps
<1>3. Become(q, k) /\ UNCHANGED <<issued, ended>>
  BY DEF Touch
<1> HIDE DEF k
<1>4. /\ \A p \in Reqs : reqs'[p] = IF p = q THEN k ELSE reqs[p]
      /\ reqs' \in [Reqs -> Req]
  BY <1>2, <1>3 DEF Become, IndInv, TypeOK
<1>5. \A p \in Reqs : Pending(p)' => Pending(p) /\ reqs'[p].value = reqs[p].value
  BY <1>2, <1>4 DEF Pending
<1>6. /\ tokens' \in [Rows -> Token \cup {NoRow}]
      /\ Live(tokens') = Live(tokens)
      /\ \A r \in Live(tokens) : /\ tokens'[r].user = tokens[r].user
                                  /\ tokens'[r].value = tokens[r].value
  <2>1. CASE w \notin Live(tokens)
    BY <2>1 DEF Touch, IndInv, TypeOK
  <2>2. CASE w \in Live(tokens)
    <3> DEFINE t == [tokens[w] EXCEPT !.age = reqs[q].age]
    <3>1. tokens' = [tokens EXCEPT ![w] = t]
      BY <2>2 DEF Touch
    <3>2. w \in Rows /\ tokens[w] \in Token /\ reqs[q].age \in 0 .. Life + 1
      BY <1>1, <2>2 DEF Live, IndInv, TypeOK, Req
    <3>3. /\ t \in Token /\ t # NoRow
          /\ t.user = tokens[w].user /\ t.value = tokens[w].value
      BY <3>2, NullAssumption DEF Token
    <3> HIDE DEF t, w
    <3> QED BY <3>1, <3>2, <3>3, <2>2 DEF Live, IndInv, TypeOK
  <2> QED BY <2>1, <2>2
<1>7. TypeOK'
  BY <1>3, <1>4, <1>6 DEF IndInv, TypeOK
<1> QED BY <1>3, <1>5, <1>6, <1>7, AgeStep

LEMMA CloseInv ==
  ASSUME IndInv, NEW q \in Reqs, Close(q)
  PROVE  IndInv'
<1>1. Become(q, Idle) /\ UNCHANGED <<tokens, issued, ended>>
  BY DEF Close
<1>2. /\ \A p \in Reqs : reqs'[p] = IF p = q THEN Idle ELSE reqs[p]
      /\ reqs' \in [Reqs -> Req]
  BY <1>1, IdleType DEF Become, IndInv, TypeOK
<1>3. \A p \in Reqs : Pending(p)' => Pending(p) /\ reqs'[p].value = reqs[p].value
  BY <1>2, IdleType DEF Pending
<1>4. TypeOK'
  BY <1>1, <1>2 DEF IndInv, TypeOK
<1> QED BY <1>1, <1>3, <1>4, AgeStep

LEMMA TickInv == IndInv /\ Tick => IndInv'
<1> SUFFICES ASSUME IndInv, Tick PROVE IndInv'
  OBVIOUS
<1>1. ASSUME NEW r \in Rows
      PROVE  /\ tokens[r] = NoRow <=> tokens'[r] = NoRow
             /\ tokens'[r] \in Token \cup {NoRow}
             /\ tokens[r] # NoRow => /\ tokens'[r].user = tokens[r].user
                                     /\ tokens'[r].value = tokens[r].value
  <2>1. CASE tokens[r] = NoRow
    BY <2>1 DEF Tick
  <2>2. CASE tokens[r] # NoRow
    <3>1. tokens[r] \in Token
      BY <2>2 DEF IndInv, TypeOK
    <3>2. Older(tokens[r].age) \in 0 .. Life + 1
      BY <3>1, OlderType DEF Token
    <3>3. tokens'[r] = [tokens[r] EXCEPT !.age = Older(tokens[r].age)]
      BY <2>2 DEF Tick
    <3>4. /\ tokens'[r] \in Token
          /\ tokens'[r].user = tokens[r].user /\ tokens'[r].value = tokens[r].value
      BY <3>1, <3>2, <3>3 DEF Token
    <3> QED BY <2>2, <3>4, NullAssumption
  <2> QED BY <2>1, <2>2
<1>2. ASSUME NEW q \in Reqs
      PROVE  /\ reqs'[q] \in Req
             /\ reqs'[q].at = reqs[q].at /\ reqs'[q].value = reqs[q].value
  <2>1. reqs[q] \in Req
    BY DEF IndInv, TypeOK
  <2>2. Older(reqs[q].age) \in 0 .. Life + 1
    BY <2>1, OlderType DEF Req
  <2>3. CASE reqs[q].at = "touch"
    <3>1. reqs'[q] = [reqs[q] EXCEPT !.age = Older(reqs[q].age)]
      BY <2>3 DEF Tick
    <3> QED BY <2>1, <2>2, <3>1 DEF Req
  <2>4. CASE reqs[q].at # "touch"
    BY <2>1, <2>4 DEF Tick
  <2> QED BY <2>3, <2>4
<1>3. UNCHANGED <<issued, ended>>
  BY DEF Tick
<1>4. TypeOK'
  <2>1. tokens' \in [Rows -> Token \cup {NoRow}]
    BY <1>1 DEF Tick
  <2>2. reqs' \in [Reqs -> Req]
    BY <1>2 DEF Tick
  <2> QED BY <1>3, <2>1, <2>2 DEF IndInv, TypeOK
<1>5. /\ Live(tokens') = Live(tokens)
      /\ \A r \in Live(tokens) : /\ tokens'[r].user = tokens[r].user
                                  /\ tokens'[r].value = tokens[r].value
  BY <1>1 DEF Live
<1>6. \A q \in Reqs : Pending(q)' => Pending(q) /\ reqs'[q].value = reqs[q].value
  BY <1>2 DEF Pending
<1> QED BY <1>3, <1>4, <1>5, <1>6, AgeStep

LEMMA RestartInv == IndInv /\ Restart => IndInv'
<1> SUFFICES ASSUME IndInv, Restart PROVE IndInv'
  OBVIOUS
<1>1. UNCHANGED <<tokens, issued, ended>> /\ reqs' = [q \in Reqs |-> Idle]
  BY DEF Restart
<1>2. \A q \in Reqs : ~Pending(q)'
  BY <1>1, IdleType DEF Pending
<1>3. TypeOK'
  BY <1>1, IdleType DEF IndInv, TypeOK
<1> QED BY <1>1, <1>2, <1>3, AgeStep

LEMMA NextInv == IndInv /\ [Next]_vars => IndInv'
<1> SUFFICES ASSUME IndInv, [Next]_vars PROVE IndInv'
  OBVIOUS
<1>1. CASE UNCHANGED vars
  BY <1>1 DEF vars, IndInv, TypeOK, OneRow, Known, New, Behind, Live, Pending
<1>2. ASSUME NEW q \in Reqs, CreateToken(q) PROVE IndInv'
  BY <1>2, CreateInv
<1>3. ASSUME NEW q \in Reqs, UpdateToken(q) PROVE IndInv'
  BY <1>3, UpdateInv
<1>4. ASSUME NEW q \in Reqs, Touch(q) PROVE IndInv'
  BY <1>4, TouchInv
<1>5. ASSUME NEW q \in Reqs, Logout(q) PROVE IndInv'
  BY <1>5, LogoutInv
<1>6. ASSUME NEW q \in Reqs, Close(q) PROVE IndInv'
  BY <1>6, CloseInv
<1>7. ASSUME NEW q \in Reqs, NEW u \in Users, Login(q, u) PROVE IndInv'
  BY <1>7, LoginInv
<1>8. ASSUME NEW q \in Reqs, NEW u \in Users, NEW v \in Values, Check(q, u, v)
      PROVE  IndInv'
  BY <1>8, CheckInv
<1>9. CASE Tick
  BY <1>9, TickInv
<1>10. CASE Restart
  BY <1>10, RestartInv
<1> QED BY <1>1, <1>2, <1>3, <1>4, <1>5, <1>6, <1>7, <1>8, <1>9, <1>10 DEF Next

\* However logins, logouts and checks interleave, and wherever the backend dies
\* between two statements, CheckAccessToken never again accepts a token that a
\* later login replaced or a logout deleted.
THEOREM NoReturn == Spec => [](TypeOK /\ NoSessionReturns)
<1>1. Init => IndInv
  BY InitInv
<1>2. IndInv /\ [Next]_vars => IndInv'
  BY NextInv
<1>3. IndInv => TypeOK /\ NoSessionReturns
  BY BehindSuffices DEF IndInv
<1> QED BY <1>1, <1>2, <1>3, PTL DEF Spec

\* In particular every variable keeps its type.
COROLLARY Typed == Spec => []TypeOK
BY NoReturn, PTL
=============================================================================
