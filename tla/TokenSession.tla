---------------------------- MODULE TokenSession ----------------------------
(***************************************************************************)
(* The `tokens` table of the backend: logins store an access token, the    *)
(* cookie middleware of routers/enter.go checks it on every other request  *)
(* and keeps it alive, a logout deletes it (api/utils/helper.go and        *)
(* api/user_api/user_info.go).  No handler opens a transaction and the     *)
(* table has no index, so each SQL statement is a step of its own.         *)
(***************************************************************************)
EXTENDS Naturals, FiniteSets

CONSTANTS
    Users,          \* accounts whose password is right
    Values,         \* access tokens: a UUID is drawn for each login
    Rows,           \* primary keys; First() orders by them
    Reqs,           \* requests served at once (bound)
    Life,           \* cryptoperiod in ticks
    MayRestart,     \* whether the backend process may die (BOOLEAN)
    NoRow, NoValue

Token == [user : Users, value : Values, age : 0 .. Life + 1]

ASSUME UsersAssumption == Users # {}
ASSUME RowsAssumption == Rows \subseteq Nat
ASSUME LifeAssumption == Life \in Nat
ASSUME NullAssumption == NoRow \notin Token /\ NoRow \notin Rows /\ NoValue \notin Values

VARIABLES
    tokens,     \* the table
    reqs,       \* the goroutine behind each request
    issued,     \* values drawn so far
    ended       \* history: values that were replaced or logged out

vars == <<tokens, reqs, issued, ended>>

Steps == {"idle", "create", "update", "touch", "stored", "passed", "refused"}

\* A login holds the value it drew, a check the row it read and its age.
Req == [ at    : Steps,
         user  : Users,
         value : Values \cup {NoValue},
         row   : Rows \cup {NoRow},
         age   : 0 .. Life + 1 ]

Serving(at, u, v, r) == [at |-> at, user |-> u, value |-> v, row |-> r, age |-> 0]

Answering(at) == Serving(at, CHOOSE u \in Users : TRUE, NoValue, NoRow)
Idle == Answering("idle")

Live(table) == {r \in Rows : table[r] # NoRow}
TokensOf(table, u) == {r \in Live(table) : table[r].user = u}

\* First(): the match with the smallest primary key.
IsFirst(r, matches) == r \in matches /\ \A s \in matches : r <= s

\* A UUID no row and no goroutine holds.
FreshRows == {r \in Rows \ Live(tokens) : \A q \in Reqs : reqs[q].row # r}

Become(q, k) == reqs' = [reqs EXCEPT ![q] = k]

\* The value CheckAccessToken compares with is a user's current one.
CurrentRows(table) ==
    {r \in Live(table) : IsFirst(r, TokensOf(table, table[r].user))}
Current(table) == {table[r].value : r \in CurrentRows(table)}

\* Bookkeeping of the history: what was current and is no longer has ended.
Replaced == Current(tokens) \ Current(tokens')

Init ==
    /\ tokens = [r \in Rows |-> NoRow]
    /\ reqs = [q \in Reqs |-> Idle]
    /\ issued = {} /\ ended = {}

-----------------------------------------------------------------------------
(* UserLogin and SunshineLogin, after the password and status were checked: *)
(* draw a value, look for a row of the user, create or update it.          *)

Login(q, u) ==
    /\ reqs[q].at = "idle"
    /\ \E v \in Values \ issued :
          /\ issued' = issued \cup {v}
          /\ \/ /\ TokensOf(tokens, u) = {}
                /\ Become(q, Serving("create", u, v, NoRow))
             \/ \E r \in Rows : /\ IsFirst(r, TokensOf(tokens, u))
                                /\ Become(q, Serving("update", u, v, r))
    /\ UNCHANGED <<tokens, ended>>

\* Mutant: user and value are swapped.
NewTokenSwapped(k) == [user |-> k.value, value |-> k.user, age |-> 0]

NewToken(k) == [user |-> k.user, value |-> k.value, age |-> 0]

CreateToken(q) ==
    /\ reqs[q].at = "create"
    /\ \E r \in FreshRows :
          tokens' = [tokens EXCEPT ![r] = NewToken(reqs[q])]
    /\ ended' = ended \cup Replaced
    /\ Become(q, Answering("stored"))
    /\ UNCHANGED issued

\* Updates() hits no row that is gone.
Updated(table, k) ==
    IF k.row \in Live(table)
    THEN [table EXCEPT ![k.row] =
            [user |-> table[k.row].user, value |-> k.value, age |-> 0]]
    ELSE table

UpdateToken(q) ==
    /\ reqs[q].at = "update"
    /\ tokens' = Updated(tokens, reqs[q])
    /\ ended' = ended \cup Replaced
    /\ Become(q, Answering("stored"))
    /\ UNCHANGED issued

\* Mutant: only the first row is deleted.
LogoutRowsFirst(u) == {r \in Rows : IsFirst(r, TokensOf(tokens, u))}

LogoutRows(u) == TokensOf(tokens, u)

\* UserLogout, behind the middleware: DELETE of every row of the user in the
\* cookie the check has just passed.
Logout(q) ==
    /\ reqs[q].at = "passed"
    /\ LET u == reqs[q].user IN
       /\ tokens' = [r \in Rows |-> IF r \in LogoutRows(u) THEN NoRow ELSE tokens[r]]
       /\ ended' = ended \cup {tokens[r].value : r \in TokensOf(tokens, u)}
    /\ Become(q, Idle)
    /\ UNCHANGED issued

-----------------------------------------------------------------------------
(* CheckAccessToken: reads the first row of the user in the cookie; if it  *)
(* holds this value and is not too old, its created_time is moved forward. *)

Check(q, u, v) ==
    /\ reqs[q].at = "idle"
    /\ v \in issued
    /\ \/ /\ TokensOf(tokens, u) = {}
          /\ Become(q, Serving("refused", u, v, NoRow))
       \/ \E r \in Rows :
             /\ IsFirst(r, TokensOf(tokens, u))
             /\ Become(q, IF tokens[r].value = v /\ tokens[r].age <= Life
                          THEN Serving("touch", u, v, r)
                          ELSE Serving("refused", u, v, NoRow))
    /\ UNCHANGED <<tokens, issued, ended>>

\* created_time becomes the time at which the row was read.
Touch(q) ==
    /\ reqs[q].at = "touch"
    /\ tokens' = IF reqs[q].row \in Live(tokens)
                 THEN [tokens EXCEPT ![reqs[q].row].age = reqs[q].age] ELSE tokens
    /\ Become(q, Serving("passed", reqs[q].user, reqs[q].value, NoRow))
    /\ UNCHANGED <<issued, ended>>

Close(q) ==
    /\ reqs[q].at \in {"stored", "passed", "refused"}
    /\ Become(q, Idle)
    /\ UNCHANGED <<tokens, issued, ended>>

Older(age) == IF age > Life THEN age ELSE age + 1

Tick ==
    /\ tokens' = [r \in Rows |-> IF tokens[r] = NoRow THEN NoRow
                                 ELSE [tokens[r] EXCEPT !.age = Older(@)]]
    /\ reqs' = [q \in Reqs |-> IF reqs[q].at = "touch"
                               THEN [reqs[q] EXCEPT !.age = Older(@)] ELSE reqs[q]]
    /\ UNCHANGED <<issued, ended>>

\* The process dies and starts again: only the SQLite file survives.
Restart ==
    /\ MayRestart
    /\ reqs' = [q \in Reqs |-> Idle]
    /\ UNCHANGED <<tokens, issued, ended>>

Next ==
    \/ \E q \in Reqs : \/ CreateToken(q) \/ UpdateToken(q)
                       \/ Touch(q) \/ Logout(q) \/ Close(q)
                       \/ \E u \in Users : Login(q, u)
                       \/ \E u \in Users, v \in Values : Check(q, u, v)
    \/ Tick \/ Restart

Spec == Init /\ [][Next]_vars

-----------------------------------------------------------------------------
(* Properties.                                                             *)

TypeOK ==
    /\ tokens \in [Rows -> Token \cup {NoRow}]
    /\ reqs \in [Reqs -> Req]
    /\ issued \subseteq Values /\ ended \subseteq Values

\* A session that a later login replaced, or a logout ended, is never accepted
\* again, although logins that race may leave several rows of one user.
NoSessionReturns == Current(tokens) \cap ended = {}
=============================================================================
