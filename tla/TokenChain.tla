----------------------------- MODULE TokenChain -----------------------------
(***************************************************************************)
(* What the refresh tokens promise, without requests, rows or statements:  *)
(* a login holds a single capability, either as a live token or, while a   *)
(* refresh is under way, as an exchange.  It moves from the one to the     *)
(* other and back, to a token never issued before, until it is lost; it is *)
(* never duplicated and never comes back.                                  *)
(***************************************************************************)
CONSTANTS Tokens, None

VARIABLES
  live,       \* the tokens a refresh would accept
  issued,     \* the tokens ever handed out
  login,      \* the first token of its login, for every issued token
  exchanging  \* the logins whose token is being exchanged

vars == <<live, issued, login, exchanging>>

Init ==
  /\ live = {} /\ issued = {} /\ exchanging = {}
  /\ login = [t \in Tokens |-> None]

\* A token never issued before becomes live as the latest of login l.
Issue(token, l) ==
  /\ token \in Tokens \ issued
  /\ issued' = issued \cup {token} /\ live' = live \cup {token}
  /\ login' = [login EXCEPT ![token] = l]

\* register or login.
Begin(token) == Issue(token, token) /\ UNCHANGED exchanging

\* A refresh takes the live token...
Take(token) ==
  /\ token \in live
  /\ live' = live \ {token} /\ exchanging' = exchanging \cup {login[token]}
  /\ UNCHANGED <<issued, login>>

\* ... and hands out its successor.
Give(l, token) ==
  /\ l \in exchanging
  /\ Issue(token, l)
  /\ exchanging' = exchanging \ {l}

\* Logout, expiry, failure, crash: capabilities are only lost.
End(tokens, logins) ==
  /\ live' = live \ tokens /\ exchanging' = exchanging \ logins
  /\ UNCHANGED <<issued, login>>

Next ==
  \/ \E token \in Tokens : Begin(token) \/ Take(token)
  \/ \E l \in exchanging, token \in Tokens : Give(l, token)
  \/ \E tokens \in SUBSET live, logins \in SUBSET exchanging : End(tokens, logins)

Spec == Init /\ [][Next]_vars

\* The logins a client can still go on with.
Held == {login[t] : t \in live} \cup exchanging

(* A login that nobody holds a live token of, and of which no exchange is   *)
(* under way, never comes back: its user has to log in anew.                *)
LostForGood == [][\A l \in issued : l \notin Held => l \notin Held']_vars
=============================================================================
