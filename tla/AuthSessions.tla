---------------------------- MODULE AuthSessions ----------------------------
(***************************************************************************)
(* Accounts and refresh tokens: AuthService, the AuthController endpoints  *)
(* over it, and MaintenanceService.cleanupExpiredSessions.                 *)
(*                                                                         *)
(* A request is a chain of awaited statements with no transaction around   *)
(* them, so requests interleave between any two statements, an answer may  *)
(* be lost, and a crash ends every request where it stands.  bcrypt, JWTs  *)
(* and the fields of a user do not change the chain and are left out.      *)
(***************************************************************************)
EXTENDS FiniteSets

CONSTANTS
  Requests,  \* slots for the requests in flight (bound)
  Emails,    \* users.email, unique
  Tokens,    \* the random tokens drawn, none twice (bound)
  None

ASSUME NoneAssumption == None \notin Tokens \cup Emails

VARIABLES
  users,     \* the registered emails
  sessions,  \* auth_sessions: the tokens with a row
  expired,   \* tokens whose expiresAt has passed
  issued,    \* tokens that ever had a row
  parent,    \* the token a token was exchanged for, None after a login: history
  login,     \* the first token of its login, for every issued token: history
  fate,      \* how a token's row was deleted: history
  requests   \* the statement each request executes next

vars == <<users, sessions, expired, issued, parent, login, fate, requests>>

Idle == [at |-> "idle"]

\* `register` and `purge` and `rotate` await their statement; `create` awaits
\* authSession.create, for the token it replaces or for a login.
Pending ==
  [at : {"register"}, email : Emails]
    \cup [at : {"purge", "rotate"}, token : Tokens]
    \cup [at : {"create"}, replaces : Tokens \cup {None}]

Init ==
  /\ users = {}
  /\ sessions = {} /\ expired = {} /\ issued = {}
  /\ parent = [t \in Tokens |-> None]
  /\ login = [t \in Tokens |-> None]
  /\ fate = [t \in Tokens |-> "live"]
  /\ requests = [r \in Requests |-> Idle]

Goto(r, request) == requests' = [requests EXCEPT ![r] = request]

-----------------------------------------------------------------------------
(* register and login *)

RegisterFindBare(r, email) ==                      \* mutant: dto not passed on
  /\ requests[r] = Idle
  /\ email \notin users
  /\ Goto(r, [at |-> "register"])
  /\ UNCHANGED <<users, sessions, expired, issued, parent, login, fate>>

\* findUnique(email): when the email is taken, ConflictException.
RegisterFind(r, email) ==
  /\ requests[r] = Idle
  /\ email \notin users
  /\ Goto(r, [at |-> "register", email |-> email])
  /\ UNCHANGED <<users, sessions, expired, issued, parent, login, fate>>

\* user.create: the unique index rejects the second of two registrations.
RegisterCreate(r) ==
  /\ requests[r].at = "register"
  /\ IF requests[r].email \in users
       THEN Goto(r, Idle) /\ UNCHANGED users
       ELSE /\ users' = users \cup {requests[r].email}
            /\ Goto(r, [at |-> "create", replaces |-> None])
  /\ UNCHANGED <<sessions, expired, issued, parent, login, fate>>

\* findUnique(email) and bcrypt.compare succeed.
Login(r, email) ==
  /\ requests[r] = Idle
  /\ email \in users
  /\ Goto(r, [at |-> "create", replaces |-> None])
  /\ UNCHANGED <<users, sessions, expired, issued, parent, login, fate>>

-----------------------------------------------------------------------------
(* refresh *)

\* findUnique(token): any token a client ever got.  Unknown: 401.
RefreshFind(r, token) ==
  /\ requests[r] = Idle
  /\ token \in sessions
  /\ Goto(r, [at |-> IF token \in expired THEN "purge" ELSE "rotate", token |-> token])
  /\ UNCHANGED <<users, sessions, expired, issued, parent, login, fate>>

Remove(token, how) ==
  /\ sessions' = sessions \ {token}
  /\ fate' = IF token \in sessions THEN [fate EXCEPT ![token] = how] ELSE fate

\* delete of an expired session, then 401; when the row is gone, the delete
\* throws and the request ends all the same.
RefreshPurge(r) ==
  /\ requests[r].at = "purge"
  /\ Remove(requests[r].token, "purged")
  /\ Goto(r, Idle)
  /\ UNCHANGED <<users, expired, issued, parent, login>>

RefreshRotateMany(r) ==                                         \* mutant: deleteMany
  /\ requests[r].at = "rotate"
  /\ Remove(requests[r].token, "rotated")
  /\ Goto(r, [at |-> "create", replaces |-> requests[r].token])
  /\ UNCHANGED <<users, expired, issued, parent, login>>

RefreshRotateLate(r) ==                                  \* mutant: row kept
  /\ requests[r].at = "rotate"
  /\ requests[r].token \in sessions
  /\ Goto(r, [at |-> "create", replaces |-> requests[r].token])
  /\ UNCHANGED <<users, sessions, expired, issued, parent, login, fate>>

\* delete of the session: it throws when another request or the clean-up has
\* deleted the row since it was found, and only then goes on to create.
RefreshRotate(r) ==
  /\ requests[r].at = "rotate"
  /\ LET token == requests[r].token IN
       /\ Remove(token, "rotated")
       /\ Goto(r, IF token \in sessions THEN [at |-> "create", replaces |-> token] ELSE Idle)
  /\ UNCHANGED <<users, expired, issued, parent, login>>

\* createRefreshToken, of register, login and refresh.
CreateSession(r, token) ==
  /\ requests[r].at = "create"
  /\ token \notin issued
  /\ LET old == requests[r].replaces IN
       /\ parent' = [parent EXCEPT ![token] = old]
       /\ login' = [login EXCEPT ![token] = IF old = None THEN token ELSE login[old]]
  /\ sessions' = sessions \cup {token}
  /\ issued' = issued \cup {token}
  /\ Goto(r, Idle)
  /\ UNCHANGED <<users, expired, fate>>

-----------------------------------------------------------------------------

\* revokeRefreshToken: deleteMany never throws.
Logout(token) ==
  /\ token \in issued
  /\ Remove(token, "revoked")
  /\ UNCHANGED <<users, expired, issued, parent, login, requests>>

\* cleanupExpiredSessions, a cron job.
CleanupExpired ==
  /\ sessions' = sessions \ expired
  /\ fate' = [t \in Tokens |-> IF t \in sessions \cap expired THEN "purged" ELSE fate[t]]
  /\ UNCHANGED <<users, expired, issued, parent, login, requests>>

\* Time passes expiresAt.
Expire(token) ==
  /\ token \in issued \ expired
  /\ expired' = expired \cup {token}
  /\ UNCHANGED <<users, sessions, issued, parent, login, fate, requests>>

\* A statement fails: the request answers 500.
Fail(r) ==
  /\ requests[r] # Idle
  /\ Goto(r, Idle)
  /\ UNCHANGED <<users, sessions, expired, issued, parent, login, fate>>

Crash ==
  /\ requests' = [r \in Requests |-> Idle]
  /\ UNCHANGED <<users, sessions, expired, issued, parent, login, fate>>

Next ==
  \/ \E r \in Requests :
       \/ \E email \in Emails : RegisterFind(r, email) \/ Login(r, email)
       \/ RegisterCreate(r)
       \/ \E token \in Tokens : RefreshFind(r, token) \/ CreateSession(r, token)
       \/ RefreshPurge(r) \/ RefreshRotate(r) \/ Fail(r)
  \/ \E token \in Tokens : Logout(token) \/ Expire(token)
  \/ CleanupExpired \/ Crash

Spec == Init /\ [][Next]_vars

-----------------------------------------------------------------------------

TypeOK ==
  /\ users \in SUBSET Emails
  /\ sessions \in SUBSET Tokens /\ expired \in SUBSET Tokens /\ issued \in SUBSET Tokens
  /\ parent \in [Tokens -> Tokens \cup {None}]
  /\ login \in [Tokens -> Tokens \cup {None}]
  /\ fate \in [Tokens -> {"live", "rotated", "revoked", "purged"}]
  /\ requests \in [Requests -> Pending \cup {Idle}]

(* "The previous refresh token is revoked atomically ... to prevent token   *)
(* reuse across simultaneous refreshes": a refresh token is exchanged for   *)
(* at most one new one, however many refreshes present it at once.          *)
ExchangedOnce ==
  \A t, u \in issued : parent[t] = parent[u] /\ parent[t] # None => t = u

(* A login never has two live refresh tokens, through every chain of        *)
(* refreshes, failures and crashes.                                         *)
OneSessionPerLogin ==
  \A t, u \in sessions : login[t] = login[u] => t = u

(* A token that a logout or the expiry deleted is never exchanged, not even *)
(* by a refresh that had found the row before it was deleted.               *)
RevokedNeverExchanged ==
  \A t \in issued : parent[t] # None => fate[parent[t]] = "rotated"

-----------------------------------------------------------------------------
(* The refinement: an exchange is a request that has deleted its token's    *)
(* row and has not yet created the next one.                                *)

Replacing(r) == IF requests[r].at = "create" THEN requests[r].replaces ELSE None

Exchanging == {login[Replacing(r)] : r \in {q \in Requests : Replacing(q) # None}}

Chain == INSTANCE TokenChain WITH live <- sessions, exchanging <- Exchanging

(* Seen from outside, the interleaved statements of every request behave as *)
(* one capability per login that is taken, handed on or lost, and a refresh *)
(* that lost the race never hands anything out.                             *)
ImplementsTokenChain == Chain!Spec

-----------------------------------------------------------------------------
(* The inductive strengthening: a row is deleted by exactly one statement,  *)
(* and a request that is about to create is the one that deleted its token. *)

IssuedRows ==
  /\ sessions \subseteq issued
  /\ \A t \in Tokens : t \in sessions \/ t \notin issued => fate[t] = "live"

Lineage ==
  \A t \in issued :
    /\ login[t] \in issued
    /\ parent[t] # None =>
         /\ parent[t] \in issued /\ login[t] = login[parent[t]]
         /\ fate[parent[t]] = "rotated"
    /\ parent[t] = None => login[t] = t

ReplacingRotated ==
  \A r \in Requests : Replacing(r) # None =>
    /\ Replacing(r) \in issued /\ fate[Replacing(r)] = "rotated"
    /\ \A t \in issued : parent[t] # Replacing(r)
    /\ \A q \in Requests : Replacing(q) = Replacing(r) => q = r
    /\ \A t \in sessions : login[t] # login[Replacing(r)]
    /\ \A q \in Requests :
         Replacing(q) # None /\ login[Replacing(q)] = login[Replacing(r)] => q = r
=============================================================================
