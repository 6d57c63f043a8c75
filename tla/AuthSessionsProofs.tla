------------------------ MODULE AuthSessionsProofs --------------------------
(* Refresh tokens are exchanged once and a login has one live token, for  *)
(* any number of concurrent requests, users and tokens.                   *)
EXTENDS AuthSessions, TLAPS

IInv ==
  /\ TypeOK /\ IssuedRows /\ Lineage /\ ReplacingRotated
  /\ ExchangedOnce /\ OneSessionPerLogin

LEMMA InitInv == Init => IInv
BY NoneAssumption DEF Init, IInv, TypeOK, IssuedRows, Lineage, ReplacingRotated,
   Replacing, ExchangedOnce, OneSessionPerLogin, Idle

\* What a pending request holds, by the statement it executes next.
LEMMA PendingType ==
  ASSUME TypeOK, NEW r \in Requests
  PROVE  /\ requests[r].at = "register" => requests[r].email \in Emails
         /\ requests[r].at \in {"purge", "rotate"} => requests[r].token \in Tokens
         /\ requests[r].at = "create" => requests[r].replaces \in Tokens \cup {None}
BY DEF TypeOK, Pending, Idle

LEMMA TypeStep == TypeOK /\ [Next]_vars => TypeOK'
<1> SUFFICES ASSUME TypeOK, [Next]_vars PROVE TypeOK'
  OBVIOUS
<1> USE DEF TypeOK
<1>1. ASSUME NEW r \in Requests, NEW e \in Emails, RegisterFind(r, e) \/ Login(r, e)
      PROVE  TypeOK'
  BY <1>1 DEF RegisterFind, Login, Goto, Pending
<1>2. ASSUME NEW r \in Requests, RegisterCreate(r) PROVE TypeOK'
  BY <1>2, PendingType DEF RegisterCreate, Goto, Pending
<1>3. ASSUME NEW r \in Requests, NEW t \in Tokens, RefreshFind(r, t) PROVE TypeOK'
  BY <1>3 DEF RefreshFind, Goto, Pending
<1>4. ASSUME NEW r \in Requests, NEW t \in Tokens, CreateSession(r, t) PROVE TypeOK'
  BY <1>4, PendingType DEF CreateSession, Goto
<1>5. ASSUME NEW r \in Requests, RefreshPurge(r) PROVE TypeOK'
  BY <1>5, PendingType DEF RefreshPurge, Remove, Goto
<1>6. ASSUME NEW r \in Requests, RefreshRotate(r) PROVE TypeOK'
  BY <1>6, PendingType DEF RefreshRotate, Remove, Goto, Pending
<1>7. ASSUME NEW r \in Requests, Fail(r) PROVE TypeOK'
  BY <1>7 DEF Fail, Goto
<1>8. ASSUME NEW t \in Tokens, Logout(t) \/ Expire(t) PROVE TypeOK'
  BY <1>8 DEF Logout, Expire, Remove
<1>9. CASE CleanupExpired
  BY <1>9 DEF CleanupExpired
<1>10. CASE Crash
  BY <1>10 DEF Crash
<1>11. CASE UNCHANGED vars
  BY <1>11 DEF vars
<1> QED BY <1>1, <1>2, <1>3, <1>4, <1>5, <1>6, <1>7, <1>8, <1>9, <1>10, <1>11 DEF Next

-----------------------------------------------------------------------------

\* A step that issues nothing, deletes rows without exchanging them and lets
\* no request begin to create for a token.
LEMMA DeletingStep ==
  ASSUME IInv, TypeOK', UNCHANGED <<issued, parent, login>>,
         sessions' \subseteq sessions,
         \A t \in Tokens : fate'[t] # fate[t] => t \in sessions \ sessions',
         \A r \in Requests : Replacing(r)' \in {Replacing(r), None}
  PROVE  IInv'
<1> USE DEF IInv, TypeOK
<1>1. IssuedRows'
  BY DEF IssuedRows
<1>2. Lineage'
  BY NoneAssumption DEF Lineage, IssuedRows
<1>3. ReplacingRotated'
  <2> SUFFICES ASSUME NEW r \in Requests, Replacing(r)' # None
               PROVE  /\ Replacing(r)' \in issued' /\ fate'[Replacing(r)'] = "rotated"
                      /\ \A t \in issued' : parent'[t] # Replacing(r)'
                      /\ \A q \in Requests : Replacing(q)' = Replacing(r)' => q = r
                      /\ \A t \in sessions' : login'[t] # login'[Replacing(r)']
                      /\ \A q \in Requests :
                           Replacing(q)' # None /\ login'[Replacing(q)'] = login'[Replacing(r)']
                             => q = r
    BY DEF ReplacingRotated
  <2>1. Replacing(r)' = Replacing(r) /\ Replacing(r) # None
    OBVIOUS
  <2>2. /\ Replacing(r) \in issued /\ fate[Replacing(r)] = "rotated"
        /\ \A t \in issued : parent[t] # Replacing(r)
        /\ \A q \in Requests : Replacing(q) = Replacing(r) => q = r
        /\ \A t \in sessions : login[t] # login[Replacing(r)]
        /\ \A q \in Requests :
             Replacing(q) # None /\ login[Replacing(q)] = login[Replacing(r)] => q = r
    BY <2>1 DEF ReplacingRotated
  <2>3. fate'[Replacing(r)] = "rotated"
    BY <2>2
  <2> HIDE DEF Replacing
  <2> QED BY <2>1, <2>2, <2>3
<1>4. ExchangedOnce' /\ OneSessionPerLogin'
  BY DEF ExchangedOnce, OneSessionPerLogin
<1> QED BY <1>1, <1>2, <1>3, <1>4
\* The request that deletes the row is the only one that may replace its token.
LEMMA RotateStep ==
  ASSUME IInv, TypeOK', NEW r \in Requests, RefreshRotate(r)
  PROVE  IInv'
<1> USE DEF IInv, TypeOK
<1> DEFINE old == requests[r].token
<1>1. old \in Tokens /\ old # None
  BY PendingType, NoneAssumption DEF RefreshRotate
<1>2. CASE old \notin sessions
  <2>1. /\ sessions' = sessions /\ fate' = fate
        /\ requests' = [requests EXCEPT ![r] = Idle]
    BY <1>2 DEF RefreshRotate, Remove, Goto
  <2>2. \A q \in Requests : Replacing(q)' \in {Replacing(q), None}
    BY <2>1 DEF Replacing, Idle
  <2> QED BY <2>1, <2>2, DeletingStep DEF RefreshRotate
<1>3. CASE old \in sessions
  <2>1. /\ sessions' = sessions \ {old} /\ fate' = [fate EXCEPT ![old] = "rotated"]
        /\ requests' = [requests EXCEPT ![r] = [at |-> "create", replaces |-> old]]
        /\ UNCHANGED <<issued, parent, login>>
    BY <1>3 DEF RefreshRotate, Remove, Goto
  <2>2. Replacing(r)' = old /\ \A q \in Requests : q # r => Replacing(q)' = Replacing(q)
    BY <2>1 DEF Replacing
  <2>3. old \in issued /\ fate[old] = "live"
    BY <1>3 DEF IssuedRows
  <2>4. IssuedRows'
    BY <1>1, <2>1, <2>3 DEF IssuedRows
  <2>5. Lineage'
    BY <1>1, <2>1 DEF Lineage
  <2>6. \A t \in issued : parent[t] # old
    BY <1>1, <2>3 DEF Lineage
  <2>7. \A q \in Requests : Replacing(q) # old
    BY <1>1, <2>3 DEF ReplacingRotated
  <2>8. \A t \in sessions' : login[t] # login[old]
    BY <1>3, <2>1 DEF OneSessionPerLogin
  <2>9. \A q \in Requests : Replacing(q) # None => login[Replacing(q)] # login[old]
    BY <1>3 DEF ReplacingRotated
  <2>10. ReplacingRotated'
    <3> SUFFICES ASSUME NEW p \in Requests, Replacing(p)' # None
                 PROVE  /\ Replacing(p)' \in issued' /\ fate'[Replacing(p)'] = "rotated"
                        /\ \A t \in issued' : parent'[t] # Replacing(p)'
                        /\ \A q \in Requests : Replacing(q)' = Replacing(p)' => q = p
                        /\ \A t \in sessions' : login'[t] # login'[Replacing(p)']
                        /\ \A q \in Requests :
                             Replacing(q)' # None /\ login'[Replacing(q)'] = login'[Replacing(p)']
                               => q = p
      BY DEF ReplacingRotated
    <3>1. CASE p = r
      BY <1>1, <2>1, <2>2, <2>3, <2>6, <2>7, <2>8, <2>9, <3>1
    <3>2. CASE p # r
      <4>1. Replacing(p)' = Replacing(p) /\ Replacing(p) # None
        BY <2>2, <3>2
      <4>2. /\ Replacing(p) \in issued /\ fate[Replacing(p)] = "rotated"
            /\ \A t \in issued : parent[t] # Replacing(p)
            /\ \A q \in Requests : Replacing(q) = Replacing(p) => q = p
            /\ \A t \in sessions : login[t] # login[Replacing(p)]
            /\ \A q \in Requests :
                 Replacing(q) # None /\ login[Replacing(q)] = login[Replacing(p)] => q = p
        BY <4>1 DEF ReplacingRotated
      <4>3. fate'[Replacing(p)] = "rotated"
        BY <2>1, <2>7, <4>2
      <4>4. \A q \in Requests : Replacing(q)' = Replacing(p) => q = p
        BY <2>2, <2>7, <3>2, <4>2
      <4>5. \A q \in Requests :
              Replacing(q)' # None /\ login[Replacing(q)'] = login[Replacing(p)] => q = p
        BY <2>2, <2>9, <3>2, <4>1, <4>2
      <4> HIDE DEF Replacing
      <4> QED BY <2>1, <4>1, <4>2, <4>3, <4>4, <4>5
    <3> QED BY <3>1, <3>2
  <2>11. ExchangedOnce' /\ OneSessionPerLogin'
    BY <2>1 DEF ExchangedOnce, OneSessionPerLogin
  <2> QED BY <2>4, <2>5, <2>10, <2>11
<1> QED BY <1>2, <1>3

\* A new row continues the login of the token it replaces, or begins one.
LEMMA CreateStep ==
  ASSUME IInv, TypeOK', NEW r \in Requests, NEW new \in Tokens, CreateSession(r, new)
  PROVE  IInv'
<1> USE DEF IInv, TypeOK
<1> DEFINE old == requests[r].replaces
           root == IF old = None THEN new ELSE login[old]
<1>1. /\ new \notin issued /\ issued' = issued \cup {new} /\ sessions' = sessions \cup {new}
      /\ parent' = [parent EXCEPT ![new] = old] /\ login' = [login EXCEPT ![new] = root]
      /\ requests' = [requests EXCEPT ![r] = Idle] /\ fate' = fate
  BY DEF CreateSession, Goto
<1>2. Replacing(r) = old /\ new # None
  BY NoneAssumption DEF CreateSession, Replacing
<1>3. Replacing(r)' = None /\ \A q \in Requests : q # r => Replacing(q)' = Replacing(q)
  BY <1>1 DEF Replacing, Idle
<1>4. old # None =>
        /\ old \in issued /\ fate[old] = "rotated" /\ \A t \in issued : parent[t] # old
        /\ \A q \in Requests : Replacing(q) = old => q = r
        /\ \A t \in sessions : login[t] # root
        /\ \A q \in Requests : Replacing(q) # None /\ login[Replacing(q)] = root => q = r
  BY <1>2 DEF ReplacingRotated
<1>5. \A t \in issued : login[t] \in issued /\ login[t] # new /\ t # new
  BY <1>1 DEF Lineage
<1>6. fate[new] = "live"
  BY <1>1 DEF IssuedRows
<1>7. IssuedRows'
  BY <1>1, <1>6 DEF IssuedRows
<1>8. Lineage'
  BY <1>1, <1>4, <1>5 DEF Lineage
<1>9. ExchangedOnce'
  BY <1>1, <1>4 DEF ExchangedOnce
<1>10. \A t \in sessions : login[t] # root
  BY <1>4, <1>5 DEF IssuedRows
<1>11. OneSessionPerLogin'
  BY <1>1, <1>5, <1>10 DEF OneSessionPerLogin, IssuedRows
<1>12. ReplacingRotated'
  <2> SUFFICES ASSUME NEW p \in Requests, Replacing(p)' # None
               PROVE  /\ Replacing(p)' \in issued' /\ fate'[Replacing(p)'] = "rotated"
                      /\ \A t \in issued' : parent'[t] # Replacing(p)'
                      /\ \A q \in Requests : Replacing(q)' = Replacing(p)' => q = p
                      /\ \A t \in sessions' : login'[t] # login'[Replacing(p)']
                      /\ \A q \in Requests :
                           Replacing(q)' # None /\ login'[Replacing(q)'] = login'[Replacing(p)']
                             => q = p
    BY DEF ReplacingRotated
  <2>1. p # r /\ Replacing(p)' = Replacing(p) /\ Replacing(p) # None
    BY <1>3
  <2>2. /\ Replacing(p) \in issued /\ fate[Replacing(p)] = "rotated"
        /\ \A t \in issued : parent[t] # Replacing(p)
        /\ \A q \in Requests : Replacing(q) = Replacing(p) => q = p
        /\ \A t \in sessions : login[t] # login[Replacing(p)]
        /\ \A q \in Requests :
             Replacing(q) # None /\ login[Replacing(q)] = login[Replacing(p)] => q = p
    BY <2>1 DEF ReplacingRotated
  <2>3. Replacing(p) # new /\ login'[Replacing(p)] = login[Replacing(p)]
    BY <1>1, <2>2
  <2>4. old # Replacing(p) /\ root # login[Replacing(p)]
    BY <1>2, <1>4, <1>5, <2>1, <2>2
  <2>5. \A q \in Requests : Replacing(q)' # None => Replacing(q)' = Replacing(q) /\ Replacing(q) # new
    BY <1>1, <1>3 DEF ReplacingRotated
  <2> HIDE DEF Replacing, old, root
  <2> QED BY <1>1, <2>1, <2>2, <2>3, <2>4, <2>5
<1> QED BY <1>7, <1>8, <1>9, <1>11, <1>12

-----------------------------------------------------------------------------

LEMMA NextStep == IInv /\ [Next]_vars => IInv'
<1> SUFFICES ASSUME IInv, [Next]_vars PROVE IInv'
  OBVIOUS
<1>1. TypeOK'
  BY TypeStep DEF IInv
<1> USE <1>1 DEF IInv, TypeOK
<1>2. ASSUME NEW r \in Requests, NEW e \in Emails, RegisterFind(r, e) \/ Login(r, e)
      PROVE  IInv'
  <2>1. \A q \in Requests : Replacing(q)' \in {Replacing(q), None}
    BY <1>2 DEF RegisterFind, Login, Goto, Replacing
  <2> QED BY <1>2, <2>1, DeletingStep DEF RegisterFind, Login
<1>3. ASSUME NEW r \in Requests, RegisterCreate(r) PROVE IInv'
  <2>1. \A q \in Requests : Replacing(q)' \in {Replacing(q), None}
    BY <1>3 DEF RegisterCreate, Goto, Replacing, Idle
  <2> QED BY <1>3, <2>1, DeletingStep DEF RegisterCreate
<1>4. ASSUME NEW r \in Requests, NEW t \in Tokens, RefreshFind(r, t) PROVE IInv'
  <2>1. \A q \in Requests : Replacing(q)' \in {Replacing(q), None}
    BY <1>4 DEF RefreshFind, Goto, Replacing
  <2> QED BY <1>4, <2>1, DeletingStep DEF RefreshFind
<1>5. ASSUME NEW r \in Requests, RefreshPurge(r) PROVE IInv'
  <2>1. \A q \in Requests : Replacing(q)' \in {Replacing(q), None}
    BY <1>5 DEF RefreshPurge, Goto, Replacing, Idle
  <2>2. /\ sessions' \subseteq sessions
        /\ \A t \in Tokens : fate'[t] # fate[t] => t \in sessions \ sessions'
    BY <1>5, PendingType DEF RefreshPurge, Remove, IssuedRows
  <2> QED BY <1>5, <2>1, <2>2, DeletingStep DEF RefreshPurge
<1>6. ASSUME NEW r \in Requests, Fail(r) PROVE IInv'
  <2>1. \A q \in Requests : Replacing(q)' \in {Replacing(q), None}
    BY <1>6 DEF Fail, Goto, Replacing, Idle
  <2> QED BY <1>6, <2>1, DeletingStep DEF Fail
<1>7. ASSUME NEW t \in Tokens, Logout(t) \/ Expire(t) PROVE IInv'
  <2>1. \A q \in Requests : Replacing(q)' = Replacing(q)
    BY <1>7 DEF Logout, Expire, Replacing
  <2>2. /\ sessions' \subseteq sessions
        /\ \A u \in Tokens : fate'[u] # fate[u] => u \in sessions \ sessions'
    BY <1>7 DEF Logout, Expire, Remove, IssuedRows
  <2> QED BY <1>7, <2>1, <2>2, DeletingStep DEF Logout, Expire
<1>8. CASE CleanupExpired
  <2>1. \A q \in Requests : Replacing(q)' = Replacing(q)
    BY <1>8 DEF CleanupExpired, Replacing
  <2>2. /\ sessions' \subseteq sessions
        /\ \A u \in Tokens : fate'[u] # fate[u] => u \in sessions \ sessions'
    BY <1>8 DEF CleanupExpired, IssuedRows
  <2> QED BY <1>8, <2>1, <2>2, DeletingStep DEF CleanupExpired
<1>9. CASE Crash
  <2>1. \A q \in Requests : Replacing(q)' = None
    BY <1>9 DEF Crash, Replacing, Idle
  <2> QED BY <1>9, <2>1, DeletingStep DEF Crash
<1>10. CASE UNCHANGED vars
  BY <1>10 DEF vars, IssuedRows, Lineage, ReplacingRotated, Replacing, ExchangedOnce,
     OneSessionPerLogin
<1> QED BY <1>2, <1>3, <1>4, <1>5, <1>6, <1>7, <1>8, <1>9, <1>10, RotateStep, CreateStep DEF Next

THEOREM Invariance == Spec => []IInv
BY InitInv, NextStep, PTL DEF Spec

\* The rows, the requests and the history have their declared types in every
\* reachable state, for any number of requests.
THEOREM TypeCorrect == Spec => []TypeOK
<1>1. IInv => TypeOK
  BY DEF IInv
<1> QED BY Invariance, <1>1, PTL

\* AuthService.refresh exchanges a refresh token for at most one new one.
THEOREM TokenExchangedOnce == Spec => []ExchangedOnce
<1>1. IInv => ExchangedOnce
  BY DEF IInv
<1> QED BY Invariance, <1>1, PTL

\* No chain of refreshes forks: a login has at most one live refresh token.
THEOREM LoginHasOneSession == Spec => []OneSessionPerLogin
<1>1. IInv => OneSessionPerLogin
  BY DEF IInv
<1> QED BY Invariance, <1>1, PTL

\* A token deleted by a logout or by its expiry is never exchanged.
THEOREM RevokedIsFinal == Spec => []RevokedNeverExchanged
<1>1. IInv => RevokedNeverExchanged
  BY DEF IInv, Lineage, RevokedNeverExchanged
<1> QED BY Invariance, <1>1, PTL

-----------------------------------------------------------------------------
(* The refinement of TokenChain. *)

\* A step of the chain that can only lose capabilities.
Loses ==
  /\ UNCHANGED <<issued, login>> /\ sessions' \subseteq sessions
  /\ \A r \in Requests : Replacing(r)' \in {Replacing(r), None}

LEMMA LosingStep ==
  ASSUME Loses PROVE Chain!Next
<1>1. Exchanging' \subseteq Exchanging
  <2> SUFFICES ASSUME NEW r \in Requests, Replacing(r)' # None
               PROVE  login'[Replacing(r)'] \in Exchanging
    BY DEF Exchanging
  <2>1. Replacing(r)' = Replacing(r) /\ login' = login
    BY DEF Loses
  <2> QED BY <2>1 DEF Exchanging
<1>2. Chain!End(sessions \ sessions', Exchanging \ Exchanging')
  BY <1>1 DEF Loses, Chain!End
<1>3. sessions \ sessions' \in SUBSET sessions /\ Exchanging \ Exchanging' \in SUBSET Exchanging
  OBVIOUS
<1> HIDE DEF Exchanging
<1> QED BY <1>2, <1>3 DEF Chain!Next

\* Every statement but the two that move a capability loses one or none.
LEMMA StepLosesOrMoves ==
  ASSUME IInv, [Next]_vars
  PROVE  \/ Loses
         \/ \E r \in Requests : RefreshRotate(r) /\ requests[r].token \in sessions
         \/ \E r \in Requests, t \in Tokens : CreateSession(r, t)
<1>1. ASSUME NEW r \in Requests, NEW e \in Emails, RegisterFind(r, e) \/ Login(r, e) PROVE Loses
  BY <1>1 DEF RegisterFind, Login, Goto, Replacing, Loses, IInv, TypeOK
<1>2. ASSUME NEW r \in Requests, RegisterCreate(r) PROVE Loses
  BY <1>2 DEF RegisterCreate, Goto, Replacing, Idle, Loses, IInv, TypeOK
<1>3. ASSUME NEW r \in Requests, NEW t \in Tokens, RefreshFind(r, t) PROVE Loses
  BY <1>3 DEF RefreshFind, Goto, Replacing, Loses, IInv, TypeOK
<1>4. ASSUME NEW r \in Requests, RefreshPurge(r) PROVE Loses
  BY <1>4 DEF RefreshPurge, Remove, Goto, Replacing, Idle, Loses, IInv, TypeOK
<1>5. ASSUME NEW r \in Requests, RefreshRotate(r), requests[r].token \notin sessions PROVE Loses
  BY <1>5 DEF RefreshRotate, Remove, Goto, Replacing, Idle, Loses, IInv, TypeOK
<1>6. ASSUME NEW r \in Requests, Fail(r) PROVE Loses
  BY <1>6 DEF Fail, Goto, Replacing, Idle, Loses, IInv, TypeOK
<1>7. ASSUME NEW t \in Tokens, Logout(t) \/ Expire(t) PROVE Loses
  BY <1>7 DEF Logout, Expire, Remove, Replacing, Loses
<1>8. CASE CleanupExpired
  BY <1>8 DEF CleanupExpired, Replacing, Loses
<1>9. CASE Crash
  BY <1>9 DEF Crash, Replacing, Idle, Loses
<1>10. CASE UNCHANGED vars
  BY <1>10 DEF vars, Replacing, Loses
<1> QED BY <1>1, <1>2, <1>3, <1>4, <1>5, <1>6, <1>7, <1>8, <1>9, <1>10 DEF Next

\* Deleting the found row takes the login's capability from its live token.
LEMMA RotateTakes ==
  ASSUME IInv, NEW r \in Requests, RefreshRotate(r), requests[r].token \in sessions
  PROVE  Chain!Take(requests[r].token)
<1> DEFINE old == requests[r].token
<1>1. /\ sessions' = sessions \ {old} /\ UNCHANGED <<issued, login>>
      /\ requests' = [requests EXCEPT ![r] = [at |-> "create", replaces |-> old]]
  BY DEF RefreshRotate, Remove, Goto
<1>2. Replacing(r) = None /\ old # None
  BY NoneAssumption DEF RefreshRotate, Replacing, IInv, TypeOK
<1>3. Replacing(r)' = old /\ \A q \in Requests : q # r => Replacing(q)' = Replacing(q)
  BY <1>1 DEF Replacing, IInv, TypeOK
<1> HIDE DEF old
<1>4. Exchanging' = Exchanging \cup {login[old]}
  BY <1>1, <1>2, <1>3 DEF Exchanging
<1> QED BY <1>1, <1>4 DEF Chain!Take, old

\* A row created for a login begins a chain; one created for a token that was
\* deleted is the successor its exchange hands out.
LEMMA CreateBeginsOrGives ==
  ASSUME IInv, NEW r \in Requests, NEW new \in Tokens, CreateSession(r, new)
  PROVE  Chain!Next
<1> DEFINE old == requests[r].replaces
<1>1. /\ new \in Tokens \ issued /\ issued' = issued \cup {new} /\ sessions' = sessions \cup {new}
      /\ login' = [login EXCEPT ![new] = IF old = None THEN new ELSE login[old]]
      /\ requests' = [requests EXCEPT ![r] = Idle]
  BY DEF CreateSession, Goto
<1>2. Replacing(r) = old
  BY DEF CreateSession, Replacing
<1>3. Replacing(r)' = None /\ \A q \in Requests : q # r => Replacing(q)' = Replacing(q)
  BY <1>1 DEF Replacing, Idle, IInv, TypeOK
<1> HIDE DEF old
<1>4. \A q \in Requests : Replacing(q) # None =>
        /\ Replacing(q) \in issued /\ Replacing(q) \in Tokens
        /\ login'[Replacing(q)] = login[Replacing(q)]
        /\ q # r /\ old # None => login[Replacing(q)] # login[old]
  <2> SUFFICES ASSUME NEW q \in Requests, Replacing(q) # None
               PROVE  /\ Replacing(q) \in issued /\ Replacing(q) \in Tokens
                      /\ login'[Replacing(q)] = login[Replacing(q)]
                      /\ q # r /\ old # None => login[Replacing(q)] # login[old]
    OBVIOUS
  <2>1. Replacing(q) \in issued /\ Replacing(q) \in Tokens
    BY DEF IInv, TypeOK, ReplacingRotated
  <2>2. login'[Replacing(q)] = login[Replacing(q)]
    BY <1>1, <2>1 DEF IInv, TypeOK
  <2>3. ASSUME q # r, old # None PROVE login[Replacing(q)] # login[old]
    BY <1>2, <2>3 DEF IInv, ReplacingRotated
  <2> QED BY <2>1, <2>2, <2>3
<1>5. CASE old = None
  <2>1. Exchanging' = Exchanging
    BY <1>2, <1>3, <1>4, <1>5 DEF Exchanging
  <2>2. Chain!Begin(new)
    BY <1>1, <1>5, <2>1 DEF Chain!Begin, Chain!Issue
  <2> QED BY <2>2 DEF Chain!Next
<1>6. CASE old # None
  <2>1. login[old] \in Exchanging
    BY <1>2, <1>6 DEF Exchanging
  <2>2. Exchanging' = Exchanging \ {login[old]}
    BY <1>2, <1>3, <1>4, <1>6 DEF Exchanging
  <2>3. Chain!Give(login[old], new)
    BY <1>1, <1>6, <2>1, <2>2 DEF Chain!Give, Chain!Issue
  <2> QED BY <2>1, <2>3 DEF Chain!Next
<1> QED BY <1>5, <1>6

\* Every step is a step of the chain (one that loses nothing stutters).
LEMMA ChainStep == ASSUME IInv, [Next]_vars PROVE Chain!Next
<1>1. ASSUME NEW r \in Requests, RefreshRotate(r), requests[r].token \in sessions
      PROVE  Chain!Next
  <2>1. requests[r].token \in Tokens
    BY <1>1 DEF IInv, TypeOK
  <2> QED BY <1>1, <2>1, RotateTakes DEF Chain!Next
<1> QED BY <1>1, StepLosesOrMoves, LosingStep, CreateBeginsOrGives

\* The interleaved statements implement the chain of single capabilities, for
\* any number of concurrent requests.
THEOREM ChainImplemented == Spec => ImplementsTokenChain
<1>1. Init => Chain!Init
  BY DEF Init, Chain!Init, Exchanging, Replacing, Idle
<1>2. IInv /\ [Next]_vars => [Chain!Next]_(Chain!vars)
  BY ChainStep
<1> QED BY <1>1, <1>2, Invariance, PTL DEF Spec, ImplementsTokenChain, Chain!Spec

\* A step of the chain brings no login back.
LEMMA ChainLosesForGood ==
  ASSUME Chain!Next, sessions \subseteq issued, sessions' \subseteq Tokens,
         login \in [Tokens -> Tokens \cup {None}], issued \subseteq Tokens,
         NEW l \in issued, l \notin Chain!Held
  PROVE  l \notin Chain!Held'
<1> USE DEF Chain!Held
<1> HIDE DEF Exchanging
<1>1. ASSUME NEW new \in Tokens, NEW first, Chain!Issue(new, first), first # l,
             Exchanging' \subseteq Exchanging
      PROVE  l \notin Chain!Held'
  <2>1. /\ new \notin issued /\ sessions' = sessions \cup {new}
        /\ login'[new] = first /\ \A t \in sessions : login'[t] = login[t]
    BY <1>1 DEF Chain!Issue
  <2> QED BY <1>1, <2>1
<1>2. ASSUME NEW new \in Tokens, Chain!Begin(new) PROVE l \notin Chain!Held'
  BY <1>1, <1>2 DEF Chain!Begin, Chain!Issue
<1>3. ASSUME NEW first \in Exchanging, NEW new \in Tokens, Chain!Give(first, new)
      PROVE  l \notin Chain!Held'
  BY <1>1, <1>3 DEF Chain!Give
<1>4. ASSUME NEW old \in Tokens, Chain!Take(old) PROVE l \notin Chain!Held'
  BY <1>4 DEF Chain!Take
<1>5. ASSUME NEW tokens \in SUBSET sessions, NEW logins \in SUBSET Exchanging,
             Chain!End(tokens, logins)
      PROVE  l \notin Chain!Held'
  BY <1>5 DEF Chain!End
<1> QED BY <1>2, <1>3, <1>4, <1>5 DEF Chain!Next

\* A login whose last token was revoked, expired, purged or lost between the
\* delete and the create of a refresh never gets another one.
THEOREM LostLoginsStayLost == Spec => Chain!LostForGood
<1>1. IInv /\ IInv' /\ [Next]_vars =>
        [\A l \in issued : l \notin Chain!Held => l \notin Chain!Held']_(Chain!vars)
  <2> SUFFICES ASSUME IInv, IInv', [Next]_vars, NEW l \in issued, l \notin Chain!Held
               PROVE  l \notin Chain!Held'
    OBVIOUS
  <2>1. Chain!Next
    BY ChainStep
  <2>2. sessions \subseteq issued /\ issued \subseteq Tokens /\ sessions' \subseteq Tokens
        /\ login \in [Tokens -> Tokens \cup {None}]
    BY DEF IInv, TypeOK, IssuedRows
  <2> QED BY <2>1, <2>2, ChainLosesForGood
<1> QED BY <1>1, Invariance, PTL DEF Spec, Chain!LostForGood
=============================================================================
