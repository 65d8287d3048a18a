-------------------------- MODULE RefreshTokensProofs --------------------------
(***************************************************************************)
(* For any number of concurrent requests of one user, a session has one    *)
(* live refresh token at most, a reuse is recognised until the token       *)
(* expires, and ends every session but those being rotated. The invariant  *)
(* speaks of holders: a session is held by its live token or by the one    *)
(* request that has revoked it and is about to store the successor.        *)
(***************************************************************************)
EXTENDS RefreshTokens, FiniteSetTheorems, TLAPS

SessionOf(t) == issuedTokens[t].session
Rotates(c) == authCalls[c].pc = "issue"

(* Tokens that calls, sessions and the history name have been issued. *)
TokensKnown ==
    /\ Live \subseteq Issued
    /\ \A t \in Issued : SessionOf(t) \in Issued
    /\ \A c \in AuthClients :
          authCalls[c].pc \in {"reused", "revoke", "issue", "logout"}
              => authCalls[c].token \in Issued
    /\ breached \subseteq Issued

(* A session is held once: by one live token, or by one rotation. *)
HeldOnce ==
    /\ \A s, t \in Live : SessionOf(s) = SessionOf(t) => s = t
    /\ \A t \in Live, c \in AuthClients :
          Rotates(c) => SessionOf(t) # SessionOf(authCalls[c].token)
    /\ \A c, d \in AuthClients :
          Rotates(c) /\ Rotates(d)
              /\ SessionOf(authCalls[c].token) = SessionOf(authCalls[d].token) => c = d

(* A holder of a session that a reuse ended was spared. *)
HoldersSpared ==
    /\ \A t \in Live : SessionOf(t) \in breached => SessionOf(t) \in spared
    /\ \A c \in AuthClients : Rotates(c) /\ SessionOf(authCalls[c].token) \in breached
           => SessionOf(authCalls[c].token) \in spared

(* Closed registration inserts in the transaction that looks. *)
AccountsAreOne ==
    /\ registration = "closed" => \A c \in AuthClients : authCalls[c].pc # "insert"
    /\ accounts = {} \/ \E c \in AuthClients : accounts = {c}

AuthInv ==
    /\ AuthTypeOK /\ TokensKnown /\ HeldOnce /\ HoldersSpared /\ ReuseStaysDetectable
    /\ AccountsAreOne

(* No refresh token exists before the first login.                          *)
LEMMA AuthInitHolds == AuthInit => AuthInv
  BY RefreshAssumption DEF AuthInit, AuthInv, AuthTypeOK, TokensKnown, HeldOnce,
     HoldersSpared, ReuseStaysDetectable, AccountsAreOne, Live, Issued, NotIssued,
     IdleAuthCall, Rotates

------------------------------------------------------------------------------
(* Steps by what they do to the holders.                                   *)

(* A step that issues nothing and begins no rotation, whatever it revokes   *)
(* or deletes.                                                              *)
LEMMA HoldersDecrease ==
    ASSUME AuthInv, UNCHANGED <<issuedTokens, breached, spared>>,
           Live' \subseteq Live,
           \A c \in AuthClients : Rotates(c)' => Rotates(c) /\ authCalls'[c] = authCalls[c]
    PROVE  HeldOnce' /\ HoldersSpared'
  BY DEF AuthInv, HeldOnce, HoldersSpared, SessionOf

(* A token that nobody has issued starts a session of its own. *)
LEMMA FreshSession ==
    ASSUME AuthInv, NEW t \in RefreshIds \ Issued
    PROVE  /\ \A s \in Live : SessionOf(s) # t
           /\ \A c \in AuthClients : Rotates(c) => SessionOf(authCalls[c].token) # t
           /\ t \notin breached
  BY DEF AuthInv, TokensKnown, Rotates

(* What the issuing of a token does to the rows. *)
LEMMA Issuing ==
    ASSUME AuthInv, NEW t \in RefreshIds \ Issued, NEW parent \in RefreshIds \cup {NoRefreshId},
           NEW session \in RefreshIds, IssueNow(t, parent, session), UNCHANGED authClock
    PROVE  /\ refreshRows' \in [RefreshIds -> {"absent", "live", "revoked"}]
           /\ issuedTokens' \in [RefreshIds -> [parent : RefreshIds \cup {NoRefreshId},
                                                session : RefreshIds \cup {NoRefreshId},
                                                expires : 0..(MaxAuthClock + RefreshLifetime)]]
           /\ Live' = Live \cup {t}
           /\ Issued' = Issued \cup {t}
           /\ issuedTokens'[t].session = session
           /\ \A s \in Issued : issuedTokens'[s] = issuedTokens[s]
           /\ ReuseStaysDetectable'
<1>1. /\ refreshRows' = [refreshRows EXCEPT ![t] = "live"]
      /\ issuedTokens' = [issuedTokens EXCEPT ![t] =
            [parent |-> parent, session |-> session, expires |-> authClock + RefreshLifetime]]
  BY DEF IssueNow
<1>2. authClock + RefreshLifetime \in 0..(MaxAuthClock + RefreshLifetime)
  BY RefreshAssumption DEF AuthInv, AuthTypeOK
<1>3. /\ refreshRows' \in [RefreshIds -> {"absent", "live", "revoked"}]
      /\ issuedTokens' \in [RefreshIds -> [parent : RefreshIds \cup {NoRefreshId},
                                           session : RefreshIds \cup {NoRefreshId},
                                           expires : 0..(MaxAuthClock + RefreshLifetime)]]
  BY <1>1, <1>2 DEF AuthInv, AuthTypeOK
<1>4. Live' = Live \cup {t} /\ issuedTokens'[t].session = session
  BY <1>1 DEF AuthInv, AuthTypeOK, Live
<1>5. Issued' = Issued \cup {t} /\ \A s \in Issued : issuedTokens'[s] = issuedTokens[s]
  BY <1>1, RefreshAssumption DEF AuthInv, AuthTypeOK, Issued
<1>6. ReuseStaysDetectable'
  BY <1>1, <1>5 DEF AuthInv, AuthTypeOK, ReuseStaysDetectable, Expired, Issued
<1> QED BY <1>3, <1>4, <1>5, <1>6

(* A new token in a session nobody holds any more, or in one of its own.    *)
LEMMA IssuingKeepsHolders ==
    ASSUME AuthInv, NEW t \in RefreshIds \ Issued, NEW session \in RefreshIds,
           Live' = Live \cup {t}, Issued' = Issued \cup {t},
           issuedTokens'[t].session = session,
           \A s \in Issued : issuedTokens'[s] = issuedTokens[s],
           session \in Issued \cup {t},
           UNCHANGED <<breached, spared>>,
           \A c \in AuthClients : authCalls'[c].pc \in {"reused", "revoke", "issue", "logout"}
               => authCalls'[c] = authCalls[c],
           \A s \in Live : SessionOf(s) # session,
           \A c \in AuthClients : Rotates(c)' => SessionOf(authCalls[c].token) # session,
           session \in breached => session \in spared
    PROVE  TokensKnown' /\ HeldOnce' /\ HoldersSpared'
<1>1. Live \subseteq Issued /\ \A c \in AuthClients : Rotates(c) => authCalls[c].token \in Issued
  BY DEF AuthInv, TokensKnown, Rotates
<1>2. \A s \in Issued : SessionOf(s)' = SessionOf(s) /\ s # t
  BY DEF SessionOf
<1>3. SessionOf(t)' = session
  BY DEF SessionOf
<1>4. \A c \in AuthClients : Rotates(c)' => /\ Rotates(c)
                                           /\ authCalls'[c].token = authCalls[c].token
                                           /\ authCalls[c].token \in Issued
  BY <1>1 DEF Rotates
<1>5. TokensKnown'
  <2>1. Live' \subseteq Issued'
    BY <1>1
  <2>2. \A s \in Issued' : SessionOf(s)' \in Issued'
    BY <1>2, <1>3 DEF AuthInv, TokensKnown
  <2>3. \A c \in AuthClients :
           authCalls'[c].pc \in {"reused", "revoke", "issue", "logout"}
               => authCalls'[c].token \in Issued'
    BY DEF AuthInv, TokensKnown
  <2>4. breached' \subseteq Issued'
    BY DEF AuthInv, TokensKnown
  <2> QED BY <2>1, <2>2, <2>3, <2>4 DEF TokensKnown
<1>6. HeldOnce'
  <2>1. ASSUME NEW r \in Live', NEW s \in Live', SessionOf(r)' = SessionOf(s)' PROVE r = s
    BY <2>1, <1>1, <1>2, <1>3 DEF AuthInv, HeldOnce
  <2>2. ASSUME NEW s \in Live', NEW c \in AuthClients, Rotates(c)'
        PROVE  SessionOf(s)' # issuedTokens'[authCalls'[c].token].session
    BY <2>2, <1>1, <1>2, <1>3, <1>4 DEF AuthInv, HeldOnce, SessionOf
  <2>3. ASSUME NEW c \in AuthClients, NEW d \in AuthClients, Rotates(c)', Rotates(d)',
               issuedTokens'[authCalls'[c].token].session
                   = issuedTokens'[authCalls'[d].token].session
        PROVE  c = d
    BY <2>3, <1>4 DEF AuthInv, HeldOnce, SessionOf
  <2> QED BY <2>1, <2>2, <2>3 DEF HeldOnce, SessionOf
<1>7. HoldersSpared'
  BY <1>1, <1>2, <1>3, <1>4 DEF AuthInv, HoldersSpared, SessionOf
<1> QED BY <1>5, <1>6, <1>7

(* A request that moves on without issuing or beginning to rotate.          *)
LEMMA CallMoves ==
    ASSUME AuthInv, NEW c \in AuthClients, NEW pc \in {"idle", "reused", "revoke", "logout"},
           NEW t \in RefreshIds \cup {NoRefreshId}, AuthGoes(c, pc, t),
           pc # "idle" => t \in Issued,
           UNCHANGED <<issuedTokens, authClock, accounts, registration, breached, spared>>,
           refreshRows' \in [RefreshIds -> {"absent", "live", "revoked"}],
           Live' \subseteq Live,
           authFaults' \in 0..MaxAuthFaults,
           ReuseStaysDetectable'
    PROVE  AuthInv'
<1>1. Issued' = Issued
  BY DEF Issued
<1>2. \A d \in AuthClients : authCalls'[d] = IF d = c THEN [pc |-> pc, token |-> t]
                                             ELSE authCalls[d]
  BY DEF AuthGoes, AuthInv, AuthTypeOK
<1>3. AuthTypeOK'
  BY DEF AuthGoes, AuthInv, AuthTypeOK
<1>4. TokensKnown'
  BY <1>1, <1>2 DEF AuthInv, TokensKnown, SessionOf
<1>5. HeldOnce' /\ HoldersSpared'
  BY <1>2, HoldersDecrease DEF Rotates
<1>6. AccountsAreOne'
  BY <1>2 DEF AuthInv, AccountsAreOne
<1> QED BY <1>3, <1>4, <1>5, <1>6 DEF AuthInv

(* What is done to rows that are left where they are.                       *)
LEMMA RevokingKeepsRows ==
    ASSUME AuthInv, NEW t \in RefreshIds,
           refreshRows' = [refreshRows EXCEPT ![t] = IF @ = "absent" THEN @ ELSE "revoked"],
           UNCHANGED <<issuedTokens, authClock>>
    PROVE  /\ refreshRows' \in [RefreshIds -> {"absent", "live", "revoked"}]
           /\ Live' = Live \ {t}
           /\ ReuseStaysDetectable'
  BY DEF AuthInv, AuthTypeOK, Live, Issued, ReuseStaysDetectable, Expired

(* A step that leaves the token rows alone keeps what is said of them.      *)
LEMMA RowsKept ==
    ASSUME AuthInv, UNCHANGED <<refreshRows, issuedTokens, authClock>>
    PROVE  /\ refreshRows' \in [RefreshIds -> {"absent", "live", "revoked"}]
           /\ Live' \subseteq Live
           /\ ReuseStaysDetectable'
  BY DEF AuthInv, AuthTypeOK, Live, Issued, ReuseStaysDetectable, Expired

------------------------------------------------------------------------------
(* The invariant.                                                          *)

(* An account is registered; no token changes.                              *)
LEMMA RegistrationKeeps ==
    ASSUME AuthInv, NEW c \in AuthClients, Register(c) \/ InsertUser(c)
    PROVE  AuthInv'
<1>1. UNCHANGED <<refreshRows, issuedTokens, authClock, registration, breached, spared,
                  authFaults>>
  BY DEF Register, InsertUser
<1>2. \A d \in AuthClients : \/ authCalls'[d] = authCalls[d]
                              \/ authCalls'[d].pc \in {"insert", "idle"}
  BY DEF Register, InsertUser, AuthGoes, AuthEnds, AuthInv, AuthTypeOK
<1>3. AuthTypeOK'
  BY <1>1 DEF Register, InsertUser, AuthGoes, AuthEnds, AuthInv, AuthTypeOK
<1>4. TokensKnown'
  BY <1>1, <1>2 DEF AuthInv, TokensKnown, Live, Issued, SessionOf
<1>5. HeldOnce' /\ HoldersSpared'
  BY <1>1, <1>2, RowsKept, HoldersDecrease DEF Rotates
<1>6. AccountsAreOne'
  <2>1. CASE Register(c)
    BY <2>1 DEF Register, AuthGoes, AuthCallAt, AuthInv, AuthTypeOK, AccountsAreOne
  <2>2. CASE InsertUser(c)
    <3>1. registration = "open" /\ authCalls'[c].pc = "idle"
      BY <2>2 DEF InsertUser, AuthCallAt, AuthGoes, AuthEnds, AuthInv, AuthTypeOK, AccountsAreOne
    <3>2. accounts' = IF accounts = {} THEN {c} ELSE accounts
      BY <2>2, <3>1 DEF InsertUser
    <3> QED BY <3>1, <3>2, <1>1 DEF AuthInv, AccountsAreOne
  <2> QED BY <2>1, <2>2
<1> QED BY <1>3, <1>4, <1>5, <1>6, <1>1, RowsKept DEF AuthInv

(* A login issues a token under a new identifier.                           *)
LEMMA LoginKeeps ==
    ASSUME AuthInv, NEW c \in AuthClients, Login(c)
    PROVE  AuthInv'
<1>1. PICK t \in RefreshIds \ Issued : IssueNow(t, NoRefreshId, t)
  BY DEF Login
<1>2. UNCHANGED <<authCalls, authClock, accounts, registration, breached, spared, authFaults>>
  BY DEF Login
<1>3. /\ refreshRows' \in [RefreshIds -> {"absent", "live", "revoked"}]
      /\ issuedTokens' \in [RefreshIds -> [parent : RefreshIds \cup {NoRefreshId},
                                           session : RefreshIds \cup {NoRefreshId},
                                           expires : 0..(MaxAuthClock + RefreshLifetime)]]
      /\ Live' = Live \cup {t}
      /\ Issued' = Issued \cup {t}
      /\ issuedTokens'[t].session = t
      /\ \A s \in Issued : issuedTokens'[s] = issuedTokens[s]
      /\ ReuseStaysDetectable'
  BY <1>1, <1>2, Issuing
<1>4. /\ \A s \in Live : SessionOf(s) # t
      /\ \A d \in AuthClients : Rotates(d) => SessionOf(authCalls[d].token) # t
      /\ t \notin breached
  BY FreshSession
<1>5. TokensKnown' /\ HeldOnce' /\ HoldersSpared'
  BY <1>2, <1>3, <1>4, IssuingKeepsHolders DEF Rotates
<1>6. AuthTypeOK' /\ AccountsAreOne'
  BY <1>2, <1>3 DEF AuthInv, AuthTypeOK, AccountsAreOne
<1> QED BY <1>3, <1>5, <1>6 DEF AuthInv

(* A rotation issues the successor of the token it claimed.                 *)
LEMMA IssueSuccessorKeeps ==
    ASSUME AuthInv, NEW c \in AuthClients, IssueSuccessor(c)
    PROVE  AuthInv'
<1> DEFINE old == authCalls[c].token
           session == issuedTokens[old].session
<1>1. PICK t \in RefreshIds \ Issued : IssueNow(t, old, session)
  BY DEF IssueSuccessor
<1>2. /\ UNCHANGED <<authClock, accounts, registration, breached, spared, authFaults>>
      /\ AuthEnds(c) /\ Rotates(c)
  BY DEF IssueSuccessor, AuthCallAt, Rotates
<1>3. old \in Issued /\ session \in Issued
  BY <1>2 DEF AuthInv, TokensKnown, Rotates, SessionOf
<1>4. \A d \in AuthClients : authCalls'[d] = IF d = c THEN IdleAuthCall ELSE authCalls[d]
  BY <1>2 DEF AuthEnds, AuthGoes, IdleAuthCall, AuthInv, AuthTypeOK
<1>5. /\ refreshRows' \in [RefreshIds -> {"absent", "live", "revoked"}]
      /\ issuedTokens' \in [RefreshIds -> [parent : RefreshIds \cup {NoRefreshId},
                                           session : RefreshIds \cup {NoRefreshId},
                                           expires : 0..(MaxAuthClock + RefreshLifetime)]]
      /\ Live' = Live \cup {t}
      /\ Issued' = Issued \cup {t}
      /\ issuedTokens'[t].session = session
      /\ \A s \in Issued : issuedTokens'[s] = issuedTokens[s]
      /\ ReuseStaysDetectable'
  <2>1. old \in RefreshIds \cup {NoRefreshId} /\ session \in RefreshIds
    BY <1>3 DEF Issued
  <2> HIDE DEF old, session
  <2> QED BY <1>1, <1>2, <2>1, Issuing
<1>6. /\ \A s \in Live : SessionOf(s) # session
      /\ \A d \in AuthClients : Rotates(d)' => SessionOf(authCalls[d].token) # session
      /\ session \in breached => session \in spared
  BY <1>2, <1>4 DEF AuthInv, HeldOnce, HoldersSpared, SessionOf, Rotates, IdleAuthCall
<1>7. TokensKnown' /\ HeldOnce' /\ HoldersSpared'
  <2>1. \A d \in AuthClients : authCalls'[d].pc \in {"reused", "revoke", "issue", "logout"}
            => authCalls'[d] = authCalls[d]
    BY <1>4 DEF IdleAuthCall
  <2>2. session \in RefreshIds
    BY <1>3 DEF Issued
  <2> HIDE DEF session
  <2> QED BY <1>2, <1>3, <1>5, <1>6, <2>1, <2>2, IssuingKeepsHolders
<1>8. AuthTypeOK'
  BY <1>2, <1>5 DEF AuthEnds, AuthGoes, AuthInv, AuthTypeOK
<1>9. AccountsAreOne'
  BY <1>2, <1>4 DEF AuthInv, AccountsAreOne, IdleAuthCall
<1> QED BY <1>5, <1>7, <1>8, <1>9 DEF AuthInv

(* Presenting a token claims it, refuses it, or, for one that was used      *)
(* before, revokes them all.                                                *)
LEMMA RefreshKeeps ==
    ASSUME AuthInv, NEW c \in AuthClients, Refresh(c) \/ Logout(c)
    PROVE  AuthInv'
<1>1. UNCHANGED <<refreshRows, issuedTokens, authClock, accounts, registration,
                  breached, spared, authFaults>>
  BY DEF Refresh, Logout
<1>2. \/ UNCHANGED authCalls
      \/ \E pc \in {"reused", "revoke", "logout"}, t \in Issued : AuthGoes(c, pc, t)
  BY DEF Refresh, Logout, AuthInv, TokensKnown
<1>3. CASE UNCHANGED authCalls
  <2>1. HeldOnce' /\ HoldersSpared'
    BY <1>1, <1>3, RowsKept, HoldersDecrease DEF Rotates
  <2> QED BY <2>1, <1>1, <1>3, RowsKept DEF AuthInv, AuthTypeOK, TokensKnown, Live, Issued,
             SessionOf, AccountsAreOne
<1>4. CASE \E pc \in {"reused", "revoke", "logout"}, t \in Issued : AuthGoes(c, pc, t)
  <2>1. PICK pc \in {"reused", "revoke", "logout"}, t \in Issued : AuthGoes(c, pc, t)
    BY <1>4
  <2>2. t \in RefreshIds \cup {NoRefreshId} /\ authFaults' \in 0..MaxAuthFaults
    BY <1>1 DEF Issued, AuthInv, AuthTypeOK
  <2> QED BY <2>1, <2>2, <1>1, RowsKept, CallMoves
<1> QED BY <1>2, <1>3, <1>4

(* A logout revokes its token; a call that fails changes no row.            *)
LEMMA CallEndsKeeps ==
    ASSUME AuthInv, NEW c \in AuthClients, RevokeLoggedOut(c) \/ AuthCallFails(c)
    PROVE  AuthInv'
<1>1. /\ UNCHANGED <<issuedTokens, authClock, accounts, registration, breached, spared>>
      /\ AuthGoes(c, "idle", NoRefreshId)
  BY DEF RevokeLoggedOut, AuthCallFails, AuthEnds
<1>2. authFaults' \in 0..MaxAuthFaults
  BY RefreshAssumption DEF RevokeLoggedOut, AuthCallFails, AuthFault, AuthInv, AuthTypeOK
<1>3. /\ refreshRows' \in [RefreshIds -> {"absent", "live", "revoked"}]
      /\ Live' \subseteq Live
      /\ ReuseStaysDetectable'
  <2>1. CASE RevokeLoggedOut(c)
    <3>1. authCalls[c].token \in RefreshIds
      BY <2>1 DEF RevokeLoggedOut, AuthCallAt, AuthInv, TokensKnown, Issued
    <3> QED BY <2>1, <3>1, RevokingKeepsRows DEF RevokeLoggedOut
  <2>2. CASE AuthCallFails(c)
    BY <2>2, RowsKept DEF AuthCallFails
  <2> QED BY <2>1, <2>2
<1> QED BY <1>1, <1>2, <1>3, CallMoves

(* The request that revokes a live token takes the session over from it.    *)
LEMMA RevokePresentedKeeps ==
    ASSUME AuthInv, NEW c \in AuthClients, RevokePresented(c)
    PROVE  AuthInv'
<1> DEFINE t == authCalls[c].token
<1>1. /\ refreshRows' = [refreshRows EXCEPT ![t] = IF @ = "absent" THEN @ ELSE "revoked"]
      /\ UNCHANGED <<issuedTokens, authClock, accounts, registration, breached, spared,
                     authFaults>>
      /\ t \in Issued
  BY DEF RevokePresented, AuthCallAt, AuthInv, TokensKnown
<1>2. t \in RefreshIds /\ authFaults' \in 0..MaxAuthFaults
  BY <1>1 DEF Issued, AuthInv, AuthTypeOK
<1>3. /\ refreshRows' \in [RefreshIds -> {"absent", "live", "revoked"}]
      /\ Live' = Live \ {t}
      /\ ReuseStaysDetectable'
  BY <1>1, <1>2, RevokingKeepsRows
<1>4. CASE refreshRows[t] # "live"
  <2>1. AuthGoes(c, "idle", NoRefreshId)
    BY <1>4 DEF RevokePresented, AuthEnds
  <2> HIDE DEF t
  <2> QED BY <2>1, <1>1, <1>2, <1>3, CallMoves
<1>5. CASE refreshRows[t] = "live"
  <2>1. AuthGoes(c, "issue", t) /\ t \in Live
    BY <1>2, <1>5 DEF RevokePresented, Live
  <2>2. \A d \in AuthClients : authCalls'[d] = IF d = c THEN [pc |-> "issue", token |-> t]
                                               ELSE authCalls[d]
    BY <2>1 DEF AuthGoes, AuthInv, AuthTypeOK
  <2>3. AuthTypeOK'
    BY <1>1, <1>2, <1>3, <2>1 DEF AuthGoes, AuthInv, AuthTypeOK
  <2>4. TokensKnown'
    BY <1>1, <1>3, <2>2 DEF AuthInv, TokensKnown, Issued, SessionOf
  <2>5. HeldOnce'
    <3>1. \A r, s \in Live' : SessionOf(r)' = SessionOf(s)' => r = s
      BY <1>1, <1>3 DEF AuthInv, HeldOnce, SessionOf
    <3>2. \A s \in Live', d \in AuthClients :
             Rotates(d)' => SessionOf(s)' # issuedTokens'[authCalls'[d].token].session
      BY <1>1, <1>3, <2>1, <2>2 DEF AuthInv, HeldOnce, SessionOf, Rotates
    <3>3. \A d, e \in AuthClients :
             Rotates(d)' /\ Rotates(e)' /\ issuedTokens'[authCalls'[d].token].session
                 = issuedTokens'[authCalls'[e].token].session => d = e
      BY <1>1, <2>1, <2>2 DEF AuthInv, HeldOnce, SessionOf, Rotates
    <3> QED BY <3>1, <3>2, <3>3 DEF HeldOnce, SessionOf
  <2>6. HoldersSpared'
    BY <1>1, <1>3, <2>1, <2>2 DEF AuthInv, HoldersSpared, SessionOf, Rotates
  <2>7. AccountsAreOne'
    BY <1>1, <2>2 DEF AuthInv, AccountsAreOne
  <2> QED BY <1>3, <2>3, <2>4, <2>5, <2>6, <2>7 DEF AuthInv
<1> QED BY <1>4, <1>5

(* Every live token goes; the rotations under way are the spared ones.      *)
LEMMA RevokeAllKeeps ==
    ASSUME AuthInv, NEW c \in AuthClients, RevokeAllForUser(c)
    PROVE  AuthInv'
<1>1. /\ refreshRows' = [t \in RefreshIds |->
             IF refreshRows[t] = "live" THEN "revoked" ELSE refreshRows[t]]
      /\ breached' = Sessions /\ spared' = Rotating
      /\ AuthEnds(c)
      /\ UNCHANGED <<issuedTokens, authClock, accounts, registration, authFaults>>
  BY DEF RevokeAllForUser
<1>2. Live' = {} /\ Issued' = Issued
  BY <1>1 DEF Live, Issued
<1>3. \A d \in AuthClients : authCalls'[d] = IF d = c THEN IdleAuthCall ELSE authCalls[d]
  BY <1>1 DEF AuthEnds, AuthGoes, IdleAuthCall, AuthInv, AuthTypeOK
<1>4. \A d \in AuthClients : Rotates(d)' => Rotates(d) /\ authCalls'[d] = authCalls[d]
  BY <1>3 DEF Rotates, IdleAuthCall
<1>5. Sessions \subseteq Issued
  BY DEF Sessions, AuthInv, TokensKnown, SessionOf
<1>6. Rotating \subseteq Issued
  BY DEF Rotating, AuthCallAt, AuthInv, TokensKnown, SessionOf
<1>7. AuthTypeOK'
  <2>1. refreshRows' \in [RefreshIds -> {"absent", "live", "revoked"}]
    BY <1>1 DEF AuthInv, AuthTypeOK
  <2>2. breached' \subseteq RefreshIds /\ spared' \subseteq RefreshIds
    BY <1>1, <1>5, <1>6 DEF Issued
  <2>3. authCalls' = [authCalls EXCEPT ![c] = IdleAuthCall]
    BY <1>1 DEF AuthEnds, AuthGoes, IdleAuthCall
  <2> QED BY <1>1, <2>1, <2>2, <2>3 DEF AuthInv, AuthTypeOK, IdleAuthCall
<1>8. TokensKnown'
  <2>1. \A t \in Issued' : SessionOf(t)' \in Issued'
    BY <1>1, <1>2 DEF AuthInv, TokensKnown, SessionOf
  <2>2. breached' \subseteq Issued'
    BY <1>1, <1>2, <1>5
  <2> QED BY <1>2, <1>3, <2>1, <2>2 DEF AuthInv, TokensKnown, IdleAuthCall
<1>9. HeldOnce'
  BY <1>1, <1>2, <1>4 DEF AuthInv, HeldOnce, SessionOf
<1>10. HoldersSpared'
  <2>1. \A d \in AuthClients : Rotates(d) => SessionOf(authCalls[d].token) \in Rotating
    BY DEF Rotates, SessionOf, Rotating, AuthCallAt
  <2> QED BY <1>1, <1>2, <1>4, <2>1 DEF HoldersSpared, SessionOf
<1>11. ReuseStaysDetectable'
  BY <1>1, <1>2 DEF AuthInv, AuthTypeOK, ReuseStaysDetectable, Expired, Issued
<1>12. AccountsAreOne'
  BY <1>1, <1>3 DEF AuthInv, AccountsAreOne, IdleAuthCall
<1> QED BY <1>7, <1>8, <1>9, <1>10, <1>11, <1>12 DEF AuthInv

(* Time passes, and what has expired is deleted.                            *)
LEMMA TimeKeeps ==
    ASSUME AuthInv, DeleteExpired \/ AuthTick
    PROVE  AuthInv'
<1>1. UNCHANGED <<issuedTokens, authCalls, accounts, registration, breached, spared, authFaults>>
  BY DEF DeleteExpired, AuthTick
<1>2. /\ refreshRows' \in [RefreshIds -> {"absent", "live", "revoked"}]
      /\ Live' \subseteq Live
      /\ authClock' \in 0..MaxAuthClock
  BY RefreshAssumption DEF DeleteExpired, AuthTick, AuthInv, AuthTypeOK, Live
<1>3. ReuseStaysDetectable'
  <2>1. CASE DeleteExpired
    <3>1. \A t \in Issued : issuedTokens[t].expires \in Int /\ authClock \in Int
      BY DEF AuthInv, AuthTypeOK, Issued
    <3> QED BY <2>1, <3>1 DEF DeleteExpired, AuthInv, ReuseStaysDetectable, Expired, Issued
  <2>2. CASE AuthTick
    <3>1. \A t \in Issued : issuedTokens[t].expires \in Int /\ authClock \in Int
      BY DEF AuthInv, AuthTypeOK, Issued
    <3> QED BY <2>2, <3>1 DEF AuthTick, AuthInv, ReuseStaysDetectable, Expired, Issued
  <2> QED BY <2>1, <2>2
<1>4. HeldOnce' /\ HoldersSpared'
  BY <1>1, <1>2, HoldersDecrease DEF Rotates
<1>5. TokensKnown'
  BY <1>1, <1>2 DEF AuthInv, TokensKnown, Issued, SessionOf
<1> QED BY <1>1, <1>2, <1>3, <1>4, <1>5 DEF AuthInv, AuthTypeOK, AccountsAreOne

(* Every statement of every request keeps the invariant: register, login,   *)
(* refresh, logout (auth/service.py) and the sweep (auth/store.py).         *)
LEMMA AuthInvariant == AuthSpec => []AuthInv
<1>1. ASSUME AuthInv, [AuthNext]_authVars PROVE AuthInv'
  <2>1. CASE UNCHANGED authVars
    BY <1>1, <2>1 DEF authVars, AuthInv, AuthTypeOK, TokensKnown, HeldOnce, HoldersSpared,
       ReuseStaysDetectable, AccountsAreOne, Live, Issued, SessionOf, Expired, Rotates
  <2>2. CASE DeleteExpired \/ AuthTick
    BY <1>1, <2>2, TimeKeeps
  <2>3. ASSUME NEW c \in AuthClients,
               \/ Register(c) \/ InsertUser(c) \/ Login(c)
               \/ Refresh(c) \/ RevokeAllForUser(c) \/ RevokePresented(c)
               \/ IssueSuccessor(c) \/ Logout(c) \/ RevokeLoggedOut(c) \/ AuthCallFails(c)
        PROVE  AuthInv'
    BY <1>1, <2>3, RegistrationKeeps, LoginKeeps, RefreshKeeps, RevokeAllKeeps,
       RevokePresentedKeeps, IssueSuccessorKeeps, CallEndsKeeps
  <2> QED BY <1>1, <2>1, <2>2, <2>3 DEF AuthNext
<1> QED BY <1>1, AuthInitHolds, PTL DEF AuthSpec

------------------------------------------------------------------------------
(* The theorems.                                                           *)

(* Rows, requests, the clock and the accounts keep their types, whatever    *)
(* interleaving of AuthService's statements.                                *)
THEOREM AuthTypeCorrect == AuthSpec => []AuthTypeOK
<1>1. AuthInv => AuthTypeOK
  BY DEF AuthInv
<1> QED BY <1>1, AuthInvariant, PTL

(* However many requests present one token at once, the store's revoke, a   *)
(* conditional update, lets one of them issue a successor.                  *)
THEOREM TokensDoNotBranch == AuthSpec => []SessionsDoNotBranch
<1>1. AuthInv => SessionsDoNotBranch
  <2> SUFFICES ASSUME AuthInv PROVE SessionsDoNotBranch
    OBVIOUS
  <2>1. \A s \in Rotating : \E c \in AuthClients : Rotates(c) /\ s = SessionOf(authCalls[c].token)
    BY DEF Rotating, Rotates, SessionOf, AuthCallAt
  <2>2. ASSUME NEW t \in Live PROVE issuedTokens[t].session \notin Rotating
    BY <2>1 DEF AuthInv, HeldOnce, SessionOf
  <2> QED BY <2>2 DEF SessionsDoNotBranch, AuthInv, HeldOnce, SessionOf
<1> QED BY <1>1, AuthInvariant, PTL

(* Neither the sweep (delete_expired) nor a failed request makes a token    *)
(* unknown before it expires, so that presenting it again is recognised.    *)
THEOREM ReuseIsRecognised == AuthSpec => []ReuseStaysDetectable
<1>1. AuthInv => ReuseStaysDetectable
  BY DEF AuthInv
<1> QED BY <1>1, AuthInvariant, PTL

(* revoke_all_for_user ends every session there is, but for those whose     *)
(* rotation is between its two statements.                                  *)
THEOREM ReuseEndsAll == AuthSpec => []ReuseEndsSessions
<1>1. AuthInv => ReuseEndsSessions
  BY DEF AuthInv, HoldersSpared, ReuseEndsSessions, SessionOf
<1> QED BY <1>1, AuthInvariant, PTL

(* create_user's unique index and create_bootstrap_user's lock let one of   *)
(* the concurrent registrations in.                                         *)
THEOREM OneAccountOnly == AuthSpec => []OneAccount
<1>1. AuthInv => OneAccount
  <2> SUFFICES ASSUME AuthInv PROVE OneAccount
    OBVIOUS
  <2>1. CASE accounts = {}
    BY <2>1, FS_EmptySet DEF OneAccount
  <2>2. ASSUME NEW c \in AuthClients, accounts = {c} PROVE OneAccount
    <3>1. Cardinality({c}) = 1
      BY FS_Singleton
    <3> QED BY <2>2, <3>1 DEF OneAccount
  <2> QED BY <2>1, <2>2 DEF AuthInv, AccountsAreOne
<1> QED BY <1>1, AuthInvariant, PTL
===============================================================================
