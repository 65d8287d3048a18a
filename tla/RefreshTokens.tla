----------------------------- MODULE RefreshTokens -----------------------------
(***************************************************************************)
(* Accounts and refresh tokens of one user (auth/): clients register, log  *)
(* in, rotate and revoke tokens in concurrent requests, each statement a   *)
(* transaction of its own, while the sweep deletes expired rows. A request *)
(* may fail between two statements.                                        *)
(***************************************************************************)
EXTENDS Naturals, FiniteSets

CONSTANTS
    RefreshIds,       \* rows of refresh_tokens
    NoRefreshId,
    AuthClients,      \* concurrent requests
    RefreshLifetime,  \* refresh_token_ttl_days
    MaxAuthClock,     \* bound: the wall clock
    MaxAuthFaults     \* bound: requests that fail half way

ASSUME RefreshAssumption ==
    /\ NoRefreshId \notin RefreshIds
    /\ RefreshLifetime \in Nat \ {0}
    /\ MaxAuthClock \in Nat
    /\ MaxAuthFaults \in Nat

VARIABLES
    refreshRows,    \* each row: absent, live or revoked
    issuedTokens,   \* history: what each token was issued with
    authCalls,      \* the request each client is in
    authClock,
    accounts,       \* users: the clients whose registration was inserted
    registration,   \* auth_allow_registration
    breached,       \* history: sessions the last reuse detection ended
    spared,         \* history: those of them with a rotation under way
    authFaults

authVars == <<refreshRows, issuedTokens, authCalls, authClock, accounts, registration,
              breached, spared, authFaults>>

NotIssued == [parent |-> NoRefreshId, session |-> NoRefreshId, expires |-> 0]
IdleAuthCall == [pc |-> "idle", token |-> NoRefreshId]

Issued == {t \in RefreshIds : issuedTokens[t].session # NoRefreshId}
Live == {t \in RefreshIds : refreshRows[t] = "live"}
Expired(t) == issuedTokens[t].expires <= authClock

AuthInit ==
    /\ refreshRows = [t \in RefreshIds |-> "absent"]
    /\ issuedTokens = [t \in RefreshIds |-> NotIssued]
    /\ authCalls = [c \in AuthClients |-> IdleAuthCall]
    /\ authClock = 0
    /\ accounts = {}
    /\ registration \in {"open", "closed"}
    /\ breached = {}
    /\ spared = {}
    /\ authFaults = 0

AuthCallAt(c, pc) == authCalls[c].pc = pc
AuthGoes(c, pc, t) == authCalls' = [authCalls EXCEPT ![c] = [pc |-> pc, token |-> t]]
AuthEnds(c) == AuthGoes(c, "idle", NoRefreshId)
AuthFault == authFaults < MaxAuthFaults /\ authFaults' = authFaults + 1

------------------------------------------------------------------------------
(* AuthService.register over PostgresUserStore.                            *)

(* Open: the email is looked up first, all clients using the same one.      *)
(* Closed: the lock and the conditional insert are one transaction.         *)
Register(c) ==
    /\ AuthCallAt(c, "idle")
    /\ \/ /\ registration = "open" /\ accounts = {}
          /\ AuthGoes(c, "insert", NoRefreshId)
          /\ UNCHANGED accounts
       \/ /\ registration = "closed"
          /\ accounts' = IF accounts = {} THEN {c} ELSE accounts
          /\ UNCHANGED authCalls
    /\ UNCHANGED <<refreshRows, issuedTokens, authClock, registration,
                   breached, spared, authFaults>>

(* The insert, which the unique index on the email refuses the second time. *)
InsertUser(c) ==
    /\ AuthCallAt(c, "insert")
    /\ accounts' = IF registration = "open" /\ accounts # {} THEN accounts
                   ELSE accounts \cup {c}
    /\ AuthEnds(c)
    /\ UNCHANGED <<refreshRows, issuedTokens, authClock, registration,
                   breached, spared, authFaults>>

------------------------------------------------------------------------------
(* Issuing, rotating and revoking.                                         *)

IssueNow(t, parent, session) ==
    /\ refreshRows' = [refreshRows EXCEPT ![t] = "live"]
    /\ issuedTokens' = [issuedTokens EXCEPT ![t] =
           [parent |-> parent, session |-> session,
            expires |-> authClock + RefreshLifetime]]

Login(c) ==
    /\ accounts # {}
    /\ AuthCallAt(c, "idle")
    /\ \E t \in RefreshIds \ Issued : IssueNow(t, NoRefreshId, t)
    /\ UNCHANGED <<authCalls, authClock, accounts, registration, breached, spared,
                   authFaults>>

(* refresh: the row is read and judged as read; the rest of the request     *)
(* acts on what it saw.                                                     *)
Refresh(c) ==
    /\ AuthCallAt(c, "idle")
    /\ \E t \in Issued :
          CASE refreshRows[t] = "revoked" -> AuthGoes(c, "reused", t)
            [] refreshRows[t] = "live" /\ ~Expired(t) -> AuthGoes(c, "revoke", t)
            [] OTHER -> UNCHANGED authCalls
    /\ UNCHANGED <<refreshRows, issuedTokens, authClock, accounts, registration,
                   breached, spared, authFaults>>

Sessions == {issuedTokens[t].session : t \in Issued}
Rotating == {issuedTokens[authCalls[c].token].session : c \in {d \in AuthClients :
                AuthCallAt(d, "issue")}}

(* Definitions whose comment begins with "Fault:" are not part of the       *)
(* specification: each is the definition after it with a plausible mistake. *)

(* Fault: only the token that was presented again is revoked. *)
RevokeReused(c) ==
    /\ AuthCallAt(c, "reused")
    /\ breached' = Sessions /\ spared' = Rotating
    /\ AuthEnds(c)
    /\ UNCHANGED <<refreshRows, issuedTokens, authClock, accounts, registration, authFaults>>

(* Reuse of a revoked token: every token of the user that is live now. *)
RevokeAllForUser(c) ==
    /\ AuthCallAt(c, "reused")
    /\ refreshRows' = [t \in RefreshIds |->
           IF refreshRows[t] = "live" THEN "revoked" ELSE refreshRows[t]]
    /\ breached' = Sessions /\ spared' = Rotating
    /\ AuthEnds(c)
    /\ UNCHANGED <<issuedTokens, authClock, accounts, registration, authFaults>>

(* Fault: the number of rows the update changed is not looked at. *)
RevokePresentedBlindly(c) ==
    LET t == authCalls[c].token IN
    /\ AuthCallAt(c, "revoke")
    /\ refreshRows' = [refreshRows EXCEPT ![t] = IF @ = "absent" THEN @ ELSE "revoked"]
    /\ AuthGoes(c, "issue", t)
    /\ UNCHANGED <<issuedTokens, authClock, accounts, registration, breached, spared,
                   authFaults>>

(* The conditional update: only the call that revoked the row goes on. *)
RevokePresented(c) ==
    LET t == authCalls[c].token IN
    /\ AuthCallAt(c, "revoke")
    /\ refreshRows' = [refreshRows EXCEPT ![t] = IF @ = "absent" THEN @ ELSE "revoked"]
    /\ IF refreshRows[t] = "live" THEN AuthGoes(c, "issue", t) ELSE AuthEnds(c)
    /\ UNCHANGED <<issuedTokens, authClock, accounts, registration, breached, spared,
                   authFaults>>

IssueSuccessor(c) ==
    LET t == authCalls[c].token IN
    /\ AuthCallAt(c, "issue")
    /\ \E s \in RefreshIds \ Issued : IssueNow(s, t, issuedTokens[t].session)
    /\ AuthEnds(c)
    /\ UNCHANGED <<authClock, accounts, registration, breached, spared, authFaults>>

(* logout reads the row, and revokes it if it was live. *)
Logout(c) ==
    /\ AuthCallAt(c, "idle")
    /\ \E t \in Live : AuthGoes(c, "logout", t)
    /\ UNCHANGED <<refreshRows, issuedTokens, authClock, accounts, registration,
                   breached, spared, authFaults>>

RevokeLoggedOut(c) ==
    LET t == authCalls[c].token IN
    /\ AuthCallAt(c, "logout")
    /\ refreshRows' = [refreshRows EXCEPT ![t] = IF @ = "absent" THEN @ ELSE "revoked"]
    /\ AuthEnds(c)
    /\ UNCHANGED <<issuedTokens, authClock, accounts, registration, breached, spared,
                   authFaults>>

(* Signing fails, the database does, or the process dies. *)
AuthCallFails(c) ==
    /\ ~AuthCallAt(c, "idle")
    /\ AuthFault
    /\ AuthEnds(c)
    /\ UNCHANGED <<refreshRows, issuedTokens, authClock, accounts, registration,
                   breached, spared>>

(* Fault: the sweep also takes the rows nobody can refresh with. *)
SweepRevoked ==
    /\ refreshRows' = [t \in RefreshIds |->
           IF refreshRows[t] = "revoked" \/ issuedTokens[t].expires < authClock
           THEN "absent" ELSE refreshRows[t]]
    /\ UNCHANGED <<issuedTokens, authCalls, authClock, accounts, registration,
                   breached, spared, authFaults>>

(* The scheduler's sweep. *)
DeleteExpired ==
    /\ refreshRows' = [t \in RefreshIds |->
           IF issuedTokens[t].expires < authClock THEN "absent" ELSE refreshRows[t]]
    /\ UNCHANGED <<issuedTokens, authCalls, authClock, accounts, registration,
                   breached, spared, authFaults>>

AuthTick ==
    /\ authClock < MaxAuthClock
    /\ authClock' = authClock + 1
    /\ UNCHANGED <<refreshRows, issuedTokens, authCalls, accounts, registration,
                   breached, spared, authFaults>>

AuthNext ==
    \/ DeleteExpired
    \/ AuthTick
    \/ \E c \in AuthClients :
          \/ Register(c) \/ InsertUser(c) \/ Login(c)
          \/ Refresh(c) \/ RevokeAllForUser(c) \/ RevokePresented(c) \/ IssueSuccessor(c)
          \/ Logout(c) \/ RevokeLoggedOut(c) \/ AuthCallFails(c)

AuthSpec == AuthInit /\ [][AuthNext]_authVars

------------------------------------------------------------------------------
(* Properties.                                                             *)

AuthTypeOK ==
    /\ refreshRows \in [RefreshIds -> {"absent", "live", "revoked"}]
    /\ issuedTokens \in [RefreshIds -> [parent : RefreshIds \cup {NoRefreshId},
                                        session : RefreshIds \cup {NoRefreshId},
                                        expires : 0..(MaxAuthClock + RefreshLifetime)]]
    /\ authCalls \in [AuthClients -> [pc : {"idle", "insert", "reused", "revoke", "issue",
                                            "logout"},
                                      token : RefreshIds \cup {NoRefreshId}]]
    /\ authClock \in 0..MaxAuthClock
    /\ accounts \subseteq AuthClients
    /\ registration \in {"open", "closed"}
    /\ breached \subseteq RefreshIds /\ spared \subseteq RefreshIds
    /\ authFaults \in 0..MaxAuthFaults

(* A session never branches: however many requests present one token at     *)
(* once, it has one successor at most, so a session has one live token at   *)
(* most, and none while a rotation of it is under way.                      *)
SessionsDoNotBranch ==
    /\ \A s, t \in Live : issuedTokens[s].session = issuedTokens[t].session => s = t
    /\ \A t \in Live : issuedTokens[t].session \notin Rotating

(* A token that was rotated or logged out stays recognisable for as long as *)
(* it has not expired: presenting it again ends the user's sessions. The    *)
(* sweep must not remove it before.                                         *)
ReuseStaysDetectable ==
    \A t \in Issued : ~Expired(t) => refreshRows[t] # "absent"

(* The reuse of a revoked token ends every session the user had, but for    *)
(* those whose rotation had revoked the old token and not yet stored the    *)
(* new one.                                                                 *)
ReuseEndsSessions ==
    \A t \in Live : issuedTokens[t].session \in breached => issuedTokens[t].session \in spared

(* One account per email, and with registration closed one in all, however  *)
(* many first registrations arrive at once.                                 *)
OneAccount == Cardinality(accounts) <= 1
================================================================================
