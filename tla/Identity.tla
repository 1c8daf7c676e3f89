------------------------------ MODULE Identity ------------------------------
(***************************************************************************)
(* IdentityService for one customer email: registration, verification,     *)
(* password login, sessions, deactivation and password reset.  The         *)
(* provider (Supabase Auth) owns the password and the confirmation of the  *)
(* email; the database owns the account and its sessions; every call       *)
(* alternates between the two, and the process may end in between.         *)
(***************************************************************************)
EXTENDS Server

CONSTANTS
    Token,          \* session tokens
    Lifetime,       \* SESSION_SECONDS, in ticks
    Inactivity,     \* SESSION_INACTIVITY_SECONDS, in ticks
    MaxPassword,    \* bound: password changes
    MaxVersion,     \* bound: authVersion
    MaxNow          \* bound: the clock

ASSUME IdentityAssumption ==
    {Lifetime, Inactivity} \subseteq Nat \ {0} /\ {MaxPassword, MaxVersion, MaxNow} \subseteq Nat

VARIABLES
    account,    \* the customer row: status, linked provider identity, authVersion
    provider,   \* the provider's account: exists, verified, number of its password
    session,    \* session[t]: the session row of token t
    now,
    acked,      \* the password that the last acknowledged reset set, or 0
    idCall      \* idCall[p]: the request that p is serving

idRows == <<account, provider, session, now, acked>>
idVars == <<idRows, idCall>>

None == [status |-> "NONE", linked |-> FALSE, version |-> 0]
Unused == [state |-> "UNUSED"]
Deleted == [state |-> "DELETED"]

IdGoto(p, c) == idCall' = [idCall EXCEPT ![p] = c]
Stored(t) == session[t].state = "STORED"

-----------------------------------------------------------------------------
(* Conditions of the code *)

\* principalForSession at the request's time, for a customer's session.
Live(t, at) ==
    Stored(t) /\ session[t].expiresAt > at /\ session[t].last + Inactivity > at

Eligible(t) ==
    /\ Stored(t)
    /\ account.status = "ACTIVE" /\ account.linked
    /\ session[t].version = account.version

\* The session that principal's updateMany may touch.
Touches(t, at) == Live(t, at) /\ session[t].last <= at

\* Mutant: a lost touch is an anonymous request.
NotRevalidated(t, at) == FALSE

\* A lost touch is decided by a second read.
Revalidated(t, at) == Live(t, at) /\ Eligible(t)

\* The row that activate's updateMany may change.
Activates == account.status = "PENDING_VERIFICATION"

\* Mutant: sessions are rejected by their authVersion alone.
KeepsSessions == session

\* deleteMany of the customer's sessions.
DropsSessions == [t \in Token |-> IF Stored(t) THEN Deleted ELSE session[t]]

\* Mutant: sessions are deleted, the version stays.
SameVersion == account.version

\* authVersion: { increment: 1 } of deactivate and revokeCustomerSessions.
NextVersion == account.version + 1

-----------------------------------------------------------------------------
IdInit ==
    /\ account = None
    /\ provider = [exists |-> FALSE, verified |-> FALSE, password |-> 0]
    /\ session = [t \in Token |-> Unused]
    /\ now = 0 /\ acked = 0
    /\ idCall = AllIdle

IdTick == now < MaxNow /\ now' = now + 1 /\ UNCHANGED <<account, provider, session, acked, idCall>>

\* An error answer, or the end of the process, before the next transaction.
\* register and completePasswordReset catch errors: only a crash ends them early.
IdAbandon(p) == idCall[p] # Idle /\ IdGoto(p, Idle) /\ UNCHANGED idRows

-----------------------------------------------------------------------------
(* register and verify *)

RegisterClaim(p) ==
    /\ idCall[p] = Idle /\ account.status = "NONE"
    /\ account' = [None EXCEPT !.status = "PENDING_VERIFICATION"]
    /\ IdGoto(p, [pc |-> "register"])
    /\ UNCHANGED <<provider, session, now, acked>>

\* signUp; a call that fails may have made the account all the same.
RegisterProvider(p, known) ==
    /\ idCall[p].pc = "register"
    /\ \/ ~provider.exists /\ provider' = [provider EXCEPT !.exists = TRUE]
       \/ ~known /\ UNCHANGED provider
    /\ IdGoto(p, [pc |-> IF known THEN "bind" ELSE "unclaim"])
    /\ UNCHANGED <<account, session, now, acked>>

RegisterBind(p) ==
    /\ idCall[p].pc = "bind"
    /\ account' = [account EXCEPT !.linked = TRUE]
    /\ IdGoto(p, Idle)
    /\ UNCHANGED <<provider, session, now, acked>>

RegisterUnclaim(p) ==
    /\ idCall[p].pc = "unclaim"
    /\ account' = IF account.linked THEN account ELSE None
    /\ IdGoto(p, Idle)
    /\ UNCHANGED <<provider, session, now, acked>>

\* The provider confirms the email, in its own page or for verify.
ProviderVerify ==
    /\ provider.exists /\ ~provider.verified
    /\ provider' = [provider EXCEPT !.verified = TRUE]
    /\ UNCHANGED <<account, session, now, acked, idCall>>

VerifyRead(p) ==
    /\ idCall[p] = Idle
    /\ provider.verified /\ account.linked /\ account.status # "DEACTIVATED"
    /\ IdGoto(p, [pc |-> "activate"])
    /\ UNCHANGED idRows

Activate ==
    account' = IF Activates THEN [account EXCEPT !.status = "ACTIVE"] ELSE account

VerifyActivate(p) ==
    /\ idCall[p].pc = "activate"
    /\ Activate
    /\ IdGoto(p, Idle)
    /\ UNCHANGED <<provider, session, now, acked>>

-----------------------------------------------------------------------------
(* login, then logout of the request's former session *)

LoginRead(p) ==
    /\ idCall[p] = Idle
    /\ account.linked /\ account.status # "DEACTIVATED"
    /\ IdGoto(p, [pc |-> "login", version |-> account.version])
    /\ UNCHANGED idRows

\* signInWithPassword, with the password of this moment.
LoginProvider(p) ==
    /\ idCall[p].pc = "login"
    /\ provider.verified
    /\ IdGoto(p, [pc |-> "found", version |-> idCall[p].version, password |-> provider.password])
    /\ UNCHANGED idRows

LoginFind(p) ==
    /\ idCall[p].pc = "found"
    /\ account.status # "DEACTIVATED"
    /\ IdGoto(p, [idCall[p] EXCEPT !.pc = "loginActivate"])
    /\ UNCHANGED idRows

LoginActivate(p) ==
    /\ idCall[p].pc = "loginActivate"
    /\ Activate
    /\ IdGoto(p, [idCall[p] EXCEPT !.pc = "recheck"])
    /\ UNCHANGED <<provider, session, now, acked>>

LoginRecheck(p) ==
    /\ idCall[p].pc = "recheck"
    /\ account.status = "ACTIVE" /\ account.version = idCall[p].version
    /\ IdGoto(p, [idCall[p] EXCEPT !.pc = "session"])
    /\ UNCHANGED idRows

LoginCreate(p, t, former) ==
    /\ idCall[p].pc = "session"
    /\ session[t] = Unused
    /\ session' = [session EXCEPT ![t] =
            [state |-> "STORED", version |-> idCall[p].version, password |-> idCall[p].password,
             expiresAt |-> now + Lifetime, last |-> now]]
    /\ IdGoto(p, [pc |-> "logout", token |-> former])
    /\ UNCHANGED <<account, provider, now, acked>>

Logout(p) ==
    /\ idCall[p].pc = "logout"
    /\ session' = [session EXCEPT ![idCall[p].token] = IF Stored(idCall[p].token) THEN Deleted ELSE @]
    /\ IdGoto(p, Idle)
    /\ UNCHANGED <<account, provider, now, acked>>

LogoutRequest(p, t) ==
    /\ idCall[p] = Idle /\ session[t] # Unused
    /\ IdGoto(p, [pc |-> "logout", token |-> t])
    /\ UNCHANGED idRows

-----------------------------------------------------------------------------
(* principal, and deactivate which needs one *)

PrincipalRead(p, t) ==
    /\ idCall[p] = Idle
    /\ Live(t, now) /\ Eligible(t)
    /\ IdGoto(p, [pc |-> "touch", token |-> t, at |-> now])
    /\ UNCHANGED idRows

PrincipalTouch(p) ==
    LET c == idCall[p] IN
    /\ c.pc = "touch"
    /\ IF Touches(c.token, c.at)
       THEN /\ session' = [session EXCEPT ![c.token] = [@ EXCEPT !.last = c.at]]
            /\ IdGoto(p, [pc |-> "served"])
       ELSE UNCHANGED session /\ IdGoto(p, [c EXCEPT !.pc = "reread"])
    /\ UNCHANGED <<account, provider, now, acked>>

PrincipalReread(p) ==
    LET c == idCall[p] IN
    /\ c.pc = "reread"
    /\ IdGoto(p, [c EXCEPT !.pc = IF Revalidated(c.token, c.at) THEN "served" ELSE "anonymous"])
    /\ UNCHANGED idRows

Revoke(status) ==
    /\ account.version < MaxVersion
    /\ account' = [status |-> status, linked |-> account.linked, version |-> NextVersion]
    /\ session' = DropsSessions

Deactivate(p) ==
    /\ idCall[p].pc = "served"
    /\ Revoke("DEACTIVATED")
    /\ IdGoto(p, Idle)
    /\ UNCHANGED <<provider, now, acked>>

-----------------------------------------------------------------------------
(* completePasswordReset *)

ResetRecover(p) ==
    /\ idCall[p] = Idle
    /\ provider.verified /\ account.linked /\ account.status = "ACTIVE"
    /\ IdGoto(p, [pc |-> "revoke"])
    /\ UNCHANGED idRows

ResetRevoke(p) ==
    /\ idCall[p].pc = "revoke"
    /\ Revoke(account.status)
    /\ IdGoto(p, [pc |-> "change"])
    /\ UNCHANGED <<provider, now, acked>>

\* updateUser; when it fails the sessions are revoked all the same.
ResetChange(p, fails) ==
    /\ idCall[p].pc = "change"
    /\ IF fails THEN UNCHANGED provider
       ELSE /\ provider.password < MaxPassword
            /\ provider' = [provider EXCEPT !.password = @ + 1]
    /\ IdGoto(p, [pc |-> "revokeAgain", password |-> IF fails THEN 0 ELSE provider.password + 1])
    /\ UNCHANGED <<account, session, now, acked>>

ResetFinish(p) ==
    /\ idCall[p].pc = "revokeAgain"
    /\ Revoke(account.status)
    /\ acked' = IF idCall[p].password > acked THEN idCall[p].password ELSE acked
    /\ IdGoto(p, Idle)
    /\ UNCHANGED <<provider, now>>

-----------------------------------------------------------------------------
IdRegister(p) ==
    \/ RegisterClaim(p) \/ RegisterBind(p) \/ RegisterUnclaim(p)
    \/ \E known \in BOOLEAN : RegisterProvider(p, known)
    \/ VerifyRead(p) \/ VerifyActivate(p)

IdLogin(p) ==
    \/ LoginRead(p) \/ LoginProvider(p) \/ LoginFind(p) \/ LoginActivate(p) \/ LoginRecheck(p)
    \/ \E t, former \in Token : LoginCreate(p, t, former)
    \/ Logout(p)
    \/ \E t \in Token : LogoutRequest(p, t) \/ PrincipalRead(p, t)
    \/ PrincipalTouch(p) \/ PrincipalReread(p) \/ Deactivate(p)

IdReset(p) ==
    \/ ResetRecover(p) \/ ResetRevoke(p) \/ ResetFinish(p)
    \/ \E fails \in BOOLEAN : ResetChange(p, fails)

IdNext ==
    \/ IdTick \/ ProviderVerify
    \/ \E p \in Process : IdAbandon(p) \/ IdRegister(p) \/ IdLogin(p) \/ IdReset(p)

IdSpec == IdInit /\ [][IdNext]_idVars

-----------------------------------------------------------------------------
\* Once a reset is acknowledged, no session that was opened with an earlier
\* password is usable, also when its login was under way during the reset
\* (README: rejects credentials issued concurrently with deactivation or reset).
ResetEndsSessions == \A t \in Token : Eligible(t) => session[t].password >= acked

\* A request is served as a customer only while the account is still eligible
\* when its session is touched, although its principal was read before.
ServedAreEligible ==
    [][\A p \in Process :
        idCall[p].pc \in {"touch", "reread"} /\ idCall'[p].pc = "served" => Eligible(idCall[p].token)]_idVars

\* A request that loses the race to touch its session turns anonymous only when
\* the account or the session ended meanwhile (the comment in principal): what
\* other requests do to the activity never makes a live session look idle.
NotTurnedAnonymous ==
    [][\A p \in Process :
        idCall[p].pc = "reread" /\ idCall'[p].pc = "anonymous"
            => ~Eligible(idCall[p].token)]_idVars

\* Requests that overtake each other never move a session's activity back
\* (principal touches with lastActivityAt: { lte: now }).
ActivityMovesForward ==
    [][\A t \in Token : Stored(t) /\ Stored(t)' => session'[t].last >= session[t].last]_idVars

\* A deactivated account stays deactivated, whatever logins, verifications and
\* resets are under way (README: Deactivated accounts cannot reactivate through
\* either path).
DeactivatedForEver == [][account.status = "DEACTIVATED" => account'.status = "DEACTIVATED"]_idVars
=============================================================================
