------------------------------ MODULE Passkeys ------------------------------
(***************************************************************************)
(* One administrator's passkeys: the ceremonies of IdentityService, each   *)
(* an options request, a response of the authenticator and a verification  *)
(* that reads its challenge, verifies and then consumes it.  A response    *)
(* answers one challenge; how signatures are verified is the library's.    *)
(***************************************************************************)
EXTENDS Server, Sequences

CONSTANTS
    Credential,     \* credential ids of authenticators
    ChallengeTime,  \* WEBAUTHN_CHALLENGE_SECONDS, in ticks
    MaxChallenges,  \* bound: challenges
    MaxHour         \* bound: the clock

ASSUME PasskeysAssumption ==
    ChallengeTime \in Nat \ {0} /\ MaxChallenges \in Nat /\ MaxHour \in Nat

VARIABLES
    challenges, \* the WebAuthnChallenge rows, in the order of their creation
    passkeys,   \* the administrator's registered credentials
    active,     \* the account and its role are active
    hour,
    outcomes,   \* completed ceremonies: the challenge of each, in order
    pkCall      \* pkCall[p]: the request that p is serving

pkVars == <<challenges, passkeys, active, hour, outcomes, pkCall>>

Ceremony == {"REGISTRATION", "AUTHENTICATION"}
PkGoto(p, c) == pkCall' = [pkCall EXCEPT ![p] = c]

-----------------------------------------------------------------------------
\* consumedAt: null, expiresAt: { gt: now }.
StillOpen(n) == ~challenges[n].consumed /\ challenges[n].expiresAt > hour

\* findFirst of the type, latest first.
IsLatest(n, type) ==
    /\ n \in DOMAIN challenges /\ challenges[n].type = type /\ StillOpen(n)
    /\ \A m \in DOMAIN challenges : challenges[m].type = type /\ StillOpen(m) => m <= n

\* Mutant: verification leaves the claim to the first read.
ClaimsAnyway(n) == TRUE

\* The challenge that the transaction's updateMany may consume.
Consumes(n) == StillOpen(n)

-----------------------------------------------------------------------------
PkInit ==
    /\ challenges = <<>> /\ passkeys = {} /\ active = TRUE /\ hour = 0 /\ outcomes = <<>>
    /\ pkCall = AllIdle

PkTick == hour < MaxHour /\ hour' = hour + 1 /\ UNCHANGED <<challenges, passkeys, active, outcomes, pkCall>>

\* The owner switches the account or its role off and on.
SwitchAdmin == active' = ~active /\ UNCHANGED <<challenges, passkeys, hour, outcomes, pkCall>>

PkAbandon(p) == pkCall[p] # Idle /\ PkGoto(p, Idle) /\ UNCHANGED <<challenges, passkeys, active, hour, outcomes>>

\* passkeyRegistrationOptions and passkeyAuthenticationOptions.
Options(p, type) ==
    /\ pkCall[p] = Idle /\ active
    /\ type = "AUTHENTICATION" => passkeys # {}
    /\ PkGoto(p, [pc |-> "options", type |-> type])
    /\ UNCHANGED <<challenges, passkeys, active, hour, outcomes>>

OptionsCreate(p) ==
    /\ pkCall[p].pc = "options" /\ Len(challenges) < MaxChallenges
    /\ challenges' = Append(challenges,
            [type |-> pkCall[p].type, expiresAt |-> hour + ChallengeTime, consumed |-> FALSE])
    /\ PkGoto(p, Idle)
    /\ UNCHANGED <<passkeys, active, hour, outcomes>>

\* The challenge is read and the response is verified against it; a response
\* to any other challenge fails.
VerifyChallenge(p, n, credential) ==
    LET type == challenges[n].type IN
    /\ pkCall[p] = Idle /\ active
    /\ IsLatest(n, type)
    /\ type = "AUTHENTICATION" => credential \in passkeys
    /\ PkGoto(p, [pc |-> type, challenge |-> n, credential |-> credential])
    /\ UNCHANGED <<challenges, passkeys, active, hour, outcomes>>

\* One transaction: consume, then add the credential (unique) or its last use.
Consume(p) ==
    LET n == pkCall[p].challenge IN
    /\ pkCall[p].pc \in Ceremony
    /\ Consumes(n)
    /\ challenges' = [challenges EXCEPT ![n] = [@ EXCEPT !.consumed = TRUE]]
    /\ IF pkCall[p].pc = "REGISTRATION"
       THEN /\ pkCall[p].credential \notin passkeys
            /\ passkeys' = passkeys \union {pkCall[p].credential}
            /\ outcomes' = Append(outcomes, n)
            /\ PkGoto(p, Idle)
       ELSE PkGoto(p, [pc |-> "signIn", challenge |-> n]) /\ UNCHANGED <<passkeys, outcomes>>
    /\ UNCHANGED <<active, hour>>

\* createAdminLogin, for the administrator as the challenge's read found it.
SignIn(p) ==
    /\ pkCall[p].pc = "signIn"
    /\ outcomes' = Append(outcomes, pkCall[p].challenge)
    /\ PkGoto(p, Idle)
    /\ UNCHANGED <<challenges, passkeys, active, hour>>

PkNext ==
    \/ PkTick \/ SwitchAdmin
    \/ \E p \in Process :
        \/ PkAbandon(p) \/ OptionsCreate(p) \/ Consume(p) \/ SignIn(p)
        \/ \E type \in Ceremony : Options(p, type)
        \/ \E n \in DOMAIN challenges, c \in Credential : VerifyChallenge(p, n, c)

PkSpec == PkInit /\ [][PkNext]_pkVars

-----------------------------------------------------------------------------
\* However often a challenge is answered, and by however many requests at once,
\* it registers one passkey or opens one session at most.
ChallengeServesOnce ==
    /\ \A i, j \in DOMAIN outcomes : outcomes[i] = outcomes[j] => i = j
    /\ \A i \in DOMAIN outcomes : challenges[outcomes[i]].consumed
=============================================================================
