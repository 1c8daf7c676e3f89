--------------------------- MODULE IdentityProofs ---------------------------
(***************************************************************************)
(* What is proved of Identity for every number of concurrent requests,     *)
(* session tokens and password changes, and for any lifetimes, and of      *)
(* Passkeys for every number of requests, challenges and credentials.      *)
(***************************************************************************)
EXTENDS Identity, Passkeys, TLAPS

-----------------------------------------------------------------------------
(* Accounts and sessions *)

\* A call record has the fields of the step it waits for.
PlainCall == [pc : {"idle", "register", "bind", "unclaim", "activate", "served", "revoke", "change"}]
LoginCall == [pc : {"login"}, version : Nat]
SignedInCall == [pc : {"found", "loginActivate", "recheck", "session"}, version : Nat, password : Nat]
LogoutCall == [pc : {"logout"}, token : Token]
PrincipalCall == [pc : {"touch", "reread", "served", "anonymous"}, token : Token, at : Nat]
ResetCall == [pc : {"revokeAgain"}, password : Nat]
Call == UNION {PlainCall, LoginCall, SignedInCall, LogoutCall, PrincipalCall, ResetCall}

StoredRow == [state : {"STORED"}, version : Nat, password : Nat, expiresAt : Nat, last : Nat]
EndedRow == [state : {"UNUSED", "DELETED"}]

IdTypeOK ==
    /\ account \in [status : {"NONE", "PENDING_VERIFICATION", "ACTIVE", "DEACTIVATED"},
                    linked : BOOLEAN, version : Nat]
    /\ provider \in [exists : BOOLEAN, verified : BOOLEAN, password : Nat]
    /\ session \in [Token -> StoredRow \union EndedRow]
    /\ now \in Nat /\ acked \in Nat
    /\ idCall \in [Process -> Call]

-----------------------------------------------------------------------------
(* The inductive invariant *)

Registering == {"register", "bind", "unclaim"}
SignedIn == {"found", "loginActivate", "recheck", "session"}

\* Steps that only a linked account has.
Linked == SignedIn \union
    {"activate", "login", "touch", "reread", "served", "revoke", "change", "revokeAgain"}

AccountFacts ==
    /\ account.status = "NONE" => ~account.linked
    /\ ~account.linked => account.version = 0
    /\ acked <= provider.password

\* A session of the current authVersion was opened with a current password.
SessionFacts(t) ==
    Stored(t) => /\ session[t].version <= account.version
                 /\ session[t].version = account.version => session[t].password >= acked

\* What a request may rely on although it read it earlier.
CallFacts(c) ==
    /\ c.pc \in Registering => account.status = "PENDING_VERIFICATION" /\ ~account.linked
    /\ c.pc \in Linked => account.linked
    /\ c.pc = "login" => c.version <= account.version
    /\ c.pc \in SignedIn => /\ c.version <= account.version
                            /\ c.version = account.version => c.password >= acked
    /\ c.pc = "revokeAgain" => c.password <= provider.password
    /\ c.pc \in {"touch", "reread"} => session[c.token].state # "UNUSED"
    /\ c.pc \in {"touch", "reread"} /\ Stored(c.token) => Live(c.token, c.at)
    /\ c.pc = "touch" /\ Stored(c.token) => Eligible(c.token)

\* One request at most holds the email until its registration is linked.
OneRegisters ==
    \A p, q \in Process : idCall[p].pc \in Registering /\ idCall[q].pc \in Registering => p = q

IdInv ==
    /\ IdTypeOK
    /\ AccountFacts
    /\ \A t \in Token : SessionFacts(t)
    /\ \A p \in Process : CallFacts(idCall[p])
    /\ OneRegisters

-----------------------------------------------------------------------------
LEMMA CallFields ==
    ASSUME NEW c \in Call
    PROVE  /\ c.pc = "login" => c \in LoginCall
           /\ c.pc \in SignedIn => c \in SignedInCall
           /\ c.pc = "logout" => c \in LogoutCall
           /\ c.pc \in {"touch", "reread"} => c \in PrincipalCall
           /\ c.pc = "revokeAgain" => c \in ResetCall
BY DEF Call, PlainCall, LoginCall, SignedInCall, LogoutCall, PrincipalCall, ResetCall, SignedIn

LEMMA SessionFields ==
    ASSUME NEW r \in StoredRow \union EndedRow
    PROVE  r.state = "STORED" => r \in StoredRow
BY DEF StoredRow, EndedRow

\* A step of one request keeps what the others rely on when it keeps each of
\* their facts, and its own new facts hold.
LEMMA CallStep ==
    ASSUME IdTypeOK, OneRegisters, \A q \in Process : CallFacts(idCall[q]),
           NEW p \in Process, NEW c \in Call, IdGoto(p, c),
           ASSUME NEW d \in Call, CallFacts(d),
                  idCall[p].pc \in Registering => d.pc \notin Registering
           PROVE  CallFacts(d)',
           CallFacts(c)',
           c.pc \in Registering =>
               idCall[p].pc \in Registering \/ \A q \in Process : idCall[q].pc \notin Registering
    PROVE  /\ idCall' \in [Process -> Call]
           /\ \A q \in Process : CallFacts(idCall[q])'
           /\ OneRegisters'
<1>1. /\ idCall' \in [Process -> Call]
      /\ idCall'[p] = c
      /\ \A q \in Process \ {p} : idCall'[q] = idCall[q]
  BY DEF IdGoto, IdTypeOK
<1>2. ASSUME NEW q \in Process PROVE CallFacts(idCall[q])'
  <2>1. CASE q = p
    BY <1>1, <2>1 DEF CallFacts, Stored, Live, Eligible
  <2>2. CASE q # p
    <3>1. idCall[q] \in Call /\ (idCall[p].pc \in Registering => idCall[q].pc \notin Registering)
      BY <2>2 DEF OneRegisters, IdTypeOK
    <3>2. QED
      BY <1>1, <2>2, <3>1 DEF CallFacts, Stored, Live, Eligible
  <2>3. QED
    BY <2>1, <2>2
<1>3. OneRegisters'
  BY <1>1 DEF OneRegisters
<1>4. QED
  BY <1>1, <1>2, <1>3
-----------------------------------------------------------------------------
(* Kinds of steps, by what they do to the rows *)

\* A request that only reads the rows.
LEMMA ReadStep ==
    ASSUME IdInv, NEW p \in Process, NEW c \in Call, IdGoto(p, c), UNCHANGED idRows,
           CallFacts(c)', c.pc \notin Registering
    PROVE  IdInv'
<1>1. ASSUME NEW d \in Call, CallFacts(d) PROVE CallFacts(d)'
  BY <1>1 DEF CallFacts, Stored, Live, Eligible, idRows
<1>2. /\ idCall' \in [Process -> Call]
      /\ \A q \in Process : CallFacts(idCall[q])'
      /\ OneRegisters'
  BY <1>1, CallStep DEF IdInv
<1>3. IdTypeOK' /\ AccountFacts' /\ \A t \in Token : SessionFacts(t)'
  BY <1>2 DEF IdInv, IdTypeOK, AccountFacts, SessionFacts, Stored, idRows
<1>4. QED
  BY <1>2, <1>3 DEF IdInv

\* activate: only a pending account, which is linked by then.
LEMMA ActivateStep ==
    ASSUME IdInv, NEW p \in Process, NEW c \in Call, IdGoto(p, c), Activate,
           account.linked, UNCHANGED <<provider, session, now, acked>>,
           CallFacts(c)', c.pc \notin Registering
    PROVE  IdInv'
<1>0. /\ account' \in [status : {"NONE", "PENDING_VERIFICATION", "ACTIVE", "DEACTIVATED"},
                       linked : BOOLEAN, version : Nat]
      /\ account'.linked = account.linked /\ account'.version = account.version
      /\ account.status = "ACTIVE" => account'.status = "ACTIVE"
      /\ account'.status # "NONE"
  BY DEF Activate, Activates, IdInv, IdTypeOK, AccountFacts
<1>1. ASSUME NEW d \in Call, CallFacts(d) PROVE CallFacts(d)'
  BY <1>0, <1>1 DEF CallFacts, Stored, Live, Eligible
<1>2. /\ idCall' \in [Process -> Call]
      /\ \A q \in Process : CallFacts(idCall[q])'
      /\ OneRegisters'
  BY <1>1, CallStep DEF IdInv
<1>3. IdTypeOK' /\ AccountFacts' /\ \A t \in Token : SessionFacts(t)'
  BY <1>0, <1>2 DEF IdInv, IdTypeOK, AccountFacts, SessionFacts, Stored
<1>4. QED
  BY <1>2, <1>3 DEF IdInv

\* A revocation: no session is left, and no login under way has the new version.
LEMMA RevokeStep ==
    ASSUME IdInv, NEW p \in Process, NEW c \in Call, IdGoto(p, c),
           NEW status \in {account.status, "DEACTIVATED"}, Revoke(status),
           account.linked, UNCHANGED <<provider, now>>,
           acked' \in Nat, acked' <= provider.password, c \in PlainCall,
           c.pc \notin Registering
    PROVE  IdInv'
<1>0. /\ account' \in [status : {"NONE", "PENDING_VERIFICATION", "ACTIVE", "DEACTIVATED"},
                       linked : BOOLEAN, version : Nat]
      /\ account'.linked /\ account'.version = account.version + 1
      /\ account'.status # "NONE"
  <2>1. account' = [status |-> status, linked |-> account.linked, version |-> account.version + 1]
    BY DEF Revoke, NextVersion
  <2>2. /\ account \in [status : {"NONE", "PENDING_VERIFICATION", "ACTIVE", "DEACTIVATED"},
                        linked : BOOLEAN, version : Nat]
        /\ account.status # "NONE"
    BY DEF IdInv, IdTypeOK, AccountFacts
  <2>3. QED
    BY <2>1, <2>2
<1>1. /\ session' \in [Token -> StoredRow \union EndedRow]
      /\ \A t \in Token : session'[t].state # "STORED"
                          /\ (session[t].state # "UNUSED" => session'[t].state # "UNUSED")
  BY DEF Revoke, DropsSessions, IdInv, IdTypeOK, Deleted, Stored, EndedRow
<1>2. ASSUME NEW d \in Call, CallFacts(d), idCall[p].pc \in Registering => d.pc \notin Registering
      PROVE  CallFacts(d)'
  <2>1. account.version \in Nat /\ account'.version = account.version + 1
    BY <1>0 DEF IdInv, IdTypeOK
  <2>2. /\ d.pc \notin Registering
        /\ d.pc = "login" => d.version \in Nat
        /\ d.pc \in SignedIn => d.version \in Nat
        /\ d.pc \in {"touch", "reread"} => d.token \in Token
    BY <1>2, CallFields DEF CallFacts, LoginCall, SignedInCall, PrincipalCall
  <2>3. /\ d.pc = "login" => d.version <= account'.version
        /\ d.pc \in SignedIn => d.version < account'.version
    BY <1>2, <2>1, <2>2 DEF CallFacts
  <2>4. QED
    BY <1>0, <1>1, <1>2, <2>1, <2>2, <2>3 DEF CallFacts, Stored, Live, Eligible
<1>3. CallFacts(c)'
  BY <1>0 DEF CallFacts, PlainCall, SignedIn
<1>4. /\ idCall' \in [Process -> Call]
      /\ \A q \in Process : CallFacts(idCall[q])'
      /\ OneRegisters'
  BY <1>2, <1>3, CallStep DEF IdInv
<1>5. IdTypeOK' /\ AccountFacts' /\ \A t \in Token : SessionFacts(t)'
  BY <1>0, <1>1, <1>4 DEF IdInv, IdTypeOK, AccountFacts, SessionFacts, Stored
<1>6. QED
  BY <1>4, <1>5 DEF IdInv

-----------------------------------------------------------------------------
(* The invariant is inductive *)

LEMMA InitIdInv == IdInit => IdInv
<1> SUFFICES ASSUME IdInit PROVE IdInv
  OBVIOUS
<1>1. /\ \A p \in Process : idCall[p].pc = "idle" /\ idCall[p] \in Call
      /\ \A t \in Token : session[t].state = "UNUSED" /\ session[t] \in EndedRow
  BY DEF IdInit, AllIdle, Idle, Unused, EndedRow, Call, PlainCall
<1>2. IdTypeOK /\ AccountFacts
  BY <1>1 DEF IdInit, IdTypeOK, AccountFacts, None, AllIdle, Unused
<1>3. /\ \A t \in Token : SessionFacts(t)
      /\ \A p \in Process : CallFacts(idCall[p])
      /\ OneRegisters
  BY <1>1 DEF SessionFacts, CallFacts, OneRegisters, Stored, Registering, Linked, SignedIn
<1>4. QED
  BY <1>2, <1>3 DEF IdInv

LEMMA RegisterKeeps ==
    ASSUME IdInv, NEW p \in Process,
           \/ RegisterClaim(p) \/ RegisterBind(p) \/ RegisterUnclaim(p)
           \/ \E known \in BOOLEAN : RegisterProvider(p, known)
    PROVE  IdInv'
<1> USE DEF IdInv
<1>0. /\ [pc |-> "register"] \in Call /\ [pc |-> "bind"] \in Call /\ [pc |-> "unclaim"] \in Call
      /\ Idle \in Call
  BY DEF Call, PlainCall, Idle
<1>1. CASE RegisterClaim(p)
  <2>1. /\ account' = [status |-> "PENDING_VERIFICATION", linked |-> FALSE, version |-> 0]
        /\ account.status = "NONE" /\ ~account.linked /\ account.version = 0
        /\ UNCHANGED <<provider, session, now, acked>>
    BY <1>1 DEF RegisterClaim, None, AccountFacts
  <2>2. ASSUME NEW d \in Call, CallFacts(d) PROVE CallFacts(d)'
    BY <2>1, <2>2 DEF CallFacts, Stored, Live, Eligible, SignedIn, Linked
  <2>3. CallFacts([pc |-> "register"])'
    BY <2>1 DEF CallFacts, Linked, SignedIn
  <2>4. \A q \in Process : idCall[q].pc \notin Registering
    BY <2>1 DEF CallFacts
  <2>5. IdGoto(p, [pc |-> "register"])
    BY <1>1 DEF RegisterClaim
  <2>6. /\ idCall' \in [Process -> Call]
        /\ \A q \in Process : CallFacts(idCall[q])'
        /\ OneRegisters'
    BY <1>0, <2>2, <2>3, <2>4, <2>5, CallStep
  <2>7. IdTypeOK' /\ AccountFacts' /\ \A t \in Token : SessionFacts(t)'
    BY <2>1, <2>6 DEF IdTypeOK, AccountFacts, SessionFacts, Stored
  <2>8. QED
    BY <2>6, <2>7
<1>2. ASSUME NEW known \in BOOLEAN, RegisterProvider(p, known) PROVE IdInv'
  <2> DEFINE c == [pc |-> IF known THEN "bind" ELSE "unclaim"]
  <2>1. /\ provider' \in [exists : BOOLEAN, verified : BOOLEAN, password : Nat]
        /\ provider'.password = provider.password
        /\ UNCHANGED <<account, session, now, acked>>
        /\ idCall[p].pc \in Registering
    BY <1>2 DEF RegisterProvider, IdTypeOK, Registering
  <2>2. ASSUME NEW d \in Call, CallFacts(d) PROVE CallFacts(d)'
    BY <2>1, <2>2 DEF CallFacts, Stored, Live, Eligible
  <2>3. c \in Call /\ CallFacts(c)'
    BY <1>0, <2>1 DEF CallFacts, Linked, SignedIn, Registering
  <2>4. IdGoto(p, c)
    BY <1>2 DEF RegisterProvider
  <2> HIDE DEF c
  <2>5. /\ idCall' \in [Process -> Call]
        /\ \A q \in Process : CallFacts(idCall[q])'
        /\ OneRegisters'
    BY <2>1, <2>2, <2>3, <2>4, CallStep
  <2>6. IdTypeOK' /\ AccountFacts' /\ \A t \in Token : SessionFacts(t)'
    BY <2>1, <2>5 DEF IdTypeOK, AccountFacts, SessionFacts, Stored
  <2>7. QED
    BY <2>5, <2>6
<1>3. ASSUME RegisterBind(p) \/ RegisterUnclaim(p) PROVE IdInv'
  <2>1. /\ idCall[p].pc \in Registering
        /\ account.status = "PENDING_VERIFICATION" /\ ~account.linked /\ account.version = 0
    BY <1>3 DEF RegisterBind, RegisterUnclaim, Registering, CallFacts, AccountFacts
  <2>2. /\ account' \in [status : {"NONE", "PENDING_VERIFICATION", "ACTIVE", "DEACTIVATED"},
                         linked : BOOLEAN, version : Nat]
        /\ account'.version = 0
        /\ account'.status = "NONE" => ~account'.linked
        /\ IdGoto(p, Idle)
        /\ UNCHANGED <<provider, session, now, acked>>
    <3>1. account \in [status : {"NONE", "PENDING_VERIFICATION", "ACTIVE", "DEACTIVATED"},
                        linked : BOOLEAN, version : Nat]
      BY DEF IdTypeOK
    <3>2. CASE RegisterBind(p)
      <4>1. account' = [account EXCEPT !.linked = TRUE]
        BY <3>2 DEF RegisterBind
      <4>2. QED
        BY <2>1, <3>1, <3>2, <4>1 DEF RegisterBind
    <3>3. CASE RegisterUnclaim(p)
      <4>1. account' = [status |-> "NONE", linked |-> FALSE, version |-> 0]
        BY <2>1, <3>3 DEF RegisterUnclaim, None
      <4>2. /\ account' \in [status : {"NONE", "PENDING_VERIFICATION", "ACTIVE", "DEACTIVATED"},
                             linked : BOOLEAN, version : Nat]
            /\ account'.version = 0 /\ ~account'.linked
        BY <4>1
      <4>3. IdGoto(p, Idle) /\ UNCHANGED <<provider, session, now, acked>>
        BY <3>3 DEF RegisterUnclaim
      <4>4. QED
        BY <4>2, <4>3
    <3>4. QED
      BY <1>3, <3>2, <3>3
  <2>3. ASSUME NEW d \in Call, CallFacts(d), idCall[p].pc \in Registering => d.pc \notin Registering
        PROVE  CallFacts(d)'
    BY <2>1, <2>2, <2>3 DEF CallFacts, Stored, Live, Eligible, Linked, SignedIn
  <2>4. CallFacts(Idle)' /\ Idle.pc \notin Registering
    BY DEF CallFacts, Idle, Registering, Linked, SignedIn
  <2>5. /\ idCall' \in [Process -> Call]
        /\ \A q \in Process : CallFacts(idCall[q])'
        /\ OneRegisters'
    BY <1>0, <2>2, <2>3, <2>4, CallStep
  <2>6. IdTypeOK' /\ AccountFacts' /\ \A t \in Token : SessionFacts(t)'
    BY <2>1, <2>2, <2>5 DEF IdTypeOK, AccountFacts, SessionFacts, Stored
  <2>7. QED
    BY <2>5, <2>6
<1>4. QED
  BY <1>1, <1>2, <1>3

LEMMA LoginKeeps ==
    ASSUME IdInv, NEW p \in Process,
           \/ VerifyRead(p) \/ VerifyActivate(p)
           \/ LoginRead(p) \/ LoginProvider(p) \/ LoginFind(p) \/ LoginActivate(p) \/ LoginRecheck(p)
    PROVE  IdInv'
<1> USE DEF IdInv
<1>0. CallFacts(idCall[p]) /\ idCall[p] \in Call
  BY DEF IdTypeOK
<1>1. CASE VerifyRead(p)
  <2>1. [pc |-> "activate"] \in Call /\ CallFacts([pc |-> "activate"])'
    BY <1>1 DEF VerifyRead, Call, PlainCall, CallFacts, SignedIn, Registering, idRows
  <2>2. QED
    BY <1>1, <2>1, ReadStep DEF VerifyRead, Registering
<1>2. CASE VerifyActivate(p)
  <2>1. Idle \in Call /\ Idle.pc \notin Registering /\ CallFacts(Idle)'
    BY DEF Idle, Call, PlainCall, CallFacts, SignedIn, Registering, Linked
  <2>2. account.linked
    BY <1>0, <1>2 DEF VerifyActivate, CallFacts, Linked
  <2>3. QED
    BY <1>2, <2>1, <2>2, ActivateStep DEF VerifyActivate
<1>3. CASE LoginRead(p)
  <2>1. PICK c \in Call : c = [pc |-> "login", version |-> account.version]
    BY DEF Call, LoginCall, IdTypeOK
  <2>2. account'.linked /\ c.version <= account'.version /\ c.pc = "login"
    BY <1>3, <2>1 DEF LoginRead, idRows, IdTypeOK
  <2>3. CallFacts(c)' /\ c.pc \notin Registering
    BY <2>2 DEF CallFacts, SignedIn, Registering
  <2>4. IdGoto(p, c) /\ UNCHANGED idRows
    BY <1>3, <2>1 DEF LoginRead
  <2>5. QED
    BY <2>1, <2>3, <2>4, ReadStep
<1>4. CASE LoginProvider(p)
  <2>1. idCall[p] \in LoginCall
    BY <1>0, <1>4, CallFields DEF LoginProvider
  <2>2. [pc |-> "found", version |-> idCall[p].version, password |-> provider.password] \in Call
    BY <2>1 DEF Call, LoginCall, SignedInCall, IdTypeOK
  <2>3. PICK c \in Call :
            c = [pc |-> "found", version |-> idCall[p].version, password |-> provider.password]
    BY <2>2
  <2>4. account.linked /\ c.version <= account.version /\ c.password >= acked /\ c.pc = "found"
    BY <1>0, <1>4, <2>1, <2>3 DEF LoginProvider, CallFacts, Linked, LoginCall, AccountFacts, IdTypeOK
  <2>5. CallFacts(c)' /\ c.pc \notin Registering
    BY <1>4, <2>4 DEF LoginProvider, CallFacts, SignedIn, Registering, idRows
  <2>6. IdGoto(p, c) /\ UNCHANGED idRows
    BY <1>4, <2>3 DEF LoginProvider
  <2>7. QED
    BY <2>3, <2>5, <2>6, ReadStep
<1>5. ASSUME NEW next \in SignedIn, idCall[p].pc \in SignedIn,
             NEW c, c = [idCall[p] EXCEPT !.pc = next],
             account'.linked, account'.version = account.version, UNCHANGED acked
      PROVE  c \in Call /\ c.pc \notin Registering /\ CallFacts(c)'
  <2>1. idCall[p] \in SignedInCall
    BY <1>0, <1>5, CallFields
  <2>2. /\ c \in SignedInCall /\ c.pc = next
        /\ c.version = idCall[p].version /\ c.password = idCall[p].password
    BY <1>5, <2>1 DEF SignedInCall, SignedIn
  <2>3. c \in Call /\ c.pc \notin Registering
    BY <1>5, <2>2 DEF Call, SignedIn, Registering
  <2>4. /\ c.version <= account.version
        /\ c.version = account.version => c.password >= acked
    BY <1>0, <1>5, <2>2 DEF CallFacts
  <2>5. CallFacts(c)'
    BY <1>5, <2>2, <2>4 DEF CallFacts, SignedIn, Registering
  <2>6. QED
    BY <2>3, <2>5
<1>6. CASE LoginFind(p)
  <2>1. /\ idCall[p].pc \in SignedIn /\ account.linked
        /\ IdGoto(p, [idCall[p] EXCEPT !.pc = "loginActivate"]) /\ UNCHANGED idRows
    BY <1>0, <1>6 DEF LoginFind, SignedIn, CallFacts, Linked
  <2>2. "loginActivate" \in SignedIn /\ account'.linked
        /\ account'.version = account.version /\ UNCHANGED acked
    BY <2>1 DEF SignedIn, idRows
  <2>3. PICK c : c = [idCall[p] EXCEPT !.pc = "loginActivate"]
    OBVIOUS
  <2>4. c \in Call /\ c.pc \notin Registering /\ CallFacts(c)'
    BY <1>5, <2>1, <2>2, <2>3
  <2>5. QED
    BY <2>1, <2>3, <2>4, ReadStep
<1>7. CASE LoginActivate(p)
  <2>1. /\ idCall[p].pc \in SignedIn /\ account.linked /\ Activate
        /\ IdGoto(p, [idCall[p] EXCEPT !.pc = "recheck"])
        /\ UNCHANGED <<provider, session, now, acked>>
    BY <1>0, <1>7 DEF LoginActivate, SignedIn, CallFacts, Linked
  <2>2. "recheck" \in SignedIn /\ account'.linked /\ account'.version = account.version
    BY <2>1 DEF SignedIn, Activate, IdTypeOK
  <2>3. PICK c : c = [idCall[p] EXCEPT !.pc = "recheck"]
    OBVIOUS
  <2>4. c \in Call /\ c.pc \notin Registering /\ CallFacts(c)'
    BY <1>5, <2>1, <2>2, <2>3
  <2>5. QED
    BY <2>1, <2>3, <2>4, ActivateStep
<1>8. CASE LoginRecheck(p)
  <2>1. /\ idCall[p].pc \in SignedIn /\ account.linked
        /\ IdGoto(p, [idCall[p] EXCEPT !.pc = "session"]) /\ UNCHANGED idRows
    BY <1>0, <1>8 DEF LoginRecheck, SignedIn, CallFacts, Linked
  <2>2. "session" \in SignedIn /\ account'.linked
        /\ account'.version = account.version /\ UNCHANGED acked
    BY <2>1 DEF SignedIn, idRows
  <2>3. PICK c : c = [idCall[p] EXCEPT !.pc = "session"]
    OBVIOUS
  <2>4. c \in Call /\ c.pc \notin Registering /\ CallFacts(c)'
    BY <1>5, <2>1, <2>2, <2>3
  <2>5. QED
    BY <2>1, <2>3, <2>4, ReadStep
<1>9. QED
  BY <1>1, <1>2, <1>3, <1>4, <1>6, <1>7, <1>8

\* A step that only writes sessions: none becomes unused again, a new one is
\* as its login found the account, and none that stays loses its validity.
LEMMA SessionStep ==
    ASSUME IdInv, NEW p \in Process, NEW c \in Call, IdGoto(p, c),
           UNCHANGED <<account, provider, now, acked>>,
           session' \in [Token -> StoredRow \union EndedRow],
           \A t \in Token : SessionFacts(t)',
           ASSUME NEW t \in Token
           PROVE  /\ session[t].state # "UNUSED" => session'[t].state # "UNUSED"
                  /\ session[t].state # "UNUSED" /\ session'[t].state = "STORED" =>
                        /\ session[t].state = "STORED"
                        /\ session'[t].version = session[t].version
                        /\ session'[t].expiresAt = session[t].expiresAt
                        /\ session'[t].last >= session[t].last,
           CallFacts(c)', c.pc \notin Registering
    PROVE  IdInv'
<1>1. ASSUME NEW d \in Call, CallFacts(d) PROVE CallFacts(d)'
  <2>1. CASE d.pc \notin {"touch", "reread"}
    BY <1>1, <2>1 DEF CallFacts
  <2>2. CASE d.pc \in {"touch", "reread"}
    <3>1. d.token \in Token /\ d.at \in Nat
      BY <2>2, CallFields DEF PrincipalCall
    <3>2. session[d.token].state # "UNUSED" /\ session'[d.token].state # "UNUSED"
      BY <1>1, <2>2, <3>1 DEF CallFacts
    <3>3. ASSUME Stored(d.token)' PROVE Live(d.token, d.at)' /\ (d.pc = "touch" => Eligible(d.token)')
      <4>1. /\ Stored(d.token)
            /\ session'[d.token].version = session[d.token].version
            /\ session'[d.token].expiresAt = session[d.token].expiresAt
            /\ session'[d.token].last >= session[d.token].last
        BY <3>1, <3>2, <3>3 DEF Stored
      <4>2. Live(d.token, d.at) /\ (d.pc = "touch" => Eligible(d.token))
        BY <1>1, <2>2, <4>1 DEF CallFacts
      <4>3. session[d.token] \in StoredRow /\ session'[d.token] \in StoredRow
        BY <3>1, <3>3, <4>1, SessionFields DEF IdInv, IdTypeOK, Stored
      <4>4. Inactivity \in Nat
        BY IdentityAssumption
      <4>5. QED
        BY <3>1, <3>3, <4>1, <4>2, <4>3, <4>4 DEF Live, Eligible, Stored, StoredRow
    <3>4. d.pc \notin Registering \union SignedIn \union {"login", "revokeAgain"}
      BY <2>2 DEF Registering, SignedIn
    <3>5. d.pc \in Linked => account'.linked
      BY <1>1 DEF CallFacts
    <3>6. QED
      BY <2>2, <3>2, <3>3, <3>4, <3>5 DEF CallFacts
  <2>3. QED
    BY <2>1, <2>2
<1>2. /\ idCall' \in [Process -> Call]
      /\ \A q \in Process : CallFacts(idCall[q])'
      /\ OneRegisters'
  BY <1>1, CallStep DEF IdInv
<1>3. IdTypeOK' /\ AccountFacts'
  BY <1>2 DEF IdInv, IdTypeOK, AccountFacts
<1>4. QED
  BY <1>2, <1>3 DEF IdInv

LEMMA LogoutKeeps ==
    ASSUME IdInv, NEW p \in Process,
           \/ \E t, former \in Token : LoginCreate(p, t, former)
           \/ Logout(p)
           \/ \E t \in Token : LogoutRequest(p, t)
    PROVE  IdInv'
<1>0. /\ CallFacts(idCall[p]) /\ idCall[p] \in Call
      /\ session \in [Token -> StoredRow \union EndedRow]
  BY DEF IdInv, IdTypeOK
<1>1. ASSUME NEW c, NEW t \in Token, c = [pc |-> "logout", token |-> t]
      PROVE  c \in Call /\ c.pc \notin Registering /\ CallFacts(c)'
  BY <1>1 DEF Call, LogoutCall, Registering, CallFacts, SignedIn, Linked
<1>2. ASSUME NEW t \in Token, NEW former \in Token, LoginCreate(p, t, former) PROVE IdInv'
  <2>1. idCall[p].pc = "session" /\ session[t].state = "UNUSED"
    BY <1>2 DEF LoginCreate, Unused
  <2>2. idCall[p] \in SignedInCall
    BY <1>0, <2>1, CallFields DEF SignedIn
  <2>3. PICK row \in StoredRow :
            /\ row = [state |-> "STORED", version |-> idCall[p].version, password |-> idCall[p].password,
                      expiresAt |-> now + Lifetime, last |-> now]
            /\ row.version = idCall[p].version /\ row.password = idCall[p].password
    <3>1. Lifetime \in Nat /\ now \in Nat
      BY IdentityAssumption DEF IdInv, IdTypeOK
    <3>2. idCall[p].version \in Nat /\ idCall[p].password \in Nat /\ now + Lifetime \in Nat
      BY <2>2, <3>1 DEF SignedInCall
    <3>3. [state |-> "STORED", version |-> idCall[p].version, password |-> idCall[p].password,
           expiresAt |-> now + Lifetime, last |-> now] \in StoredRow
      BY <3>1, <3>2 DEF StoredRow
    <3>4. QED
      BY <3>3
  <2>4. session' = [session EXCEPT ![t] = row] /\ UNCHANGED <<account, provider, now, acked>>
    BY <1>2, <2>3 DEF LoginCreate
  <2>5. /\ row.version <= account.version
        /\ row.version = account.version => row.password >= acked
    BY <1>0, <2>1, <2>3 DEF CallFacts, SignedIn
  <2>6. \A u \in Token : SessionFacts(u)'
    BY <1>0, <2>4, <2>5 DEF SessionFacts, Stored, IdInv
  <2>7. session' \in [Token -> StoredRow \union EndedRow]
    BY <1>0, <2>4
  <2>8. ASSUME NEW u \in Token
        PROVE  /\ session[u].state # "UNUSED" => session'[u] = session[u]
               /\ session[u].state = "STORED" => session[u].last >= session[u].last
    <3>1. session[u].state = "STORED" => session[u].last \in Nat
      BY <1>0, SessionFields DEF StoredRow
    <3>2. QED
      BY <1>0, <2>1, <2>4, <3>1
  <2>9. PICK c : c = [pc |-> "logout", token |-> former]
    OBVIOUS
  <2>10. IdGoto(p, c)
    BY <1>2, <2>9 DEF LoginCreate
  <2>11. QED
    BY <1>1, <2>4, <2>6, <2>7, <2>8, <2>9, <2>10, SessionStep
<1>3. CASE Logout(p)
  <2>1. idCall[p] \in LogoutCall
    BY <1>0, <1>3, CallFields DEF Logout
  <2>2. PICK t \in Token : t = idCall[p].token
    BY <2>1 DEF LogoutCall
  <2>3. /\ session' = [session EXCEPT ![t] = IF Stored(t) THEN Deleted ELSE @]
        /\ UNCHANGED <<account, provider, now, acked>> /\ IdGoto(p, Idle)
    BY <1>3, <2>2 DEF Logout
  <2>4. ASSUME NEW u \in Token
        PROVE  \/ session'[u] = session[u]
               \/ session[u].state = "STORED" /\ session'[u] = [state |-> "DELETED"]
    <3>1. CASE session[t].state = "STORED"
      <4>1. session' = [session EXCEPT ![t] = [state |-> "DELETED"]]
        BY <2>3, <3>1 DEF Stored, Deleted
      <4>2. QED
        BY <1>0, <3>1, <4>1
    <3>2. CASE session[t].state # "STORED"
      <4>1. session' = [session EXCEPT ![t] = session[t]]
        BY <2>3, <3>2 DEF Stored
      <4>2. QED
        BY <1>0, <4>1
    <3>3. QED
      BY <3>1, <3>2
  <2>5. session' \in [Token -> StoredRow \union EndedRow]
    BY <1>0, <2>3 DEF Deleted, EndedRow
  <2>6. \A u \in Token : SessionFacts(u)'
    BY <2>3, <2>4 DEF SessionFacts, Stored, IdInv
  <2>7. ASSUME NEW u \in Token
        PROVE  /\ session[u].state # "UNUSED" => session'[u].state # "UNUSED"
               /\ session[u].state # "UNUSED" /\ session'[u].state = "STORED" =>
                        /\ session[u].state = "STORED"
                        /\ session'[u].version = session[u].version
                        /\ session'[u].expiresAt = session[u].expiresAt
                        /\ session'[u].last >= session[u].last
    <3>1. session[u].state = "STORED" => session[u].last \in Nat
      BY <1>0, SessionFields DEF StoredRow
    <3>2. CASE session'[u] = session[u]
      BY <3>1, <3>2
    <3>3. CASE session'[u] = [state |-> "DELETED"]
      BY <3>3
    <3>4. QED
      BY <2>4, <3>2, <3>3
  <2>8. Idle \in Call /\ Idle.pc \notin Registering /\ CallFacts(Idle)'
    BY DEF Idle, Call, PlainCall, CallFacts, SignedIn, Registering, Linked
  <2>9. QED
    BY <2>3, <2>4, <2>5, <2>6, <2>7, <2>8, SessionStep
<1>4. ASSUME NEW t \in Token, LogoutRequest(p, t) PROVE IdInv'
  <2>1. PICK c : c = [pc |-> "logout", token |-> t]
    OBVIOUS
  <2>2. IdGoto(p, c) /\ UNCHANGED idRows
    BY <1>4, <2>1 DEF LogoutRequest
  <2>3. QED
    BY <1>1, <2>1, <2>2, ReadStep
<1>5. QED
  BY <1>2, <1>3, <1>4

\* What principal reads about a session stays usable knowledge: a session that
\* is still stored when it is touched is live and eligible at that moment.
LEMMA PrincipalKeeps ==
    ASSUME IdInv, NEW p \in Process,
           \/ \E t \in Token : PrincipalRead(p, t)
           \/ PrincipalTouch(p) \/ PrincipalReread(p)
    PROVE  IdInv'
<1>0. /\ CallFacts(idCall[p]) /\ idCall[p] \in Call
      /\ session \in [Token -> StoredRow \union EndedRow]
  BY DEF IdInv, IdTypeOK
<1>1. ASSUME NEW t \in Token, PrincipalRead(p, t) PROVE IdInv'
  <2>1. PICK c \in Call : /\ c = [pc |-> "touch", token |-> t, at |-> now]
                          /\ c.pc = "touch" /\ c.token = t /\ c.at = now
    <3>1. [pc |-> "touch", token |-> t, at |-> now] \in Call
      BY DEF Call, PrincipalCall, IdInv, IdTypeOK
    <3>2. QED
      BY <3>1
  <2>2. Live(t, now) /\ Eligible(t) /\ IdGoto(p, c) /\ UNCHANGED idRows
    BY <1>1, <2>1 DEF PrincipalRead
  <2>3. account.linked /\ session[t].state # "UNUSED"
    BY <2>2 DEF Eligible, Stored
  <2>4. CallFacts(c)' /\ c.pc \notin Registering
    BY <2>1, <2>2, <2>3 DEF CallFacts, SignedIn, Registering, Stored, Live, Eligible, idRows
  <2>5. QED
    BY <2>1, <2>2, <2>4, ReadStep
<1>2. CASE PrincipalTouch(p)
  <2>1. idCall[p] \in PrincipalCall /\ idCall[p].pc = "touch" /\ account.linked
    BY <1>0, <1>2, CallFields DEF PrincipalTouch, CallFacts, Linked
  <2>2. PICK t \in Token, at \in Nat : t = idCall[p].token /\ at = idCall[p].at
    BY <2>1 DEF PrincipalCall
  <2>3. CASE Touches(t, at)
    <3>1. /\ session' = [session EXCEPT ![t] = [session[t] EXCEPT !.last = at]]
          /\ IdGoto(p, [pc |-> "served"])
          /\ UNCHANGED <<account, provider, now, acked>>
      BY <1>2, <2>2, <2>3 DEF PrincipalTouch
    <3>2. session[t] \in StoredRow /\ at >= session[t].last
      BY <1>0, <2>3, SessionFields DEF Touches, Live, Stored, StoredRow
    <3>3. PICK row \in StoredRow :
              /\ row = [session[t] EXCEPT !.last = at]
              /\ row.version = session[t].version /\ row.password = session[t].password
              /\ row.expiresAt = session[t].expiresAt /\ row.last = at
      <4>1. [session[t] EXCEPT !.last = at] \in StoredRow
        BY <3>2 DEF StoredRow
      <4>2. QED
        BY <3>2, <4>1 DEF StoredRow
    <3>4. session' = [session EXCEPT ![t] = row] /\ session[t].state = "STORED" /\ row.state = "STORED"
      BY <3>1, <3>2, <3>3 DEF StoredRow
    <3>5. session' \in [Token -> StoredRow \union EndedRow]
      BY <1>0, <3>4
    <3>6. \A u \in Token : SessionFacts(u)'
      BY <1>0, <3>1, <3>3, <3>4 DEF SessionFacts, Stored, IdInv
    <3>7. ASSUME NEW u \in Token
          PROVE  /\ session[u].state # "UNUSED" => session'[u].state # "UNUSED"
                 /\ session[u].state # "UNUSED" /\ session'[u].state = "STORED" =>
                          /\ session[u].state = "STORED"
                          /\ session'[u].version = session[u].version
                          /\ session'[u].expiresAt = session[u].expiresAt
                          /\ session'[u].last >= session[u].last
      <4>1. session[u].state = "STORED" => session[u].last \in Nat
        BY <1>0, SessionFields DEF StoredRow
      <4>2. CASE u = t
        BY <1>0, <3>2, <3>3, <3>4, <4>2
      <4>3. CASE u # t
        BY <1>0, <3>4, <4>1, <4>3
      <4>4. QED
        BY <4>2, <4>3
    <3>8. PICK c \in Call : c = [pc |-> "served"] /\ c.pc = "served"
      <4>1. [pc |-> "served"] \in Call
        BY DEF Call, PlainCall
      <4>2. QED
        BY <4>1
    <3>9. CallFacts(c)' /\ c.pc \notin Registering
      BY <2>1, <3>1, <3>8 DEF CallFacts, SignedIn, Registering
    <3>10. QED
      BY <3>1, <3>5, <3>6, <3>7, <3>8, <3>9, SessionStep
  <2>4. CASE ~Touches(t, at)
    <3>1. PICK c : c = [idCall[p] EXCEPT !.pc = "reread"]
      OBVIOUS
    <3>2. c \in PrincipalCall /\ c.pc = "reread" /\ c.token = t /\ c.at = at
      BY <2>1, <2>2, <3>1 DEF PrincipalCall
    <3>3. IdGoto(p, c) /\ UNCHANGED idRows
      BY <1>2, <2>2, <2>4, <3>1 DEF PrincipalTouch, idRows
    <3>4. /\ session[t].state # "UNUSED"
          /\ Stored(t) => Live(t, at)
      BY <1>0, <2>1, <2>2 DEF CallFacts
    <3>5. CallFacts(c)' /\ c.pc \notin Registering
      BY <2>1, <3>2, <3>3, <3>4 DEF CallFacts, SignedIn, Registering, Stored, Live, idRows
    <3>6. QED
      BY <3>2, <3>3, <3>5, ReadStep DEF Call
  <2>5. QED
    BY <2>3, <2>4
<1>3. CASE PrincipalReread(p)
  <2>1. idCall[p] \in PrincipalCall /\ account.linked
    BY <1>0, <1>3, CallFields DEF PrincipalReread, CallFacts, Linked
  <2>2. PICK next \in {"served", "anonymous"} : IdGoto(p, [idCall[p] EXCEPT !.pc = next])
    BY <1>3 DEF PrincipalReread
  <2>3. PICK c : c = [idCall[p] EXCEPT !.pc = next]
    OBVIOUS
  <2>4. c \in Call /\ c.pc = next
    BY <2>1, <2>2, <2>3 DEF PrincipalCall, Call
  <2>5. CallFacts(c)' /\ c.pc \notin Registering
    BY <1>3, <2>1, <2>2, <2>4 DEF CallFacts, SignedIn, Registering, PrincipalReread, idRows
  <2>6. QED
    BY <1>3, <2>2, <2>3, <2>4, <2>5, ReadStep DEF PrincipalReread
<1>4. QED
  BY <1>1, <1>2, <1>3

LEMMA RevocationKeeps ==
    ASSUME IdInv, NEW p \in Process,
           \/ Deactivate(p) \/ ResetRecover(p) \/ ResetRevoke(p) \/ ResetFinish(p)
           \/ \E fails \in BOOLEAN : ResetChange(p, fails)
    PROVE  IdInv'
<1>0. /\ CallFacts(idCall[p]) /\ idCall[p] \in Call
      /\ acked \in Nat /\ provider.password \in Nat /\ acked <= provider.password
  BY DEF IdInv, IdTypeOK, AccountFacts
<1>1. Idle \in PlainCall /\ Idle.pc \notin Registering
  BY DEF Idle, PlainCall, Registering
<1>2. CASE Deactivate(p)
  <2>1. account.linked
    BY <1>0, <1>2 DEF Deactivate, CallFacts, Linked
  <2>2. QED
    BY <1>0, <1>1, <1>2, <2>1, RevokeStep DEF Deactivate, Call
<1>3. CASE ResetRecover(p)
  <2>1. PICK c \in Call : c = [pc |-> "revoke"] /\ c.pc = "revoke"
    <3>1. [pc |-> "revoke"] \in Call
      BY DEF Call, PlainCall
    <3>2. QED
      BY <3>1
  <2>2. IdGoto(p, c) /\ UNCHANGED idRows /\ account'.linked
    BY <1>3, <2>1 DEF ResetRecover, idRows
  <2>3. CallFacts(c)' /\ c.pc \notin Registering
    BY <2>1, <2>2 DEF CallFacts, SignedIn, Registering
  <2>4. QED
    BY <2>1, <2>2, <2>3, ReadStep
<1>4. CASE ResetRevoke(p)
  <2>1. account.linked
    BY <1>0, <1>4 DEF ResetRevoke, CallFacts, Linked
  <2>2. [pc |-> "change"] \in PlainCall /\ [pc |-> "change"].pc \notin Registering
    BY DEF PlainCall, Registering
  <2>3. QED
    BY <1>0, <1>4, <2>1, <2>2, RevokeStep DEF ResetRevoke, Call
<1>5. CASE ResetFinish(p)
  <2>1. account.linked /\ idCall[p] \in ResetCall /\ idCall[p].password <= provider.password
    BY <1>0, <1>5, CallFields DEF ResetFinish, CallFacts, Linked
  <2>2. acked' \in Nat /\ acked' <= provider.password
    BY <1>0, <1>5, <2>1 DEF ResetFinish, ResetCall
  <2>3. QED
    BY <1>1, <1>5, <2>1, <2>2, RevokeStep DEF ResetFinish, Call
<1>6. ASSUME NEW fails \in BOOLEAN, ResetChange(p, fails) PROVE IdInv'
  <2>1. /\ provider' \in [exists : BOOLEAN, verified : BOOLEAN, password : Nat]
        /\ provider'.password >= provider.password
        /\ UNCHANGED <<account, session, now, acked>>
        /\ account.linked
    BY <1>0, <1>6 DEF ResetChange, IdInv, IdTypeOK, CallFacts, Linked
  <2>2. PICK c : c = [pc |-> "revokeAgain", password |-> IF fails THEN 0 ELSE provider.password + 1]
    OBVIOUS
  <2>3. c \in ResetCall /\ c.pc = "revokeAgain" /\ c.password <= provider'.password
    <3>1. provider \in [exists : BOOLEAN, verified : BOOLEAN, password : Nat]
      BY DEF IdInv, IdTypeOK
    <3>2. CASE fails
      BY <1>0, <1>6, <2>1, <2>2, <3>2 DEF ResetCall
    <3>3. CASE ~fails
      BY <1>0, <1>6, <2>2, <3>1, <3>3 DEF ResetCall, ResetChange
    <3>4. QED
      BY <3>2, <3>3
  <2>4. ASSUME NEW d \in Call, CallFacts(d) PROVE CallFacts(d)'
    <3>1. d.pc = "revokeAgain" => d.password \in Nat
      BY CallFields DEF ResetCall
    <3>2. d.pc = "revokeAgain" => d.password <= provider'.password
      BY <1>0, <2>1, <2>4, <3>1 DEF CallFacts
    <3>3. QED
      BY <2>1, <2>4, <3>2 DEF CallFacts, Stored, Live, Eligible
  <2>5. c \in Call /\ c.pc \notin Registering /\ CallFacts(c)' /\ IdGoto(p, c)
    BY <1>6, <2>1, <2>2, <2>3 DEF CallFacts, SignedIn, Registering, Call, ResetChange
  <2>6. /\ idCall' \in [Process -> Call]
        /\ \A q \in Process : CallFacts(idCall[q])'
        /\ OneRegisters'
    BY <2>4, <2>5, CallStep DEF IdInv
  <2>7. IdTypeOK' /\ AccountFacts' /\ \A t \in Token : SessionFacts(t)'
    BY <1>0, <2>1, <2>6 DEF IdInv, IdTypeOK, AccountFacts, SessionFacts, Stored
  <2>8. QED
    BY <2>6, <2>7 DEF IdInv
<1>7. QED
  BY <1>2, <1>3, <1>4, <1>5, <1>6

LEMMA NextIdInv == IdInv /\ [IdNext]_idVars => IdInv'
<1> SUFFICES ASSUME IdInv, [IdNext]_idVars PROVE IdInv'
  OBVIOUS
<1>1. CASE UNCHANGED <<account, session, acked, idCall>> /\ (UNCHANGED provider \/ ProviderVerify)
           /\ now' \in Nat
  <2>1. /\ provider' \in [exists : BOOLEAN, verified : BOOLEAN, password : Nat]
        /\ provider'.password = provider.password
    BY <1>1 DEF ProviderVerify, IdInv, IdTypeOK
  <2>2. \A q \in Process : CallFacts(idCall[q])'
    BY <1>1, <2>1 DEF IdInv, CallFacts, Stored, Live, Eligible
  <2>3. QED
    BY <1>1, <2>1, <2>2 DEF IdInv, IdTypeOK, AccountFacts, SessionFacts, Stored, OneRegisters
<1>2. CASE IdTick
  <2>1. now' \in Nat
    BY <1>2 DEF IdTick, IdInv, IdTypeOK
  <2>2. QED
    BY <1>1, <1>2, <2>1 DEF IdTick
<1>3. CASE ProviderVerify
  <2>1. now' \in Nat
    BY <1>3 DEF ProviderVerify, IdInv, IdTypeOK
  <2>2. QED
    BY <1>1, <1>3, <2>1 DEF ProviderVerify
<1>4. ASSUME NEW p \in Process, IdAbandon(p) PROVE IdInv'
  <2>1. Idle \in Call /\ Idle.pc \notin Registering /\ CallFacts(Idle)'
    BY DEF Idle, Call, PlainCall, CallFacts, SignedIn, Registering, Linked
  <2>2. QED
    BY <1>4, <2>1, ReadStep DEF IdAbandon
<1>5. ASSUME NEW p \in Process, IdRegister(p) PROVE IdInv'
  BY <1>5, RegisterKeeps, LoginKeeps DEF IdRegister
<1>6. ASSUME NEW p \in Process, IdLogin(p) PROVE IdInv'
  BY <1>6, LoginKeeps, LogoutKeeps, PrincipalKeeps, RevocationKeeps DEF IdLogin
<1>7. ASSUME NEW p \in Process, IdReset(p) PROVE IdInv'
  BY <1>7, RevocationKeeps DEF IdReset
<1>8. CASE UNCHANGED idVars
  BY <1>1, <1>8 DEF idVars, idRows, IdInv, IdTypeOK
<1>9. QED
  BY <1>2, <1>3, <1>4, <1>5, <1>6, <1>7, <1>8 DEF IdNext

\* The invariant of accounts, sessions and the requests being served holds
\* throughout, also after a process ended between two steps.
THEOREM IdInvariant == IdSpec => []IdInv
<1>1. QED
  BY InitIdInv, NextIdInv, PTL DEF IdSpec

-----------------------------------------------------------------------------
(* The properties *)

\* After an acknowledged reset no session of an earlier password is usable,
\* for any number of logins and resets under way at once.
THEOREM ResetsEndSessions == IdSpec => []ResetEndsSessions
<1>1. IdInv => ResetEndsSessions
  BY DEF IdInv, ResetEndsSessions, SessionFacts, Eligible
<1>2. QED
  BY <1>1, IdInvariant, PTL

\* A request that has read its principal is only moved on by its own steps.
LEMMA PrincipalSteps ==
    ASSUME IdInv, [IdNext]_idVars, NEW p \in Process,
           idCall[p].pc \in {"touch", "reread"}, idCall'[p].pc \in {"served", "anonymous"}
    PROVE  PrincipalTouch(p) \/ PrincipalReread(p)
<1>0. idCall \in [Process -> Call]
  BY DEF IdInv, IdTypeOK
<1>1. CASE UNCHANGED idCall
  BY <1>1
<1>2. ASSUME NEW q \in Process, NEW c, IdGoto(q, c), q # p
      PROVE  FALSE
  BY <1>0, <1>2 DEF IdGoto
<1>3. ASSUME NEW q \in Process, IdAbandon(q) \/ IdRegister(q) \/ IdReset(q), q = p
      PROVE  FALSE
  BY <1>0, <1>3 DEF IdAbandon, IdRegister, IdReset, IdGoto, Idle, RegisterClaim, RegisterBind,
     RegisterUnclaim, RegisterProvider, VerifyRead, VerifyActivate, ResetRecover, ResetRevoke,
     ResetFinish, ResetChange
<1>4. ASSUME NEW q \in Process, IdLogin(q), q = p
      PROVE  PrincipalTouch(p) \/ PrincipalReread(p)
  BY <1>0, <1>4 DEF IdLogin, IdGoto, Idle, LoginRead, LoginProvider, LoginFind, LoginActivate,
     LoginRecheck, LoginCreate, Logout, LogoutRequest, PrincipalRead, Deactivate
<1>5. ASSUME NEW q \in Process, IdAbandon(q) \/ IdRegister(q) \/ IdReset(q) \/ IdLogin(q)
      PROVE  \E c : IdGoto(q, c)
  BY <1>5 DEF IdAbandon, IdRegister, IdReset, RegisterClaim, RegisterBind,
     RegisterUnclaim, RegisterProvider, VerifyRead, VerifyActivate, ResetRecover, ResetRevoke,
     ResetFinish, ResetChange, IdLogin, LoginRead, LoginProvider, LoginFind, LoginActivate,
     LoginRecheck, LoginCreate, Logout, LogoutRequest, PrincipalRead, PrincipalTouch,
     PrincipalReread, Deactivate
<1>6. QED
  BY <1>1, <1>2, <1>3, <1>4, <1>5 DEF IdNext, IdTick, ProviderVerify, idVars

\* A request is served as a customer only while its session is eligible at the
\* step that decides it, however long ago its principal was read.
THEOREM ServedWhileEligible == IdSpec => ServedAreEligible
<1> DEFINE Served == \A p \in Process :
        idCall[p].pc \in {"touch", "reread"} /\ idCall'[p].pc = "served" => Eligible(idCall[p].token)
<1>1. ASSUME IdInv, [IdNext]_idVars PROVE Served
  <2> SUFFICES ASSUME NEW p \in Process, idCall[p].pc \in {"touch", "reread"}, idCall'[p].pc = "served"
               PROVE  Eligible(idCall[p].token)
    OBVIOUS
  <2>0. idCall \in [Process -> Call] /\ idCall[p] \in PrincipalCall /\ CallFacts(idCall[p])
    BY <1>1, CallFields DEF IdInv, IdTypeOK
  <2>1. CASE PrincipalTouch(p)
    <3>1. Touches(idCall[p].token, idCall[p].at)
      BY <2>0, <2>1 DEF PrincipalTouch, IdGoto, PrincipalCall
    <3>2. Stored(idCall[p].token)
      BY <3>1 DEF Touches, Live
    <3>3. QED
      BY <2>0, <2>1, <3>2 DEF PrincipalTouch, CallFacts
  <2>2. CASE PrincipalReread(p)
    BY <2>0, <2>2 DEF PrincipalReread, IdGoto, PrincipalCall, Revalidated
  <2>3. QED
    BY <1>1, <2>1, <2>2, PrincipalSteps
<1>2. QED
  BY <1>1, IdInvariant, PTL DEF IdSpec, ServedAreEligible

\* Whatever other requests do to the activity of a session, a request that lost
\* the race to touch it turns anonymous only when the account or session ended.
THEOREM NoneTurnedAnonymous == IdSpec => NotTurnedAnonymous
<1> DEFINE Kept == \A p \in Process :
        idCall[p].pc = "reread" /\ idCall'[p].pc = "anonymous" => ~Eligible(idCall[p].token)
<1>1. ASSUME IdInv, [IdNext]_idVars PROVE Kept
  <2> SUFFICES ASSUME NEW p \in Process, idCall[p].pc = "reread", idCall'[p].pc = "anonymous"
               PROVE  ~Eligible(idCall[p].token)
    OBVIOUS
  <2>0. idCall \in [Process -> Call] /\ idCall[p] \in PrincipalCall /\ CallFacts(idCall[p])
    BY <1>1, CallFields DEF IdInv, IdTypeOK
  <2>1. PrincipalReread(p)
    BY <1>1, PrincipalSteps DEF PrincipalTouch
  <2>2. ~Revalidated(idCall[p].token, idCall[p].at)
    BY <2>0, <2>1 DEF PrincipalReread, IdGoto, PrincipalCall
  <2>3. Stored(idCall[p].token) => Live(idCall[p].token, idCall[p].at)
    BY <2>0 DEF CallFacts
  <2>4. QED
    BY <2>2, <2>3 DEF Revalidated, Eligible
<1>2. QED
  BY <1>1, IdInvariant, PTL DEF IdSpec, NotTurnedAnonymous

\* No login, verification or reset, wherever it was when the customer
\* deactivated the account, makes it usable again.
THEOREM DeactivationIsFinal == IdSpec => DeactivatedForEver
<1> DEFINE Final == account.status = "DEACTIVATED" => account'.status = "DEACTIVATED"
<1>1. ASSUME IdInv, [IdNext]_idVars, account.status = "DEACTIVATED" PROVE account'.status = "DEACTIVATED"
  <2>1. \A p \in Process : idCall[p].pc \notin Registering
    BY <1>1 DEF IdInv, CallFacts
  <2>2. ASSUME NEW p \in Process, IdRegister(p) PROVE UNCHANGED account
    BY <1>1, <2>1, <2>2 DEF IdRegister, RegisterClaim, RegisterBind, RegisterUnclaim, RegisterProvider,
       VerifyRead, VerifyActivate, Activate, Activates, Registering, idRows
  <2>3. ASSUME NEW p \in Process, IdLogin(p) PROVE UNCHANGED account \/ Deactivate(p)
    BY <1>1, <2>3 DEF IdLogin, LoginRead, LoginProvider, LoginFind, LoginActivate, LoginRecheck,
       LoginCreate, Logout, LogoutRequest, PrincipalRead, PrincipalTouch, PrincipalReread,
       Activate, Activates, idRows
  <2>4. ASSUME NEW p \in Process, Deactivate(p) \/ IdReset(p) PROVE account'.status = "DEACTIVATED"
    <3>1. ASSUME NEW status \in {account.status, "DEACTIVATED"}, Revoke(status)
          PROVE  account'.status = "DEACTIVATED"
      BY <1>1, <3>1 DEF Revoke
    <3>2. CASE Deactivate(p)
      BY <3>1, <3>2 DEF Deactivate
    <3>3. CASE IdReset(p)
      BY <1>1, <3>1, <3>3 DEF IdReset, ResetRecover, ResetRevoke, ResetFinish, ResetChange, idRows
    <3>4. QED
      BY <2>4, <3>2, <3>3
  <2>5. QED
    BY <1>1, <2>2, <2>3, <2>4 DEF IdNext, IdTick, ProviderVerify, IdAbandon, idVars, idRows
<1>2. QED
  BY <1>1, IdInvariant, PTL DEF IdSpec, DeactivatedForEver

\* Concurrent requests of one session never move its last activity back.
THEOREM ActivityIsMonotone == IdSpec => ActivityMovesForward
<1> DEFINE Forward == \A t \in Token : Stored(t) /\ Stored(t)' => session'[t].last >= session[t].last
<1>1. ASSUME IdInv, [IdNext]_idVars PROVE Forward
  <2> SUFFICES ASSUME NEW t \in Token, Stored(t), Stored(t)' PROVE session'[t].last >= session[t].last
    OBVIOUS
  <2>0. session \in [Token -> StoredRow \union EndedRow] /\ session[t].last \in Nat
    BY <1>1, SessionFields DEF IdInv, IdTypeOK, Stored, StoredRow
  <2>1. CASE UNCHANGED session
    BY <2>0, <2>1
  <2>2. CASE session' = DropsSessions
    BY <2>2 DEF DropsSessions, Stored, Deleted
  <2>3. ASSUME NEW p \in Process, NEW u \in Token, NEW former \in Token, LoginCreate(p, u, former)
        PROVE  session'[t].last >= session[t].last
    BY <2>0, <2>3 DEF LoginCreate, Stored, Unused
  <2>4. ASSUME NEW p \in Process, Logout(p) PROVE session'[t].last >= session[t].last
    <3>1. idCall[p].pc = "logout" /\ idCall[p] \in Call
      BY <1>1, <2>4 DEF Logout, IdInv, IdTypeOK
    <3>2. idCall[p].token \in Token
      BY <3>1, CallFields DEF LogoutCall
    <3>3. CASE idCall[p].token = t
      <4>1. session'[t] = Deleted
        BY <2>0, <2>4, <3>2, <3>3 DEF Logout
      <4>2. QED
        BY <4>1 DEF Stored, Deleted
    <3>4. CASE idCall[p].token # t
      BY <2>0, <2>4, <3>2, <3>4 DEF Logout
    <3>5. QED
      BY <3>3, <3>4
  <2>5. ASSUME NEW p \in Process, PrincipalTouch(p) PROVE session'[t].last >= session[t].last
    <3>1. idCall[p].pc = "touch" /\ idCall[p] \in PrincipalCall
      BY <1>1, <2>5, CallFields DEF PrincipalTouch, IdInv, IdTypeOK
    <3>2. PICK u \in Token, at \in Nat : u = idCall[p].token /\ at = idCall[p].at
      BY <3>1 DEF PrincipalCall
    <3>3. CASE Touches(u, at) /\ u = t
      <4>1. session'[t] = [session[t] EXCEPT !.last = at] /\ session[t] \in StoredRow /\ at >= session[t].last
        BY <2>0, <2>5, <3>2, <3>3, SessionFields DEF PrincipalTouch, Touches, Stored
      <4>2. QED
        BY <4>1 DEF StoredRow
    <3>4. CASE ~(Touches(u, at) /\ u = t)
      BY <2>0, <2>5, <3>2, <3>4 DEF PrincipalTouch
    <3>5. QED
      BY <3>3, <3>4
  <2>6. ASSUME NEW p \in Process, IdLogin(p) PROVE session'[t].last >= session[t].last
    BY <2>1, <2>2, <2>3, <2>4, <2>5, <2>6 DEF IdLogin, LoginRead, LoginProvider, LoginFind, LoginActivate,
       LoginRecheck, LogoutRequest, PrincipalRead, PrincipalReread, Deactivate, Revoke, idRows
  <2>7. ASSUME NEW p \in Process, IdRegister(p) \/ IdReset(p) PROVE UNCHANGED session \/ session' = DropsSessions
    BY <2>7 DEF IdRegister, RegisterClaim, RegisterBind, RegisterUnclaim, RegisterProvider, VerifyRead,
       VerifyActivate, IdReset, ResetRecover, ResetRevoke, ResetFinish, ResetChange, Revoke, idRows
  <2>8. QED
    BY <1>1, <2>1, <2>2, <2>6, <2>7 DEF IdNext, IdTick, ProviderVerify, IdAbandon, idVars, idRows
<1>2. QED
  BY <1>1, IdInvariant, PTL DEF IdSpec, ActivityMovesForward

-----------------------------------------------------------------------------
(* Passkeys *)

Challenge == [type : Ceremony, expiresAt : Nat, consumed : BOOLEAN]

\* A call record has the fields of the step it waits for.
OptionsCall == [pc : {"options"}, type : Ceremony]
VerifyCall == [pc : Ceremony, challenge : Nat, credential : Credential]
SignInCall == [pc : {"signIn"}, challenge : Nat]
PkCall == UNION {[pc : {"idle"}], OptionsCall, VerifyCall, SignInCall}

PkTypeOK ==
    /\ challenges \in Seq(Challenge)
    /\ passkeys \subseteq Credential
    /\ active \in BOOLEAN /\ hour \in Nat
    /\ outcomes \in Seq(Nat)
    /\ pkCall \in [Process -> PkCall]

\* A sign-in that is still to come has consumed its challenge for itself.
PkCallFacts(c) ==
    /\ c.pc \in Ceremony => c.challenge \in DOMAIN challenges
    /\ c.pc = "signIn" => /\ c.challenge \in DOMAIN challenges
                          /\ challenges[c.challenge].consumed
                          /\ \A i \in DOMAIN outcomes : outcomes[i] # c.challenge

OutcomeFacts ==
    /\ \A i \in DOMAIN outcomes : /\ outcomes[i] \in DOMAIN challenges
                                  /\ challenges[outcomes[i]].consumed
    /\ \A i, j \in DOMAIN outcomes : outcomes[i] = outcomes[j] => i = j

SignInsDiffer ==
    \A p, q \in Process :
        pkCall[p].pc = "signIn" /\ pkCall[q].pc = "signIn"
            /\ pkCall[p].challenge = pkCall[q].challenge => p = q

PkInv ==
    /\ PkTypeOK
    /\ OutcomeFacts
    /\ \A p \in Process : PkCallFacts(pkCall[p])
    /\ SignInsDiffer

-----------------------------------------------------------------------------
LEMMA PkCallFields ==
    ASSUME NEW c \in PkCall
    PROVE  /\ c.pc \in Ceremony => c \in VerifyCall
           /\ c.pc = "signIn" => c \in SignInCall
           /\ c.pc = "options" => c \in OptionsCall
BY DEF PkCall, OptionsCall, VerifyCall, SignInCall, Ceremony

\* A step of one request that keeps the others' facts, and whose own new facts
\* hold.
LEMMA PkCallStep ==
    ASSUME PkInv, NEW p \in Process, NEW c \in PkCall, PkGoto(p, c),
           \A q \in Process \ {p} : PkCallFacts(pkCall[q])
                => \A d \in PkCall : d = pkCall[q] => PkCallFacts(d)',
           PkCallFacts(c)',
           c.pc = "signIn" => \A q \in Process \ {p} :
                pkCall[q].pc = "signIn" => pkCall[q].challenge # c.challenge
    PROVE  /\ pkCall' \in [Process -> PkCall]
           /\ \A q \in Process : PkCallFacts(pkCall[q])'
           /\ SignInsDiffer'
<1>1. /\ pkCall' \in [Process -> PkCall]
      /\ pkCall'[p] = c
      /\ \A q \in Process \ {p} : pkCall'[q] = pkCall[q] /\ pkCall[q] \in PkCall
  BY DEF PkGoto, PkInv, PkTypeOK
<1>2. ASSUME NEW q \in Process PROVE PkCallFacts(pkCall[q])'
  <2>1. CASE q = p
    BY <1>1, <2>1 DEF PkCallFacts
  <2>2. CASE q # p
    <3>1. PICK d \in PkCall : d = pkCall[q]
      BY <1>1, <2>2
    <3>2. PkCallFacts(d)'
      BY <2>2, <3>1 DEF PkInv
    <3>3. QED
      BY <1>1, <2>2, <3>1, <3>2 DEF PkCallFacts
  <2>3. QED
    BY <2>1, <2>2
<1>3. SignInsDiffer'
  <2> SUFFICES ASSUME NEW q \in Process, NEW r \in Process,
                      pkCall'[q].pc = "signIn", pkCall'[r].pc = "signIn",
                      pkCall'[q].challenge = pkCall'[r].challenge
               PROVE  q = r
    BY DEF SignInsDiffer
  <2>1. QED
    BY <1>1 DEF SignInsDiffer, PkInv
<1>4. QED
  BY <1>1, <1>2, <1>3

LEMMA InitPkInv == PkInit => PkInv
<1> SUFFICES ASSUME PkInit PROVE PkInv
  OBVIOUS
<1>1. challenges = <<>> /\ outcomes = <<>> /\ \A p \in Process : pkCall[p] = [pc |-> "idle"]
  BY DEF PkInit, AllIdle, Idle
<1>2. PkTypeOK
  BY <1>1 DEF PkInit, PkTypeOK, AllIdle, Idle, PkCall
<1>3. (\A p \in Process : PkCallFacts(pkCall[p])) /\ SignInsDiffer /\ OutcomeFacts
  BY <1>1 DEF PkCallFacts, SignInsDiffer, OutcomeFacts, Ceremony
<1>4. QED
  BY <1>2, <1>3 DEF PkInv

LEMMA NextPkInv == PkInv /\ [PkNext]_pkVars => PkInv'
<1> SUFFICES ASSUME PkInv, [PkNext]_pkVars PROVE PkInv'
  OBVIOUS
<1> USE DEF PkInv
<1>1. ASSUME UNCHANGED <<challenges, passkeys, outcomes, pkCall>>, active' \in BOOLEAN, hour' \in Nat
      PROVE  PkInv'
  BY <1>1 DEF PkTypeOK, OutcomeFacts, PkCallFacts, SignInsDiffer
<1>2. ASSUME NEW p \in Process, NEW c \in PkCall, PkGoto(p, c), c.pc # "signIn",
             UNCHANGED <<challenges, passkeys, active, hour, outcomes>>,
             c.pc \in Ceremony => c.challenge \in DOMAIN challenges
      PROVE  PkInv'
  <2>1. PkCallFacts(c)'
    BY <1>2 DEF PkCallFacts
  <2>2. ASSUME NEW d \in PkCall, PkCallFacts(d) PROVE PkCallFacts(d)'
    BY <1>2, <2>2 DEF PkCallFacts
  <2>3. /\ pkCall' \in [Process -> PkCall]
        /\ \A q \in Process : PkCallFacts(pkCall[q])'
        /\ SignInsDiffer'
    BY <1>2, <2>1, <2>2, PkCallStep
  <2>4. PkTypeOK' /\ OutcomeFacts'
    BY <1>2, <2>3 DEF PkTypeOK, OutcomeFacts
  <2>5. QED
    BY <2>3, <2>4
<1>3. Idle \in PkCall /\ Idle.pc # "signIn" /\ Idle.pc \notin Ceremony
  BY DEF Idle, PkCall, Ceremony
<1>4. CASE PkTick \/ SwitchAdmin \/ UNCHANGED pkVars
  <2>1. CASE SwitchAdmin
    <3>1. active' \in BOOLEAN
      BY <2>1 DEF SwitchAdmin
    <3>2. QED
      BY <1>1, <2>1, <3>1 DEF SwitchAdmin, PkTypeOK
  <2>2. CASE PkTick \/ UNCHANGED pkVars
    BY <1>1, <2>2 DEF PkTick, pkVars, PkTypeOK
  <2>3. QED
    BY <1>4, <2>1, <2>2
<1>5. ASSUME NEW p \in Process, PkAbandon(p) PROVE PkInv'
  BY <1>2, <1>3, <1>5 DEF PkAbandon
<1>6. ASSUME NEW p \in Process, NEW type \in Ceremony, Options(p, type) PROVE PkInv'
  <2>1. PICK c : c = [pc |-> "options", type |-> type]
    OBVIOUS
  <2>2. c \in PkCall /\ c.pc # "signIn" /\ c.pc \notin Ceremony
    BY <2>1 DEF PkCall, OptionsCall, Ceremony
  <2>3. QED
    BY <1>2, <1>6, <2>1, <2>2 DEF Options
<1>7. ASSUME NEW p \in Process, NEW n \in DOMAIN challenges, NEW credential \in Credential,
             VerifyChallenge(p, n, credential)
      PROVE  PkInv'
  <2>1. challenges[n].type \in Ceremony /\ n \in Nat
    <3>1. challenges[n] \in Challenge /\ n \in 1 .. Len(challenges) /\ Len(challenges) \in Nat
      BY DEF PkTypeOK
    <3>2. QED
      BY <3>1 DEF Challenge
  <2>2. PICK c : c = [pc |-> challenges[n].type, challenge |-> n, credential |-> credential]
    OBVIOUS
  <2>3. c \in PkCall /\ c.pc # "signIn" /\ c.challenge \in DOMAIN challenges
    BY <2>1, <2>2 DEF PkCall, VerifyCall, Ceremony
  <2>4. QED
    BY <1>2, <1>7, <2>2, <2>3 DEF VerifyChallenge
<1>8. ASSUME NEW p \in Process, OptionsCreate(p) PROVE PkInv'
  <2>1. pkCall[p] \in OptionsCall
    BY <1>8, PkCallFields DEF OptionsCreate, PkTypeOK
  <2>2. PICK row \in Challenge : challenges' = Append(challenges, row)
    <3>1. hour + ChallengeTime \in Nat
      BY PasskeysAssumption DEF PkTypeOK
    <3>2. [type |-> pkCall[p].type, expiresAt |-> hour + ChallengeTime, consumed |-> FALSE] \in Challenge
      BY <2>1, <3>1 DEF OptionsCall, Challenge
    <3>3. QED
      BY <1>8, <3>2 DEF OptionsCreate
  <2>3. /\ challenges' \in Seq(Challenge)
        /\ \A n \in DOMAIN challenges : n \in DOMAIN challenges' /\ challenges'[n] = challenges[n]
    BY <2>2 DEF PkTypeOK
  <2>4. PkGoto(p, Idle) /\ UNCHANGED <<passkeys, active, hour, outcomes>>
    BY <1>8 DEF OptionsCreate
  <2>5. ASSUME NEW d \in PkCall, PkCallFacts(d) PROVE PkCallFacts(d)'
    BY <2>3, <2>4, <2>5 DEF PkCallFacts
  <2>6. PkCallFacts(Idle)'
    BY <1>3 DEF PkCallFacts
  <2>7. /\ pkCall' \in [Process -> PkCall]
        /\ \A q \in Process : PkCallFacts(pkCall[q])'
        /\ SignInsDiffer'
    BY <1>3, <2>4, <2>5, <2>6, PkCallStep
  <2>8. PkTypeOK'
    BY <2>3, <2>4, <2>7 DEF PkTypeOK
  <2>9. OutcomeFacts'
    BY <2>3, <2>4 DEF OutcomeFacts
  <2>10. QED
    BY <2>7, <2>8, <2>9
<1>9. ASSUME NEW p \in Process, Consume(p) PROVE PkInv'
  <2>1. pkCall[p] \in VerifyCall /\ pkCall[p].pc \in Ceremony /\ PkCallFacts(pkCall[p])
    BY <1>9, PkCallFields DEF Consume, PkTypeOK
  <2>2. PICK n \in DOMAIN challenges : n = pkCall[p].challenge
    BY <2>1 DEF PkCallFacts
  <2>3. /\ challenges' = [challenges EXCEPT ![n] = [challenges[n] EXCEPT !.consumed = TRUE]]
        /\ ~challenges[n].consumed
        /\ UNCHANGED <<active, hour>>
    BY <1>9, <2>2 DEF Consume, Consumes, StillOpen
  <2>4. challenges[n] \in Challenge /\ n \in Nat /\ n \in 1 .. Len(challenges) /\ Len(challenges) \in Nat
    BY DEF PkTypeOK
  <2>5. /\ challenges' \in Seq(Challenge)
        /\ DOMAIN challenges' = DOMAIN challenges
        /\ challenges'[n].consumed
        /\ \A m \in DOMAIN challenges : challenges[m].consumed => challenges'[m].consumed
    <3>1. PICK row : row = [challenges[n] EXCEPT !.consumed = TRUE]
      OBVIOUS
    <3>2. row \in Challenge
      BY <2>4, <3>1 DEF Challenge
    <3>3. row.consumed = TRUE
      BY <2>4, <3>1 DEF Challenge
    <3>4. challenges' = [challenges EXCEPT ![n] = row]
      BY <2>3, <3>1
    <3>5. challenges' \in Seq(Challenge) /\ DOMAIN challenges' = DOMAIN challenges
      BY <2>4, <3>2, <3>4 DEF PkTypeOK
    <3>6. challenges'[n] = row
      BY <3>4
    <3>7. \A m \in DOMAIN challenges : m # n => challenges'[m] = challenges[m]
      BY <3>4
    <3>8. challenges'[n].consumed
      BY <3>3, <3>6
    <3>9. QED
      BY <3>5, <3>7, <3>8
  <2>6. /\ \A i \in DOMAIN outcomes : outcomes[i] # n
        /\ \A q \in Process : pkCall[q].pc = "signIn" => pkCall[q].challenge # n
    BY <2>3 DEF OutcomeFacts, PkCallFacts
  <2>7. CASE pkCall[p].pc = "REGISTRATION"
    <3>1. /\ passkeys' = passkeys \union {pkCall[p].credential}
          /\ outcomes' = Append(outcomes, n)
          /\ PkGoto(p, Idle)
      BY <1>9, <2>2, <2>7 DEF Consume
    <3>2. /\ outcomes' \in Seq(Nat)
          /\ DOMAIN outcomes' = DOMAIN outcomes \union {Len(outcomes) + 1}
          /\ outcomes'[Len(outcomes) + 1] = n
          /\ \A i \in DOMAIN outcomes : outcomes'[i] = outcomes[i]
      BY <2>4, <3>1 DEF PkTypeOK
    <3>3. ASSUME NEW q \in Process \ {p}, PkCallFacts(pkCall[q]), NEW d \in PkCall, d = pkCall[q]
          PROVE  PkCallFacts(d)'
      BY <2>5, <2>6, <3>2, <3>3 DEF PkCallFacts
    <3>4. PkCallFacts(Idle)'
      BY <1>3 DEF PkCallFacts
    <3>5. /\ pkCall' \in [Process -> PkCall]
          /\ \A q \in Process : PkCallFacts(pkCall[q])'
          /\ SignInsDiffer'
      BY <1>3, <3>1, <3>3, <3>4, PkCallStep
    <3>6. PkTypeOK'
      BY <2>1, <2>3, <2>5, <3>1, <3>2, <3>5 DEF PkTypeOK, VerifyCall
    <3>7. OutcomeFacts'
      BY <2>5, <2>6, <3>2 DEF OutcomeFacts
    <3>8. QED
      BY <3>5, <3>6, <3>7
  <2>8. CASE pkCall[p].pc # "REGISTRATION"
    <3>1. PICK c : c = [pc |-> "signIn", challenge |-> n]
      OBVIOUS
    <3>2. c \in SignInCall /\ c.pc = "signIn" /\ c.challenge = n
      BY <2>4, <3>1 DEF SignInCall
    <3>3. PkGoto(p, c) /\ UNCHANGED <<passkeys, outcomes>>
      BY <1>9, <2>2, <2>8, <3>1 DEF Consume
    <3>4. ASSUME NEW q \in Process \ {p}, PkCallFacts(pkCall[q]), NEW d \in PkCall, d = pkCall[q]
          PROVE  PkCallFacts(d)'
      BY <2>5, <3>3, <3>4 DEF PkCallFacts
    <3>5. PkCallFacts(c)' /\ c \in PkCall
      BY <2>5, <2>6, <3>2, <3>3 DEF PkCallFacts, PkCall, Ceremony
    <3>6. /\ pkCall' \in [Process -> PkCall]
          /\ \A q \in Process : PkCallFacts(pkCall[q])'
          /\ SignInsDiffer'
      BY <2>6, <3>2, <3>3, <3>4, <3>5, PkCallStep
    <3>7. PkTypeOK' /\ OutcomeFacts'
      BY <2>3, <2>5, <3>3, <3>6 DEF PkTypeOK, OutcomeFacts
    <3>8. QED
      BY <3>6, <3>7
  <2>9. QED
    BY <2>7, <2>8
<1>10. ASSUME NEW p \in Process, SignIn(p) PROVE PkInv'
  <2>1. pkCall[p] \in SignInCall /\ pkCall[p].pc = "signIn" /\ PkCallFacts(pkCall[p])
    BY <1>10, PkCallFields DEF SignIn, PkTypeOK
  <2>2. PICK n \in Nat : n = pkCall[p].challenge
    BY <2>1 DEF SignInCall
  <2>3. /\ outcomes' = Append(outcomes, n) /\ PkGoto(p, Idle)
        /\ UNCHANGED <<challenges, passkeys, active, hour>>
    BY <1>10, <2>2 DEF SignIn
  <2>4. /\ outcomes' \in Seq(Nat)
        /\ DOMAIN outcomes' = DOMAIN outcomes \union {Len(outcomes) + 1}
        /\ outcomes'[Len(outcomes) + 1] = n
        /\ \A i \in DOMAIN outcomes : outcomes'[i] = outcomes[i]
    BY <2>3 DEF PkTypeOK
  <2>5. /\ n \in DOMAIN challenges /\ challenges[n].consumed
        /\ \A i \in DOMAIN outcomes : outcomes[i] # n
    BY <2>1, <2>2 DEF PkCallFacts
  <2>6. \A q \in Process \ {p} : pkCall[q].pc = "signIn" => pkCall[q].challenge # n
    BY <2>1, <2>2 DEF SignInsDiffer
  <2>7. ASSUME NEW q \in Process \ {p}, PkCallFacts(pkCall[q]), NEW d \in PkCall, d = pkCall[q]
        PROVE  PkCallFacts(d)'
    BY <2>3, <2>4, <2>6, <2>7 DEF PkCallFacts
  <2>8. PkCallFacts(Idle)'
    BY <1>3 DEF PkCallFacts
  <2>9. /\ pkCall' \in [Process -> PkCall]
        /\ \A q \in Process : PkCallFacts(pkCall[q])'
        /\ SignInsDiffer'
    BY <1>3, <2>3, <2>7, <2>8, PkCallStep
  <2>10. PkTypeOK'
    BY <2>3, <2>4, <2>9 DEF PkTypeOK
  <2>11. OutcomeFacts'
    BY <2>3, <2>4, <2>5 DEF OutcomeFacts
  <2>12. QED
    BY <2>9, <2>10, <2>11
<1>11. QED
  BY <1>4, <1>5, <1>6, <1>7, <1>8, <1>9, <1>10 DEF PkNext

\* However many requests answer a challenge at once, it registers one passkey
\* or opens one session at most: only one transaction consumes it.
THEOREM ChallengesServeOnce == PkSpec => []ChallengeServesOnce
<1>1. PkInv => ChallengeServesOnce
  BY DEF PkInv, OutcomeFacts, ChallengeServesOnce
<1>2. QED
  BY <1>1, InitPkInv, NextPkInv, PTL DEF PkSpec
=============================================================================
