------------------------------ MODULE Profile -------------------------------
(***************************************************************************)
(* ProfileService for one customer with several tabs, each a process that  *)
(* submits forms with the revision it was shown last.  Every answer loads  *)
(* the customer row and then the fragrance profile; a mutation claims its  *)
(* form's revision and then answers with a new load.                       *)
(***************************************************************************)
EXTENDS Server

CONSTANTS
    Address,
    Taste,          \* preferences with a note or an intensity
    Unset,          \* no address, no preferences, no identity
    MaxProfile      \* bound: the customer's revision

ASSUME ProfileAssumption == Unset \notin Address \union Taste /\ MaxProfile \in Nat

VARIABLES
    customer,   \* its row and addresses
    profile,    \* exists: its FragranceProfile; taste; identity: made from, stale
    seen,       \* seen[p]: the profile that tab p was shown last, or Unset
    pfCall      \* pfCall[p]: the request that p is serving

pfRows == <<customer, profile, seen>>
pfVars == <<pfRows, pfCall>>

Form ==
    [kind : {"update"}, taste : Taste \union {Unset}]
        \union [kind : {"delivery", "billing"}, address : Address]
        \union [kind : {"useDelivery", "generate"}]

PfGoto(p, c) == pfCall' = [pfCall EXCEPT ![p] = c]

-----------------------------------------------------------------------------
\* The customer row that mutate's updateMany may change.
ClaimsProfile(revision) == customer.active /\ customer.revision = revision

\* Mutant: preferences change without marking the identity.
KeepsIdentity(identity) == identity

Stale(identity) == IF identity = Unset THEN Unset ELSE [identity EXCEPT !.stale = TRUE]

\* revision: { increment: 1 }.
NextRevision == customer.revision + 1

\* What update, setBillingAddress and generateIdentity require of the load.
Fits(form, addresses, loaded) ==
    /\ form.kind = "useDelivery" => addresses.delivery # Unset
    /\ form.kind = "generate" => loaded.taste # Unset

-----------------------------------------------------------------------------
\* A new customer, or one who returns with preferences; revisions count from here.
PfInit ==
    /\ customer = [active |-> TRUE, revision |-> 1, delivery |-> Unset, billing |-> Unset, same |-> TRUE]
    /\ profile \in [exists : {TRUE}, taste : Taste, identity : {Unset}]
                       \union {[exists |-> FALSE, taste |-> Unset, identity |-> Unset]}
    /\ seen = [p \in Process |-> Unset]
    /\ pfCall = AllIdle

\* IdentityService.deactivate.
PfDeactivate == customer.active /\ customer' = [customer EXCEPT !.active = FALSE] /\ UNCHANGED <<profile, seen, pfCall>>

PfAbandon(p) == pfCall[p] # Idle /\ PfGoto(p, Idle) /\ UNCHANGED pfRows

\* ensure's first load makes the profile; a tab that lost this race fails.
LoadStart(p, next) ==
    /\ customer.active
    /\ profile' = [profile EXCEPT !.exists = TRUE]
    /\ PfGoto(p, next)
    /\ UNCHANGED <<customer, seen>>

GetProfile(p) == pfCall[p] = Idle /\ LoadStart(p, [pc |-> "customer"])

Submit(p, form) ==
    /\ pfCall[p] = Idle /\ seen[p] # Unset
    /\ LoadStart(p, [pc |-> "customer", form |-> form, revision |-> seen[p].customer.revision])

LoadCustomer(p) ==
    LET c == pfCall[p] IN
    /\ c.pc = "customer"
    /\ PfGoto(p, IF "form" \notin DOMAIN c THEN [pc |-> "profile", customer |-> customer]
                 ELSE [pc |-> "profile", form |-> c.form, revision |-> c.revision, customer |-> customer])
    /\ UNCHANGED pfRows

\* The second read: what is shown, or what the mutation is checked against.
LoadProfile(p) ==
    LET c == pfCall[p] IN
    /\ c.pc = "profile"
    /\ IF "form" \notin DOMAIN c
       THEN seen' = [seen EXCEPT ![p] = [customer |-> c.customer, profile |-> profile]] /\ PfGoto(p, Idle)
       ELSE /\ c.customer.revision = c.revision /\ Fits(c.form, c.customer, profile)
            /\ PfGoto(p, [pc |-> "mutate", form |-> c.form, revision |-> c.revision, taste |-> profile.taste])
            /\ UNCHANGED seen
    /\ UNCHANGED <<customer, profile>>

\* mutate: the claim and the writes of the form, in one transaction.
Mutate(p) ==
    LET f == pfCall[p].form
        claimed == [customer EXCEPT !.revision = NextRevision]
    IN
    /\ pfCall[p].pc = "mutate"
    /\ ClaimsProfile(pfCall[p].revision) /\ customer.revision < MaxProfile
    /\ customer' =
        CASE f.kind = "delivery" -> [claimed EXCEPT !.delivery = f.address]
          [] f.kind = "billing" -> [claimed EXCEPT !.billing = f.address, !.same = FALSE]
          [] f.kind = "useDelivery" -> [claimed EXCEPT !.billing = Unset, !.same = TRUE]
          [] OTHER -> claimed
    /\ profile' =
        CASE f.kind = "update" -> [profile EXCEPT !.taste = f.taste, !.identity = Stale(@)]
          [] f.kind = "generate" ->
                [profile EXCEPT !.identity = [from |-> pfCall[p].taste, stale |-> FALSE]]
          [] OTHER -> profile
    /\ PfGoto(p, [pc |-> "customer"])
    /\ UNCHANGED seen

PfNext ==
    \/ PfDeactivate
    \/ \E p \in Process :
        \/ PfAbandon(p) \/ GetProfile(p) \/ LoadCustomer(p) \/ LoadProfile(p) \/ Mutate(p)
        \/ \E form \in Form : Submit(p, form)

PfSpec == PfInit /\ [][PfNext]_pfVars

-----------------------------------------------------------------------------
\* A fragrance identity that is not marked stale was made from the preferences
\* the customer has now (README: Preference changes mark an existing identity stale).
CurrentIdentityFits ==
    profile.identity # Unset /\ ~profile.identity.stale => profile.identity.from = profile.taste
=============================================================================
