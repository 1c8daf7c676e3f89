----------------------------- MODULE Promotions -----------------------------
(***************************************************************************)
(* PromotionalContentService with the screen AdminPromotions.  Promotions  *)
(* are edited on cards filled from a list read earlier; promotional        *)
(* content is generated by a provider and then reviewed.  Requests come    *)
(* from several administrators, whatever their screens show.               *)
(***************************************************************************)
EXTENDS Server, FiniteSets

CONSTANTS
    PromotionId, PromoCode,
    Rule,               \* a non-empty eligibility
    Content,
    NoValue,
    MaxGenerations      \* bound: provider calls for one content

ASSUME PromotionsAssumption ==
    /\ MaxGenerations \in Nat
    /\ NoValue \notin [status : {"DRAFT", "GENERATED", "PREVIEW", "FAILED", "APPROVED", "REJECTED"}, of : Nat]

Everyone == "{}"                            \* the eligibility of the schema's default
Eligibility == {Everyone, Rule}

VARIABLES
    promotion,  \* promotion[m]: code, active and eligibility, or NoValue
    given,      \* given[m]: the eligibility somebody last asked for
    card,       \* card[m]: the form of m on an open screen, or NoValue
    content,    \* content[c]: status and generation of its preview, or NoValue
    claims,     \* claims[c]: times c was claimed for generation
    job         \* job[p]: the generation that p is serving

pmRows == <<promotion, given>>
pmContent == <<content, claims, job>>
pmVars == <<pmRows, card, pmContent>>

PmInit ==
    /\ promotion = [m \in PromotionId |-> NoValue] /\ given = [m \in PromotionId |-> NoValue]
    /\ card = [m \in PromotionId |-> NoValue]
    /\ content = [c \in Content |-> NoValue] /\ claims = [c \in Content |-> 0]
    /\ job = AllIdle

-----------------------------------------------------------------------------
(* Promotions *)

\* The unique index on the code.
CodeFree(m, code) == \A n \in PromotionId \ {m} : promotion[n] # NoValue => promotion[n].code # code

\* An input without an eligibility stores the default.
Written(code, live, rule) ==
    [code |-> code, active |-> live, eligibility |-> IF rule = NoValue THEN Everyone ELSE rule]

\* The route's callers may name an eligibility, and ask for the default by
\* leaving it out; the screen's forms have no such field.
CreatePromotion(m, code, live, rule) ==
    /\ promotion[m] = NoValue /\ CodeFree(m, code)
    /\ promotion' = [promotion EXCEPT ![m] = Written(code, live, rule)]
    /\ given' = [given EXCEPT ![m] = promotion'[m].eligibility]
    /\ UNCHANGED <<card, pmContent>>

Updates(m, code, live, rule) ==
    /\ promotion[m] # NoValue /\ CodeFree(m, code)
    /\ promotion' = [promotion EXCEPT ![m] = Written(code, live, rule)]

UpdatePromotion(m, code, live, rule) ==
    /\ Updates(m, code, live, rule)
    /\ given' = [given EXCEPT ![m] = promotion'[m].eligibility]
    /\ UNCHANGED <<card, pmContent>>

\* A list is read: every card starts from its row.
CardsOpen ==
    /\ card' = [m \in PromotionId |-> IF promotion[m] = NoValue THEN NoValue
                                      ELSE [code |-> promotion[m].code, active |-> promotion[m].active]]
    /\ UNCHANGED <<pmRows, pmContent>>

\* Save promotion: the form with the active box as the administrator left it.
\* Whatever the answer the screen reloads.
SaveCard(m, live) ==
    /\ card[m] # NoValue
    /\ Updates(m, card[m].code, live, NoValue)
    /\ card' = [n \in PromotionId |-> NoValue]
    /\ UNCHANGED <<given, pmContent>>

\* isPromotionEligible, for an hour between its dates and its currency.
IsPromotionEligible(r) == r.active /\ r.eligibility = Everyone

-----------------------------------------------------------------------------
(* Promotional content *)

CreateContent(c) ==
    /\ content[c] = NoValue
    /\ content' = [content EXCEPT ![c] = [status |-> "DRAFT", of |-> 0]]
    /\ UNCHANGED <<pmRows, card, claims, job>>

\* Mutant: a content being generated may be claimed again.
ClaimableAgain(s) == s \in {"DRAFT", "FAILED", "GENERATED"}

Claimable(s) == s \in {"DRAFT", "FAILED"}

\* The read before the claim only serves the title and brief, which never change.
ClaimContent(p, c) ==
    /\ job[p] = Idle /\ content[c] # NoValue /\ Claimable(content[c].status)
    /\ claims[c] < MaxGenerations
    /\ claims' = [claims EXCEPT ![c] = @ + 1]
    /\ content' = [content EXCEPT ![c] = [@ EXCEPT !.status = "GENERATED"]]
    /\ job' = [job EXCEPT ![p] = [pc |-> "provider", of |-> c, claim |-> claims[c] + 1]]
    /\ UNCHANGED <<pmRows, card>>

\* The provider answers with a valid preview, or fails, or answers malformed.
ProviderAnswers(p, valid) ==
    /\ job[p].pc = "provider"
    /\ job' = [job EXCEPT ![p] = [@ EXCEPT !.pc = IF valid THEN "preview" ELSE "failed"]]
    /\ UNCHANGED <<pmRows, card, content, claims>>

StillGenerated(c) == content[c].status = "GENERATED"

\* A failed write of the preview, committed or not, falls through to FAILED.
StorePreview(p, committed, failed) ==
    LET c == job[p].of IN
    /\ job[p].pc = "preview" /\ (committed \/ failed)
    /\ content' = IF committed /\ StillGenerated(c)
                  THEN [content EXCEPT ![c] = [status |-> "PREVIEW", of |-> job[p].claim]] ELSE content
    /\ job' = [job EXCEPT ![p] = IF failed THEN [@ EXCEPT !.pc = "failed"] ELSE Idle]
    /\ UNCHANGED <<pmRows, card, claims>>

StoreFailure(p) ==
    LET c == job[p].of IN
    /\ job[p].pc = "failed"
    /\ content' = IF StillGenerated(c) THEN [content EXCEPT ![c] = [@ EXCEPT !.status = "FAILED"]] ELSE content
    /\ job' = [job EXCEPT ![p] = Idle]
    /\ UNCHANGED <<pmRows, card, claims>>

\* The process ends, or its last write fails: the content stays as it is.
JobLost(p) ==
    /\ job[p] # Idle
    /\ job' = [job EXCEPT ![p] = Idle]
    /\ UNCHANGED <<pmRows, card, content, claims>>

ReviewClaims(c) == content[c].status = "PREVIEW"

ReviewContent(c, status) ==
    /\ content[c] # NoValue /\ ReviewClaims(c)
    /\ content' = [content EXCEPT ![c] = [@ EXCEPT !.status = status]]
    /\ UNCHANGED <<pmRows, card, claims, job>>

PmNext ==
    \/ CardsOpen
    \/ \E m \in PromotionId, live \in BOOLEAN :
            \/ SaveCard(m, live)
            \/ \E code \in PromoCode, rule \in Eligibility \union {NoValue} :
                    \/ CreatePromotion(m, code, live, rule)
                    \/ UpdatePromotion(m, code, live, rule)
    \/ \E c \in Content :
            \/ CreateContent(c)
            \/ \E status \in {"APPROVED", "REJECTED"} : ReviewContent(c, status)
    \/ \E p \in Process :
            \/ StoreFailure(p) \/ JobLost(p)
            \/ \E c \in Content : ClaimContent(p, c)
            \/ \E valid \in BOOLEAN : ProviderAnswers(p, valid)
            \/ \E committed, failed \in BOOLEAN : StorePreview(p, committed, failed)

PmSpec == PmInit /\ [][PmNext]_pmVars

-----------------------------------------------------------------------------
\* The provider works on at most one generation of a content, through retries,
\* failed writes and lost processes, and a preview is of the last generation:
\* no earlier generation can replace what an administrator is looking at.
OneGeneration ==
    \A c \in Content :
        /\ Cardinality({p \in Process : job[p] # Idle /\ job[p].of = c /\ job[p].pc = "provider"}) <= 1
        /\ content[c] # NoValue /\ content[c].status = "PREVIEW" => content[c].of = claims[c]

\* What an administrator approved or rejected stays as it was reviewed.
ReviewIsFinal ==
    [][\A c \in Content : content[c] # NoValue /\ content[c].status \in {"APPROVED", "REJECTED"} =>
            content'[c] = content[c]]_pmVars

\* "Unknown rules fail closed" (src/modules/commerce/promotion.ts:17): a code
\* given a rule is closed to everyone until somebody gives it another.
UnknownRulesFailClosed ==
    \A m \in PromotionId : promotion[m] # NoValue /\ given[m] = Rule => ~IsPromotionEligible(promotion[m])
=============================================================================
