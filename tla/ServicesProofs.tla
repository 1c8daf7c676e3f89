--------------------------- MODULE ServicesProofs ---------------------------
(***************************************************************************)
(* What is proved of the services that administrators and customers use    *)
(* side by side: Promotions, Catalogue, Profile, Support, Discovery and    *)
(* Reviews, for every number of requests, screens and rows.                *)
(***************************************************************************)
EXTENDS Promotions, Catalogue, Profile, Support, Discovery, Reviews, FiniteSetTheorems, TLAPS

-----------------------------------------------------------------------------
(* Promotional content *)

Status == {"DRAFT", "GENERATED", "PREVIEW", "FAILED", "APPROVED", "REJECTED"}
ContentRow == [status : Status, of : Nat]
Work == [pc : {"provider", "preview", "failed"}, of : Content, claim : Nat]
Job == [pc : {"idle"}] \union Work

PmTypeOK ==
    /\ content \in [Content -> ContentRow \union {NoValue}]
    /\ claims \in [Content -> Nat]
    /\ job \in [Process -> Job]

\* Whoever works on a content has claimed it last, and nobody can claim it
\* until that work ends.
WorkFacts(w) ==
    w \in Work => /\ content[w.of] \in ContentRow
                  /\ ~Claimable(content[w.of].status)
                  /\ w.claim = claims[w.of]

OneWorker ==
    \A p, q \in Process :
        job[p] \in Work /\ job[q] \in Work /\ job[p].of = job[q].of => p = q

PreviewIsLast(c) ==
    content[c] \in ContentRow /\ content[c].status = "PREVIEW" => content[c].of = claims[c]

PmInv ==
    /\ PmTypeOK
    /\ \A p \in Process : WorkFacts(job[p])
    /\ OneWorker
    /\ \A c \in Content : PreviewIsLast(c)

-----------------------------------------------------------------------------
LEMMA RowOrNone ==
    ASSUME PmTypeOK, NEW c \in Content
    PROVE  content[c] # NoValue <=> content[c] \in ContentRow
BY PromotionsAssumption DEF PmTypeOK, ContentRow, Status

LEMMA JobFields ==
    ASSUME NEW w \in Job
    PROVE  /\ w \in Work <=> w.pc # "idle"
           /\ w # Idle => w \in Work
           /\ Idle \notin Work /\ Idle \in Job
BY DEF Job, Work, Idle

\* A job that changes alone: the others keep their work, and the contents and
\* claims are as they were.
LEMMA JobStep ==
    ASSUME PmInv, NEW p \in Process, NEW w \in Job,
           job' = [job EXCEPT ![p] = w],
           w \in Work => job[p] \in Work /\ w.of = job[p].of /\ w.claim = job[p].claim,
           UNCHANGED <<content, claims>>
    PROVE  PmInv'
<1>1. PmTypeOK'
  BY DEF PmInv, PmTypeOK
<1>2. /\ job'[p] = w
      /\ \A q \in Process \ {p} : job'[q] = job[q]
  BY DEF PmInv, PmTypeOK
<1>3. ASSUME NEW q \in Process PROVE WorkFacts(job[q])'
  BY <1>2 DEF PmInv, WorkFacts
<1>4. OneWorker'
  BY <1>2 DEF PmInv, OneWorker
<1>5. ASSUME NEW c \in Content PROVE PreviewIsLast(c)'
  BY DEF PmInv, PreviewIsLast
<1>6. QED
  BY <1>1, <1>3, <1>4, <1>5 DEF PmInv

\* A content that changes while claims and jobs stay: its worker, if any, still
\* keeps others out.
LEMMA ContentStep ==
    ASSUME PmInv, NEW c \in Content, NEW r \in ContentRow,
           content' = [content EXCEPT ![c] = r],
           UNCHANGED claims,
           job' \in [Process -> Job],
           \A q \in Process : job'[q] \in Work =>
                /\ job[q] \in Work /\ job'[q].of = job[q].of /\ job'[q].claim = job[q].claim
                /\ job'[q].of = c => ~Claimable(r.status),
           r.status = "PREVIEW" => r.of = claims[c]
    PROVE  PmInv'
<1>1. /\ content'[c] = r
      /\ \A d \in Content \ {c} : content'[d] = content[d]
  BY DEF PmInv, PmTypeOK
<1>2. PmTypeOK'
  BY DEF PmInv, PmTypeOK
<1>3. ASSUME NEW q \in Process, NEW w \in Job, w = job'[q] PROVE WorkFacts(w)'
  <2>1. CASE w \notin Work
    BY <2>1 DEF WorkFacts
  <2>2. CASE w \in Work
    <3>1. /\ job[q] \in Work /\ w.of = job[q].of /\ w.claim = job[q].claim
          /\ w.of = c => ~Claimable(r.status)
          /\ w.of \in Content
      BY <1>3, <2>2 DEF Work
    <3>2. /\ content[w.of] \in ContentRow /\ ~Claimable(content[w.of].status)
          /\ w.claim = claims[w.of]
      BY <3>1 DEF PmInv, WorkFacts
    <3>3. QED
      BY <1>1, <3>1, <3>2 DEF WorkFacts, Claimable
  <2>3. QED
    BY <2>1, <2>2
<1>4. ASSUME NEW q \in Process PROVE WorkFacts(job[q])'
  <2>1. PICK w \in Job : w = job'[q]
    OBVIOUS
  <2>2. WorkFacts(w)'
    BY <1>3, <2>1
  <2>3. QED
    BY <2>1, <2>2 DEF WorkFacts
<1>5. OneWorker'
  BY DEF PmInv, OneWorker
<1>6. ASSUME NEW d \in Content PROVE PreviewIsLast(d)'
  BY <1>1 DEF PmInv, PreviewIsLast
<1>7. QED
  BY <1>2, <1>4, <1>5, <1>6 DEF PmInv

-----------------------------------------------------------------------------
LEMMA PmInitHolds == PmInit => PmInv
<1> SUFFICES ASSUME PmInit PROVE PmInv
  OBVIOUS
<1>1. NoValue \notin ContentRow
  BY PromotionsAssumption DEF ContentRow, Status
<1>2. /\ \A c \in Content : content[c] = NoValue
      /\ \A p \in Process : job[p] = Idle
      /\ Idle \in Job /\ Idle \notin Work
  BY DEF PmInit, AllIdle, Job, Work, Idle
<1>3. PmTypeOK
  BY <1>2 DEF PmInit, PmTypeOK, AllIdle
<1>4. QED
  BY <1>1, <1>2, <1>3 DEF PmInv, WorkFacts, OneWorker, PreviewIsLast

LEMMA ContentRowsStep ==
    ASSUME PmInv, UNCHANGED pmContent
    PROVE  PmInv'
BY DEF PmInv, PmTypeOK, WorkFacts, OneWorker, PreviewIsLast, pmContent

LEMMA CreateContentHolds ==
    ASSUME PmInv, NEW c \in Content, CreateContent(c)
    PROVE  PmInv'
<1>1. PICK r \in ContentRow : r = [status |-> "DRAFT", of |-> 0]
  BY DEF ContentRow, Status
<1>2. content' = [content EXCEPT ![c] = r] /\ UNCHANGED <<claims, job>> /\ r.status # "PREVIEW"
  BY <1>1 DEF CreateContent
<1>3. ASSUME NEW q \in Process, job'[q] \in Work PROVE job'[q].of # c
  <2>1. content[c] \notin ContentRow
    BY RowOrNone DEF CreateContent, PmInv
  <2>2. QED
    BY <1>2, <1>3, <2>1 DEF PmInv, WorkFacts
<1>4. job' \in [Process -> Job]
  BY <1>2 DEF PmInv, PmTypeOK
<1>5. QED
  BY <1>2, <1>3, <1>4, ContentStep

LEMMA ReviewHolds ==
    ASSUME PmInv, NEW c \in Content, NEW status \in {"APPROVED", "REJECTED"}, ReviewContent(c, status)
    PROVE  PmInv'
<1>1. content[c] \in ContentRow
  BY RowOrNone DEF ReviewContent, PmInv
<1>2. PICK r \in ContentRow : r = [content[c] EXCEPT !.status = status]
  BY <1>1 DEF ContentRow, Status
<1>3. r.status = status
  BY <1>1, <1>2 DEF ContentRow
<1>4. content' = [content EXCEPT ![c] = r] /\ UNCHANGED <<claims, job>>
  BY <1>2 DEF ReviewContent
<1>5. job' \in [Process -> Job] /\ ~Claimable(r.status) /\ r.status # "PREVIEW"
  BY <1>3, <1>4 DEF PmInv, PmTypeOK, Claimable
<1>6. QED
  BY <1>4, <1>5, ContentStep

LEMMA ClaimHolds ==
    ASSUME PmInv, NEW p \in Process, NEW c \in Content, ClaimContent(p, c)
    PROVE  PmInv'
<1>1. content[c] \in ContentRow /\ Claimable(content[c].status) /\ job[p] = Idle /\ claims[c] \in Nat
  BY RowOrNone DEF ClaimContent, PmInv, PmTypeOK
<1>2. PICK r \in ContentRow : r = [content[c] EXCEPT !.status = "GENERATED"]
  BY <1>1 DEF ContentRow, Status
<1>3. r.status = "GENERATED"
  BY <1>1, <1>2 DEF ContentRow
<1>4. PICK w \in Work : w = [pc |-> "provider", of |-> c, claim |-> claims[c] + 1]
  <2>1. claims[c] + 1 \in Nat
    BY <1>1
  <2>2. [pc |-> "provider", of |-> c, claim |-> claims[c] + 1] \in Work
    BY <2>1 DEF Work
  <2>3. QED
    BY <2>2
<1>5. w.of = c /\ w.claim = claims[c] + 1 /\ w \in Job
  BY <1>4 DEF Job
<1>6. /\ content' = [content EXCEPT ![c] = r]
      /\ claims' = [claims EXCEPT ![c] = claims[c] + 1]
      /\ job' = [job EXCEPT ![p] = w]
  BY <1>2, <1>4 DEF ClaimContent
<1>7. /\ content'[c] = r /\ claims'[c] = claims[c] + 1 /\ job'[p] = w
      /\ \A d \in Content \ {c} : content'[d] = content[d] /\ claims'[d] = claims[d]
      /\ \A q \in Process \ {p} : job'[q] = job[q]
  BY <1>6 DEF PmInv, PmTypeOK
<1>8. PmTypeOK'
  BY <1>1, <1>5, <1>6 DEF PmInv, PmTypeOK
<1>9. \A q \in Process : job[q] \in Work => job[q].of \in Content /\ job[q].of # c
  BY <1>1 DEF PmInv, WorkFacts, Work
<1>10. ASSUME NEW q \in Process PROVE WorkFacts(job[q])'
  <2>1. CASE q = p
    BY <1>3, <1>5, <1>7, <2>1 DEF WorkFacts, Claimable
  <2>2. CASE q # p
    <3>1. PICK v \in Job : v = job[q]
      BY DEF PmInv, PmTypeOK
    <3>2. v \in Work => content'[v.of] = content[v.of] /\ claims'[v.of] = claims[v.of]
      BY <1>7, <1>9, <3>1
    <3>3. WorkFacts(v)'
      BY <3>1, <3>2 DEF PmInv, WorkFacts
    <3>4. QED
      BY <1>7, <2>2, <3>1, <3>3 DEF WorkFacts
  <2>3. QED
    BY <2>1, <2>2
<1>11. OneWorker'
  BY <1>5, <1>7, <1>9 DEF PmInv, OneWorker
<1>12. ASSUME NEW d \in Content PROVE PreviewIsLast(d)'
  BY <1>3, <1>7 DEF PmInv, PreviewIsLast
<1>13. QED
  BY <1>8, <1>10, <1>11, <1>12 DEF PmInv

LEMMA AnswerHolds ==
    ASSUME PmInv, NEW p \in Process, NEW valid \in BOOLEAN, ProviderAnswers(p, valid)
    PROVE  PmInv'
<1>1. job[p] \in Work
  BY JobFields DEF ProviderAnswers, PmInv, PmTypeOK
<1>2. PICK step \in {"preview", "failed"} : step = IF valid THEN "preview" ELSE "failed"
  OBVIOUS
<1>3. PICK w \in Work : w = [job[p] EXCEPT !.pc = step]
  BY <1>1 DEF Work
<1>4. w \in Job /\ w.of = job[p].of /\ w.claim = job[p].claim
  BY <1>1, <1>3 DEF Work, Job
<1>5. job' = [job EXCEPT ![p] = w] /\ UNCHANGED <<content, claims>>
  BY <1>2, <1>3 DEF ProviderAnswers
<1>6. QED
  BY <1>1, <1>4, <1>5, JobStep

LEMMA StoreHolds ==
    ASSUME PmInv, NEW p \in Process, NEW committed \in BOOLEAN, NEW failed \in BOOLEAN,
           StorePreview(p, committed, failed)
    PROVE  PmInv'
<1>1. job[p] \in Work /\ job[p].of \in Content /\ job[p].claim = claims[job[p].of]
  BY JobFields DEF StorePreview, PmInv, PmTypeOK, WorkFacts, Work
<1>2. PICK w \in Job :
        /\ w = IF failed THEN [job[p] EXCEPT !.pc = "failed"] ELSE Idle
        /\ w \in Work => w.of = job[p].of /\ w.claim = job[p].claim
  <2>1. CASE failed
    <3>1. PICK v : v = [job[p] EXCEPT !.pc = "failed"]
      OBVIOUS
    <3>2. v \in Work /\ v.of = job[p].of /\ v.claim = job[p].claim
      BY <1>1, <3>1 DEF Work
    <3>3. QED
      BY <2>1, <3>1, <3>2 DEF Job
  <2>2. CASE ~failed
    BY <1>1, <2>2, JobFields DEF Job
  <2>3. QED
    BY <2>1, <2>2
<1>3. job' = [job EXCEPT ![p] = w] /\ UNCHANGED claims
  BY <1>2 DEF StorePreview
<1>4. CASE ~(committed /\ StillGenerated(job[p].of))
  <2>1. UNCHANGED content
    BY <1>4 DEF StorePreview
  <2>2. QED
    BY <1>1, <1>2, <1>3, <2>1, JobStep
<1>5. CASE committed /\ StillGenerated(job[p].of)
  <2>1. PICK c \in Content : c = job[p].of
    BY <1>1
  <2>2. PICK r \in ContentRow : r = [status |-> "PREVIEW", of |-> claims[c]]
    BY <2>1 DEF ContentRow, Status, PmInv, PmTypeOK
  <2>3. /\ content' = [content EXCEPT ![c] = r]
        /\ r.status = "PREVIEW" /\ r.of = claims[c] /\ ~Claimable(r.status)
    BY <1>1, <1>5, <2>1, <2>2 DEF StorePreview, Claimable
  <2>4. /\ job' \in [Process -> Job]
        /\ \A q \in Process : job'[q] \in Work =>
                job[q] \in Work /\ job'[q].of = job[q].of /\ job'[q].claim = job[q].claim
    BY <1>1, <1>2, <1>3 DEF PmInv, PmTypeOK
  <2>5. QED
    BY <1>3, <2>3, <2>4, ContentStep
<1>6. QED
  BY <1>4, <1>5

LEMMA FailureHolds ==
    ASSUME PmInv, NEW p \in Process, StoreFailure(p)
    PROVE  PmInv'
<1>1. /\ job[p] \in Work /\ job[p].of \in Content /\ content[job[p].of] \in ContentRow
      /\ Idle \in Job /\ Idle \notin Work
  BY JobFields DEF StoreFailure, PmInv, PmTypeOK, WorkFacts, Work
<1>2. job' = [job EXCEPT ![p] = Idle] /\ UNCHANGED claims
  BY DEF StoreFailure
<1>3. CASE ~StillGenerated(job[p].of)
  <2>1. UNCHANGED content
    BY <1>3 DEF StoreFailure
  <2>2. QED
    BY <1>1, <1>2, <2>1, JobStep
<1>4. CASE StillGenerated(job[p].of)
  <2>1. PICK c \in Content : c = job[p].of
    BY <1>1
  <2>2. PICK r \in ContentRow : r = [content[c] EXCEPT !.status = "FAILED"]
    BY <1>1, <2>1 DEF ContentRow, Status
  <2>3. r.status = "FAILED" /\ content' = [content EXCEPT ![c] = r]
    BY <1>1, <1>4, <2>1, <2>2 DEF StoreFailure, ContentRow
  <2>4. /\ job' \in [Process -> Job]
        /\ \A q \in Process : job'[q] \in Work => job[q] \in Work /\ job'[q] = job[q] /\ q # p
    BY <1>1, <1>2 DEF PmInv, PmTypeOK
  <2>5. \A q \in Process : job'[q] \in Work => job'[q].of # c
    BY <1>1, <2>1, <2>4 DEF PmInv, OneWorker
  <2>6. QED
    BY <1>2, <2>3, <2>4, <2>5, ContentStep
<1>5. QED
  BY <1>3, <1>4

LEMMA LostHolds ==
    ASSUME PmInv, NEW p \in Process, JobLost(p)
    PROVE  PmInv'
<1>1. Idle \in Job /\ Idle \notin Work
  BY DEF Job, Work, Idle
<1>2. job' = [job EXCEPT ![p] = Idle] /\ UNCHANGED <<content, claims>>
  BY DEF JobLost
<1>3. QED
  BY <1>1, <1>2, JobStep

LEMMA PmNextHolds ==
    ASSUME PmInv, [PmNext]_pmVars
    PROVE  PmInv'
<1>1. CASE \E p \in Process :
            \/ StoreFailure(p) \/ JobLost(p)
            \/ \E c \in Content : ClaimContent(p, c)
            \/ \E valid \in BOOLEAN : ProviderAnswers(p, valid)
            \/ \E committed, failed \in BOOLEAN : StorePreview(p, committed, failed)
  BY <1>1, FailureHolds, LostHolds, ClaimHolds, AnswerHolds, StoreHolds
<1>2. CASE \E c \in Content :
            \/ CreateContent(c)
            \/ \E status \in {"APPROVED", "REJECTED"} : ReviewContent(c, status)
  BY <1>2, CreateContentHolds, ReviewHolds
<1>3. CASE CardsOpen \/ UNCHANGED pmVars
  BY <1>3, ContentRowsStep DEF CardsOpen, pmVars
<1>4. ASSUME NEW m \in PromotionId, NEW isLive \in BOOLEAN,
             \/ SaveCard(m, isLive)
             \/ \E code \in PromoCode, rule \in Eligibility \union {NoValue} :
                    CreatePromotion(m, code, isLive, rule) \/ UpdatePromotion(m, code, isLive, rule)
      PROVE  PmInv'
  BY <1>4, ContentRowsStep DEF SaveCard, CreatePromotion, UpdatePromotion
<1>5. QED
  BY <1>1, <1>2, <1>3, <1>4 DEF PmNext

\* The invariant of the contents holds throughout.
THEOREM ContentInvariant == PmSpec => []PmInv
<1>1. PmInit => PmInv
  BY PmInitHolds
<1>2. PmInv /\ [PmNext]_pmVars => PmInv'
  BY PmNextHolds
<1>3. QED
  BY <1>1, <1>2, PTL DEF PmSpec

-----------------------------------------------------------------------------
\* generate claims a content before it calls the provider: at most one call
\* for a content is under way, and the preview to review is the last one's.
THEOREM GenerationsAreOne == PmSpec => []OneGeneration
<1>1. ASSUME PmInv PROVE OneGeneration
  <2> SUFFICES ASSUME NEW c \in Content
               PROVE  /\ Cardinality({p \in Process : job[p] # Idle /\ job[p].of = c
                                                       /\ job[p].pc = "provider"}) <= 1
                      /\ content[c] # NoValue /\ content[c].status = "PREVIEW"
                            => content[c].of = claims[c]
    BY DEF OneGeneration
  <2> DEFINE workers == {p \in Process : job[p] # Idle /\ job[p].of = c /\ job[p].pc = "provider"}
  <2>1. \A p, q \in workers : p = q
    BY <1>1, JobFields DEF PmInv, PmTypeOK, OneWorker
  <2>2. Cardinality(workers) <= 1
    <3>1. CASE workers = {}
      BY <3>1, FS_EmptySet
    <3>2. ASSUME NEW p \in workers PROVE Cardinality(workers) <= 1
      <4>1. workers = {p}
        BY <2>1
      <4>2. Cardinality({p}) = 1
        BY FS_Singleton
      <4>3. QED
        BY <4>1, <4>2
    <3>3. QED
      BY <3>1, <3>2
  <2>3. content[c] # NoValue /\ content[c].status = "PREVIEW" => content[c].of = claims[c]
    BY <1>1, RowOrNone DEF PmInv, PreviewIsLast
  <2>4. QED
    BY <2>2, <2>3
<1>2. QED
  BY <1>1, ContentInvariant, PTL

\* review claims a preview: whatever generations and other reviews are still
\* under way, a decision is never overwritten.
THEOREM DecisionsAreFinal == PmSpec => ReviewIsFinal
<1>1. ASSUME PmInv, [PmNext]_pmVars, NEW c \in Content,
             content[c] # NoValue, content[c].status \in {"APPROVED", "REJECTED"}
      PROVE  content'[c] = content[c]
  <2>1. ASSUME NEW p \in Process, NEW d \in Content, ClaimContent(p, d) PROVE content'[c] = content[c]
    BY <1>1, <2>1 DEF ClaimContent, Claimable, PmInv, PmTypeOK
  <2>2. ASSUME NEW p \in Process, NEW committed \in BOOLEAN, NEW failed \in BOOLEAN,
               StorePreview(p, committed, failed)
        PROVE content'[c] = content[c]
    BY <1>1, <2>2 DEF StorePreview, StillGenerated, PmInv, PmTypeOK
  <2>3. ASSUME NEW p \in Process, StoreFailure(p) PROVE content'[c] = content[c]
    BY <1>1, <2>3 DEF StoreFailure, StillGenerated, PmInv, PmTypeOK
  <2>4. ASSUME NEW d \in Content, CreateContent(d) PROVE content'[c] = content[c]
    BY <1>1, <2>4 DEF CreateContent, PmInv, PmTypeOK
  <2>5. ASSUME NEW d \in Content, NEW status \in {"APPROVED", "REJECTED"}, ReviewContent(d, status)
        PROVE content'[c] = content[c]
    BY <1>1, <2>5 DEF ReviewContent, ReviewClaims, PmInv, PmTypeOK
  <2>6. CASE UNCHANGED content
    BY <2>6
  <2>7. QED
    BY <1>1, <2>1, <2>2, <2>3, <2>4, <2>5, <2>6
    DEF PmNext, pmVars, pmContent, CardsOpen, SaveCard, CreatePromotion, UpdatePromotion,
        ProviderAnswers, JobLost
<1>2. PmInv /\ [PmNext]_pmVars =>
        [\A c \in Content : content[c] # NoValue /\ content[c].status \in {"APPROVED", "REJECTED"} =>
            content'[c] = content[c]]_pmVars
  BY <1>1
<1>3. QED
  BY <1>2, ContentInvariant, PTL DEF PmSpec, ReviewIsFinal

-----------------------------------------------------------------------------
(* The catalogue that administrators edit *)

PerfumeRow == [status : {"ACTIVE", "ARCHIVED"}, revision : Nat, text : Text]
VariantRow == [of : Perfume, offer : Offer]
RequestRow == [of : Creation, result : Perfume \union VariantId]
OpenedForm == [perfume : Perfume, row : PerfumeRow, variants : SUBSET (VariantId \X Offer)]

OpenCall == [pc : {"open"}, perfume : Perfume, row : PerfumeRow]
CreateCall == [pc : {"create"}, request : Creation]
CreateVariantCall ==
    [pc : {"variant"}, request : [entity : {"VARIANT"}, key : CreateKey, data : Offer, perfume : Perfume],
     revision : Nat]
EditCall == [pc : {"edit"}, edit : PerfumeForm \union VariantForm]
CtCall == {Idle} \union OpenCall \union CreateCall \union CreateVariantCall \union EditCall

CtTypeOK ==
    /\ perfume \in [Perfume -> PerfumeRow \union {Absent}]
    /\ variant \in [VariantId -> VariantRow \union {Absent}]
    /\ request \in [{"PERFUME", "VARIANT"} \X CreateKey -> RequestRow \union {Absent}]
    /\ form \in [Process -> OpenedForm \union {Absent}]
    /\ created \subseteq [request : Creation, result : Perfume \union VariantId]
    /\ ctCall \in [Process -> CtCall]

\* A row that was read is the perfume's row or one of an earlier revision.
RowWasHeld(f, row) ==
    /\ perfume[f] # Absent
    /\ row.revision <= perfume[f].revision
    /\ row.revision = perfume[f].revision => row = perfume[f]

FormFacts(d) ==
    d # Absent =>
        /\ RowWasHeld(d.perfume, d.row)
        /\ d.row.revision = perfume[d.perfume].revision => d.variants = VariantsOf(d.perfume)

\* What a request may rely on although it read it earlier; the variant of an
\* edit belongs to the perfume of the form.
CtCallFacts(c, d) ==
    /\ c.pc = "open" => RowWasHeld(c.perfume, c.row)
    /\ c.pc = "variant" => perfume[c.request.perfume] # Absent
    /\ c.pc = "edit" => /\ d # Absent
                        /\ c.edit.kind = "VARIANT" =>
                                variant[c.edit.variant] # Absent /\ variant[c.edit.variant].of = d.perfume

\* Every answer is the one that is recorded under its key.
AnswersRecorded == \A a \in created : Recorded(a.request) = [of |-> a.request, result |-> a.result]

CtInv ==
    /\ CtTypeOK
    /\ \A p \in Process : FormFacts(form[p]) /\ CtCallFacts(ctCall[p], form[p])
    /\ AnswersRecorded

-----------------------------------------------------------------------------
LEMMA CtCallFields ==
    ASSUME NEW c \in CtCall
    PROVE  /\ c.pc = "open" => c \in OpenCall
           /\ c.pc = "create" => c \in CreateCall
           /\ c.pc = "variant" => c \in CreateVariantCall
           /\ c.pc = "edit" => c \in EditCall
           /\ c.pc = "idle" => c = Idle
           /\ Idle \in CtCall /\ Idle.pc = "idle"
BY DEF CtCall, Idle, OpenCall, CreateCall, CreateVariantCall, EditCall

LEMMA CreationFields ==
    ASSUME NEW r \in Creation
    PROVE  /\ r.entity \in {"PERFUME", "VARIANT"} /\ r.key \in CreateKey
           /\ r.entity = "PERFUME" => r.data \in Text
           /\ r.entity = "VARIANT" =>
                r \in [entity : {"VARIANT"}, key : CreateKey, data : Offer, perfume : Perfume]
BY DEF Creation

LEMMA CreationKey ==
    ASSUME NEW r \in Creation
    PROVE  <<r.entity, r.key>> \in {"PERFUME", "VARIANT"} \X CreateKey
BY CreationFields

LEMMA IdleRelies == ASSUME NEW d PROVE CtCallFacts(Idle, d)
BY DEF CtCallFacts, Idle

LEMMA PerfumeRows ==
    ASSUME CtTypeOK, NEW f \in Perfume
    PROVE  perfume[f] # Absent <=> perfume[f] \in PerfumeRow
BY AbsentIsNoRow DEF CtTypeOK, PerfumeRow

LEMMA VariantsHeld ==
    ASSUME CtTypeOK, NEW f \in Perfume
    PROVE  VariantsOf(f) \in SUBSET (VariantId \X Offer)
<1>1. ASSUME NEW w \in VariantId, variant[w] # Absent PROVE <<w, variant[w].offer>> \in VariantId \X Offer
  BY <1>1 DEF CtTypeOK, VariantRow
<1>2. QED
  BY <1>1 DEF VariantsOf

\* A request goes on, and its form may be another; the rows stay.
LEMMA CtCallStep ==
    ASSUME CtInv, UNCHANGED <<ctRows, created>>, NEW p \in Process, NEW c \in CtCall, CtGoto(p, c),
           NEW d \in OpenedForm \union {Absent}, form' = [form EXCEPT ![p] = d],
           FormFacts(d), CtCallFacts(c, d)
    PROVE  CtInv'
<1>1. CtTypeOK'
  BY DEF CtInv, CtTypeOK, CtGoto, ctRows
<1>2. ASSUME NEW e, NEW x, FormFacts(x), CtCallFacts(e, x) PROVE FormFacts(x)' /\ CtCallFacts(e, x)'
  BY <1>2 DEF FormFacts, CtCallFacts, RowWasHeld, VariantsOf, ctRows
<1>3. ASSUME NEW q \in Process
      PROVE  \E x, e : x = form'[q] /\ e = ctCall'[q] /\ FormFacts(x) /\ CtCallFacts(e, x)
  BY DEF CtInv, CtTypeOK, CtGoto
<1>4. ASSUME NEW q \in Process PROVE FormFacts(form[q])' /\ CtCallFacts(ctCall[q], form[q])'
  <2>1. PICK x, e : x = form'[q] /\ e = ctCall'[q] /\ FormFacts(x) /\ CtCallFacts(e, x)
    BY <1>3
  <2>2. FormFacts(x)' /\ CtCallFacts(e, x)'
    BY <1>2, <2>1
  <2>3. QED
    BY <2>1, <2>2 DEF FormFacts, CtCallFacts, RowWasHeld
<1>5. AnswersRecorded'
  BY DEF CtInv, AnswersRecorded, Recorded, ctRows
<1>6. QED
  BY <1>1, <1>4, <1>5 DEF CtInv

LEMMA FormStays ==
    ASSUME CtInv, NEW p \in Process
    PROVE  /\ form[p] \in OpenedForm \union {Absent} /\ form = [form EXCEPT ![p] = form[p]]
           /\ FormFacts(form[p])
BY DEF CtInv, CtTypeOK

\* Every perfume that a step changes, or whose variants it changes, has the next
\* revision; none disappears.
RowsAdvance ==
    \A f \in Perfume : perfume[f] # Absent =>
        /\ perfume'[f] # Absent
        /\ \/ perfume'[f] = perfume[f] /\ VariantsOf(f)' = VariantsOf(f)
           \/ perfume'[f].revision = perfume[f].revision + 1

LEMMA RowsStay == ASSUME UNCHANGED <<perfume, variant>> PROVE RowsAdvance
BY DEF RowsAdvance, VariantsOf

\* A transaction of one request.
LEMMA CtRowsStep ==
    ASSUME CtInv, NEW p \in Process, CtGoto(p, Idle), UNCHANGED form,
           perfume' \in [Perfume -> PerfumeRow \union {Absent}],
           variant' \in [VariantId -> VariantRow \union {Absent}],
           request' \in [{"PERFUME", "VARIANT"} \X CreateKey -> RequestRow \union {Absent}],
           created' \subseteq [request : Creation, result : Perfume \union VariantId],
           AnswersRecorded',
           RowsAdvance,
           \A w \in VariantId : variant[w] # Absent =>
                variant'[w] # Absent /\ variant'[w].of = variant[w].of
    PROVE  CtInv'
<1>1. Idle \in CtCall
  BY DEF CtCall
<1>2. CtTypeOK'
  BY <1>1 DEF CtInv, CtTypeOK, CtGoto
<1>3. ASSUME NEW f \in Perfume, NEW row \in PerfumeRow, RowWasHeld(f, row)
      PROVE  /\ RowWasHeld(f, row)'
             /\ row.revision = perfume'[f].revision =>
                    row.revision = perfume[f].revision /\ VariantsOf(f)' = VariantsOf(f)
  <2>1. perfume[f] \in PerfumeRow /\ perfume[f].revision \in Nat /\ row.revision \in Nat
    BY <1>3, PerfumeRows DEF CtInv, RowWasHeld, PerfumeRow
  <2>2. QED
    BY <1>3, <2>1 DEF RowWasHeld, RowsAdvance
<1>4. ASSUME NEW d \in OpenedForm \union {Absent}, FormFacts(d) PROVE FormFacts(d)'
  <2>1. d # Absent => d.perfume \in Perfume /\ d.row \in PerfumeRow
    BY DEF OpenedForm
  <2>2. QED
    BY <1>3, <1>4, <2>1 DEF FormFacts
<1>5. ASSUME NEW c \in CtCall, NEW d \in OpenedForm \union {Absent}, CtCallFacts(c, d)
      PROVE  CtCallFacts(c, d)'
  <2>1. c.pc = "open" => RowWasHeld(c.perfume, c.row)'
    BY <1>3, <1>5, CtCallFields DEF CtCallFacts, OpenCall
  <2>2. c.pc = "variant" => perfume'[c.request.perfume] # Absent
    BY <1>5, CtCallFields DEF CtCallFacts, CreateVariantCall, RowsAdvance
  <2>3. c.pc = "edit" /\ c.edit.kind = "VARIANT" =>
            variant'[c.edit.variant] # Absent /\ variant'[c.edit.variant].of = d.perfume
    <3>1. c.pc = "edit" /\ c.edit.kind = "VARIANT" => c.edit.variant \in VariantId
      BY CtCallFields DEF EditCall, PerfumeForm, VariantForm
    <3>2. QED
      BY <1>5, <3>1 DEF CtCallFacts
  <2>4. QED
    BY <1>5, <2>1, <2>2, <2>3 DEF CtCallFacts
<1>6. ASSUME NEW q \in Process PROVE FormFacts(form[q])' /\ CtCallFacts(ctCall[q], form[q])'
  <2>1. PICK d \in OpenedForm \union {Absent} : d = form[q] /\ FormFacts(d)
    BY DEF CtInv, CtTypeOK
  <2>2. PICK c \in CtCall : c = ctCall'[q] /\ CtCallFacts(c, d)
    BY <1>1, <2>1, IdleRelies DEF CtInv, CtTypeOK, CtGoto
  <2>3. FormFacts(d)' /\ CtCallFacts(c, d)'
    BY <1>4, <1>5, <2>1, <2>2
  <2>4. form'[q] = d /\ ctCall'[q] = c
    BY <2>1, <2>2
  <2>5. QED
    BY <2>3, <2>4 DEF FormFacts, CtCallFacts, RowWasHeld
<1>7. QED
  BY <1>2, <1>6 DEF CtInv

LEMMA CtInitHolds == CtInit => CtInv
<1> SUFFICES ASSUME CtInit PROVE CtInv
  OBVIOUS
<1>1. CtTypeOK
  BY DEF CtInit, CtTypeOK, AllIdle, CtCall
<1>2. ASSUME NEW p \in Process PROVE FormFacts(form[p]) /\ CtCallFacts(ctCall[p], form[p])
  BY DEF CtInit, AllIdle, Idle, FormFacts, CtCallFacts
<1>3. AnswersRecorded
  BY DEF CtInit, AnswersRecorded
<1>4. QED
  BY <1>1, <1>2, <1>3 DEF CtInv

-----------------------------------------------------------------------------
LEMMA CtReads ==
    ASSUME CtInv, NEW p \in Process,
           \/ CtAbandon(p) \/ Opened(p) \/ CreateVariantLoad(p)
           \/ \E f \in Perfume : Open(p, f)
           \/ \E edit \in PerfumeForm \union VariantForm : EditLoad(p, edit)
    PROVE  CtInv'
<1>0. ctCall[p] \in CtCall /\ CtCallFacts(ctCall[p], form[p])
  BY DEF CtInv, CtTypeOK
<1>1. CASE CtAbandon(p)
  <2>1. Idle \in CtCall /\ CtCallFacts(Idle, form[p]) /\ CtGoto(p, Idle) /\ UNCHANGED <<ctRows, form, created>>
    BY <1>1, IdleRelies DEF CtAbandon, CtCall
  <2>2. QED
    BY <2>1, FormStays, CtCallStep
<1>2. CASE Opened(p)
  <2>1. /\ ctCall[p].perfume \in Perfume /\ ctCall[p].row \in PerfumeRow
        /\ RowWasHeld(ctCall[p].perfume, ctCall[p].row)
    BY <1>0, <1>2, CtCallFields DEF Opened, OpenCall, CtCallFacts
  <2>2. PICK d : d = [perfume |-> ctCall[p].perfume, row |-> ctCall[p].row, variants |-> VariantsOf(ctCall[p].perfume)]
    OBVIOUS
  <2>3. d \in OpenedForm /\ FormFacts(d)
    BY <2>1, <2>2, VariantsHeld DEF OpenedForm, FormFacts, CtInv
  <2>4. form' = [form EXCEPT ![p] = d] /\ CtGoto(p, Idle) /\ UNCHANGED <<ctRows, created>>
    BY <1>2, <2>2 DEF Opened
  <2>5. Idle \in CtCall /\ CtCallFacts(Idle, d)
    BY IdleRelies DEF CtCall
  <2>6. QED
    BY <2>3, <2>4, <2>5, CtCallStep
<1>3. CASE CreateVariantLoad(p)
  <2>1. ctCall[p].request \in Creation /\ ctCall[p].request.entity = "VARIANT"
    BY <1>0, <1>3, CtCallFields DEF CreateVariantLoad, CreateCall
  <2>2. PICK r \in [entity : {"VARIANT"}, key : CreateKey, data : Offer, perfume : Perfume] : r = ctCall[p].request
    BY <2>1, CreationFields
  <2>3. r.perfume \in Perfume /\ perfume[r.perfume] # Absent
    BY <1>3, <2>2 DEF CreateVariantLoad
  <2>4. perfume[r.perfume].revision \in Nat
    BY <2>3, PerfumeRows DEF CtInv, PerfumeRow
  <2>5. PICK c : c = [pc |-> "variant", request |-> r, revision |-> perfume[r.perfume].revision]
    OBVIOUS
  <2>6. c \in CtCall /\ CtCallFacts(c, form[p])
    BY <2>3, <2>4, <2>5 DEF CtCall, CreateVariantCall, CtCallFacts
  <2>7. CtGoto(p, c) /\ UNCHANGED <<ctRows, form, created>>
    BY <1>3, <2>2, <2>5 DEF CreateVariantLoad
  <2>8. QED
    BY <2>6, <2>7, FormStays, CtCallStep
<1>4. ASSUME NEW f \in Perfume, Open(p, f) PROVE CtInv'
  <2>1. perfume[f] \in PerfumeRow /\ perfume[f] # Absent
    BY <1>4, PerfumeRows DEF Open, CtInv
  <2>2. PICK c : c = [pc |-> "open", perfume |-> f, row |-> perfume[f]]
    OBVIOUS
  <2>3. c \in CtCall /\ CtCallFacts(c, form[p])
    BY <2>1, <2>2 DEF CtCall, OpenCall, CtCallFacts, RowWasHeld, PerfumeRow
  <2>4. CtGoto(p, c) /\ UNCHANGED <<ctRows, form, created>>
    BY <1>4, <2>2 DEF Open
  <2>5. QED
    BY <2>3, <2>4, FormStays, CtCallStep
<1>5. ASSUME NEW edit \in PerfumeForm \union VariantForm, EditLoad(p, edit) PROVE CtInv'
  <2>1. PICK c : c = [pc |-> "edit", edit |-> edit]
    OBVIOUS
  <2>2. c \in CtCall /\ CtCallFacts(c, form[p])
    BY <1>5, <2>1 DEF CtCall, EditCall, CtCallFacts, EditLoad
  <2>3. CtGoto(p, c) /\ UNCHANGED <<ctRows, form, created>>
    BY <1>5, <2>1 DEF EditLoad
  <2>4. QED
    BY <2>2, <2>3, FormStays, CtCallStep
<1>6. QED
  BY <1>1, <1>2, <1>3, <1>4, <1>5

-----------------------------------------------------------------------------
(* Creations *)

\* A replay answers what is recorded for the same request.
LEMMA ReplayAnswers ==
    ASSUME CtInv, NEW r \in Creation, SameFingerprint(r), Answer(r), UNCHANGED request
    PROVE  /\ created' \subseteq [request : Creation, result : Perfume \union VariantId]
           /\ AnswersRecorded'
<1>1. Recorded(r) \in RequestRow /\ Recorded(r).of = r
  BY CreationKey DEF SameFingerprint, Recorded, CtInv, CtTypeOK
<1>2. Recorded(r).result \in Perfume \union VariantId
      /\ Recorded(r) = [of |-> r, result |-> Recorded(r).result]
  BY <1>1 DEF RequestRow
<1>3. PICK a : a = [request |-> r, result |-> Recorded(r).result]
  OBVIOUS
<1>4. /\ a \in [request : Creation, result : Perfume \union VariantId]
      /\ Recorded(a.request) = [of |-> a.request, result |-> a.result]
  BY <1>2, <1>3
<1>5. created' = created \union {a}
  BY <1>3 DEF Answer
<1>6. QED
  BY <1>4, <1>5 DEF CtInv, CtTypeOK, AnswersRecorded, Recorded

\* A new row is under a key that had none, so that no answer names it yet.
LEMMA RecordAnswers ==
    ASSUME CtInv, NEW r \in Creation, NEW x \in Perfume \union VariantId, Record(r, x)
    PROVE  /\ request' \in [{"PERFUME", "VARIANT"} \X CreateKey -> RequestRow \union {Absent}]
           /\ created' \subseteq [request : Creation, result : Perfume \union VariantId]
           /\ AnswersRecorded'
<1>1. PICK row : row = [of |-> r, result |-> x]
  OBVIOUS
<1>2. row \in RequestRow
  BY <1>1 DEF RequestRow
<1>3. PICK k \in {"PERFUME", "VARIANT"} \X CreateKey : k = <<r.entity, r.key>>
  BY CreationKey
<1>4. request' = [request EXCEPT ![k] = row] /\ request[k] = Absent
  BY <1>1, <1>3 DEF Record, Recorded
<1>5. PICK a : a = [request |-> r, result |-> x]
  OBVIOUS
<1>6. created' = created \union {a} /\ a \in [request : Creation, result : Perfume \union VariantId]
  BY <1>5 DEF Record
<1>7. request' \in [{"PERFUME", "VARIANT"} \X CreateKey -> RequestRow \union {Absent}] /\ request'[k] = row
  BY <1>2, <1>4 DEF CtInv, CtTypeOK
<1>8. ASSUME NEW b \in created' PROVE Recorded(b.request)' = [of |-> b.request, result |-> b.result]
  <2>1. CASE b = a
    BY <1>1, <1>3, <1>5, <1>7, <2>1 DEF Recorded
  <2>2. CASE b \in created
    <3>1. b.request \in Creation /\ b.result \in Perfume \union VariantId
      BY <2>2 DEF CtInv, CtTypeOK
    <3>2. PICK j \in {"PERFUME", "VARIANT"} \X CreateKey : j = <<b.request.entity, b.request.key>>
      BY <3>1, CreationKey
    <3>3. request[j] = [of |-> b.request, result |-> b.result]
      BY <2>2, <3>2 DEF CtInv, AnswersRecorded, Recorded
    <3>4. [of |-> b.request, result |-> b.result] # Absent
      BY <3>1, AbsentIsNoRow
    <3>5. request'[j] = request[j]
      BY <1>4, <3>3, <3>4 DEF CtInv, CtTypeOK
    <3>6. QED
      BY <3>2, <3>3, <3>5 DEF Recorded
  <2>3. QED
    BY <1>6, <2>1, <2>2
<1>9. QED
  BY <1>6, <1>7, <1>8 DEF CtInv, CtTypeOK, AnswersRecorded

LEMMA CreateHolds ==
    ASSUME CtInv, NEW p \in Process,
           CreateReplay(p) \/ \E r \in Creation : Create(p, r)
    PROVE  CtInv'
<1>0. ctCall[p] \in CtCall
  BY DEF CtInv, CtTypeOK
<1>1. ASSUME NEW r \in Creation, SameFingerprint(r), Answer(r), CtGoto(p, Idle), UNCHANGED <<ctRows, form>>
      PROVE  CtInv'
  <2>1. created' \subseteq [request : Creation, result : Perfume \union VariantId] /\ AnswersRecorded'
    BY <1>1, ReplayAnswers DEF ctRows
  <2>2. UNCHANGED <<perfume, variant, request, form>>
    BY <1>1 DEF ctRows
  <2>3. QED
    BY <1>1, <2>1, <2>2, RowsStay, CtRowsStep DEF CtInv, CtTypeOK
<1>2. CASE CreateReplay(p)
  <2>1. ctCall[p].request \in Creation
    BY <1>0, <1>2, CtCallFields DEF CreateReplay, CreateCall, CreateVariantCall, Creation
  <2>2. QED
    BY <1>1, <1>2, <2>1 DEF CreateReplay
<1>3. ASSUME NEW r \in Creation, Create(p, r) PROVE CtInv'
  <2>1. CASE Recorded(r) = Absent
    <3>1. PICK c : c = [pc |-> "create", request |-> r]
      OBVIOUS
    <3>2. c \in CtCall /\ CtCallFacts(c, form[p])
      BY <3>1 DEF CtCall, CreateCall, CtCallFacts
    <3>3. CtGoto(p, c) /\ UNCHANGED <<ctRows, form, created>>
      BY <1>3, <2>1, <3>1 DEF Create
    <3>4. QED
      BY <3>2, <3>3, FormStays, CtCallStep
  <2>2. CASE Recorded(r) # Absent
    <3>1. SameFingerprint(r) /\ Answer(r) /\ UNCHANGED <<ctRows, form, ctCall>> /\ ctCall[p] = Idle
      BY <1>3, <2>2 DEF Create
    <3>2. CtGoto(p, Idle)
      BY <3>1 DEF CtGoto, CtInv, CtTypeOK
    <3>3. QED
      BY <1>1, <3>1, <3>2
  <2>3. QED
    BY <2>1, <2>2
<1>4. QED
  BY <1>2, <1>3

LEMMA CreatePerfumeHolds ==
    ASSUME CtInv, NEW p \in Process, NEW f \in Perfume, CreatePerfume(p, f)
    PROVE  CtInv' /\ RowsAdvance
<1> DEFINE r == ctCall[p].request
<1>1. r \in Creation /\ r.data \in Text
  <2>1. ctCall[p] \in CtCall
    BY DEF CtInv, CtTypeOK
  <2>2. QED
    BY <2>1, CtCallFields, CreationFields DEF CreatePerfume, CreateCall
<1>2. PICK row \in PerfumeRow : row = [status |-> "ACTIVE", revision |-> 1, text |-> r.data]
  BY <1>1 DEF PerfumeRow
<1>3. /\ perfume[f] = Absent /\ perfume' = [perfume EXCEPT ![f] = row] /\ Record(r, f)
      /\ CtGoto(p, Idle) /\ UNCHANGED <<variant, form>>
  BY <1>2 DEF CreatePerfume
<1>4. perfume' \in [Perfume -> PerfumeRow \union {Absent}]
  BY <1>3 DEF CtInv, CtTypeOK
<1>5. \A g \in Perfume : perfume[g] # Absent => perfume'[g] = perfume[g] /\ VariantsOf(g)' = VariantsOf(g)
  BY <1>3 DEF CtInv, CtTypeOK, VariantsOf
<1>6. /\ request' \in [{"PERFUME", "VARIANT"} \X CreateKey -> RequestRow \union {Absent}]
      /\ created' \subseteq [request : Creation, result : Perfume \union VariantId]
      /\ AnswersRecorded'
  BY <1>1, <1>3, RecordAnswers
<1>7. \A w \in VariantId : variant'[w] = variant[w]
  BY <1>3
<1>8. variant' \in [VariantId -> VariantRow \union {Absent}]
  BY <1>3 DEF CtInv, CtTypeOK
<1>9. RowsAdvance
  BY <1>4, <1>5, <1>3 DEF RowsAdvance
<1>10. QED
  BY <1>3, <1>4, <1>6, <1>7, <1>8, <1>9, CtRowsStep

-----------------------------------------------------------------------------
(* Changes of a perfume *)

\* The row of one perfume takes the next revision.
LEMMA NextRow ==
    ASSUME CtInv, NEW f \in Perfume, perfume[f] # Absent, NEW row \in PerfumeRow,
           row.revision = perfume[f].revision + 1,
           perfume' = [perfume EXCEPT ![f] = row]
    PROVE  /\ perfume' \in [Perfume -> PerfumeRow \union {Absent}]
           /\ perfume'[f] # Absent /\ perfume'[f].revision = perfume[f].revision + 1
           /\ \A g \in Perfume \ {f} : perfume'[g] = perfume[g]
BY AbsentIsNoRow DEF CtInv, CtTypeOK, PerfumeRow

LEMMA AdvanceRow ==
    ASSUME CtInv, NEW f \in Perfume, perfume[f] # Absent, Advance(f)
    PROVE  /\ perfume' \in [Perfume -> PerfumeRow \union {Absent}]
           /\ perfume'[f] # Absent /\ perfume'[f].revision = perfume[f].revision + 1
           /\ \A g \in Perfume \ {f} : perfume'[g] = perfume[g]
<1>1. perfume[f] \in PerfumeRow
  BY PerfumeRows DEF CtInv
<1>2. PICK row : row = [perfume[f] EXCEPT !.revision = @ + 1]
  OBVIOUS
<1>3. perfume[f].revision + 1 \in Nat
  BY <1>1 DEF PerfumeRow
<1>4. row \in PerfumeRow /\ row.revision = perfume[f].revision + 1
  BY <1>1, <1>2, <1>3 DEF PerfumeRow
<1>5. perfume' = [perfume EXCEPT ![f] = row]
  BY <1>2 DEF Advance
<1>6. QED
  BY <1>4, <1>5, NextRow

\* One variant changes, of a perfume f: those of the others stay.
LEMMA VariantChange ==
    ASSUME CtInv, NEW f \in Perfume, NEW w \in VariantId, NEW row \in VariantRow, row.of = f,
           variant[w] = Absent \/ variant[w].of = f,
           variant' = [variant EXCEPT ![w] = row]
    PROVE  /\ variant' \in [VariantId -> VariantRow \union {Absent}]
           /\ \A u \in VariantId : variant[u] # Absent => variant'[u] # Absent /\ variant'[u].of = variant[u].of
           /\ \A g \in Perfume \ {f} : VariantsOf(g)' = VariantsOf(g)
<1>1. variant' \in [VariantId -> VariantRow \union {Absent}] /\ variant'[w] = row
      /\ \A u \in VariantId \ {w} : variant'[u] = variant[u]
  BY DEF CtInv, CtTypeOK
<1>2. row # Absent
  BY AbsentIsNoRow DEF VariantRow
<1>3. ASSUME NEW g \in Perfume \ {f} PROVE VariantsOf(g)' = VariantsOf(g)
  <2>1. ASSUME NEW u \in VariantId
        PROVE  /\ (variant'[u] # Absent /\ variant'[u].of = g) <=> (variant[u] # Absent /\ variant[u].of = g)
               /\ variant[u] # Absent /\ variant[u].of = g => variant'[u].offer = variant[u].offer
    BY <1>1, <1>2
  <2>2. QED
    BY <2>1 DEF VariantsOf
<1>4. QED
  BY <1>1, <1>2, <1>3

LEMMA CreateVariantHolds ==
    ASSUME CtInv, NEW p \in Process, NEW w \in VariantId, CreateVariant(p, w)
    PROVE  CtInv' /\ RowsAdvance
<1> DEFINE r == ctCall[p].request
<1>1. /\ r \in Creation /\ r.perfume \in Perfume /\ r.data \in Offer
      /\ perfume[r.perfume] # Absent
  <2>1. ctCall[p] \in CtCall /\ CtCallFacts(ctCall[p], form[p])
    BY DEF CtInv, CtTypeOK
  <2>2. QED
    BY <2>1, CtCallFields DEF CreateVariant, CreateVariantCall, CtCallFacts, Creation
<1>2. PICK row \in VariantRow : row = [of |-> r.perfume, offer |-> r.data]
  BY <1>1 DEF VariantRow
<1>3. /\ Advance(r.perfume) /\ variant[w] = Absent /\ variant' = [variant EXCEPT ![w] = row]
      /\ Record(r, w) /\ CtGoto(p, Idle) /\ UNCHANGED form
  BY <1>2 DEF CreateVariant
<1>4. row.of = r.perfume
  BY <1>2
<1>5. /\ request' \in [{"PERFUME", "VARIANT"} \X CreateKey -> RequestRow \union {Absent}]
      /\ created' \subseteq [request : Creation, result : Perfume \union VariantId]
      /\ AnswersRecorded'
  BY <1>1, <1>3, RecordAnswers
<1>6. /\ perfume' \in [Perfume -> PerfumeRow \union {Absent}]
      /\ perfume'[r.perfume] # Absent /\ perfume'[r.perfume].revision = perfume[r.perfume].revision + 1
      /\ \A g \in Perfume \ {r.perfume} : perfume'[g] = perfume[g]
  BY <1>1, <1>3, AdvanceRow
<1>7. /\ variant' \in [VariantId -> VariantRow \union {Absent}]
      /\ \A u \in VariantId : variant[u] # Absent => variant'[u] # Absent /\ variant'[u].of = variant[u].of
      /\ \A g \in Perfume \ {r.perfume} : VariantsOf(g)' = VariantsOf(g)
  BY <1>1, <1>3, <1>4, VariantChange
<1>8. RowsAdvance
  BY <1>6, <1>7 DEF RowsAdvance
<1>9. QED
  BY <1>3, <1>5, <1>6, <1>7, <1>8, CtRowsStep

LEMMA EditHolds == ASSUME CtInv, NEW p \in Process, EditCommit(p) PROVE CtInv' /\ RowsAdvance
<1> DEFINE e == ctCall[p].edit
           f == form[p].perfume
<1>1. /\ e \in PerfumeForm \union VariantForm /\ form[p] # Absent
      /\ e.kind = "VARIANT" => variant[e.variant] # Absent /\ variant[e.variant].of = f
  <2>1. ctCall[p] \in CtCall /\ CtCallFacts(ctCall[p], form[p])
    BY DEF CtInv, CtTypeOK
  <2>2. QED
    BY <2>1, CtCallFields DEF EditCommit, EditCall, CtCallFacts
<1>2. f \in Perfume /\ perfume[f] # Absent /\ perfume[f] \in PerfumeRow
  <2>1. f \in Perfume /\ perfume[f] # Absent
    BY <1>1, FormStays DEF OpenedForm, FormFacts, RowWasHeld
  <2>2. QED
    BY <2>1, PerfumeRows DEF CtInv
<1>3. CtGoto(p, Idle) /\ UNCHANGED <<request, form, created>>
  BY DEF EditCommit
<1>4. /\ request' \in [{"PERFUME", "VARIANT"} \X CreateKey -> RequestRow \union {Absent}]
      /\ created' \subseteq [request : Creation, result : Perfume \union VariantId]
      /\ AnswersRecorded'
  BY <1>3 DEF CtInv, CtTypeOK, AnswersRecorded, Recorded
<1>5. CASE e.kind = "TEXT"
  <2>1. e.data \in Text
    BY <1>1, <1>5 DEF PerfumeForm, VariantForm
  <2>2. PICK row : row = [perfume[f] EXCEPT !.revision = @ + 1, !.text = e.data]
    OBVIOUS
  <2>3. perfume[f].revision + 1 \in Nat
    BY <1>2 DEF PerfumeRow
  <2>4. row \in PerfumeRow /\ row.revision = perfume[f].revision + 1
    BY <1>2, <2>1, <2>2, <2>3 DEF PerfumeRow
  <2>5. perfume' = [perfume EXCEPT ![f] = row] /\ UNCHANGED variant
    BY <1>5, <2>2 DEF EditCommit
  <2>6. /\ perfume' \in [Perfume -> PerfumeRow \union {Absent}]
        /\ perfume'[f] # Absent /\ perfume'[f].revision = perfume[f].revision + 1
        /\ \A g \in Perfume \ {f} : perfume'[g] = perfume[g]
    BY <1>2, <2>4, <2>5, NextRow
  <2>7. /\ variant' \in [VariantId -> VariantRow \union {Absent}]
        /\ \A g \in Perfume : VariantsOf(g)' = VariantsOf(g)
    BY <2>5 DEF CtInv, CtTypeOK, VariantsOf
  <2>8. RowsAdvance
    BY <2>6, <2>7 DEF RowsAdvance
  <2>9. QED
    BY <1>3, <1>4, <2>5, <2>6, <2>7, <2>8, CtRowsStep
<1>6. CASE e.kind = "VARIANT"
  <2>1. e.variant \in VariantId /\ e.data \in Offer
    BY <1>1, <1>6 DEF PerfumeForm, VariantForm
  <2>2. variant[e.variant] \in VariantRow /\ variant[e.variant].of = f
    BY <1>1, <1>6, <2>1 DEF CtInv, CtTypeOK
  <2>3. PICK row : row = [variant[e.variant] EXCEPT !.offer = e.data]
    OBVIOUS
  <2>4. row \in VariantRow /\ row.of = f
    BY <2>1, <2>2, <2>3 DEF VariantRow
  <2>5. variant' = [variant EXCEPT ![e.variant] = row] /\ Advance(f)
    BY <1>6, <2>3 DEF EditCommit
  <2>6. /\ perfume' \in [Perfume -> PerfumeRow \union {Absent}]
        /\ perfume'[f] # Absent /\ perfume'[f].revision = perfume[f].revision + 1
        /\ \A g \in Perfume \ {f} : perfume'[g] = perfume[g]
    BY <1>2, <2>5, AdvanceRow
  <2>7. /\ variant' \in [VariantId -> VariantRow \union {Absent}]
        /\ \A u \in VariantId : variant[u] # Absent => variant'[u] # Absent /\ variant'[u].of = variant[u].of
        /\ \A g \in Perfume \ {f} : VariantsOf(g)' = VariantsOf(g)
    BY <1>2, <2>1, <2>2, <2>4, <2>5, VariantChange
  <2>8. RowsAdvance
    BY <2>6, <2>7 DEF RowsAdvance
  <2>9. QED
    BY <1>3, <1>4, <2>6, <2>7, <2>8, CtRowsStep
<1>7. QED
  BY <1>1, <1>5, <1>6 DEF PerfumeForm, VariantForm

LEMMA ArchiveHolds == ASSUME CtInv, NEW p \in Process, ConfirmArchive(p) PROVE CtInv' /\ RowsAdvance
<1> DEFINE f == form[p].perfume
<1>1. f \in Perfume /\ perfume[f] # Absent /\ perfume[f] \in PerfumeRow
  <2>1. f \in Perfume /\ perfume[f] # Absent
    BY FormStays DEF ConfirmArchive, OpenedForm, FormFacts, RowWasHeld
  <2>2. QED
    BY <2>1, PerfumeRows DEF CtInv
<1>2. PICK row : row = [perfume[f] EXCEPT !.status = "ARCHIVED", !.revision = @ + 1]
  OBVIOUS
<1>3. perfume[f].revision + 1 \in Nat
  BY <1>1 DEF PerfumeRow
<1>4. row \in PerfumeRow /\ row.revision = perfume[f].revision + 1
  BY <1>1, <1>2, <1>3 DEF PerfumeRow
<1>5. perfume' = [perfume EXCEPT ![f] = row] /\ UNCHANGED <<variant, request, form, created, ctCall>> /\ ctCall[p] = Idle
  BY <1>2 DEF ConfirmArchive, Archive
<1>6. /\ perfume' \in [Perfume -> PerfumeRow \union {Absent}]
      /\ perfume'[f] # Absent /\ perfume'[f].revision = perfume[f].revision + 1
      /\ \A g \in Perfume \ {f} : perfume'[g] = perfume[g]
  BY <1>1, <1>4, <1>5, NextRow
<1>7. /\ variant' \in [VariantId -> VariantRow \union {Absent}]
      /\ \A g \in Perfume : VariantsOf(g)' = VariantsOf(g)
  BY <1>5 DEF CtInv, CtTypeOK, VariantsOf
<1>8. /\ request' \in [{"PERFUME", "VARIANT"} \X CreateKey -> RequestRow \union {Absent}]
      /\ created' \subseteq [request : Creation, result : Perfume \union VariantId]
      /\ AnswersRecorded'
  BY <1>5 DEF CtInv, CtTypeOK, AnswersRecorded, Recorded
<1>9. CtGoto(p, Idle)
  BY <1>5 DEF CtGoto, CtInv, CtTypeOK
<1>10. RowsAdvance
  BY <1>6, <1>7 DEF RowsAdvance
<1>11. QED
  BY <1>5, <1>6, <1>7, <1>8, <1>9, <1>10, CtRowsStep

LEMMA CtNextHolds == ASSUME CtInv, [CtNext]_ctVars PROVE CtInv'
<1>1. CASE UNCHANGED ctVars
  BY <1>1 DEF ctVars, ctRows, CtInv, CtTypeOK, FormFacts, CtCallFacts, RowWasHeld, VariantsOf, AnswersRecorded, Recorded
<1>2. ASSUME NEW p \in Process,
             \/ CtAbandon(p) \/ Opened(p) \/ CreateVariantLoad(p)
             \/ \E f \in Perfume : Open(p, f)
             \/ \E edit \in PerfumeForm \union VariantForm : EditLoad(p, edit)
      PROVE  CtInv'
  BY <1>2, CtReads
<1>3. ASSUME NEW p \in Process, CreateReplay(p) \/ \E r \in Creation : Create(p, r) PROVE CtInv'
  BY <1>3, CreateHolds
<1>4. ASSUME NEW p \in Process,
             \/ EditCommit(p) \/ ConfirmArchive(p)
             \/ \E f \in Perfume : CreatePerfume(p, f)
             \/ \E w \in VariantId : CreateVariant(p, w)
      PROVE  CtInv'
  BY <1>4, EditHolds, ArchiveHolds, CreatePerfumeHolds, CreateVariantHolds
<1>5. QED
  BY <1>1, <1>2, <1>3, <1>4 DEF CtNext

\* What a form holds was once a row of the catalogue, and every answer to a
\* creation agrees with the request that was recorded under its key.
THEOREM CatalogueInvariant == CtSpec => []CtInv
<1>1. CtInit => CtInv
  BY CtInitHolds
<1>2. CtInv /\ [CtNext]_ctVars => CtInv'
  BY CtNextHolds
<1>3. QED
  BY <1>1, <1>2, PTL DEF CtSpec

\* The two queries behind a form may mix two states, but an edit is accepted
\* only at the current revision, and then the form shows the current row and
\* variants: saving it overwrites nothing that its administrator did not see.
THEOREM OpenedRevisionsAreCurrent == CtSpec => []OpenedRevisionIsCurrent
<1>1. CtInv => OpenedRevisionIsCurrent
  BY DEF CtInv, OpenedRevisionIsCurrent, FormFacts, RowWasHeld
<1>2. QED
  BY <1>1, CatalogueInvariant, PTL

\* create answers a known key from its recorded request: all copies of one
\* request, in flight together or retried, name one perfume or variant.
THEOREM KeysCreateOnce == CtSpec => []CreatesOnce
<1>1. ASSUME CtInv PROVE CreatesOnce
  <2> SUFFICES ASSUME NEW a \in created, NEW b \in created,
                      a.request.entity = b.request.entity, a.request.key = b.request.key
               PROVE  a = b
    BY DEF CreatesOnce
  <2>1. [of |-> a.request, result |-> a.result] = [of |-> b.request, result |-> b.result]
    BY <1>1 DEF CtInv, AnswersRecorded, Recorded
  <2>2. a.request = b.request /\ a.result = b.result
    BY <2>1
  <2>3. QED
    BY <1>1, <2>2 DEF CtInv, CtTypeOK
<1>2. QED
  BY <1>1, CatalogueInvariant, PTL

\* What a step does to the recorded creations and their answers.
LEMMA CreationSteps ==
    ASSUME CtInv, [CtNext]_ctVars
    PROVE  \/ UNCHANGED <<request, created>>
           \/ \E r \in Creation : SameFingerprint(r) /\ Answer(r) /\ UNCHANGED request
           \/ \E r \in Creation, x \in Perfume \union VariantId : Record(r, x)
<1>1. CASE UNCHANGED ctVars
  BY <1>1 DEF ctVars, ctRows
<1>2. ASSUME NEW p \in Process,
             \/ CtAbandon(p) \/ Opened(p) \/ CreateVariantLoad(p) \/ EditCommit(p) \/ ConfirmArchive(p)
             \/ \E f \in Perfume : Open(p, f)
             \/ \E edit \in PerfumeForm \union VariantForm : EditLoad(p, edit)
      PROVE  UNCHANGED <<request, created>>
  BY <1>2 DEF CtAbandon, Opened, CreateVariantLoad, EditCommit, ConfirmArchive, Open, EditLoad, ctRows
<1>3. ASSUME NEW p \in Process, ctCall[p].pc \in {"create", "variant"}
      PROVE  ctCall[p].request \in Creation
  <2>1. ctCall[p] \in CtCall
    BY DEF CtInv, CtTypeOK
  <2>2. QED
    BY <1>3, <2>1, CtCallFields DEF CreateCall, CreateVariantCall, Creation
<1>4. ASSUME NEW p \in Process, CreateReplay(p)
      PROVE  \E r \in Creation : SameFingerprint(r) /\ Answer(r) /\ UNCHANGED request
  BY <1>3, <1>4 DEF CreateReplay, ctRows
<1>5. ASSUME NEW p \in Process, NEW r \in Creation, Create(p, r)
      PROVE  UNCHANGED <<request, created>> \/ (SameFingerprint(r) /\ Answer(r) /\ UNCHANGED request)
  <2>1. CASE Recorded(r) = Absent
    BY <1>5, <2>1 DEF Create, ctRows
  <2>2. CASE Recorded(r) # Absent
    BY <1>5, <2>2 DEF Create, ctRows
  <2>3. QED
    BY <2>1, <2>2
<1>6. ASSUME NEW p \in Process, NEW f \in Perfume, CreatePerfume(p, f)
      PROVE  \E r \in Creation : Record(r, f)
  BY <1>3, <1>6 DEF CreatePerfume
<1>7. ASSUME NEW p \in Process, NEW w \in VariantId, CreateVariant(p, w)
      PROVE  \E r \in Creation : Record(r, w)
  BY <1>3, <1>7 DEF CreateVariant
<1>8. QED
  BY <1>1, <1>2, <1>4, <1>5, <1>6, <1>7 DEF CtNext

\* One more answer.
LEMMA CreationTold ==
    ASSUME NEW a, created' = created \union {a}
    PROVE  CreationsTold' = CreationsTold
               \union {<<<<a.request.entity, a.request.key>>, [of |-> a.request, result |-> a.result]>>}
BY DEF CreationsTold

\* The request rows of AdminCatalogueService and its answers keep the promise of
\* OnceOnly: a creation is a first request or a repetition, and all else stutters.
THEOREM CreationRefinement == CtSpec => CreationsAreOnce
<1>1. CtInit => Creations!OnceInit
  BY DEF CtInit, Creations!OnceInit, CreationsTold
<1>2. ASSUME CtInv, [CtNext]_ctVars PROVE [Creations!OnceNext]_(Creations!onceVars)
  <2>1. CASE UNCHANGED <<request, created>>
    BY <2>1 DEF Creations!onceVars, CreationsTold
  <2>2. ASSUME NEW r \in Creation, SameFingerprint(r), Answer(r), UNCHANGED request
        PROVE  Creations!OnceNext
    <3>1. PICK k \in {"PERFUME", "VARIANT"} \X CreateKey : k = <<r.entity, r.key>>
      BY CreationKey
    <3>2. request[k] # Absent /\ request[k].of = r /\ Recorded(r) = request[k]
      BY <2>2, <3>1 DEF SameFingerprint, Recorded
    <3>3. request[k] = [of |-> r, result |-> request[k].result]
      <4>1. request[k] \in RequestRow \union {Absent}
        BY <1>2, <3>1 DEF CtInv, CtTypeOK
      <4>2. QED
        BY <3>2, <4>1 DEF RequestRow
    <3>4. PICK a : a = [request |-> r, result |-> request[k].result] /\ created' = created \union {a}
      BY <2>2, <3>2 DEF Answer
    <3>5. CreationsTold' = CreationsTold \union {<<k, request[k]>>}
      BY <3>1, <3>3, <3>4, CreationTold
    <3>6. Creations!Repeat(k)
      BY <2>2, <3>2, <3>5 DEF Creations!Repeat
    <3>7. QED
      BY <3>6 DEF Creations!OnceNext
  <2>3. ASSUME NEW r \in Creation, NEW x \in Perfume \union VariantId, Record(r, x)
        PROVE  Creations!OnceNext
    <3>1. PICK k \in {"PERFUME", "VARIANT"} \X CreateKey : k = <<r.entity, r.key>>
      BY CreationKey
    <3>2. PICK row : row = [of |-> r, result |-> x]
      OBVIOUS
    <3>3. request[k] = Absent /\ request' = [request EXCEPT ![k] = row] /\ row # Absent
      BY <2>3, <3>1, <3>2, AbsentIsNoRow DEF Record, Recorded
    <3>4. request'[k] = row
      BY <1>2, <3>1, <3>3 DEF CtInv, CtTypeOK
    <3>5. PICK a : a = [request |-> r, result |-> x] /\ created' = created \union {a}
      BY <2>3 DEF Record
    <3>6. CreationsTold' = CreationsTold \union {<<k, row>>}
      BY <3>1, <3>2, <3>5, CreationTold
    <3>7. Creations!Accept(k)
      BY <3>3, <3>4, <3>6 DEF Creations!Accept
    <3>8. QED
      BY <3>7 DEF Creations!OnceNext
  <2>4. QED
    BY <1>2, <2>1, <2>2, <2>3, CreationSteps
<1>3. QED
  BY <1>1, <1>2, CatalogueInvariant, PTL DEF CtSpec, CreationsAreOnce, Creations!OnceSpec

\* createVariant, updateVariant, update and archive claim the perfume's revision:
\* whatever changes of a perfume or of its variants, its revision advances by
\* one, and no perfume disappears.
THEOREM RevisionsAdvance == CtSpec => [][RowsAdvance]_ctVars
<1>1. ASSUME CtInv, CtNext PROVE RowsAdvance
  <2>1. ASSUME NEW p \in Process,
               \/ CtAbandon(p) \/ Opened(p) \/ CreateVariantLoad(p) \/ CreateReplay(p)
               \/ \E f \in Perfume : Open(p, f)
               \/ \E r \in Creation : Create(p, r)
               \/ \E edit \in PerfumeForm \union VariantForm : EditLoad(p, edit)
        PROVE  RowsAdvance
    <3>1. UNCHANGED <<perfume, variant>>
      BY <2>1 DEF CtAbandon, Opened, CreateVariantLoad, CreateReplay, Open, Create, EditLoad, ctRows
    <3>2. QED
      BY <3>1, RowsStay
  <2>2. ASSUME NEW p \in Process,
               \/ EditCommit(p) \/ ConfirmArchive(p)
               \/ \E f \in Perfume : CreatePerfume(p, f)
               \/ \E w \in VariantId : CreateVariant(p, w)
        PROVE  RowsAdvance
    BY <1>1, <2>2, EditHolds, ArchiveHolds, CreatePerfumeHolds, CreateVariantHolds
  <2>3. QED
    BY <1>1, <2>1, <2>2 DEF CtNext
<1>2. QED
  BY <1>1, CatalogueInvariant, PTL DEF CtSpec

-----------------------------------------------------------------------------
(* Customer profiles *)

CustomerRow ==
    [active : BOOLEAN, revision : Nat, delivery : Address \union {Unset}, billing : Address \union {Unset},
     same : BOOLEAN]
Preferences == Taste \union {Unset}
MadeIdentity == [from : Preferences, stale : BOOLEAN]
ProfileRow == [exists : BOOLEAN, taste : Preferences, identity : MadeIdentity \union {Unset}]

\* A request reads the customer, then the profile, and may then change them.
LoadCall == [pc : {"customer"}] \union [pc : {"customer"}, form : Form, revision : Nat]
ShowCall == [pc : {"profile"}, customer : CustomerRow]
CheckCall == [pc : {"profile"}, form : Form, revision : Nat, customer : CustomerRow]
MutateCall == [pc : {"mutate"}, form : Form, revision : Nat, taste : Preferences]
PfCall == {Idle} \union LoadCall \union ShowCall \union CheckCall \union MutateCall

PfTypeOK ==
    /\ customer \in CustomerRow
    /\ profile \in ProfileRow
    /\ seen \in [Process -> [customer : CustomerRow, profile : ProfileRow] \union {Unset}]
    /\ pfCall \in [Process -> PfCall]

\* The revision that a request has read is the customer's or an earlier one, and
\* a mutation that may still claim its revision has read the present preferences.
PfCallFacts(c) ==
    /\ c.pc = "profile" => c.customer.revision <= customer.revision
    /\ c.pc = "mutate" => /\ c.revision <= customer.revision
                          /\ c.revision = customer.revision => c.taste = profile.taste

PfInv ==
    /\ PfTypeOK
    /\ \A p \in Process : PfCallFacts(pfCall[p])
    /\ CurrentIdentityFits

-----------------------------------------------------------------------------
LEMMA PfCallFields ==
    ASSUME NEW c \in PfCall
    PROVE  /\ c.pc = "customer" => c \in LoadCall
           /\ c.pc = "profile" => c \in ShowCall \union CheckCall
           /\ c.pc = "profile" /\ "form" \in DOMAIN c => c \in CheckCall
           /\ c.pc = "profile" => c.customer \in CustomerRow
           /\ c.pc = "mutate" => c \in MutateCall
           /\ Idle \in PfCall /\ Idle.pc = "idle"
BY DEF PfCall, Idle, LoadCall, ShowCall, CheckCall, MutateCall

\* A step of one request that changes neither the revision nor the preferences.
LEMMA PfReadStep ==
    ASSUME PfInv, NEW p \in Process, NEW c \in PfCall, PfGoto(p, c), PfCallFacts(c),
           UNCHANGED customer,
           profile' \in ProfileRow, profile'.taste = profile.taste, profile'.identity = profile.identity,
           seen' \in [Process -> [customer : CustomerRow, profile : ProfileRow] \union {Unset}]
    PROVE  PfInv'
<1>1. PfTypeOK'
  BY DEF PfInv, PfTypeOK, PfGoto
<1>2. ASSUME NEW q \in Process PROVE PfCallFacts(pfCall[q])'
  BY DEF PfInv, PfTypeOK, PfGoto, PfCallFacts
<1>3. CurrentIdentityFits'
  BY DEF PfInv, CurrentIdentityFits
<1>4. QED
  BY <1>1, <1>2, <1>3 DEF PfInv

LEMMA PfInitHolds == PfInit => PfInv
<1> SUFFICES ASSUME PfInit PROVE PfInv
  OBVIOUS
<1>1. customer \in CustomerRow
  BY DEF PfInit, CustomerRow
<1>2. profile \in ProfileRow /\ profile.identity = Unset
  <2>1. CASE profile \in [exists : {TRUE}, taste : Taste, identity : {Unset}]
    BY <2>1 DEF ProfileRow, Preferences
  <2>2. CASE profile = [exists |-> FALSE, taste |-> Unset, identity |-> Unset]
    BY <2>2 DEF ProfileRow, Preferences
  <2>3. QED
    BY <2>1, <2>2 DEF PfInit
<1>3. \A p \in Process : seen[p] = Unset /\ pfCall[p] = Idle
  BY DEF PfInit, AllIdle
<1>4. PfTypeOK
  BY <1>1, <1>2 DEF PfInit, PfTypeOK, AllIdle, PfCall
<1>5. QED
  BY <1>2, <1>3, <1>4 DEF PfInv, PfCallFacts, CurrentIdentityFits, Idle

-----------------------------------------------------------------------------
LEMMA PfReads ==
    ASSUME PfInv, NEW p \in Process,
           \/ PfAbandon(p) \/ GetProfile(p) \/ LoadCustomer(p) \/ LoadProfile(p)
           \/ \E f \in Form : Submit(p, f)
    PROVE  PfInv'
<1>0. customer \in CustomerRow /\ profile \in ProfileRow /\ pfCall[p] \in PfCall /\ PfCallFacts(pfCall[p])
      /\ customer.revision \in Nat
  BY DEF PfInv, PfTypeOK, CustomerRow
<1>1. CASE PfAbandon(p)
  <2>1. Idle \in PfCall /\ PfCallFacts(Idle) /\ PfGoto(p, Idle) /\ UNCHANGED <<customer, profile, seen>>
    BY <1>1 DEF PfAbandon, PfCall, PfCallFacts, Idle, pfRows
  <2>2. QED
    BY <1>0, <2>1, PfReadStep DEF PfInv, PfTypeOK
<1>2. ASSUME NEW c \in LoadCall, LoadStart(p, c) PROVE PfInv'
  <2>1. profile' \in ProfileRow /\ profile'.taste = profile.taste /\ profile'.identity = profile.identity
    BY <1>0, <1>2 DEF LoadStart, ProfileRow
  <2>2. c \in PfCall /\ PfCallFacts(c)
    BY DEF PfCall, LoadCall, PfCallFacts
  <2>3. QED
    BY <1>2, <2>1, <2>2, PfReadStep DEF LoadStart, PfInv, PfTypeOK
<1>3. CASE GetProfile(p)
  BY <1>2, <1>3 DEF GetProfile, LoadCall
<1>4. ASSUME NEW f \in Form, Submit(p, f) PROVE PfInv'
  <2>1. seen[p].customer.revision \in Nat
    BY <1>4 DEF Submit, PfInv, PfTypeOK, CustomerRow
  <2>2. [pc |-> "customer", form |-> f, revision |-> seen[p].customer.revision] \in LoadCall
    BY <2>1 DEF LoadCall
  <2>3. QED
    BY <1>2, <1>4, <2>2 DEF Submit
<1>5. CASE LoadCustomer(p)
  <2>1. pfCall[p] \in LoadCall
    BY <1>0, <1>5, PfCallFields DEF LoadCustomer
  <2>2. PICK c : /\ PfGoto(p, c)
                 /\ c = IF "form" \notin DOMAIN pfCall[p] THEN [pc |-> "profile", customer |-> customer]
                        ELSE [pc |-> "profile", form |-> pfCall[p].form, revision |-> pfCall[p].revision,
                              customer |-> customer]
    BY <1>5 DEF LoadCustomer
  <2>3. c \in ShowCall \union CheckCall /\ c.customer = customer
    BY <1>0, <2>1, <2>2 DEF LoadCall, ShowCall, CheckCall
  <2>4. c \in PfCall /\ c.pc = "profile"
    BY <2>3 DEF PfCall, ShowCall, CheckCall
  <2>5. PfCallFacts(c)
    BY <1>0, <2>3, <2>4 DEF PfCallFacts
  <2>6. QED
    BY <1>0, <1>5, <2>2, <2>4, <2>5, PfReadStep DEF PfInv, PfTypeOK, LoadCustomer, pfRows
<1>6. CASE LoadProfile(p)
  <2> DEFINE c == pfCall[p]
  <2>1. c.pc = "profile" /\ c.customer \in CustomerRow /\ c.customer.revision <= customer.revision
        /\ UNCHANGED <<customer, profile>>
    BY <1>0, <1>6, PfCallFields DEF LoadProfile, PfCallFacts
  <2>2. CASE "form" \notin DOMAIN c
    <3>1. PICK s \in [customer : CustomerRow, profile : ProfileRow] : s = [customer |-> c.customer, profile |-> profile]
      BY <1>0, <2>1
    <3>2. seen' = [seen EXCEPT ![p] = s] /\ PfGoto(p, Idle)
      BY <1>6, <2>2, <3>1 DEF LoadProfile
    <3>3. seen' \in [Process -> [customer : CustomerRow, profile : ProfileRow] \union {Unset}]
      BY <3>2 DEF PfInv, PfTypeOK
    <3>4. Idle \in PfCall /\ PfCallFacts(Idle)
      BY DEF PfCall, PfCallFacts, Idle
    <3>5. QED
      BY <1>0, <2>1, <3>2, <3>3, <3>4, PfReadStep
  <2>3. CASE "form" \in DOMAIN c
    <3>1. c.form \in Form /\ c.revision \in Nat
      BY <1>0, <2>1, <2>3, PfCallFields DEF CheckCall
    <3>2. PICK d : d = [pc |-> "mutate", form |-> c.form, revision |-> c.revision, taste |-> profile.taste]
      OBVIOUS
    <3>3. d \in MutateCall
      BY <1>0, <3>1, <3>2 DEF MutateCall, ProfileRow
    <3>4. c.customer.revision = c.revision /\ PfGoto(p, d) /\ UNCHANGED seen
      BY <1>6, <2>3, <3>2 DEF LoadProfile
    <3>5. d \in PfCall /\ PfCallFacts(d)
      BY <2>1, <3>2, <3>3, <3>4 DEF PfCall, PfCallFacts
    <3>6. QED
      BY <1>0, <2>1, <3>4, <3>5, PfReadStep DEF PfInv, PfTypeOK
  <2>4. QED
    BY <2>2, <2>3
<1>7. QED
  BY <1>1, <1>3, <1>4, <1>5, <1>6

\* The claim of the revision makes the preferences that the identity is made
\* from the present ones.
LEMMA MutateHolds == ASSUME PfInv, NEW p \in Process, Mutate(p) PROVE PfInv'
<1> DEFINE c == pfCall[p]
           f == c.form
           claimed == [customer EXCEPT !.revision = NextRevision]
<1>1. c \in MutateCall /\ c.revision = customer.revision /\ c.taste = profile.taste
      /\ customer \in CustomerRow /\ profile \in ProfileRow
  <2>1. c \in PfCall /\ PfCallFacts(c) /\ customer \in CustomerRow /\ profile \in ProfileRow
    BY DEF PfInv, PfTypeOK
  <2>2. QED
    BY <2>1, PfCallFields DEF Mutate, ClaimsProfile, PfCallFacts
<1>2. f \in Form /\ customer.revision \in Nat
  BY <1>1 DEF MutateCall, CustomerRow
<1>3. claimed \in CustomerRow /\ claimed.revision = customer.revision + 1
  BY <1>1, <1>2 DEF NextRevision, CustomerRow
<1>4. /\ f.kind = "update" => f.taste \in Preferences
      /\ f.kind \in {"delivery", "billing"} => f.address \in Address
  BY <1>2 DEF Form, Preferences
<1>5. customer' \in CustomerRow /\ customer'.revision = customer.revision + 1
  BY <1>3, <1>4 DEF Mutate, CustomerRow
<1>6. profile' \in ProfileRow /\ CurrentIdentityFits'
  <2>1. CASE f.kind = "update"
    <3>1. profile' = [profile EXCEPT !.taste = f.taste, !.identity = Stale(@)]
      BY <2>1 DEF Mutate
    <3>2. Stale(profile.identity) \in MadeIdentity \union {Unset}
          /\ (Stale(profile.identity) # Unset => Stale(profile.identity).stale)
      BY <1>1 DEF ProfileRow, MadeIdentity, Stale
    <3>3. profile' \in ProfileRow /\ profile'.identity = Stale(profile.identity)
      BY <1>1, <1>4, <2>1, <3>1, <3>2 DEF ProfileRow
    <3>4. QED
      BY <3>2, <3>3 DEF CurrentIdentityFits
  <2>2. CASE f.kind = "generate"
    <3>1. PICK identity \in MadeIdentity : identity = [from |-> c.taste, stale |-> FALSE]
      BY <1>1 DEF MutateCall, MadeIdentity
    <3>2. profile' = [profile EXCEPT !.identity = identity]
      BY <2>2, <3>1 DEF Mutate
    <3>3. profile' \in ProfileRow /\ profile'.identity = identity /\ profile'.taste = profile.taste
      BY <1>1, <3>2 DEF ProfileRow
    <3>4. QED
      BY <1>1, <3>1, <3>3 DEF CurrentIdentityFits
  <2>3. CASE f.kind \notin {"update", "generate"}
    <3>1. profile' = profile
      BY <2>3 DEF Mutate
    <3>2. QED
      BY <1>1, <3>1 DEF PfInv, CurrentIdentityFits
  <2>4. QED
    BY <2>1, <2>2, <2>3
<1>7. PICK d \in LoadCall : d = [pc |-> "customer"]
  BY DEF LoadCall
<1>8. PfGoto(p, d) /\ UNCHANGED seen /\ d \in PfCall
  BY <1>7 DEF Mutate, PfCall
<1>9. PfTypeOK'
  BY <1>5, <1>6, <1>8 DEF PfInv, PfTypeOK, PfGoto
<1>10. ASSUME NEW q \in Process PROVE PfCallFacts(pfCall[q])'
  <2>1. CASE q = p
    BY <1>7, <1>8, <2>1 DEF PfInv, PfTypeOK, PfGoto, PfCallFacts
  <2>2. CASE q # p
    <3>1. PICK e \in PfCall : e = pfCall[q] /\ e = pfCall'[q] /\ PfCallFacts(e)
      BY <1>8, <2>2 DEF PfInv, PfTypeOK, PfGoto
    <3>2. /\ e.pc = "profile" => e.customer.revision \in Nat
          /\ e.pc = "mutate" => e.revision \in Nat
      BY PfCallFields DEF CustomerRow, MutateCall
    <3>3. PfCallFacts(e)'
      BY <1>2, <1>5, <3>1, <3>2 DEF PfCallFacts
    <3>4. QED
      BY <3>1, <3>3 DEF PfCallFacts
  <2>3. QED
    BY <2>1, <2>2
<1>11. QED
  BY <1>6, <1>9, <1>10 DEF PfInv

LEMMA PfNextHolds == ASSUME PfInv, [PfNext]_pfVars PROVE PfInv'
<1>1. CASE UNCHANGED pfVars
  BY <1>1 DEF pfVars, pfRows, PfInv, PfTypeOK, PfCallFacts, CurrentIdentityFits
<1>2. CASE PfDeactivate
  <2>1. customer' \in CustomerRow /\ customer'.revision = customer.revision
    BY <1>2 DEF PfDeactivate, PfInv, PfTypeOK, CustomerRow
  <2>2. QED
    BY <1>2, <2>1 DEF PfDeactivate, PfInv, PfTypeOK, PfCallFacts, CurrentIdentityFits
<1>3. ASSUME NEW p \in Process,
             \/ PfAbandon(p) \/ GetProfile(p) \/ LoadCustomer(p) \/ LoadProfile(p)
             \/ \E f \in Form : Submit(p, f)
      PROVE  PfInv'
  BY <1>3, PfReads
<1>4. ASSUME NEW p \in Process, Mutate(p) PROVE PfInv'
  BY <1>4, MutateHolds
<1>5. QED
  BY <1>1, <1>2, <1>3, <1>4 DEF PfNext

\* A revision that was read is the customer's or an earlier one, and a mutation
\* that may still claim its revision has read the present preferences.
THEOREM ProfileInvariant == PfSpec => []PfInv
<1>1. PfInit => PfInv
  BY PfInitHolds
<1>2. PfInv /\ [PfNext]_pfVars => PfInv'
  BY PfNextHolds
<1>3. QED
  BY <1>1, <1>2, PTL DEF PfSpec

\* mutate claims the revision that was read before the identity was made from the
\* preferences: an identity that is not stale was made from the current ones.
THEOREM IdentitiesFit == PfSpec => []CurrentIdentityFits
<1>1. PfInv => CurrentIdentityFits
  BY DEF PfInv
<1>2. QED
  BY <1>1, ProfileInvariant, PTL

-----------------------------------------------------------------------------
(* The support assistant *)

AskSteps == {"sent", "opened", "waiting", "replied", "ok", "failed"}

\* A request keeps its fields; its step and its provider's change.
IsAsk(a) ==
    /\ {"turn", "step", "provider"} \subseteq DOMAIN a /\ a = [field \in DOMAIN a |-> a[field]]
    /\ a.step \in AskSteps

SpTypeOK ==
    /\ asks \in Seq({asks[n] : n \in DOMAIN asks}) /\ Len(asks) <= MaxAsks
    /\ \A n \in DOMAIN asks : IsAsk(asks[n])
    /\ conversation = [n \in AskId |-> conversation[n]]

Holding(turn, messages) == [turn |-> turn, messages |-> messages]
Question == <<"CUSTOMER">>
QuestionAndReply == Append(Question, "ASSISTANT")

\* What an ask has recorded at its step: the reply only when it is answered.
AskRecorded(a, c) ==
    /\ a.step = "sent" => c = NoAsk
    /\ a.step = "opened" => c = Holding(a.turn, <<>>)
    /\ a.step \in {"waiting", "replied"} => c = Holding(a.turn, Question)
    /\ a.step = "ok" => c = Holding(a.turn, QuestionAndReply)
    /\ a.step = "failed" => c \in {NoAsk, Holding(a.turn, <<>>), Holding(a.turn, Question)}

SpInv ==
    /\ SpTypeOK
    /\ \A n \in DOMAIN asks : AskRecorded(asks[n], conversation[n])
    /\ \A n \in AskId : n > Len(asks) => conversation[n] = NoAsk

-----------------------------------------------------------------------------
LEMMA SpInitHolds == SpInit => SpInv
BY SupportAssumption DEF SpInit, SpInv, SpTypeOK, AskId

LEMMA NoAskSent ==
    ASSUME SpInv, UNCHANGED <<asks, conversation>>
    PROVE  SpInv'
BY DEF SpInv, SpTypeOK

LEMMA SendHolds ==
    ASSUME SpInv, NEW turn, NEW link, Send(turn, AskOf(link)), UNCHANGED conversation
    PROVE  SpInv'
<1>1. PICK history, products :
          AskOf(link) = [turn |-> 0, history |-> history, products |-> products, step |-> "sent", provider |-> "none"]
  BY DEF AskOf
<1>2. PICK a : a = [turn |-> turn, history |-> history, products |-> products, step |-> "sent", provider |-> "none"]
  OBVIOUS
<1>3. asks' = Append(asks, a) /\ Len(asks) < MaxAsks
  BY <1>1, <1>2 DEF Send
<1>4. IsAsk(a) /\ a.step = "sent"
  <2>1. DOMAIN a = {"turn", "history", "products", "step", "provider"}
    BY <1>2
  <2>2. a = [field \in DOMAIN a |-> a[field]]
    BY <1>2, <2>1
  <2>3. a.step = "sent"
    BY <1>2
  <2>4. QED
    BY <2>1, <2>2, <2>3 DEF IsAsk, AskSteps
<1> DEFINE any == {asks[n] : n \in DOMAIN asks} \union {a}
<1>5. asks \in Seq(any) /\ a \in any
  <2>1. asks \in Seq({asks[n] : n \in DOMAIN asks})
    BY DEF SpInv, SpTypeOK
  <2>2. \A n \in 1 .. Len(asks) : asks[n] \in any
    BY <2>1
  <2>3. QED
    BY <2>1, <2>2
<1> HIDE DEF any
<1>6. Len(asks) \in Nat /\ DOMAIN asks = 1 .. Len(asks)
  BY <1>5
<1>7. /\ asks' \in Seq(any) /\ Len(asks') = Len(asks) + 1 /\ DOMAIN asks' = 1 .. Len(asks')
      /\ \A n \in DOMAIN asks : n \in DOMAIN asks' /\ asks'[n] = asks[n]
      /\ asks'[Len(asks')] = a
      /\ \A n \in DOMAIN asks' : n \in DOMAIN asks \/ n = Len(asks')
  BY <1>3, <1>5, <1>6
<1>8. asks' \in Seq({asks'[n] : n \in DOMAIN asks'})
  BY <1>7
<1>9. Len(asks) + 1 \in AskId /\ Len(asks) + 1 > Len(asks)
  BY <1>3, <1>6, SupportAssumption DEF AskId
<1>10. SpTypeOK'
  <2>1. Len(asks') <= MaxAsks
    BY <1>3, <1>6, <1>7, SupportAssumption
  <2>2. \A n \in DOMAIN asks' : IsAsk(asks'[n])
    BY <1>4, <1>7 DEF SpInv, SpTypeOK
  <2>3. QED
    BY <1>8, <2>1, <2>2 DEF SpInv, SpTypeOK
<1>11. ASSUME NEW n \in DOMAIN asks' PROVE AskRecorded(asks'[n], conversation'[n])
  <2>1. CASE n \in DOMAIN asks
    BY <1>7, <2>1 DEF SpInv
  <2>2. CASE n = Len(asks) + 1
    <3>1. conversation'[n] = NoAsk /\ asks'[n] = a
      BY <1>7, <1>9, <2>2 DEF SpInv
    <3>2. QED
      BY <1>4, <3>1 DEF AskRecorded
  <2>3. QED
    BY <1>7, <2>1, <2>2
<1>12. \A n \in AskId : n > Len(asks') => conversation'[n] = NoAsk
  BY <1>6, <1>7, SupportAssumption DEF SpInv, AskId
<1>13. QED
  BY <1>10, <1>11, <1>12 DEF SpInv

LEMMA AskFields ==
    ASSUME SpInv
    PROVE  /\ Len(asks) \in Nat /\ DOMAIN asks = 1 .. Len(asks)
           /\ \A n \in DOMAIN asks : /\ n \in AskId /\ n <= Len(asks)
                                     /\ IsAsk(asks[n]) /\ AskRecorded(asks[n], conversation[n])
           /\ DOMAIN conversation = AskId
           /\ conversation = [n \in AskId |-> conversation[n]]
<1>1. asks \in Seq({asks[n] : n \in DOMAIN asks})
  BY DEF SpInv, SpTypeOK
<1>2. Len(asks) \in Nat /\ DOMAIN asks = 1 .. Len(asks) /\ Len(asks) <= MaxAsks
  BY <1>1 DEF SpInv, SpTypeOK
<1>3. DOMAIN asks \subseteq AskId /\ \A n \in DOMAIN asks : n <= Len(asks)
  BY <1>2, SupportAssumption DEF AskId
<1>4. DOMAIN conversation = AskId
  BY DEF SpInv, SpTypeOK
<1>5. conversation = [n \in AskId |-> conversation[n]]
  BY DEF SpInv, SpTypeOK
<1>6. QED
  BY <1>2, <1>3, <1>4, <1>5 DEF SpInv, SpTypeOK

\* One request makes a step, and its conversation is what that step records.
LEMMA ServiceStep ==
    ASSUME SpInv, NEW n \in DOMAIN asks, NEW step \in AskSteps, NEW provider, AskStep(n, step, provider),
           conversation' = [conversation EXCEPT ![n] = conversation'[n]],
           \A a : a.turn = asks[n].turn /\ a.step = step => AskRecorded(a, conversation'[n])
    PROVE  SpInv'
<1>1. n \in AskId /\ n <= Len(asks) /\ IsAsk(asks[n])
  BY AskFields
<1>2. PICK a : a = [asks[n] EXCEPT !.step = step, !.provider = provider]
  OBVIOUS
<1>3. IsAsk(a) /\ a.turn = asks[n].turn /\ a.step = step
  BY <1>1, <1>2 DEF IsAsk
<1>4. asks' = [asks EXCEPT ![n] = a]
  BY <1>2 DEF AskStep
<1>5. /\ DOMAIN asks' = DOMAIN asks /\ Len(asks') = Len(asks)
      /\ \A m \in DOMAIN asks : asks'[m] = IF m = n THEN a ELSE asks[m]
  BY <1>4, AskFields DEF SpInv, SpTypeOK
<1>6. asks' \in Seq({asks'[m] : m \in DOMAIN asks'})
  <2> DEFINE any == {asks'[m] : m \in DOMAIN asks'}
  <2>1. asks' = [m \in 1 .. Len(asks) |-> asks'[m]]
    <3>1. asks = [m \in 1 .. Len(asks) |-> asks[m]]
      BY AskFields DEF SpInv, SpTypeOK
    <3>2. QED
      BY <1>4, <3>1
  <2>2. asks' \in [1 .. Len(asks) -> any]
    BY <1>5, <2>1, AskFields
  <2>3. Len(asks) \in Nat
    BY AskFields
  <2> HIDE DEF any
  <2>4. asks' \in Seq(any)
    BY <2>2, <2>3
  <2>5. QED
    BY <2>4 DEF any
<1>7. SpTypeOK'
  BY <1>1, <1>3, <1>5, <1>6 DEF SpInv, SpTypeOK
<1>8. ASSUME NEW m \in DOMAIN asks' PROVE AskRecorded(asks[m], conversation[m])'
  <2>1. CASE m = n
    BY <1>3, <1>5, <2>1
  <2>2. CASE m # n
    <3>1. conversation'[m] = conversation[m]
      BY <1>5, <2>2, AskFields
    <3>2. QED
      BY <1>5, <2>2, <3>1, AskFields
  <2>3. QED
    BY <2>1, <2>2
<1>9. \A m \in AskId : m > Len(asks') => conversation'[m] = NoAsk
  <2>1. \A m \in AskId : m # n => conversation'[m] = conversation[m]
    BY AskFields
  <2>2. QED
    BY <1>1, <1>5, <2>1, AskFields DEF SpInv, AskId
<1>10. QED
  BY <1>7, <1>8, <1>9 DEF SpInv

LEMMA ServiceHolds ==
    ASSUME SpInv, NEW n \in DOMAIN asks,
           \/ RefuseAsk(n) \/ StartConversation(n) \/ RecordQuestion(n)
           \/ ProviderTimesOut(n) \/ ProviderLate(n) \/ RecordReply(n) \/ AskDies(n)
           \/ \E valid \in BOOLEAN : ProviderReplies(n, valid)
    PROVE  /\ SpInv'
           /\ asks[n].step \in Settled => conversation' = conversation
           /\ conversation' = [conversation EXCEPT ![n] = conversation'[n]]
<1> DEFINE a == asks[n]
           c == conversation[n]
<1>1. n \in AskId /\ IsAsk(a) /\ AskRecorded(a, c) /\ conversation = [m \in AskId |-> conversation[m]]
  BY AskFields
<1>2. ASSUME NEW step \in AskSteps, NEW provider, AskStep(n, step, provider), UNCHANGED conversation,
             \A b : b.turn = a.turn /\ b.step = step => AskRecorded(b, c)
      PROVE  SpInv' /\ conversation' = [conversation EXCEPT ![n] = conversation'[n]]
  <2>1. conversation' = [conversation EXCEPT ![n] = conversation'[n]]
    BY <1>1, <1>2
  <2>2. QED
    BY <1>2, <2>1, ServiceStep
<1>3. CASE RefuseAsk(n)
  BY <1>1, <1>2, <1>3 DEF RefuseAsk, AskRecorded, AskSteps, spRows
<1>4. ASSUME NEW step \in AskSteps, NEW provider, NEW messages, AskStep(n, step, provider),
             conversation' = [conversation EXCEPT ![n] = Holding(a.turn, messages)],
             \A b : b.turn = a.turn /\ b.step = step => AskRecorded(b, Holding(a.turn, messages))
      PROVE  SpInv' /\ conversation' = [conversation EXCEPT ![n] = conversation'[n]]
  <2>1. conversation'[n] = Holding(a.turn, messages)
    BY <1>1, <1>4
  <2>2. QED
    BY <1>4, <2>1, ServiceStep
<1>5. CASE StartConversation(n)
  <2>1. AskStep(n, "opened", "none") /\ a.step = "sent" /\ "opened" \in AskSteps
        /\ conversation' = [conversation EXCEPT ![n] = Holding(a.turn, <<>>)]
    BY <1>5 DEF StartConversation, Holding, AskSteps
  <2>2. \A b : b.turn = a.turn /\ b.step = "opened" => AskRecorded(b, Holding(a.turn, <<>>))
    BY DEF AskRecorded
  <2>3. QED
    BY <1>4, <2>1, <2>2 DEF Settled
<1>6. CASE RecordQuestion(n)
  <2>1. AskStep(n, "waiting", "busy") /\ a.step = "opened" /\ "waiting" \in AskSteps
    BY <1>6 DEF RecordQuestion, AskSteps
  <2>2. c = Holding(a.turn, <<>>)
    BY <1>1, <2>1 DEF AskRecorded
  <2>3. conversation' = [conversation EXCEPT ![n] = [c EXCEPT !.messages = Question]]
    BY <1>6 DEF RecordQuestion, Question
  <2>4. [c EXCEPT !.messages = Question] = Holding(a.turn, Question)
    BY <2>2 DEF Holding
  <2>5. \A b : b.turn = a.turn /\ b.step = "waiting" => AskRecorded(b, Holding(a.turn, Question))
    BY DEF AskRecorded
  <2>6. QED
    BY <1>4, <2>1, <2>3, <2>4, <2>5 DEF Settled
<1>7. ASSUME NEW valid \in BOOLEAN, ProviderReplies(n, valid)
      PROVE  SpInv' /\ a.step = "waiting" /\ conversation' = [conversation EXCEPT ![n] = conversation'[n]]
  <2>1. a.step = "waiting" /\ UNCHANGED conversation /\ c = Holding(a.turn, Question)
    BY <1>1, <1>7 DEF ProviderReplies, AskRecorded, spRows
  <2>2. CASE valid
    <3>1. AskStep(n, "replied", "done") /\ "replied" \in AskSteps
      BY <1>7, <2>2 DEF ProviderReplies, AskSteps
    <3>2. \A b : b.turn = a.turn /\ b.step = "replied" => AskRecorded(b, c)
      BY <2>1 DEF AskRecorded
    <3>3. QED
      BY <1>2, <2>1, <3>1, <3>2
  <2>3. CASE ~valid
    <3>1. AskStep(n, "failed", "done") /\ "failed" \in AskSteps
      BY <1>7, <2>3 DEF ProviderReplies, AskSteps
    <3>2. \A b : b.turn = a.turn /\ b.step = "failed" => AskRecorded(b, c)
      BY <2>1 DEF AskRecorded
    <3>3. QED
      BY <1>2, <2>1, <3>1, <3>2
  <2>4. QED
    BY <2>2, <2>3
<1>8. ASSUME NEW provider, AskStep(n, "failed", provider), UNCHANGED conversation,
             a.step \in {"opened", "waiting", "replied", "failed"}
      PROVE  SpInv' /\ conversation' = [conversation EXCEPT ![n] = conversation'[n]]
  <2>1. c \in {NoAsk, Holding(a.turn, <<>>), Holding(a.turn, Question)}
    BY <1>1, <1>8 DEF AskRecorded
  <2>2. \A b : b.turn = a.turn /\ b.step = "failed" => AskRecorded(b, c)
    BY <2>1 DEF AskRecorded
  <2>3. QED
    BY <1>2, <1>8, <2>2 DEF AskSteps
<1>9. CASE ProviderTimesOut(n)
  BY <1>8, <1>9 DEF ProviderTimesOut, spRows
<1>10. CASE ProviderLate(n)
  BY <1>8, <1>10 DEF ProviderLate, DropsLate
<1>11. CASE AskDies(n)
  BY <1>8, <1>11 DEF AskDies, spRows
<1>12. CASE RecordReply(n)
  <2>1. AskStep(n, "ok", "done") /\ a.step = "replied" /\ "ok" \in AskSteps
    BY <1>12 DEF RecordReply, AskSteps
  <2>2. c = Holding(a.turn, Question)
    BY <1>1, <2>1 DEF AskRecorded
  <2>3. conversation' = [conversation EXCEPT ![n] = [c EXCEPT !.messages = Append(c.messages, "ASSISTANT")]]
    BY <1>1, <1>12 DEF RecordReply, Replies
  <2>4. Append(c.messages, "ASSISTANT") = QuestionAndReply
    <3>1. c.messages = Question
      BY <2>2 DEF Holding
    <3>2. Append(Question, "ASSISTANT") = QuestionAndReply
      BY DEF QuestionAndReply
    <3>3. QED
      BY <3>1, <3>2
  <2>5. [c EXCEPT !.messages = QuestionAndReply] = Holding(a.turn, QuestionAndReply)
    BY <2>2 DEF Holding
  <2>6. \A b : b.turn = a.turn /\ b.step = "ok" => AskRecorded(b, Holding(a.turn, QuestionAndReply))
    BY DEF AskRecorded
  <2>7. QED
    BY <1>4, <2>1, <2>3, <2>4, <2>5, <2>6 DEF Settled
<1>13. QED
  BY <1>3, <1>5, <1>6, <1>7, <1>9, <1>10, <1>11, <1>12
     DEF RefuseAsk, ProviderTimesOut, ProviderLate, AskDies, DropsLate, Settled, spRows

\* The screen's steps send at most an ask.
LEMMA TranscriptHolds ==
    ASSUME SpInv,
           \/ \E i \in Intent : ChangeIntent(i)
           \/ \E status \in {"loaded", "error"} : OrdersArrive(status)
           \/ \E link \in BOOLEAN : AskTurn(link)
           \/ \E t \in DOMAIN transcript :
                \/ RetryTurn(t) \/ SendFeedback(t) \/ RecordFeedback(t)
                \/ \E lost \in BOOLEAN : FeedbackAnswered(t, lost)
           \/ \E n \in DOMAIN asks, lost \in BOOLEAN : AskAnswered(n, lost)
    PROVE  SpInv' /\ UNCHANGED conversation
<1>1. ASSUME NEW link \in BOOLEAN, AskTurn(link) PROVE SpInv' /\ UNCHANGED conversation
  BY <1>1, SendHolds DEF AskTurn, spRows
<1>2. ASSUME NEW t \in DOMAIN transcript, RetryTurn(t) PROVE SpInv' /\ UNCHANGED conversation
  <2>1. Send(t, AskOf(transcript[t].link)) /\ UNCHANGED conversation
    BY <1>2 DEF RetryTurn, spRows
  <2>2. QED
    BY <2>1, SendHolds
<1>3. ASSUME UNCHANGED <<asks, conversation>> PROVE SpInv' /\ UNCHANGED conversation
  BY <1>3, NoAskSent
<1>4. QED
  BY <1>1, <1>2, <1>3 DEF ChangeIntent, OrdersArrive, SendFeedback, RecordFeedback, FeedbackAnswered, AskAnswered,
                          spRows

LEMMA SpNextHolds ==
    ASSUME SpInv, [SpNext]_spVars
    PROVE  SpInv'
<1>1. CASE SpNext
  BY <1>1, TranscriptHolds, ServiceHolds DEF SpNext
<1>2. CASE UNCHANGED spVars
  BY <1>2, NoAskSent DEF spVars, spRows
<1>3. QED
  BY <1>1, <1>2

\* A conversation holds the messages of its ask's step: a question once it is
\* asked, and a reply only when the ask was answered with it.
THEOREM SupportInvariant == SpSpec => []SpInv
<1>1. QED
  BY SpInitHolds, SpNextHolds, PTL DEF SpSpec

\* ask records a reply only inside the deadline of its own request: a provider
\* that comes late changes no conversation that the customer was answered about.
THEOREM LateRepliesAreDropped == SpSpec => LateReplyDropped
<1> DEFINE Kept == \A n \in DOMAIN asks : asks[n].step \in Settled => conversation'[n] = conversation[n]
<1>1. SpInv /\ SpNext => Kept
  <2> SUFFICES ASSUME SpInv, SpNext PROVE Kept
    OBVIOUS
  <2>1. CASE UNCHANGED conversation
    BY <2>1
  <2>2. ASSUME NEW n \in DOMAIN asks,
               asks[n].step \in Settled => conversation' = conversation,
               conversation' = [conversation EXCEPT ![n] = conversation'[n]]
        PROVE  Kept
    BY <2>2, AskFields
  <2>3. QED
    BY <2>1, <2>2, TranscriptHolds, ServiceHolds DEF SpNext
<1>2. SpInv /\ UNCHANGED spVars => Kept
  BY DEF spVars, spRows
<1>3. QED
  BY <1>1, <1>2, SupportInvariant, PTL DEF SpSpec, LateReplyDropped

Turn ==
    [link : BOOLEAN, state : {"pending", "done", "error"}, conversation : AskId \union {NoAsk},
     feedback : {"idle", "sending", "stored", "sent", "error"}]

AnsweredAsk(n) == n \in DOMAIN asks /\ asks[n].step = "ok"

\* What the customer reads is what was recorded: a turn that is done has the
\* conversation of an ask of its own, with its question and its reply, and every
\* rating is of a conversation that was answered.
ShownIsRecorded ==
    /\ \A t \in DOMAIN transcript : transcript[t].state = "done" =>
            conversation[transcript[t].conversation] = Holding(t, QuestionAndReply)
    /\ \A n \in ratings : conversation[n].messages = QuestionAndReply

TurnFacts(t) ==
    /\ transcript[t].state = "done" \/ transcript[t].feedback # "idle" => transcript[t].conversation # NoAsk
    /\ transcript[t].conversation # NoAsk =>
            AnsweredAsk(transcript[t].conversation) /\ asks[transcript[t].conversation].turn = t

TranscriptInv ==
    /\ SpInv
    /\ transcript \in Seq(Turn)
    /\ \A t \in DOMAIN transcript : TurnFacts(t)
    /\ \A n \in ratings : AnsweredAsk(n)

\* An ask that was answered is never served again.
AnsweredStay ==
    \A n \in DOMAIN asks : AnsweredAsk(n) => AnsweredAsk(n)' /\ asks'[n].turn = asks[n].turn

LEMMA ServiceKeeps ==
    ASSUME SpInv, NEW n \in DOMAIN asks,
           \/ RefuseAsk(n) \/ StartConversation(n) \/ RecordQuestion(n)
           \/ ProviderTimesOut(n) \/ ProviderLate(n) \/ RecordReply(n) \/ AskDies(n)
           \/ \E valid \in BOOLEAN : ProviderReplies(n, valid)
    PROVE  AnsweredStay
<1>1. asks[n].step # "ok"
  BY DEF RefuseAsk, StartConversation, RecordQuestion, ProviderTimesOut, ProviderLate, RecordReply, AskDies, ProviderReplies
<1>2. PICK step, provider : AskStep(n, step, provider)
  BY DEF RefuseAsk, StartConversation, RecordQuestion, ProviderTimesOut, ProviderLate, RecordReply, AskDies, ProviderReplies
<1>3. PICK a : asks' = [asks EXCEPT ![n] = a]
  BY <1>2 DEF AskStep
<1>4. asks = [m \in DOMAIN asks |-> asks[m]]
  <2>1. asks \in Seq({asks[m] : m \in DOMAIN asks})
    BY DEF SpInv, SpTypeOK
  <2>2. QED
    BY <2>1
<1>5. DOMAIN asks' = DOMAIN asks /\ \A m \in DOMAIN asks : m # n => asks'[m] = asks[m]
  BY <1>3, <1>4
<1>6. QED
  BY <1>1, <1>5 DEF AnsweredStay, AnsweredAsk

LEMMA SendKeeps ==
    ASSUME SpInv, NEW turn, NEW question, Send(turn, question)
    PROVE  AnsweredStay
<1>1. PICK a : asks' = Append(asks, a)
  BY DEF Send
<1> DEFINE any == {asks[n] : n \in DOMAIN asks} \union {a}
<1>2. asks \in Seq(any) /\ a \in any
  <2>1. asks \in Seq({asks[n] : n \in DOMAIN asks})
    BY DEF SpInv, SpTypeOK
  <2>2. \A n \in 1 .. Len(asks) : asks[n] \in any
    BY <2>1
  <2>3. QED
    BY <2>1, <2>2
<1> HIDE DEF any
<1>3. \A n \in DOMAIN asks : n \in DOMAIN asks' /\ asks'[n] = asks[n]
  BY <1>1, <1>2
<1>4. QED
  BY <1>3 DEF AnsweredStay, AnsweredAsk

\* The transcript grows, or one of its turns changes.
LEMMA TurnsKeep ==
    ASSUME TranscriptInv, SpInv', AnsweredStay, transcript' \in Seq(Turn),
           \A n \in ratings' : n \in ratings \/ AnsweredAsk(n)',
           \A t \in DOMAIN transcript' : TurnFacts(t)' \/ (t \in DOMAIN transcript /\ transcript'[t] = transcript[t])
    PROVE  TranscriptInv'
<1>1. ASSUME NEW t \in DOMAIN transcript, transcript'[t] = transcript[t] PROVE TurnFacts(t)'
  BY <1>1 DEF TranscriptInv, TurnFacts, AnsweredStay, AnsweredAsk
<1>2. \A n \in ratings : AnsweredAsk(n)'
  BY DEF TranscriptInv, AnsweredStay, AnsweredAsk
<1>3. QED
  BY <1>1, <1>2 DEF TranscriptInv

LEMMA TurnChanges ==
    ASSUME TranscriptInv, SpInv', AnsweredStay, NEW t, NEW row \in Turn,
           transcript' = [transcript EXCEPT ![t] = row],
           \A n \in ratings' : n \in ratings \/ AnsweredAsk(n)',
           row.state = "done" \/ row.feedback # "idle" => row.conversation # NoAsk,
           row.conversation # NoAsk => AnsweredAsk(row.conversation)' /\ asks'[row.conversation].turn = t
    PROVE  TranscriptInv'
<1>1. transcript \in [1 .. Len(transcript) -> Turn] /\ Len(transcript) \in Nat /\ DOMAIN transcript = 1 .. Len(transcript)
  BY DEF TranscriptInv
<1>2. transcript' \in [1 .. Len(transcript) -> Turn]
  BY <1>1
<1>3. transcript' \in Seq(Turn) /\ DOMAIN transcript' = DOMAIN transcript
  BY <1>1, <1>2
<1>4. \A s \in DOMAIN transcript' : transcript'[s] = IF s = t THEN row ELSE transcript[s]
  BY <1>1, <1>3
<1>5. \A s \in DOMAIN transcript' : TurnFacts(s)' \/ (s \in DOMAIN transcript /\ transcript'[s] = transcript[s])
  BY <1>3, <1>4 DEF TurnFacts
<1>6. QED
  BY <1>3, <1>5, TurnsKeep

LEMMA AsksStay == ASSUME UNCHANGED asks PROVE AnsweredStay
BY DEF AnsweredStay, AnsweredAsk

LEMMA TranscriptSteps ==
    ASSUME TranscriptInv, SpInv', SpNext
    PROVE  TranscriptInv'
<1>1. \A t \in DOMAIN transcript : transcript[t] \in Turn /\ TurnFacts(t)
  BY DEF TranscriptInv
<1>2. ASSUME UNCHANGED <<transcript, ratings>>, AnsweredStay PROVE TranscriptInv'
  BY <1>2, TurnsKeep DEF TranscriptInv
<1>3. ASSUME NEW link \in BOOLEAN, AskTurn(link) PROVE TranscriptInv'
  <2>1. AnsweredStay
    BY <1>3, SendKeeps DEF AskTurn, TranscriptInv
  <2>2. PICK row \in Turn :
            /\ row = [link |-> link, state |-> "pending", conversation |-> NoAsk, feedback |-> "idle"]
            /\ transcript' = Append(transcript, row)
    BY <1>3 DEF AskTurn, Turn
  <2>3. /\ transcript' \in Seq(Turn)
        /\ \A t \in DOMAIN transcript' : (t \in DOMAIN transcript /\ transcript'[t] = transcript[t]) \/ transcript'[t] = row
    BY <2>2 DEF TranscriptInv
  <2>4. row.state = "pending" /\ row.conversation = NoAsk /\ row.feedback = "idle"
    BY <2>2
  <2>5. \A t \in DOMAIN transcript' : TurnFacts(t)' \/ (t \in DOMAIN transcript /\ transcript'[t] = transcript[t])
    BY <2>3, <2>4 DEF TurnFacts
  <2>6. QED
    BY <1>3, <2>1, <2>3, <2>5, TurnsKeep DEF AskTurn, spRows
<1>4. ASSUME NEW t \in DOMAIN transcript, RetryTurn(t) PROVE TranscriptInv'
  <2>1. AnsweredStay
    BY <1>4, SendKeeps DEF RetryTurn, TranscriptInv
  <2>2. PICK row : row = [transcript[t] EXCEPT !.state = "pending"] /\ transcript' = [transcript EXCEPT ![t] = row]
    BY <1>4 DEF RetryTurn
  <2>3. row \in Turn /\ row.state = "pending" /\ row.conversation = transcript[t].conversation
        /\ row.feedback = transcript[t].feedback
    BY <1>1, <2>2 DEF Turn
  <2>4. row.state = "done" \/ row.feedback # "idle" => row.conversation # NoAsk
    BY <1>1, <2>3 DEF TurnFacts
  <2>5. row.conversation # NoAsk => AnsweredAsk(row.conversation)' /\ asks'[row.conversation].turn = t
    BY <1>1, <2>1, <2>3 DEF TurnFacts, AnsweredStay, AnsweredAsk
  <2>6. UNCHANGED ratings
    BY <1>4 DEF RetryTurn, spRows
  <2>7. QED
    BY <2>1, <2>2, <2>3, <2>4, <2>5, <2>6, TurnChanges
<1>5. ASSUME NEW t \in DOMAIN transcript, NEW value \in {"sending", "stored", "sent", "error"}, Feedback(t, value),
             transcript[t].conversation # NoAsk, UNCHANGED asks,
             \A n \in ratings' : n \in ratings \/ n = transcript[t].conversation
      PROVE  TranscriptInv'
  <2>1. PICK row : row = [transcript[t] EXCEPT !.feedback = value] /\ transcript' = [transcript EXCEPT ![t] = row]
    BY <1>5 DEF Feedback
  <2>2. row \in Turn /\ row.conversation = transcript[t].conversation
    BY <1>1, <1>5, <2>1 DEF Turn
  <2>3. AnsweredAsk(row.conversation)' /\ asks'[row.conversation].turn = t
    BY <1>1, <1>5, <2>2 DEF TurnFacts, AnsweredAsk
  <2>4. QED
    BY <1>5, <2>1, <2>2, <2>3, TurnChanges, AsksStay
<1>6. ASSUME NEW t \in DOMAIN transcript,
             SendFeedback(t) \/ RecordFeedback(t) \/ \E lost \in BOOLEAN : FeedbackAnswered(t, lost)
      PROVE  TranscriptInv'
  <2>1. transcript[t].conversation # NoAsk
    BY <1>1, <1>6 DEF SendFeedback, RecordFeedback, FeedbackAnswered, TurnFacts
  <2>2. QED
    BY <1>5, <1>6, <2>1 DEF SendFeedback, RecordFeedback, FeedbackAnswered, spRows
<1>7. ASSUME NEW n \in DOMAIN asks, NEW lost \in BOOLEAN, AskAnswered(n, lost) PROVE TranscriptInv'
  <2> DEFINE t == asks[n].turn
  <2>1. n \in AskId /\ n # NoAsk
    BY AskFields, SupportAssumption DEF TranscriptInv, AskId
  <2>2. UNCHANGED <<asks, ratings>>
    BY <1>7 DEF AskAnswered, spRows
  <2>3. PICK row : /\ transcript' = [transcript EXCEPT ![t] = row]
                   /\ \/ /\ asks[n].step = "ok"
                         /\ row = [transcript[t] EXCEPT !.state = "done", !.conversation = n, !.feedback = "idle"]
                      \/ row = [transcript[t] EXCEPT !.state = "error"]
    BY <1>7 DEF AskAnswered, TurnOf
  <2>4. CASE t \in DOMAIN transcript /\ asks[n].step = "ok"
             /\ row = [transcript[t] EXCEPT !.state = "done", !.conversation = n, !.feedback = "idle"]
    <3>1. row \in Turn /\ row.conversation = n
      BY <1>1, <2>1, <2>4 DEF Turn
    <3>2. AnsweredAsk(n)' /\ asks'[n].turn = t
      BY <2>2, <2>4 DEF AnsweredAsk
    <3>3. QED
      BY <2>1, <2>2, <2>3, <3>1, <3>2, TurnChanges, AsksStay
  <2>5. CASE t \in DOMAIN transcript /\ row = [transcript[t] EXCEPT !.state = "error"]
    <3>1. row \in Turn /\ row.state = "error" /\ row.conversation = transcript[t].conversation
          /\ row.feedback = transcript[t].feedback
      BY <1>1, <2>5 DEF Turn
    <3>2. QED
      BY <1>1, <2>2, <2>3, <2>5, <3>1, TurnChanges, AsksStay DEF TurnFacts, AnsweredAsk
  <2>6. CASE t \notin DOMAIN transcript
    <3>1. transcript' = transcript
      <4>1. transcript = [s \in DOMAIN transcript |-> transcript[s]]
        BY DEF TranscriptInv
      <4>2. QED
        BY <2>3, <2>6, <4>1
    <3>2. QED
      BY <1>2, <2>2, <3>1, AsksStay
  <2>7. QED
    BY <2>3, <2>4, <2>5, <2>6
<1>8. ASSUME NEW n \in DOMAIN asks,
             \/ RefuseAsk(n) \/ StartConversation(n) \/ RecordQuestion(n)
             \/ ProviderTimesOut(n) \/ ProviderLate(n) \/ RecordReply(n) \/ AskDies(n)
             \/ \E valid \in BOOLEAN : ProviderReplies(n, valid)
      PROVE  TranscriptInv'
  <2>1. UNCHANGED <<transcript, ratings>>
    BY <1>8 DEF RefuseAsk, StartConversation, RecordQuestion, ProviderTimesOut, ProviderLate, RecordReply, AskDies,
                ProviderReplies, spScreen, spRows
  <2>2. AnsweredStay
    BY <1>8, ServiceKeeps DEF TranscriptInv
  <2>3. QED
    BY <1>2, <2>1, <2>2
<1>9. ASSUME (\E i \in Intent : ChangeIntent(i)) \/ (\E status \in {"loaded", "error"} : OrdersArrive(status))
      PROVE  TranscriptInv'
  BY <1>2, <1>9, AsksStay DEF ChangeIntent, OrdersArrive, spRows
<1>10. QED
  BY <1>3, <1>4, <1>6, <1>7, <1>8, <1>9 DEF SpNext

\* ask answers with the reply that it recorded, and the transcript finds the turn
\* by its request: whatever was lost, retried and late, the customer reads the
\* reply to the turn's own question, and rates a conversation that was answered.
THEOREM RepliesAreShownAsRecorded == SpSpec => []ShownIsRecorded
<1>1. SpInit => TranscriptInv
  BY SpInitHolds DEF SpInit, TranscriptInv
<1>2. TranscriptInv /\ SpInv' /\ [SpNext]_spVars => TranscriptInv'
  <2>1. ASSUME TranscriptInv, SpInv', UNCHANGED spVars PROVE TranscriptInv'
    BY <2>1, TurnsKeep, AsksStay DEF spVars, spScreen, spRows, TranscriptInv
  <2>2. QED
    BY <2>1, TranscriptSteps
<1>3. TranscriptInv => ShownIsRecorded
  <2> SUFFICES ASSUME TranscriptInv PROVE ShownIsRecorded
    OBVIOUS
  <2>1. ASSUME NEW n, AnsweredAsk(n) PROVE conversation[n] = Holding(asks[n].turn, QuestionAndReply)
    BY <2>1, AskFields DEF TranscriptInv, AnsweredAsk, AskRecorded
  <2>2. ASSUME NEW t \in DOMAIN transcript, transcript[t].state = "done"
        PROVE  conversation[transcript[t].conversation] = Holding(t, QuestionAndReply)
    <3>1. AnsweredAsk(transcript[t].conversation) /\ asks[transcript[t].conversation].turn = t
      BY <2>2 DEF TranscriptInv, TurnFacts
    <3>2. QED
      BY <2>1, <3>1
  <2>3. ASSUME NEW n \in ratings PROVE conversation[n].messages = QuestionAndReply
    <3>1. conversation[n] = Holding(asks[n].turn, QuestionAndReply)
      BY <2>1 DEF TranscriptInv
    <3>2. QED
      BY <3>1 DEF Holding
  <2>4. QED
    BY <2>2, <2>3 DEF ShownIsRecorded
<1>4. QED
  BY <1>1, <1>2, <1>3, SupportInvariant, PTL DEF SpSpec

-----------------------------------------------------------------------------
(* The quiz and its recommendations *)

LiveState == [version : Nat, perfumes : SUBSET Scent, values : SUBSET Value, changes : Nat]
GivenAnswers == [Asked -> SUBSET Value]
ViewState ==
    [quiz : {"loading", "ready", "error"}, version : Nat, answers : GivenAnswers, at : Nat,
     sent : {Idle} \union [pc : {"sent"}, of : Submission], result : {"none", "shown"}]
ServingStage ==
    {"recommend", "provider", "persist", "storeRun", "fallback", "storeFallback", "answered", "refused"}
Serving ==
    [pc : ServingStage, input : [version : Nat, answers : GivenAnswers], items : SUBSET Scent, runs : Nat]

DsTypeOK ==
    /\ live \in LiveState
    /\ view \in ViewState
    /\ serving \in [Submission -> {Idle} \union Serving]
    /\ since \in [Submission -> SUBSET Scent]

\* Nothing is stored before the last transaction; since the provider answered,
\* what is public now was public at some time.
ServingFacts(c, public, s) ==
    /\ c.pc \notin {"idle", "answered", "refused"} => c.runs = 0
    /\ c.pc = "answered" => c.runs = 1
    /\ c.pc = "refused" => c.runs <= 1
    /\ c.pc \in {"persist", "storeRun"} => public \subseteq s
    /\ c.pc = "storeRun" => c.items \subseteq s

DsInv ==
    /\ DsTypeOK
    /\ \A p \in Submission : ServingFacts(serving[p], live.perfumes, since[p])

-----------------------------------------------------------------------------
LEMMA DsInitHolds == DsInit => DsInv
<1> SUFFICES ASSUME DsInit PROVE DsInv
  OBVIOUS
<1>1. live \in LiveState
  BY DEF DsInit, LiveState
<1>2. NoAnswers \in GivenAnswers
  BY DEF NoAnswers, GivenAnswers
<1>3. view \in ViewState
  BY <1>2 DEF DsInit, ViewState
<1>4. QED
  BY <1>1, <1>3 DEF DsInit, DsInv, DsTypeOK, ServingFacts, Idle

\* The screen alone changes.
LEMMA ScreenStep ==
    ASSUME DsInv, view' \in ViewState, UNCHANGED <<live, serving, since>>
    PROVE  DsInv'
BY DEF DsInv, DsTypeOK

\* One submission moves on, its reads being the present ones.
LEMMA ServingStep ==
    ASSUME DsInv, NEW p \in Submission, NEW c \in {Idle} \union Serving,
           serving' = [serving EXCEPT ![p] = c], view' \in ViewState, UNCHANGED live,
           since' \in [Submission -> SUBSET Scent],
           \A q \in Submission : q # p => since'[q] = since[q],
           ServingFacts(c, live.perfumes, since'[p])
    PROVE  DsInv'
<1>1. DsTypeOK'
  BY DEF DsInv, DsTypeOK
<1>2. ASSUME NEW q \in Submission PROVE ServingFacts(serving[q], live.perfumes, since[q])'
  <2>1. CASE q = p
    BY <2>1 DEF DsInv, DsTypeOK
  <2>2. CASE q # p
    BY <2>2 DEF DsInv, DsTypeOK
  <2>3. QED
    BY <2>1, <2>2
<1>3. QED
  BY <1>1, <1>2 DEF DsInv

LEMMA ScreenHolds ==
    ASSUME DsInv,
           \/ RetryQuiz \/ NextQuestion \/ PrevQuestion \/ ResetQuiz
           \/ \E v \in Value : OptionToggle(v)
           \/ \E ok \in BOOLEAN : QuizArrives(ok)
    PROVE  DsInv'
<1>1. view \in ViewState /\ live.version \in Nat /\ NoAnswers \in GivenAnswers
  BY DEF DsInv, DsTypeOK, LiveState, NoAnswers, GivenAnswers
<1>2. ASSUME NEW next \in ViewState, ViewChanges(next) PROVE DsInv'
  BY <1>2, ScreenStep DEF ViewChanges
<1>3. CASE RetryQuiz
  BY <1>1, <1>2, <1>3 DEF RetryQuiz, ViewState
<1>4. CASE NextQuestion
  <2>1. view.at + 1 \in Nat
    BY <1>1 DEF ViewState
  <2>2. QED
    BY <1>1, <1>2, <1>4, <2>1 DEF NextQuestion, ViewState
<1>5. CASE PrevQuestion
  <2>1. view.at - 1 \in Nat
    BY <1>1, <1>5 DEF PrevQuestion, ViewState
  <2>2. QED
    BY <1>1, <1>2, <1>5, <2>1 DEF PrevQuestion, ViewState
<1>6. CASE ResetQuiz
  BY <1>1, <1>2, <1>6 DEF ResetQuiz, ViewState
<1>7. ASSUME NEW v \in Value, OptionToggle(v) PROVE DsInv'
  <2>1. ASSUME NEW s \in SUBSET Value, ViewChanges([view EXCEPT !.answers[view.at] = s]) PROVE DsInv'
    <3>1. [view.answers EXCEPT ![view.at] = s] \in GivenAnswers
      BY <1>1 DEF ViewState, GivenAnswers
    <3>2. [view EXCEPT !.answers[view.at] = s] \in ViewState
      BY <1>1, <3>1 DEF ViewState
    <3>3. QED
      BY <1>2, <2>1, <3>2
  <2>2. CASE view.at \in Asked
    <3>1. view.answers[view.at] \in SUBSET Value
      BY <1>1, <2>2 DEF ViewState, GivenAnswers
    <3>2. view.answers[view.at] \ {v} \in SUBSET Value /\ view.answers[view.at] \union {v} \in SUBSET Value
          /\ {v} \in SUBSET Value
      BY <3>1
    <3>3. QED
      BY <1>7, <2>1, <3>2 DEF OptionToggle
  <2>3. CASE view.at \notin Asked
    <3>1. ASSUME NEW s, ViewChanges([view EXCEPT !.answers[view.at] = s]) PROVE DsInv'
      <4>1. [view.answers EXCEPT ![view.at] = s] = view.answers
        BY <1>1, <2>3 DEF ViewState, GivenAnswers
      <4>2. [view EXCEPT !.answers[view.at] = s] \in ViewState
        BY <1>1, <4>1 DEF ViewState
      <4>3. QED
        BY <1>2, <3>1, <4>2
    <3>2. QED
      BY <1>7, <3>1 DEF OptionToggle
  <2>4. QED
    BY <2>2, <2>3
<1>8. ASSUME NEW ok \in BOOLEAN, QuizArrives(ok) PROVE DsInv'
  BY <1>1, <1>2, <1>8 DEF QuizArrives, ViewState
<1>9. QED
  BY <1>3, <1>4, <1>5, <1>6, <1>7, <1>8

LEMMA LiveHolds ==
    ASSUME DsInv,
           \/ QuizReplaced
           \/ \E f \in Scent : PerfumeRetired(f)
           \/ \E v \in Value : ValueRetired(v)
    PROVE  DsInv'
<1>1. live \in LiveState /\ live.version + 1 \in Nat
  BY DEF DsInv, DsTypeOK, LiveState
<1>2. ASSUME NEW next \in LiveState, LiveChanges(next) PROVE DsInv'
  <2>1. next.changes + 1 \in Nat
    BY DEF LiveState
  <2>2. live' \in LiveState /\ live'.perfumes = next.perfumes
    BY <1>2, <2>1 DEF LiveChanges, LiveState
  <2>3. \A p \in Submission : since'[p] = since[p] \union next.perfumes
    BY <1>2 DEF LiveChanges
  <2>4. DsTypeOK'
    BY <1>2, <2>2 DEF LiveChanges, DsInv, DsTypeOK, LiveState
  <2>5. ASSUME NEW p \in Submission PROVE ServingFacts(serving[p], live.perfumes, since[p])'
    BY <1>2, <2>2, <2>3 DEF LiveChanges, DsInv, ServingFacts
  <2>6. QED
    BY <2>4, <2>5 DEF DsInv
<1>3. CASE QuizReplaced
  BY <1>1, <1>2, <1>3 DEF QuizReplaced, LiveState
<1>4. ASSUME NEW f \in Scent, PerfumeRetired(f) PROVE DsInv'
  BY <1>1, <1>2, <1>4 DEF PerfumeRetired, LiveState
<1>5. ASSUME NEW v \in Value, ValueRetired(v) PROVE DsInv'
  BY <1>1, <1>2, <1>5 DEF ValueRetired, LiveState
<1>6. QED
  BY <1>3, <1>4, <1>5

LEMMA SubmitAnswersHolds ==
    ASSUME DsInv, NEW p \in Submission, SubmitAnswers(p)
    PROVE  DsInv'
<1>1. view \in ViewState
  BY DEF DsInv, DsTypeOK
<1>2. PICK input : /\ input = [version |-> view.version, answers |-> view.answers]
                   /\ serving' = [serving EXCEPT ![p] = [pc |-> "recommend", input |-> input, items |-> {}, runs |-> 0]]
  BY DEF SubmitAnswers
<1>3. input \in [version : Nat, answers : GivenAnswers]
  BY <1>1, <1>2 DEF ViewState
<1>4. PICK c : c = [pc |-> "recommend", input |-> input, items |-> {}, runs |-> 0]
  OBVIOUS
<1>5. c \in Serving /\ c.pc = "recommend" /\ c.runs = 0
  BY <1>3, <1>4 DEF Serving, ServingStage
<1>6. view' \in ViewState
  BY <1>1 DEF SubmitAnswers, ViewState
<1>7. QED
  BY <1>2, <1>4, <1>5, <1>6, ServingStep DEF SubmitAnswers, ServingFacts, DsInv, DsTypeOK

LEMMA SubmissionEndsHolds ==
    ASSUME DsInv, NEW lost \in BOOLEAN, SubmissionEnds(lost)
    PROVE  DsInv'
<1>1. view' \in ViewState
  BY DEF SubmissionEnds, DsInv, DsTypeOK, ViewState
<1>2. view.sent.of \in Submission
  BY DEF SubmissionEnds, DsInv, DsTypeOK, ViewState
<1>3. Idle \in {Idle} \union Serving /\ ServingFacts(Idle, live.perfumes, since[view.sent.of])
  BY DEF Idle, ServingFacts
<1>4. CASE lost
  BY <1>1, <1>4, ScreenStep DEF SubmissionEnds
<1>5. CASE ~lost
  BY <1>1, <1>2, <1>3, <1>5, ServingStep DEF SubmissionEnds, DsInv, DsTypeOK
<1>6. QED
  BY <1>4, <1>5

LEMMA ServedFields ==
    ASSUME DsInv, NEW p \in Submission, serving[p] # Idle
    PROVE  serving[p] \in Serving /\ ServingFacts(serving[p], live.perfumes, since[p]) /\ live.perfumes \subseteq Scent
BY DEF DsInv, DsTypeOK, LiveState

\* A step of recommend that leaves the time since the provider answered alone.
LEMMA RecommendStep ==
    ASSUME DsInv, NEW p \in Submission, NEW c \in Serving, Becomes(p, c), UNCHANGED since,
           ServingFacts(c, live.perfumes, since[p])
    PROVE  DsInv'
BY ServingStep DEF Becomes, DsInv, DsTypeOK

LEMMA CandidatesArePublic == \A input : Candidates(input) \subseteq live.perfumes
BY DEF Candidates

LEMMA RecommendHolds ==
    ASSUME DsInv, NEW p \in Submission,
           \/ GetCandidateContext(p) \/ ProviderFails(p) \/ PersistProvider(p) \/ Generate(p) \/ ServingEnds(p)
           \/ \E items \in SUBSET Scent : ProviderRecommends(p, items)
           \/ \E committed, failed \in BOOLEAN : StoreRun(p, committed, failed)
    PROVE  DsInv'
<1> DEFINE c == serving[p]
<1>1. CASE ServingEnds(p)
  <2>1. ServingFacts(Idle, live.perfumes, since[p])
    BY DEF Idle, ServingFacts
  <2>2. QED
    BY <1>1, <2>1, ServingStep DEF ServingEnds, Becomes, DsInv, DsTypeOK
<1>2. CASE c = Idle
  BY <1>1, <1>2 DEF GetCandidateContext, ProviderFails, PersistProvider, Generate, ProviderRecommends,
                    StoreRun, Idle
<1>3. CASE c # Idle
  <2>1. c \in Serving /\ ServingFacts(c, live.perfumes, since[p]) /\ live.perfumes \subseteq Scent
    BY <1>3, ServedFields
  <2>2. ASSUME NEW d, Becomes(p, d), UNCHANGED since, d \in Serving,
               d.pc \notin {"persist", "storeRun", "answered", "refused"}, d.runs = 0
        PROVE  DsInv'
    BY <2>2, RecommendStep DEF ServingFacts
  <2>3. CASE GetCandidateContext(p)
    <3>1. PICK d : /\ Becomes(p, d)
                   /\ d = IF ContextReadable(c.input)
                          THEN [c EXCEPT !.pc = "provider", !.items = Candidates(c.input)]
                          ELSE [c EXCEPT !.pc = "fallback"]
      BY <2>3 DEF GetCandidateContext
    <3>2. c.runs = 0
      BY <2>1, <2>3 DEF GetCandidateContext, ServingFacts
    <3>3. Candidates(c.input) \subseteq Scent
      BY <2>1, CandidatesArePublic
    <3>4. d \in Serving /\ d.pc \in {"provider", "fallback"} /\ d.runs = 0
      BY <2>1, <3>1, <3>2, <3>3 DEF Serving, ServingStage
    <3>5. QED
      BY <2>2, <2>3, <3>1, <3>4 DEF GetCandidateContext
  <2>4. CASE ProviderFails(p)
    <3>1. PICK d : Becomes(p, d) /\ d = [c EXCEPT !.pc = "fallback"]
      BY <2>4 DEF ProviderFails
    <3>2. d \in Serving /\ d.pc = "fallback" /\ d.runs = 0
      BY <2>1, <2>4, <3>1 DEF ProviderFails, ServingFacts, Serving, ServingStage
    <3>3. QED
      BY <2>2, <2>4, <3>1, <3>2 DEF ProviderFails
  <2>5. CASE PersistProvider(p)
    <3>1. PICK d : /\ Becomes(p, d)
                   /\ d = [c EXCEPT !.pc = IF StillCandidates(c.input, c.items) THEN "storeRun" ELSE "fallback"]
      BY <2>5 DEF PersistProvider
    <3>2. c.runs = 0 /\ live.perfumes \subseteq since[p]
      BY <2>1, <2>5 DEF PersistProvider, ServingFacts
    <3>3. StillCandidates(c.input, c.items) => c.items \subseteq since[p]
      BY <3>2, CandidatesArePublic DEF StillCandidates
    <3>4. d \in Serving /\ d.runs = 0 /\ d.pc \in {"storeRun", "fallback"} /\ d.items = c.items
      BY <2>1, <3>1, <3>2 DEF Serving, ServingStage
    <3>5. d.pc = "storeRun" => d.items \subseteq since[p]
      BY <2>1, <3>1, <3>3 DEF Serving
    <3>6. ServingFacts(d, live.perfumes, since[p])
      BY <3>2, <3>4, <3>5 DEF ServingFacts
    <3>7. QED
      BY <2>5, <3>1, <3>4, <3>6, RecommendStep DEF PersistProvider
  <2>6. CASE Generate(p)
    <3>1. PICK d : /\ Becomes(p, d)
                   /\ d = IF ContextReadable(c.input)
                          THEN [c EXCEPT !.pc = "storeFallback", !.items = Candidates(c.input)]
                          ELSE [c EXCEPT !.pc = "refused"]
      BY <2>6 DEF Generate
    <3>2. c.runs = 0
      BY <2>1, <2>6 DEF Generate, ServingFacts
    <3>3. Candidates(c.input) \subseteq Scent
      BY <2>1, CandidatesArePublic
    <3>4. d \in Serving /\ d.pc \in {"storeFallback", "refused"} /\ d.runs = 0
      BY <2>1, <3>1, <3>2, <3>3 DEF Serving, ServingStage
    <3>5. ServingFacts(d, live.perfumes, since[p])
      BY <3>4 DEF ServingFacts
    <3>6. QED
      BY <2>6, <3>1, <3>4, <3>5, RecommendStep DEF Generate
  <2>7. ASSUME NEW items \in SUBSET Scent, ProviderRecommends(p, items) PROVE DsInv'
    <3>1. PICK d : /\ Becomes(p, d)
                   /\ d = IF items \subseteq c.items THEN [c EXCEPT !.pc = "persist", !.items = items]
                          ELSE [c EXCEPT !.pc = "fallback"]
      BY <2>7 DEF ProviderRecommends
    <3>2. c.runs = 0
      BY <2>1, <2>7 DEF ProviderRecommends, ServingFacts
    <3>3. d \in Serving /\ d.pc \in {"persist", "fallback"} /\ d.runs = 0
      BY <2>1, <3>1, <3>2 DEF Serving, ServingStage
    <3>4. /\ since' \in [Submission -> SUBSET Scent] /\ since'[p] = live.perfumes
          /\ \A q \in Submission : q # p => since'[q] = since[q]
      BY <2>1, <2>7 DEF ProviderRecommends, DsInv, DsTypeOK
    <3>5. ServingFacts(d, live.perfumes, since'[p])
      BY <3>3, <3>4 DEF ServingFacts
    <3>6. QED
      BY <3>1, <3>3, <3>4, <3>5, ServingStep DEF Becomes, DsInv, DsTypeOK
  <2>8. ASSUME NEW committed \in BOOLEAN, NEW failed \in BOOLEAN, StoreRun(p, committed, failed) PROVE DsInv'
    <3>1. PICK d : /\ Becomes(p, d)
                   /\ d = [c EXCEPT !.pc = IF failed THEN FailedStore(c.pc) ELSE "answered",
                                    !.runs = IF committed THEN @ + 1 ELSE @]
      BY <2>8 DEF StoreRun
    <3>2. c.runs = 0
      BY <2>1, <2>8 DEF StoreRun, ServingFacts
    <3>3. CASE committed /\ failed
      <4>1. d = [c EXCEPT !.pc = "refused", !.runs = 1]
        BY <3>1, <3>2, <3>3 DEF FailedStore
      <4>2. d \in Serving /\ ServingFacts(d, live.perfumes, since[p])
        <5>1. d \in Serving /\ d.pc = "refused" /\ d.runs = 1
          BY <2>1, <4>1 DEF Serving, ServingStage
        <5>2. QED
          BY <5>1 DEF ServingFacts
      <4>3. QED
        BY <2>8, <3>1, <4>2, RecommendStep DEF StoreRun
    <3>4. CASE ~committed /\ failed
      <4>1. d = [c EXCEPT !.pc = "refused"]
        BY <2>1, <3>1, <3>4 DEF FailedStore, Serving
      <4>2. d \in Serving /\ ServingFacts(d, live.perfumes, since[p])
        BY <2>1, <3>2, <4>1 DEF Serving, ServingStage, ServingFacts
      <4>3. QED
        BY <2>8, <3>1, <4>2, RecommendStep DEF StoreRun
    <3>5. CASE committed /\ ~failed
      <4>1. d = [c EXCEPT !.pc = "answered", !.runs = 1]
        BY <3>1, <3>2, <3>5
      <4>2. d \in Serving /\ ServingFacts(d, live.perfumes, since[p])
        <5>1. d \in Serving /\ d.pc = "answered" /\ d.runs = 1
          BY <2>1, <4>1 DEF Serving, ServingStage
        <5>2. QED
          BY <5>1 DEF ServingFacts
      <4>3. QED
        BY <2>8, <3>1, <4>2, RecommendStep DEF StoreRun
    <3>6. QED
      BY <2>8, <3>3, <3>4, <3>5 DEF StoreRun
  <2>9. QED
    BY <1>1, <2>3, <2>4, <2>5, <2>6, <2>7, <2>8
<1>4. QED
  BY <1>2, <1>3

LEMMA DsNextHolds ==
    ASSUME DsInv, [DsNext]_dsVars
    PROVE  DsInv'
<1>1. CASE DsNext
  BY <1>1, ScreenHolds, LiveHolds, SubmitAnswersHolds, SubmissionEndsHolds, RecommendHolds DEF DsNext
<1>2. CASE UNCHANGED dsVars
  BY <1>2 DEF dsVars, DsInv, DsTypeOK, ServingFacts
<1>3. QED
  BY <1>1, <1>2

\* The stages of a submission: what it has stored and what it may still answer.
THEOREM DiscoveryInvariant == DsSpec => []DsInv
<1>1. QED
  BY DsInitHolds, DsNextHolds, PTL DEF DsSpec

\* recommend stores one attempt: the fallback runs only when the provider's
\* attempt was not stored, so an answered submission has exactly one run.
THEOREM SubmissionsLeaveOneRun == DsSpec => []OneRunPerAnswer
<1>1. DsInv => OneRunPerAnswer
  <2> SUFFICES ASSUME DsInv, NEW p \in Submission, serving[p] # Idle
               PROVE  serving[p].runs <= 1 /\ (serving[p].pc = "answered" => serving[p].runs = 1)
    BY DEF OneRunPerAnswer
  <2>1. serving[p] \in Serving /\ ServingFacts(serving[p], live.perfumes, since[p])
    BY ServedFields
  <2>2. serving[p].pc # "idle"
    BY <2>1 DEF Serving, ServingStage
  <2>3. QED
    BY <2>1, <2>2 DEF ServingFacts
<1>2. QED
  BY <1>1, DiscoveryInvariant, PTL

\* persistProvider compares the provider's items with the public catalogue of that
\* moment: what was retired while the provider was thinking is not stored.
THEOREM RetiredPerfumesAreNotAnswered == DsSpec => []NothingRetiredMeanwhile
<1>1. DsInv => NothingRetiredMeanwhile
  BY DEF DsInv, ServingFacts, NothingRetiredMeanwhile
<1>2. QED
  BY <1>1, DiscoveryInvariant, PTL

-----------------------------------------------------------------------------
(* Reviews and their moderation *)

\* A page lists rows as they were read.
PageOK(rows, list) ==
    /\ DOMAIN list.rows \subseteq Purchase
    /\ \A x \in DOMAIN list.rows : list.rows[x] \in ReviewRow /\ rows[x] \in ReviewRow

\* A decision that has been made is in the row, with those made since.
Made(rows, a) ==
    /\ a.of \in Purchase /\ a.decisions \in Nat
    /\ rows[a.of] \in ReviewRow /\ rows[a.of].decisions >= a.decisions

ActionOK(rows, a) ==
    \/ a.pc = "none"
    \/ a.pc = "sent" /\ a.of \in Purchase /\ a.status \in Decision /\ rows[a.of] \in ReviewRow
    \/ a.pc = "written" /\ Made(rows, a)

\* The list was read after decision k.
ReadAfter(k, list) ==
    k # NoReview /\ k.of \in DOMAIN list.rows => list.rows[k.of].decisions >= k.decisions

ScreenOK(rows, s, k) ==
    /\ s = [page |-> s.page, reads |-> s.reads, shown |-> s.shown, action |-> s.action]
    /\ s.page \in Nat /\ s.reads \in Nat
    /\ s.shown.status = "ready" => PageOK(rows, s.shown.page) /\ ReadAfter(k, s.shown.page)
    /\ ActionOK(rows, s.action)

LoadOK(rows, s, l, k) ==
    /\ l = [read |-> l.read, page |-> l.page, answer |-> l.answer]
    /\ l.read \in Nat /\ l.page \in Nat /\ l.read <= s.reads
    /\ l.answer # NoReview => PageOK(rows, l.answer) /\ (l.read = s.reads => ReadAfter(k, l.answer))

\* What a moderator has been told has been made, and the read that the screen
\* waits for, or shows, was answered after it.
DeskOK(rows, s, ls, k) ==
    /\ ScreenOK(rows, s, k)
    /\ \A l \in ls : LoadOK(rows, s, l, k)
    /\ k # NoReview => Made(rows, k)

RvTypeOK ==
    /\ review \in [Purchase -> ReviewRow \union {NoReview}]
    /\ posted \in Seq(Purchase)
    /\ DOMAIN screen = Desk /\ screen = [d \in Desk |-> screen[d]]
    /\ DOMAIN loads = Desk /\ loads = [d \in Desk |-> loads[d]]
    /\ DOMAIN decided = Desk /\ decided = [d \in Desk |-> decided[d]]

RvInv ==
    /\ RvTypeOK
    /\ \A i \in DOMAIN posted : review[posted[i]] \in ReviewRow
    /\ \A d \in Desk : DeskOK(review, screen[d], loads[d], decided[d])

\* Rows stay, and gain decisions.
RowsGrow(rows, later) ==
    \A x \in Purchase : rows[x] \in ReviewRow => later[x] \in ReviewRow /\ later[x].decisions >= rows[x].decisions

-----------------------------------------------------------------------------
LEMMA RvInitHolds == RvInit => RvInv
<1> SUFFICES ASSUME RvInit PROVE RvInv
  OBVIOUS
<1>1. RvTypeOK
  BY DEF RvInit, RvTypeOK
<1>2. ASSUME NEW d \in Desk PROVE DeskOK(review, screen[d], loads[d], decided[d])
  BY DEF RvInit, DeskOK, ScreenOK, LoadOK, ActionOK, Loading, NoAction
<1>3. \A i \in DOMAIN posted : review[posted[i]] \in ReviewRow
  BY DEF RvInit
<1>4. QED
  BY <1>1, <1>2, <1>3 DEF RvInv

LEMMA RowsGrowMade ==
    ASSUME NEW rows, NEW later, RowsGrow(rows, later), NEW a, Made(rows, a)
    PROVE  Made(later, a)
<1>1. a.of \in Purchase /\ rows[a.of].decisions \in Nat /\ later[a.of].decisions \in Nat
  BY DEF RowsGrow, Made, ReviewRow
<1>2. QED
  BY <1>1 DEF RowsGrow, Made

LEMMA RowsGrowDesk ==
    ASSUME NEW rows, NEW later, RowsGrow(rows, later), NEW s, NEW ls, NEW k, DeskOK(rows, s, ls, k)
    PROVE  DeskOK(later, s, ls, k)
<1>1. ASSUME NEW list, PageOK(rows, list) PROVE PageOK(later, list)
  BY <1>1 DEF PageOK, RowsGrow
<1>2. ActionOK(later, s.action)
  BY RowsGrowMade DEF DeskOK, ScreenOK, ActionOK, RowsGrow
<1>3. k # NoReview => Made(later, k)
  BY RowsGrowMade DEF DeskOK
<1>4. QED
  BY <1>1, <1>2, <1>3 DEF DeskOK, ScreenOK, LoadOK

\* Rows change and every screen stays.
LEMMA ReviewRowsStep ==
    ASSUME RvInv, review' \in [Purchase -> ReviewRow \union {NoReview}], posted' \in Seq(Purchase),
           \A i \in DOMAIN posted' : review'[posted'[i]] \in ReviewRow,
           RowsGrow(review, review'), UNCHANGED rvScreens
    PROVE  RvInv'
<1>1. RvTypeOK'
  BY DEF RvInv, RvTypeOK, rvScreens
<1>2. ASSUME NEW d \in Desk PROVE DeskOK(review', screen'[d], loads'[d], decided'[d])
  BY RowsGrowDesk DEF RvInv, rvScreens
<1>3. QED
  BY <1>1, <1>2 DEF RvInv

\* One screen changes, and no row.
LEMMA DeskStep ==
    ASSUME RvInv, NEW d \in Desk, NEW s, NEW ls, NEW k,
           screen' = [screen EXCEPT ![d] = s], loads' = [loads EXCEPT ![d] = ls],
           decided' = [decided EXCEPT ![d] = k], UNCHANGED rvRows, DeskOK(review, s, ls, k)
    PROVE  RvInv'
<1>1. RvTypeOK' /\ review' = review
  BY DEF RvInv, RvTypeOK, rvRows
<1>2. ASSUME NEW e \in Desk PROVE DeskOK(review', screen'[e], loads'[e], decided'[e])
  <2>1. CASE e = d
    BY <1>1, <2>1 DEF RvInv, RvTypeOK
  <2>2. CASE e # d
    <3>1. screen'[e] = screen[e] /\ loads'[e] = loads[e] /\ decided'[e] = decided[e]
      BY <2>2 DEF RvInv, RvTypeOK
    <3>2. QED
      BY <1>1, <3>1 DEF RvInv
  <2>3. QED
    BY <2>1, <2>2
<1>3. QED
  BY <1>1, <1>2 DEF RvInv, rvRows

LEMMA RowStays ==
    ASSUME RvInv, NEW d \in Desk
    PROVE  /\ screen = [screen EXCEPT ![d] = screen[d]]
           /\ loads = [loads EXCEPT ![d] = loads[d]]
           /\ decided = [decided EXCEPT ![d] = decided[d]]
           /\ DeskOK(review, screen[d], loads[d], decided[d])
BY DEF RvInv, RvTypeOK

-----------------------------------------------------------------------------
LEMMA CustomerHolds ==
    ASSUME RvInv, NEW x \in Purchase, NEW w \in Words, PostReview(x, w) \/ EditReview(x, w)
    PROVE  RvInv'
<1>1. review \in [Purchase -> ReviewRow \union {NoReview}] /\ posted \in Seq(Purchase)
      /\ \A i \in DOMAIN posted : review[posted[i]] \in ReviewRow
  BY DEF RvInv, RvTypeOK
<1>2. CASE PostReview(x, w)
  <2>1. PICK row \in ReviewRow : review' = [review EXCEPT ![x] = row]
    BY <1>2 DEF PostReview, ReviewRow
  <2>2. RowsGrow(review, review')
    <3>1. review[x] \notin ReviewRow
      BY <1>2, NoReviewIsNoRow DEF PostReview
    <3>2. ASSUME NEW y \in Purchase, review[y] \in ReviewRow
          PROVE  review'[y] \in ReviewRow /\ review'[y].decisions >= review[y].decisions
      <4>1. y # x
        BY <3>1, <3>2
      <4>2. review'[y] = review[y]
        BY <1>1, <2>1, <4>1
      <4>3. QED
        BY <3>2, <4>2 DEF ReviewRow
    <3>3. QED
      BY <3>2 DEF RowsGrow
  <2>3. posted' \in Seq(Purchase)
    BY <1>1, <1>2 DEF PostReview
  <2>4. \A i \in DOMAIN posted' : posted'[i] = x \/ (i \in DOMAIN posted /\ posted'[i] = posted[i])
    BY <1>1, <1>2 DEF PostReview
  <2>5. \A i \in DOMAIN posted' : review'[posted'[i]] \in ReviewRow
    BY <1>1, <2>1, <2>4
  <2>6. QED
    BY <1>1, <1>2, <2>1, <2>2, <2>3, <2>5, ReviewRowsStep DEF PostReview
<1>3. CASE EditReview(x, w)
  <2>1. review[x] \in ReviewRow
    BY <1>1, <1>3 DEF EditReview, MayEdit
  <2>2. PICK row : review' = [review EXCEPT ![x] = row] /\ row = [review[x] EXCEPT !.words = w]
    BY <1>3 DEF EditReview
  <2>3. row \in ReviewRow /\ row.decisions = review[x].decisions /\ row.decisions \in Nat
    BY <2>1, <2>2 DEF ReviewRow
  <2>4. RowsGrow(review, review')
    BY <1>1, <2>2, <2>3 DEF RowsGrow, ReviewRow
  <2>5. \A i \in DOMAIN posted : review'[posted[i]] \in ReviewRow
    BY <1>1, <2>2, <2>3
  <2>6. QED
    BY <1>1, <1>3, <2>2, <2>3, <2>4, <2>5, ReviewRowsStep DEF EditReview
<1>4. QED
  BY <1>2, <1>3

\* A new read makes the earlier ones inactive.
LEMMA ReadsHold ==
    ASSUME RvInv, NEW d \in Desk, NEW n \in Nat, NEW a, ActionOK(review, a), Reads(d, n, a), UNCHANGED rvRows,
           NEW k, k # NoReview => Made(review, k), decided' = [decided EXCEPT ![d] = k]
    PROVE  RvInv'
<1>1. DeskOK(review, screen[d], loads[d], decided[d])
  BY RowStays
<1>2. screen[d].reads \in Nat /\ screen[d].reads + 1 \in Nat
  BY <1>1 DEF DeskOK, ScreenOK
<1>3. PICK s : s = [page |-> n, reads |-> screen[d].reads + 1, shown |-> Loading, action |-> a]
  OBVIOUS
<1>4. PICK l : l = [read |-> screen[d].reads + 1, page |-> n, answer |-> NoReview]
  OBVIOUS
<1>5. screen' = [screen EXCEPT ![d] = s] /\ loads' = [loads EXCEPT ![d] = loads[d] \union {l}]
  BY <1>3, <1>4 DEF Reads
<1>6. ScreenOK(review, s, k)
  BY <1>2, <1>3 DEF ScreenOK, Loading
<1>7. LoadOK(review, s, l, k)
  BY <1>2, <1>3, <1>4 DEF LoadOK
<1>8. ASSUME NEW m \in loads[d] PROVE LoadOK(review, s, m, k)
  <2>1. m.read \in Nat /\ m.read < s.reads
    BY <1>1, <1>2, <1>3 DEF DeskOK, LoadOK
  <2>2. QED
    BY <1>1, <1>2, <1>3, <2>1 DEF DeskOK, LoadOK
<1>9. DeskOK(review, s, loads[d] \union {l}, k)
  BY <1>6, <1>7, <1>8 DEF DeskOK
<1>10. QED
  BY <1>5, <1>9, DeskStep

\* A page read now has every decision made so far.
LEMMA PageHolds ==
    ASSUME RvInv, NEW n, NEW k, k # NoReview => Made(review, k)
    PROVE  PageOK(review, PageOf(n)) /\ ReadAfter(k, PageOf(n))
<1>1. PICK xs : /\ xs \subseteq {posted[i] : i \in DOMAIN posted}
                /\ PageOf(n).rows = [x \in xs |-> review[x]]
  BY DEF PageOf
<1>2. \A x \in xs : x \in Purchase /\ review[x] \in ReviewRow
  BY <1>1 DEF RvInv, RvTypeOK
<1>3. QED
  BY <1>1, <1>2 DEF PageOK, ReadAfter, Made

LEMMA LoadsHold ==
    ASSUME RvInv, NEW d \in Desk, NEW l \in loads[d],
           ListForModeration(d, l) \/ \E failed \in BOOLEAN : Shows(d, l, failed)
    PROVE  RvInv'
<1> DEFINE s == screen[d]
           k == decided[d]
<1>1. DeskOK(review, s, loads[d], k) /\ LoadOK(review, s, l, k) /\ ScreenOK(review, s, k)
      /\ (k # NoReview => Made(review, k))
  BY RowStays DEF DeskOK
<1>2. CASE ListForModeration(d, l)
  <2>1. PICK m : /\ m = [l EXCEPT !.answer = PageOf(l.page)]
                 /\ loads' = [loads EXCEPT ![d] = (loads[d] \ {l}) \union {m}]
    BY <1>2 DEF ListForModeration
  <2>2. m = [read |-> l.read, page |-> l.page, answer |-> PageOf(l.page)]
    BY <1>1, <2>1 DEF LoadOK
  <2>3. PageOK(review, m.answer) /\ ReadAfter(k, m.answer)
    BY <1>1, <2>2, PageHolds
  <2>4. LoadOK(review, s, m, k)
    BY <1>1, <2>2, <2>3 DEF LoadOK
  <2>5. DeskOK(review, s, (loads[d] \ {l}) \union {m}, k)
    BY <1>1, <2>4 DEF DeskOK
  <2>6. screen' = [screen EXCEPT ![d] = s] /\ decided' = [decided EXCEPT ![d] = k] /\ UNCHANGED rvRows
    BY <1>2, RowStays DEF ListForModeration
  <2>7. QED
    BY <2>1, <2>5, <2>6, DeskStep
<1>3. ASSUME NEW failed \in BOOLEAN, Shows(d, l, failed) PROVE RvInv'
  <2>1. loads' = [loads EXCEPT ![d] = loads[d] \ {l}] /\ UNCHANGED <<rvRows, decided>>
    BY <1>3 DEF Shows
  <2>2. CASE ~Active(d, l)
    <3>1. DeskOK(review, s, loads[d] \ {l}, k) /\ screen' = screen
      BY <1>1, <1>3, <2>2 DEF DeskOK, Shows
    <3>2. screen' = [screen EXCEPT ![d] = s] /\ decided' = [decided EXCEPT ![d] = k]
      BY <2>1, <3>1, RowStays
    <3>3. QED
      BY <2>1, <3>1, <3>2, DeskStep
  <2>3. CASE Active(d, l)
    <3>1. PICK shown : /\ shown = IF failed THEN [status |-> "error"] ELSE [status |-> "ready", page |-> l.answer]
                       /\ screen' = [screen EXCEPT ![d] = [s EXCEPT !.shown = shown]]
      BY <1>3, <2>3 DEF Shows
    <3>2. [s EXCEPT !.shown = shown] = [page |-> s.page, reads |-> s.reads, shown |-> shown, action |-> s.action]
      BY <1>1 DEF ScreenOK
    <3>3. shown.status = "ready" => PageOK(review, shown.page) /\ ReadAfter(k, shown.page)
      <4>1. CASE failed
        BY <3>1, <4>1
      <4>2. CASE ~failed
        BY <1>1, <1>3, <2>3, <3>1, <4>2 DEF Shows, LoadOK, Active
      <4>3. QED
        BY <4>1, <4>2
    <3>4. PICK t : t = [s EXCEPT !.shown = shown]
      OBVIOUS
    <3>5. ScreenOK(review, t, k) /\ t.reads = s.reads
      BY <1>1, <3>2, <3>3, <3>4 DEF ScreenOK
    <3>6. DeskOK(review, t, loads[d] \ {l}, k)
      BY <1>1, <3>5 DEF DeskOK, LoadOK
    <3>7. QED
      BY <2>1, <3>1, <3>4, <3>6, RowStays, DeskStep
  <2>4. QED
    BY <2>2, <2>3
<1>4. QED
  BY <1>2, <1>3

\* A screen's action changes, and nothing else of it.
LEMMA ActionStep ==
    ASSUME RvInv, NEW d \in Desk, NEW a, ActionOK(review, a), screen' = [screen EXCEPT ![d].action = a],
           UNCHANGED <<rvRows, loads, decided>>
    PROVE  RvInv'
<1> DEFINE s == screen[d]
<1>1. DeskOK(review, s, loads[d], decided[d])
  BY RowStays
<1>2. PICK t : t = [s EXCEPT !.action = a] /\ screen' = [screen EXCEPT ![d] = t]
  OBVIOUS
<1>3. t = [page |-> s.page, reads |-> s.reads, shown |-> s.shown, action |-> a]
  BY <1>1, <1>2 DEF DeskOK, ScreenOK
<1>4. DeskOK(review, t, loads[d], decided[d])
  BY <1>1, <1>3 DEF DeskOK, ScreenOK, LoadOK
<1>5. PICK ls, k : ls = loads[d] /\ k = decided[d]
  OBVIOUS
<1>6. screen' = [screen EXCEPT ![d] = t] /\ UNCHANGED rvRows
  BY <1>2
<1>7. loads' = [loads EXCEPT ![d] = ls] /\ decided' = [decided EXCEPT ![d] = k]
  BY <1>5, RowStays
<1>8. DeskOK(review, t, ls, k)
  BY <1>4, <1>5
<1> HIDE DEF s
<1>9. QED
  BY <1>6, <1>7, <1>8, DeskStep

LEMMA ModerateHolds ==
    ASSUME RvInv, NEW d \in Desk, Moderate(d)
    PROVE  RvInv'
<1> DEFINE a == screen[d].action
           x == a.of
           n == review[x].decisions + 1
<1>1. DeskOK(review, screen[d], loads[d], decided[d]) /\ a.pc = "sent"
  BY RowStays DEF Moderate
<1>2. x \in Purchase /\ a.status \in Decision /\ review[x] \in ReviewRow
  BY <1>1 DEF DeskOK, ScreenOK, ActionOK
<1>3. n \in Nat /\ n >= review[x].decisions
  BY <1>2 DEF ReviewRow
<1>4. PICK row : review' = [review EXCEPT ![x] = row] /\ row = [review[x] EXCEPT !.status = a.status, !.decisions = n]
  BY DEF Moderate
<1>5. row \in ReviewRow /\ row.decisions = n
  BY <1>2, <1>3, <1>4 DEF ReviewRow
<1>6. review' \in [Purchase -> ReviewRow \union {NoReview}] /\ review'[x] = row
  BY <1>2, <1>4, <1>5 DEF RvInv, RvTypeOK
<1>7. RowsGrow(review, review')
  <2>1. ASSUME NEW y \in Purchase, review[y] \in ReviewRow
        PROVE  review'[y] \in ReviewRow /\ review'[y].decisions >= review[y].decisions
    <3>1. CASE y = x
      BY <1>3, <1>5, <1>6, <3>1
    <3>2. CASE y # x
      <4>1. review'[y] = review[y]
        BY <1>4, <3>2 DEF RvInv, RvTypeOK
      <4>2. QED
        BY <2>1, <4>1 DEF ReviewRow
    <3>3. QED
      BY <3>1, <3>2
  <2>2. QED
    BY <2>1 DEF RowsGrow
<1>8. PICK b : /\ b = [pc |-> "written", of |-> x, decisions |-> n]
               /\ screen' = [screen EXCEPT ![d] = [screen[d] EXCEPT !.action = b]]
  BY DEF Moderate
<1>9. ActionOK(review', b)
  BY <1>2, <1>3, <1>5, <1>6, <1>8 DEF ActionOK, Made
<1>10. ASSUME NEW e \in Desk PROVE DeskOK(review', screen'[e], loads'[e], decided'[e])
  <2>1. DeskOK(review', screen[e], loads[e], decided[e])
    BY <1>7, RowStays, RowsGrowDesk
  <2>2. loads' = loads /\ decided' = decided
    BY DEF Moderate
  <2>3. CASE e # d
    <3>1. screen'[e] = screen[e]
      BY <1>8, <2>3 DEF RvInv, RvTypeOK
    <3>2. QED
      BY <2>1, <2>2, <3>1
  <2>4. CASE e = d
    <3>1. PICK t : t = [screen[d] EXCEPT !.action = b] /\ screen'[d] = t
      BY <1>8 DEF RvInv, RvTypeOK
    <3>2. t = [page |-> screen[d].page, reads |-> screen[d].reads, shown |-> screen[d].shown, action |-> b]
      BY <1>1, <3>1 DEF DeskOK, ScreenOK
    <3>3. DeskOK(review', t, loads[d], decided[d])
      BY <1>9, <2>1, <2>4, <3>2 DEF DeskOK, ScreenOK, LoadOK
    <3>4. QED
      BY <2>2, <2>4, <3>1, <3>3
  <2>5. QED
    BY <2>3, <2>4
<1>11. RvTypeOK'
  BY <1>6, <1>8 DEF RvInv, RvTypeOK, Moderate
<1>12. \A i \in DOMAIN posted' : review'[posted'[i]] \in ReviewRow
  BY <1>2, <1>7 DEF RvInv, RvTypeOK, RowsGrow, Moderate
<1>13. QED
  BY <1>10, <1>11, <1>12 DEF RvInv

LEMMA ModeratorHolds ==
    ASSUME RvInv, NEW d \in Desk,
           \/ RefreshReviews(d) \/ NextReviews(d) \/ ModerationSucceeds(d) \/ ModerationFails(d)
           \/ \E x \in Purchase, status \in Decision : Decide(d, x, status)
    PROVE  RvInv'
<1> DEFINE s == screen[d]
<1>1. /\ ScreenOK(review, s, decided[d]) /\ s.page \in Nat /\ s.page + 1 \in Nat
      /\ decided[d] # NoReview => Made(review, decided[d])
      /\ decided = [decided EXCEPT ![d] = decided[d]]
  BY RowStays DEF DeskOK, ScreenOK
<1>2. ActionOK(review, NoAction) /\ ActionOK(review, s.action)
  BY <1>1 DEF ActionOK, NoAction, ScreenOK
<1>3. CASE RefreshReviews(d)
  BY <1>1, <1>2, <1>3, ReadsHold DEF RefreshReviews
<1>4. CASE NextReviews(d)
  BY <1>1, <1>2, <1>4, ReadsHold DEF NextReviews
<1>5. CASE ModerationSucceeds(d)
  <2>1. Made(review, s.action)
    BY <1>2, <1>5 DEF ModerationSucceeds, ActionOK
  <2>2. QED
    BY <1>1, <1>2, <1>5, <2>1, ReadsHold DEF ModerationSucceeds
<1>6. CASE ModerationFails(d)
  BY <1>2, <1>6, ActionStep DEF ModerationFails
<1>7. ASSUME NEW x \in Purchase, NEW status \in Decision, Decide(d, x, status) PROVE RvInv'
  <2>1. PICK a : a = [pc |-> "sent", of |-> x, status |-> status] /\ screen' = [screen EXCEPT ![d].action = a]
    BY <1>7 DEF Decide
  <2>2. review[x] \in ReviewRow
    BY <1>1, <1>7 DEF Decide, ScreenOK, PageOK
  <2>3. ActionOK(review, a)
    BY <2>1, <2>2 DEF ActionOK
  <2>4. QED
    BY <1>7, <2>1, <2>3, ActionStep DEF Decide
<1>8. QED
  BY <1>3, <1>4, <1>5, <1>6, <1>7

LEMMA RvNextHolds ==
    ASSUME RvInv, [RvNext]_rvVars
    PROVE  RvInv'
<1>1. CASE RvNext
  BY <1>1, CustomerHolds, LoadsHold, ModerateHolds, ModeratorHolds DEF RvNext
<1>2. CASE UNCHANGED rvVars
  BY <1>2 DEF rvVars, rvRows, rvScreens, RvInv, RvTypeOK
<1>3. QED
  BY <1>1, <1>2

\* A decision that the screen has reported is in the row for good, and the list
\* that the screen waits for or shows was read after it.
THEOREM ReviewsInvariant == RvSpec => []RvInv
<1>1. QED
  BY RvInitHolds, RvNextHolds, PTL DEF RvSpec

\* The moderation screen drops the answers of older loads: a list shown after a
\* reported decision shows that decision or a later one, never the row before.
THEOREM ModeratorsSeeTheirDecisions == RvSpec => []OwnDecisionShown
<1>1. RvInv => OwnDecisionShown
  BY DEF RvInv, DeskOK, ScreenOK, ReadAfter, OwnDecisionShown
<1>2. QED
  BY <1>1, ReviewsInvariant, PTL
=============================================================================
