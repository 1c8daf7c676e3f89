----------------------------- MODULE Catalogue ------------------------------
(***************************************************************************)
(* AdminCatalogueService: several administrators create and edit perfumes  *)
(* and variants at once.  Each is a process that remembers the perfume it  *)
(* opened last.  Prisma reads a perfume and its relations by two queries.  *)
(***************************************************************************)
EXTENDS Server, Integers

CONSTANTS
    Perfume, VariantId,
    Text,           \* what a perfume form says, its unique slug included
    Offer,          \* what a variant form says, its unique sku included
    CreateKey,      \* idempotency keys
    Absent,
    MaxCatalogue    \* bound: revisions

ASSUME CatalogueAssumption == Absent \notin Perfume \union VariantId /\ MaxCatalogue \in Nat

VARIABLES
    perfume,    \* perfume[f]: status, revision and text, or Absent
    variant,    \* variant[w]: its perfume and offer, or Absent
    request,    \* request[n, k]: the CatalogueCreateRequest row of operation n and key k, or Absent
    form,       \* form[p]: the perfume that p opened last, or Absent
    created,    \* answers to creations: the request and its result
    ctCall      \* ctCall[p]: the request that p is serving

ctRows == <<perfume, variant, request>>
ctVars == <<ctRows, form, created, ctCall>>

CtGoto(p, c) == ctCall' = [ctCall EXCEPT ![p] = c]
VariantsOf(f) == {<<w, variant[w].offer>> : w \in {w \in VariantId : variant[w] # Absent /\ variant[w].of = f}}

-----------------------------------------------------------------------------
\* The perfume that updateMany may change: status ACTIVE at the revision.
Advances(f, revision) == perfume[f].status = "ACTIVE" /\ perfume[f].revision = revision

Recorded(r) == request[<<r.entity, r.key>>]

\* Mutant: the key alone identifies a creation.
AnyFingerprint(r) == Recorded(r) # Absent

\* replay: the same key with another fingerprint is a conflict.
SameFingerprint(r) == Recorded(r) # Absent /\ Recorded(r).of = r

SlugIsFree(f, text) == \A g \in Perfume \ {f} : perfume[g] # Absent => perfume[g].text # text
SkuIsFree(w, offer) == \A u \in VariantId \ {w} : variant[u] # Absent => variant[u].offer # offer

-----------------------------------------------------------------------------
CtInit ==
    /\ perfume = [f \in Perfume |-> Absent]
    /\ variant = [w \in VariantId |-> Absent]
    /\ request = [k \in {"PERFUME", "VARIANT"} \X CreateKey |-> Absent]
    /\ form = [p \in Process |-> Absent]
    /\ created = {}
    /\ ctCall = AllIdle

CtAbandon(p) == ctCall[p] # Idle /\ CtGoto(p, Idle) /\ UNCHANGED <<ctRows, form, created>>

\* get: the perfume's row, then its variants.
Open(p, f) ==
    /\ ctCall[p] = Idle /\ perfume[f] # Absent
    /\ CtGoto(p, [pc |-> "open", perfume |-> f, row |-> perfume[f]])
    /\ UNCHANGED <<ctRows, form, created>>

Opened(p) ==
    LET c == ctCall[p] IN
    /\ c.pc = "open"
    /\ form' = [form EXCEPT ![p] = [perfume |-> c.perfume, row |-> c.row, variants |-> VariantsOf(c.perfume)]]
    /\ CtGoto(p, Idle)
    /\ UNCHANGED <<ctRows, created>>

-----------------------------------------------------------------------------
(* create and createVariant *)

Creation ==
    [entity : {"PERFUME"}, key : CreateKey, data : Text]
        \union [entity : {"VARIANT"}, key : CreateKey, data : Offer, perfume : Perfume]

ASSUME AbsentIsNoRow ==
    Absent \notin [status : {"ACTIVE", "ARCHIVED"}, revision : Nat, text : Text]
        \union [of : Perfume, offer : Offer]
        \union [of : Creation, result : Perfume \union VariantId]

Answer(r) == created' = created \union {[request |-> r, result |-> Recorded(r).result]}

Create(p, r) ==
    /\ ctCall[p] = Idle
    /\ IF Recorded(r) = Absent
       THEN CtGoto(p, [pc |-> "create", request |-> r]) /\ UNCHANGED created
       ELSE SameFingerprint(r) /\ Answer(r) /\ UNCHANGED ctCall
    /\ UNCHANGED <<ctRows, form>>

\* createVariant loads the perfume before its transaction.
CreateVariantLoad(p) ==
    LET r == ctCall[p].request IN
    /\ ctCall[p].pc = "create" /\ r.entity = "VARIANT"
    /\ perfume[r.perfume] # Absent /\ perfume[r.perfume].status = "ACTIVE"
    /\ CtGoto(p, [pc |-> "variant", request |-> r, revision |-> perfume[r.perfume].revision])
    /\ UNCHANGED <<ctRows, form, created>>

Record(r, result) ==
    /\ Recorded(r) = Absent
    /\ request' = [request EXCEPT ![<<r.entity, r.key>>] = [of |-> r, result |-> result]]
    /\ created' = created \union {[request |-> r, result |-> result]}

CreatePerfume(p, f) ==
    LET r == ctCall[p].request IN
    /\ ctCall[p].pc = "create" /\ r.entity = "PERFUME"
    /\ perfume[f] = Absent /\ SlugIsFree(f, r.data)
    /\ perfume' = [perfume EXCEPT ![f] = [status |-> "ACTIVE", revision |-> 1, text |-> r.data]]
    /\ Record(r, f)
    /\ CtGoto(p, Idle)
    /\ UNCHANGED <<variant, form>>

\* Mutant: a variant write leaves its perfume's revision alone.
KeepsRevision(f) == UNCHANGED perfume

Advance(f) == perfume' = [perfume EXCEPT ![f].revision = @ + 1]

CreateVariant(p, w) ==
    LET r == ctCall[p].request IN
    /\ ctCall[p].pc = "variant"
    /\ variant[w] = Absent /\ SkuIsFree(w, r.data)
    /\ Advances(r.perfume, ctCall[p].revision) /\ perfume[r.perfume].revision < MaxCatalogue
    /\ Advance(r.perfume)
    /\ variant' = [variant EXCEPT ![w] = [of |-> r.perfume, offer |-> r.data]]
    /\ Record(r, w)
    /\ CtGoto(p, Idle)
    /\ UNCHANGED form

\* A unique conflict or a lost claim: a concurrent copy may have made it.
CreateReplay(p) ==
    LET r == ctCall[p].request IN
    /\ ctCall[p].pc \in {"create", "variant"}
    /\ r.entity = "VARIANT" => ctCall[p].pc = "variant"
    /\ SameFingerprint(r)
    /\ Answer(r)
    /\ CtGoto(p, Idle)
    /\ UNCHANGED <<ctRows, form>>

-----------------------------------------------------------------------------
(* update, archive and updateVariant, at the revision of the opened form *)

EditLoad(p, edit) ==
    LET f == form[p].perfume IN
    /\ ctCall[p] = Idle /\ form[p] # Absent
    /\ Advances(f, form[p].row.revision)
    /\ edit.kind = "VARIANT" => variant[edit.variant] # Absent /\ variant[edit.variant].of = f
    /\ CtGoto(p, [pc |-> "edit", edit |-> edit])
    /\ UNCHANGED <<ctRows, form, created>>

EditCommit(p) ==
    LET e == ctCall[p].edit
        f == form[p].perfume
    IN
    /\ ctCall[p].pc = "edit"
    /\ Advances(f, form[p].row.revision) /\ perfume[f].revision < MaxCatalogue
    /\ CASE e.kind = "TEXT" ->
                /\ SlugIsFree(f, e.data)
                /\ perfume' = [perfume EXCEPT ![f].revision = @ + 1, ![f].text = e.data]
                /\ UNCHANGED variant
         [] e.kind = "VARIANT" ->
                /\ SkuIsFree(e.variant, e.data)
                /\ variant' = [variant EXCEPT ![e.variant].offer = e.data]
                /\ Advance(f)
    /\ CtGoto(p, Idle)
    /\ UNCHANGED <<request, form, created>>

Archive(f, revision) ==
    /\ Advances(f, revision) /\ perfume[f].revision < MaxCatalogue
    /\ perfume' = [perfume EXCEPT ![f].status = "ARCHIVED", ![f].revision = @ + 1]

\* The list's dialog; the archived row stays on the list.
ConfirmArchive(p) ==
    /\ ctCall[p] = Idle /\ form[p] # Absent
    /\ Archive(form[p].perfume, form[p].row.revision)
    /\ UNCHANGED <<variant, request, form, created, ctCall>>

\* What the two forms send: every field, as the administrator left it, at the
\* revision of the perfume that was opened with them.
PerfumeForm == [kind : {"TEXT"}, data : Text]
VariantForm == [kind : {"VARIANT"}, data : Offer, variant : VariantId]

CtNext ==
    \E p \in Process :
        \/ CtAbandon(p) \/ Opened(p) \/ CreateVariantLoad(p) \/ CreateReplay(p)
        \/ EditCommit(p) \/ ConfirmArchive(p)
        \/ \E f \in Perfume : Open(p, f) \/ CreatePerfume(p, f)
        \/ \E w \in VariantId : CreateVariant(p, w)
        \/ \E r \in Creation : Create(p, r)
        \/ \E edit \in PerfumeForm \union VariantForm : EditLoad(p, edit)

CtSpec == CtInit /\ [][CtNext]_ctVars

-----------------------------------------------------------------------------
\* A form that has the perfume's current revision shows its current text and
\* variants, so no accepted edit overwrites one its administrator did not see;
\* the two queries of a load may mix two states, but never under the newer's
\* revision (README: Variant writes advance the parent revision).
OpenedRevisionIsCurrent ==
    \A p \in Process : form[p] # Absent =>
        LET f == form[p].perfume IN
        form[p].row.revision = perfume[f].revision =>
            form[p].row = perfume[f] /\ form[p].variants = VariantsOf(f)

\* All answers to one key name one result, whatever copies of the request were
\* in flight, and the result is of the kind that was asked for (README: an
\* identical retry resolves to the same perfume or variant).
CreatesOnce ==
    \A a, b \in created :
        a.request.entity = b.request.entity /\ a.request.key = b.request.key => a = b

\* Creations of either kind keep the promise of OnceOnly: one key, one result.
CreationsTold == {<<<<a.request.entity, a.request.key>>, [of |-> a.request, result |-> a.result]>> : a \in created}

Creations == INSTANCE OnceOnly WITH
    Key <- {"PERFUME", "VARIANT"} \X CreateKey, None <- Absent,
    result <- request, answered <- CreationsTold

CreationsAreOnce == Creations!OnceSpec
=============================================================================
