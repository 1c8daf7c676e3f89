----------------------------- MODULE Discovery ------------------------------
(***************************************************************************)
(* The fragrance quiz: FragranceQuizView, AiRecommendationService with its *)
(* provider, and DiscoveryService, which reads the quiz and the catalogue  *)
(* before the provider is asked and again before its answer is stored.     *)
(* Meanwhile the catalogue and the quiz change.                            *)
(***************************************************************************)
EXTENDS Server, Sequences, FiniteSets

CONSTANTS
    Submission,     \* submissions being served
    Scent,          \* perfumes
    Value,          \* catalogue attributes: every question offers them as options
    Traits,         \* Traits[f]: the attributes of perfume f
    MaxSelections,  \* bound on a question's selections
    Questions,      \* number of questions
    MaxChanges      \* bound: changes of the quiz and the catalogue

ASSUME DiscoveryAssumption ==
    /\ Traits \in [Scent -> SUBSET Value]
    /\ MaxSelections \in Nat /\ Questions \in Nat /\ MaxChanges \in Nat

Asked == 1 .. Questions

\* The CHECK on QuizQuestion in the integrity migration.
ShapeAllowed(s) == s.max >= 1 /\ s.max >= s.min /\ (s.required => s.min > 0)

Shape == {s \in [required : BOOLEAN, min : 0 .. MaxSelections, max : 0 .. MaxSelections] : ShapeAllowed(s)}

VARIABLES
    shape,      \* shape[q]: what question q requires
    live,       \* the active quiz version, public perfumes, active attributes, changes so far
    view,       \* the customer's screen
    serving,    \* serving[p]: recommend for submission p
    since       \* since[p]: perfumes public at some time since p's provider answered

dsVars == <<shape, live, view, serving, since>>

NoAnswers == [q \in Asked |-> {}]

DsInit ==
    /\ shape \in [Asked -> Shape]
    /\ live = [version |-> 1, perfumes |-> Scent, values |-> Value, changes |-> 0]
    /\ view = [quiz |-> "loading", version |-> 0, answers |-> NoAnswers, at |-> 1, sent |-> Idle, result |-> "none"]
    /\ serving = [s \in Submission |-> Idle]
    /\ since = [p \in Submission |-> {}]

-----------------------------------------------------------------------------
(* What administrators do meanwhile *)

LiveChanges(next) ==
    /\ live.changes < MaxChanges
    /\ live' = [next EXCEPT !.changes = @ + 1]
    /\ since' = [p \in Submission |-> since[p] \union next.perfumes]
    /\ UNCHANGED <<shape, view, serving>>

QuizReplaced == LiveChanges([live EXCEPT !.version = @ + 1])

PerfumeRetired(f) == f \in live.perfumes /\ LiveChanges([live EXCEPT !.perfumes = @ \ {f}])
ValueRetired(v) == v \in live.values /\ LiveChanges([live EXCEPT !.values = @ \ {v}])

-----------------------------------------------------------------------------
(* The screen *)

ViewChanges(next) == view' = next /\ UNCHANGED <<shape, live, serving, since>>

\* The first load and a retry; the questions keep their shape in every version.
QuizArrives(ok) ==
    /\ view.quiz = "loading"
    /\ ViewChanges([view EXCEPT !.quiz = IF ok THEN "ready" ELSE "error", !.version = IF ok THEN live.version ELSE 0])

RetryQuiz == view.quiz = "error" /\ ViewChanges([view EXCEPT !.quiz = "loading"])

Answering == view.quiz = "ready" /\ view.result = "none" /\ view.sent = Idle

\* handleOptionToggle: a single choice is replaced, never cleared.
OptionToggle(v) ==
    LET q == view.at
        chosen == view.answers[q]
    IN  /\ Answering
        /\ \/ shape[q].max = 1 /\ ViewChanges([view EXCEPT !.answers[q] = {v}])
           \/ shape[q].max # 1 /\ v \in chosen /\ ViewChanges([view EXCEPT !.answers[q] = @ \ {v}])
           \/ shape[q].max # 1 /\ v \notin chosen /\ Cardinality(chosen) < shape[q].max
              /\ ViewChanges([view EXCEPT !.answers[q] = @ \union {v}])

Enough(q) ==
    LET n == Cardinality(view.answers[q]) IN
    ~(shape[q].required \/ n > 0) \/ n >= shape[q].min

NextQuestion ==
    /\ Answering /\ Enough(view.at) /\ view.at < Questions
    /\ ViewChanges([view EXCEPT !.at = @ + 1])

PrevQuestion == Answering /\ view.at > 1 /\ ViewChanges([view EXCEPT !.at = @ - 1])

ResetQuiz ==
    /\ view.result = "shown"
    /\ ViewChanges([view EXCEPT !.result = "none", !.answers = NoAnswers, !.at = 1])

\* handleSubmit, on the last question; submissionInFlightRef is view.sent.
SubmitAnswers(p) ==
    /\ Answering /\ view.at = Questions /\ serving[p] = Idle
    /\ \A q \in Asked : Enough(q)
    /\ LET input == [version |-> view.version, answers |-> view.answers] IN
       /\ view' = [view EXCEPT !.sent = [pc |-> "sent", of |-> p]]
       /\ serving' = [serving EXCEPT ![p] = [pc |-> "recommend", input |-> input, items |-> {}, runs |-> 0]]
       /\ UNCHANGED <<shape, live, since>>

\* The answer arrives, or the connection is lost while the server goes on.
SubmissionEnds(lost) ==
    LET p == view.sent.of IN
    /\ view.sent # Idle
    /\ lost \/ serving[p].pc \in {"answered", "refused"}
    /\ view' = [view EXCEPT !.sent = Idle,
                            !.result = IF ~lost /\ serving[p].pc = "answered" THEN "shown" ELSE "none"]
    /\ serving' = IF lost THEN serving ELSE [serving EXCEPT ![p] = Idle]
    /\ UNCHANGED <<shape, live, since>>

-----------------------------------------------------------------------------
(* DiscoveryService *)

\* The part of validateRequest that depends on the answers.
AnswersValid(input) ==
    \A q \in Asked :
        LET n == Cardinality(input.answers[q]) IN
        IF n = 0 THEN ~shape[q].required ELSE shape[q].min <= n /\ n <= shape[q].max

ChosenValues(input) == UNION {input.answers[q] : q \in Asked}

\* validateRequest and candidateContext succeed
ContextReadable(input) ==
    /\ input.version = live.version /\ AnswersValid(input)
    /\ ChosenValues(input) \subseteq live.values

\* The best 12 of the matches; fewer perfumes are modelled, so all of them.
Candidates(input) ==
    {f \in live.perfumes : ChosenValues(input) = {} \/ Traits[f] \intersect ChosenValues(input) # {}}

Becomes(p, record) == serving' = [serving EXCEPT ![p] = record] /\ UNCHANGED <<shape, live, view>>

(* AiRecommendationService.recommend *)

GetCandidateContext(p) ==
    /\ serving[p].pc = "recommend"
    /\ Becomes(p, IF ContextReadable(serving[p].input)
                  THEN [serving[p] EXCEPT !.pc = "provider", !.items = Candidates(serving[p].input)]
                  ELSE [serving[p] EXCEPT !.pc = "fallback"])
    /\ UNCHANGED since

\* A well-formed answer; one that names no other perfume than the candidates is kept.
ProviderRecommends(p, items) ==
    /\ serving[p].pc = "provider" /\ items # {}
    /\ Becomes(p, IF items \subseteq serving[p].items
                  THEN [serving[p] EXCEPT !.pc = "persist", !.items = items]
                  ELSE [serving[p] EXCEPT !.pc = "fallback"])
    /\ since' = [since EXCEPT ![p] = live.perfumes]

\* The timeout wins the race, or the answer is an error or malformed.  What the
\* provider answers after the timeout reaches nobody.
ProviderFails(p) ==
    /\ serving[p].pc = "provider"
    /\ Becomes(p, [serving[p] EXCEPT !.pc = "fallback"])
    /\ UNCHANGED since

\* Mutant: the candidates read before the provider was asked are trusted.
TrustsEarlierRead(input, items) == input.version = live.version

StillCandidates(input, items) == ContextReadable(input) /\ items \subseteq Candidates(input)

\* persistProviderRecommendations, up to its transaction
PersistProvider(p) ==
    /\ serving[p].pc = "persist"
    /\ Becomes(p, [serving[p] EXCEPT !.pc =
            IF StillCandidates(serving[p].input, serving[p].items) THEN "storeRun" ELSE "fallback"])
    /\ UNCHANGED since

\* generate, up to its transaction
Generate(p) ==
    /\ serving[p].pc = "fallback"
    /\ Becomes(p, IF ContextReadable(serving[p].input)
                  THEN [serving[p] EXCEPT !.pc = "storeFallback", !.items = Candidates(serving[p].input)]
                  ELSE [serving[p] EXCEPT !.pc = "refused"])
    /\ UNCHANGED since

\* Mutant: any failure of the provider's run is answered from the fallback.
AnyFailureFallsBack(pc) == IF pc = "storeRun" THEN "fallback" ELSE "refused"

\* A thrown error leaves recommend: only a refused result falls back.
FailedStore(pc) == "refused"

\* The transaction of the attempt and its run; its failure may follow a commit.
StoreRun(p, committed, failed) ==
    /\ serving[p].pc \in {"storeRun", "storeFallback"} /\ (committed \/ failed)
    /\ Becomes(p, [serving[p] EXCEPT !.pc = IF failed THEN FailedStore(serving[p].pc) ELSE "answered",
                                     !.runs = IF committed THEN @ + 1 ELSE @])
    /\ UNCHANGED since

\* Nobody waits for the answer any more, or the process ends.
ServingEnds(p) ==
    /\ serving[p] # Idle /\ view.sent # [pc |-> "sent", of |-> p]
    /\ Becomes(p, Idle)
    /\ UNCHANGED since

DsNext ==
    \/ QuizReplaced \/ RetryQuiz \/ NextQuestion \/ PrevQuestion \/ ResetQuiz
    \/ \E f \in Scent : PerfumeRetired(f)
    \/ \E v \in Value : ValueRetired(v) \/ OptionToggle(v)
    \/ \E ok \in BOOLEAN : QuizArrives(ok) \/ SubmissionEnds(ok)
    \/ \E p \in Submission :
            \/ SubmitAnswers(p) \/ GetCandidateContext(p) \/ ProviderFails(p)
            \/ PersistProvider(p) \/ Generate(p) \/ ServingEnds(p)
            \/ \E items \in SUBSET Scent : ProviderRecommends(p, items)
            \/ \E committed, failed \in BOOLEAN : StoreRun(p, committed, failed)

DsSpec == DsInit /\ [][DsNext]_dsVars

-----------------------------------------------------------------------------
\* One submission leaves at most one run, and exactly one when it is answered,
\* whatever the provider, its timeout and the transactions do.
OneRunPerAnswer ==
    \A p \in Submission : serving[p] # Idle =>
        serving[p].runs <= 1 /\ (serving[p].pc = "answered" => serving[p].runs = 1)

\* No perfume that was retired while the provider was thinking is recommended
\* by its answer.
NothingRetiredMeanwhile ==
    \A p \in Submission : serving[p].pc = "storeRun" => serving[p].items \subseteq since[p]
=============================================================================
