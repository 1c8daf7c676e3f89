------------------------------ MODULE Reviews -------------------------------
(***************************************************************************)
(* ReviewService with the moderation screen AdminReviews.  Customers post  *)
(* and edit from several tabs while each moderator works from a list read  *)
(* earlier; the answers of reads and actions arrive in any order.          *)
(***************************************************************************)
EXTENDS Naturals, Sequences

CONSTANTS
    Purchase,       \* customers with a perfume they have paid for: others may not review
    Words,          \* a review's rating and text
    Desk,           \* open moderation screens
    NoReview,
    MaxRead,        \* bound: reads of a screen
    MaxDecisions    \* bound: decisions on a review

ASSUME ReviewsAssumption == MaxRead \in Nat /\ MaxDecisions \in Nat

Decision == {"APPROVED", "HIDDEN", "REMOVED"}       \* moderatorStatuses
ReviewRow == [words : Words, status : {"PENDING"} \union Decision, decisions : Nat]

ASSUME NoReviewIsNoRow == NoReview \notin ReviewRow

PageSize == 1                                       \* 20 in the screen
Loading == [status |-> "loading"]
NoAction == [pc |-> "none"]

VARIABLES
    review,     \* review[x]: words, status and number of decisions, or NoReview
    posted,     \* the reviews in the order of createdAt
    screen,     \* screen[d]: page, reads started, state and action in flight
    loads,      \* loads[d]: reads whose answers have not arrived
    decided     \* decided[d]: the last moderation that d was told succeeded

rvRows == <<review, posted>>
rvScreens == <<screen, loads, decided>>
rvVars == <<rvRows, rvScreens>>

RvInit ==
    /\ review = [x \in Purchase |-> NoReview]
    /\ posted = <<>>
    /\ screen = [d \in Desk |-> [page |-> 1, reads |-> 1, shown |-> Loading, action |-> NoAction]]
    /\ loads = [d \in Desk |-> {[read |-> 1, page |-> 1, answer |-> NoReview]}]
    /\ decided = [d \in Desk |-> NoReview]

-----------------------------------------------------------------------------
(* The customer *)

\* create: no purchase is ever undone, so its check and the insert are one step.
\* A second review of one customer and perfume is a unique conflict.
PostReview(x, w) ==
    /\ review[x] = NoReview
    /\ review' = [review EXCEPT ![x] = [words |-> w, status |-> "PENDING", decisions |-> 0]]
    /\ posted' = Append(posted, x)
    /\ UNCHANGED rvScreens

MayEdit(x) == review[x] # NoReview /\ review[x].status = "PENDING"

EditReview(x, w) ==
    /\ MayEdit(x)
    /\ review' = [review EXCEPT ![x] = [@ EXCEPT !.words = w]]
    /\ UNCHANGED <<posted, rvScreens>>

-----------------------------------------------------------------------------
(* The moderation screen *)

PageOf(n) ==
    LET Newer(i) == Len(posted) - i
        rows == {posted[i] : i \in {i \in DOMAIN posted : PageSize * (n - 1) <= Newer(i) /\ Newer(i) < PageSize * n}}
    IN [rows |-> [x \in rows |-> review[x]], hasMore |-> PageSize * n < Len(posted)]

\* A new page or reload token starts a read and makes the earlier ones inactive.
Reads(d, n, action) ==
    /\ screen[d].reads < MaxRead
    /\ screen' = [screen EXCEPT ![d] =
            [page |-> n, reads |-> @.reads + 1, shown |-> Loading, action |-> action]]
    /\ loads' = [loads EXCEPT ![d] =
            @ \union {[read |-> screen[d].reads + 1, page |-> n, answer |-> NoReview]}]

\* listForModeration
ListForModeration(d, l) ==
    /\ l \in loads[d] /\ l.answer = NoReview
    /\ loads' = [loads EXCEPT ![d] = (@ \ {l}) \union {[l EXCEPT !.answer = PageOf(l.page)]}]
    /\ UNCHANGED <<rvRows, screen, decided>>

\* Mutant: the answer of an earlier read is shown too.
AnyIsActive(d, l) == l \in loads[d]

Active(d, l) == l.read = screen[d].reads

\* The answer arrives; a read may fail before or after it reached the service.
Shows(d, l, failed) ==
    /\ l \in loads[d] /\ (failed \/ l.answer # NoReview)
    /\ loads' = [loads EXCEPT ![d] = @ \ {l}]
    /\ screen' = IF ~Active(d, l) THEN screen
                 ELSE [screen EXCEPT ![d].shown =
                        IF failed THEN [status |-> "error"] ELSE [status |-> "ready", page |-> l.answer]]
    /\ UNCHANGED <<rvRows, decided>>

\* Refresh reviews; the retry of an error stays enabled while an action is in flight.
RefreshReviews(d) ==
    /\ screen[d].shown # Loading
    /\ screen[d].action = NoAction \/ screen[d].shown.status = "error"
    /\ Reads(d, screen[d].page, screen[d].action)
    /\ UNCHANGED <<rvRows, decided>>

\* The button stays enabled while an action is in flight.
NextReviews(d) ==
    /\ screen[d].shown.status = "ready" /\ screen[d].shown.page.hasMore
    /\ Reads(d, screen[d].page + 1, screen[d].action)
    /\ UNCHANGED <<rvRows, decided>>

Decide(d, x, status) ==
    /\ screen[d].shown.status = "ready" /\ screen[d].action = NoAction
    /\ x \in DOMAIN screen[d].shown.page.rows /\ screen[d].shown.page.rows[x].status # status
    /\ screen' = [screen EXCEPT ![d].action =
            [pc |-> "sent", of |-> x, status |-> status]]
    /\ UNCHANGED <<rvRows, loads, decided>>

\* moderate: claims the row by its id alone.
Moderate(d) ==
    LET a == screen[d].action IN
    /\ a.pc = "sent" /\ review[a.of].decisions < MaxDecisions
    /\ review' = [review EXCEPT ![a.of].status = a.status, ![a.of].decisions = @ + 1]
    /\ screen' = [screen EXCEPT ![d].action =
            [pc |-> "written", of |-> a.of, decisions |-> review[a.of].decisions + 1]]
    /\ UNCHANGED <<posted, loads, decided>>

ModerationSucceeds(d) ==
    /\ screen[d].action.pc = "written"
    /\ decided' = [decided EXCEPT ![d] = screen[d].action]
    /\ Reads(d, screen[d].page, NoAction)
    /\ UNCHANGED rvRows

\* The request or its answer is lost: an error is shown over the old list.
ModerationFails(d) ==
    /\ screen[d].action # NoAction
    /\ screen' = [screen EXCEPT ![d].action = NoAction]
    /\ UNCHANGED <<rvRows, loads, decided>>

RvNext ==
    \/ \E x \in Purchase, w \in Words : PostReview(x, w) \/ EditReview(x, w)
    \/ \E d \in Desk :
            \/ RefreshReviews(d) \/ NextReviews(d)
            \/ Moderate(d) \/ ModerationSucceeds(d) \/ ModerationFails(d)
            \/ \E l \in loads[d] : ListForModeration(d, l) \/ \E failed \in BOOLEAN : Shows(d, l, failed)
            \/ \E x \in Purchase, status \in Decision : Decide(d, x, status)

RvSpec == RvInit /\ [][RvNext]_rvVars

-----------------------------------------------------------------------------
\* A list shown after the screen reported a decision shows that decision or a
\* later one: no answer read before it is shown in its place.
OwnDecisionShown ==
    \A d \in Desk :
        LET s == screen[d].shown IN
        decided[d] # NoReview /\ s.status = "ready" /\ decided[d].of \in DOMAIN s.page.rows =>
            s.page.rows[decided[d].of].decisions >= decided[d].decisions
=============================================================================
