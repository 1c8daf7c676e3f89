------------------------------ MODULE Support -------------------------------
(***************************************************************************)
(* SupportService.ask with the concierge of a signed-in customer.  The     *)
(* screen waits for one ask at a time, but an ask whose answer was lost or *)
(* timed out is still served while the customer retries its turn.          *)
(***************************************************************************)
EXTENDS Naturals, Sequences, FiniteSets, SequencesExt

CONSTANTS
    NoAsk,
    MaxTurns,       \* bound: turns of the transcript
    MaxAsks         \* bound: asks sent

ASSUME SupportAssumption == MaxTurns \in Nat \ {0} /\ MaxAsks \in Nat /\ NoAsk \notin Nat

Intent == {"PRODUCT", "ORDER", "DELIVERY"}
HistoryTurns == 3           \* HISTORY_LIMIT: six messages, a question and an answer a turn
AskId == 1 .. MaxAsks

VARIABLES
    transcript,     \* turns: link (asks for one), state, conversation, feedback
    intent,         \* the topic selected
    orders,         \* the customer's orders on the screen: "none", "loaded" or "error"
    orderLoad,      \* the active read of the orders is in flight
    sending,        \* the ask the screen waits for, or NoAsk
    asks,           \* asks sent, each at its step of the service
    conversation,   \* conversation[n]: what ask n recorded, or NoAsk
    ratings         \* conversations with a SupportFeedback row

spScreen == <<transcript, intent, orders, orderLoad, sending>>
spRows == <<conversation, ratings>>
spVars == <<spScreen, asks, spRows>>

-----------------------------------------------------------------------------
(* compact-chat-state *)

\* completeTurn and failTurn find the turn by its request.
TurnOf(n) == asks[n].turn

\* recentSupportHistory: pending and failed turns are left out.
Completed(turn) == turn.state = "done"

RecentHistory ==
    LET done == SelectSeq([i \in DOMAIN transcript |-> i], LAMBDA i : Completed(transcript[i]))
    IN SubSeq(done, (IF Len(done) > HistoryTurns THEN Len(done) - HistoryTurns ELSE 0) + 1, Len(done))

\* productLinkFollowUpIds: the products of the last assistant message, which has
\* none while its turn is pending or failed.
FollowUps(link) ==
    IF ~link \/ transcript = <<>> \/ Last(transcript).state # "done" THEN NoAsk ELSE Last(transcript).conversation

-----------------------------------------------------------------------------
SpInit ==
    /\ transcript = <<>>
    /\ intent = "PRODUCT"
    /\ orders = "none" /\ orderLoad = FALSE
    /\ sending = NoAsk
    /\ asks = <<>>
    /\ conversation = [n \in AskId |-> NoAsk]
    /\ ratings = {}

TakesOrder(i) == i \in {"ORDER", "DELIVERY"}

\* changeIntent: the effect reads the orders when the topic begins to take one.
ChangeIntent(i) ==
    /\ i # intent
    /\ intent' = i
    /\ orders' = "none"
    /\ orderLoad' = IF TakesOrder(i) /\ ~TakesOrder(intent) THEN TRUE ELSE TakesOrder(i) /\ orderLoad
    /\ UNCHANGED <<transcript, sending, asks, spRows>>

OrdersArrive(status) ==
    /\ orderLoad
    /\ orders' = status /\ orderLoad' = FALSE
    /\ UNCHANGED <<transcript, intent, sending, asks, spRows>>

Send(turn, question) ==
    /\ sending = NoAsk /\ Len(asks) < MaxAsks
    /\ asks' = Append(asks, [question EXCEPT !.turn = turn])
    /\ sending' = Len(asks) + 1

AskOf(link) ==
    [turn |-> 0, history |-> RecentHistory, products |-> FollowUps(link), step |-> "sent", provider |-> "none"]

\* Links are asked for under the product topic.
AskTurn(link) ==
    /\ Len(transcript) < MaxTurns
    /\ link => intent = "PRODUCT"
    /\ Send(Len(transcript) + 1, AskOf(link))
    /\ transcript' = Append(transcript,
            [link |-> link, state |-> "pending", conversation |-> NoAsk, feedback |-> "idle"])
    /\ UNCHANGED <<intent, orders, orderLoad, spRows>>

\* retryRequest: the customer's question of a failed turn, with today's history.
RetryTurn(t) ==
    LET turn == transcript[t] IN
    /\ turn.state = "error"
    /\ Send(t, AskOf(turn.link))
    /\ transcript' = [transcript EXCEPT ![t] = [turn EXCEPT !.state = "pending"]]
    /\ UNCHANGED <<intent, orders, orderLoad, spRows>>

-----------------------------------------------------------------------------
(* The service *)

AskStep(n, step, provider) == asks' = [asks EXCEPT ![n] = [@ EXCEPT !.step = step, !.provider = provider]]

\* The product context and the order lookup may fail before anything is written.
RefuseAsk(n) ==
    /\ asks[n].step = "sent"
    /\ AskStep(n, "failed", "none")
    /\ UNCHANGED <<spScreen, spRows>>

\* The conversation, then the customer's message; the process may end between.
StartConversation(n) ==
    /\ asks[n].step = "sent"
    /\ conversation' = [conversation EXCEPT ![n] = [turn |-> asks[n].turn, messages |-> <<>>]]
    /\ AskStep(n, "opened", "none")
    /\ UNCHANGED <<spScreen, ratings>>

RecordQuestion(n) ==
    /\ asks[n].step = "opened"
    /\ conversation' = [conversation EXCEPT ![n].messages = <<"CUSTOMER">>]
    /\ AskStep(n, "waiting", "busy")
    /\ UNCHANGED <<spScreen, ratings>>

\* The provider replies; a reply that is not valid text is a failure.
ProviderReplies(n, valid) ==
    /\ asks[n].step = "waiting" /\ asks[n].provider = "busy"
    /\ AskStep(n, IF valid THEN "replied" ELSE "failed", "done")
    /\ UNCHANGED <<spScreen, spRows>>

\* within: the timer rejects.
ProviderTimesOut(n) ==
    /\ asks[n].step = "waiting"
    /\ AskStep(n, "failed", "busy")
    /\ UNCHANGED <<spScreen, spRows>>

Replies(n) == conversation' = [conversation EXCEPT ![n].messages = Append(@, "ASSISTANT")]

\* Mutant: the reply of a provider is recorded whenever it comes.
RecordsLate(n) == Replies(n)

\* The promise is settled: nobody sees a reply after the timeout.
DropsLate(n) == UNCHANGED conversation

ProviderLate(n) ==
    /\ asks[n].step = "failed" /\ asks[n].provider = "busy"
    /\ AskStep(n, "failed", "done")
    /\ DropsLate(n)
    /\ UNCHANGED <<spScreen, ratings>>

RecordReply(n) ==
    /\ asks[n].step = "replied"
    /\ Replies(n)
    /\ AskStep(n, "ok", "done")
    /\ UNCHANGED <<spScreen, ratings>>

\* A database error or the end of the process.
AskDies(n) ==
    /\ asks[n].step \in {"opened", "waiting", "replied"}
    /\ AskStep(n, "failed", "done")
    /\ UNCHANGED <<spScreen, spRows>>

-----------------------------------------------------------------------------
(* Answers on the screen *)

Settled == {"ok", "failed"}

\* The answer of ask n; the client reports a lost connection as a failure.
AskAnswered(n, lost) ==
    /\ sending = n /\ (lost \/ asks[n].step \in Settled)
    /\ sending' = NoAsk
    /\ transcript' = [transcript EXCEPT ![TurnOf(n)] =
            IF ~lost /\ asks[n].step = "ok"
            THEN [@ EXCEPT !.state = "done", !.conversation = n, !.feedback = "idle"]
            ELSE [@ EXCEPT !.state = "error"]]
    /\ UNCHANGED <<intent, orders, orderLoad, asks, spRows>>

Feedback(t, value) == transcript' = [transcript EXCEPT ![t] = [@ EXCEPT !.feedback = value]]

SendFeedback(t) ==
    /\ transcript[t].conversation # NoAsk /\ transcript[t].feedback \notin {"sending", "stored", "sent"}
    /\ Feedback(t, "sending")
    /\ UNCHANGED <<intent, orders, orderLoad, sending, asks, spRows>>

\* feedback: the conversation must be the customer's own.
RecordFeedback(t) ==
    /\ transcript[t].feedback = "sending"
    /\ Feedback(t, "stored")
    /\ ratings' = ratings \union {transcript[t].conversation}
    /\ UNCHANGED <<intent, orders, orderLoad, sending, asks, conversation>>

FeedbackAnswered(t, lost) ==
    /\ transcript[t].feedback \in {"sending", "stored"} /\ (transcript[t].feedback = "sending" => lost)
    /\ Feedback(t, IF lost THEN "error" ELSE "sent")
    /\ UNCHANGED <<intent, orders, orderLoad, sending, asks, spRows>>

SpNext ==
    \/ \E i \in Intent : ChangeIntent(i)
    \/ \E status \in {"loaded", "error"} : OrdersArrive(status)
    \/ \E link \in BOOLEAN : AskTurn(link)
    \/ \E t \in DOMAIN transcript :
            \/ RetryTurn(t) \/ SendFeedback(t) \/ RecordFeedback(t)
            \/ \E lost \in BOOLEAN : FeedbackAnswered(t, lost)
    \/ \E n \in DOMAIN asks :
            \/ RefuseAsk(n) \/ StartConversation(n) \/ RecordQuestion(n)
            \/ ProviderTimesOut(n) \/ ProviderLate(n) \/ RecordReply(n) \/ AskDies(n)
            \/ \E valid \in BOOLEAN : ProviderReplies(n, valid)
            \/ \E lost \in BOOLEAN : AskAnswered(n, lost)

SpSpec == SpInit /\ [][SpNext]_spVars

-----------------------------------------------------------------------------
\* A conversation whose ask has been answered never gains a message: a reply
\* that comes after the timeout is not recorded for a customer who was told
\* that there is none.
LateReplyDropped ==
    [][\A n \in DOMAIN asks : asks[n].step \in Settled => conversation'[n] = conversation[n]]_spVars
=============================================================================
