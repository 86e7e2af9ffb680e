-------------------------- MODULE AssistantWidget --------------------------
(***************************************************************************)
(* The embeddable widget (packages/assistant-widget): the configuration it *)
(* loads for its assistant, the conversation it shows, the history it      *)
(* sends with a question, the event stream it consumes, the failed turn it *)
(* offers to retry, and the abort of its requests when the assistant       *)
(* changes or the conversation is mounted anew. One widget on one page; an *)
(* exchange it abandoned may live on while the next one runs.              *)
(*                                                                         *)
(* The chat endpoint is ChatExchange. A text is the number of text events  *)
(* it is made of; a question is known by the number of its message.        *)
(***************************************************************************)
EXTENDS ChatExchange

CONSTANTS
    AssistantIds,  \* values of the property assistantId
    Welcomes,      \* welcome messages an assistant may have published
    MaxMessages,   \* bound: message numbers of one conversation
    MaxChanges,    \* bound: changes of the property
    NoExchange,    \* no request is pending
    NoFailure      \* no failed turn is shown

\* The limit of the history is that of publicChatClient.ts; config.py refuses an odd one.
ASSUME WidgetAssumption ==
    /\ MaxMessages \in Nat /\ MaxChanges \in Nat /\ MaxDeltas \in Nat
    /\ HistoryLimit \in Nat \ {0} /\ HistoryLimit % 2 = 0

VARIABLES
    assistant,   \* the property assistantId
    changes,     \* how often it has changed
    loading,     \* a load for it is on the way
    bootstrap,   \* the bootstrap state: its key, status and welcome message
    messages,    \* localMessages
    number,      \* nextMessageNumber
    pending,     \* the request of the pending question, or NoExchange
    failed       \* failedTurn

bootVars == <<assistant, changes, loading, bootstrap>>
talkVars == <<messages, number, pending, failed>>
vars == <<exchangeVars, bootVars, talkVars>>

PendingType == [request : Requests, of : AssistantIds, question : 1..MaxMessages,
                answer : 1..MaxMessages, seen : Nat, text : 0..MaxDeltas]
FailureType == [id : 1..MaxMessages, retryable : BOOLEAN]

ASSUME NoneAssumption == NoExchange \notin PendingType /\ NoFailure \notin FailureType

MessageType == [id : 1..MaxMessages, role : {"user", "assistant"},
                status : {"complete", "pending", "failed"}, text : 0..MaxDeltas]

WidgetTypeOK ==
    /\ assistant \in AssistantIds /\ changes \in 0..MaxChanges /\ loading \in BOOLEAN
    /\ bootstrap \in [key : AssistantIds, status : {"loading", "loaded", "error"},
                      welcome : Welcomes]
    /\ messages \in Seq(MessageType)
    /\ number \in 0..MaxMessages
    /\ pending \in PendingType \union {NoExchange}
    /\ failed \in FailureType \union {NoFailure}

WidgetInit ==
    /\ ExchangeInit
    /\ assistant \in AssistantIds /\ changes = 0 /\ loading = TRUE
    /\ bootstrap \in [key : {assistant}, status : {"loading"}, welcome : Welcomes]
    /\ messages = <<>> /\ number = 0
    /\ pending = NoExchange /\ failed = NoFailure

-----------------------------------------------------------------------------
(* Mounting.                                                               *)

\* The conversation is shown for a configuration loaded under the current key.
Mounted == bootstrap.key = assistant /\ bootstrap.status = "loaded"

\* The conversation is unmounted: its request is aborted, nothing it still brings is shown, and
\* the next conversation starts empty.
Unmount ==
    /\ messages' = <<>> /\ number' = 0
    /\ failed' = NoFailure /\ pending' = NoExchange
    /\ IF pending = NoExchange THEN UNCHANGED exchangeVars ELSE Close(pending.request)

\* The page names another assistant: the load on the way is aborted, another one begins.
ChangeAssistant ==
    /\ changes < MaxChanges /\ changes' = changes + 1
    /\ assistant' \in AssistantIds \ {assistant}
    /\ loading' = TRUE
    /\ Unmount
    /\ UNCHANGED bootstrap

\* The load ends. A conversation shown from an earlier load of the same key goes on only if the
\* welcome message, which is part of its key, is the same.
Load ==
    /\ loading /\ loading' = FALSE
    /\ \E s \in {"loaded", "error"}, w \in Welcomes :
        /\ bootstrap' = [key |-> assistant, status |-> s,
                         welcome |-> IF s = "loaded" THEN w ELSE bootstrap.welcome]
        /\ IF Mounted /\ s = "loaded" /\ w = bootstrap.welcome
           THEN UNCHANGED <<talkVars, exchangeVars>>
           ELSE Unmount
    /\ UNCHANGED <<assistant, changes>>

-----------------------------------------------------------------------------
(* Asking.                                                                 *)

\* Array.filter: the messages at these positions, in their order.
Among(conversation, kept) ==
    LET among[n \in 0..Len(conversation)] ==
            IF n = 0 THEN <<>>
            ELSE IF n \in kept THEN Append(among[n - 1], conversation[n]) ELSE among[n - 1]
    IN  among[Len(conversation)]

\* slice(-limit), and the role of each message.
LastRoles(eligible) ==
    LET dropped == IF Len(eligible) > HistoryLimit THEN Len(eligible) - HistoryLimit ELSE 0
    IN  [i \in 1..(Len(eligible) - dropped) |-> eligible[dropped + i].role]

\* Mutant of BuildHistory: failed and pending questions are sent too.
BuildHistoryOfAll(conversation, current) ==
    LastRoles(Among(conversation, {i \in DOMAIN conversation : conversation[i].id # current}))

\* buildConversationHistory: the last complete messages, at most the limit, without the current
\* one. The welcome message, which is presentation only, is not kept here.
BuildHistory(conversation, current) ==
    LastRoles(Among(conversation, {i \in DOMAIN conversation :
        conversation[i].status = "complete" /\ conversation[i].id # current}))

SetStatus(conversation, id, s) ==
    [i \in DOMAIN conversation |->
        IF conversation[i].id = id THEN [conversation[i] EXCEPT !.status = s]
        ELSE conversation[i]]

\* requestAnswer: the failure shown is cleared, the answer's message gets its number, the request
\* is sent with the history of what precedes the question.
RequestAnswer(question, preceding) ==
    /\ Mounted /\ pending = NoExchange
    /\ failed' = NoFailure
    /\ \E r \in Requests :
        /\ Arrive(r, BuildHistory(preceding, question))
        /\ pending' = [request |-> r, of |-> assistant, question |-> question,
                       answer |-> number', seen |-> 0, text |-> 0]
    /\ UNCHANGED bootVars

\* submit: only while nothing is pending.
Submit ==
    /\ number + 2 <= MaxMessages
    /\ number' = number + 2
    /\ messages' = Append(messages, [id |-> number + 1, role |-> "user", status |-> "pending",
                                     text |-> 0])
    /\ RequestAnswer(number + 1, messages)

Preceding(id) == SubSeq(messages, 1, (CHOOSE i \in DOMAIN messages : messages[i].id = id) - 1)

\* retry: the failed question again, with what precedes it.
Retry ==
    /\ failed # NoFailure /\ failed.retryable
    /\ number < MaxMessages
    /\ number' = number + 1
    /\ messages' = SetStatus(messages, failed.id, "pending")
    /\ RequestAnswer(failed.id, Preceding(failed.id))

-----------------------------------------------------------------------------
(* Consuming the answer.                                                   *)

\* requestError in publicChatClient.ts.
RetryableStatus(code) == code = 429 \/ (code >= 500 /\ code # 503)

\* The catch of requestAnswer: the partial answer is removed, the question is marked failed; the
\* composer is restored.
Fail(retryable) ==
    LET kept == {i \in DOMAIN messages : messages[i].id # pending.answer} IN
    /\ messages' = SetStatus(Among(messages, kept), pending.question, "failed")
    /\ failed' = [id |-> pending.question, retryable |-> retryable]
    /\ pending' = NoExchange
    /\ Close(pending.request)
    /\ UNCHANGED <<number, bootVars>>

\* A response other than 200.
Refused ==
    /\ pending # NoExchange
    /\ status[pending.request] \notin {0, 200}
    /\ Fail(RetryableStatus(status[pending.request]))

\* The answer's message with this text and status: added on the first delta.
ShowAnswer(conversation, s, text) ==
    LET shown == [id |-> pending.answer, role |-> "assistant", status |-> s, text |-> text] IN
    IF \E i \in DOMAIN conversation : conversation[i].id = shown.id
    THEN [i \in DOMAIN conversation |->
            IF conversation[i].id = shown.id THEN shown ELSE conversation[i]]
    ELSE Append(conversation, shown)

\* The whole answer: question and answer become complete and the composer is restored.
Finish ==
    /\ messages' = ShowAnswer(SetStatus(messages, pending.question, "complete"),
                              "complete", pending.text)
    /\ pending' = NoExchange
    /\ Close(pending.request)
    /\ UNCHANGED <<number, failed, bootVars>>

Streaming == pending # NoExchange /\ status[pending.request] = 200

\* dispatchEvent: an event out of order or repeated, and a "complete" without a text before it,
\* are an invalid response.
Receive ==
    /\ Streaming /\ pending.seen < Len(events[pending.request])
    /\ LET event == events[pending.request][pending.seen + 1]
           first == pending.seen = 0
       IN  \/ /\ event = "start" /\ first
              /\ pending' = [pending EXCEPT !.seen = 1]
              /\ UNCHANGED <<messages, number, failed, bootVars, exchangeVars>>
           \/ /\ event = "delta" /\ ~first
              /\ pending' = [pending EXCEPT !.seen = @ + 1, !.text = @ + 1]
              /\ messages' = ShowAnswer(messages, "pending", pending.text + 1)
              /\ UNCHANGED <<number, failed, bootVars, exchangeVars>>
           \/ event = "complete" /\ ~first /\ pending.text > 0 /\ Finish
           \/ /\ \/ event = "error"
                 \/ event \in {"delta", "complete"} /\ first
                 \/ event = "complete" /\ pending.text = 0
                 \/ event = "start" /\ ~first
              /\ Fail(TRUE)

\* Mutant of EndOfBody: what has been received is taken for the answer.
EndOfBodyAsAnswer == Finish

\* The body ends before a terminal event: an invalid response, never an answer.
EndOfBody == Fail(TRUE)

\* Mutant of Lost: only an error of the body's reader is caught, not one of the request itself.
LostWhileStreaming ==
    /\ Streaming /\ link[pending.request] = "lost"
    /\ Fail(TRUE) \/ EndOfBody

\* The connection is lost: the read fails, or a proxy ends the body early. What the network had
\* delivered may have been read before or is lost with it.
Lost ==
    /\ pending # NoExchange /\ link[pending.request] = "lost"
    /\ Fail(TRUE) \/ (Streaming /\ EndOfBody)

Widget == Refused \/ Receive \/ Lost

Server ==
    /\ \/ \E r \in Requests : Handler(r) \/ Cut(r)
       \/ Crash
    /\ UNCHANGED <<bootVars, talkVars>>

WidgetNext == Server \/ ChangeAssistant \/ Load \/ Submit \/ Retry \/ Widget

\* The server keeps its contract, the widget reads what has come and hears of a lost connection.
\* Nobody is made to ask, to retry, to change the page or to lose a connection.
Fairness ==
    /\ \A r \in Requests : WF_vars(Handler(r) /\ UNCHANGED <<bootVars, talkVars>>)
    /\ WF_vars(Widget)

WidgetSpec == WidgetInit /\ [][WidgetNext]_vars /\ Fairness

-----------------------------------------------------------------------------
\* Whatever has failed, been cut off or retried before, the history of the next question, and of a
\* retried one, is one the server's validator accepts (conversationHistory.ts against
\* PublicChatRequest.validate_complete_turns), and a pending request belongs to the conversation
\* and the assistant shown (components/assistant-widget/AssistantWidget.tsx:112, AssistantWidget.tsx:65).
ConversationConsistent ==
    /\ WidgetTypeOK
    /\ pending = NoExchange => WellFormedHistory(BuildHistory(messages, 0))
    /\ failed # NoFailure => WellFormedHistory(BuildHistory(Preceding(failed.id), failed.id))
    /\ pending # NoExchange => Mounted /\ pending.of = assistant

NewAnswers ==
    {m \in ToSet(messages') : m.role = "assistant" /\ m.status = "complete"
                              /\ m \notin ToSet(messages)}

\* An answer is shown as complete only when the server completed it, with all of its text (the
\* widget's README.md:34, apps/backend/docs/public-assistant-chat.md:33).
AnswersAreWhole ==
    [][\A m \in NewAnswers :
        LET sent == events[pending.request]
        IN  /\ Len(sent) > 1 /\ Last(sent) = "complete"
            /\ m.text = Len(sent) - 2]_vars

\* Every question asked gets an answer or a failure the user sees; the composer does not stay
\* blocked (AssistantWidget.tsx:226-229).
EveryQuestionSettles == pending # NoExchange ~> pending = NoExchange
=============================================================================
