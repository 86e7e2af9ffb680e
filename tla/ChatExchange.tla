---------------------------- MODULE ChatExchange ----------------------------
(***************************************************************************)
(* What the public chat endpoint promises to whoever reads its answer: one *)
(* HTTP status; with 200 a stream that begins with "start", goes on with   *)
(* text events and ends with exactly one "complete", only after a text, or *)
(* one "error"; nothing after it; and an end of the handler in any case.   *)
(* A connection may be lost, or closed by its reader, at any time, and     *)
(* then the stream may stop anywhere. PublicChat implements this module,   *)
(* AssistantWidget is checked on top of it.                                *)
(***************************************************************************)
EXTENDS Naturals, SequencesExt

CONSTANTS
    Requests,       \* HTTP exchanges
    HistoryLimit,   \* maximum_history_messages of the server, PUBLIC_HISTORY_LIMIT of the widget
    MaxDeltas       \* bound: text events of one stream

VARIABLES
    busy,     \* the handler runs
    status,   \* HTTP status sent, 0 while none is
    events,   \* the events sent
    link      \* the connection: "open", "lost" unknown to its reader, "closed" by it

exchangeVars == <<busy, status, events, link>>

Terminal == {"complete", "error"}

ExchangeInit ==
    /\ busy = [r \in Requests |-> FALSE]
    /\ status = [r \in Requests |-> 0]
    /\ events = [r \in Requests |-> <<>>]
    /\ link = [r \in Requests |-> "open"]

Refusals == {400, 403, 404, 413, 415, 422, 429, 500, 503, 504}

\* Completed turns only: user and assistant in turn, no more than the limit.
WellFormedHistory(history) ==
    /\ Len(history) <= HistoryLimit
    /\ Len(history) % 2 = 0
    /\ \A i \in 1..Len(history) : history[i] = IF i % 2 = 1 THEN "user" ELSE "assistant"

\* A request arrives: refused at once, or worked on.
Arrive(r, history) ==
    /\ ~busy[r] /\ status[r] = 0 /\ link[r] = "open"
    /\ \/ WellFormedHistory(history) /\ busy' = [busy EXCEPT ![r] = TRUE] /\ UNCHANGED status
       \/ \E code \in Refusals : status' = [status EXCEPT ![r] = code] /\ UNCHANGED busy
    /\ UNCHANGED <<events, link>>

\* The handler ends. What it sent stays for its reader; without one the exchange is over.
Return(r, code) ==
    /\ busy[r]
    /\ busy' = [busy EXCEPT ![r] = FALSE]
    /\ IF link[r] = "closed"
       THEN /\ status' = [status EXCEPT ![r] = 0]
            /\ events' = [events EXCEPT ![r] = <<>>]
            /\ link' = [link EXCEPT ![r] = "open"]
       ELSE /\ status' = [status EXCEPT ![r] = code]
            /\ UNCHANGED <<events, link>>

RefuseRequest(r) == status[r] = 0 /\ \E code \in Refusals : Return(r, code)

StartResponse(r) ==
    /\ busy[r] /\ status[r] = 0
    /\ status' = [status EXCEPT ![r] = 200]
    /\ UNCHANGED <<busy, events, link>>

Ended(r) == events[r] # <<>> /\ Last(events[r]) \in Terminal

Emit(r) ==
    /\ busy[r] /\ status[r] = 200 /\ ~Ended(r)
    /\ \E event \in {"start", "delta"} \union Terminal :
        /\ event = "start" <=> events[r] = <<>>
        /\ event = "delta" => Len(events[r]) <= MaxDeltas
        /\ event = "complete" => Last(events[r]) = "delta"
        /\ events' = [events EXCEPT ![r] = Append(@, event)]
    /\ UNCHANGED <<busy, status, link>>

\* The stream's handler returns, after the terminal event or because nobody listens.
EndResponse(r) == status[r] = 200 /\ (Ended(r) \/ link[r] # "open") /\ Return(r, 200)

\* The reader turns away; a handler that still runs hears of it.
Close(r) ==
    /\ busy[r] \/ status[r] # 0 \/ link[r] # "open"
    /\ link' = [link EXCEPT ![r] = IF busy[r] THEN "closed" ELSE "open"]
    /\ status' = IF busy[r] THEN status ELSE [status EXCEPT ![r] = 0]
    /\ events' = IF busy[r] THEN events ELSE [events EXCEPT ![r] = <<>>]
    /\ UNCHANGED busy

\* The network drops the connection.
Cut(r) ==
    /\ busy[r] /\ link[r] = "open"
    /\ link' = [link EXCEPT ![r] = "lost"]
    /\ UNCHANGED <<busy, status, events>>

\* The server process dies under all of its handlers.
Crash ==
    /\ \E r \in Requests : busy[r]
    /\ busy' = [r \in Requests |-> FALSE]
    /\ status' = [r \in Requests |-> IF link[r] = "closed" THEN 0 ELSE status[r]]
    /\ events' = [r \in Requests |-> IF link[r] = "closed" THEN <<>> ELSE events[r]]
    /\ link' = [r \in Requests |-> IF link[r] = "closed" THEN "open"
                                   ELSE IF busy[r] THEN "lost" ELSE link[r]]

Handler(r) == RefuseRequest(r) \/ StartResponse(r) \/ Emit(r) \/ EndResponse(r)

ExchangeNext ==
    \/ \E r \in Requests : Arrive(r, <<>>) \/ Handler(r) \/ Close(r) \/ Cut(r)
    \/ Crash

ExchangeSpec == ExchangeInit /\ [][ExchangeNext]_exchangeVars
=============================================================================
