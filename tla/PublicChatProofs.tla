-------------------------- MODULE PublicChatProofs --------------------------
(***************************************************************************)
(* What the public chat endpoint keeps, for any exchanges, callers, limits *)
(* of either limiter and faults.                                           *)
(*                                                                         *)
(* Responses. ResponsesSound relates where the handler of an exchange is   *)
(* to the status and the events it has sent and to the connection; with it *)
(* every step of PublicChat is a step of ChatExchange or one its reader    *)
(* cannot tell: the endpoint implements what the widget is checked against.*)
(*                                                                         *)
(* Slots. SlotsInv is the ledger: which of its handlers have a permit      *)
(* (PlacesKnown), which slots its lease then names (LeasesKnown), that     *)
(* these are the locks it has while none of them has expired (LocksAgree), *)
(* that the counters of the process are the numbers of permits             *)
(* (CountersAgree), and that the gauge exceeds them by no more than the    *)
(* faults of Redis (GaugeBounded). A property like SlotsAccounted is not   *)
(* inductive alone: a cleanup gives back what the lease names, so that     *)
(* nothing stays locked only because every lock is named by its lease.     *)
(***************************************************************************)
EXTENDS PublicChat, WellFoundedInduction, FiniteSetTheorems, SequenceTheorems, TLAPS

-----------------------------------------------------------------------------
(* The stream of an exchange: the inductive invariant                      *)

\* No response is sent yet; it has been started.
Waiting == {"rate", "acquire", "global", "prepare"}
Answering == {"stream", "dropped", "collect", "background"}

Codes == {0, 200, 403, 404, 413, 415, 422, 429, 500, 503, 504}
Events == {"start", "delta"} \union Terminal

\* "start" comes first and a terminal event, if any, last.
WellFormedStream(sent) ==
    /\ sent \in Seq(Events)
    /\ \A i \in 1 .. Len(sent) : /\ sent[i] = "start" <=> i = 1
                                 /\ i < Len(sent) => sent[i] \notin Terminal

EndedStream(sent) == sent # <<>> /\ Last(sent) \in Terminal

\* Where a handler is, and what it has sent to whom.
Sound(phase, code, sent, connection) ==
    /\ phase \in Phases /\ code \in Codes /\ connection \in {"open", "lost", "closed"}
    /\ WellFormedStream(sent)
    /\ phase \in Waiting => code = 0
    /\ phase \in Answering => code = 200
    /\ code = 0 => sent = <<>>
    /\ phase = "idle" => connection # "closed"
    /\ phase \in {"dropped", "collect"} => connection # "open"
    /\ phase = "background" => connection # "open" \/ EndedStream(sent)

ResponsesSound ==
    /\ DOMAIN pc = Requests /\ pc = [r \in Requests |-> pc[r]]
    /\ DOMAIN status = Requests /\ status = [r \in Requests |-> status[r]]
    /\ DOMAIN events = Requests /\ events = [r \in Requests |-> events[r]]
    /\ DOMAIN link = Requests /\ link = [r \in Requests |-> link[r]]
    /\ \A r \in Requests : Sound(pc[r], status[r], events[r], link[r])

\* The exchange r changes, and no other.
Becomes(r, phase, code, sent, connection) ==
    /\ pc' = [pc EXCEPT ![r] = phase]
    /\ status' = [status EXCEPT ![r] = code]
    /\ events' = [events EXCEPT ![r] = sent]
    /\ link' = [link EXCEPT ![r] = connection]

LEMMA OneBecomes ==
    ASSUME ResponsesSound, NEW r \in Requests, NEW phase, NEW code, NEW sent, NEW connection,
           Becomes(r, phase, code, sent, connection), Sound(phase, code, sent, connection)
    PROVE  ResponsesSound'
  <1>1. /\ DOMAIN pc' = Requests /\ pc' = [q \in Requests |-> pc'[q]]
        /\ DOMAIN status' = Requests /\ status' = [q \in Requests |-> status'[q]]
        /\ DOMAIN events' = Requests /\ events' = [q \in Requests |-> events'[q]]
        /\ DOMAIN link' = Requests /\ link' = [q \in Requests |-> link'[q]]
    BY DEF Becomes, ResponsesSound
  <1>2. ASSUME NEW q \in Requests PROVE Sound(pc'[q], status'[q], events'[q], link'[q])
    <2>1. CASE q = r
      BY <2>1 DEF Becomes, ResponsesSound
    <2>2. CASE q # r
      BY <2>2 DEF Becomes, ResponsesSound
    <2> QED
      BY <2>1, <2>2
  <1> QED
    BY <1>1, <1>2 DEF ResponsesSound, Sound

\* What stays as it is becomes what it is.
LEMMA Stays ==
    ASSUME ResponsesSound, NEW r \in Requests
    PROVE  /\ pc = [pc EXCEPT ![r] = pc[r]] /\ status = [status EXCEPT ![r] = status[r]]
           /\ events = [events EXCEPT ![r] = events[r]] /\ link = [link EXCEPT ![r] = link[r]]
  BY DEF ResponsesSound

\* A handler ends: for a reader that has gone, the exchange is over.
LEMMA Returned ==
    ASSUME ResponsesSound, NEW r \in Requests, NEW code, Return(r, code)
    PROVE  IF link[r] = "closed" THEN Becomes(r, "idle", 0, <<>>, "open")
                                 ELSE Becomes(r, "idle", code, events[r], link[r])
  BY Stays DEF Return, Becomes

LEMMA ReturnSound ==
    ASSUME ResponsesSound, NEW r \in Requests, NEW code \in Codes \ {0}, Return(r, code)
    PROVE  ResponsesSound'
  <1>1. Sound("idle", 0, <<>>, "open")
    BY DEF Sound, Phases, Waiting, Answering, Codes, WellFormedStream
  <1>2. link[r] # "closed" => Sound("idle", code, events[r], link[r])
    <2>1. Sound(pc[r], status[r], events[r], link[r])
      BY DEF ResponsesSound
    <2> QED
      BY <2>1 DEF Sound, Phases, Waiting, Answering
  <1> QED
    BY <1>1, <1>2, Returned, OneBecomes

-----------------------------------------------------------------------------
(* The refinement: what a step is to the reader of the exchange            *)

Contract == [Exchange!ExchangeNext]_(Exchange!exchangeVars)

LEMMA BusyStays ==
    ASSUME ResponsesSound, NEW r \in Requests, NEW phase, phase # "idle", pc[r] # "idle",
           pc' = [pc EXCEPT ![r] = phase]
    PROVE  [q \in Requests |-> pc'[q] # "idle"] = [q \in Requests |-> pc[q] # "idle"]
  <1>1. \A q \in Requests : pc'[q] # "idle" <=> pc[q] # "idle"
    BY DEF ResponsesSound
  <1> QED
    BY <1>1

\* Nothing that its reader can tell.
LEMMA Unseen ==
    ASSUME ResponsesSound, NEW r \in Requests, NEW phase, phase # "idle", pc[r] # "idle",
           pc' = [pc EXCEPT ![r] = phase], UNCHANGED <<status, events, link>>
    PROVE  Contract
  BY BusyStays DEF Contract, Exchange!exchangeVars

LEMMA ReturnMapped ==
    ASSUME ResponsesSound, NEW r \in Requests, NEW code, pc[r] # "idle", Return(r, code)
    PROVE  Exchange!Return(r, code)
  <1>1. [q \in Requests |-> pc'[q] # "idle"]
        = [[q \in Requests |-> pc[q] # "idle"] EXCEPT ![r] = FALSE]
    <2>1. \A q \in Requests : pc'[q] # "idle" <=> (q # r /\ pc[q] # "idle")
      BY DEF Return, ResponsesSound
    <2> QED
      BY <2>1
  <1>2. [q \in Requests |-> pc[q] # "idle"][r]
    OBVIOUS
  <1> QED
    BY <1>1, <1>2 DEF Return, Exchange!Return

\* Before a response is started, an end of the handler refuses the request.
LEMMA Refusal ==
    ASSUME ResponsesSound, NEW r \in Requests, NEW code \in Codes \ {0, 200},
           pc[r] \in Waiting, Return(r, code)
    PROVE  ResponsesSound' /\ Contract
  <1>1. status[r] = 0 /\ pc[r] # "idle"
    BY DEF ResponsesSound, Sound, Waiting
  <1>2. Exchange!Return(r, code)
    BY <1>1, ReturnMapped
  <1>3. code \in Exchange!Refusals
    BY DEF Codes, Exchange!Refusals
  <1>4. Exchange!RefuseRequest(r)
    BY <1>1, <1>2, <1>3 DEF Exchange!RefuseRequest
  <1> QED
    BY <1>4, ReturnSound DEF Contract, Exchange!ExchangeNext, Exchange!Handler

\* The handler goes on, unseen.
LEMMA Advance ==
    ASSUME ResponsesSound, NEW r \in Requests, NEW phase, phase # "idle", pc[r] # "idle",
           pc' = [pc EXCEPT ![r] = phase], UNCHANGED <<status, events, link>>,
           Sound(phase, status[r], events[r], link[r])
    PROVE  ResponsesSound' /\ Contract
  <1>1. Becomes(r, phase, status[r], events[r], link[r])
    BY Stays DEF Becomes
  <1> QED
    BY <1>1, OneBecomes, Unseen

LEMMA AdvanceWaiting ==
    ASSUME ResponsesSound, NEW r \in Requests, NEW phase \in Waiting, pc[r] \in Waiting,
           pc' = [pc EXCEPT ![r] = phase], UNCHANGED <<status, events, link>>
    PROVE  ResponsesSound' /\ Contract
  <1>1. Sound(pc[r], status[r], events[r], link[r])
    BY DEF ResponsesSound
  <1>2. Sound(phase, status[r], events[r], link[r]) /\ phase # "idle" /\ pc[r] # "idle"
    BY <1>1 DEF Sound, Waiting, Answering, Phases
  <1> QED
    BY <1>2, Advance

LEMMA ArriveStep ==
    ASSUME ResponsesSound, NEW r \in Requests, NEW c, NEW e, Arrive(r, c, e)
    PROVE  ResponsesSound' /\ Contract
  <1>1. Sound(pc[r], status[r], events[r], link[r]) /\ pc[r] = "idle" /\ status[r] = 0 /\ link[r] = "open"
    BY DEF ResponsesSound, Arrive
  <1>2. events[r] = <<>> /\ ~[q \in Requests |-> pc[q] # "idle"][r]
    BY <1>1 DEF Sound
  <1>3. CASE BoundaryStatus(e) = 200
    <2>1. pc' = [pc EXCEPT ![r] = "rate"] /\ UNCHANGED <<status, events, link>>
      BY <1>3 DEF Arrive
    <2>2. Becomes(r, "rate", status[r], events[r], link[r])
      BY <2>1, Stays DEF Becomes
    <2>3. Sound("rate", status[r], events[r], link[r])
      BY <1>1 DEF Sound, Phases, Waiting, Answering
    <2>4. Exchange!Arrive(r, <<>>)
      <3>1. [q \in Requests |-> pc'[q] # "idle"]
            = [[q \in Requests |-> pc[q] # "idle"] EXCEPT ![r] = TRUE]
        <4>1. \A q \in Requests : pc'[q] # "idle" <=> (q = r \/ pc[q] # "idle")
          BY <2>1 DEF ResponsesSound
        <4> QED
          BY <4>1
      <3>2. Exchange!WellFormedHistory(<<>>)
        BY LimitsAssumption DEF Exchange!WellFormedHistory
      <3> QED
        BY <1>1, <1>2, <2>1, <3>1, <3>2 DEF Exchange!Arrive
    <2> QED
      BY <2>2, <2>3, <2>4, OneBecomes DEF Contract, Exchange!ExchangeNext
  <1>4. CASE BoundaryStatus(e) # 200
    <2>1. PICK code \in {403, 413, 415, 422} : code = BoundaryStatus(e)
      BY <1>4 DEF BoundaryStatus
    <2>2. status' = [status EXCEPT ![r] = code] /\ UNCHANGED <<pc, events, link>>
      BY <1>4, <2>1 DEF Arrive
    <2>3. Becomes(r, pc[r], code, events[r], link[r])
      BY <2>2, Stays DEF Becomes
    <2>4. Sound(pc[r], code, events[r], link[r])
      BY <1>1 DEF Sound, Phases, Codes, Waiting, Answering
    <2>5. code \in Exchange!Refusals
      BY DEF Exchange!Refusals
    <2>6. Exchange!Arrive(r, <<>>)
      <3>1. [q \in Requests |-> pc'[q] # "idle"] = [q \in Requests |-> pc[q] # "idle"]
        BY <2>2
      <3>2. \E refusal \in Exchange!Refusals : status' = [status EXCEPT ![r] = refusal]
        BY <2>2, <2>5
      <3> QED
        BY <1>1, <1>2, <2>2, <3>1, <3>2, Zenon DEF Exchange!Arrive
    <2> QED
      BY <2>3, <2>4, <2>6, OneBecomes DEF Contract, Exchange!ExchangeNext
  <1> QED
    BY <1>3, <1>4

LEMMA AdmissionStep ==
    ASSUME ResponsesSound, NEW r \in Requests,
           CheckRate(r) \/ AcquireMemory(r) \/ TryClientSlot(r) \/ TryGlobalSlot(r)
    PROVE  ResponsesSound' /\ Contract
  <1>1. pc[r] \in Waiting
    BY DEF CheckRate, AcquireMemory, TryClientSlot, TryGlobalSlot, Waiting
  <1>2. \/ \E code \in {429, 503} : Return(r, code)
        \/ /\ UNCHANGED <<status, events, link>>
           /\ \/ UNCHANGED pc
              \/ \E phase \in Waiting : pc' = [pc EXCEPT ![r] = phase]
    BY DEF CheckRate, AcquireMemory, TryClientSlot, TryGlobalSlot, Admit, TryNext, Waiting
  <1>3. CASE \E code \in {429, 503} : Return(r, code)
    <2>1. PICK code \in Codes \ {0, 200} : Return(r, code)
      BY <1>3 DEF Codes
    <2> QED
      BY <1>1, <2>1, Refusal
  <1>4. CASE UNCHANGED <<pc, status, events, link>>
    <2>1. pc' = [pc EXCEPT ![r] = pc[r]]
      BY <1>4, Stays
    <2> QED
      BY <1>1, <1>4, <2>1, AdvanceWaiting
  <1>5. CASE /\ UNCHANGED <<status, events, link>>
             /\ \E phase \in Waiting : pc' = [pc EXCEPT ![r] = phase]
    BY <1>1, <1>5, AdvanceWaiting
  <1> QED
    BY <1>2, <1>3, <1>4, <1>5

LEMMA PrepareStep ==
    ASSUME ResponsesSound, NEW r \in Requests, Prepare(r)
    PROVE  ResponsesSound' /\ Contract
  <1>1. /\ pc[r] = "prepare" /\ pc[r] \in Waiting /\ status[r] = 0
        /\ Sound(pc[r], status[r], events[r], link[r])
    BY DEF Prepare, ResponsesSound, Sound, Waiting
  <1>2. CASE \E code \in {404, 422, 504, 500} : Return(r, code)
    <2>1. PICK code \in Codes \ {0, 200} : Return(r, code)
      BY <1>2 DEF Codes
    <2> QED
      BY <1>1, <2>1, Refusal
  <1>3. CASE ~\E code \in {404, 422, 504, 500} : Return(r, code)
    <2>1. /\ pc' = [pc EXCEPT ![r] = "stream"] /\ status' = [status EXCEPT ![r] = 200]
          /\ UNCHANGED <<events, link>>
      BY <1>3 DEF Prepare
    <2>2. Becomes(r, "stream", 200, events[r], link[r])
      BY <2>1, Stays DEF Becomes
    <2>3. Sound("stream", 200, events[r], link[r])
      BY <1>1 DEF Sound, Phases, Codes, Waiting, Answering
    <2>4. Exchange!StartResponse(r)
      <3>1. [q \in Requests |-> pc'[q] # "idle"] = [q \in Requests |-> pc[q] # "idle"]
        BY <1>1, <2>1, BusyStays
      <3>2. [q \in Requests |-> pc[q] # "idle"][r]
        BY <1>1
      <3> QED
        BY <1>1, <2>1, <3>1, <3>2 DEF Exchange!StartResponse
    <2> QED
      BY <2>2, <2>3, <2>4, OneBecomes DEF Contract, Exchange!ExchangeNext, Exchange!Handler
  <1> QED
    BY <1>2, <1>3

LEMMA StreamGrows ==
    ASSUME NEW sent, WellFormedStream(sent), NEW event \in Events, ~EndedStream(sent),
           event = "start" <=> sent = <<>>
    PROVE  WellFormedStream(Append(sent, event))
  <1>1. sent \in Seq(Events) /\ Len(sent) \in Nat
    BY DEF WellFormedStream
  <1>2. PICK grown : grown = Append(sent, event)
    OBVIOUS
  <1>3. /\ grown \in Seq(Events) /\ Len(grown) = Len(sent) + 1 /\ grown[Len(sent) + 1] = event
        /\ \A i \in 1 .. Len(sent) : grown[i] = sent[i]
    BY <1>1, <1>2
  <1>4. sent = <<>> <=> Len(sent) = 0
    BY <1>1
  <1>5. Len(sent) > 0 => sent[Len(sent)] \notin Terminal
    BY <1>1, <1>4 DEF EndedStream, Last
  <1>6. ASSUME NEW i \in 1 .. Len(grown)
        PROVE  (grown[i] = "start" <=> i = 1) /\ (i < Len(grown) => grown[i] \notin Terminal)
    <2>1. CASE i = Len(sent) + 1
      BY <1>1, <1>3, <1>4, <2>1
    <2>2. CASE i \in 1 .. Len(sent)
      <3>1. grown[i] = sent[i] /\ (sent[i] = "start" <=> i = 1)
        BY <1>3, <2>2 DEF WellFormedStream
      <3>2. sent[i] \notin Terminal
        BY <1>1, <1>5, <2>2 DEF WellFormedStream
      <3> QED
        BY <3>1, <3>2
    <2> QED
      BY <1>1, <1>3, <2>1, <2>2
  <1> QED
    BY <1>2, <1>3, <1>6 DEF WellFormedStream

LEMMA NextEventStep ==
    ASSUME ResponsesSound, NEW r \in Requests, NextEvent(r)
    PROVE  ResponsesSound' /\ Contract
  <1>1. PICK sent : sent = events[r]
    OBVIOUS
  <1>2. /\ pc[r] = "stream" /\ status[r] = 200 /\ WellFormedStream(sent)
        /\ Sound(pc[r], status[r], sent, link[r])
    BY <1>1 DEF NextEvent, ResponsesSound, Sound, Answering
  <1>3. sent \in Seq(Events) /\ Len(sent) \in Nat
    BY <1>2 DEF WellFormedStream
  <1>4. PICK event \in Events :
           /\ events' = [events EXCEPT ![r] = Append(sent, event)]
           /\ event = "start" <=> sent = <<>>
           /\ event = "delta" => Len(sent) <= MaxDeltas
           /\ event = "complete" => \E i \in 1 .. Len(sent) : sent[i] = "delta"
           /\ ~EndedStream(sent)
    <2>1. events[r] = <<>> <=> sent = <<>>
      BY <1>1
    <2>2. Running(r) <=> sent # <<>> /\ Last(sent) \notin Terminal
      BY <1>1 DEF Running
    <2>3. Emitted(r) <=> \E i \in 1 .. Len(sent) : sent[i] = "delta"
      BY <1>1 DEF Emitted
    <2>4. \A event : Yield(r, event) => events' = [events EXCEPT ![r] = Append(sent, event)]
      BY <1>1 DEF Yield
    <2>5. {"start", "delta", "complete", "error"} \subseteq Events
      BY DEF Events, Terminal
    <2>6. CASE sent = <<>> /\ Yield(r, "start")
      BY <2>4, <2>5, <2>6 DEF EndedStream
    <2>7. CASE Running(r) /\ Len(sent) <= MaxDeltas /\ Yield(r, "delta")
      BY <2>2, <2>4, <2>5, <2>7 DEF EndedStream
    <2>8. CASE Running(r) /\ Emitted(r) /\ Yield(r, "complete")
      BY <2>2, <2>3, <2>4, <2>5, <2>8 DEF EndedStream
    <2>9. CASE Running(r) /\ Yield(r, "error")
      BY <2>2, <2>4, <2>5, <2>9 DEF EndedStream
    <2> QED
      BY <1>1, <2>6, <2>7, <2>8, <2>9 DEF NextEvent
  <1>5. UNCHANGED <<pc, status, link>>
    BY DEF NextEvent
  <1>6. WellFormedStream(Append(sent, event))
    BY <1>2, <1>4, StreamGrows
  <1>7. Becomes(r, pc[r], status[r], Append(sent, event), link[r])
    BY <1>4, <1>5, Stays DEF Becomes
  <1>8. Sound(pc[r], status[r], Append(sent, event), link[r])
    BY <1>2, <1>6 DEF Sound
  <1>9. event = "complete" => Last(events[r]) = "delta"
    <2>1. SUFFICES ASSUME event = "complete" PROVE Last(sent) = "delta"
      BY <1>1
    <2>2. PICK i \in 1 .. Len(sent) : sent[i] = "delta"
      BY <1>4, <2>1
    <2>3. i # 1 /\ Len(sent) # 1 /\ Len(sent) \in 1 .. Len(sent)
      BY <1>2, <1>3, <2>2 DEF WellFormedStream
    <2>4. sent[Len(sent)] # "start" /\ sent[Len(sent)] \in Events
      BY <1>2, <1>3, <2>3 DEF WellFormedStream
    <2>5. sent[Len(sent)] \notin Terminal
      BY <1>3, <1>4, <2>3 DEF EndedStream, Last
    <2> QED
      BY <2>4, <2>5 DEF Last, Events
  <1>10. Exchange!Emit(r)
    <2>1. [q \in Requests |-> pc'[q] # "idle"] = [q \in Requests |-> pc[q] # "idle"]
      BY <1>5
    <2>2. [q \in Requests |-> pc[q] # "idle"][r]
      BY <1>2
    <2>3. ~Exchange!Ended(r)
      BY <1>1, <1>4 DEF EndedStream, Exchange!Ended, Exchange!Terminal, Terminal, Last, Exchange!Last
    <2>4. event \in {"start", "delta"} \union Exchange!Terminal
      BY DEF Events, Terminal, Exchange!Terminal
    <2> QED
      BY <1>1, <1>2, <1>4, <1>5, <1>9, <2>1, <2>2, <2>3, <2>4 DEF Exchange!Emit, Last, Exchange!Last
  <1> QED
    BY <1>7, <1>8, <1>10, OneBecomes DEF Contract, Exchange!ExchangeNext, Exchange!Handler

\* The response is over when its stream has ended, or when nobody listens.
LEMMA Over ==
    ASSUME ResponsesSound, NEW r \in Requests, pc[r] \in {"collect", "background"},
           Return(r, status[r])
    PROVE  ResponsesSound' /\ Contract
  <1>1. /\ status[r] = 200 /\ pc[r] # "idle"
        /\ link[r] # "open" \/ EndedStream(events[r])
    BY DEF ResponsesSound, Sound, Answering
  <1>2. Exchange!EndResponse(r)
    <2>1. Exchange!Return(r, 200)
      BY <1>1, ReturnMapped
    <2>2. EndedStream(events[r]) => Exchange!Ended(r)
      BY DEF EndedStream, Exchange!Ended, Exchange!Terminal, Terminal, Last, Exchange!Last
    <2> QED
      BY <1>1, <2>1, <2>2 DEF Exchange!EndResponse
  <1>3. 200 \in Codes \ {0}
    BY DEF Codes
  <1> QED
    BY <1>1, <1>2, <1>3, ReturnSound DEF Contract, Exchange!ExchangeNext, Exchange!Handler

LEMMA AnsweringStep ==
    ASSUME ResponsesSound, NEW r \in Requests,
           EndStream(r) \/ Drop(r) \/ Background(r) \/ Collect(r)
    PROVE  ResponsesSound' /\ Contract
  <1>1. Sound(pc[r], status[r], events[r], link[r])
    BY DEF ResponsesSound
  <1>2. CASE EndStream(r)
    <2>1. /\ pc[r] = "stream" /\ pc' = [pc EXCEPT ![r] = "background"]
          /\ UNCHANGED <<status, events, link>> /\ EndedStream(events[r])
      BY <1>2 DEF EndStream, Running, EndedStream
    <2>2. Sound("background", status[r], events[r], link[r])
      BY <1>1, <2>1 DEF Sound, Phases, Waiting, Answering
    <2> QED
      BY <2>1, <2>2, Advance
  <1>3. CASE Drop(r)
    <2>1. /\ pc[r] = "stream" /\ pc' = [pc EXCEPT ![r] = "dropped"]
          /\ UNCHANGED <<status, events, link>> /\ link[r] # "open"
      BY <1>3 DEF Drop
    <2>2. Sound("dropped", status[r], events[r], link[r])
      BY <1>1, <2>1 DEF Sound, Phases, Waiting, Answering
    <2> QED
      BY <2>1, <2>2, Advance
  <1>4. ASSUME NEW next \in {"collect", "background"}, pc[r] = "dropped", Leave(r, next)
        PROVE  ResponsesSound' /\ Contract
    <2>1. pc' = [pc EXCEPT ![r] = next] /\ UNCHANGED <<status, events, link>>
      BY <1>4 DEF Leave
    <2>2. Sound(next, status[r], events[r], link[r]) /\ next # "idle"
      BY <1>1, <1>4 DEF Sound, Phases, Waiting, Answering
    <2> QED
      BY <1>4, <2>1, <2>2, Advance
  <1>5. CASE Background(r)
    <2>1. CASE pc[r] = "dropped"
      BY <1>4, <1>5, <2>1 DEF Background
    <2>2. CASE pc[r] = "background"
      BY <1>5, <2>2, Over DEF Background, Leave
    <2> QED
      BY <1>5, <2>1, <2>2 DEF Background
  <1>6. CASE Collect(r)
    <2>1. CASE pc[r] = "dropped"
      BY <1>4, <1>6, <2>1 DEF Collect
    <2>2. CASE pc[r] = "collect"
      BY <1>6, <2>2, Over DEF Collect, Leave
    <2> QED
      BY <1>6, <2>1, <2>2 DEF Collect
  <1> QED
    BY <1>2, <1>3, <1>5, <1>6

LEMMA CloseStep == ASSUME ResponsesSound, NEW r \in Requests, Close(r) PROVE ResponsesSound' /\ Contract
  <1>1. Sound(pc[r], status[r], events[r], link[r])
    BY DEF ResponsesSound
  <1>2. [q \in Requests |-> pc'[q] # "idle"] = [q \in Requests |-> pc[q] # "idle"] /\ pc' = pc
    BY DEF Close
  <1>3. CASE pc[r] = "idle"
    <2>1. /\ link' = [link EXCEPT ![r] = "open"] /\ status' = [status EXCEPT ![r] = 0]
          /\ events' = [events EXCEPT ![r] = <<>>]
          /\ status[r] # 0 \/ link[r] # "open"
      BY <1>3 DEF Close
    <2>2. Becomes(r, pc[r], 0, <<>>, "open")
      BY <1>2, <2>1, Stays DEF Becomes
    <2>3. Sound(pc[r], 0, <<>>, "open")
      BY <1>1, <1>3 DEF Sound, Phases, Waiting, Answering, Codes, WellFormedStream
    <2>4. ~[q \in Requests |-> pc[q] # "idle"][r]
      BY <1>3
    <2>5. Exchange!Close(r)
      BY <1>2, <2>1, <2>4 DEF Exchange!Close
    <2> QED
      BY <2>2, <2>3, <2>5, OneBecomes DEF Contract, Exchange!ExchangeNext
  <1>4. CASE pc[r] # "idle"
    <2>1. link' = [link EXCEPT ![r] = "closed"] /\ status' = status /\ events' = events
      BY <1>4 DEF Close
    <2>2. Becomes(r, pc[r], status[r], events[r], "closed")
      BY <1>2, <2>1, Stays DEF Becomes
    <2>3. Sound(pc[r], status[r], events[r], "closed")
      BY <1>1, <1>4 DEF Sound
    <2>4. [q \in Requests |-> pc[q] # "idle"][r]
      BY <1>4
    <2>5. Exchange!Close(r)
      BY <1>2, <2>1, <2>4 DEF Exchange!Close
    <2> QED
      BY <2>2, <2>3, <2>5, OneBecomes DEF Contract, Exchange!ExchangeNext
  <1> QED
    BY <1>3, <1>4

LEMMA CutStep == ASSUME ResponsesSound, NEW r \in Requests, Cut(r) PROVE ResponsesSound' /\ Contract
  <1>1. Sound(pc[r], status[r], events[r], link[r]) /\ pc[r] # "idle"
    BY DEF ResponsesSound, Cut
  <1>2. link' = [link EXCEPT ![r] = "lost"] /\ UNCHANGED <<pc, status, events>> /\ link[r] = "open"
    BY DEF Cut
  <1>3. Becomes(r, pc[r], status[r], events[r], "lost")
    BY <1>2, Stays DEF Becomes
  <1>4. Sound(pc[r], status[r], events[r], "lost")
    BY <1>1 DEF Sound
  <1>5. Exchange!Cut(r)
    <2>1. [q \in Requests |-> pc'[q] # "idle"] = [q \in Requests |-> pc[q] # "idle"]
      BY <1>2
    <2>2. [q \in Requests |-> pc[q] # "idle"][r]
      BY <1>1
    <2> QED
      BY <1>2, <2>1, <2>2 DEF Exchange!Cut
  <1> QED
    BY <1>3, <1>4, <1>5, OneBecomes DEF Contract, Exchange!ExchangeNext

LEMMA CrashStep == ASSUME ResponsesSound, Crash PROVE ResponsesSound' /\ Contract
  <1>1. /\ pc' = [r \in Requests |-> "idle"]
        /\ status' = [r \in Requests |-> IF link[r] = "closed" THEN 0 ELSE status[r]]
        /\ events' = [r \in Requests |-> IF link[r] = "closed" THEN <<>> ELSE events[r]]
        /\ link' = [r \in Requests |-> IF link[r] = "closed" THEN "open"
                                       ELSE IF pc[r] # "idle" THEN "lost" ELSE link[r]]
        /\ \E r \in Requests : pc[r] # "idle"
    BY DEF Crash
  <1>2. ASSUME NEW r \in Requests PROVE Sound(pc'[r], status'[r], events'[r], link'[r])
    <2>1. Sound(pc[r], status[r], events[r], link[r])
      BY DEF ResponsesSound
    <2>2. CASE link[r] = "closed"
      <3>1. Sound("idle", 0, <<>>, "open")
        BY DEF Sound, Phases, Waiting, Answering, Codes, WellFormedStream
      <3>2. pc'[r] = "idle" /\ status'[r] = 0 /\ events'[r] = <<>> /\ link'[r] = "open"
        BY <1>1, <2>2
      <3> QED
        BY <3>1, <3>2
    <2>3. CASE link[r] # "closed"
      <3>1. PICK connection \in {"lost", link[r]} :
               /\ pc'[r] = "idle" /\ status'[r] = status[r] /\ events'[r] = events[r]
               /\ link'[r] = connection
        BY <1>1, <2>3
      <3>2. Sound("idle", status[r], events[r], connection)
        BY <2>1, <2>3, <3>1 DEF Sound, Phases, Waiting, Answering
      <3> QED
        BY <3>1, <3>2
    <2> QED
      BY <2>2, <2>3
  <1>3. ResponsesSound'
    <2>1. /\ DOMAIN pc' = Requests /\ pc' = [q \in Requests |-> pc'[q]]
          /\ DOMAIN status' = Requests /\ status' = [q \in Requests |-> status'[q]]
          /\ DOMAIN events' = Requests /\ events' = [q \in Requests |-> events'[q]]
          /\ DOMAIN link' = Requests /\ link' = [q \in Requests |-> link'[q]]
      BY <1>1
    <2> QED
      BY <1>2, <2>1 DEF ResponsesSound, Sound
  <1>4. Exchange!Crash
    <2>1. [q \in Requests |-> pc'[q] # "idle"] = [q \in Requests |-> FALSE]
      BY <1>1
    <2>2. \A r \in Requests : [q \in Requests |-> pc[q] # "idle"][r] <=> pc[r] # "idle"
      OBVIOUS
    <2> QED
      BY <1>1, <2>1, <2>2 DEF Exchange!Crash
  <1> QED
    BY <1>3, <1>4 DEF Contract, Exchange!ExchangeNext

LEMMA ResponsesStart == ASSUME Init PROVE ResponsesSound /\ Exchange!ExchangeInit
  <1>1. Sound("idle", 0, <<>>, "open")
    BY DEF Sound, Phases, Waiting, Answering, Codes, WellFormedStream
  <1>2. ResponsesSound
    BY <1>1 DEF Init, ResponsesSound
  <1>3. [q \in Requests |-> pc[q] # "idle"] = [q \in Requests |-> FALSE]
    BY DEF Init
  <1> QED
    BY <1>2, <1>3 DEF Init, Exchange!ExchangeInit

LEMMA ResponsesStep == ASSUME ResponsesSound, [Next]_vars PROVE ResponsesSound' /\ Contract
  <1>1. CASE UNCHANGED <<pc, status, events, link>>
    BY <1>1 DEF ResponsesSound, Sound, Contract, Exchange!exchangeVars
  <1>2. CASE UNCHANGED vars
    BY <1>1, <1>2 DEF vars
  <1>3. CASE \E s \in Slots : Expire(s)
    BY <1>1, <1>3 DEF Expire
  <1>4. CASE \E r \in Requests : Handler(r) \/ Close(r) \/ Cut(r)
    BY <1>4, AdmissionStep, PrepareStep, NextEventStep, AnsweringStep, CloseStep, CutStep DEF Handler
  <1> QED
    BY <1>2, <1>3, <1>4, ArriveStep, CrashStep DEF Next

\* The endpoint (assistant/api/public_chat.py) implements what the widget is
\* checked against: every step of its handlers, streams, disconnects and crashes
\* is one that ChatExchange allows, or nothing its reader can tell.
THEOREM ExchangeImplemented == Spec => ExchangeContract
  <1>1. Init => ResponsesSound /\ Exchange!ExchangeInit
    BY ResponsesStart
  <1>2. ResponsesSound /\ [Next]_vars => ResponsesSound' /\ [Exchange!ExchangeNext]_(Exchange!exchangeVars)
    BY ResponsesStep DEF Contract
  <1> QED
    BY <1>1, <1>2, PTL DEF Spec, ExchangeContract, Exchange!ExchangeSpec

-----------------------------------------------------------------------------
(* The slots: the inductive invariant                                      *)

SlotsOf(lease) == {lease[i] : i \in 1 .. Len(lease)}

\* What a handler in this phase knows of its caller and its permit.
Placed(phase, who, no, done) ==
    /\ phase \in Phases /\ no \in 1 .. MaxSlot /\ done \in BOOLEAN
    /\ who \in Clients \union {Nobody}
    /\ phase # "idle" => who \in Clients
    /\ phase \in {"idle", "rate", "acquire", "global", "collect"} => done
    /\ phase \in {"prepare", "stream"} => ~done

\* The slots its lease names: its client's while it looks for one of the
\* deployment, both while its permit is not given back, and none else.
Leased(phase, who, lease, done) ==
    \/ phase # "global" /\ done /\ lease = <<>>
    \/ phase = "global" /\ done /\ \E n \in 1 .. MaxSlot : lease = <<<<who, n>>>>
    \/ phase # "global" /\ ~done
       /\ \E n, m \in 1 .. MaxSlot : lease = <<<<who, n>>, <<Deployment, m>>>>

Typed ==
    /\ limiter \in Limiters /\ faults \in 0 .. MaxFaults
    /\ lapsed \subseteq Requests
    /\ lock \in [Slots -> Requests \union {Nobody, Orphan}]
    /\ DOMAIN pc = Requests /\ pc = [r \in Requests |-> pc[r]]
    /\ DOMAIN client = Requests /\ client = [r \in Requests |-> client[r]]
    /\ DOMAIN tries = Requests /\ tries = [r \in Requests |-> tries[r]]
    /\ DOMAIN held = Requests /\ held = [r \in Requests |-> held[r]]
    /\ DOMAIN cleaned = Requests /\ cleaned = [r \in Requests |-> cleaned[r]]

PlacesKnown == \A r \in Requests : Placed(pc[r], client[r], tries[r], cleaned[r])

LeasesKnown ==
    /\ InRedis => \A r \in Requests : Leased(pc[r], client[r], held[r], cleaned[r])
    /\ InMemory => held = [r \in Requests |-> <<>>]

LocksAgree ==
    InRedis =>
        /\ \A s \in Slots : lock[s] \in Requests => s \in SlotsOf(held[lock[s]])
        /\ \A r \in Requests \ lapsed : \A s \in SlotsOf(held[r]) : lock[s] = r

Holders == {r \in Requests : ~cleaned[r]}
HoldersFor(c) == {r \in Requests : ~cleaned[r] /\ client[r] = c}

CountersAgree ==
    /\ total \in 0 .. GlobalLimit
    /\ byClient \in [Clients -> 0 .. ClientLimit]
    /\ InMemory => /\ total = Cardinality(Holders)
                   /\ \A c \in Clients : byClient[c] = Cardinality(HoldersFor(c))

\* A release that failed leaves its request counted.
GaugeBounded ==
    /\ gauge \in Nat
    /\ Cardinality(Holders) <= gauge /\ gauge <= Cardinality(Holders) + faults

SlotsInv == Typed /\ PlacesKnown /\ LeasesKnown /\ LocksAgree /\ CountersAgree /\ GaugeBounded

-----------------------------------------------------------------------------
(* Limits and leases *)

\* The natural numbers are well ordered.
LEMMA LeastNumber ==
    ASSUME NEW T \in SUBSET Nat, T # {}
    PROVE  \E m \in T : \A k \in T : m <= k
  <1> DEFINE Less == {p \in Nat \X Nat : p[1] < p[2]}
  <1>1. IsWellFoundedOn(Less, Nat)
    BY NatLessThanWellFounded DEF OpToRel
  <1>2. \A k, m \in Nat : k < m => <<k, m>> \in Less
    OBVIOUS
  <1>3. PICK m \in T : \A k \in T : ~(<<k, m>> \in Less)
    <2> HIDE DEF Less
    <2> QED
      BY <1>1, WFMin
  <1> HIDE DEF Less
  <1>4. ASSUME NEW k \in T PROVE m <= k
    <2>1. k \in Nat /\ m \in Nat
      OBVIOUS
    <2>2. ~(k < m)
      BY <1>2, <1>3, <2>1, Zenon
    <2> QED
      BY <2>1, <2>2
  <1> QED
    BY <1>4

\* A finite set of numbers has a greatest one: the one that fewest are above.
LEMMA GreatestNumber ==
    ASSUME NEW S \in SUBSET Nat, S # {}, IsFiniteSet(S)
    PROVE  \E m \in S : \A k \in S : m >= k
  <1> DEFINE Above(m) == {k \in S : k > m}
             Sizes == {Cardinality(Above(m)) : m \in S}
  <1>1. ASSUME NEW m \in S PROVE IsFiniteSet(Above(m)) /\ Cardinality(Above(m)) \in Nat
    BY FS_Subset, FS_CardinalityType
  <1>2. PICK m \in S : \A k \in S : Cardinality(Above(m)) <= Cardinality(Above(k))
    <2>1. Sizes \in SUBSET Nat /\ Sizes # {}
      BY <1>1
    <2>2. PICK n \in Sizes : \A k \in Sizes : n <= k
      <3> HIDE DEF Sizes
      <3> QED
        BY <2>1, LeastNumber
    <2> QED
      BY <2>2
  <1>3. ASSUME NEW k \in S, ~(m >= k) PROVE FALSE
    <2>0. k \in Nat /\ m \in Nat /\ m < k
      BY <1>3
    <2>1. k \in Above(m) /\ Above(k) \subseteq Above(m) /\ k \notin Above(k)
      <3>1. \A j \in Nat : j > k => j > m
        BY <2>0
      <3>2. S \subseteq Nat /\ ~(k > k) /\ k > m
        BY <2>0
      <3>3. Above(k) \subseteq Above(m)
        BY <3>1, <3>2
      <3>4. k \in Above(m)
        BY <1>3, <3>2
      <3> QED
        BY <3>2, <3>3, <3>4
    <2>2. Cardinality(Above(k)) = Cardinality(Above(m)) => Above(m) = Above(k)
      BY <1>1, <2>1, FS_Subset
    <2>3. Cardinality(Above(k)) <= Cardinality(Above(m))
      BY <1>1, <2>1, FS_Subset
    <2> QED
      BY <1>1, <1>2, <2>1, <2>2, <2>3
  <1> QED
    BY <1>3

\* Both limits are slot numbers.
LEMMA LimitsAreSlots ==
    ASSUME limiter \in Limiters
    PROVE  /\ MaxSlot \in Nat \ {0}
           /\ ClientLimit \in 1 .. MaxSlot /\ GlobalLimit \in 1 .. MaxSlot
           /\ InMemory <=> ~InRedis
  <1> DEFINE PerClient == {l.perClient : l \in Limiters}
             Globally == {l.globally : l \in Limiters}
  <1>1. Limiters \subseteq [kind : {"memory", "redis"}, perClient : Nat \ {0}, globally : Nat \ {0}]
        /\ IsFiniteSet(Limiters)
    BY LimitsAssumption
  <1>2. IsFiniteSet(PerClient)
    <2>1. [l \in Limiters |-> l.perClient] \in Surjection(Limiters, PerClient)
      BY DEF Surjection
    <2> QED
      BY <1>1, <2>1, FS_Surjection
  <1>3. IsFiniteSet(Globally)
    <2>1. [l \in Limiters |-> l.globally] \in Surjection(Limiters, Globally)
      BY DEF Surjection
    <2> QED
      BY <1>1, <2>1, FS_Surjection
  <1>4. /\ IsFiniteSet(PerClient \union Globally) /\ PerClient \union Globally \in SUBSET Nat
        /\ limiter.perClient \in PerClient \union Globally
        /\ limiter.globally \in PerClient \union Globally
        /\ 0 \notin PerClient \union Globally
    <2>1. PerClient \subseteq Nat \ {0} /\ Globally \subseteq Nat \ {0}
      BY <1>1
    <2> QED
      BY <1>2, <1>3, <2>1, FS_Union
  <1>5. /\ MaxSlot \in PerClient \union Globally
        /\ \A k \in PerClient \union Globally : MaxSlot >= k
    <2> DEFINE All == PerClient \union Globally
    <2>1. \E m \in All : \A k \in All : m >= k
      <3> HIDE DEF All
      <3>1. All \in SUBSET Nat /\ All # {} /\ IsFiniteSet(All)
        BY <1>4 DEF All
      <3> QED
        BY <3>1, GreatestNumber
    <2>2. MaxSlot = CHOOSE m \in All : \A k \in All : m >= k
      BY DEF MaxSlot, Max
    <2> HIDE DEF All
    <2>3. MaxSlot \in All /\ \A k \in All : MaxSlot >= k
      BY <2>1, <2>2
    <2> QED
      BY <2>3 DEF All
  <1>6. limiter.kind \in {"memory", "redis"}
    BY <1>1
  <1> HIDE DEF PerClient, Globally
  <1> QED
    BY <1>4, <1>5, <1>6 DEF ClientLimit, GlobalLimit, InMemory, InRedis

LEMMA SlotsOfLease ==
    /\ SlotsOf(<<>>) = {}
    /\ \A a : SlotsOf(<<a>>) = {a}
    /\ \A a, b : SlotsOf(<<a, b>>) = {a, b}
  <1>1. SlotsOf(<<>>) = {}
    BY DEF SlotsOf
  <1>2. ASSUME NEW a PROVE SlotsOf(<<a>>) = {a}
    <2>1. Len(<<a>>) = 1 /\ <<a>>[1] = a
      OBVIOUS
    <2> QED
      BY <2>1 DEF SlotsOf
  <1>3. ASSUME NEW a, NEW b PROVE SlotsOf(<<a, b>>) = {a, b}
    <2>1. Len(<<a, b>>) = 2 /\ <<a, b>>[1] = a /\ <<a, b>>[2] = b
      OBVIOUS
    <2>2. 1 .. 2 = {1, 2}
      OBVIOUS
    <2> QED
      BY <2>1, <2>2 DEF SlotsOf
  <1> QED
    BY <1>1, <1>2, <1>3

LEMMA TwoOfOne ==
    ASSUME NEW S, NEW a \in S, NEW b \in S
    PROVE  Append(<<a>>, b) = <<a, b>>
  <1>1. <<a>> \in Seq(S) /\ Len(<<a>>) = 1 /\ <<a>>[1] = a
    OBVIOUS
  <1>2. <<a, b>> \in Seq(S) /\ Len(<<a, b>>) = 2 /\ <<a, b>>[1] = a /\ <<a, b>>[2] = b
    OBVIOUS
  <1>3. \A one \in Seq(S) : /\ Append(one, b) \in Seq(S) /\ Len(Append(one, b)) = Len(one) + 1
                            /\ Append(one, b)[Len(one) + 1] = b
                            /\ \A i \in 1 .. Len(one) : Append(one, b)[i] = one[i]
    OBVIOUS
  <1>4. /\ Append(<<a>>, b) \in Seq(S) /\ Len(Append(<<a>>, b)) = 1 + 1
        /\ Append(<<a>>, b)[1 + 1] = b /\ Append(<<a>>, b)[1] = a
    <2>1. 1 \in 1 .. Len(<<a>>)
      BY <1>1
    <2> QED
      BY <1>1, <1>3, <2>1, Zenon
  <1>5. \A i \in 1 .. Len(<<a, b>>) : i = 1 \/ i = 2
    BY <1>2
  <1>6. Len(Append(<<a>>, b)) = Len(<<a, b>>)
    BY <1>2, <1>4
  <1>7. \A i \in 1 .. Len(<<a, b>>) : Append(<<a>>, b)[i] = <<a, b>>[i]
    BY <1>2, <1>4, <1>5
  <1> QED
    BY <1>2, <1>4, <1>6, <1>7, SeqEqual

-----------------------------------------------------------------------------
(* One exchange changes *)

Turns(r, phase, who, no, lease, done) ==
    /\ pc' = [pc EXCEPT ![r] = phase]
    /\ client' = [client EXCEPT ![r] = who]
    /\ tries' = [tries EXCEPT ![r] = no]
    /\ held' = [held EXCEPT ![r] = lease]
    /\ cleaned' = [cleaned EXCEPT ![r] = done]
    /\ limiter' = limiter

\* What stays as it is turns into what it is.
LEMMA Same ==
    ASSUME Typed, NEW r \in Requests
    PROVE  /\ pc = [pc EXCEPT ![r] = pc[r]] /\ client = [client EXCEPT ![r] = client[r]]
           /\ tries = [tries EXCEPT ![r] = tries[r]] /\ held = [held EXCEPT ![r] = held[r]]
           /\ cleaned = [cleaned EXCEPT ![r] = cleaned[r]]
  BY DEF Typed

LEMMA TurnTyped ==
    ASSUME Typed, NEW r \in Requests, NEW phase, NEW who, NEW no, NEW lease, NEW done,
           Turns(r, phase, who, no, lease, done),
           faults' \in 0 .. MaxFaults, lapsed' \subseteq Requests,
           lock' \in [Slots -> Requests \union {Nobody, Orphan}]
    PROVE  Typed'
  <1>1. Slots' = Slots
    BY DEF Slots, MaxSlot
  <1>2. limiter' \in Limiters
    BY DEF Typed, Turns
  <1>3. /\ DOMAIN pc' = Requests /\ pc' = [q \in Requests |-> pc'[q]]
        /\ DOMAIN client' = Requests /\ client' = [q \in Requests |-> client'[q]]
    BY DEF Typed, Turns
  <1>4. /\ DOMAIN tries' = Requests /\ tries' = [q \in Requests |-> tries'[q]]
        /\ DOMAIN held' = Requests /\ held' = [q \in Requests |-> held'[q]]
        /\ DOMAIN cleaned' = Requests /\ cleaned' = [q \in Requests |-> cleaned'[q]]
    BY DEF Typed, Turns
  <1> QED
    BY <1>1, <1>2, <1>3, <1>4 DEF Typed

LEMMA TurnValues ==
    ASSUME Typed, NEW r \in Requests, NEW phase, NEW who, NEW no, NEW lease, NEW done,
           Turns(r, phase, who, no, lease, done)
    PROVE  /\ pc'[r] = phase /\ client'[r] = who /\ tries'[r] = no /\ held'[r] = lease
           /\ cleaned'[r] = done
           /\ \A q \in Requests \ {r} :
                /\ pc'[q] = pc[q] /\ client'[q] = client[q] /\ tries'[q] = tries[q]
                /\ held'[q] = held[q] /\ cleaned'[q] = cleaned[q]
  BY DEF Typed, Turns

LEMMA TurnPlaced ==
    ASSUME Typed, PlacesKnown,
           NEW r \in Requests, NEW phase, NEW who, NEW no, NEW lease, NEW done,
           Turns(r, phase, who, no, lease, done), Placed(phase, who, no, done)
    PROVE  PlacesKnown'
  <1>1. ASSUME NEW q \in Requests PROVE Placed(pc'[q], client'[q], tries'[q], cleaned'[q])
    <2>1. CASE q = r
      BY <2>1, TurnValues
    <2>2. CASE q # r
      BY <2>2, TurnValues DEF PlacesKnown
    <2> QED
      BY <2>1, <2>2
  <1> QED
    BY <1>1 DEF PlacesKnown, Placed, MaxSlot

LEMMA TurnLeased ==
    ASSUME Typed, LeasesKnown,
           NEW r \in Requests, NEW phase, NEW who, NEW no, NEW lease, NEW done,
           Turns(r, phase, who, no, lease, done),
           InRedis => Leased(phase, who, lease, done), InMemory => lease = <<>>
    PROVE  LeasesKnown'
  <1>1. /\ InRedis' <=> InRedis
        /\ InMemory' <=> InMemory
    BY DEF InRedis, InMemory, Turns
  <1>2. ASSUME InRedis, NEW q \in Requests PROVE Leased(pc'[q], client'[q], held'[q], cleaned'[q])
    <2>1. CASE q = r
      BY <1>2, <2>1, TurnValues
    <2>2. CASE q # r
      BY <1>2, <2>2, TurnValues DEF LeasesKnown
    <2> QED
      BY <2>1, <2>2
  <1>3. ASSUME InMemory PROVE held' = [q \in Requests |-> <<>>]
    <2>1. held = [q \in Requests |-> <<>>] /\ held' = [held EXCEPT ![r] = <<>>]
      BY <1>3 DEF LeasesKnown, Turns
    <2> QED
      BY <2>1
  <1> QED
    BY <1>1, <1>2, <1>3 DEF LeasesKnown, Leased, MaxSlot

LEMMA TurnHolders ==
    ASSUME Typed, NEW r \in Requests, NEW phase, NEW who, NEW no, NEW lease, NEW done \in BOOLEAN,
           Turns(r, phase, who, no, lease, done)
    PROVE  /\ done => Holders' = Holders \ {r} /\ \A c : HoldersFor(c)' = HoldersFor(c) \ {r}
           /\ ~done => /\ Holders' = Holders \union {r}
                       /\ HoldersFor(who)' = HoldersFor(who) \union {r}
                       /\ \A c : c # who => HoldersFor(c)' = HoldersFor(c) \ {r}
  <1>1. ASSUME NEW q \in Requests
        PROVE /\ q \in Holders' <=> IF q = r THEN ~done ELSE q \in Holders
              /\ \A c : q \in HoldersFor(c)' <=> IF q = r THEN ~done /\ who = c
                                                          ELSE q \in HoldersFor(c)
    <2>1. CASE q = r
      BY <2>1, TurnValues DEF Holders, HoldersFor
    <2>2. CASE q # r
      BY <2>2, TurnValues DEF Holders, HoldersFor
    <2> QED
      BY <2>1, <2>2
  <1>2. Holders \subseteq Requests /\ Holders' \subseteq Requests
    BY DEF Holders
  <1>3. \A c : HoldersFor(c) \subseteq Requests /\ HoldersFor(c)' \subseteq Requests
    BY DEF HoldersFor
  <1> QED
    BY <1>1, <1>2, <1>3

LEMMA HoldersFinite ==
    /\ IsFiniteSet(Holders) /\ Cardinality(Holders) \in Nat
    /\ Cardinality(Holders) <= Cardinality(Requests)
    /\ \A c : IsFiniteSet(HoldersFor(c)) /\ Cardinality(HoldersFor(c)) \in Nat
  <1>1. Holders \in SUBSET Requests /\ IsFiniteSet(Requests)
    BY NamesAssumption DEF Holders
  <1>2. \A c : HoldersFor(c) \in SUBSET Requests
    BY DEF HoldersFor
  <1> QED
    BY <1>1, <1>2, FS_Subset, FS_CardinalityType

-----------------------------------------------------------------------------
(* Counters and locks *)

LEMMA LimitsStay ==
    ASSUME limiter' = limiter
    PROVE  /\ ClientLimit' = ClientLimit /\ GlobalLimit' = GlobalLimit
           /\ InMemory' <=> InMemory
           /\ InRedis' <=> InRedis
           /\ Slots' = Slots
  BY DEF ClientLimit, GlobalLimit, InMemory, InRedis, Slots, MaxSlot

\* Whoever held a permit still does, for the same caller.
LEMMA CountsKept ==
    ASSUME Typed, CountersAgree, GaugeBounded,
           NEW r \in Requests, NEW phase, NEW who, NEW no, NEW lease, NEW done \in BOOLEAN,
           Turns(r, phase, who, no, lease, done), done = cleaned[r], done \/ who = client[r],
           UNCHANGED <<byClient, total, gauge>>, faults' \in Nat, faults <= faults'
    PROVE  CountersAgree' /\ GaugeBounded'
  <1>1. Holders' = Holders /\ \A c : HoldersFor(c)' = HoldersFor(c)
    <2>1. CASE done
      <3>1. r \notin Holders /\ \A c : r \notin HoldersFor(c)
        BY <2>1 DEF Holders, HoldersFor
      <3>2. Holders' = Holders \ {r} /\ \A c : HoldersFor(c)' = HoldersFor(c) \ {r}
        BY <2>1, TurnHolders
      <3> QED
        BY <3>1, <3>2
    <2>2. CASE ~done
      <3>1. /\ r \in Holders /\ r \in HoldersFor(who)
            /\ \A c : c # who => r \notin HoldersFor(c)
        BY <2>2 DEF Holders, HoldersFor
      <3>2. /\ Holders' = Holders \union {r} /\ HoldersFor(who)' = HoldersFor(who) \union {r}
            /\ \A c : c # who => HoldersFor(c)' = HoldersFor(c) \ {r}
        BY <2>2, TurnHolders
      <3>3. \A c : HoldersFor(c)' = HoldersFor(c)
        <4>1. \A c : c # who => HoldersFor(c)' = HoldersFor(c)
          BY <3>1, <3>2
        <4>2. HoldersFor(who)' = HoldersFor(who)
          BY <3>1, <3>2
        <4> QED
          BY <4>1, <4>2
      <3> QED
        BY <3>1, <3>2, <3>3
    <2> QED
      BY <2>1, <2>2
  <1>2. limiter' = limiter
    BY DEF Turns
  <1>3. CountersAgree'
    BY <1>1, <1>2, LimitsStay DEF CountersAgree
  <1>4. faults \in Nat
    BY LimitsAssumption DEF Typed
  <1>5. GaugeBounded'
    BY <1>1, <1>4, HoldersFinite DEF GaugeBounded
  <1> QED
    BY <1>3, <1>5

\* A permit more, for the caller of r.
LEMMA CountsAdmitted ==
    ASSUME Typed, CountersAgree, GaugeBounded,
           NEW r \in Requests, NEW phase, NEW who, NEW no, NEW lease, NEW done \in BOOLEAN,
           Turns(r, phase, who, no, lease, done), cleaned[r], ~done, who \in Clients,
           gauge' = gauge + 1, faults' = faults,
           InRedis => UNCHANGED <<byClient, total>>,
           InMemory => /\ total < GlobalLimit /\ byClient[who] < ClientLimit
                       /\ total' = total + 1
                       /\ byClient' = [byClient EXCEPT ![who] = byClient[who] + 1]
    PROVE  CountersAgree' /\ GaugeBounded'
  <1>1. r \notin Holders /\ \A c : r \notin HoldersFor(c)
    BY DEF Holders, HoldersFor
  <1>2. /\ Holders' = Holders \union {r} /\ HoldersFor(who)' = HoldersFor(who) \union {r}
        /\ \A c : c # who => HoldersFor(c)' = HoldersFor(c)
    BY <1>1, TurnHolders
  <1>3. /\ Cardinality(Holders)' = Cardinality(Holders) + 1
        /\ Cardinality(HoldersFor(who))' = Cardinality(HoldersFor(who)) + 1
    BY <1>1, <1>2, HoldersFinite, FS_AddElement
  <1>4. limiter' = limiter /\ limiter \in Limiters
    BY DEF Turns, Typed
  <1>5. GlobalLimit \in Nat /\ ClientLimit \in Nat /\ (InMemory <=> ~InRedis)
    BY <1>4, LimitsAreSlots
  <1>6. CountersAgree'
    <2>1. CASE InRedis
      BY <1>4, <1>5, <2>1, LimitsStay DEF CountersAgree
    <2>2. CASE InMemory
      <3>1. total' \in 0 .. GlobalLimit /\ total' = Cardinality(Holders')
        BY <1>3, <1>5, <2>2, HoldersFinite DEF CountersAgree
      <3>2. byClient' \in [Clients -> 0 .. ClientLimit]
        BY <1>5, <2>2 DEF CountersAgree
      <3>3. ASSUME NEW c \in Clients PROVE byClient'[c] = Cardinality(HoldersFor(c)')
        <4>1. CASE c = who
          BY <1>3, <2>2, <4>1 DEF CountersAgree
        <4>2. CASE c # who
          BY <1>2, <2>2, <4>2 DEF CountersAgree
        <4> QED
          BY <4>1, <4>2
      <3> QED
        BY <1>4, <3>1, <3>2, <3>3, LimitsStay DEF CountersAgree
    <2> QED
      BY <1>5, <2>1, <2>2
  <1>7. GaugeBounded'
    <2>1. gauge \in Nat /\ faults \in Nat /\ Cardinality(Holders) \in Nat
          /\ Cardinality(Holders) <= gauge /\ gauge <= Cardinality(Holders) + faults
      BY LimitsAssumption, HoldersFinite DEF GaugeBounded, Typed
    <2>2. Cardinality(Holders') = Cardinality(Holders) + 1
      BY <1>3
    <2> QED
      BY <2>1, <2>2 DEF GaugeBounded
  <1> QED
    BY <1>6, <1>7

\* A permit is given back: the gauge is decremented unless Redis failed.
LEMMA CountsReleased ==
    ASSUME Typed, CountersAgree, GaugeBounded,
           NEW r \in Requests, NEW phase, NEW who, NEW no, NEW lease, NEW done \in BOOLEAN,
           Turns(r, phase, who, no, lease, done), ~cleaned[r], done, client[r] \in Clients,
           \/ gauge' = gauge - 1 /\ faults' = faults
           \/ gauge' = gauge /\ faults' = faults + 1,
           InRedis => UNCHANGED <<byClient, total>>,
           InMemory => /\ total' = IF total > 0 THEN total - 1 ELSE 0
                       /\ byClient' = Decrement(byClient, client[r])
    PROVE  CountersAgree' /\ GaugeBounded'
  <1>3. PICK caller \in Clients : caller = client[r]
    OBVIOUS
  <1>1. r \in Holders /\ r \in HoldersFor(caller) /\ \A c : c # caller => r \notin HoldersFor(c)
    BY <1>3 DEF Holders, HoldersFor
  <1>2. /\ Holders' = Holders \ {r} /\ HoldersFor(caller)' = HoldersFor(caller) \ {r}
        /\ \A c : c # caller => HoldersFor(c)' = HoldersFor(c)
    <2>1. Holders' = Holders \ {r} /\ \A c : HoldersFor(c)' = HoldersFor(c) \ {r}
      BY TurnHolders
    <2>2. ASSUME NEW c, c # caller PROVE HoldersFor(c)' = HoldersFor(c)
      <3>1. r \notin HoldersFor(c) /\ HoldersFor(c)' = HoldersFor(c) \ {r}
        BY <1>1, <2>1, <2>2
      <3> QED
        BY <3>1
    <2> QED
      BY <2>1, <2>2
  <1>4. /\ Cardinality(Holders') = Cardinality(Holders) - 1 /\ Cardinality(Holders') \in Nat
        /\ Cardinality(HoldersFor(caller)') = Cardinality(HoldersFor(caller)) - 1
        /\ Cardinality(HoldersFor(caller)') \in Nat
    <2>1. Cardinality(Holders \ {r}) = Cardinality(Holders) - 1 /\ Cardinality(Holders \ {r}) \in Nat
      BY <1>1, HoldersFinite, FS_RemoveElement, FS_CardinalityType
    <2>2. /\ Cardinality(HoldersFor(caller) \ {r}) = Cardinality(HoldersFor(caller)) - 1
          /\ Cardinality(HoldersFor(caller) \ {r}) \in Nat
      BY <1>1, <1>3, HoldersFinite, FS_RemoveElement, FS_CardinalityType
    <2>3. HoldersFor(caller)' = HoldersFor(caller) \ {r}
      BY <1>2, <1>3
    <2> QED
      BY <1>2, <2>1, <2>2, <2>3
  <1>5. limiter' = limiter /\ limiter \in Limiters
    BY DEF Turns, Typed
  <1>6. GlobalLimit \in Nat /\ ClientLimit \in Nat /\ (InMemory <=> ~InRedis)
    BY <1>5, LimitsAreSlots
  <1>7. CountersAgree'
    <2>1. CASE InRedis
      BY <1>5, <1>6, <2>1, LimitsStay DEF CountersAgree
    <2>2. CASE InMemory
      <3>0. /\ total \in 0 .. GlobalLimit /\ byClient \in [Clients -> 0 .. ClientLimit]
            /\ total = Cardinality(Holders)
            /\ \A c \in Clients : byClient[c] = Cardinality(HoldersFor(c))
        BY <2>2 DEF CountersAgree
      <3>1. total' \in 0 .. GlobalLimit /\ total' = Cardinality(Holders')
        BY <1>4, <1>6, <2>2, <3>0
      <3>2. /\ byClient' = [byClient EXCEPT ![caller] = byClient[caller] - 1]
            /\ byClient[caller] \in 1 .. ClientLimit
        <4>1. byClient[caller] \in 0 .. ClientLimit /\ byClient[caller] # 0
          BY <1>4, <3>0, HoldersFinite
        <4>2. byClient' = [byClient EXCEPT ![caller] = IF @ <= 1 THEN 0 ELSE @ - 1]
          BY <1>3, <2>2 DEF Decrement
        <4>3. PICK n \in 0 .. ClientLimit : n = byClient[caller] /\ n # 0
          BY <4>1
        <4>4. (IF n <= 1 THEN 0 ELSE n - 1) = n - 1
          BY <1>6, <4>3
        <4>5. byClient' = [byClient EXCEPT ![caller] = IF n <= 1 THEN 0 ELSE n - 1]
          BY <4>2, <4>3, Zenon
        <4>6. byClient' = [byClient EXCEPT ![caller] = byClient[caller] - 1]
          BY <4>3, <4>4, <4>5, Zenon
        <4> QED
          BY <1>6, <4>3, <4>6
      <3>3. byClient' \in [Clients -> 0 .. ClientLimit]
        BY <1>6, <3>0, <3>2
      <3>4. ASSUME NEW c \in Clients PROVE byClient'[c] = Cardinality(HoldersFor(c)')
        <4>1. CASE c = caller
          <5>1. byClient'[caller] = byClient[caller] - 1
            BY <3>0, <3>2
          <5> QED
            BY <1>4, <3>0, <4>1, <5>1
        <4>2. CASE c # caller
          <5>1. byClient'[c] = byClient[c] /\ HoldersFor(c)' = HoldersFor(c)
            BY <1>2, <1>3, <3>0, <3>2, <4>2
          <5> QED
            BY <3>0, <5>1
        <4> QED
          BY <4>1, <4>2
      <3> QED
        BY <1>5, <3>1, <3>3, <3>4, LimitsStay DEF CountersAgree
    <2> QED
      BY <1>6, <2>1, <2>2
  <1>8. GaugeBounded'
    <2>1. gauge \in Nat /\ faults \in Nat /\ Cardinality(Holders) \in Nat
          /\ Cardinality(Holders) <= gauge /\ gauge <= Cardinality(Holders) + faults
      BY LimitsAssumption, HoldersFinite DEF GaugeBounded, Typed
    <2> QED
      BY <1>4, <2>1 DEF GaugeBounded
  <1> QED
    BY <1>7, <1>8

LEMMA LocksKept ==
    ASSUME LocksAgree, UNCHANGED <<limiter, lock, held, lapsed>>
    PROVE  LocksAgree'
  BY LimitsStay DEF LocksAgree

\* r takes a free slot.
LEMMA LocksTaken ==
    ASSUME Typed, LocksAgree, NEW r \in Requests, NEW s \in Slots, lock[s] = Nobody,
           lock' = [lock EXCEPT ![s] = r], UNCHANGED <<limiter, lapsed>>,
           SlotsOf(held'[r]) = SlotsOf(held[r]) \union {s},
           \A q \in Requests \ {r} : held'[q] = held[q]
    PROVE  LocksAgree'
  <1>1. SUFFICES ASSUME InRedis PROVE LocksAgree'
    BY LimitsStay DEF LocksAgree
  <1>2. lock'[s] = r /\ \A t \in Slots \ {s} : lock'[t] = lock[t]
    BY DEF Typed
  <1>3. ASSUME NEW t \in Slots, lock'[t] \in Requests PROVE t \in SlotsOf(held'[lock'[t]])
    <2>1. CASE t = s
      BY <1>2, <2>1
    <2>2. CASE t # s
      <3>1. lock'[t] = lock[t] /\ t \in SlotsOf(held[lock[t]])
        BY <1>1, <1>2, <1>3, <2>2 DEF LocksAgree
      <3> QED
        BY <1>3, <3>1
    <2> QED
      BY <2>1, <2>2
  <1>4. ASSUME NEW q \in Requests \ lapsed, NEW t \in SlotsOf(held'[q]) PROVE lock'[t] = q
    <2>1. CASE t \in SlotsOf(held[q])
      <3>1. lock[t] = q
        BY <1>1, <2>1 DEF LocksAgree
      <3>2. t # s
        BY <3>1, NamesAssumption
      <3>3. lock'[t] = lock[t]
        BY <3>2
      <3> QED
        BY <3>1, <3>3
    <2>2. CASE t \notin SlotsOf(held[q])
      BY <1>2, <2>2
    <2> QED
      BY <2>1, <2>2
  <1> QED
    BY <1>3, <1>4, LimitsStay DEF LocksAgree

\* r lets all its locks go, to the next one or to the end of their lease.
LEMMA LocksGiven ==
    ASSUME Typed, LocksAgree, NEW r \in Requests,
           \A s \in Slots : /\ lock[s] = r => lock'[s] \in {Nobody, Orphan}
                            /\ lock[s] # r => lock'[s] = lock[s],
           lapsed' = lapsed \ {r}, limiter' = limiter,
           InRedis => \A q \in Requests : SlotsOf(held[q]) \subseteq Slots,
           held'[r] = <<>>, \A q \in Requests \ {r} : held'[q] = held[q]
    PROVE  LocksAgree'
  <1>1. SUFFICES ASSUME InRedis PROVE LocksAgree'
    BY LimitsStay DEF LocksAgree
  <1>2. SlotsOf(held'[r]) = {}
    BY SlotsOfLease
  <1>3. ASSUME NEW s \in Slots, lock'[s] \in Requests PROVE s \in SlotsOf(held'[lock'[s]])
    <2>1. lock[s] # r /\ lock'[s] = lock[s]
      BY <1>3, NamesAssumption
    <2>2. s \in SlotsOf(held[lock[s]])
      BY <1>1, <1>3, <2>1 DEF LocksAgree
    <2> QED
      BY <1>3, <2>1, <2>2
  <1>4. ASSUME NEW q \in Requests \ lapsed', NEW s \in SlotsOf(held'[q]) PROVE lock'[s] = q
    <2>1. q # r
      BY <1>2
    <2>2. s \in SlotsOf(held[q]) /\ q \in Requests \ lapsed
      BY <2>1
    <2>3. lock[s] = q
      BY <1>1, <2>2 DEF LocksAgree
    <2> QED
      BY <1>1, <2>1, <2>2, <2>3
  <1> QED
    BY <1>3, <1>4, LimitsStay DEF LocksAgree

LEMMA LeasesNameSlots ==
    ASSUME limiter \in Limiters, PlacesKnown, LeasesKnown, NEW r \in Requests
    PROVE  held[r] \in Seq(Slots) /\ SlotsOf(held[r]) \subseteq Slots
  <1>1. \A n \in 1 .. MaxSlot : <<Deployment, n>> \in Slots
    BY DEF Slots
  <1>2. \A n \in 1 .. MaxSlot : client[r] \in Clients => <<client[r], n>> \in Slots
    BY DEF Slots
  <1>3. CASE held[r] = <<>>
    BY <1>3, SlotsOfLease
  <1>4. CASE held[r] # <<>>
    <2>1. InRedis
      BY <1>4, LimitsAreSlots DEF LeasesKnown
    <2>2. Leased(pc[r], client[r], held[r], cleaned[r])
          /\ Placed(pc[r], client[r], tries[r], cleaned[r])
      BY <2>1 DEF LeasesKnown, PlacesKnown
    <2>3. client[r] \in Clients
      BY <1>4, <2>2 DEF Leased, Placed
    <2>4. \/ \E n \in 1 .. MaxSlot : held[r] = <<<<client[r], n>>>>
          \/ \E n, m \in 1 .. MaxSlot : held[r] = <<<<client[r], n>>, <<Deployment, m>>>>
      BY <1>4, <2>2 DEF Leased
    <2>5. \A a \in Slots : <<a>> \in Seq(Slots) /\ \A b \in Slots : <<a, b>> \in Seq(Slots)
      OBVIOUS
    <2>6. CASE \E n \in 1 .. MaxSlot : held[r] = <<<<client[r], n>>>>
      <3>1. PICK a \in Slots : held[r] = <<a>>
        BY <1>2, <2>3, <2>6
      <3> QED
        BY <2>5, <3>1, SlotsOfLease
    <2>7. CASE \E n, m \in 1 .. MaxSlot : held[r] = <<<<client[r], n>>, <<Deployment, m>>>>
      <3>1. PICK a \in Slots, b \in Slots : held[r] = <<a, b>>
        BY <1>1, <1>2, <2>3, <2>7
      <3> QED
        BY <2>5, <3>1, SlotsOfLease
    <2> QED
      BY <2>4, <2>6, <2>7
  <1> QED
    BY <1>3, <1>4

-----------------------------------------------------------------------------
(* The forms of a step *)

Moves(r, phase, who, no) ==
    /\ pc' = [pc EXCEPT ![r] = phase]
    /\ client' = [client EXCEPT ![r] = who]
    /\ tries' = [tries EXCEPT ![r] = no]
    /\ limiter' = limiter

LEMMA MoveStays ==
    ASSUME SlotsInv, NEW r \in Requests, NEW phase, UNCHANGED <<limiter, client, tries>>,
           pc' = [pc EXCEPT ![r] = phase]
    PROVE  Moves(r, phase, client[r], tries[r])
  BY Same DEF Moves, SlotsInv

LEMMA MoveReturns ==
    ASSUME NEW r, NEW code, Return(r, code), limiter' = limiter
    PROVE  Moves(r, "idle", Nobody, 1)
  BY DEF Moves, Return

\* A handler is placed where it can be, and moves with its permit and its locks.
LEMMA GoesOn ==
    ASSUME SlotsInv, NEW r \in Requests, NEW phase, NEW who, NEW no, Moves(r, phase, who, no),
           Placed(phase, who, no, cleaned[r]),
           InRedis => Leased(phase, who, held[r], cleaned[r]),
           cleaned[r] \/ who = client[r],
           UNCHANGED <<byClient, total, lock, gauge, held, lapsed, cleaned>>,
           faults' \in Nat, faults <= faults', faults' <= MaxFaults
    PROVE  SlotsInv'
  <1>1. Typed /\ PlacesKnown /\ LeasesKnown /\ LocksAgree /\ CountersAgree /\ GaugeBounded
    BY DEF SlotsInv
  <1>2. PICK lease : lease = held[r]
    OBVIOUS
  <1>3. PICK done \in BOOLEAN : done = cleaned[r]
    BY DEF Placed
  <1>4. Turns(r, phase, who, no, lease, done)
    BY <1>1, <1>2, <1>3, Same DEF Moves, Turns
  <1>5. Typed'
    <2>1. faults' \in 0 .. MaxFaults
      BY LimitsAssumption
    <2>2. lapsed' \subseteq Requests /\ lock' \in [Slots -> Requests \union {Nobody, Orphan}]
      BY <1>1 DEF Typed
    <2> QED
      BY <1>1, <1>4, <2>1, <2>2, TurnTyped
  <1>6. PlacesKnown'
    <2>1. Placed(phase, who, no, done)
      BY <1>3
    <2> QED
      BY <1>1, <1>4, <2>1, TurnPlaced
  <1>7. LeasesKnown'
    <2>1. InMemory => lease = <<>>
      BY <1>1, <1>2 DEF LeasesKnown
    <2>2. InRedis => Leased(phase, who, lease, done)
      BY <1>2, <1>3
    <2> QED
      BY <1>1, <1>4, <2>1, <2>2, TurnLeased
  <1>8. LocksAgree'
    BY <1>1, LocksKept DEF Moves
  <1>9. CountersAgree' /\ GaugeBounded'
    BY <1>1, <1>3, <1>4, CountsKept
  <1> QED
    BY <1>5, <1>6, <1>7, <1>8, <1>9 DEF SlotsInv

LEMMA Nobodys ==
    ASSUME limiter \in Limiters
    PROVE  Placed("idle", Nobody, 1, TRUE)
  BY LimitsAreSlots DEF Placed, Phases

\* The handler ends, without a permit.
LEMMA Refused ==
    ASSUME SlotsInv, NEW r \in Requests, NEW code, Return(r, code), limiter' = limiter,
           pc[r] \in {"rate", "acquire", "collect", "background"}, cleaned[r],
           UNCHANGED <<byClient, total, lock, gauge, held, lapsed, cleaned>>,
           faults' = faults \/ Fault
    PROVE  SlotsInv'
  <1>1. Typed /\ PlacesKnown /\ LeasesKnown
    BY DEF SlotsInv
  <1>2. cleaned[r] = TRUE
    BY <1>1 DEF PlacesKnown, Placed
  <1>3. Placed("idle", Nobody, 1, cleaned[r])
    BY <1>1, <1>2, Nobodys DEF Typed
  <1>4. InRedis => Leased("idle", Nobody, held[r], cleaned[r])
    BY <1>1, <1>2 DEF LeasesKnown, Leased
  <1>5. faults' \in Nat /\ faults <= faults' /\ faults' <= MaxFaults
    <2>1. faults \in Nat /\ faults <= MaxFaults /\ MaxFaults \in Nat
      BY <1>1, LimitsAssumption DEF Typed
    <2>2. CASE faults' = faults
      BY <2>1, <2>2
    <2>3. CASE Fault
      BY <2>1, <2>3 DEF Fault
    <2> QED
      BY <2>2, <2>3
  <1>6. Moves(r, "idle", Nobody, 1)
    BY MoveReturns
  <1> QED
    BY <1>3, <1>4, <1>5, <1>6, GoesOn

\* The handler goes on, with or without a permit, which it keeps.
LEMMA Advances ==
    ASSUME SlotsInv, NEW r \in Requests, NEW phase, pc' = [pc EXCEPT ![r] = phase],
           Placed(phase, client[r], tries[r], cleaned[r]), pc[r] # "global", phase # "global",
           UNCHANGED <<limiter, slotVars, client, tries>>
    PROVE  SlotsInv'
  <1>1. Typed /\ PlacesKnown /\ LeasesKnown
    BY DEF SlotsInv
  <1>2. PICK who : who = client[r]
    OBVIOUS
  <1>3. PICK no : no = tries[r]
    OBVIOUS
  <1>4. Moves(r, phase, who, no)
    BY <1>2, <1>3, MoveStays
  <1>5. InRedis => Leased(phase, who, held[r], cleaned[r])
    <2>1. InRedis => Leased(pc[r], who, held[r], cleaned[r])
      BY <1>1, <1>2 DEF LeasesKnown
    <2> QED
      BY <2>1 DEF Leased
  <1>6. Placed(phase, who, no, cleaned[r])
    BY <1>2, <1>3
  <1>7. /\ UNCHANGED <<byClient, total, lock, gauge, held, lapsed, cleaned>>
        /\ faults' \in Nat /\ faults <= faults' /\ faults' <= MaxFaults
    BY <1>1, LimitsAssumption DEF slotVars, Typed
  <1> QED
    BY <1>2, <1>4, <1>5, <1>6, <1>7, GoesOn

-----------------------------------------------------------------------------
(* Giving locks and permits back *)

Locks == [Slots -> Requests \union {Nobody, Orphan}]

\* r lets the locks it has among S go, and no other changes.
LetsGo(before, after, S, r) ==
    /\ after \in Locks
    /\ \A s \in Slots : /\ s \in S /\ before[s] = r => after[s] \in {Nobody, Orphan}
                        /\ s \notin S \/ before[s] # r => after[s] = before[s]

LEMMA UnlockLetsGo ==
    ASSUME NEW before \in Locks, NEW s \in Slots, NEW r
    PROVE  LetsGo(before, Unlock(before, s, r), {s}, r)
  BY DEF Locks, LetsGo, Unlock

LEMMA AbandonLetsGo ==
    ASSUME NEW before \in Locks, NEW S, NEW r
    PROVE  LetsGo(before, Abandon(before, S, r), S, r)
  BY DEF Locks, LetsGo, Abandon

LEMMA LetsBothGo ==
    ASSUME NEW before \in Locks, NEW between, NEW after, NEW S, NEW T, NEW r \in Requests,
           LetsGo(before, between, S, r), LetsGo(between, after, T, r)
    PROVE  LetsGo(before, after, S \union T, r)
  BY NamesAssumption DEF Locks, LetsGo

\* r gives back all it has: its locks, and what its lease says of them.
LEMMA LocksGivenBack ==
    ASSUME SlotsInv, NEW r \in Requests, InRedis, LetsGo(lock, lock', SlotsOf(held[r]), r),
           held' = [held EXCEPT ![r] = <<>>], lapsed' = lapsed \ {r}, limiter' = limiter
    PROVE  LocksAgree'
  <1>1. Typed /\ LocksAgree /\ limiter \in Limiters /\ PlacesKnown /\ LeasesKnown
    BY DEF SlotsInv, Typed
  <1>2. ASSUME NEW s \in Slots
        PROVE /\ lock[s] = r => lock'[s] \in {Nobody, Orphan}
              /\ lock[s] # r => lock'[s] = lock[s]
    <2>1. lock[s] = r => s \in SlotsOf(held[r])
      BY <1>1 DEF LocksAgree
    <2> QED
      BY <2>1 DEF LetsGo
  <1>3. held'[r] = <<>> /\ \A q \in Requests \ {r} : held'[q] = held[q]
    BY <1>1 DEF Typed
  <1>4. \A q \in Requests : SlotsOf(held[q]) \subseteq Slots
    BY <1>1, LeasesNameSlots
  <1> QED
    BY <1>1, <1>2, <1>3, <1>4, LocksGiven

\* Whoever has a permit of Redis has two slots.
LEMMA TwoSlots ==
    ASSUME SlotsInv, NEW r \in Requests, InRedis, ~cleaned[r]
    PROVE  \E a \in Slots, b \in Slots :
              /\ held[r] = <<a, b>> /\ SlotsOf(held[r]) = {a, b}
              /\ held[r][1] = a /\ held[r][2] = b
              /\ a[1] = client[r] /\ b[1] = Deployment
  <1>1. Leased(pc[r], client[r], held[r], cleaned[r]) /\ Placed(pc[r], client[r], tries[r], cleaned[r])
    BY DEF SlotsInv, LeasesKnown, PlacesKnown
  <1>2. PICK n \in 1 .. MaxSlot, m \in 1 .. MaxSlot : held[r] = <<<<client[r], n>>, <<Deployment, m>>>>
    BY <1>1 DEF Leased
  <1>3. client[r] \in Clients
    BY <1>1 DEF Placed
  <1>4. PICK a, b : a = <<client[r], n>> /\ b = <<Deployment, m>>
    OBVIOUS
  <1>5. a \in Slots /\ b \in Slots /\ a[1] = client[r] /\ b[1] = Deployment
    BY <1>3, <1>4 DEF Slots
  <1>6. held[r] = <<a, b>> /\ held[r][1] = a /\ held[r][2] = b
    BY <1>2, <1>4
  <1>7. SlotsOf(held[r]) = {a, b}
    BY <1>6, SlotsOfLease
  <1> QED
    BY <1>5, <1>6, <1>7

LEMMA RedisLetsGo ==
    ASSUME SlotsInv, NEW r \in Requests, ~cleaned[r], ReleaseRedis(r) \/ ReleaseFails(r)
    PROVE  LetsGo(lock, lock', SlotsOf(held[r]), r)
  <1>1. InRedis
    BY DEF ReleaseRedis, ReleaseFails
  <1>2. PICK a \in Slots, b \in Slots :
           SlotsOf(held[r]) = {a, b} /\ held[r][1] = a /\ held[r][2] = b
    BY <1>1, TwoSlots
  <1>3. PICK before \in Locks : before = lock
    BY DEF SlotsInv, Typed, Locks
  <1>4. PICK between : between = Unlock(before, b, r)
    OBVIOUS
  <1>5. LetsGo(before, between, {b}, r) /\ between \in Locks
    BY <1>3, <1>4, UnlockLetsGo DEF LetsGo
  <1>6. CASE lock' = Unlock(between, a, r)
    <2>1. LetsGo(between, lock', {a}, r)
      BY <1>5, <1>6, UnlockLetsGo
    <2>2. LetsGo(before, lock', {b} \union {a}, r)
      BY <1>3, <1>5, <2>1, LetsBothGo
    <2>3. {b} \union {a} = {a, b}
      OBVIOUS
    <2> QED
      BY <1>2, <1>3, <2>2, <2>3
  <1>7. CASE lock' = Abandon(between, {a}, r)
    <2>1. LetsGo(between, lock', {a}, r)
      BY <1>5, <1>7, AbandonLetsGo
    <2>2. LetsGo(before, lock', {b} \union {a}, r)
      BY <1>3, <1>5, <2>1, LetsBothGo
    <2>3. {b} \union {a} = {a, b}
      OBVIOUS
    <2> QED
      BY <1>2, <1>3, <2>2, <2>3
  <1>8. CASE lock' = Abandon(before, {a, b}, r)
    BY <1>2, <1>3, <1>8, AbandonLetsGo
  <1> QED
    BY <1>2, <1>3, <1>4, <1>6, <1>7, <1>8 DEF ReleaseRedis, ReleaseFails

\* The cleanup, and a move of the handler with it.
LEMMA CleanupStep ==
    ASSUME SlotsInv, NEW r \in Requests, NEW phase, NEW who, NEW no, Moves(r, phase, who, no),
           Cleanup(r), Placed(phase, who, no, TRUE), pc[r] # "global", phase # "global"
    PROVE  SlotsInv'
  <1>1. Typed /\ PlacesKnown /\ LeasesKnown /\ LocksAgree /\ CountersAgree /\ GaugeBounded
    BY DEF SlotsInv
  <1>2. Placed(pc[r], client[r], tries[r], cleaned[r])
    BY <1>1 DEF PlacesKnown
  <1>3. faults \in Nat /\ faults <= MaxFaults
    BY <1>1, LimitsAssumption DEF Typed
  <1>4. limiter \in Limiters /\ limiter' = limiter /\ (InMemory <=> ~InRedis)
    BY <1>1, LimitsAreSlots DEF Typed, Moves
  <1>5. CASE cleaned[r]
    <2>1. cleaned[r] = TRUE
      BY <1>2, <1>5 DEF Placed
    <2>2. UNCHANGED <<byClient, total, lock, gauge, faults, held, lapsed, cleaned>>
      BY <1>5 DEF Cleanup, slotVars
    <2>3. InRedis => Leased(phase, who, held[r], cleaned[r])
      <3>1. InRedis => Leased(pc[r], client[r], held[r], cleaned[r])
        BY <1>1 DEF LeasesKnown
      <3> QED
        BY <2>1, <3>1 DEF Leased
    <2>4. Placed(phase, who, no, cleaned[r])
      BY <2>1
    <2>5. faults' \in Nat /\ faults <= faults' /\ faults' <= MaxFaults
      BY <1>3, <2>2
    <2>6. UNCHANGED <<byClient, total, lock, gauge, held, lapsed, cleaned>>
      BY <2>2
    <2> QED
      BY <1>5, <2>3, <2>4, <2>5, <2>6, GoesOn
  <1>6. CASE ~cleaned[r]
    <2>1. /\ cleaned' = [cleaned EXCEPT ![r] = TRUE]
          /\ ReleaseMemory(r) \/ ReleaseRedis(r) \/ ReleaseFails(r)
      BY <1>6 DEF Cleanup
    <2>2. client[r] \in Clients
      BY <1>2, <1>6 DEF Placed
    <2>3. held' = [held EXCEPT ![r] = <<>>]
      <3>1. CASE ReleaseMemory(r)
        <4>1. held = [q \in Requests |-> <<>>] /\ held' = held
          BY <1>1, <3>1 DEF ReleaseMemory, LeasesKnown
        <4> QED
          BY <4>1
      <3> QED
        BY <2>1, <3>1 DEF ReleaseRedis, ReleaseFails
    <2>4. Turns(r, phase, who, no, <<>>, TRUE)
      BY <2>1, <2>3 DEF Turns, Moves
    <2>5. \/ gauge' = gauge - 1 /\ faults' = faults
          \/ gauge' = gauge /\ faults' = faults + 1 /\ faults < MaxFaults
      BY <2>1 DEF ReleaseMemory, ReleaseRedis, ReleaseFails, Fault
    <2>6. Typed'
      <3>1. faults' \in 0 .. MaxFaults
        BY <1>3, <2>5, LimitsAssumption
      <3>2. lapsed' \subseteq Requests
        BY <1>1, <2>1 DEF Typed, ReleaseMemory, ReleaseRedis, ReleaseFails
      <3>3. lock' \in Locks
        <4>1. CASE ReleaseMemory(r)
          BY <1>1, <4>1 DEF ReleaseMemory, Typed, Locks
        <4>2. CASE ReleaseRedis(r) \/ ReleaseFails(r)
          BY <1>6, <4>2, RedisLetsGo DEF LetsGo
        <4> QED
          BY <2>1, <4>1, <4>2
      <3> QED
        BY <1>1, <2>4, <3>1, <3>2, <3>3, TurnTyped DEF Locks
    <2>7. PlacesKnown'
      BY <1>1, <2>4, TurnPlaced
    <2>8. LeasesKnown'
      BY <1>1, <2>4, TurnLeased DEF Leased
    <2>9. LocksAgree'
      <3>1. CASE ReleaseMemory(r)
        BY <1>1, <1>4, <3>1, LocksKept DEF ReleaseMemory
      <3>2. CASE ReleaseRedis(r) \/ ReleaseFails(r)
        <4>1. InRedis /\ lapsed' = lapsed \ {r}
          BY <3>2 DEF ReleaseRedis, ReleaseFails
        <4> QED
          BY <1>4, <1>6, <2>3, <3>2, <4>1, RedisLetsGo, LocksGivenBack
      <3> QED
        BY <2>1, <3>1, <3>2
    <2>10. CountersAgree' /\ GaugeBounded'
      <3>1. InRedis => UNCHANGED <<byClient, total>>
        BY <1>4, <2>1 DEF ReleaseMemory, ReleaseRedis, ReleaseFails
      <3>2. InMemory => /\ total' = IF total > 0 THEN total - 1 ELSE 0
                        /\ byClient' = Decrement(byClient, client[r])
        BY <1>4, <2>1 DEF ReleaseMemory, ReleaseRedis, ReleaseFails
      <3>3. \/ gauge' = gauge - 1 /\ faults' = faults
            \/ gauge' = gauge /\ faults' = faults + 1
        BY <2>5
      <3> QED
        BY <1>1, <1>6, <2>2, <2>4, <3>1, <3>2, <3>3, CountsReleased
    <2> QED
      BY <2>6, <2>7, <2>8, <2>9, <2>10 DEF SlotsInv
  <1> QED
    BY <1>5, <1>6

-----------------------------------------------------------------------------
(* The steps of a handler *)

LEMMA ArriveKeeps ==
    ASSUME SlotsInv, NEW r \in Requests, NEW c \in Clients, NEW e, Arrive(r, c, e)
    PROVE  SlotsInv'
  <1>1. Typed /\ PlacesKnown /\ LeasesKnown
    BY DEF SlotsInv
  <1>2. pc[r] = "idle" /\ Placed(pc[r], client[r], tries[r], cleaned[r])
    BY <1>1 DEF Arrive, PlacesKnown
  <1>3. cleaned[r] = TRUE
    BY <1>2 DEF Placed
  <1>4. InRedis => held[r] = <<>>
    BY <1>1, <1>2, <1>3 DEF LeasesKnown, Leased
  <1>5. /\ UNCHANGED <<byClient, total, lock, gauge, held, lapsed, cleaned>>
        /\ faults' \in Nat /\ faults <= faults' /\ faults' <= MaxFaults
    BY <1>1, LimitsAssumption DEF Arrive, slotVars, Typed
  <1>6. PICK no : no = tries[r]
    OBVIOUS
  <1>7. PICK who : who = client[r]
    OBVIOUS
  <1>8. CASE BoundaryStatus(e) = 200
    <2>1. Moves(r, "rate", c, no)
      BY <1>1, <1>6, <1>8, Same DEF Arrive, Moves
    <2>2. Placed("rate", c, no, cleaned[r])
      BY <1>2, <1>3, <1>6 DEF Placed, Phases
    <2>3. InRedis => Leased("rate", c, held[r], cleaned[r])
      BY <1>3, <1>4 DEF Leased
    <2> QED
      BY <1>3, <1>5, <2>1, <2>2, <2>3, GoesOn
  <1>9. CASE BoundaryStatus(e) # 200
    <2>1. Moves(r, "idle", who, no)
      BY <1>1, <1>2, <1>6, <1>7, <1>9, Same DEF Arrive, Moves
    <2>2. Placed("idle", who, no, cleaned[r])
      BY <1>2, <1>6, <1>7
    <2>3. InRedis => Leased("idle", who, held[r], cleaned[r])
      BY <1>3, <1>4 DEF Leased
    <2> QED
      BY <1>3, <1>5, <2>1, <2>2, <2>3, GoesOn
  <1> QED
    BY <1>8, <1>9

LEMMA CheckRateKeeps ==
    ASSUME SlotsInv, NEW r \in Requests, CheckRate(r)
    PROVE  SlotsInv'
  <1>1. /\ Placed(pc[r], client[r], tries[r], cleaned[r]) /\ pc[r] = "rate"
        /\ UNCHANGED <<limiter, slotVars>>
    BY DEF SlotsInv, PlacesKnown, CheckRate
  <1>2. CASE pc' = [pc EXCEPT ![r] = "acquire"] /\ UNCHANGED <<client, tries, status, events, link>>
    <2>1. Placed("acquire", client[r], tries[r], cleaned[r])
      BY <1>1 DEF Placed, Phases
    <2> QED
      BY <1>1, <1>2, <2>1, Advances
  <1>3. CASE \E code \in {429, 503} : Return(r, code)
    <2>1. PICK code : Return(r, code)
      BY <1>3
    <2>2. cleaned[r] /\ UNCHANGED <<byClient, total, lock, gauge, held, lapsed, cleaned>>
          /\ faults' = faults
      BY <1>1 DEF Placed, slotVars
    <2> QED
      BY <1>1, <2>1, <2>2, Refused
  <1> QED
    BY <1>2, <1>3 DEF CheckRate

LEMMA PrepareKeeps ==
    ASSUME SlotsInv, NEW r \in Requests, Prepare(r)
    PROVE  SlotsInv'
  <1>1. /\ Placed(pc[r], client[r], tries[r], cleaned[r]) /\ pc[r] = "prepare"
        /\ limiter' = limiter /\ limiter \in Limiters
    BY DEF SlotsInv, PlacesKnown, Typed, Prepare
  <1>2. CASE pc' = [pc EXCEPT ![r] = "stream"] /\ UNCHANGED <<slotVars, client, tries>>
    <2>1. Placed("stream", client[r], tries[r], cleaned[r])
      BY <1>1 DEF Placed, Phases
    <2> QED
      BY <1>1, <1>2, <2>1, Advances
  <1>3. CASE Cleanup(r) /\ \E code : Return(r, code)
    <2>1. Moves(r, "idle", Nobody, 1)
      BY <1>1, <1>3, MoveReturns
    <2> QED
      BY <1>1, <1>3, <2>1, Nobodys, CleanupStep
  <1> QED
    BY <1>2, <1>3 DEF Prepare

LEMMA NothingMoves ==
    ASSUME SlotsInv, UNCHANGED <<limiter, slotVars, pc, client, tries>>
    PROVE  SlotsInv'
  <1>1. UNCHANGED <<limiter, byClient, total, lock, gauge, faults, held, lapsed, cleaned, pc, client, tries>>
    BY DEF slotVars
  <1>2. Typed' /\ PlacesKnown'
    BY <1>1, LimitsStay DEF SlotsInv, Typed, PlacesKnown, Placed, MaxSlot
  <1>3. LeasesKnown'
    BY <1>1, LimitsStay DEF SlotsInv, LeasesKnown, Leased, MaxSlot
  <1>4. LocksAgree'
    BY <1>1, LocksKept DEF SlotsInv
  <1>5. Holders' = Holders /\ \A c : HoldersFor(c)' = HoldersFor(c)
    BY <1>1 DEF Holders, HoldersFor
  <1>6. CountersAgree'
    BY <1>1, <1>5, LimitsStay DEF SlotsInv, CountersAgree
  <1>7. GaugeBounded'
    BY <1>1, <1>5 DEF SlotsInv, GaugeBounded
  <1> QED
    BY <1>2, <1>3, <1>4, <1>6, <1>7 DEF SlotsInv

LEMMA StreamKeeps ==
    ASSUME SlotsInv, NEW r \in Requests, EndStream(r) \/ Drop(r)
    PROVE  SlotsInv'
  <1>1. /\ Placed(pc[r], client[r], tries[r], cleaned[r]) /\ pc[r] = "stream"
        /\ UNCHANGED <<limiter, client, tries>>
    BY DEF SlotsInv, PlacesKnown, EndStream, Drop
  <1>2. CASE EndStream(r)
    <2>1. PICK who : who = client[r]
      OBVIOUS
    <2>2. PICK no : no = tries[r]
      OBVIOUS
    <2>3. Moves(r, "background", who, no)
      BY <1>1, <1>2, <2>1, <2>2, MoveStays DEF EndStream
    <2>4. Placed("background", who, no, TRUE)
      BY <1>1, <2>1, <2>2 DEF Placed, Phases
    <2> QED
      BY <1>1, <1>2, <2>3, <2>4, CleanupStep DEF EndStream
  <1>3. CASE Drop(r)
    <2>1. Placed("dropped", client[r], tries[r], cleaned[r])
      BY <1>1 DEF Placed, Phases
    <2> QED
      BY <1>1, <1>3, <2>1, Advances DEF Drop
  <1> QED
    BY <1>2, <1>3

LEMMA LeaveKeeps ==
    ASSUME SlotsInv, NEW r \in Requests, Background(r) \/ Collect(r)
    PROVE  SlotsInv'
  <1>1. /\ Placed(pc[r], client[r], tries[r], cleaned[r]) /\ limiter \in Limiters
        /\ pc[r] \in {"dropped", "collect", "background"} /\ limiter' = limiter
    BY DEF SlotsInv, Typed, PlacesKnown, Background, Collect
  <1>2. PICK who : who = client[r]
    OBVIOUS
  <1>3. PICK no : no = tries[r]
    OBVIOUS
  <1>4. PICK next \in {"collect", "background"} :
           Leave(r, next) /\ (Collect(r) => next = "background")
    BY DEF Background, Collect
  <1>5. CASE Cleanup(r)
    <2>1. CASE pc[r] = "dropped"
      <3>1. Moves(r, next, who, no)
        BY <1>1, <1>2, <1>3, <1>4, <2>1, MoveStays DEF Leave
      <3>2. Placed(next, who, no, TRUE)
        BY <1>1, <1>2, <1>3, <2>1 DEF Placed, Phases
      <3> QED
        BY <1>5, <2>1, <3>1, <3>2, CleanupStep
    <2>2. CASE pc[r] # "dropped"
      <3>1. Moves(r, "idle", Nobody, 1)
        BY <1>1, <1>4, <2>2, MoveReturns DEF Leave
      <3> QED
        BY <1>1, <1>5, <3>1, Nobodys, CleanupStep
    <2> QED
      BY <2>1, <2>2
  <1>6. CASE ~Cleanup(r)
    <2>1. Collect(r) /\ next = "background" /\ UNCHANGED slotVars
      BY <1>4, <1>6 DEF Background, Collect
    <2>2. CASE pc[r] = "dropped"
      <3>1. pc' = [pc EXCEPT ![r] = "background"] /\ UNCHANGED <<client, tries>>
        BY <1>4, <2>1, <2>2 DEF Leave
      <3>2. Placed("background", client[r], tries[r], cleaned[r])
        BY <1>1, <2>2 DEF Placed, Phases
      <3> QED
        BY <1>1, <2>1, <2>2, <3>1, <3>2, Advances
    <2>3. CASE pc[r] = "collect"
      <3>1. cleaned[r] /\ Return(r, status[r])
        BY <1>1, <1>4, <2>3 DEF Placed, Leave
      <3>2. UNCHANGED <<byClient, total, lock, gauge, held, lapsed, cleaned, faults>>
        BY <2>1 DEF slotVars
      <3> QED
        BY <1>1, <2>3, <3>1, <3>2, Refused
    <2> QED
      BY <2>1, <2>2, <2>3 DEF Collect
  <1> QED
    BY <1>5, <1>6

-----------------------------------------------------------------------------
(* Admission *)

LEMMA AcquireMemoryKeeps ==
    ASSUME SlotsInv, NEW r \in Requests, AcquireMemory(r)
    PROVE  SlotsInv'
  <1>1. Typed /\ PlacesKnown /\ LeasesKnown /\ LocksAgree /\ CountersAgree /\ GaugeBounded
    BY DEF SlotsInv
  <1>2. /\ Placed(pc[r], client[r], tries[r], cleaned[r]) /\ pc[r] = "acquire" /\ InMemory
        /\ limiter' = limiter /\ limiter \in Limiters /\ ~InRedis
    BY <1>1, LimitsAreSlots DEF PlacesKnown, AcquireMemory, Typed
  <1>3. PICK c \in Clients : c = client[r]
    BY <1>2 DEF Placed
  <1>4. cleaned[r] /\ cleaned[r] = TRUE
    BY <1>2 DEF Placed
  <1>5. byClient \in [Clients -> Nat] /\ total \in Nat /\ ClientLimit \in Nat /\ GlobalLimit \in Nat
    BY <1>1, <1>2, LimitsAreSlots DEF CountersAgree
  <1>6. CASE byClient[c] >= ClientLimit
    <2>1. Return(r, 429) /\ UNCHANGED slotVars
      BY <1>3, <1>6 DEF AcquireMemory
    <2>2. UNCHANGED <<byClient, total, lock, gauge, faults, held, lapsed, cleaned>>
      BY <2>1 DEF slotVars
    <2> QED
      BY <1>2, <1>4, <2>1, <2>2, Refused
  <1>7. CASE ~(byClient[c] >= ClientLimit) /\ total >= GlobalLimit
    <2>1. /\ byClient' = Decrement([byClient EXCEPT ![c] = @ + 1], c) /\ Return(r, 503)
          /\ UNCHANGED <<total, lock, gauge, faults, held, lapsed, cleaned>>
      BY <1>3, <1>7 DEF AcquireMemory
    <2>2. PICK n \in Nat : n = byClient[c]
      BY <1>5
    <2>3. PICK counted : counted = [byClient EXCEPT ![c] = n + 1]
      OBVIOUS
    <2>4. byClient' = [counted EXCEPT ![c] = IF counted[c] <= 1 THEN 0 ELSE counted[c] - 1]
      BY <2>1, <2>2, <2>3, Zenon DEF Decrement
    <2>5. PICK rest : rest = IF counted[c] <= 1 THEN 0 ELSE counted[c] - 1
      OBVIOUS
    <2>6. rest = n /\ byClient' = [counted EXCEPT ![c] = rest]
      <3>1. counted[c] = n + 1
        BY <1>5, <2>2, <2>3
      <3>2. rest = n
        BY <2>5, <3>1
      <3> QED
        BY <2>4, <2>5, <3>2, Zenon
    <2>7. byClient' = byClient
      BY <1>5, <2>2, <2>3, <2>6
    <2> QED
      BY <1>2, <1>4, <2>1, <2>7, Refused
  <1>8. CASE ~(byClient[c] >= ClientLimit) /\ ~(total >= GlobalLimit)
    <2>1. /\ byClient' = [byClient EXCEPT ![c] = byClient[c] + 1] /\ total' = total + 1
          /\ Admit(r) /\ UNCHANGED <<lock, faults, held, lapsed>>
      BY <1>3, <1>8 DEF AcquireMemory
    <2>2. held[r] = <<>> /\ held = [held EXCEPT ![r] = <<>>]
      <3>1. held = [q \in Requests |-> <<>>]
        BY <1>1, <1>2 DEF LeasesKnown
      <3> QED
        BY <3>1
    <2>3. Turns(r, "prepare", c, 1, <<>>, FALSE)
      BY <1>1, <1>2, <1>3, <2>1, <2>2, Same DEF Admit, Turns
    <2>4. Typed'
      <3>1. faults' \in 0 .. MaxFaults /\ lapsed' \subseteq Requests
            /\ lock' \in [Slots -> Requests \union {Nobody, Orphan}]
        BY <1>1, <2>1 DEF Typed
      <3> QED
        BY <1>1, <2>3, <3>1, TurnTyped
    <2>5. PlacesKnown'
      <3>1. Placed("prepare", c, 1, FALSE)
        BY <1>2, LimitsAreSlots DEF Placed, Phases
      <3> QED
        BY <1>1, <2>3, <3>1, TurnPlaced
    <2>6. LeasesKnown'
      BY <1>1, <1>2, <2>3, TurnLeased
    <2>7. LocksAgree'
      BY <1>2, LimitsStay DEF LocksAgree
    <2>8. CountersAgree' /\ GaugeBounded'
      <3>1. total < GlobalLimit /\ byClient[c] < ClientLimit
        BY <1>5, <1>8
      <3>2. gauge' = gauge + 1 /\ faults' = faults
        BY <2>1 DEF Admit
      <3> QED
        BY <1>1, <1>2, <1>4, <2>1, <2>3, <3>1, <3>2, CountsAdmitted
    <2> QED
      BY <2>4, <2>5, <2>6, <2>7, <2>8 DEF SlotsInv
  <1> QED
    BY <1>6, <1>7, <1>8

\* The next number is one of the slots'.
LEMMA TryNextKeeps ==
    ASSUME SlotsInv, NEW r \in Requests, NEW s, NEW limit \in 1 .. MaxSlot, TryNext(r, s, limit),
           pc[r] \in {"acquire", "global"}, UNCHANGED <<limiter, byClient, total>>
    PROVE  SlotsInv'
  <1>1. Typed /\ PlacesKnown /\ LeasesKnown /\ limiter \in Limiters
    BY DEF SlotsInv, Typed
  <1>2. Placed(pc[r], client[r], tries[r], cleaned[r]) /\ MaxSlot \in Nat
    BY <1>1, LimitsAreSlots DEF PlacesKnown
  <1>3. PICK no \in 1 .. MaxSlot : no = tries[r]
    BY <1>2 DEF Placed
  <1>4. no < limit /\ tries' = [tries EXCEPT ![r] = no + 1]
    BY <1>3 DEF TryNext
  <1>5. PICK who : who = client[r]
    OBVIOUS
  <1>6. PICK phase : phase = pc[r]
    OBVIOUS
  <1>7. Moves(r, phase, who, no + 1)
    BY <1>1, <1>4, <1>5, <1>6, Same DEF TryNext, Moves
  <1>8. Placed(phase, who, no + 1, cleaned[r])
    BY <1>2, <1>3, <1>4, <1>5, <1>6 DEF Placed
  <1>9. InRedis => Leased(phase, who, held[r], cleaned[r])
    BY <1>1, <1>5, <1>6 DEF LeasesKnown
  <1>10. faults' \in Nat /\ faults <= faults' /\ faults' <= MaxFaults
    BY <1>1, LimitsAssumption DEF Typed, TryNext
  <1>11. UNCHANGED <<byClient, total, lock, gauge, held, lapsed, cleaned>>
    BY DEF TryNext
  <1> QED
    BY <1>5, <1>7, <1>8, <1>9, <1>10, <1>11, GoesOn

LEMMA TryClientSlotKeeps ==
    ASSUME SlotsInv, NEW r \in Requests, TryClientSlot(r)
    PROVE  SlotsInv'
  <1>1. Typed /\ PlacesKnown /\ LeasesKnown /\ LocksAgree /\ CountersAgree /\ GaugeBounded
    BY DEF SlotsInv
  <1>2. /\ Placed(pc[r], client[r], tries[r], cleaned[r]) /\ pc[r] = "acquire" /\ InRedis
        /\ limiter' = limiter /\ limiter \in Limiters /\ ~InMemory /\ UNCHANGED <<byClient, total>>
    BY <1>1, LimitsAreSlots DEF PlacesKnown, TryClientSlot, Typed
  <1>3. PICK c \in Clients : c = client[r]
    BY <1>2 DEF Placed
  <1>4. PICK n \in 1 .. MaxSlot : n = tries[r]
    BY <1>2 DEF Placed
  <1>5. cleaned[r] /\ cleaned[r] = TRUE
    BY <1>2 DEF Placed
  <1>6. PICK s \in Slots : s = <<c, n>>
    BY DEF Slots
  <1>7. s = <<client[r], tries[r]>>
    BY <1>3, <1>4, <1>6
  <1>8. held[r] = <<>>
    BY <1>1, <1>2, <1>5 DEF LeasesKnown, Leased
  <1>9. CASE TryNext(r, s, ClientLimit)
    BY <1>2, <1>9, LimitsAreSlots, TryNextKeeps
  <1>10. CASE /\ \E code : Return(r, code)
              /\ faults' = faults \/ Fault
              /\ UNCHANGED <<lock, held, lapsed, gauge, cleaned>>
    <2>1. PICK code : Return(r, code)
      BY <1>10
    <2> QED
      BY <1>2, <1>5, <1>10, <2>1, Refused
  <1>11. CASE /\ Take(r, s)
              /\ pc' = [pc EXCEPT ![r] = "global"]
              /\ tries' = [tries EXCEPT ![r] = 1]
              /\ UNCHANGED <<lapsed, faults, client, gauge, cleaned>>
    <2>1. held' = [held EXCEPT ![r] = <<s>>] /\ lock[s] = Nobody /\ lock' = [lock EXCEPT ![s] = r]
      <3>1. Append(held[r], s) = <<s>>
        BY <1>8
      <3> QED
        BY <1>11, <3>1 DEF Take
    <2>2. Turns(r, "global", c, 1, <<s>>, TRUE)
      BY <1>1, <1>2, <1>3, <1>5, <1>11, <2>1, Same DEF Turns
    <2>3. Typed'
      <3>1. faults' \in 0 .. MaxFaults /\ lapsed' \subseteq Requests
            /\ lock' \in [Slots -> Requests \union {Nobody, Orphan}]
        BY <1>1, <1>11, <2>1 DEF Typed
      <3> QED
        BY <1>1, <2>2, <3>1, TurnTyped
    <2>4. PlacesKnown'
      <3>1. Placed("global", c, 1, TRUE)
        BY <1>2, LimitsAreSlots DEF Placed, Phases
      <3> QED
        BY <1>1, <2>2, <3>1, TurnPlaced
    <2>5. LeasesKnown'
      <3>1. Leased("global", c, <<s>>, TRUE)
        BY <1>6 DEF Leased
      <3> QED
        BY <1>1, <1>2, <2>2, <3>1, TurnLeased
    <2>6. LocksAgree'
      <3>1. /\ SlotsOf(held'[r]) = SlotsOf(held[r]) \union {s}
            /\ \A q \in Requests \ {r} : held'[q] = held[q]
        <4>1. held'[r] = <<s>> /\ \A q \in Requests \ {r} : held'[q] = held[q]
          BY <1>1, <2>1 DEF Typed
        <4>2. SlotsOf(held[r]) = {} /\ SlotsOf(held'[r]) = {s}
          BY <1>8, <4>1, SlotsOfLease
        <4> QED
          BY <4>1, <4>2
      <3> QED
        BY <1>1, <1>2, <1>11, <2>1, <3>1, LocksTaken
    <2>7. CountersAgree' /\ GaugeBounded'
      <3>1. faults' \in Nat /\ faults <= faults'
        BY <1>1, <1>11, LimitsAssumption DEF Typed
      <3>2. UNCHANGED <<byClient, total, gauge>>
        BY <1>2, <1>11
      <3> QED
        BY <1>1, <1>5, <2>2, <3>1, <3>2, CountsKept
    <2> QED
      BY <2>3, <2>4, <2>5, <2>6, <2>7 DEF SlotsInv
  <1>12. \/ TryNext(r, s, ClientLimit)
         \/ /\ Take(r, s)
            /\ pc' = [pc EXCEPT ![r] = "global"]
            /\ tries' = [tries EXCEPT ![r] = 1]
            /\ UNCHANGED <<lapsed, faults, client, gauge, cleaned>>
         \/ /\ \E code : Return(r, code)
            /\ faults' = faults \/ Fault
            /\ UNCHANGED <<lock, held, lapsed, gauge, cleaned>>
    BY <1>7 DEF TryClientSlot
  <1> QED
    BY <1>9, <1>10, <1>11, <1>12

LEMMA TryGlobalSlotKeeps ==
    ASSUME SlotsInv, NEW r \in Requests, TryGlobalSlot(r)
    PROVE  SlotsInv'
  <1>1. Typed /\ PlacesKnown /\ LeasesKnown /\ LocksAgree /\ CountersAgree /\ GaugeBounded
    BY DEF SlotsInv
  <1>2. /\ Placed(pc[r], client[r], tries[r], cleaned[r]) /\ pc[r] = "global" /\ InRedis
        /\ limiter' = limiter /\ limiter \in Limiters /\ ~InMemory /\ UNCHANGED <<byClient, total>>
    BY <1>1, LimitsAreSlots DEF PlacesKnown, TryGlobalSlot, Typed
  <1>3. PICK c \in Clients : c = client[r]
    BY <1>2 DEF Placed
  <1>4. PICK n \in 1 .. MaxSlot : n = tries[r]
    BY <1>2 DEF Placed
  <1>5. cleaned[r] /\ cleaned[r] = TRUE
    BY <1>2 DEF Placed
  <1>6. PICK s \in Slots : s = <<Deployment, n>>
    BY DEF Slots
  <1>7. s = <<Deployment, tries[r]>>
    BY <1>4, <1>6
  <1>8. PICK m \in 1 .. MaxSlot : held[r] = <<<<c, m>>>>
    BY <1>1, <1>2, <1>3 DEF LeasesKnown, Leased
  <1>9. PICK own \in Slots : own = <<c, m>>
    BY DEF Slots
  <1>10. held[r] = <<own>> /\ held[r][1] = own /\ SlotsOf(held[r]) = {own}
    BY <1>8, <1>9, SlotsOfLease
  <1>11. CASE TryNext(r, s, GlobalLimit)
    BY <1>2, <1>11, LimitsAreSlots, TryNextKeeps
  <1>12. CASE Take(r, s) /\ Admit(r) /\ UNCHANGED <<lapsed, faults>>
    <2>1. /\ held' = [held EXCEPT ![r] = <<own, s>>]
          /\ lock[s] = Nobody /\ lock' = [lock EXCEPT ![s] = r]
      <3>1. Append(held[r], s) = <<own, s>>
        <4>1. Append(<<own>>, s) = <<own, s>>
          BY TwoOfOne
        <4> QED
          BY <1>10, <4>1
      <3> QED
        BY <1>12, <3>1 DEF Take
    <2>2. Turns(r, "prepare", c, 1, <<own, s>>, FALSE)
      BY <1>1, <1>2, <1>3, <1>12, <2>1, Same DEF Turns, Admit
    <2>3. Typed'
      <3>1. faults' \in 0 .. MaxFaults /\ lapsed' \subseteq Requests
            /\ lock' \in [Slots -> Requests \union {Nobody, Orphan}]
        BY <1>1, <1>12, <2>1 DEF Typed
      <3> QED
        BY <1>1, <2>2, <3>1, TurnTyped
    <2>4. PlacesKnown'
      <3>1. Placed("prepare", c, 1, FALSE)
        BY <1>2, LimitsAreSlots DEF Placed, Phases
      <3> QED
        BY <1>1, <2>2, <3>1, TurnPlaced
    <2>5. LeasesKnown'
      <3>1. Leased("prepare", c, <<own, s>>, FALSE)
        BY <1>6, <1>9 DEF Leased
      <3> QED
        BY <1>1, <1>2, <2>2, <3>1, TurnLeased
    <2>6. LocksAgree'
      <3>1. held'[r] = <<own, s>> /\ \A q \in Requests \ {r} : held'[q] = held[q]
        BY <1>1, <2>1 DEF Typed
      <3>2. SlotsOf(held'[r]) = SlotsOf(held[r]) \union {s}
        <4>1. SlotsOf(held'[r]) = {own, s}
          BY <3>1, SlotsOfLease
        <4> QED
          BY <1>10, <4>1
      <3> QED
        BY <1>1, <1>2, <1>12, <2>1, <3>1, <3>2, LocksTaken
    <2>7. CountersAgree' /\ GaugeBounded'
      <3>1. gauge' = gauge + 1 /\ faults' = faults
        BY <1>12 DEF Admit
      <3> QED
        BY <1>1, <1>2, <1>5, <2>2, <3>1, CountsAdmitted
    <2> QED
      BY <2>3, <2>4, <2>5, <2>6, <2>7 DEF SlotsInv
  <1>13. CASE /\ lock' \in {ClientSlotReturned(r), Abandon(lock, {held[r][1]}, r)}
              /\ faults' = faults \/ Fault
              /\ held' = [held EXCEPT ![r] = <<>>]
              /\ lapsed' = lapsed \ {r}
              /\ Return(r, 503)
              /\ UNCHANGED <<gauge, cleaned>>
    <2>1. LetsGo(lock, lock', SlotsOf(held[r]), r)
      <3>1. PICK before \in Locks : before = lock
        BY <1>1 DEF Typed, Locks
      <3>2. CASE lock' = Unlock(before, own, r)
        BY <1>10, <3>1, <3>2, UnlockLetsGo
      <3>3. CASE lock' = Abandon(before, {own}, r)
        BY <1>10, <3>1, <3>3, AbandonLetsGo
      <3> QED
        BY <1>10, <1>13, <3>1, <3>2, <3>3 DEF ClientSlotReturned
    <2>2. Turns(r, "idle", Nobody, 1, <<>>, TRUE)
      BY <1>1, <1>2, <1>5, <1>13, Same DEF Turns, Return
    <2>3. faults' \in Nat /\ faults <= faults' /\ faults' \in 0 .. MaxFaults
      <3>1. faults \in Nat /\ faults <= MaxFaults /\ MaxFaults \in Nat
        BY <1>1, LimitsAssumption DEF Typed
      <3>2. CASE faults' = faults
        BY <3>1, <3>2
      <3>3. CASE Fault
        BY <3>1, <3>3 DEF Fault
      <3> QED
        BY <1>13, <3>2, <3>3
    <2>4. Typed'
      <3>1. lapsed' \subseteq Requests
        BY <1>1, <1>13 DEF Typed
      <3>2. lock' \in [Slots -> Requests \union {Nobody, Orphan}]
        BY <2>1 DEF LetsGo, Locks
      <3> QED
        BY <1>1, <2>2, <2>3, <3>1, <3>2, TurnTyped
    <2>5. PlacesKnown'
      BY <1>1, <1>2, <2>2, Nobodys, TurnPlaced
    <2>6. LeasesKnown'
      BY <1>1, <2>2, TurnLeased DEF Leased
    <2>7. LocksAgree'
      BY <1>2, <1>13, <2>1, LocksGivenBack
    <2>8. CountersAgree' /\ GaugeBounded'
      <3>1. UNCHANGED <<byClient, total, gauge>>
        BY <1>2, <1>13
      <3> QED
        BY <1>1, <1>5, <2>2, <2>3, <3>1, CountsKept
    <2> QED
      BY <2>4, <2>5, <2>6, <2>7, <2>8 DEF SlotsInv
  <1>14. \/ Take(r, s) /\ Admit(r) /\ UNCHANGED <<lapsed, faults>>
         \/ TryNext(r, s, GlobalLimit)
         \/ /\ lock' \in {ClientSlotReturned(r), Abandon(lock, {held[r][1]}, r)}
            /\ faults' = faults \/ Fault
            /\ held' = [held EXCEPT ![r] = <<>>]
            /\ lapsed' = lapsed \ {r}
            /\ Return(r, 503)
            /\ UNCHANGED <<gauge, cleaned>>
    BY <1>7 DEF TryGlobalSlot
  <1> QED
    BY <1>11, <1>12, <1>13, <1>14

-----------------------------------------------------------------------------
(* Leases that end, and a process that dies *)

LEMMA ExpireKeeps ==
    ASSUME SlotsInv, NEW s \in Slots, Expire(s)
    PROVE  SlotsInv'
  <1>1. Typed /\ PlacesKnown /\ LeasesKnown /\ LocksAgree /\ CountersAgree /\ GaugeBounded
    BY DEF SlotsInv
  <1>2. /\ lock[s] # Nobody /\ lock' = [lock EXCEPT ![s] = Nobody]
        /\ lapsed' = lapsed \union (IF lock[s] \in Requests THEN {lock[s]} ELSE {})
        /\ UNCHANGED <<limiter, byClient, total, gauge, faults, held, cleaned, pc, client, tries>>
    BY DEF Expire
  <1>3. Typed'
    <2>1. lapsed' \subseteq Requests /\ lock' \in [Slots -> Requests \union {Nobody, Orphan}]
      BY <1>1, <1>2 DEF Typed
    <2> QED
      BY <1>1, <1>2, <2>1, LimitsStay DEF Typed
  <1>4. PlacesKnown'
    BY <1>1, <1>2 DEF PlacesKnown, Placed, MaxSlot
  <1>5. LeasesKnown'
    BY <1>1, <1>2, LimitsStay DEF LeasesKnown, Leased, MaxSlot
  <1>6. LocksAgree'
    <2>1. SUFFICES ASSUME InRedis PROVE LocksAgree'
      BY <1>2, LimitsStay DEF LocksAgree
    <2>2. lock'[s] = Nobody /\ \A t \in Slots \ {s} : lock'[t] = lock[t]
      BY <1>1, <1>2 DEF Typed
    <2>3. ASSUME NEW t \in Slots, lock'[t] \in Requests PROVE t \in SlotsOf(held'[lock'[t]])
      <3>1. t # s /\ lock'[t] = lock[t] /\ lock[t] \in Requests
        BY <2>2, <2>3, NamesAssumption
      <3> QED
        BY <1>1, <1>2, <2>1, <3>1 DEF LocksAgree
    <2>4. ASSUME NEW r \in Requests \ lapsed', NEW t \in SlotsOf(held'[r]) PROVE lock'[t] = r
      <3>1. t \in Slots /\ r \in Requests \ lapsed /\ t \in SlotsOf(held[r])
        <4>1. held'[r] = held[r] /\ r \in Requests \ lapsed
          BY <1>2
        <4>2. SlotsOf(held[r]) \subseteq Slots
          BY <1>1, LeasesNameSlots DEF Typed
        <4> QED
          BY <4>1, <4>2
      <3>2. lock[t] = r
        BY <1>1, <2>1, <3>1 DEF LocksAgree
      <3>3. t # s
        BY <1>2, <3>2
      <3> QED
        BY <2>2, <3>1, <3>2, <3>3
    <2> QED
      BY <1>2, <2>3, <2>4, LimitsStay DEF LocksAgree
  <1>7. Holders' = Holders /\ \A c : HoldersFor(c)' = HoldersFor(c)
    BY <1>2 DEF Holders, HoldersFor
  <1>8. CountersAgree' /\ GaugeBounded'
    BY <1>1, <1>2, <1>7, LimitsStay DEF CountersAgree, GaugeBounded
  <1> QED
    BY <1>3, <1>4, <1>5, <1>6, <1>8 DEF SlotsInv

\* Everybody starts again: at the beginning, and after a crash.
StartsOver ==
    /\ limiter \in Limiters /\ faults \in 0 .. MaxFaults /\ lapsed = {}
    /\ lock \in [Slots -> {Nobody, Orphan}]
    /\ byClient = [c \in Clients |-> 0] /\ total = 0 /\ gauge = 0
    /\ pc = [r \in Requests |-> "idle"] /\ client = [r \in Requests |-> Nobody]
    /\ tries = [r \in Requests |-> 1] /\ held = [r \in Requests |-> <<>>]
    /\ cleaned = [r \in Requests |-> TRUE]

LEMMA StartOver == StartsOver => SlotsInv
  <1> SUFFICES ASSUME StartsOver PROVE SlotsInv
    OBVIOUS
  <1> USE DEF StartsOver
  <1>1. Typed
    BY DEF Typed
  <1>2. PlacesKnown
    BY Nobodys DEF PlacesKnown
  <1>3. LeasesKnown
    BY DEF LeasesKnown, Leased
  <1>4. LocksAgree
    <2>1. \A s \in Slots : lock[s] \notin Requests
      BY NamesAssumption
    <2>2. \A r \in Requests : SlotsOf(held[r]) = {}
      BY SlotsOfLease
    <2> QED
      BY <2>1, <2>2 DEF LocksAgree
  <1>5. Holders = {} /\ (\A c : HoldersFor(c) = {}) /\ Cardinality({}) = 0
    BY FS_EmptySet DEF Holders, HoldersFor
  <1>6. CountersAgree
    <2>1. ClientLimit \in Nat /\ GlobalLimit \in Nat
      BY LimitsAreSlots
    <2>2. total \in 0 .. GlobalLimit /\ byClient \in [Clients -> 0 .. ClientLimit]
      BY <2>1
    <2>3. total = Cardinality(Holders) /\ \A c \in Clients : byClient[c] = Cardinality(HoldersFor(c))
      BY <1>5
    <2> QED
      BY <2>2, <2>3 DEF CountersAgree
  <1>7. GaugeBounded
    BY <1>5, LimitsAssumption DEF GaugeBounded
  <1> QED
    BY <1>1, <1>2, <1>3, <1>4, <1>6, <1>7 DEF SlotsInv

LEMMA CrashKeeps ==
    ASSUME SlotsInv, Crash
    PROVE  SlotsInv'
  <1>1. limiter' \in Limiters /\ faults' \in 0 .. MaxFaults
    <2>1. faults \in Nat /\ faults < MaxFaults /\ faults' = faults + 1 /\ MaxFaults \in Nat
      BY LimitsAssumption DEF SlotsInv, Typed, Crash, Fault
    <2> QED
      BY <2>1 DEF SlotsInv, Typed, Crash
  <1>2. lock' \in [Slots -> {Nobody, Orphan}]
    BY DEF Crash
  <1>3. /\ lapsed' = {} /\ byClient' = [c \in Clients |-> 0] /\ total' = 0 /\ gauge' = 0
        /\ pc' = [r \in Requests |-> "idle"] /\ client' = [r \in Requests |-> Nobody]
        /\ tries' = [r \in Requests |-> 1] /\ held' = [r \in Requests |-> <<>>]
        /\ cleaned' = [r \in Requests |-> TRUE]
    BY DEF Crash
  <1>4. StartsOver'
    BY <1>1, <1>2, <1>3 DEF StartsOver, Slots, MaxSlot
  <1> QED
    BY <1>4, StartOver, PTL

LEMMA SlotsStart == ASSUME Init PROVE SlotsInv
  BY StartOver, LimitsAssumption DEF Init, StartsOver

LEMMA SlotsStep == ASSUME SlotsInv, [Next]_vars PROVE SlotsInv'
  <1>1. CASE UNCHANGED vars
    BY <1>1, NothingMoves DEF vars
  <1>2. ASSUME NEW r \in Requests, Handler(r) PROVE SlotsInv'
    <2>1. CASE NextEvent(r)
      BY <2>1, NothingMoves DEF NextEvent
    <2> QED
      BY <1>2, <2>1, CheckRateKeeps, AcquireMemoryKeeps, TryClientSlotKeeps, TryGlobalSlotKeeps,
         PrepareKeeps, StreamKeeps, LeaveKeeps DEF Handler
  <1>3. ASSUME NEW r \in Requests, Close(r) \/ Cut(r) PROVE SlotsInv'
    BY <1>3, NothingMoves DEF Close, Cut
  <1> QED
    BY <1>1, <1>2, <1>3, ArriveKeeps, ExpireKeeps, CrashKeeps DEF Next

\* What the ledger of slots says is what the properties ask of it.
LEMMA SlotsAreAccounted ==
    ASSUME SlotsInv,
           status \in [Requests -> {0, 200, 403, 404, 413, 415, 422, 429, 500, 503, 504}],
           events \in [Requests -> Seq({"start", "delta"} \union Terminal)],
           link \in [Requests -> {"open", "lost", "closed"}]
    PROVE  SlotsAccounted
  <1>1. Typed /\ PlacesKnown /\ LeasesKnown /\ LocksAgree /\ CountersAgree /\ GaugeBounded
    BY DEF SlotsInv
  <1>2. limiter \in Limiters
    BY <1>1 DEF Typed
  <1>3. TypeOK
    <2>1. /\ pc \in [Requests -> Phases] /\ client \in [Requests -> Clients \union {Nobody}]
          /\ tries \in [Requests -> 1 .. MaxSlot] /\ cleaned \in [Requests -> BOOLEAN]
      BY <1>1 DEF Typed, PlacesKnown, Placed
    <2>2. held \in [Requests -> Seq(Slots)]
      <3>1. \A r \in Requests : held[r] \in Seq(Slots)
        BY <1>1, <1>2, LeasesNameSlots
      <3> QED
        BY <1>1, <3>1 DEF Typed
    <2>3. gauge \in 0 .. (Cardinality(Requests) + MaxFaults)
      <3>1. Cardinality(Requests) \in Nat /\ Cardinality(Holders) <= Cardinality(Requests)
        BY HoldersFinite, NamesAssumption, FS_CardinalityType
      <3>2. faults \in Nat /\ faults <= MaxFaults /\ MaxFaults \in Nat
        BY <1>1, LimitsAssumption DEF Typed
      <3> QED
        BY <1>1, <3>1, <3>2, HoldersFinite DEF GaugeBounded
    <2> QED
      BY <1>1, <2>1, <2>2, <2>3 DEF TypeOK, Typed, CountersAgree
  <1>4. /\ Holders = {r \in Requests : Holding(r)}
        /\ \A c : HoldersFor(c) = {r \in Requests : Holding(r) /\ client[r] = c}
    BY DEF Holders, HoldersFor, Holding
  <1>5. MemoryAccounted
    <2>1. SUFFICES ASSUME InMemory PROVE MemoryAccounted
      BY DEF MemoryAccounted
    <2>2. total = Cardinality({r \in Requests : Holding(r)})
      BY <1>1, <1>4, <2>1 DEF CountersAgree
    <2>3. ASSUME NEW c \in Clients
          PROVE  byClient[c] = Cardinality({r \in Requests : Holding(r) /\ client[r] = c})
      <3>1. byClient[c] = Cardinality(HoldersFor(c))
        BY <1>1, <2>1 DEF CountersAgree
      <3> QED
        BY <1>4, <3>1, Zenon
    <2> QED
      BY <2>2, <2>3 DEF MemoryAccounted
  <1>6. RedisAccounted
    <2>1. SUFFICES ASSUME InRedis PROVE RedisAccounted
      BY DEF RedisAccounted
    <2>2. \A r : HolderSlots(r) = SlotsOf(held[r])
      BY DEF HolderSlots, SlotsOf
    <2>3. ASSUME NEW r \in Requests, Holding(r)
          PROVE  Len(held[r]) = 2 /\ held[r][1][1] = client[r] /\ held[r][2][1] = Deployment
      <3>1. PICK a \in Slots, b \in Slots :
               /\ held[r] = <<a, b>> /\ held[r][1] = a /\ held[r][2] = b
               /\ a[1] = client[r] /\ b[1] = Deployment
        BY <2>1, <2>3, TwoSlots DEF Holding
      <3> QED
        BY <3>1
    <2> QED
      BY <1>1, <2>2, <2>3 DEF LocksAgree, RedisAccounted
  <1>7. \A r \in Requests : pc[r] = "idle" => ~Holding(r)
    BY <1>1 DEF PlacesKnown, Placed, Holding
  <1>8. GaugeAccounted
    <2>1. gauge \in Nat /\ Cardinality(Holders) \in Nat
          /\ Cardinality(Holders) <= gauge /\ gauge <= Cardinality(Holders) + faults
      BY <1>1, HoldersFinite DEF GaugeBounded
    <2> QED
      BY <1>4, <2>1 DEF GaugeAccounted
  <1> QED
    BY <1>3, <1>5, <1>6, <1>7, <1>8 DEF SlotsAccounted

-----------------------------------------------------------------------------
(* The theorems *)

\* Both ledgers, of the responses and of the slots, are kept by every step
\* (assistant/application/public_chat.py, public_chat_protection.py).
THEOREM ChatInvariant == Spec => [](ResponsesSound /\ SlotsInv)
  <1>1. Init => ResponsesSound /\ SlotsInv
    BY ResponsesStart, SlotsStart
  <1>2. ResponsesSound /\ SlotsInv /\ [Next]_vars => (ResponsesSound /\ SlotsInv)'
    BY ResponsesStep, SlotsStep
  <1> QED
    BY <1>1, <1>2, PTL DEF Spec

\* A slot is held exactly by the exchanges whose permit has not been given back,
\* in whichever order the end of the stream, the background task, the error paths,
\* expiring locks, failing calls of Redis and crashes came
\* (assistant/application/public_chat_protection.py, assistant/api/public_chat.py).
THEOREM PermitsAreAccountedFor == Spec => []SlotsAccounted
  <1>1. ResponsesSound /\ SlotsInv => SlotsAccounted
    <2>1. SUFFICES ASSUME ResponsesSound, SlotsInv PROVE SlotsAccounted
      OBVIOUS
    <2>2. status \in [Requests -> {0, 200, 403, 404, 413, 415, 422, 429, 500, 503, 504}]
      BY <2>1 DEF ResponsesSound, Sound, Codes
    <2>3. events \in [Requests -> Seq({"start", "delta"} \union Terminal)]
      BY <2>1 DEF ResponsesSound, Sound, WellFormedStream, Events
    <2>4. link \in [Requests -> {"open", "lost", "closed"}]
      BY <2>1 DEF ResponsesSound, Sound
    <2> QED
      BY <2>1, <2>2, <2>3, <2>4, SlotsAreAccounted
  <1> QED
    BY <1>1, ChatInvariant, PTL
=============================================================================
