----------------------------- MODULE PublicChat -----------------------------
(***************************************************************************)
(* The server side of POST /public/assistants/{slug}/chat: the boundary    *)
(* checks, the admission of a request (rate limits, one slot of its client *)
(* and one of the deployment), its preparation, the server-sent events it  *)
(* streams, and the ways its slots are given back: by the end of the       *)
(* stream, by the response's background task, by an error path, or by the  *)
(* expiry of a lock in Redis. The slots are kept either by the in-memory   *)
(* limiter of a development process or by locks in Redis; "limiter" says   *)
(* which of the two the behaviour runs with.                               *)
(*                                                                         *)
(* A member of Requests is one HTTP exchange; it is used again for another *)
(* exchange once both of its ends have finished. What its reader may rely  *)
(* on is ChatExchange, which this module is shown to implement.            *)
(***************************************************************************)
EXTENDS Naturals, FiniteSets, SequencesExt

CONSTANTS
    Requests,      \* HTTP exchanges
    Clients,       \* callers as the resolver tells them apart (keyed hash of the IP)
    Deployment,    \* the name space of the global slots
    Nobody,        \* holder of a free lock; caller of an idle exchange
    Orphan,        \* holder of a lock whose owner will never release it
    Limiters,      \* configurations: [kind, perClient, globally]
    HistoryLimit,  \* maximum_history_messages, PUBLIC_HISTORY_LIMIT
    Envelopes,     \* what the checks at the boundary tell apart in a request
    MaxDeltas,     \* bound: text events of one stream
    MaxFaults      \* bound: Redis errors and process crashes

ASSUME LimitsAssumption ==
    /\ Limiters \subseteq [kind : {"memory", "redis"}, perClient : Nat \ {0}, globally : Nat \ {0}]
    /\ IsFiniteSet(Limiters)
    /\ HistoryLimit \in Nat \ {0} /\ HistoryLimit % 2 = 0
    /\ MaxDeltas \in Nat \ {0}
    /\ MaxFaults \in Nat

ASSUME NamesAssumption ==
    /\ IsFiniteSet(Requests)
    /\ Deployment \notin Clients
    /\ Nobody \notin Requests /\ Orphan \notin Requests

VARIABLES
    limiter,   \* the configured limiter and its limits, fixed from the start
    byClient,  \* InMemoryConcurrencyLimiter._active_by_client
    total,     \* InMemoryConcurrencyLimiter._active_global
    lock,      \* Redis: slot -> the exchange whose token it holds
    gauge,     \* the metric public_chat_active
    faults,    \* Redis errors and crashes so far
    pc,        \* where the handler of an exchange is
    client,    \* its caller
    tries,     \* the slot number it tries next
    held,      \* the slots its lease names, client slot first
    lapsed,    \* the exchanges one of whose locks has expired
    cleaned,   \* _RequestCleanup._done
    status,    \* HTTP status sent, 0 while none is
    events,    \* the events the generator has yielded
    link       \* the connection: "open", "lost" unknown to its reader, "closed" by it

slotVars == <<byClient, total, lock, gauge, faults, held, lapsed, cleaned>>
vars == <<limiter, slotVars, pc, client, tries, status, events, link>>

ClientLimit == limiter.perClient
GlobalLimit == limiter.globally
InMemory == limiter.kind = "memory"
InRedis == limiter.kind = "redis"

MaxSlot == Max({l.perClient : l \in Limiters} \union {l.globally : l \in Limiters})
Slots == (Clients \union {Deployment}) \X (1..MaxSlot)
Phases == {"idle", "rate", "acquire", "global", "prepare", "stream", "dropped", "collect",
           "background"}
Terminal == {"complete", "error"}

TypeOK ==
    /\ limiter \in Limiters
    /\ byClient \in [Clients -> 0..ClientLimit]
    /\ total \in 0..GlobalLimit
    /\ lock \in [Slots -> Requests \union {Nobody, Orphan}]
    /\ gauge \in 0..(Cardinality(Requests) + MaxFaults)
    /\ faults \in 0..MaxFaults
    /\ pc \in [Requests -> Phases]
    /\ client \in [Requests -> Clients \union {Nobody}]
    /\ tries \in [Requests -> 1..MaxSlot]
    /\ held \in [Requests -> Seq(Slots)]
    /\ lapsed \subseteq Requests
    /\ cleaned \in [Requests -> BOOLEAN]
    /\ status \in [Requests -> {0, 200, 403, 404, 413, 415, 422, 429, 500, 503, 504}]
    /\ events \in [Requests -> Seq({"start", "delta"} \union Terminal)]
    /\ link \in [Requests -> {"open", "lost", "closed"}]

Init ==
    /\ limiter \in Limiters
    /\ byClient = [c \in Clients |-> 0] /\ total = 0
    /\ lock = [s \in Slots |-> Nobody]
    /\ gauge = 0 /\ faults = 0
    /\ pc = [r \in Requests |-> "idle"]
    /\ client = [r \in Requests |-> Nobody]
    /\ tries = [r \in Requests |-> 1]
    /\ held = [r \in Requests |-> <<>>]
    /\ lapsed = {}
    /\ cleaned = [r \in Requests |-> TRUE]
    /\ status = [r \in Requests |-> 0]
    /\ events = [r \in Requests |-> <<>>]
    /\ link = [r \in Requests |-> "open"]

-----------------------------------------------------------------------------
Exchange == INSTANCE ChatExchange WITH busy <- [r \in Requests |-> pc[r] # "idle"]

(* The boundary: the middleware, the gate and the schema's validator.      *)

\* An envelope is what the checks tell apart: the origin, the media type, the size of the body,
\* the lengths of its texts and the history.
BoundaryStatus(envelope) ==
    CASE envelope.origin = "foreign"                 -> 403
      [] envelope.media # "json"                     -> 415
      [] envelope.body = "large"                     -> 413
      [] \/ envelope.texts = "long"
         \/ ~Exchange!WellFormedHistory(envelope.history)     -> 422
      [] OTHER                                       -> 200

\* A request of c arrives on the free exchange r; without an error it goes on to the rate limits.
Arrive(r, c, envelope) ==
    /\ pc[r] = "idle" /\ status[r] = 0 /\ link[r] = "open"
    /\ IF BoundaryStatus(envelope) = 200
       THEN /\ pc' = [pc EXCEPT ![r] = "rate"]
            /\ client' = [client EXCEPT ![r] = c]
            /\ UNCHANGED status
       ELSE /\ status' = [status EXCEPT ![r] = BoundaryStatus(envelope)]
            /\ UNCHANGED <<pc, client>>
    /\ UNCHANGED <<limiter, slotVars, tries, events, link>>

\* The handler ends. What it sent stays for its reader; without one the exchange is over.
Return(r, code) ==
    /\ pc' = [pc EXCEPT ![r] = "idle"]
    /\ client' = [client EXCEPT ![r] = Nobody]
    /\ tries' = [tries EXCEPT ![r] = 1]
    /\ IF link[r] = "closed"
       THEN /\ status' = [status EXCEPT ![r] = 0]
            /\ events' = [events EXCEPT ![r] = <<>>]
            /\ link' = [link EXCEPT ![r] = "open"]
       ELSE /\ status' = [status EXCEPT ![r] = code]
            /\ UNCHANGED <<events, link>>

\* The reader turns away; the handler hears of it if it still runs.
Close(r) ==
    /\ pc[r] # "idle" \/ status[r] # 0 \/ link[r] # "open"
    /\ link' = [link EXCEPT ![r] = IF pc[r] = "idle" THEN "open" ELSE "closed"]
    /\ status' = IF pc[r] = "idle" THEN [status EXCEPT ![r] = 0] ELSE status
    /\ events' = IF pc[r] = "idle" THEN [events EXCEPT ![r] = <<>>] ELSE events
    /\ UNCHANGED <<limiter, slotVars, pc, client, tries>>

\* The network drops the connection.
Cut(r) ==
    /\ pc[r] # "idle" /\ link[r] = "open"
    /\ link' = [link EXCEPT ![r] = "lost"]
    /\ UNCHANGED <<limiter, slotVars, pc, client, tries, status, events>>

-----------------------------------------------------------------------------
(* Admission. Whether a fixed window of the rate limits is used up is open. *)

\* The three windows are charged; one of them may be used up, or the storage may fail.
CheckRate(r) ==
    /\ pc[r] = "rate"
    /\ \/ pc' = [pc EXCEPT ![r] = "acquire"] /\ UNCHANGED <<client, tries, status, events, link>>
       \/ \E code \in {429, 503} : Return(r, code)
    /\ UNCHANGED <<limiter, slotVars>>

\* The permit exists from here on: the gauge counts it and its cleanup is armed.
Admit(r) ==
    /\ gauge' = gauge + 1
    /\ cleaned' = [cleaned EXCEPT ![r] = FALSE]
    /\ pc' = [pc EXCEPT ![r] = "prepare"]
    /\ tries' = [tries EXCEPT ![r] = 1]
    /\ UNCHANGED <<client, status, events, link>>

\* _decrement_client
Decrement(counts, c) == [counts EXCEPT ![c] = IF @ <= 1 THEN 0 ELSE @ - 1]

\* InMemoryConcurrencyLimiter.acquire: one critical section; the client is counted first and
\* uncounted again when the deployment is full.
AcquireMemory(r) ==
    LET c == client[r]
        counted == [byClient EXCEPT ![c] = @ + 1]
    IN  /\ InMemory /\ pc[r] = "acquire"
        /\ IF byClient[c] >= ClientLimit
           THEN Return(r, 429) /\ UNCHANGED slotVars
           ELSE IF total >= GlobalLimit
           THEN /\ byClient' = Decrement(counted, c)
                /\ Return(r, 503)
                /\ UNCHANGED <<total, lock, gauge, faults, held, lapsed, cleaned>>
           ELSE /\ byClient' = counted
                /\ total' = total + 1
                /\ Admit(r)
                /\ UNCHANGED <<lock, faults, held, lapsed>>
        /\ UNCHANGED limiter

\* Mutant of Unlock: the key is deleted whoever holds it.
UnlockAnyway(locks, s, r) == [locks EXCEPT ![s] = Nobody]

\* lock.release(): a script that deletes the key only while it carries the caller's token.
Unlock(locks, s, r) == [locks EXCEPT ![s] = IF @ = r THEN Nobody ELSE @]

\* A lock that nobody will release any more stays until its lease ends.
Abandon(locks, S, r) ==
    [s \in Slots |-> IF s \in S /\ locks[s] = r THEN Orphan ELSE locks[s]]

Fault == faults < MaxFaults /\ faults' = faults + 1

\* _acquire_slot, one attempt at slot s: taken, or the next number tried.
Take(r, s) ==
    /\ lock[s] = Nobody
    /\ lock' = [lock EXCEPT ![s] = r]
    /\ held' = [held EXCEPT ![r] = Append(@, s)]

\* The number is taken: the next one, up to the limit.
TryNext(r, s, limit) ==
    /\ lock[s] # Nobody /\ tries[r] < limit
    /\ tries' = [tries EXCEPT ![r] = @ + 1]
    /\ UNCHANGED <<lock, held, lapsed, faults, pc, client, status, events, link, gauge, cleaned>>

\* RedisLockConcurrencyLimiter: the client's slots.
TryClientSlot(r) ==
    LET s == <<client[r], tries[r]>> IN
    /\ InRedis /\ pc[r] = "acquire"
    /\ \/ /\ Take(r, s)
          /\ pc' = [pc EXCEPT ![r] = "global"]
          /\ tries' = [tries EXCEPT ![r] = 1]
          /\ UNCHANGED <<lapsed, faults, client, status, events, link, gauge, cleaned>>
       \/ TryNext(r, s, ClientLimit)
       \/ /\ \/ lock[s] # Nobody /\ tries[r] = ClientLimit /\ Return(r, 429) /\ UNCHANGED faults
             \/ Fault /\ Return(r, 503)
          /\ UNCHANGED <<lock, held, lapsed, gauge, cleaned>>
    /\ UNCHANGED <<limiter, byClient, total>>

\* What is left of the client's slot when no global slot was obtained.
ClientSlotReturned(r) == Unlock(lock, held[r][1], r)

\* The global slots. When all are taken, or Redis fails, the client slot is given back; the error
\* of a failing give-back is answered with 503 like the others.
TryGlobalSlot(r) ==
    LET s == <<Deployment, tries[r]>> IN
    /\ InRedis /\ pc[r] = "global"
    /\ \/ Take(r, s) /\ Admit(r) /\ UNCHANGED <<lapsed, faults>>
       \/ TryNext(r, s, GlobalLimit)
       \/ /\ \/ lock[s] # Nobody /\ tries[r] = GlobalLimit /\ UNCHANGED faults
                                                        /\ lock' = ClientSlotReturned(r)
             \/ Fault /\ lock' \in {ClientSlotReturned(r), Abandon(lock, {held[r][1]}, r)}
          /\ held' = [held EXCEPT ![r] = <<>>]
          /\ lapsed' = lapsed \ {r}
          /\ Return(r, 503)
          /\ UNCHANGED <<gauge, cleaned>>
    /\ UNCHANGED <<limiter, byClient, total>>

-----------------------------------------------------------------------------
(* Giving the permit back.                                                 *)

ReleaseMemory(r) ==
    /\ InMemory
    /\ byClient' = Decrement(byClient, client[r])
    /\ total' = IF total > 0 THEN total - 1 ELSE 0
    /\ gauge' = gauge - 1
    /\ UNCHANGED <<lock, faults, held, lapsed>>

\* The global lock first; a lock that has expired or is another's is passed over.
ReleaseRedis(r) ==
    /\ InRedis
    /\ lock' = Unlock(Unlock(lock, held[r][2], r), held[r][1], r)
    /\ gauge' = gauge - 1
    /\ held' = [held EXCEPT ![r] = <<>>]
    /\ lapsed' = lapsed \ {r}
    /\ UNCHANGED <<byClient, total, faults>>

\* Redis cannot be reached: the error leaves the cleanup before the gauge is decremented. The
\* locks not yet released are left to expire.
ReleaseFails(r) ==
    /\ InRedis /\ Fault
    /\ \E first \in BOOLEAN :
        lock' = IF first THEN Abandon(lock, {held[r][1], held[r][2]}, r)
                ELSE Abandon(Unlock(lock, held[r][2], r), {held[r][1]}, r)
    /\ held' = [held EXCEPT ![r] = <<>>]
    /\ lapsed' = lapsed \ {r}
    /\ UNCHANGED <<byClient, total, gauge>>

\* _RequestCleanup.__call__: whoever comes first releases the permit, the others do nothing.
Cleanup(r) ==
    IF cleaned[r]
    THEN UNCHANGED slotVars
    ELSE /\ cleaned' = [cleaned EXCEPT ![r] = TRUE]
         /\ ReleaseMemory(r) \/ ReleaseRedis(r) \/ ReleaseFails(r)

\* A slot's lease ends: Redis drops the key, whoever holds it.
Expire(s) ==
    /\ lock[s] # Nobody
    /\ lock' = [lock EXCEPT ![s] = Nobody]
    /\ lapsed' = lapsed \union (IF lock[s] \in Requests THEN {lock[s]} ELSE {})
    /\ UNCHANGED <<limiter, byClient, total, gauge, faults, held, cleaned, pc, client, tries,
                   status, events, link>>

-----------------------------------------------------------------------------
(* Preparation and streaming.                                              *)

\* Unknown or private assistant, too large a prompt, timeout, any other error: the permit is given
\* back and the status sent, 500 when giving it back fails. Otherwise a streaming response is
\* returned.
Prepare(r) ==
    /\ pc[r] = "prepare"
    /\ \/ /\ pc' = [pc EXCEPT ![r] = "stream"]
          /\ status' = [status EXCEPT ![r] = 200]
          /\ UNCHANGED slotVars
          /\ UNCHANGED <<client, tries, events, link>>
       \/ /\ Cleanup(r)
          /\ \E code \in {404, 422, 504, 500} : Return(r, IF faults' = faults THEN code ELSE 500)
    /\ UNCHANGED limiter

Yield(r, event) == events' = [events EXCEPT ![r] = Append(@, event)]

Running(r) == events[r] # <<>> /\ Last(events[r]) \notin Terminal
Emitted(r) == \E i \in 1..Len(events[r]) : events[r][i] = "delta"

\* Mutant of NextEvent: the provider's end completes the stream whether or not it brought a text.
NextEventSilent(r) ==
    /\ pc[r] = "stream"
    /\ \/ events[r] = <<>> /\ Yield(r, "start")
       \/ Running(r) /\ Len(events[r]) <= MaxDeltas /\ Yield(r, "delta")
       \/ Running(r) /\ Yield(r, "complete")
       \/ Running(r) /\ Yield(r, "error")
    /\ UNCHANGED <<limiter, slotVars, pc, client, tries, status, link>>

\* PreparedPublicChat.events, resumed once: "start"; a text of the provider (or the canned answer
\* when no knowledge was found); "complete" at the provider's end, an error if it ended without a
\* text; an error for a timeout or a failure of the provider.
NextEvent(r) ==
    /\ pc[r] = "stream"
    /\ \/ events[r] = <<>> /\ Yield(r, "start")
       \/ Running(r) /\ Len(events[r]) <= MaxDeltas /\ Yield(r, "delta")
       \/ Running(r) /\ Emitted(r) /\ Yield(r, "complete")
       \/ Running(r) /\ Yield(r, "error")
    /\ UNCHANGED <<limiter, slotVars, pc, client, tries, status, link>>

\* The generator returns: the finally of _sse_stream closes the events and cleans up.
EndStream(r) ==
    /\ pc[r] = "stream" /\ events[r] # <<>> /\ ~Running(r)
    /\ Cleanup(r)
    /\ pc' = [pc EXCEPT ![r] = "background"]
    /\ UNCHANGED <<limiter, client, tries, status, events, link>>

\* The response hears of the disconnect and stops iterating; the generator stays suspended, or was
\* never started.
Drop(r) ==
    /\ pc[r] = "stream" /\ link[r] # "open"
    /\ pc' = [pc EXCEPT ![r] = "dropped"]
    /\ UNCHANGED <<limiter, slotVars, client, tries, status, events, link>>

\* After a drop both the background task and the collection of the generator are still to come.
Leave(r, next) ==
    IF pc[r] = "dropped"
    THEN pc' = [pc EXCEPT ![r] = next] /\ UNCHANGED <<client, tries, status, events, link>>
    ELSE Return(r, status[r])

\* Mutant of Background: a response without the task; the stream's finally is all there is.
BackgroundIsNone(r) ==
    /\ pc[r] \in {"dropped", "background"}
    /\ Leave(r, "collect")
    /\ UNCHANGED <<limiter, slotVars>>

\* The response's background task.
Background(r) ==
    /\ pc[r] \in {"dropped", "background"}
    /\ Cleanup(r)
    /\ Leave(r, "collect")
    /\ UNCHANGED limiter

\* A suspended generator is closed when it is collected: GeneratorExit, the provider's stream is
\* closed, the finally cleans up. One that never started has no finally to run.
Collect(r) ==
    /\ pc[r] \in {"dropped", "collect"}
    /\ IF events[r] = <<>> THEN UNCHANGED slotVars ELSE Cleanup(r)
    /\ Leave(r, "background")
    /\ UNCHANGED limiter

\* The server process dies: its handlers, counters and metrics are gone, its Redis locks are not.
Crash ==
    /\ Fault
    /\ \E r \in Requests : pc[r] # "idle"
    /\ pc' = [r \in Requests |-> "idle"]
    /\ byClient' = [c \in Clients |-> 0] /\ total' = 0 /\ gauge' = 0
    /\ lock' = [s \in Slots |-> IF lock[s] = Nobody THEN Nobody ELSE Orphan]
    /\ held' = [r \in Requests |-> <<>>]
    /\ lapsed' = {}
    /\ cleaned' = [r \in Requests |-> TRUE]
    /\ client' = [r \in Requests |-> Nobody]
    /\ tries' = [r \in Requests |-> 1]
    /\ status' = [r \in Requests |-> IF link[r] = "closed" THEN 0 ELSE status[r]]
    /\ events' = [r \in Requests |-> IF link[r] = "closed" THEN <<>> ELSE events[r]]
    /\ link' = [r \in Requests |-> IF link[r] = "closed" THEN "open"
                                   ELSE IF pc[r] # "idle" THEN "lost" ELSE link[r]]
    /\ UNCHANGED limiter

Handler(r) ==
    \/ CheckRate(r) \/ AcquireMemory(r) \/ TryClientSlot(r) \/ TryGlobalSlot(r)
    \/ Prepare(r) \/ NextEvent(r) \/ EndStream(r) \/ Drop(r) \/ Background(r) \/ Collect(r)

Next ==
    \/ \E r \in Requests, c \in Clients, e \in Envelopes : Arrive(r, c, e)
    \/ \E r \in Requests : Handler(r) \/ Close(r) \/ Cut(r)
    \/ \E s \in Slots : Expire(s)
    \/ Crash

Spec == Init /\ [][Next]_vars

\* The thread of a request goes on, since the steps it waits for have timeouts, and so does the
\* server that iterates its response and then runs the background task. Nothing says when a
\* dropped generator is collected, a disconnect is heard of, or a lease in Redis ends.
Serve(r) ==
    \/ CheckRate(r) \/ AcquireMemory(r) \/ TryClientSlot(r) \/ TryGlobalSlot(r)
    \/ Prepare(r) \/ NextEvent(r) \/ EndStream(r)

Fairness == \A r \in Requests : WF_vars(Serve(r)) /\ WF_vars(Background(r))

-----------------------------------------------------------------------------
Holding(r) == ~cleaned[r]
HolderSlots(r) == {held[r][i] : i \in 1..Len(held[r])}

\* In memory the counters are exactly the permits that have not been given back.
MemoryAccounted ==
    InMemory =>
        /\ total = Cardinality({r \in Requests : Holding(r)})
        /\ \A c \in Clients :
            byClient[c] = Cardinality({r \in Requests : Holding(r) /\ client[r] = c})

\* In Redis every lock that carries an exchange's token is one its lease names, and an exchange
\* none of whose locks has expired still holds both of them: no other exchange gave them away.
RedisAccounted ==
    InRedis =>
        /\ \A s \in Slots : lock[s] \in Requests => s \in HolderSlots(lock[s])
        /\ \A r \in Requests \ lapsed : \A s \in HolderSlots(r) : lock[s] = r
        /\ \A r \in Requests : Holding(r) =>
            /\ Len(held[r]) = 2
            /\ held[r][1][1] = client[r] /\ held[r][2][1] = Deployment

\* The gauge never counts fewer requests than hold a permit, and not more unless Redis failed.
GaugeAccounted ==
    /\ gauge >= Cardinality({r \in Requests : Holding(r)})
    /\ (faults = 0 => gauge = Cardinality({r \in Requests : Holding(r)}))

\* A slot is held exactly by the exchanges whose permit has not been given back, whichever of the
\* stream, the background task and the error paths came first, and a handler that has ended holds
\* none (assistant/application/public_chat_protection.py, assistant/api/public_chat.py).
SlotsAccounted ==
    /\ TypeOK
    /\ MemoryAccounted
    /\ RedisAccounted
    /\ \A r \in Requests : pc[r] = "idle" => ~Holding(r)
    /\ GaugeAccounted

\* A permit, or a slot taken on the way to one, comes back while its process lives: whichever way
\* the exchange goes, the client hanging up before or within the stream included, it waits neither
\* for the lease's end in Redis nor for the collection of an abandoned generator
\* (assistant/api/public_chat.py, _RequestCleanup and the background task).
HoldsSlot(r) == Holding(r) \/ \E s \in Slots : lock[s] = r
PermitsComeBack == \A r \in Requests : HoldsSlot(r) ~> ~HoldsSlot(r)

\* The endpoint keeps its promise: one status, one well-formed stream with exactly one terminal
\* event (application/public_chat.py:61).
ExchangeContract == Exchange!ExchangeSpec
=============================================================================
