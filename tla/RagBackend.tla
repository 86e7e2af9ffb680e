------------------------------ MODULE RagBackend ------------------------------
(***************************************************************************)
(* POST /rag-chat of the standalone RAG service: the handlers on the event *)
(* loop, and the worker thread each of them starts first to prepare an     *)
(* answer and then to commit it. They share Redis, the audit log and the   *)
(* module's dictionary of generated queries.                               *)
(*                                                                         *)
(* An answer is named by the request it was generated for. A deadline may  *)
(* pass between any two steps; "late" says that it has. A call under way   *)
(* then goes on for as long as it takes. "inFlight" says that a worker has *)
(* given up a SETEX that Redis may still receive.                          *)
(***************************************************************************)
EXTENDS Naturals, Sequences, SequencesExt, FiniteSets

CONSTANTS
    Chats,        \* requests
    Questions,    \* questions as they are typed
    Form,         \* each question in lower case, its spaces collapsed
    ChatRoles,    \* the roles a request may name
    Earlier,      \* what query_cache may hold by now
    Auditing,     \* the values of "not disable_audit" to check
    RateLimit,    \* requests a minute
    RateWindow,   \* the minute
    MaxSeconds,   \* bound on the clock
    MaxQueries,   \* MAX_QUERY_CACHE_SIZE
    NoReply       \* no answer, no event

ASSUME RagAssumption ==
    /\ IsFiniteSet(Chats) /\ Chats # {} /\ NoReply \notin Chats
    /\ Auditing \subseteq BOOLEAN
    /\ {RateLimit, RateWindow, MaxQueries} \subseteq Nat \ {0}
    /\ MaxSeconds \in Nat
    /\ \A earlier \in Earlier : earlier \in Seq(Questions) /\ Len(earlier) <= MaxQueries + 1

VARIABLES
    auditing,   \* not disable_audit
    seconds,    \* time.monotonic()
    window,     \* the requests whose times are in rate_windows of the path and the client
    queries,    \* keys of query_cache, oldest first
    replies,    \* Redis: the answer cached for a form and a role
    audits,     \* rag.audit_logs, oldest first
    chats       \* what the handler and the thread of each request do

ragVars == <<auditing, seconds, window, queries, replies, audits, chats>>

Unasked == [handler |-> "unasked", worker |-> "none", late |-> FALSE, inFlight |-> FALSE]
KeyOfForm(question, role) == <<Form[question], CHOOSE r \in ChatRoles : TRUE>>
CacheKey(question, role) == <<Form[question], role>>

RagInit ==
    /\ auditing \in Auditing
    /\ seconds = 0 /\ window = {}
    /\ queries \in Earlier
    /\ replies = [k \in {<<Form[q], r>> : q \in Questions, r \in ChatRoles} |-> NoReply]
    /\ audits = <<>>
    /\ chats = [c \in Chats |-> Unasked]

Change(c, fields) == chats' = [chats EXCEPT ![c] = fields]
Work(c, worker) == Change(c, [chats[c] EXCEPT !.worker = worker])
Answered(c, code, reply) ==
    Change(c, [chats[c] EXCEPT !.handler = "answered", !.code = code, !.reply = reply])
Working(c) == chats[c].worker \notin {"none", "prepared", "committed", "timeout", "error"}

\* A worker raises: RequestTimedOut, or something else.
Late(c) == chats[c].late /\ Work(c, "timeout")
Raise(c) == Work(c, "error")

-----------------------------------------------------------------------------
(* Admission *)

\* Maintenance (503), or a body of a bad size (400, 413).
Decline(c) ==
    /\ chats[c] = Unasked
    /\ Change(c, [handler |-> "answered", worker |-> "none", late |-> FALSE, inFlight |-> FALSE,
                  code |-> 503, reply |-> NoReply, at |-> seconds])
    /\ UNCHANGED <<auditing, seconds, window, queries, replies, audits>>

\* A rejected request is not counted; one that is then refused by require_admin
\* or effective_role (401, 403), or for want of a provider, is.
Admit(c, question, role) ==
    /\ chats[c] = Unasked
    /\ LET recent == {w \in window : chats[w].at + RateWindow > seconds}
           Asked(handler, worker, code) ==
               [handler |-> handler, worker |-> worker, late |-> FALSE, inFlight |-> FALSE,
                code |-> code, question |-> question, role |-> role, reply |-> NoReply, event |-> NoReply,
                cached |-> NoReply, victim |-> question, at |-> seconds]
       IN IF Cardinality(recent) >= RateLimit
          THEN window' = recent /\ Change(c, Asked("answered", "none", 429))
          ELSE /\ window' = recent \union {c}
               /\ \/ Change(c, Asked("answered", "none", 403))
                  \/ Change(c, Asked("preparing", "looking", 0))
    /\ UNCHANGED <<auditing, seconds, queries, replies, audits>>

Pass ==
    /\ seconds < MaxSeconds
    /\ seconds' = seconds + 1
    /\ UNCHANGED <<auditing, window, queries, replies, audits, chats>>

\* As long as anything looks at it.
DeadlinePasses(c) ==
    /\ chats[c].handler = "answered" => Working(c)
    /\ chats[c].worker # "none" /\ ~chats[c].late
    /\ Change(c, [chats[c] EXCEPT !.late = TRUE])
    /\ UNCHANGED <<auditing, seconds, window, queries, replies, audits>>

-----------------------------------------------------------------------------
(* prepare_rag_chat, in a worker thread *)

\* A Redis error is a miss; a value that is not JSON raises.
LookUp(c) ==
    LET found == replies[CacheKey(chats[c].question, chats[c].role)]
    IN /\ chats[c].worker = "looking"
       /\ \/ Late(c)
          \/ ~chats[c].late /\ (Raise(c) \/ Work(c, "expanding"))
          \/ ~chats[c].late /\ found # NoReply
             /\ Change(c, [chats[c] EXCEPT !.worker = "copying", !.reply = found])
       /\ UNCHANGED <<auditing, seconds, window, queries, replies, audits>>

\* The audit row of a cached answer copies the latest one about the question as
\* it was typed, if there is one.
CopyAudit(c) ==
    LET same == {i \in DOMAIN audits : /\ audits[i].question = chats[c].question
                                       /\ audits[i].role = chats[c].role}
        event == IF auditing /\ same # {} THEN audits[Max(same)].reply ELSE NoReply
    IN /\ chats[c].worker = "copying"
       /\ \/ Late(c)
          \/ ~chats[c].late /\ auditing /\ Raise(c)
          \/ ~chats[c].late /\ Change(c, [chats[c] EXCEPT !.worker = "prepared", !.event = event])
       /\ UNCHANGED <<auditing, seconds, window, queries, replies, audits>>

Expand(c) ==
    /\ chats[c].worker = "expanding"
    /\ Work(c, IF chats[c].question \in ToSet(queries) THEN "reading" ELSE "generating")
    /\ UNCHANGED <<auditing, seconds, window, queries, replies, audits>>

\* By now another thread may have dropped the question: a KeyError.
ReadQueries(c) ==
    /\ chats[c].worker = "reading"
    /\ IF chats[c].question \in ToSet(queries) THEN Work(c, "generated") ELSE Raise(c)
    /\ UNCHANGED <<auditing, seconds, window, queries, replies, audits>>

GenerateQueries(c) ==
    /\ chats[c].worker = "generating"
    /\ \/ Late(c)
       \/ ~chats[c].late /\ Raise(c)
       \/ ~chats[c].late /\ Work(c, IF Len(queries) > MaxQueries THEN "choosing" ELSE "inserting")
    /\ UNCHANGED <<auditing, seconds, window, queries, replies, audits>>

\* next(iter(..)) raises as well when the dictionary changes between the two.
ChooseVictim(c) ==
    /\ chats[c].worker = "choosing"
    /\ \/ Raise(c)
       \/ queries # <<>> /\ Change(c, [chats[c] EXCEPT !.worker = "evicting", !.victim = Head(queries)])
    /\ UNCHANGED <<auditing, seconds, window, queries, replies, audits>>

EvictQueries(c) ==
    /\ chats[c].worker = "evicting"
    /\ \/ /\ \E i \in DOMAIN queries :
                queries[i] = chats[c].victim /\ queries' = RemoveAt(queries, i)
          /\ Work(c, "inserting")
       \/ chats[c].victim \notin ToSet(queries) /\ Raise(c) /\ UNCHANGED queries
    /\ UNCHANGED <<auditing, seconds, window, replies, audits>>

InsertQueries(c) ==
    /\ chats[c].worker = "inserting"
    /\ queries' = IF chats[c].question \in ToSet(queries) THEN queries
                  ELSE Append(queries, chats[c].question)
    /\ Work(c, "generated")
    /\ UNCHANGED <<auditing, seconds, window, replies, audits>>

\* Searches, reranking (whose failure is ignored), the answer and its
\* evaluation. Without a chunk to answer from, nothing is audited or cached.
Generate(c) ==
    /\ chats[c].worker = "generated"
    /\ \/ Late(c)
       \/ ~chats[c].late /\ Raise(c)
       \/ ~chats[c].late /\ Work(c, "prepared")
       \/ ~chats[c].late /\ Change(c, [chats[c] EXCEPT !.worker = "prepared", !.reply = c, !.cached = c,
                                                       !.event = IF auditing THEN c ELSE NoReply])
    /\ UNCHANGED <<auditing, seconds, window, queries, replies, audits>>

-----------------------------------------------------------------------------
(* commit_rag_chat_outcome, in a worker thread *)

StartAudit(c) ==
    /\ chats[c].worker = "auditing"
    /\ \/ Late(c)
       \/ ~chats[c].late /\ Work(c, IF chats[c].event = NoReply THEN "caching" ELSE "inserting row")
    /\ UNCHANGED <<auditing, seconds, window, queries, replies, audits>>

\* The deadline bounds the statement, and may pass while it runs.
WriteAudit(c) ==
    LET row == [question |-> chats[c].question, role |-> chats[c].role, reply |-> chats[c].event, by |-> c]
    IN /\ chats[c].worker = "inserting row"
       /\ \/ audits' = Append(audits, row) /\ Work(c, "caching")
          \/ audits' \in {audits, Append(audits, row)} /\ Raise(c)
       /\ UNCHANGED <<auditing, seconds, window, queries, replies>>

StartCaching(c) ==
    /\ chats[c].worker = "caching"
    /\ \/ Late(c)
       \/ ~chats[c].late /\ Work(c, IF chats[c].cached = NoReply THEN "finishing" ELSE "storing")
    /\ UNCHANGED <<auditing, seconds, window, queries, replies, audits>>

Stored(c) == [replies EXCEPT ![CacheKey(chats[c].question, chats[c].role)] = c]

\* A Redis error is ignored: the answer may have been stored, be lost, or still be in flight.
StoreReply(c) ==
    /\ chats[c].worker = "storing"
    /\ \/ Work(c, "finishing") /\ replies' \in {replies, Stored(c)}
       \/ /\ Change(c, [chats[c] EXCEPT !.worker = "finishing", !.inFlight = TRUE])
          /\ UNCHANGED replies
    /\ UNCHANGED <<auditing, seconds, window, queries, audits>>

\* Redis applies the command that its sender no longer waits for.
StoredLate(c) ==
    /\ chats[c].inFlight
    /\ Change(c, [chats[c] EXCEPT !.inFlight = FALSE])
    /\ replies' = Stored(c)
    /\ UNCHANGED <<auditing, seconds, window, queries, audits>>

FinishCommit(c) ==
    /\ chats[c].worker = "finishing"
    /\ Late(c) \/ (~chats[c].late /\ Work(c, "committed"))
    /\ UNCHANGED <<auditing, seconds, window, queries, replies, audits>>

ReplyExpires ==
    /\ \E k \in DOMAIN replies : replies[k] # NoReply /\ replies' = [replies EXCEPT ![k] = NoReply]
    /\ UNCHANGED <<auditing, seconds, window, queries, audits, chats>>

-----------------------------------------------------------------------------
(* chat, on the event loop *)

\* wait_for gives the prepared answer up, and its thread goes on.
GiveUp(c) ==
    /\ chats[c].handler = "preparing" /\ Working(c) /\ chats[c].late
    /\ Answered(c, 504, NoReply)

Collect(c) ==
    /\ chats[c].handler = "preparing" /\ ~Working(c)
    /\ IF chats[c].worker = "error" THEN Answered(c, 500, NoReply)
       ELSE IF chats[c].late THEN Answered(c, 504, NoReply)
       ELSE Change(c, [chats[c] EXCEPT !.handler = "committing", !.worker = "auditing"])

\* The commit is shielded, and 504 waits for it.
AnswersAtOnce == "answered"
WaitsForCommit == "draining"
TimeOut(c) ==
    /\ chats[c].handler = "committing" /\ Working(c) /\ chats[c].late
    /\ Change(c, [chats[c] EXCEPT !.handler = WaitsForCommit, !.code = 504])

Settle(c) ==
    /\ chats[c].handler = "committing" /\ ~Working(c)
    /\ IF chats[c].worker = "committed" THEN Answered(c, 200, chats[c].reply)
       ELSE Answered(c, IF chats[c].worker = "timeout" THEN 504 ELSE 500, NoReply)

Drained(c) ==
    /\ chats[c].handler = "draining" /\ ~Working(c)
    /\ Answered(c, 504, NoReply)

ChatHandler(c) ==
    /\ GiveUp(c) \/ Collect(c) \/ TimeOut(c) \/ Settle(c) \/ Drained(c)
    /\ UNCHANGED <<auditing, seconds, window, queries, replies, audits>>

Worker(c) ==
    \/ LookUp(c) \/ CopyAudit(c) \/ Expand(c) \/ ReadQueries(c) \/ GenerateQueries(c)
    \/ ChooseVictim(c) \/ EvictQueries(c) \/ InsertQueries(c) \/ Generate(c)
    \/ StartAudit(c) \/ WriteAudit(c) \/ StartCaching(c) \/ StoreReply(c) \/ FinishCommit(c)

RagNext ==
    \/ Pass \/ ReplyExpires
    \/ \E c \in Chats :
          \/ Decline(c)
          \/ \E question \in Questions, role \in ChatRoles : Admit(c, question, role)
          \/ DeadlinePasses(c) \/ Worker(c) \/ ChatHandler(c) \/ StoredLate(c)

RagSpec == RagInit /\ [][RagNext]_ragVars

-----------------------------------------------------------------------------
(* Properties *)

Done(c) == chats[c].handler = "answered"

\* No worker writes the audit log, or sends an answer to the cache, after its
\* request was answered: whoever was told that a request failed finds its row,
\* if there ever is one, from then on. What the cache still takes in then was
\* sent before, and given up. (query_cache is written even then.)
CommittedBeforeAnswered ==
    [][/\ audits' # audits => ~Done(Last(audits').by)
       /\ \A k \in DOMAIN replies :
             replies'[k] \notin {replies[k], NoReply} =>
                ~Done(replies'[k]) \/ chats[replies'[k]].inFlight
       /\ \A c \in Chats : chats'[c].inFlight /\ ~chats[c].inFlight => ~Done(c)]_ragVars

\* However requests and deadlines interleave: a cached answer was audited, for
\* a question of its form and for its role; an answer that is given, cached or
\* not, was generated for the form and the role of the request; the dictionary
\* of queries exceeds its size by no more than one and the threads at work;
\* and no minute admits more requests than its limit.
RepliesAccountedFor ==
    /\ \A k \in DOMAIN replies :
          replies[k] # NoReply =>
             /\ k = <<Form[chats[replies[k]].question], chats[replies[k]].role>>
             /\ auditing => \E i \in DOMAIN audits :
                               audits[i].by = replies[k] /\ audits[i].reply = replies[k]
    /\ \A c \in Chats : Done(c) /\ chats[c].reply # NoReply =>
          LET source == chats[chats[c].reply]
          IN Form[source.question] = Form[chats[c].question] /\ source.role = chats[c].role
    /\ Len(queries) <= MaxQueries + Cardinality(Chats)
    /\ \A t \in 0 .. MaxSeconds :
          Cardinality({c \in Chats : /\ chats[c] # Unasked
                                     /\ chats[c].code \notin {429, 503}
                                     /\ t <= chats[c].at /\ chats[c].at < t + RateWindow}) <= RateLimit
=============================================================================
