------------------------ MODULE KnowledgePersistence ------------------------
(***************************************************************************)
(* The knowledge a website or direct-text source has in the database: one  *)
(* row of documents per page with its chunks, and the receipt that makes   *)
(* the pipeline's final transaction idempotent.                            *)
(*                                                                         *)
(* A writer first prepares: it reads each page's document and decides what *)
(* to do with it, then embeds, holding no lock. Later it persists in one   *)
(* transaction, serialised per job by the lock on the job row and per page *)
(* by an advisory lock, so a transaction is one step here. Anything may    *)
(* happen to the same pages in between.                                    *)
(*                                                                         *)
(* What a page says is a member of Reps; two of them with the same HashOf  *)
(* differ in title or access roles only. The chunks of a document are kept *)
(* as the set of (content hash, ingestion job) pairs their rows carry.     *)
(***************************************************************************)
EXTENDS Naturals

CONSTANTS
    Jobs,        \* ingestion jobs, which commit with a receipt
    Writers,     \* threads that prepare and persist
    Pages,       \* source URLs of one assistant
    Reps,        \* what a page can say: text, title and access roles
    Hashes,      \* content hashes
    HashOf,      \* the content hash of a representation
    Contents,    \* what one processing run of a source can yield, page by page
    PendingHashes, \* content_version hashes stored by knowledge-source creation
    NoJob,       \* last_ingestion_job_id IS NULL; a writer without a command
    NoRep,       \* a document whose text no writer has written yet
    NoHash,      \* expected_previous_content_hash is None
    NoDocument,  \* no documents row
    NoReceipt,   \* no ingestion_persistence_results row
    NoPlan       \* nothing prepared

Documents == [hash : Hashes, rep : Reps \union {NoRep}, job : Jobs \union {NoJob}]
ChunkRows == [hash : Hashes, job : Jobs \union {NoJob}]
Dispositions == {"unchanged", "metadata", "replace"}
PagePlans == [disposition : Dispositions, expected : Hashes \union {NoHash}]
PreparedBy(content) ==
    [job : Jobs \union {NoJob}, content : {content}, plan : [DOMAIN content -> PagePlans]]
Preparations == UNION {PreparedBy(content) : content \in Contents}

ASSUME KnowledgeAssumption ==
    /\ HashOf \in [Reps -> Hashes]
    /\ Contents \subseteq UNION {[pages -> Reps] : pages \in SUBSET Pages}
    /\ PendingHashes \subseteq Hashes
    /\ NoJob \notin Jobs
    /\ NoRep \notin Reps
    /\ NoHash \notin Hashes
    /\ NoDocument \notin Documents
    /\ NoReceipt \notin Contents
    /\ NoPlan \notin Preparations

VARIABLES
    document,    \* the documents row of each page
    chunks,      \* the (hash, job) pairs on the chunk rows of each page
    receipt,     \* the command each job has committed
    prepared     \* the PreparedKnowledge each writer holds

knowledgeVars == <<document, chunks, receipt, prepared>>

\* A knowledge source stores its document at creation, under the hash of its
\* payload (content_version) and without chunks; crawled pages have none yet.
Init ==
    /\ document \in [Pages -> {NoDocument} \union
                        [hash : PendingHashes, rep : {NoRep}, job : {NoJob}]]
    /\ chunks = [p \in Pages |-> {}]
    /\ receipt = [j \in Jobs |-> NoReceipt]
    /\ prepared = [w \in Writers |-> NoPlan]

-----------------------------------------------------------------------------
\* str(row[3]) of the documents row, or None
CurrentHash(p) == IF document[p] = NoDocument THEN NoHash ELSE document[p].hash

\* What prepare decides about a page, from the document it finds.
Disposition(p, rep) ==
    IF CurrentHash(p) # HashOf[rep] THEN "replace"
    ELSE IF document[p].rep = rep THEN "unchanged"
    ELSE "metadata"

Plan(content) ==
    [p \in DOMAIN content |->
        [disposition |-> Disposition(p, content[p]), expected |-> CurrentHash(p)]]

\* prepare, reading page after page before embedding. The reads of one call are
\* taken together: each page is guarded by its own expected hash afterwards.
Prepare(w, job, content) ==
    /\ prepared' = [prepared EXCEPT
          ![w] = [job |-> job, content |-> content, plan |-> Plan(content)]]
    /\ UNCHANGED <<document, chunks, receipt>>

\* The writer's thread ends, or builds its context anew.
Discard(w) ==
    /\ prepared[w] # NoPlan
    /\ prepared' = [prepared EXCEPT ![w] = NoPlan]
    /\ UNCHANGED <<document, chunks, receipt>>

-----------------------------------------------------------------------------
\* Mutant: the metadata branch trusts the hash read by prepare.
ConflictsOnReplaceOnly(w, p) ==
    LET plan == prepared[w].plan[p] IN
    /\ plan.disposition = "replace"
    /\ document[p] # NoDocument
    /\ plan.expected # NoHash
    /\ plan.expected # document[p].hash

\* The transaction meets a document it was not prepared for. A replacement
\* prepared when there was no document conflicts with none.
Conflicts(w, p) ==
    LET plan == prepared[w].plan[p] IN
    \/ /\ plan.disposition = "replace"
       /\ document[p] # NoDocument
       /\ plan.expected # NoHash
       /\ plan.expected # document[p].hash
    \/ /\ plan.disposition = "metadata"
       /\ CurrentHash(p) # HashOf[prepared[w].content[p]]

\* replace_document writes unless the text is already there.
Replaces(w, p) ==
    /\ prepared[w].plan[p].disposition = "replace"
    /\ CurrentHash(p) # HashOf[prepared[w].content[p]]

Renames(w, p) == prepared[w].plan[p].disposition = "metadata"

\* Mutant: the UPDATE of an existing document keeps last_ingestion_job_id when
\* the writer has no job.
WrittenDocumentKeepsJob(w, p) ==
    LET rep == prepared[w].content[p] IN
    IF Replaces(w, p)
    THEN [hash |-> HashOf[rep], rep |-> rep,
          job |-> IF prepared[w].job = NoJob /\ document[p] # NoDocument
                  THEN document[p].job ELSE prepared[w].job]
    ELSE IF Renames(w, p) THEN [document[p] EXCEPT !.rep = rep]
    ELSE document[p]

\* Mutant: the row is written without its content_hash, a nullable column.
WrittenDocumentWithoutHash(w, p) ==
    LET rep == prepared[w].content[p] IN
    IF Replaces(w, p)
    THEN [hash |-> NoHash, rep |-> rep, job |-> prepared[w].job]
    ELSE IF Renames(w, p) THEN [document[p] EXCEPT !.rep = rep]
    ELSE document[p]

\* What the transaction leaves in the documents row; a metadata update does not
\* touch last_ingestion_job_id.
WrittenDocument(w, p) ==
    LET rep == prepared[w].content[p] IN
    IF Replaces(w, p)
    THEN [hash |-> HashOf[rep], rep |-> rep, job |-> prepared[w].job]
    ELSE IF Renames(w, p) THEN [document[p] EXCEPT !.rep = rep]
    ELSE document[p]

\* Mutant: a replacement that forgets DELETE FROM chunks.
WrittenChunksAdded(w, p) ==
    IF Replaces(w, p)
    THEN chunks[p] \union {[hash |-> HashOf[prepared[w].content[p]], job |-> prepared[w].job]}
    ELSE chunks[p]

\* DELETE FROM chunks, then the INSERTs of the replacement.
WrittenChunks(w, p) ==
    IF Replaces(w, p)
    THEN {[hash |-> HashOf[prepared[w].content[p]], job |-> prepared[w].job]}
    ELSE chunks[p]

\* find_committed_result, under the lock on the job row
Committed(w) == prepared[w].job # NoJob /\ receipt[prepared[w].job] # NoReceipt

-----------------------------------------------------------------------------
\* The transaction writes every page and the receipt, and commits.
Commit(w) ==
    /\ prepared[w] # NoPlan
    /\ ~Committed(w)
    /\ \A p \in DOMAIN prepared[w].content : ~Conflicts(w, p)
    /\ document' = [p \in Pages |->
          IF p \in DOMAIN prepared[w].content THEN WrittenDocument(w, p) ELSE document[p]]
    /\ chunks' = [p \in Pages |->
          IF p \in DOMAIN prepared[w].content THEN WrittenChunks(w, p) ELSE chunks[p]]
    /\ receipt' = [j \in Jobs |->
          IF j = prepared[w].job THEN prepared[w].content ELSE receipt[j]]
    /\ UNCHANGED prepared

\* The job has committed this very command: its stored result is returned. The
\* command hash covers the job's document and every page's rep.
Replay(w) ==
    /\ prepared[w] # NoPlan
    /\ Committed(w)
    /\ receipt[prepared[w].job] = prepared[w].content
    /\ UNCHANGED knowledgeVars

\* The transaction rolls back: the job has committed another command, or a page
\* conflicts.
Refuse(w) ==
    /\ prepared[w] # NoPlan
    /\ \/ /\ Committed(w)
          /\ receipt[prepared[w].job] # prepared[w].content
       \/ /\ ~Committed(w)
          /\ \E p \in DOMAIN prepared[w].content : Conflicts(w, p)
    /\ UNCHANGED knowledgeVars

\* A connection loss or deadlock, before COMMIT took effect: nothing is written.
RollBack(w) ==
    /\ prepared[w] # NoPlan
    /\ UNCHANGED knowledgeVars

Next ==
    \E w \in Writers :
        \/ /\ prepared[w] = NoPlan
           /\ \E job \in Jobs \union {NoJob}, content \in Contents : Prepare(w, job, content)
        \/ Commit(w)
        \/ Replay(w)
        \/ Refuse(w)
        \/ RollBack(w)
        \/ Discard(w)

Spec == Init /\ [][Next]_knowledgeVars

-----------------------------------------------------------------------------
(* Properties                                                              *)

TypeOK ==
    /\ document \in [Pages -> Documents \union {NoDocument}]
    /\ chunks \in [Pages -> SUBSET ChunkRows]
    /\ receipt \in [Jobs -> Contents \union {NoReceipt}]
    /\ prepared \in [Writers -> Preparations \union {NoPlan}]

\* A page that has chunks has one generation of them, written together with its
\* document: retrieval never mixes two texts, whichever writers overlap.
OneChunkSet ==
    /\ TypeOK
    /\ \A p \in Pages :
           chunks[p] # {} =>
               /\ document[p] # NoDocument
               /\ chunks[p] = {[hash |-> document[p].hash, job |-> document[p].job]}

\* last_ingestion_job_id names a job whose receipt is for the text the document
\* holds: maintenance trusts the pair to tell a committed job from a lost one.
ActiveMatchesReceipt ==
    \A p \in Pages :
        document[p] # NoDocument /\ document[p].job \in Jobs =>
            /\ receipt[document[p].job] # NoReceipt
            /\ p \in DOMAIN receipt[document[p].job]
            /\ HashOf[receipt[document[p].job][p]] = document[p].hash

\* A job writes knowledge at most once: after its receipt neither a retry nor a
\* stale worker of the same job replaces the receipt or installs chunks. A text is
\* replaced only by a writer that had seen this very text when it prepared, or had
\* seen no document at all; and every page a commit has written says what the writer
\* processed, also a page of which only the title or the roles were to change.
CommitInstalls ==
    [][/\ \A j \in Jobs :
              receipt[j] # NoReceipt =>
                 /\ receipt'[j] = receipt[j]
                 /\ \A p \in Pages : \A row \in chunks'[p] \ chunks[p] : row.job # j
       /\ \A w \in Writers : Commit(w) =>
              \A p \in DOMAIN prepared[w].plan :
                 LET plan == prepared[w].plan[p] IN
                 /\ document[p] # NoDocument /\ document'[p].hash # document[p].hash
                       => plan.expected \in {document[p].hash, NoHash}
                 /\ plan.disposition # "unchanged"
                       => /\ document'[p] # NoDocument
                          /\ document'[p].hash = HashOf[prepared[w].content[p]]]_knowledgeVars

\* "A successful commit leaves one chunk set under the document".
CommittedIsIndexed ==
    \A j \in Jobs :
        receipt[j] # NoReceipt => \A p \in DOMAIN receipt[j] : chunks[p] # {}
=============================================================================
