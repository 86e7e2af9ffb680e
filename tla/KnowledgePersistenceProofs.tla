---------------------- MODULE KnowledgePersistenceProofs ----------------------
(***************************************************************************)
(* Proofs about KnowledgePersistence, for any set of pages, jobs, writers  *)
(* and texts.                                                              *)
(*                                                                         *)
(* Everything rests on one step, Commit: the other steps write neither a   *)
(* document nor a receipt. What a commit does to one page follows from     *)
(* three facts about the writer's preparation: it is a plan for the pages  *)
(* of its content (PreparedFields), a page it renames has a document with  *)
(* the text's hash (UnconflictedRename), and its job has no receipt yet.   *)
(***************************************************************************)
EXTENDS KnowledgePersistence, TLAPS

-----------------------------------------------------------------------------
(* Preparations                                                            *)

\* What a possible result of processing a source is: a text for some pages.
LEMMA ContentFields ==
  ASSUME NEW content \in Contents
  PROVE  /\ DOMAIN content \subseteq Pages
         /\ content \in [DOMAIN content -> Reps]
         /\ \A p \in DOMAIN content : content[p] \in Reps /\ HashOf[content[p]] \in Hashes
  BY KnowledgeAssumption

\* What a writer that has prepared holds: a content and a plan for its pages.
LEMMA PreparedFields ==
  ASSUME TypeOK, NEW w \in Writers, prepared[w] # NoPlan
  PROVE  /\ prepared[w].job \in Jobs \union {NoJob}
         /\ prepared[w].content \in Contents
         /\ prepared[w].plan \in [DOMAIN prepared[w].content -> PagePlans]
<1>1. PICK content \in Contents : prepared[w] \in PreparedBy(content)
  BY DEF TypeOK, Preparations
<1> QED
  BY <1>1 DEF PreparedBy

\* A preparation is made for the content it is given.
LEMMA PlanHasType ==
  ASSUME TypeOK, NEW content \in Contents
  PROVE  Plan(content) \in [DOMAIN content -> PagePlans]
<1> SUFFICES ASSUME NEW p \in DOMAIN content
             PROVE  /\ Disposition(p, content[p]) \in Dispositions
                    /\ CurrentHash(p) \in Hashes \union {NoHash}
  BY DEF Plan, PagePlans
<1>1. Disposition(p, content[p]) \in Dispositions
  BY DEF Disposition, Dispositions
<1>2. p \in Pages
  BY ContentFields
<1>3. CurrentHash(p) \in Hashes \union {NoHash}
  BY <1>2 DEF CurrentHash, TypeOK, Documents
<1> QED
  BY <1>1, <1>3

\* A page that a commit only renames has a document, with the hash of the text.
LEMMA UnconflictedRename ==
  ASSUME TypeOK, NEW w \in Writers, prepared[w] # NoPlan,
         NEW p \in DOMAIN prepared[w].content, ~Conflicts(w, p), Renames(w, p)
  PROVE  document[p] # NoDocument /\ document[p].hash = HashOf[prepared[w].content[p]]
<1>1. HashOf[prepared[w].content[p]] \in Hashes
  BY PreparedFields, ContentFields
<1> QED
  BY <1>1, KnowledgeAssumption DEF Conflicts, Renames, CurrentHash

\* A commit leaves a page replaced, renamed or as it was.
LEMMA CommittedPage ==
  ASSUME TypeOK, NEW w \in Writers, Commit(w), NEW p \in Pages
  PROVE  \/ /\ p \in DOMAIN prepared[w].content
            /\ Replaces(w, p)
            /\ document'[p] = [hash |-> HashOf[prepared[w].content[p]],
                               rep |-> prepared[w].content[p], job |-> prepared[w].job]
            /\ chunks'[p] = {[hash |-> HashOf[prepared[w].content[p]],
                              job |-> prepared[w].job]}
         \/ /\ p \in DOMAIN prepared[w].content
            /\ Renames(w, p)
            /\ document[p] \in Documents
            /\ document[p].hash = HashOf[prepared[w].content[p]]
            /\ document'[p] = [document[p] EXCEPT !.rep = prepared[w].content[p]]
            /\ chunks'[p] = chunks[p]
         \/ document'[p] = document[p] /\ chunks'[p] = chunks[p]
<1>1. CASE p \notin DOMAIN prepared[w].content
  BY <1>1 DEF Commit
<1>2. CASE p \in DOMAIN prepared[w].content /\ Replaces(w, p)
  BY <1>2 DEF Commit, WrittenDocument, WrittenChunks
<1>3. CASE p \in DOMAIN prepared[w].content /\ ~Replaces(w, p) /\ Renames(w, p)
  <2>1. document[p] # NoDocument /\ document[p].hash = HashOf[prepared[w].content[p]]
    BY <1>3, UnconflictedRename DEF Commit
  <2>2. document[p] \in Documents
    BY <2>1 DEF TypeOK
  <2> QED
    BY <1>3, <2>1, <2>2 DEF Commit, WrittenDocument, WrittenChunks
<1>4. CASE p \in DOMAIN prepared[w].content /\ ~Replaces(w, p) /\ ~Renames(w, p)
  BY <1>4 DEF Commit, WrittenDocument, WrittenChunks
<1> QED
  BY <1>1, <1>2, <1>3, <1>4

\* The steps that are not commits write no table.
LEMMA OnlyCommitsWrite ==
  ASSUME [Next]_knowledgeVars, ~(\E w \in Writers : Commit(w))
  PROVE  UNCHANGED <<document, chunks, receipt>>
  BY DEF Next, Prepare, Replay, Refuse, RollBack, Discard, knowledgeVars

-----------------------------------------------------------------------------
(* Type correctness                                                        *)

\* The tables and the writers start with their types.
LEMMA TypeInit == Init => TypeOK
<1> SUFFICES ASSUME Init PROVE TypeOK
  OBVIOUS
<1>1. [hash : PendingHashes, rep : {NoRep}, job : {NoJob}] \subseteq Documents
  BY KnowledgeAssumption DEF Documents
<1> QED
  BY <1>1 DEF Init, TypeOK

\* Every step keeps the types.
LEMMA TypeStep == TypeOK /\ [Next]_knowledgeVars => TypeOK'
<1> SUFFICES ASSUME TypeOK, [Next]_knowledgeVars
             PROVE  TypeOK'
  OBVIOUS
<1>1. ASSUME NEW w \in Writers, NEW job \in Jobs \union {NoJob}, NEW content \in Contents,
             Prepare(w, job, content)
      PROVE  TypeOK'
  <2>1. Plan(content) \in [DOMAIN content -> PagePlans]
    BY PlanHasType
  <2> DEFINE new == [job |-> job, content |-> content, plan |-> Plan(content)]
  <2>2. new \in PreparedBy(content)
    BY <2>1 DEF PreparedBy
  <2>3. new \in Preparations
    BY <2>2 DEF Preparations
  <2>4. prepared' = [prepared EXCEPT ![w] = new]
    BY <1>1 DEF Prepare
  <2> HIDE DEF new
  <2> QED
    BY <1>1, <2>3, <2>4 DEF TypeOK, Prepare
<1>2. ASSUME NEW w \in Writers, Commit(w)
      PROVE  TypeOK'
  <2>1. /\ prepared[w] # NoPlan
        /\ prepared[w].job \in Jobs \union {NoJob}
        /\ prepared[w].content \in Contents
    BY <1>2, PreparedFields DEF Commit
  <2>2. \A p \in DOMAIN prepared[w].content :
           prepared[w].content[p] \in Reps /\ HashOf[prepared[w].content[p]] \in Hashes
    BY <2>1, ContentFields
  <2>3. ASSUME NEW p \in Pages
        PROVE  /\ document'[p] \in Documents \union {NoDocument}
               /\ chunks'[p] \in SUBSET ChunkRows
    <3>1. CASE document'[p] = document[p] /\ chunks'[p] = chunks[p]
      BY <3>1 DEF TypeOK
    <3>2. CASE /\ p \in DOMAIN prepared[w].content
               /\ document[p] \in Documents
               /\ document'[p] = [document[p] EXCEPT !.rep = prepared[w].content[p]]
               /\ chunks'[p] = chunks[p]
      BY <2>2, <3>2 DEF TypeOK, Documents
    <3>3. CASE /\ p \in DOMAIN prepared[w].content
               /\ document'[p] = [hash |-> HashOf[prepared[w].content[p]],
                                  rep |-> prepared[w].content[p], job |-> prepared[w].job]
               /\ chunks'[p] = {[hash |-> HashOf[prepared[w].content[p]],
                                 job |-> prepared[w].job]}
      BY <2>1, <2>2, <3>3 DEF Documents, ChunkRows
    <3> QED
      BY <1>2, <3>1, <3>2, <3>3, CommittedPage
  <2>4. document' \in [Pages -> Documents \union {NoDocument}]
    BY <1>2, <2>3 DEF Commit
  <2>5. chunks' \in [Pages -> SUBSET ChunkRows]
    BY <1>2, <2>3 DEF Commit
  <2>6. receipt' \in [Jobs -> Contents \union {NoReceipt}]
    BY <1>2, <2>1 DEF Commit, TypeOK
  <2> QED
    BY <1>2, <2>4, <2>5, <2>6 DEF Commit, TypeOK
<1>3. ASSUME NEW w \in Writers, Discard(w)
      PROVE  TypeOK'
  BY <1>3 DEF Discard, TypeOK
<1>4. ASSUME NEW w \in Writers, Replay(w) \/ Refuse(w) \/ RollBack(w)
      PROVE  TypeOK'
  BY <1>4 DEF Replay, Refuse, RollBack, knowledgeVars, TypeOK
<1>5. CASE UNCHANGED knowledgeVars
  BY <1>5 DEF knowledgeVars, TypeOK
<1> QED
  BY <1>1, <1>2, <1>3, <1>4, <1>5 DEF Next

\* Documents, chunks, receipts and preparations keep their types.
THEOREM TypeCorrect == Spec => []TypeOK
  BY TypeInit, TypeStep, PTL DEF Spec

-----------------------------------------------------------------------------
(* One generation of chunks                                                *)

\* No page has chunks at the start.
LEMMA ChunksInit == Init => OneChunkSet
  BY TypeInit DEF Init, OneChunkSet

\* A commit that replaces a page installs its chunks with its document; any other
\* one leaves the hash, the job and the chunks of the page together.
LEMMA ChunksStep == OneChunkSet /\ [Next]_knowledgeVars => OneChunkSet'
<1> SUFFICES ASSUME OneChunkSet, [Next]_knowledgeVars
             PROVE  OneChunkSet'
  OBVIOUS
<1>1. TypeOK /\ TypeOK'
  BY TypeStep DEF OneChunkSet
<1>2. ASSUME NEW w \in Writers, Commit(w), NEW p \in Pages, chunks'[p] # {}
      PROVE  /\ document'[p] # NoDocument
             /\ chunks'[p] = {[hash |-> document'[p].hash, job |-> document'[p].job]}
  <2>1. CASE document'[p] = document[p] /\ chunks'[p] = chunks[p]
    BY <1>2, <2>1 DEF OneChunkSet
  <2>2. CASE /\ document[p] \in Documents
             /\ document'[p] = [document[p] EXCEPT !.rep = prepared[w].content[p]]
             /\ chunks'[p] = chunks[p]
    <3>1. document[p] # NoDocument
      BY <2>2, KnowledgeAssumption
    <3>2. document'[p].hash = document[p].hash /\ document'[p].job = document[p].job
      BY <2>2 DEF Documents
    <3>3. document'[p] # NoDocument
      <4>1. prepared[w].content \in Contents
        BY <1>1, <1>2, PreparedFields DEF Commit
      <4>2. p \in DOMAIN prepared[w].content => prepared[w].content[p] \in Reps
        BY <4>1, ContentFields
      <4>3. CASE p \in DOMAIN prepared[w].content
        BY <2>2, <4>2, <4>3, KnowledgeAssumption DEF Documents
      <4>4. CASE p \notin DOMAIN prepared[w].content
        BY <1>2, <3>1, <4>4 DEF Commit
      <4> QED
        BY <4>3, <4>4
    <3> QED
      BY <1>2, <2>2, <3>2, <3>3 DEF OneChunkSet
  <2>3. CASE /\ p \in DOMAIN prepared[w].content
             /\ document'[p] = [hash |-> HashOf[prepared[w].content[p]],
                                rep |-> prepared[w].content[p], job |-> prepared[w].job]
             /\ chunks'[p] = {[hash |-> HashOf[prepared[w].content[p]],
                               job |-> prepared[w].job]}
    <3>1. document'[p] # NoDocument
      <4>1. /\ prepared[w].content \in Contents
            /\ prepared[w].job \in Jobs \union {NoJob}
        BY <1>1, <1>2, PreparedFields DEF Commit
      <4>2. prepared[w].content[p] \in Reps /\ HashOf[prepared[w].content[p]] \in Hashes
        BY <2>3, <4>1, ContentFields
      <4> QED
        BY <2>3, <4>1, <4>2, KnowledgeAssumption DEF Documents
    <3> QED
      BY <2>3, <3>1
  <2> QED
    BY <1>1, <1>2, <2>1, <2>2, <2>3, CommittedPage
<1>3. CASE \E w \in Writers : Commit(w)
  BY <1>1, <1>2, <1>3 DEF OneChunkSet
<1>4. CASE ~(\E w \in Writers : Commit(w))
  BY <1>1, <1>4, OnlyCommitsWrite DEF OneChunkSet
<1> QED
  BY <1>3, <1>4

\* Whichever writers overlap, a page shows one generation of chunks, the one
\* written with its document.
THEOREM OneGeneration == Spec => []OneChunkSet
  BY ChunksInit, ChunksStep, PTL DEF Spec

-----------------------------------------------------------------------------
(* Documents and receipts                                                  *)

\* No document names a job at the start.
LEMMA ReceiptInit == Init => ActiveMatchesReceipt
<1> SUFFICES ASSUME Init, NEW p \in Pages, document[p] # NoDocument
             PROVE  document[p].job \notin Jobs
  BY DEF ActiveMatchesReceipt
<1> QED
  BY KnowledgeAssumption DEF Init

\* A commit gives its job the receipt for the text it writes. A document that
\* another job wrote keeps its hash, and that job its receipt: it would have to be
\* the writer's own job, which has no receipt yet.
LEMMA ReceiptStep ==
  TypeOK /\ ActiveMatchesReceipt /\ [Next]_knowledgeVars => ActiveMatchesReceipt'
<1> SUFFICES ASSUME TypeOK, ActiveMatchesReceipt, [Next]_knowledgeVars
             PROVE  ActiveMatchesReceipt'
  OBVIOUS
<1>1. ASSUME NEW w \in Writers, Commit(w),
             NEW p \in Pages, document'[p] # NoDocument, document'[p].job \in Jobs
      PROVE  /\ receipt'[document'[p].job] # NoReceipt
             /\ p \in DOMAIN receipt'[document'[p].job]
             /\ HashOf[receipt'[document'[p].job][p]] = document'[p].hash
  <2>1. /\ prepared[w].content \in Contents
        /\ ~Committed(w)
        /\ \A j \in Jobs :
              receipt'[j] = IF j = prepared[w].job THEN prepared[w].content ELSE receipt[j]
    BY <1>1, PreparedFields DEF Commit
  <2>2. ASSUME document[p] # NoDocument, document'[p].job = document[p].job,
               document'[p].hash = document[p].hash
        PROVE  /\ receipt'[document'[p].job] # NoReceipt
               /\ p \in DOMAIN receipt'[document'[p].job]
               /\ HashOf[receipt'[document'[p].job][p]] = document'[p].hash
    <3>1. document[p].job # prepared[w].job
      BY <1>1, <2>1, <2>2, KnowledgeAssumption DEF ActiveMatchesReceipt, Committed
    <3> QED
      BY <1>1, <2>1, <2>2, <3>1 DEF ActiveMatchesReceipt
  <2>3. CASE document'[p] = document[p] /\ chunks'[p] = chunks[p]
    BY <1>1, <2>2, <2>3
  <2>4. CASE /\ document[p] \in Documents
             /\ document'[p] = [document[p] EXCEPT !.rep = prepared[w].content[p]]
    <3>1. document[p] # NoDocument
      BY <2>4, KnowledgeAssumption
    <3>2. document'[p].hash = document[p].hash /\ document'[p].job = document[p].job
      BY <2>4 DEF Documents
    <3> QED
      BY <2>2, <3>1, <3>2
  <2>5. CASE /\ p \in DOMAIN prepared[w].content
             /\ document'[p] = [hash |-> HashOf[prepared[w].content[p]],
                                rep |-> prepared[w].content[p], job |-> prepared[w].job]
    BY <1>1, <2>1, <2>5, KnowledgeAssumption
  <2> QED
    BY <1>1, <2>3, <2>4, <2>5, CommittedPage
<1>2. CASE \E w \in Writers : Commit(w)
  BY <1>1, <1>2 DEF ActiveMatchesReceipt
<1>3. CASE ~(\E w \in Writers : Commit(w))
  BY <1>3, OnlyCommitsWrite DEF ActiveMatchesReceipt
<1> QED
  BY <1>2, <1>3

\* The job a document names has committed the very text the document holds.
THEOREM ReceiptsMatch == Spec => []ActiveMatchesReceipt
  BY TypeCorrect, ReceiptInit, ReceiptStep, PTL DEF Spec

-----------------------------------------------------------------------------
(* What a commit may do                                                    *)

\* A job that has its receipt keeps it, and gets no new chunks: the transaction
\* looks for the receipt first.
LEMMA WritesOnce ==
  ASSUME TypeOK, [Next]_knowledgeVars, NEW j \in Jobs, receipt[j] # NoReceipt
  PROVE  /\ receipt'[j] = receipt[j]
         /\ \A p \in Pages : \A row \in chunks'[p] \ chunks[p] : row.job # j
<1>1. ASSUME NEW w \in Writers, Commit(w)
      PROVE  /\ receipt'[j] = receipt[j]
             /\ \A p \in Pages : \A row \in chunks'[p] \ chunks[p] : row.job # j
  <2>1. j # prepared[w].job
    BY <1>1, KnowledgeAssumption DEF Commit, Committed
  <2>2. receipt'[j] = receipt[j]
    BY <1>1, <2>1 DEF Commit
  <2>3. ASSUME NEW p \in Pages, NEW row \in chunks'[p] \ chunks[p]
        PROVE  row.job # j
    <3>1. \/ chunks'[p] = chunks[p]
          \/ chunks'[p] = {[hash |-> HashOf[prepared[w].content[p]],
                            job |-> prepared[w].job]}
      BY <1>1, CommittedPage
    <3> QED
      BY <2>1, <2>3, <3>1
  <2> QED
    BY <2>2, <2>3
<1>2. CASE \E w \in Writers : Commit(w)
  BY <1>1, <1>2
<1>3. CASE ~(\E w \in Writers : Commit(w))
  BY <1>3, OnlyCommitsWrite
<1> QED
  BY <1>2, <1>3

\* A commit changes a hash only where the writer saw that hash or no document, and
\* leaves the text it processed on every page its plan does not call unchanged.
LEMMA WritesWhatWasPrepared ==
  ASSUME TypeOK, TypeOK', NEW w \in Writers, Commit(w), NEW p \in DOMAIN prepared[w].plan
  PROVE  LET plan == prepared[w].plan[p] IN
         /\ document[p] # NoDocument /\ document'[p].hash # document[p].hash
               => plan.expected \in {document[p].hash, NoHash}
         /\ plan.disposition # "unchanged"
               => /\ document'[p] # NoDocument
                  /\ document'[p].hash = HashOf[prepared[w].content[p]]
<1> DEFINE plan == prepared[w].plan[p]
           rep == prepared[w].content[p]
<1>1. /\ prepared[w].content \in Contents
      /\ p \in DOMAIN prepared[w].content
      /\ plan \in PagePlans
      /\ prepared[w].job \in Jobs \union {NoJob}
  BY PreparedFields DEF Commit
<1>2. p \in Pages /\ rep \in Reps /\ HashOf[rep] \in Hashes
  BY <1>1, ContentFields
<1>3. ~Conflicts(w, p) /\ document'[p] = WrittenDocument(w, p)
  BY <1>1, <1>2 DEF Commit
<1>4. CASE Replaces(w, p)
  <2>1. document'[p] = [hash |-> HashOf[rep], rep |-> rep, job |-> prepared[w].job]
    BY <1>3, <1>4 DEF WrittenDocument
  <2>2. document'[p] \in Documents
    BY <1>1, <1>2, <2>1 DEF Documents
  <2>3. document[p] # NoDocument => plan.expected \in {document[p].hash, NoHash}
    BY <1>3, <1>4 DEF Conflicts, Replaces
  <2> QED
    BY <2>1, <2>2, <2>3, KnowledgeAssumption
<1>5. CASE ~Replaces(w, p) /\ Renames(w, p)
  <2>1. document[p] # NoDocument /\ document[p].hash = HashOf[rep]
    BY <1>1, <1>3, <1>5, UnconflictedRename DEF Commit
  <2>2. document[p] \in Documents
    BY <1>2, <2>1 DEF TypeOK
  <2>3. document'[p] = [document[p] EXCEPT !.rep = rep]
    BY <1>3, <1>5 DEF WrittenDocument
  <2>4. document'[p] \in Documents /\ document'[p].hash = document[p].hash
    BY <1>2, <2>2, <2>3 DEF Documents
  <2> QED
    BY <2>1, <2>4, KnowledgeAssumption
<1>6. CASE ~Replaces(w, p) /\ ~Renames(w, p)
  <2>1. document'[p] = document[p]
    BY <1>3, <1>6 DEF WrittenDocument
  <2>2. plan.disposition # "unchanged" => plan.disposition = "replace"
    BY <1>1, <1>6 DEF PagePlans, Dispositions, Renames
  <2>3. plan.disposition = "replace" => CurrentHash(p) = HashOf[rep]
    BY <1>6 DEF Replaces
  <2>4. CurrentHash(p) = HashOf[rep] => document[p] # NoDocument /\ document[p].hash = HashOf[rep]
    BY <1>2, KnowledgeAssumption DEF CurrentHash
  <2> QED
    BY <2>1, <2>2, <2>3, <2>4
<1> QED
  BY <1>4, <1>5, <1>6

\* A job writes knowledge at most once, replaces only a text its writer had seen,
\* and leaves behind what it processed.
THEOREM CommitsInstall == Spec => CommitInstalls
<1> DEFINE WritesOnceStep ==
             \A j \in Jobs :
                receipt[j] # NoReceipt =>
                   /\ receipt'[j] = receipt[j]
                   /\ \A p \in Pages : \A row \in chunks'[p] \ chunks[p] : row.job # j
           WhatWasPrepared(w) ==
             \A p \in DOMAIN prepared[w].plan :
                LET plan == prepared[w].plan[p] IN
                /\ document[p] # NoDocument /\ document'[p].hash # document[p].hash
                      => plan.expected \in {document[p].hash, NoHash}
                /\ plan.disposition # "unchanged"
                      => /\ document'[p] # NoDocument
                         /\ document'[p].hash = HashOf[prepared[w].content[p]]
<1>1. TypeOK /\ [Next]_knowledgeVars => TypeOK'
  BY TypeStep
<1>2. TypeOK /\ [Next]_knowledgeVars => WritesOnceStep
  BY WritesOnce
<1>3. TypeOK /\ TypeOK' => \A w \in Writers : Commit(w) => WhatWasPrepared(w)
  BY WritesWhatWasPrepared
<1>4. TypeOK /\ [Next]_knowledgeVars =>
        [WritesOnceStep /\ \A w \in Writers : Commit(w) => WhatWasPrepared(w)]_knowledgeVars
  BY <1>1, <1>2, <1>3
<1> QED
  BY <1>4, TypeCorrect, PTL DEF Spec, CommitInstalls
=============================================================================
