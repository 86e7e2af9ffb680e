------------------------ MODULE FileIngestionProofs ------------------------
(***************************************************************************)
(* What FileIngestion keeps, for any documents, threads, sweepers, keys    *)
(* and batch sizes; and what TextChunking, which cuts the text of a file   *)
(* (or of a web page), makes of any page under any setting.                *)
(*                                                                         *)
(* FileInv adds to the types why nothing is lost between the steps of an   *)
(* upload and of a sweep. A thread's upload is too young to be swept, so   *)
(* the file that Unlink deletes, found unreferenced a step earlier, is not *)
(* one that a submission can register meanwhile (FilesKept, SweepSound).   *)
(* A submission that replaces a document found no active job and queues a  *)
(* new one (FindingSound). The stored answer of a key is there for as long *)
(* as anyone has been given it (AnswersStored).                            *)
(*                                                                         *)
(* Chunking. A text is known by its letters, in order, and each stage by   *)
(* the letters it has used: pieces of a paragraph (WellCut, by recursion   *)
(* over its fragments), units under the headings of their blocks           *)
(* (ListSound), packed chunks (PassageList). LoopSound is what the loop    *)
(* over short chunks keeps; its hard part is Told, that a chunk behind the *)
(* loop has in it a character of the path it carries which no later step   *)
(* takes away from it. Contextual is a passage after the end of another.   *)
(***************************************************************************)
EXTENDS FileIngestion, TextChunking,
        FiniteSetTheorems, SequenceTheorems, WellFoundedInduction, TLAPS

-----------------------------------------------------------------------------
(* The inductive invariant                                                 *)

LookStates == [at : {"look"}, request : Requests, file : Files, tries : 0 .. 1]
WriteStates ==
    [at : {"write"}, request : Requests, file : Files, tries : 0 .. 1,
     kind : {"match", "new", "modified"}, doc : Docs, job : Jobs \union {0}]
ThreadStates == {Idle} \union LookStates \union WriteStates

Reasons == {"lock_unavailable", "no_candidates", "batch_exhausted", "max_batches_reached",
            "process_error"}
Ended == [at : {"done"}, reason : Reasons, due : SUBSET Files, spared : SUBSET Files]
BatchStates ==
    [at : {"batch"}, due : SUBSET Files, spared : SUBSET Files,
     cursor : 0 .. MaxFiles, batches : Nat]
FileStates ==
    [at : {"files", "unlink"}, due : SUBSET Files, spared : SUBSET Files,
     cursor : 0 .. MaxFiles, batches : Nat, todo : SUBSET Files, batch : SUBSET Files]
SweepStates == {Idle} \union Ended \union BatchStates \union FileStates

TypeInv ==
    /\ TypeOK
    /\ nextJob \in Nat \ {0}
    /\ nextFile \in Nat \ {0}
    /\ old \subseteq Files
    /\ thread \in [Threads -> ThreadStates]
    /\ sweep \in [Sweepers -> SweepStates]

\* The upload of a request is on disk and young, that of a document on disk.
FilesKept ==
    /\ \A f \in disk \union old : f < nextFile
    /\ \A t \in Threads : thread[t].at # "idle" => thread[t].file \in disk \ old
    /\ \A d \in Docs : docs[d] # None /\ docs[d].file # NoFile => docs[d].file \in disk

\* What Look found and Write relies on.
FindingSound(t) ==
    thread[t].at = "write" =>
        IF thread[t].kind = "match" THEN docs[thread[t].doc] # None ELSE thread[t].job = 0

JobsHaveDocs == \A j \in Jobs : IsJob(j) => docs[jobs[j].doc] # None

\* A file behind the current batch, of which there are none behind the last one.
Later(f, batch) == ~IsLastBatch(batch) /\ \A g \in batch : g < f

\* How far a sweep has come with the files that were due at its start.
SweepSound(m) ==
    /\ sweep[m].at # "idle" => sweep[m].due \subseteq old
    /\ sweep[m].at = "batch" =>
          \A f \in sweep[m].due \intersect disk : f <= sweep[m].cursor => f \in sweep[m].spared
    /\ sweep[m].at \in {"files", "unlink"} =>
          /\ sweep[m].todo \subseteq sweep[m].batch
          /\ sweep[m].batch \subseteq sweep[m].due
          /\ sweep[m].batch # {}
          /\ \A f \in sweep[m].due \intersect disk :
                f \in sweep[m].spared \union sweep[m].todo \/ Later(f, sweep[m].batch)
    /\ sweep[m].at = "unlink" => sweep[m].todo # {} /\ ~Referenced(Min(sweep[m].todo))
    /\ sweep[m].at = "done" /\ sweep[m].reason \in {"no_candidates", "batch_exhausted"} =>
          sweep[m].due \intersect disk \subseteq sweep[m].spared

AnswersStored ==
    \A x \in answers :
        /\ x.key \in Keys
        /\ requests[x.key] # None
        /\ requests[x.key] = [content |-> x.content, force |-> x.force, decision |-> x.decision]

FileInv ==
    /\ TypeInv
    /\ FilesKept
    /\ \A t \in Threads : FindingSound(t)
    /\ JobsHaveDocs
    /\ \A m \in Sweepers : SweepSound(m)
    /\ AnswersStored

-----------------------------------------------------------------------------
(* Smallest and largest elements                                           *)

\* A set of naturals that is not empty has a smallest element.
LEMMA MinElement ==
  ASSUME NEW S \in SUBSET Nat, S # {}
  PROVE  Min(S) \in S /\ \A x \in S : Min(S) <= x
<1> DEFINE R == OpToRel(<, Nat)
<1>1. IsWellFoundedOn(R, Nat)
  BY NatLessThanWellFounded
<1>2. \A y, x \in Nat : y < x => <<y, x>> \in R
  BY DEF OpToRel
<1> HIDE DEF R
<1>3. \E x \in S : \A y \in S : ~(<<y, x>> \in R)
  BY <1>1, WFMin
<1>4. PICK x \in S : \A y \in S : ~(<<y, x>> \in R)
  BY <1>3
<1>5. \A y \in S : ~(y < x)
  BY <1>2, <1>4
<1>6. \A y \in S : x <= y
  BY <1>5
<1> QED
  BY <1>6 DEF Min

\* One that is bounded has a largest.
LEMMA MaxElement ==
  ASSUME NEW n \in Nat, NEW S \in SUBSET (1 .. n), S # {}
  PROVE  Max(S) \in S /\ \A x \in S : x <= Max(S)
<1> DEFINE T == {n - x : x \in S}
<1>1. \A x \in S : x \in Nat /\ n - x \in Nat /\ n - x \in T
  OBVIOUS
<1>2. T \in SUBSET Nat /\ T # {}
  BY <1>1
<1>3. Min(T) \in T /\ \A z \in T : Min(T) <= z
  BY <1>2, MinElement
<1>4. PICK x \in S : Min(T) = n - x
  BY <1>3
<1>5. \A y \in S : n - x <= n - y
  BY <1>1, <1>3, <1>4
<1>6. \A y \in S : y <= x
  BY <1>1, <1>5
<1> QED
  BY <1>6 DEF Max

Below(f, S) == {g \in S : g < f}

\* A finite set has finitely many elements below one of them.
LEMMA BelowFinite ==
  ASSUME NEW S, IsFiniteSet(S), NEW f
  PROVE  IsFiniteSet(Below(f, S)) /\ Cardinality(Below(f, S)) \in Nat
<1>1. Below(f, S) \in SUBSET S
  BY DEF Below
<1> QED
  BY <1>1, FS_Subset, FS_CardinalityType

\* A batch holds the first candidates, and all of them if it is not full.
LEMMA BatchOfSmallest ==
  ASSUME NEW S \in SUBSET Files
  PROVE  /\ Smallest(BatchSize, S) \subseteq S
         /\ S # {} => Smallest(BatchSize, S) # {}
         /\ \A f \in S \ Smallest(BatchSize, S) : Later(f, Smallest(BatchSize, S))
<1> DEFINE B == Smallest(BatchSize, S)
<1>1. BatchSize \in Nat \ {0} /\ MaxFiles \in Nat
  BY FileAssumption
<1>2. IsFiniteSet(Files) /\ Files \in SUBSET Nat
  BY <1>1, FS_Interval DEF Files
<1>3. IsFiniteSet(S) /\ S \in SUBSET Nat
  BY <1>2, FS_Subset
<1>4. B = {f \in S : Cardinality(Below(f, S)) < BatchSize}
  BY DEF Smallest, Below
<1> HIDE DEF B
<1>5. IsFiniteSet(B) /\ Cardinality(B) \in Nat /\ B \in SUBSET S
  BY <1>3, <1>4, FS_Subset, FS_CardinalityType
<1>6. ASSUME NEW f \in S \ B, NEW g \in B PROVE g < f
  <2>1. SUFFICES ASSUME f <= g PROVE FALSE
    BY <1>3, <1>5
  <2>2. \A x \in S : x < f => x < g
    <3>1. f \in Nat /\ g \in Nat /\ f <= g
      BY <1>3, <1>5, <2>1
    <3>2. ASSUME NEW x \in S PROVE x \in Nat
      BY <1>3
    <3> QED
      BY <3>1, <3>2
  <2>3. Below(f, S) \in SUBSET Below(g, S)
    BY <2>2 DEF Below
  <2>4. Cardinality(Below(f, S)) <= Cardinality(Below(g, S))
    BY <1>3, <2>3, BelowFinite, FS_Subset
  <2>5. Cardinality(Below(g, S)) < BatchSize /\ ~(Cardinality(Below(f, S)) < BatchSize)
    BY <1>4
  <2> QED
    BY <1>1, <1>3, <2>4, <2>5, BelowFinite
<1>7. ASSUME S \ B # {} PROVE ~(Cardinality(B) < BatchSize)
  <2>1. S \ B \in SUBSET Nat
    BY <1>3
  <2>2. PICK f \in S \ B : \A g \in S \ B : f <= g
    BY <1>7, <2>1, MinElement
  <2>3. Below(f, S) \in SUBSET B
    <3>1. ASSUME NEW x \in S, x < f PROVE x \in B
      <4>1. x \in Nat /\ f \in Nat /\ ~(f <= x)
        BY <1>3, <3>1
      <4> QED
        BY <2>2, <4>1
    <3> QED
      BY <3>1 DEF Below
  <2>4. Cardinality(Below(f, S)) <= Cardinality(B)
    BY <1>5, <2>3, FS_Subset
  <2>5. ~(Cardinality(Below(f, S)) < BatchSize)
    BY <1>4
  <2> QED
    BY <1>1, <1>3, <1>5, <2>4, <2>5, BelowFinite
<1>8. ASSUME S # {} PROVE B # {}
  <2>1. B = {} => Cardinality(B) = 0
    BY FS_EmptySet
  <2> QED
    BY <1>1, <1>7, <1>8, <2>1
<1> QED
  BY <1>5, <1>6, <1>7, <1>8 DEF Later, IsLastBatch, B

-----------------------------------------------------------------------------
(* Types                                                                   *)

\* What a thread at each place of its request holds.
LEMMA ThreadFields ==
  ASSUME TypeInv, NEW t \in Threads
  PROVE  /\ thread[t] \in ThreadStates
         /\ thread[t].at = "look" => thread[t] \in LookStates
         /\ thread[t].at = "write" => thread[t] \in WriteStates
         /\ thread[t].at \in {"idle", "look", "write"}
         /\ thread[t].at = "idle" <=> thread[t] = Idle
         /\ thread[t].at # "idle" => thread[t].request \in Requests /\ thread[t].file \in Files
<1>1. thread[t] \in ThreadStates
  BY DEF TypeInv
<1> QED
  BY <1>1 DEF ThreadStates, LookStates, WriteStates, Idle

\* What a request asks for.
LEMMA RequestFields ==
  ASSUME NEW r \in Requests
  PROVE  /\ r.content \in Contents /\ r.roles \in Roles /\ r.doc \in Docs \union {NoDoc}
         /\ r.force \in BOOLEAN /\ r.key \in Keys \union {NoKey}
  BY FileAssumption

\* What a row of each table holds.
LEMMA RowFields ==
  ASSUME TypeInv
  PROVE  /\ \A d \in Docs : docs[d] # None <=> docs[d] \in DocRows
         /\ \A j \in Jobs : IsJob(j) <=> jobs[j] \in JobRows
         /\ \A k \in Keys : requests[k] # None <=> requests[k] \in RequestRows
  BY FileAssumption DEF TypeInv, TypeOK, IsJob

\* What a maintenance process holds.
LEMMA SweepFields ==
  ASSUME TypeInv, NEW m \in Sweepers
  PROVE  /\ sweep[m] \in SweepStates
         /\ sweep[m].at \in {"idle", "done", "batch", "files", "unlink"}
         /\ sweep[m].at = "batch" => sweep[m] \in BatchStates
         /\ sweep[m].at \in {"files", "unlink"} => sweep[m] \in FileStates
         /\ sweep[m].at = "done" => sweep[m] \in Ended
<1>1. sweep[m] \in SweepStates
  BY DEF TypeInv
<1> QED
  BY <1>1 DEF SweepStates, Ended, BatchStates, FileStates, Idle

\* The job that a match leads to.
LEMMA JobForMatchTyped ==
  ASSUME NEW d, NEW force
  PROVE  JobForMatch(d, force) \in Jobs \union {0}
<1> DEFINE active == {j \in JobsOf(d) : jobs[j].status \in Active}
<1>1. JobsOf(d) \in SUBSET (1 .. MaxJobs) /\ active \in SUBSET (1 .. MaxJobs) /\ MaxJobs \in Nat
  BY FileAssumption DEF JobsOf, Jobs
<1>2. /\ JobsOf(d) # {} => Max(JobsOf(d)) \in Jobs
      /\ active # {} => Max(active) \in Jobs
  BY <1>1, MaxElement DEF Jobs
<1> QED
  BY <1>2 DEF JobForMatch

TablesTyped ==
    /\ docs' \in [Docs -> DocRows \union {None}]
    /\ jobs' \in [Jobs -> JobRows \union {None}]
    /\ requests' \in [Keys -> RequestRows \union {None}]
    /\ results' \subseteq Jobs
    /\ nextJob' \in Nat \ {0}

UploadsTyped == disk' \subseteq Files /\ nextFile' \in Nat \ {0} /\ old' \subseteq Files

ThreadsTyped == thread' \in [Threads -> ThreadStates]

SweepsTyped == lock' \in Sweepers \union {Nobody} /\ sweep' \in [Sweepers -> SweepStates]

\* Types are kept part by part, and by what does not change.
LEMMA TypeParts ==
  ASSUME TypeInv
  PROVE  /\ TablesTyped /\ UploadsTyped /\ ThreadsTyped /\ SweepsTyped => TypeInv'
         /\ UNCHANGED tables => TablesTyped
         /\ UNCHANGED uploads => UploadsTyped
         /\ UNCHANGED thread => ThreadsTyped
         /\ UNCHANGED sweepVars => SweepsTyped
<1>1. TablesTyped /\ UploadsTyped /\ ThreadsTyped /\ SweepsTyped => TypeInv'
  BY DEF TypeInv, TypeOK, TablesTyped, UploadsTyped, ThreadsTyped, SweepsTyped
<1>2. (UNCHANGED tables => TablesTyped) /\ (UNCHANGED uploads => UploadsTyped)
  BY DEF TypeInv, TypeOK, tables, uploads, TablesTyped, UploadsTyped
<1>3. (UNCHANGED thread => ThreadsTyped) /\ (UNCHANGED sweepVars => SweepsTyped)
  BY DEF TypeInv, TypeOK, sweepVars, ThreadsTyped, SweepsTyped
<1> QED
  BY <1>1, <1>2, <1>3

\* A request that ends or goes on.
LEMMA ThreadTyped ==
  ASSUME TypeInv, NEW t \in Threads, NEW x \in ThreadStates,
         \/ Return(t)
         \/ \E request, decision : Answer(t, request, decision)
         \/ thread' = [thread EXCEPT ![t] = x]
  PROVE  ThreadsTyped
<1>1. Idle \in ThreadStates
  BY DEF ThreadStates
<1>2. PICK y \in ThreadStates : thread' = [thread EXCEPT ![t] = y]
  BY <1>1 DEF Return, Answer
<1> QED
  BY <1>2 DEF TypeInv, ThreadsTyped

\* The upload handler keeps the types.
LEMMA UploadTyped ==
  ASSUME TypeInv, NEW t \in Threads, Upload(t)
  PROVE  TypeInv'
<1>1. ASSUME NEW r \in Requests, WriteUpload(t, r) PROVE TypeInv'
  <2>1. [at |-> "look", request |-> r, file |-> nextFile, tries |-> 0] \in ThreadStates
    BY <1>1 DEF WriteUpload, ThreadStates, LookStates
  <2>2. ThreadsTyped
    BY <1>1, <2>1, ThreadTyped DEF WriteUpload
  <2>3. UploadsTyped
    BY <1>1 DEF WriteUpload, TypeInv, TypeOK, UploadsTyped
  <2> QED
    BY <1>1, <2>2, <2>3, TypeParts DEF WriteUpload
<1>2. ASSUME FailFingerprint(t) PROVE TypeInv'
  BY <1>2, ThreadTyped, ThreadFields, TypeParts DEF FailFingerprint
<1>3. ASSUME Look(t) PROVE TypeInv'
  <2>1. PICK x : x = thread[t] /\ x \in LookStates /\ x.request \in Requests
    BY <1>3, ThreadFields DEF Look, LookStates
  <2>2. ASSUME NEW kind \in {"match", "new", "modified"}, NEW d \in Docs,
               NEW j \in Jobs \union {0}
        PROVE  [at |-> "write", request |-> x.request, file |-> x.file, tries |-> x.tries,
                kind |-> kind, doc |-> d, job |-> j] \in ThreadStates
    BY <2>1 DEF ThreadStates, LookStates, WriteStates
  <2>3. \/ Return(t)
        \/ \E request, decision : Answer(t, request, decision)
        \/ \E kind \in {"match", "new", "modified"}, d \in Docs, j \in Jobs \union {0} :
              thread' = [thread EXCEPT ![t] =
                           [at |-> "write", request |-> x.request, file |-> x.file,
                            tries |-> x.tries, kind |-> kind, doc |-> d, job |-> j]]
    <3>1. x.request.doc # NoDoc => x.request.doc \in Docs
      BY <2>1, RequestFields
    <3> QED
      BY <1>3, <2>1, <3>1, JobForMatchTyped DEF Look, Matches
  <2>4. ThreadsTyped
    BY <2>2, <2>3, ThreadTyped, ThreadFields
  <2> QED
    BY <1>3, <2>4, TypeParts DEF Look
<1>4. ASSUME Write(t) PROVE TypeInv'
  <2>1. PICK w : w = thread[t] /\ w \in WriteStates
    BY <1>4, ThreadFields DEF Write
  <2>2. PICK r \in Requests : r = w.request
    BY <2>1 DEF WriteStates
  <2>3. [at |-> "look", request |-> r, file |-> w.file, tries |-> 1] \in ThreadStates
    BY <2>1, <2>2 DEF ThreadStates, LookStates, WriteStates
  <2>4. ThreadsTyped
    BY <1>4, <2>1, <2>2, <2>3, ThreadTyped DEF Write
  <2>5. TablesTyped
    <3>1. CASE UNCHANGED tables
      BY <3>1, TypeParts
    <3>2. CASE ~UNCHANGED tables
      <4>1. PICK j \in Jobs :
               /\ j = IF w.job = 0 THEN nextJob ELSE w.job
               /\ docs' = IF w.kind = "match" THEN docs
                          ELSE [docs EXCEPT ![w.doc] =
                                  [content |-> r.content, roles |-> r.roles, file |-> w.file,
                                   last |-> IF docs[w.doc] = None THEN 0 ELSE docs[w.doc].last]]
               /\ jobs' = IF w.job # 0 THEN jobs
                          ELSE [jobs EXCEPT ![j] = [doc |-> w.doc, status |-> "queued",
                                                    content |-> r.content]]
               /\ nextJob' = IF w.job # 0 THEN nextJob ELSE nextJob + 1
               /\ requests' = IF r.key = NoKey THEN requests
                              ELSE [requests EXCEPT ![r.key] =
                                      [content |-> r.content, force |-> r.force,
                                       decision |-> [doc |-> w.doc, job |-> j]]]
               /\ UNCHANGED results
        BY <1>4, <2>1, <2>2, <3>2 DEF Write, WriteStates
      <4>2. [content |-> r.content, roles |-> r.roles, file |-> w.file,
             last |-> IF docs[w.doc] = None THEN 0 ELSE docs[w.doc].last] \in DocRows
        <5>1. docs[w.doc] # None => docs[w.doc].last \in Jobs \union {0}
          BY <2>1, RowFields DEF DocRows, WriteStates
        <5> QED
          BY <2>1, <2>2, <5>1, RequestFields DEF DocRows, WriteStates
      <4>3. /\ [doc |-> w.doc, status |-> "queued", content |-> r.content] \in JobRows
            /\ [content |-> r.content, force |-> r.force,
                decision |-> [doc |-> w.doc, job |-> j]] \in RequestRows
        BY <2>1, <2>2, RequestFields DEF JobRows, Active, RequestRows, WriteStates
      <4>4. r.key # NoKey => r.key \in Keys
        BY <2>2, RequestFields
      <4>5. docs' \in [Docs -> DocRows \union {None}]
        BY <2>1, <4>1, <4>2 DEF TypeInv, TypeOK, WriteStates
      <4>6. jobs' \in [Jobs -> JobRows \union {None}]
        BY <4>1, <4>3 DEF TypeInv, TypeOK
      <4>7. requests' \in [Keys -> RequestRows \union {None}]
        BY <4>1, <4>3, <4>4 DEF TypeInv, TypeOK
      <4>8. nextJob' \in Nat \ {0} /\ results' \subseteq Jobs
        BY <4>1 DEF TypeInv, TypeOK
      <4> QED
        BY <4>5, <4>6, <4>7, <4>8 DEF TablesTyped
    <3> QED
      BY <3>1, <3>2
  <2> QED
    BY <1>4, <2>4, <2>5, TypeParts DEF Write
<1> QED
  BY <1>1, <1>2, <1>3, <1>4 DEF Upload

\* So do the jobs and their retention.
LEMMA WorkTyped ==
  ASSUME TypeInv, JobsHaveDocs, NEW j \in Jobs, Work(j)
  PROVE  TypeInv'
<1>1. PICK row : row = jobs[j]
  OBVIOUS
<1>2. row \in JobRows
  BY <1>1, RowFields DEF Work, StartJob, CompleteJob, FailJob, RetireJob
<1>3. \A status \in Active \union {"completed", "failed"} :
         [row EXCEPT !.status = status] \in JobRows
  BY <1>2 DEF JobRows
<1>4. jobs' \in [Jobs -> JobRows \union {None}]
  <2>1. \/ \E status \in Active \union {"completed", "failed"} :
              jobs' = [jobs EXCEPT ![j] = [row EXCEPT !.status = status]]
        \/ jobs' = [jobs EXCEPT ![j] = None]
    BY <1>1 DEF Work, StartJob, CompleteJob, FailJob, RetireJob, Active
  <2> QED
    BY <1>3, <2>1 DEF TypeInv, TypeOK
<1>5. docs' \in [Docs -> DocRows \union {None}]
  <2>1. CASE CompleteJob(j)
    <3>1. PICK d \in Docs : d = row.doc
      BY <1>2 DEF JobRows
    <3>2. docs' = [docs EXCEPT ![d] = [docs[d] EXCEPT !.last = j]]
      BY <1>1, <2>1, <3>1 DEF CompleteJob
    <3>3. [docs[d] EXCEPT !.last = j] \in DocRows
      <4>1. docs[d] \in DocRows
        BY <1>1, <2>1, <3>1, RowFields DEF CompleteJob, JobsHaveDocs
      <4> QED
        BY <4>1 DEF DocRows
    <3> QED
      BY <3>2, <3>3 DEF TypeInv, TypeOK
  <2>2. CASE ~CompleteJob(j)
    BY <2>2 DEF Work, StartJob, FailJob, RetireJob, TypeInv, TypeOK
  <2> QED
    BY <2>1, <2>2
<1>6. requests' \in [Keys -> RequestRows \union {None}]
  BY DEF Work, StartJob, CompleteJob, FailJob, RetireJob, TypeInv, TypeOK
<1>7. results' \subseteq Jobs /\ nextJob' \in Nat \ {0}
  BY DEF Work, StartJob, CompleteJob, FailJob, RetireJob, TypeInv, TypeOK
<1> QED
  BY <1>4, <1>5, <1>6, <1>7, TypeParts
     DEF TablesTyped, Work, StartJob, CompleteJob, FailJob, RetireJob

\* And the maintenance.
LEMMA SweepTyped ==
  ASSUME TypeInv, NEW m \in Sweepers, SweepSound(m), Sweep(m)
  PROVE  TypeInv'
<1>1. PICK s : s = sweep[m] /\ s \in SweepStates
  BY DEF TypeInv
<1>2. ASSUME NEW x \in SweepStates, SweepTo(m, x), lock' \in Sweepers \union {Nobody}
      PROVE  SweepsTyped
  BY <1>2 DEF SweepTo, TypeInv, SweepsTyped
<1>3. ASSUME NEW reason \in Reasons, EndSweep(m, reason), s.at \in {"batch", "files"}
      PROVE  SweepsTyped
  <2>1. [at |-> "done", reason |-> reason, due |-> s.due, spared |-> s.spared] \in SweepStates
    BY <1>1, <1>3 DEF SweepStates, Ended, Idle, BatchStates, FileStates
  <2> QED
    BY <1>1, <1>2, <1>3, <2>1 DEF EndSweep
<1>4. ASSUME StartSweep(m) PROVE SweepsTyped
  <2>1. /\ [at |-> "batch", due |-> old \intersect disk, spared |-> {}, cursor |-> 0,
            batches |-> 0] \in SweepStates
        /\ [at |-> "done", reason |-> "lock_unavailable", due |-> {}, spared |-> {}]
              \in SweepStates
    BY FileAssumption DEF TypeInv, TypeOK, SweepStates, Ended, BatchStates, Reasons
  <2> QED
    BY <1>2, <1>4, <2>1 DEF StartSweep, TypeInv, TypeOK
<1>5. ASSUME NextBatch(m) PROVE SweepsTyped
  <2>1. PICK candidates :
           candidates = Smallest(BatchSize, {f \in s.due \intersect disk : f > s.cursor})
    OBVIOUS
  <2>2. s \in BatchStates
    BY <1>1, <1>5, SweepFields DEF NextBatch, Reasons
  <2>3. candidates \in SUBSET Files
    BY <2>1, <2>2 DEF Smallest, BatchStates
  <2>4. [at |-> "files", due |-> s.due, spared |-> s.spared, cursor |-> s.cursor,
         batches |-> s.batches, todo |-> candidates, batch |-> candidates] \in SweepStates
    BY <2>2, <2>3 DEF BatchStates, SweepStates, FileStates
  <2>5. CASE EndSweep(m, "no_candidates")
    BY <1>1, <1>3, <1>5, <2>5 DEF NextBatch, Reasons
  <2>6. CASE ~EndSweep(m, "no_candidates")
    BY <1>1, <1>2, <1>5, <2>1, <2>4, <2>6 DEF NextBatch, TypeInv, TypeOK
  <2> QED
    BY <2>5, <2>6
<1>6. ASSUME CheckFile(m) PROVE SweepsTyped
  <2>1. s \in FileStates
    BY <1>1, <1>6, SweepFields DEF CheckFile, Reasons
  <2>2. Min(s.todo) \in Files
    BY <1>1, <1>6, <2>1, MinElement DEF CheckFile, FileStates, Files
  <2>3. /\ [s EXCEPT !.todo = @ \ {Min(s.todo)}, !.spared = @ \union {Min(s.todo)}] \in SweepStates
        /\ [s EXCEPT !.at = "unlink"] \in SweepStates
    BY <2>1, <2>2 DEF SweepStates, FileStates
  <2>4. CASE EndSweep(m, "process_error")
    BY <1>1, <1>3, <1>6, <2>4 DEF CheckFile, Reasons
  <2>5. CASE ~EndSweep(m, "process_error")
    BY <1>1, <1>2, <1>6, <2>3, <2>5 DEF CheckFile, TypeInv, TypeOK
  <2> QED
    BY <2>4, <2>5
<1>7. ASSUME Unlink(m) PROVE SweepsTyped /\ UploadsTyped
  <2>1. s \in FileStates
    BY <1>1, <1>7, SweepFields DEF Unlink
  <2>2. Min(s.todo) \in Files
    BY <1>1, <1>7, <2>1, MinElement DEF Unlink, SweepSound, FileStates, Files
  <2>3. \A spared \in SUBSET Files :
           [s EXCEPT !.at = "files", !.todo = @ \ {Min(s.todo)}, !.spared = spared]
              \in SweepStates
    BY <2>1 DEF SweepStates, FileStates
  <2>4. SweepsTyped
    BY <1>1, <1>2, <1>7, <2>1, <2>2, <2>3 DEF Unlink, TypeInv, TypeOK, FileStates
  <2> QED
    BY <1>7, <2>4 DEF Unlink, UploadsTyped, TypeInv, TypeOK
<1>8. ASSUME EndBatch(m) PROVE SweepsTyped
  <2>1. s \in FileStates
    BY <1>1, <1>8, SweepFields DEF EndBatch, Reasons
  <2>2. Max(s.batch) \in Files
    BY <1>1, <1>8, <2>1, MaxElement, FileAssumption DEF EndBatch, SweepSound, FileStates, Files
  <2>3. [at |-> "batch", due |-> s.due, spared |-> s.spared, cursor |-> Max(s.batch),
         batches |-> s.batches + 1] \in SweepStates
    BY <2>1, <2>2 DEF SweepStates, FileStates, BatchStates, Files
  <2>4. CASE \E reason \in Reasons : EndSweep(m, reason)
    BY <1>1, <1>3, <1>8, <2>4 DEF EndBatch, Reasons
  <2>5. CASE ~\E reason \in Reasons : EndSweep(m, reason)
    <3>1. lock' = lock /\ SweepTo(m, [at |-> "batch", due |-> s.due, spared |-> s.spared,
                                     cursor |-> Max(s.batch), batches |-> s.batches + 1])
      BY <1>1, <1>8, <2>5 DEF EndBatch, Reasons
    <3> QED
      BY <1>2, <2>3, <3>1 DEF TypeInv, TypeOK
  <2> QED
    BY <2>4, <2>5
<1>9. SweepsTyped /\ UploadsTyped
  BY <1>4, <1>5, <1>6, <1>7, <1>8, TypeParts
     DEF Sweep, StartSweep, NextBatch, CheckFile, EndBatch
<1> QED
  BY <1>9, TypeParts DEF Sweep, StartSweep, NextBatch, CheckFile, Unlink, EndBatch

\* Every step keeps the types.
LEMMA TypeStep == FileInv /\ [Next]_fileVars => TypeInv'
<1> SUFFICES ASSUME FileInv, [Next]_fileVars PROVE TypeInv'
  OBVIOUS
<1>1. ASSUME NEW f \in Files, AgeUpload(f) PROVE TypeInv'
  <2>1. UploadsTyped
    BY <1>1 DEF FileInv, AgeUpload, UploadsTyped, TypeInv, TypeOK
  <2> QED
    BY <1>1, <2>1, TypeParts DEF AgeUpload, FileInv, sweepVars
<1>2. CASE UNCHANGED fileVars
  BY <1>2, TypeParts DEF fileVars, FileInv
<1> QED
  BY <1>1, <1>2, UploadTyped, WorkTyped, SweepTyped DEF FileInv, Next

-----------------------------------------------------------------------------
(* The steps of a request                                                  *)

\* The file that is about to be unlinked was due.
LEMMA UnlinkIsDue ==
  ASSUME TypeInv, NEW m \in Sweepers, SweepSound(m), sweep[m].at = "unlink"
  PROVE  /\ Min(sweep[m].todo) \in sweep[m].todo
         /\ Min(sweep[m].todo) \in sweep[m].due
         /\ Min(sweep[m].todo) \in old
<1>1. sweep[m] \in FileStates
  BY SweepFields
<1>2. sweep[m].todo \in SUBSET Nat /\ sweep[m].todo # {}
  BY <1>1 DEF FileStates, Files, SweepSound
<1>3. Min(sweep[m].todo) \in sweep[m].todo
  BY <1>2, MinElement
<1> QED
  BY <1>3 DEF SweepSound

\* A sweep is not disturbed by new files, nor by the registration of young ones.
LEMMA SweepUndisturbed ==
  ASSUME TypeInv, NEW m \in Sweepers, SweepSound(m), sweep'[m] = sweep[m],
         old \subseteq old', disk' \intersect old \subseteq disk,
         \A f \in old : ~Referenced(f) => ~Referenced(f)'
  PROVE  SweepSound(m)'
<1>1. PICK s : s = sweep[m]
  OBVIOUS
<1>2. s.at # "idle" => s.due \subseteq old /\ s.due \intersect disk' \subseteq s.due \intersect disk
  BY <1>1 DEF SweepSound
<1>3. s.at = "unlink" => ~Referenced(Min(s.todo))'
  <2>1. s.at = "unlink" => Min(s.todo) \in old /\ ~Referenced(Min(s.todo))
    BY <1>1, UnlinkIsDue DEF SweepSound
  <2> QED
    BY <2>1
<1> QED
  BY <1>1, <1>2, <1>3 DEF SweepSound, Later, IsLastBatch

\* What the handler has written to disk is a new file.
LEMMA WriteUploadKeeps ==
  ASSUME FileInv, TypeInv', NEW t \in Threads, NEW r \in Requests, WriteUpload(t, r)
  PROVE  FileInv'
<1>1. TypeInv /\ FilesKept
  BY DEF FileInv
<1>2. nextFile \notin disk \union old /\ nextFile \in Nat
  BY <1>1 DEF FilesKept, TypeInv
<1>3. /\ thread'[t] = [at |-> "look", request |-> r, file |-> nextFile, tries |-> 0]
      /\ \A u \in Threads \ {t} : thread'[u] = thread[u]
      /\ disk' = disk \union {nextFile} /\ nextFile' = nextFile + 1
      /\ UNCHANGED <<docs, jobs, requests, old, sweep, answers>>
  BY <1>1 DEF WriteUpload, TypeInv, tables, sweepVars
<1>4. FilesKept'
  <2>1. \A f \in disk' \union old' : f < nextFile'
    <3>1. \A f \in disk \union old : f \in Nat /\ f < nextFile
      BY <1>1 DEF FilesKept, TypeInv, TypeOK, Files
    <3> QED
      BY <1>2, <1>3, <3>1
  <2>2. \A u \in Threads : thread'[u].at # "idle" => thread'[u].file \in disk' \ old'
    BY <1>1, <1>2, <1>3 DEF FilesKept
  <2> QED
    BY <1>1, <1>3, <2>1, <2>2 DEF FilesKept
<1>5. (\A u \in Threads : FindingSound(u)') /\ JobsHaveDocs' /\ AnswersStored'
  BY <1>3 DEF FileInv, FindingSound, JobsHaveDocs, IsJob, AnswersStored
<1>6. \A m \in Sweepers : SweepSound(m)'
  BY <1>1, <1>2, <1>3, SweepUndisturbed DEF FileInv, Referenced
<1> QED
  BY <1>4, <1>5, <1>6 DEF FileInv

\* A step that writes no table and no file.
LEMMA ReadKeeps ==
  ASSUME FileInv, TypeInv', NEW t \in Threads, UNCHANGED <<tables, uploads, sweepVars>>,
         \A u \in Threads \ {t} : thread'[u] = thread[u],
         thread'[t].at # "idle" =>
            thread[t].at # "idle" /\ thread'[t].file = thread[t].file /\ FindingSound(t)',
         AnswersStored'
  PROVE  FileInv'
<1>1. TypeInv /\ FilesKept
  BY DEF FileInv
<1>2. UNCHANGED <<docs, jobs, requests, disk, nextFile, old, sweep>>
  BY DEF tables, uploads, sweepVars
<1>3. FilesKept' /\ JobsHaveDocs'
  BY <1>1, <1>2 DEF FileInv, FilesKept, JobsHaveDocs, IsJob
<1>4. \A u \in Threads : FindingSound(u)'
  BY <1>2 DEF FileInv, FindingSound
<1>5. \A m \in Sweepers : SweepSound(m)'
  BY <1>1, <1>2, SweepUndisturbed DEF FileInv, Referenced
<1> QED
  BY <1>3, <1>4, <1>5 DEF FileInv

\* The decision on an upload, and a handler that fails before it.
LEMMA LookKeeps ==
  ASSUME FileInv, TypeInv', NEW t \in Threads, Look(t) \/ FailFingerprint(t)
  PROVE  FileInv'
<1>1. TypeInv /\ AnswersStored
  BY DEF FileInv
<1>2. PICK x : x = thread[t] /\ x \in LookStates /\ x.at = "look"
  BY <1>1, ThreadFields DEF Look, FailFingerprint
<1>3. PICK r \in Requests : r = x.request
  BY <1>2 DEF LookStates
<1>4. UNCHANGED <<tables, uploads, sweepVars>>
  BY DEF Look, FailFingerprint
<1>5. UNCHANGED <<docs, requests>>
  BY <1>4 DEF tables
<1>6. ASSUME Return(t) PROVE FileInv'
  BY <1>1, <1>4, <1>5, <1>6, ReadKeeps DEF Return, TypeInv, Idle, AnswersStored
<1>7. ASSUME r.key \in Keys, requests[r.key] # None, requests[r.key].content = r.content,
             requests[r.key].force = r.force, Answer(t, r, requests[r.key].decision)
      PROVE  FileInv'
  <2>1. PICK stored : stored = requests[r.key] /\ stored \in RequestRows
    BY <1>1, <1>7, RowFields
  <2>2. PICK y : y = [key |-> r.key, content |-> r.content, force |-> r.force,
                      decision |-> stored.decision]
    OBVIOUS
  <2>3. stored = [content |-> y.content, force |-> y.force, decision |-> y.decision]
    BY <1>7, <2>1, <2>2 DEF RequestRows
  <2>4. \A z \in answers' : z \in answers \/ z = y
    BY <1>7, <2>1, <2>2 DEF Answer
  <2>5. AnswersStored'
    <3>1. ASSUME NEW z \in answers
          PROVE  /\ z.key \in Keys
                 /\ requests'[z.key] # None
                 /\ requests'[z.key] = [content |-> z.content, force |-> z.force,
                                        decision |-> z.decision]
      BY <1>1, <1>5 DEF AnswersStored
    <3>2. y.key \in Keys /\ requests'[y.key] = stored /\ stored # None
      BY <1>5, <1>7, <2>1, <2>2
    <3> QED
      BY <2>3, <2>4, <3>1, <3>2 DEF AnswersStored
  <2> QED
    BY <1>1, <1>4, <1>7, <2>5, ReadKeeps DEF Answer, TypeInv, Idle
<1>8. ASSUME NEW kind \in {"match", "new", "modified"}, NEW d \in Docs,
             NEW j \in Jobs \union {0}, UNCHANGED answers,
             IF kind = "match" THEN docs[d] # None ELSE j = 0,
             thread' = [thread EXCEPT ![t] =
                          [at |-> "write", request |-> x.request, file |-> x.file,
                           tries |-> x.tries, kind |-> kind, doc |-> d, job |-> j]]
      PROVE  FileInv'
  <2>1. PICK y : y = [at |-> "write", request |-> x.request, file |-> x.file,
                      tries |-> x.tries, kind |-> kind, doc |-> d, job |-> j]
    OBVIOUS
  <2>2. thread'[t] = y /\ \A u \in Threads \ {t} : thread'[u] = thread[u]
    BY <1>1, <1>8, <2>1 DEF TypeInv
  <2>3. FindingSound(t)' /\ y.file = x.file
    BY <1>5, <1>8, <2>1, <2>2 DEF FindingSound
  <2>4. AnswersStored'
    BY <1>1, <1>5, <1>8 DEF AnswersStored
  <2> QED
    BY <1>2, <1>4, <2>2, <2>3, <2>4, ReadKeeps
<1>9. ASSUME Look(t), ~Return(t),
             ~(r.key \in Keys /\ requests[r.key] # None /\ requests[r.key].content = r.content
               /\ requests[r.key].force = r.force /\ Answer(t, r, requests[r.key].decision))
      PROVE  \E kind \in {"match", "new", "modified"}, d \in Docs, j \in Jobs \union {0} :
                /\ UNCHANGED answers
                /\ IF kind = "match" THEN docs[d] # None ELSE j = 0
                /\ thread' = [thread EXCEPT ![t] =
                                [at |-> "write", request |-> x.request, file |-> x.file,
                                 tries |-> x.tries, kind |-> kind, doc |-> d, job |-> j]]
  <2>1. /\ r.key # NoKey => r.key \in Keys
        /\ r.doc # NoDoc => r.doc \in Docs
    BY RequestFields
  <2>2. PICK stored : stored = IF r.key = NoKey THEN None ELSE requests[r.key]
    OBVIOUS
  <2>3. stored = None
    BY <1>2, <1>3, <1>9, <2>1, <2>2 DEF Look
  <2>4. CASE \E d \in Matches(r) : thread' = [thread EXCEPT ![t] =
                 [at |-> "write", request |-> r, file |-> x.file, tries |-> x.tries,
                  kind |-> "match", doc |-> d, job |-> JobForMatch(d, r.force)]] /\ UNCHANGED answers
    BY <1>3, <2>4, JobForMatchTyped DEF Matches
  <2>5. CASE \E d \in Docs, kind \in {"new", "modified"} : thread' = [thread EXCEPT ![t] =
                 [at |-> "write", request |-> r, file |-> x.file, tries |-> x.tries,
                  kind |-> kind, doc |-> d, job |-> 0]] /\ UNCHANGED answers
    BY <1>3, <2>5
  <2> QED
    BY <1>2, <1>3, <1>9, <2>1, <2>2, <2>3, <2>4, <2>5 DEF Look
<1> QED
  BY <1>6, <1>7, <1>8, <1>9 DEF FailFingerprint

\* The transaction of a submission.
LEMMA WriteKeeps ==
  ASSUME FileInv, TypeInv', NEW t \in Threads, Write(t)
  PROVE  FileInv'
<1>1. TypeInv /\ FilesKept /\ FindingSound(t) /\ JobsHaveDocs /\ AnswersStored
  BY DEF FileInv
<1>2. PICK w : w = thread[t] /\ w \in WriteStates /\ w.at = "write"
  BY <1>1, ThreadFields DEF Write
<1>3. PICK r \in Requests : r = w.request
  BY <1>2 DEF WriteStates
<1>4. UNCHANGED <<uploads, sweepVars>>
  BY DEF Write
<1> DEFINE Commits ==
             ~UniqueViolation(w) /\ ~(w.job # 0 /\ ~IsJob(w.job) /\ r.key # NoKey)
<1>5. CASE ~Commits
  <2>1. /\ UNCHANGED tables /\ UNCHANGED answers
        /\ \A u \in Threads \ {t} : thread'[u] = thread[u]
        /\ thread'[t].at = "idle" \/ (thread'[t].at = "look" /\ thread'[t].file = w.file)
    BY <1>1, <1>2, <1>3, <1>5 DEF Write, Return, TypeInv, Idle
  <2> QED
    BY <1>1, <1>2, <1>4, <2>1, ReadKeeps DEF FindingSound, AnswersStored, tables
<1>6. CASE Commits
  <2>1. PICK j \in Jobs :
           /\ j = IF w.job = 0 THEN nextJob ELSE w.job
           /\ docs' = IF w.kind = "match" THEN docs
                      ELSE [docs EXCEPT ![w.doc] =
                              [content |-> r.content, roles |-> r.roles, file |-> w.file,
                               last |-> IF docs[w.doc] = None THEN 0 ELSE docs[w.doc].last]]
           /\ jobs' = IF w.job # 0 THEN jobs
                      ELSE [jobs EXCEPT ![j] = [doc |-> w.doc, status |-> "queued",
                                                content |-> r.content]]
           /\ requests' = IF r.key = NoKey THEN requests
                          ELSE [requests EXCEPT ![r.key] =
                                  [content |-> r.content, force |-> r.force,
                                   decision |-> [doc |-> w.doc, job |-> j]]]
           /\ Answer(t, r, [doc |-> w.doc, job |-> j])
           /\ ~UniqueViolation(w)
    BY <1>2, <1>3, <1>6 DEF Write, WriteStates
  <2>2. /\ w.doc \in Docs /\ w.file \in disk \ old /\ w.file # NoFile
        /\ r.key # NoKey => r.key \in Keys /\ requests[r.key] = None
    BY <1>1, <1>2, <1>3, <2>1, RequestFields
       DEF WriteStates, FilesKept, Files, NoFile, UniqueViolation
  <2>3. UNCHANGED <<disk, nextFile, old, sweep>>
    BY <1>4 DEF uploads, sweepVars
  <2>4. thread'[t] = Idle /\ \A u \in Threads \ {t} : thread'[u] = thread[u]
    BY <1>1, <2>1 DEF Answer, TypeInv
  <2>5. /\ \A d \in Docs \ {w.doc} : docs'[d] = docs[d]
        /\ docs'[w.doc] # None
        /\ \/ docs'[w.doc].file = docs[w.doc].file /\ docs[w.doc] # None
           \/ docs'[w.doc].file = w.file
    <3>1. CASE w.kind = "match"
      BY <1>1, <1>2, <2>1, <3>1 DEF FindingSound
    <3>2. CASE w.kind # "match"
      <4>1. PICK row : row = [content |-> r.content, roles |-> r.roles, file |-> w.file,
                              last |-> IF docs[w.doc] = None THEN 0 ELSE docs[w.doc].last]
        OBVIOUS
      <4>2. docs'[w.doc] = row /\ \A d \in Docs \ {w.doc} : docs'[d] = docs[d]
        BY <1>1, <2>1, <2>2, <3>2, <4>1 DEF TypeInv, TypeOK
      <4>3. row \in DocRows
        <5>1. docs[w.doc] # None => docs[w.doc].last \in Jobs \union {0}
          BY <1>1, <2>2, RowFields DEF DocRows
        <5> QED
          BY <1>2, <2>2, <4>1, <5>1, RequestFields DEF DocRows, WriteStates
      <4> QED
        BY <4>1, <4>2, <4>3, FileAssumption
    <3> QED
      BY <3>1, <3>2
  <2>6. \A d \in Docs : docs[d] # None => docs'[d] # None
    BY <2>5
  <2>7. FilesKept'
    <3>1. \A u \in Threads : thread'[u].at # "idle" => thread'[u].file \in disk' \ old'
      BY <1>1, <2>3, <2>4 DEF FilesKept, Idle
    <3>2. \A d \in Docs : docs'[d] # None /\ docs'[d].file # NoFile => docs'[d].file \in disk'
      BY <1>1, <2>2, <2>3, <2>5 DEF FilesKept
    <3> QED
      BY <1>1, <2>3, <3>1, <3>2 DEF FilesKept
  <2>8. \A u \in Threads : FindingSound(u)'
    <3>1. ASSUME NEW u \in Threads \ {t} PROVE FindingSound(u)'
      <4>1. PICK x : x = thread[u] /\ (x.at = "write" => x.doc \in Docs)
        BY <1>1, ThreadFields DEF WriteStates
      <4> QED
        BY <2>4, <2>6, <4>1 DEF FileInv, FindingSound
    <3> QED
      BY <2>4, <3>1 DEF FindingSound, Idle
  <2>9. JobsHaveDocs'
    <3>1. ASSUME NEW i \in Jobs, jobs'[i] # None PROVE docs'[jobs'[i].doc] # None
      <4>1. CASE jobs'[i] = jobs[i]
        <5>1. jobs[i] \in JobRows
          BY <1>1, <3>1, <4>1, RowFields DEF IsJob
        <5> QED
          BY <1>1, <2>6, <3>1, <4>1, <5>1 DEF JobsHaveDocs, IsJob, JobRows
      <4>2. CASE jobs'[i] # jobs[i]
        BY <1>1, <2>1, <2>5, <4>2 DEF TypeInv, TypeOK
      <4> QED
        BY <4>1, <4>2
    <3> QED
      BY <3>1 DEF JobsHaveDocs, IsJob
  <2>10. \A m \in Sweepers : SweepSound(m)'
    <3>1. \A f \in old : ~Referenced(f) => ~Referenced(f)'
      BY <2>2, <2>5 DEF Referenced
    <3> QED
      BY <1>1, <2>3, <3>1, SweepUndisturbed DEF FileInv
  <2>11. AnswersStored'
    <3>1. PICK y : y = [key |-> r.key, content |-> r.content, force |-> r.force,
                        decision |-> [doc |-> w.doc, job |-> j]]
      OBVIOUS
    <3>2. answers' = IF r.key = NoKey THEN answers ELSE answers \union {y}
      BY <2>1, <3>1 DEF Answer
    <3>3. r.key # NoKey =>
             /\ y.key \in Keys
             /\ requests'[y.key] # None
             /\ requests'[y.key] = [content |-> y.content, force |-> y.force,
                                    decision |-> y.decision]
      <4>1. PICK stored : stored = [content |-> r.content, force |-> r.force,
                                    decision |-> [doc |-> w.doc, job |-> j]]
        OBVIOUS
      <4>2. stored # None
        BY <1>2, <2>2, <4>1, RequestFields, FileAssumption DEF RequestRows, WriteStates
      <4>3. r.key # NoKey => requests'[r.key] = stored
        BY <1>1, <2>1, <2>2, <4>1 DEF TypeInv, TypeOK
      <4> QED
        BY <2>2, <3>1, <4>1, <4>2, <4>3
    <3>4. ASSUME NEW z \in answers
          PROVE  /\ z.key \in Keys
                 /\ requests'[z.key] # None
                 /\ requests'[z.key] = [content |-> z.content, force |-> z.force,
                                        decision |-> z.decision]
      <4>1. PICK stored : stored = [content |-> z.content, force |-> z.force,
                                    decision |-> z.decision]
        OBVIOUS
      <4>2. z.key \in Keys /\ requests[z.key] = stored /\ stored # None
        BY <1>1, <4>1 DEF AnswersStored
      <4>3. requests'[z.key] = stored
        BY <1>1, <2>1, <2>2, <4>2 DEF TypeInv, TypeOK
      <4> QED
        BY <4>1, <4>2, <4>3
    <3> QED
      BY <3>2, <3>3, <3>4 DEF AnswersStored
  <2> QED
    BY <2>7, <2>8, <2>9, <2>10, <2>11 DEF FileInv
<1> QED
  BY <1>5, <1>6

-----------------------------------------------------------------------------
(* The steps of workers and of the maintenance                             *)

\* A job changes its status, or is retired: receipts protect the jobs they name.
LEMMA WorkKeeps ==
  ASSUME FileInv, TypeInv', NEW j \in Jobs, Work(j)
  PROVE  FileInv'
<1>1. TypeInv /\ FilesKept /\ JobsHaveDocs /\ AnswersStored
  BY DEF FileInv
<1>2. PICK row : row = jobs[j] /\ row \in JobRows /\ docs[row.doc] # None
  BY <1>1, RowFields DEF Work, StartJob, CompleteJob, FailJob, RetireJob, IsJob, JobsHaveDocs
<1>3. UNCHANGED <<thread, disk, nextFile, old, sweep, answers>>
  BY DEF Work, StartJob, CompleteJob, FailJob, RetireJob, uploads, sweepVars
<1>4. /\ \A i \in Jobs : jobs'[i] # None => jobs[i] # None /\ jobs'[i].doc = jobs[i].doc
  <2>1. PICK new : /\ jobs' = [jobs EXCEPT ![j] = new]
                   /\ new = None \/ \E status : new = [row EXCEPT !.status = status]
    BY <1>2 DEF Work, StartJob, CompleteJob, FailJob, RetireJob
  <2>2. new = None \/ new.doc = row.doc
    BY <1>2, <2>1 DEF JobRows
  <2>3. jobs'[j] = new /\ \A i \in Jobs \ {j} : jobs'[i] = jobs[i]
    BY <1>1, <2>1 DEF TypeInv, TypeOK
  <2>4. jobs[j] # None
    BY <1>2, FileAssumption
  <2> QED
    BY <1>2, <2>2, <2>3, <2>4
<1>5. \A d \in Docs : /\ docs'[d] # None <=> docs[d] # None
                      /\ docs[d] # None => docs'[d].file = docs[d].file
  <2>1. CASE CompleteJob(j)
    <3>1. PICK d \in Docs : d = row.doc
      BY <1>2 DEF JobRows
    <3>2. PICK new : new = [docs[d] EXCEPT !.last = j]
      OBVIOUS
    <3>3. docs'[d] = new /\ \A e \in Docs \ {d} : docs'[e] = docs[e]
      BY <1>1, <1>2, <2>1, <3>1, <3>2 DEF CompleteJob, TypeInv, TypeOK
    <3>4. docs[d] \in DocRows
      BY <1>1, <1>2, <3>1, RowFields
    <3>5. new \in DocRows /\ new.file = docs[d].file
      BY <3>2, <3>4 DEF DocRows
    <3> QED
      BY <3>3, <3>4, <3>5, FileAssumption
  <2>2. CASE ~CompleteJob(j)
    BY <2>2 DEF Work, StartJob, FailJob, RetireJob
  <2> QED
    BY <2>1, <2>2
<1>6. \A k \in Keys : requests'[k] = requests[k]
  BY <1>1 DEF Work, StartJob, CompleteJob, FailJob, RetireJob, StoredAnswers, TypeInv, TypeOK
<1>7. FilesKept'
  BY <1>1, <1>3, <1>5 DEF FilesKept
<1>8. \A t \in Threads : FindingSound(t)'
  <2>1. ASSUME NEW t \in Threads PROVE thread[t].at = "write" => thread[t].doc \in Docs
    BY <1>1, ThreadFields DEF WriteStates
  <2> QED
    BY <1>3, <1>5, <2>1 DEF FileInv, FindingSound
<1>9. JobsHaveDocs'
  <2>1. ASSUME NEW i \in Jobs, jobs[i] # None PROVE jobs[i].doc \in Docs
    BY <1>1, <2>1, RowFields DEF IsJob, JobRows
  <2> QED
    BY <1>1, <1>4, <1>5, <2>1 DEF JobsHaveDocs, IsJob
<1>10. \A m \in Sweepers : SweepSound(m)'
  <2>1. \A f : ~Referenced(f) => ~Referenced(f)'
    BY <1>5 DEF Referenced
  <2> QED
    BY <1>1, <1>3, <2>1, SweepUndisturbed DEF FileInv
<1>11. AnswersStored'
  BY <1>1, <1>3, <1>6 DEF AnswersStored
<1> QED
  BY <1>7, <1>8, <1>9, <1>10, <1>11 DEF FileInv

\* An upload that no request holds any more grows old.
LEMMA AgeKeeps ==
  ASSUME FileInv, TypeInv', NEW f \in Files, AgeUpload(f)
  PROVE  FileInv'
<1>1. TypeInv /\ FilesKept
  BY DEF FileInv
<1>2. /\ UNCHANGED <<docs, jobs, requests, thread, disk, nextFile, sweep, answers>>
      /\ old' = old \union {f} /\ f \in disk
  BY DEF AgeUpload, tables, sweepVars
<1>3. \A t \in Threads : thread[t].at # "idle" => thread[t].file # f
  BY <1>1, ThreadFields DEF AgeUpload
<1>4. FilesKept'
  BY <1>1, <1>2, <1>3 DEF FilesKept
<1>5. \A m \in Sweepers : SweepSound(m)'
  BY <1>1, <1>2, SweepUndisturbed DEF FileInv, Referenced
<1> QED
  BY <1>2, <1>4, <1>5 DEF FileInv, FindingSound, JobsHaveDocs, IsJob, AnswersStored

\* A step of a sweep deletes at most an old file that no document names.
LEMMA SweeperKeeps ==
  ASSUME FileInv, TypeInv', NEW m \in Sweepers,
         UNCHANGED <<tables, nextFile, old, thread, answers>>,
         \A n \in Sweepers \ {m} : sweep'[n] = sweep[n],
         \/ disk' = disk
         \/ \E f \in old : disk' = disk \ {f} /\ ~Referenced(f),
         SweepSound(m)'
  PROVE  FileInv'
<1>1. TypeInv /\ FilesKept
  BY DEF FileInv
<1>2. UNCHANGED <<docs, jobs, requests>>
  BY DEF tables
<1>3. FilesKept'
  <2>1. \A d \in Docs : docs[d] # None /\ docs[d].file # NoFile => docs[d].file \in disk'
    BY <1>1 DEF FilesKept, Referenced
  <2> QED
    BY <1>1, <1>2, <2>1 DEF FilesKept
<1>4. \A n \in Sweepers : SweepSound(n)'
  BY <1>1, <1>2, SweepUndisturbed DEF FileInv, Referenced
<1> QED
  BY <1>2, <1>3, <1>4 DEF FileInv, FindingSound, JobsHaveDocs, IsJob, AnswersStored

\* The steps of a sweep.
LEMMA SweepKeeps ==
  ASSUME FileInv, TypeInv', NEW m \in Sweepers, Sweep(m)
  PROVE  FileInv'
<1>1. TypeInv /\ FilesKept /\ SweepSound(m)
  BY DEF FileInv
<1>2. PICK s : s = sweep[m]
  OBVIOUS
<1>3. ASSUME NEW x, SweepTo(m, x) PROVE sweep'[m] = x /\ \A n \in Sweepers \ {m} : sweep'[n] = sweep[n]
  BY <1>1, <1>3 DEF SweepTo, TypeInv
<1>4. ASSUME NEW reason, EndSweep(m, reason), s.at # "idle", UNCHANGED <<tables, uploads, thread, answers>>,
             reason \in {"no_candidates", "batch_exhausted"} =>
                s.due \intersect disk \subseteq s.spared
      PROVE  FileInv'
  <2>1. PICK x : x = [at |-> "done", reason |-> reason, due |-> s.due, spared |-> s.spared]
    OBVIOUS
  <2>2. sweep'[m] = x /\ \A n \in Sweepers \ {m} : sweep'[n] = sweep[n]
    BY <1>2, <1>3, <1>4, <2>1 DEF EndSweep
  <2>3. SweepSound(m)'
    BY <1>1, <1>2, <1>4, <2>1, <2>2 DEF SweepSound, uploads
  <2> QED
    BY <1>4, <2>2, <2>3, SweeperKeeps DEF uploads
<1>5. ASSUME NEW x, SweepTo(m, x), UNCHANGED <<tables, uploads, thread, answers>>, SweepSound(m)'
      PROVE  FileInv'
  BY <1>3, <1>5, SweeperKeeps DEF uploads
<1>6. ASSUME StartSweep(m) PROVE FileInv'
  <2>1. PICK x : /\ SweepTo(m, x)
                 /\ \/ x = [at |-> "batch", due |-> old \intersect disk, spared |-> {},
                            cursor |-> 0, batches |-> 0]
                    \/ x = [at |-> "done", reason |-> "lock_unavailable", due |-> {}, spared |-> {}]
    BY <1>6 DEF StartSweep
  <2>2. \A f \in old : ~(f <= 0)
    BY <1>1 DEF TypeInv, Files
  <2>3. sweep'[m] = x
    BY <1>3, <2>1
  <2>4. SweepSound(m)'
    BY <1>6, <2>1, <2>2, <2>3 DEF StartSweep, SweepSound, uploads
  <2> QED
    BY <1>5, <1>6, <2>1, <2>4 DEF StartSweep
<1>7. ASSUME NextBatch(m) PROVE FileInv'
  <2> DEFINE S == {f \in s.due \intersect disk : f > s.cursor}
  <2>1. s \in BatchStates /\ s.at = "batch"
    BY <1>1, <1>2, <1>7, SweepFields DEF NextBatch
  <2>2. PICK candidates : candidates = Smallest(BatchSize, S)
    OBVIOUS
  <2>3. /\ candidates \subseteq S
        /\ S # {} => candidates # {}
        /\ \A f \in S \ candidates : Later(f, candidates)
    <3>1. S \in SUBSET Files
      BY <2>1 DEF BatchStates
    <3> QED
      BY <2>2, <3>1, BatchOfSmallest
  <2>4. \A f \in s.due \intersect disk : f \in s.spared \/ f \in S
    <3>1. \A f \in s.due : f \in Nat /\ s.cursor \in Nat
      BY <2>1 DEF BatchStates, Files
    <3> QED
      BY <1>1, <1>2, <2>1, <3>1 DEF SweepSound
  <2>5. CASE candidates = {}
    BY <1>2, <1>4, <1>7, <2>1, <2>2, <2>3, <2>4, <2>5 DEF NextBatch
  <2>6. CASE candidates # {}
    <3>1. PICK x : x = [at |-> "files", due |-> s.due, spared |-> s.spared, cursor |-> s.cursor,
                        batches |-> s.batches, todo |-> candidates, batch |-> candidates]
      OBVIOUS
    <3>2. SweepTo(m, x)
      BY <1>2, <1>7, <2>2, <2>6, <3>1 DEF NextBatch
    <3>3. sweep'[m] = x
      BY <1>3, <3>2
    <3>4. UNCHANGED <<tables, uploads, thread, answers>> /\ UNCHANGED <<disk, old>>
      BY <1>7 DEF NextBatch, uploads
    <3>5. SweepSound(m)'
      BY <1>1, <1>2, <2>1, <2>3, <2>4, <2>6, <3>1, <3>3, <3>4
         DEF SweepSound, Later, IsLastBatch
    <3> QED
      BY <1>5, <3>2, <3>4, <3>5
  <2> QED
    BY <2>5, <2>6
<1>8. ASSUME CheckFile(m) PROVE FileInv'
  <2>1. s \in FileStates /\ s.at = "files" /\ s.todo # {}
    BY <1>1, <1>2, <1>8, SweepFields DEF CheckFile
  <2>2. PICK f : f = Min(s.todo)
    OBVIOUS
  <2>3. UNCHANGED <<tables, uploads, thread, answers>> /\ UNCHANGED <<disk, old, docs>>
    BY <1>8 DEF CheckFile, uploads, tables
  <2>4. CASE Referenced(f) /\ SweepTo(m, [s EXCEPT !.todo = @ \ {f}, !.spared = @ \union {f}])
    <3>1. PICK x : x = [s EXCEPT !.todo = @ \ {f}, !.spared = @ \union {f}]
      OBVIOUS
    <3>2. sweep'[m] = x /\ SweepTo(m, x)
      BY <1>3, <2>4, <3>1
    <3>3. /\ x.at = "files" /\ x.todo = s.todo \ {f} /\ x.spared = s.spared \union {f}
          /\ x.due = s.due /\ x.batch = s.batch
      BY <2>1, <3>1 DEF FileStates
    <3>4. SweepSound(m)'
      BY <1>1, <1>2, <2>1, <2>3, <3>2, <3>3 DEF SweepSound, Later, IsLastBatch
    <3> QED
      BY <1>5, <2>3, <3>2, <3>4
  <2>5. CASE ~Referenced(f) /\ SweepTo(m, [s EXCEPT !.at = "unlink"])
    <3>1. PICK x : x = [s EXCEPT !.at = "unlink"]
      OBVIOUS
    <3>2. sweep'[m] = x /\ SweepTo(m, x)
      BY <1>3, <2>5, <3>1
    <3>3. /\ x.at = "unlink" /\ x.todo = s.todo /\ x.spared = s.spared
          /\ x.due = s.due /\ x.batch = s.batch
      BY <2>1, <3>1 DEF FileStates
    <3>4. ~Referenced(f)'
      BY <2>3, <2>5 DEF Referenced
    <3>5. SweepSound(m)'
      BY <1>1, <1>2, <2>1, <2>2, <2>3, <3>2, <3>3, <3>4 DEF SweepSound, Later, IsLastBatch
    <3> QED
      BY <1>5, <2>3, <3>2, <3>5
  <2>6. CASE EndSweep(m, "process_error")
    BY <1>4, <2>1, <2>3, <2>6
  <2> QED
    BY <1>2, <1>8, <2>2, <2>4, <2>5, <2>6 DEF CheckFile
<1>9. ASSUME Unlink(m) PROVE FileInv'
  <2>1. s \in FileStates /\ s.at = "unlink"
    BY <1>1, <1>2, <1>9, SweepFields DEF Unlink
  <2>2. PICK f : f = Min(s.todo)
    OBVIOUS
  <2>3. f \in s.todo /\ f \in s.due /\ f \in old /\ ~Referenced(f)
    BY <1>1, <1>2, <2>1, <2>2, UnlinkIsDue DEF SweepSound
  <2>4. PICK spared : /\ SweepTo(m, [s EXCEPT !.at = "files", !.todo = @ \ {f}, !.spared = spared])
                      /\ \/ disk' = disk \ {f} /\ spared = s.spared
                         \/ disk' = disk /\ spared = s.spared \union {f}
    BY <1>2, <1>9, <2>2 DEF Unlink
  <2>5. PICK x : x = [s EXCEPT !.at = "files", !.todo = @ \ {f}, !.spared = spared]
    OBVIOUS
  <2>6. sweep'[m] = x /\ \A n \in Sweepers \ {m} : sweep'[n] = sweep[n]
    BY <1>3, <2>4, <2>5
  <2>7. /\ x.at = "files" /\ x.todo = s.todo \ {f} /\ x.spared = spared
        /\ x.due = s.due /\ x.batch = s.batch
    BY <2>1, <2>5 DEF FileStates
  <2>8. UNCHANGED <<tables, nextFile, old, thread, answers>>
    BY <1>9 DEF Unlink
  <2>9. SweepSound(m)'
    BY <1>1, <1>2, <2>1, <2>3, <2>4, <2>6, <2>7, <2>8 DEF SweepSound, Later, IsLastBatch
  <2> QED
    BY <2>3, <2>4, <2>6, <2>8, <2>9, SweeperKeeps
<1>10. ASSUME EndBatch(m) PROVE FileInv'
  <2>1. s \in FileStates /\ s.at = "files" /\ s.todo = {}
    BY <1>1, <1>2, <1>10, SweepFields DEF EndBatch
  <2>2. UNCHANGED <<tables, uploads, thread, answers>> /\ UNCHANGED <<disk, old>>
    BY <1>10 DEF EndBatch, uploads
  <2>3. /\ s.batch # {} /\ s.due \subseteq old
        /\ \A f \in s.due \intersect disk : f \in s.spared \/ Later(f, s.batch)
    BY <1>1, <1>2, <2>1 DEF SweepSound
  <2>4. CASE IsLastBatch(s.batch) /\ EndSweep(m, "batch_exhausted")
    BY <1>4, <2>1, <2>2, <2>3, <2>4 DEF Later
  <2>5. CASE EndSweep(m, "max_batches_reached")
    BY <1>4, <2>1, <2>2, <2>5
  <2>6. CASE SweepTo(m, [at |-> "batch", due |-> s.due, spared |-> s.spared,
                         cursor |-> Max(s.batch), batches |-> s.batches + 1])
    <3>1. PICK x : x = [at |-> "batch", due |-> s.due, spared |-> s.spared,
                        cursor |-> Max(s.batch), batches |-> s.batches + 1]
      OBVIOUS
    <3>2. sweep'[m] = x /\ SweepTo(m, x)
      BY <1>3, <2>6, <3>1
    <3>3. Max(s.batch) \in s.batch
      BY <2>1, <2>3, MaxElement, FileAssumption DEF FileStates, Files
    <3>4. \A f \in s.due \intersect disk : f <= Max(s.batch) => f \in s.spared
      <4>1. \A f \in s.due : f \in Nat /\ Max(s.batch) \in Nat
        BY <2>1, <3>3 DEF FileStates, Files
      <4>2. \A f \in s.due : f <= Max(s.batch) => ~(Max(s.batch) < f)
        BY <4>1
      <4> QED
        BY <2>3, <3>3, <4>2 DEF Later
    <3>5. SweepSound(m)'
      BY <2>2, <2>3, <3>1, <3>2, <3>4 DEF SweepSound
    <3> QED
      BY <1>5, <2>2, <3>2, <3>5
  <2> QED
    BY <1>2, <1>10, <2>4, <2>5, <2>6 DEF EndBatch
<1> QED
  BY <1>6, <1>7, <1>8, <1>9, <1>10 DEF Sweep

-----------------------------------------------------------------------------
(* The invariant holds, and what follows from it                           *)

\* At the start nothing has been uploaded.
LEMMA FileInit == Init => FileInv
<1> SUFFICES ASSUME Init PROVE FileInv
  OBVIOUS
<1>1. PICK r \in Roles : docs = [d \in Docs |-> IF d \in Websites
                                    THEN [content |-> NoContent, roles |-> r, file |-> NoFile, last |-> 0]
                                    ELSE None]
  BY DEF Init
<1>2. [content |-> NoContent, roles |-> r, file |-> NoFile, last |-> 0] \in DocRows
  BY DEF DocRows
<1>3. docs \in [Docs -> DocRows \union {None}]
  BY <1>1, <1>2
<1>4. \A d \in Docs : docs[d] # None => docs[d].file = NoFile
  BY <1>1
<1>5. TypeInv
  BY <1>3 DEF Init, TypeInv, TypeOK, ThreadStates, SweepStates
<1>6. FilesKept
  BY <1>4 DEF Init, FilesKept, Idle
<1>7. /\ \A t \in Threads : FindingSound(t)
      /\ \A m \in Sweepers : SweepSound(m)
  BY DEF Init, FindingSound, SweepSound, Idle
<1> QED
  BY <1>5, <1>6, <1>7 DEF Init, FileInv, JobsHaveDocs, IsJob, AnswersStored

\* Every step keeps the invariant.
LEMMA FileStep == FileInv /\ [Next]_fileVars => FileInv'
<1> SUFFICES ASSUME FileInv, [Next]_fileVars PROVE FileInv'
  OBVIOUS
<1>1. TypeInv'
  BY TypeStep
<1>2. ASSUME NEW t \in Threads, Upload(t) PROVE FileInv'
  BY <1>1, <1>2, WriteUploadKeeps, LookKeeps, WriteKeeps DEF Upload
<1>3. CASE UNCHANGED fileVars
  <2>1. UNCHANGED <<docs, jobs, requests, disk, nextFile, old, thread, sweep, answers>>
    BY <1>3 DEF fileVars, tables, uploads, sweepVars
  <2>2. \A m \in Sweepers : SweepSound(m)'
    BY <2>1, SweepUndisturbed DEF FileInv, Referenced
  <2> QED
    BY <1>1, <2>1, <2>2
       DEF FileInv, FilesKept, FindingSound, JobsHaveDocs, IsJob, AnswersStored
<1> QED
  BY <1>1, <1>2, <1>3, WorkKeeps, AgeKeeps, SweepKeeps DEF Next

\* The invariant holds of every behaviour.
THEOREM FileInvariant == Spec => []FileInv
  BY FileInit, FileStep, PTL DEF Spec

\* The file of a document is never swept away: the sweep asks for references on a
\* connection of its own, before the unlink and without a lock, and yet no
\* submission can make a reference in between.
THEOREM UploadsAreSafe == Spec => []RegisteredUploadKept
<1>1. FileInv => RegisteredUploadKept
  BY DEF FileInv, TypeInv, FilesKept, RegisteredUploadKept
<1> QED
  BY <1>1, FileInvariant, PTL

\* A key's answer is stored in the transaction that gives it and outlives every
\* retention of jobs.
THEOREM KeyedUploadsAnswered == Spec => []KeyedUploadsAgree
<1>1. FileInv => KeyedUploadsAgree
  <2> SUFFICES ASSUME FileInv, NEW x \in answers, NEW y \in answers,
                      x.key = y.key, x.content = y.content, x.force = y.force
               PROVE  x.decision = y.decision
    BY DEF KeyedUploadsAgree
  <2>1. PICK a : a = [content |-> x.content, force |-> x.force, decision |-> x.decision]
    OBVIOUS
  <2>2. PICK b : b = [content |-> y.content, force |-> y.force, decision |-> y.decision]
    OBVIOUS
  <2>3. a = requests[x.key] /\ b = requests[y.key]
    BY <2>1, <2>2 DEF FileInv, AnswersStored
  <2>4. a.decision = b.decision
    BY <2>3
  <2> QED
    BY <2>1, <2>2, <2>4
<1> QED
  BY <1>1, FileInvariant, PTL

\* A sweep whose candidates ran out has dealt with every file that was due: the
\* keyset cursor skips none, although each batch is read anew while other sweeps
\* and uploads go on.
THEOREM SweepsAreExhaustive == Spec => []ExhaustiveSweep
<1>1. FileInv => ExhaustiveSweep
  BY DEF FileInv, SweepSound, ExhaustiveSweep
<1> QED
  BY <1>1, FileInvariant, PTL

FrozenStep == \A d \in Docs : ActiveFileJobs(d) # {} => docs'[d].content = docs[d].content

\* Nobody replaces the bytes of a document whose job is queued or running: a
\* submission that would do so queues a job as well, and the index of active jobs
\* refuses that one together with the bytes.
THEOREM ContentStays == Spec => ContentFrozen
<1>1. ASSUME FileInv, [Next]_fileVars PROVE FrozenStep
  <2>1. TypeInv
    BY <1>1 DEF FileInv
  <2>2. CASE UNCHANGED docs
    BY <2>2 DEF FrozenStep
  <2>3. ASSUME NEW t \in Threads, Write(t), ~UNCHANGED docs PROVE FrozenStep
    <3>1. PICK w : w = thread[t] /\ w \in WriteStates /\ w.at = "write"
      BY <2>1, <2>3, ThreadFields DEF Write
    <3>2. w.kind # "match" /\ ~UniqueViolation(w)
      BY <2>3, <3>1 DEF Write, tables
    <3>3. w.job = 0
      BY <1>1, <3>1, <3>2 DEF FileInv, FindingSound
    <3>4. ActiveFileJobs(w.doc) = {}
      BY <3>2, <3>3 DEF UniqueViolation, SecondActive
    <3>5. \A d \in Docs \ {w.doc} : docs'[d] = docs[d]
      BY <2>1, <2>3, <3>1, <3>2 DEF Write, TypeInv, TypeOK, tables
    <3> QED
      BY <3>4, <3>5 DEF FrozenStep
  <2>4. ASSUME NEW j \in Jobs, CompleteJob(j) PROVE FrozenStep
    <3>1. PICK d \in Docs : d = jobs[j].doc /\ docs[d] \in DocRows
      BY <1>1, <2>1, <2>4, RowFields DEF CompleteJob, JobRows, FileInv, JobsHaveDocs
    <3>2. PICK new : new = [docs[d] EXCEPT !.last = j]
      OBVIOUS
    <3>3. docs'[d] = new /\ \A e \in Docs \ {d} : docs'[e] = docs[e]
      BY <2>1, <2>4, <3>1, <3>2 DEF CompleteJob, TypeInv, TypeOK
    <3>4. new.content = docs[d].content
      BY <3>1, <3>2 DEF DocRows
    <3> QED
      BY <3>3, <3>4 DEF FrozenStep
  <2>5. ASSUME ~UNCHANGED docs
        PROVE  (\E t \in Threads : Write(t)) \/ (\E j \in Jobs : CompleteJob(j))
    BY <1>1, <2>5
       DEF Next, Upload, Work, Sweep, WriteUpload, FailFingerprint, Look, StartJob, FailJob,
           RetireJob, AgeUpload, StartSweep, NextBatch, CheckFile, Unlink, EndBatch,
           fileVars, tables
  <2> QED
    BY <2>2, <2>3, <2>4, <2>5
<1>2. FileInv /\ [Next]_fileVars => [FrozenStep]_fileVars
  BY <1>1
<1> QED
  BY <1>2, FileInvariant, PTL DEF Spec, ContentFrozen, FrozenStep

-----------------------------------------------------------------------------
(* Recursion over 0 .. N *)

\* The natural numbers are well ordered.
LEMMA LeastNumber ==
    ASSUME NEW T \in SUBSET Nat, T # {}
    PROVE  \E m \in T : \A k \in T : m <= k
  <1> DEFINE Less == {p \in Nat \X Nat : p[1] < p[2]}
  <1>1. IsWellFoundedOn(Less, Nat)
    BY NatLessThanWellFounded DEF OpToRel
  <1>2. \A k, m \in Nat : k < m => <<k, m>> \in Less
    OBVIOUS
  <1>3. PICK m \in T : \A k \in T : ~(<<k, m>> \in Less)
    <2> HIDE DEF Less
    <2> QED
      BY <1>1, WFMin
  <1> HIDE DEF Less
  <1>4. ASSUME NEW k \in T PROVE m <= k
    <2>1. k \in Nat /\ m \in Nat
      OBVIOUS
    <2>2. ~(k < m)
      BY <1>2, <1>3, <2>1, Zenon
    <2> QED
      BY <2>1, <2>2
  <1> QED
    BY <1>4

\* Induction, about a set.
LEMMA UpTo ==
    ASSUME NEW N \in Nat, NEW S, 0 \in S,
           \A n \in 1 .. N : n - 1 \in S => n \in S
    PROVE  0 .. N \subseteq S
  <1> DEFINE Out == {n \in 0 .. N : n \notin S}
  <1>1. SUFFICES ASSUME Out # {} PROVE FALSE
    OBVIOUS
  <1>2. PICK m \in Out : \A k \in Out : m <= k
    <2>1. Out \in SUBSET Nat
      OBVIOUS
    <2> HIDE DEF Out
    <2> QED
      BY <1>1, <2>1, LeastNumber
  <1>3. m \in 1 .. N /\ m - 1 \notin Out
    BY <1>2
  <1> QED
    BY <1>2, <1>3

\* f is what the recursive definition with this base and these steps says, up to N.
Follows(f, N, base, step) == f[0] = base /\ \A i \in 1 .. N : f[i] = step[i][f[i - 1]]

\* There is such a function, so that CHOOSE, which a recursive definition stands
\* for, finds one.
LEMMA RecursionDefines ==
    ASSUME NEW N \in Nat, NEW X, NEW base \in X, NEW step \in [1 .. N -> [X -> X]]
    PROVE  \E f \in [0 .. N -> X] : Follows(f, N, base, step)
  <1> USE DEF Follows
  <1> DEFINE Defines(f, n) == f \in [0 .. n -> X] /\ Follows(f, n, base, step)
             S == {n \in 0 .. N : \E f : Defines(f, n)}
  <1>1. 0 \in S
    <2>1. PICK f : f = [i \in 0 .. 0 |-> base]
      OBVIOUS
    <2>2. f \in [0 .. 0 -> X] /\ f[0] = base
      BY <2>1
    <2>3. Defines(f, 0)
      BY <2>2
    <2> QED
      BY <2>3
  <1>2. ASSUME NEW n \in 1 .. N, n - 1 \in S PROVE n \in S
    <2>1. PICK f : Defines(f, n - 1)
      BY <1>2
    <2>2. n \in 0 .. N /\ n - 1 \in 0 .. n - 1 /\ step[n][f[n - 1]] \in X
      BY <2>1
    <2> DEFINE g == [i \in 0 .. n |-> IF i = n THEN step[n][f[n - 1]] ELSE f[i]]
    <2>3. g \in [0 .. n -> X] /\ g[0] = base
      BY <2>1, <2>2
    <2>4. ASSUME NEW i \in 1 .. n PROVE g[i] = step[i][g[i - 1]]
      BY <2>1, <2>4
    <2>5. Defines(g, n)
      BY <2>3, <2>4
    <2> QED
      BY <2>2, <2>5
  <1>3. 0 .. N \subseteq S
    <2> HIDE DEF S
    <2> QED
      BY <1>1, <1>2, UpTo
  <1> QED
    BY <1>3


-----------------------------------------------------------------------------
(* Chunking: texts *)

Characters == Nat \X Nat
Text == Seq(Characters)

\* A number that is largest among those up to a bound.
LEMMA LargestNumber ==
    ASSUME NEW N \in Nat, NEW T \in SUBSET (0 .. N), T # {}
    PROVE  Max(T) \in T /\ \A k \in T : k <= Max(T)
  <1> DEFINE U == {N - k : k \in T}
  <1>1. U \in SUBSET Nat /\ U # {}
    <2>1. \A k \in T : N - k \in Nat
      OBVIOUS
    <2> QED
      BY <2>1
  <1>2. PICK u \in U : \A v \in U : u <= v
    <2> HIDE DEF U
    <2> QED
      BY <1>1, LeastNumber
  <1>3. PICK m \in T : u = N - m
    BY <1>2
  <1>4. ASSUME NEW k \in T PROVE m >= k
    <2>1. N - k \in U
      OBVIOUS
    <2>2. u <= N - k
      BY <1>2, <2>1
    <2>3. m \in Nat /\ k \in Nat
      OBVIOUS
    <2> QED
      BY <1>3, <2>2, <2>3
  <1>5. \E x \in T : \A y \in T : x >= y
    BY <1>4
  <1>6. Max(T) \in T /\ \A y \in T : Max(T) >= y
    BY <1>5 DEF Max
  <1>7. ASSUME NEW k \in T PROVE k <= Max(T)
    BY <1>6
  <1> QED
    BY <1>6, <1>7

LEMMA SmallestNumber ==
    ASSUME NEW T \in SUBSET Nat, T # {}
    PROVE  Min(T) \in T /\ \A k \in T : Min(T) <= k
  <1>1. \E x \in T : \A y \in T : x <= y
    BY LeastNumber
  <1> QED
    BY <1>1 DEF Min

LEMMA Slice ==
    ASSUME NEW S, NEW t \in Seq(S), NEW m \in 1 .. Len(t) + 1, NEW n \in m - 1 .. Len(t)
    PROVE  /\ SubSeq(t, m, n) \in Seq(S) /\ Len(SubSeq(t, m, n)) = n - m + 1
           /\ \A i \in 1 .. n - m + 1 : SubSeq(t, m, n)[i] = t[m + i - 1]
  OBVIOUS

LEMMA IsLetter ==
    ASSUME NEW t \in Text, NEW c
    PROVE  c \in Letters(t) <=> \E i \in 1 .. Len(t) : ~Blank(t[i]) /\ c = t[i]
  BY DEF Letters, Text

LEMMA LettersOfTwo ==
    ASSUME NEW s \in Text, NEW t \in Text
    PROVE  s \o t \in Text /\ Letters(s \o t) = Letters(s) \union Letters(t)
  <1>1. /\ s \o t \in Text /\ Len(s \o t) = Len(s) + Len(t) /\ Len(s) \in Nat /\ Len(t) \in Nat
        /\ \A i \in 1 .. Len(s) : (s \o t)[i] = s[i]
        /\ \A i \in 1 .. Len(t) : (s \o t)[Len(s) + i] = t[i]
    BY DEF Text
  <1>2. PICK r \in Text : r = s \o t
    BY <1>1
  <1>3. ASSUME NEW c \in Letters(r) PROVE c \in Letters(s) \union Letters(t)
    <2>1. PICK i \in 1 .. Len(r) : ~Blank(r[i]) /\ c = r[i]
      BY IsLetter
    <2>2. CASE i <= Len(s)
      BY <1>1, <1>2, <2>1, <2>2, IsLetter
    <2>3. CASE i > Len(s)
      <3>1. i - Len(s) \in 1 .. Len(t) /\ i = Len(s) + (i - Len(s))
        BY <1>1, <1>2, <2>3
      <3>2. r[i] = t[i - Len(s)]
        BY <1>1, <1>2, <3>1
      <3> QED
        BY <2>1, <3>1, <3>2, IsLetter
    <2> QED
      BY <1>1, <1>2, <2>2, <2>3
  <1>4. ASSUME NEW c \in Letters(s) PROVE c \in Letters(r)
    <2>1. PICK i \in 1 .. Len(s) : ~Blank(s[i]) /\ c = s[i]
      BY IsLetter
    <2>2. i \in 1 .. Len(r)
      BY <1>1, <1>2
    <2> QED
      BY <1>1, <1>2, <2>1, <2>2, IsLetter
  <1>5. ASSUME NEW c \in Letters(t) PROVE c \in Letters(r)
    <2>1. PICK i \in 1 .. Len(t) : ~Blank(t[i]) /\ c = t[i]
      BY IsLetter
    <2>2. Len(s) + i \in 1 .. Len(r)
      BY <1>1, <1>2
    <2> QED
      BY <1>1, <1>2, <2>1, <2>2, IsLetter
  <1> QED
    BY <1>2, <1>3, <1>4, <1>5

LEMMA OrderOfTwo ==
    ASSUME NEW s \in Text, NEW t \in Text, InOrder(s), InOrder(t), Precede(Letters(s), Letters(t))
    PROVE  InOrder(s \o t)
  <1>1. /\ s \o t \in Text /\ Len(s \o t) = Len(s) + Len(t) /\ Len(s) \in Nat /\ Len(t) \in Nat
        /\ \A i \in 1 .. Len(s) : (s \o t)[i] = s[i]
        /\ \A i \in 1 .. Len(t) : (s \o t)[Len(s) + i] = t[i]
    BY DEF Text
  <1> DEFINE r == s \o t
  <1>2. SUFFICES ASSUME NEW i \in 1 .. Len(r), NEW j \in 1 .. Len(r), i < j, ~Blank(r[i]), ~Blank(r[j])
                 PROVE  Ahead(r[i], r[j])
    BY <1>1 DEF InOrder, Text
  <1>3. CASE j <= Len(s)
    BY <1>1, <1>2, <1>3 DEF InOrder, Text
  <1>4. CASE i > Len(s)
    <2>1. i - Len(s) \in 1 .. Len(t) /\ i = Len(s) + (i - Len(s)) /\ j - Len(s) \in 1 .. Len(t) /\ j = Len(s) + (j - Len(s))
      BY <1>1, <1>2, <1>4
    <2>2. r[i] = t[i - Len(s)] /\ r[j] = t[j - Len(s)] /\ i - Len(s) < j - Len(s)
      BY <1>1, <1>2, <2>1
    <2> QED
      BY <1>2, <2>1, <2>2 DEF InOrder, Text
  <1>5. CASE i <= Len(s) /\ j > Len(s)
    <2>1. j - Len(s) \in 1 .. Len(t) /\ j = Len(s) + (j - Len(s)) /\ i \in 1 .. Len(s)
      BY <1>1, <1>5
    <2>2. r[i] = s[i] /\ r[j] = t[j - Len(s)]
      BY <1>1, <2>1
    <2>3. r[i] \in Letters(s) /\ r[j] \in Letters(t)
      BY <1>2, <2>1, <2>2, IsLetter
    <2> QED
      BY <2>3 DEF Precede
  <1> QED
    BY <1>1, <1>3, <1>4, <1>5

LEMMA LettersOfSlice ==
    ASSUME NEW t \in Text, NEW m \in 1 .. Len(t) + 1, NEW n \in m - 1 .. Len(t)
    PROVE  /\ SubSeq(t, m, n) \in Text
           /\ \A c : c \in Letters(SubSeq(t, m, n)) <=> \E k \in m .. n : ~Blank(t[k]) /\ c = t[k]
           /\ InOrder(t) => InOrder(SubSeq(t, m, n))
  <1> DEFINE s == SubSeq(t, m, n)
  <1>1. /\ s \in Text /\ Len(s) = n - m + 1 /\ Len(t) \in Nat
        /\ \A i \in 1 .. n - m + 1 : s[i] = t[m + i - 1]
    BY Slice DEF Text
  <1> HIDE DEF s
  <1>2. ASSUME NEW c, c \in Letters(s) PROVE \E k \in m .. n : ~Blank(t[k]) /\ c = t[k]
    <2>1. PICK i \in 1 .. Len(s) : ~Blank(s[i]) /\ c = s[i]
      BY <1>1, <1>2, IsLetter
    <2>2. m + i - 1 \in m .. n
      BY <1>1
    <2> QED
      BY <1>1, <2>1, <2>2
  <1>3. ASSUME NEW k \in m .. n, ~Blank(t[k]) PROVE t[k] \in Letters(s)
    <2>1. k - m + 1 \in 1 .. Len(s) /\ m + (k - m + 1) - 1 = k
      BY <1>1
    <2>2. s[k - m + 1] = t[k]
      BY <1>1, <2>1
    <2> QED
      BY <1>1, <1>3, <2>1, <2>2, IsLetter
  <1>4. ASSUME InOrder(t) PROVE InOrder(s)
    <2>1. ASSUME NEW i \in 1 .. Len(s), NEW j \in 1 .. Len(s), i < j, ~Blank(s[i]), ~Blank(s[j])
          PROVE  Ahead(s[i], s[j])
      <3>1. m + i - 1 \in 1 .. Len(t) /\ m + j - 1 \in 1 .. Len(t) /\ m + i - 1 < m + j - 1
        BY <1>1, <2>1
      <3> QED
        BY <1>1, <1>4, <2>1, <3>1, SMTT(30) DEF InOrder, Text
    <2> QED
      BY <1>1, <2>1 DEF InOrder, Text
  <1> QED
    BY <1>1, <1>2, <1>3, <1>4 DEF s

\* What is before a place and what is after it.
LEMMA CutInTwo ==
    ASSUME NEW t \in Text, NEW i \in 0 .. Len(t)
    PROVE  LET left == SubSeq(t, 1, i)
               right == SubSeq(t, i + 1, Len(t))
           IN /\ left \in Text /\ right \in Text /\ Len(left) = i /\ Len(right) = Len(t) - i
              /\ Letters(left) \union Letters(right) = Letters(t)
              /\ InOrder(t) => InOrder(left) /\ InOrder(right) /\ Precede(Letters(left), Letters(right))
  <1> DEFINE left == SubSeq(t, 1, i)
             right == SubSeq(t, i + 1, Len(t))
  <1>1. Len(t) \in Nat /\ i \in Nat
    BY DEF Text
  <1>2. 1 \in 1 .. Len(t) + 1 /\ i \in 1 - 1 .. Len(t) /\ i + 1 \in 1 .. Len(t) + 1 /\ Len(t) \in (i + 1) - 1 .. Len(t)
    BY <1>1
  <1>3. /\ left \in Text /\ right \in Text /\ Len(left) = i /\ Len(right) = Len(t) - i
    BY <1>1, <1>2, Slice DEF Text
  <1>4. /\ \A c : c \in Letters(left) <=> \E k \in 1 .. i : ~Blank(t[k]) /\ c = t[k]
        /\ InOrder(t) => InOrder(left)
    BY <1>2, LettersOfSlice
  <1>5. /\ \A c : c \in Letters(right) <=> \E k \in i + 1 .. Len(t) : ~Blank(t[k]) /\ c = t[k]
        /\ InOrder(t) => InOrder(right)
    BY <1>2, LettersOfSlice
  <1> HIDE DEF left, right
  <1>6. Letters(left) \union Letters(right) = Letters(t)
    <2>1. \A k \in 1 .. Len(t) : k \in 1 .. i \/ k \in i + 1 .. Len(t)
      BY <1>1
    <2>2. 1 .. i \subseteq 1 .. Len(t) /\ i + 1 .. Len(t) \subseteq 1 .. Len(t)
      BY <1>1
    <2>3. ASSUME NEW c PROVE c \in Letters(t) <=> c \in Letters(left) \/ c \in Letters(right)
      BY <1>4, <1>5, <2>1, <2>2, IsLetter
    <2> QED
      BY <2>3
  <1>7. InOrder(t) => Precede(Letters(left), Letters(right))
    <2>1. \A k \in 1 .. i, l \in i + 1 .. Len(t) : k \in 1 .. Len(t) /\ l \in 1 .. Len(t) /\ k < l
      BY <1>1
    <2> QED
      BY <1>4, <1>5, <2>1 DEF Precede, InOrder, Text
  <1> QED
    BY <1>3, <1>4, <1>5, <1>6, <1>7 DEF left, right

\* A text without the blanks at its end, or at its beginning.
LEMMA RStripped ==
    ASSUME NEW t \in Text
    PROVE  \E k \in 0 .. Len(t) :
              /\ RStrip(t) = SubSeq(t, 1, k) /\ (k > 0 => ~Blank(t[k]))
              /\ \A j \in k + 1 .. Len(t) : Blank(t[j])
  <1> DEFINE T == {0} \union {i \in DOMAIN t : ~Blank(t[i])}
  <1>1. Len(t) \in Nat /\ DOMAIN t = 1 .. Len(t)
    BY DEF Text
  <1>2. T \in SUBSET (0 .. Len(t)) /\ T # {}
    BY <1>1
  <1>3. Max(T) \in T /\ \A k \in T : k <= Max(T)
    <2> HIDE DEF T
    <2> QED
      BY <1>1, <1>2, LargestNumber
  <1>4. PICK k : k = Max(T)
    OBVIOUS
  <1>5. k \in 0 .. Len(t) /\ RStrip(t) = SubSeq(t, 1, k)
    BY <1>2, <1>3, <1>4 DEF RStrip
  <1>6. k > 0 => ~Blank(t[k])
    BY <1>3, <1>4
  <1>7. ASSUME NEW j \in k + 1 .. Len(t) PROVE Blank(t[j])
    BY <1>1, <1>3, <1>4, <1>5
  <1> QED
    BY <1>5, <1>6, <1>7

LEMMA LStripped ==
    ASSUME NEW t \in Text
    PROVE  \E m \in 1 .. Len(t) + 1 :
              /\ LStrip(t) = SubSeq(t, m, Len(t)) /\ (m <= Len(t) => ~Blank(t[m]))
              /\ \A j \in 1 .. m - 1 : Blank(t[j])
  <1> DEFINE T == {Len(t) + 1} \union {i \in DOMAIN t : ~Blank(t[i])}
  <1>1. Len(t) \in Nat /\ DOMAIN t = 1 .. Len(t)
    BY DEF Text
  <1>2. T \in SUBSET Nat /\ T # {} /\ T \subseteq 1 .. Len(t) + 1
    BY <1>1
  <1>3. Min(T) \in T /\ \A k \in T : Min(T) <= k
    <2> HIDE DEF T
    <2> QED
      BY <1>2, SmallestNumber
  <1>4. PICK m : m = Min(T)
    OBVIOUS
  <1>5. m \in 1 .. Len(t) + 1 /\ LStrip(t) = SubSeq(t, m, Len(t))
    BY <1>2, <1>3, <1>4 DEF LStrip
  <1>6. m <= Len(t) => ~Blank(t[m])
    BY <1>1, <1>3, <1>4
  <1>7. ASSUME NEW j \in 1 .. m - 1 PROVE Blank(t[j])
    BY <1>1, <1>3, <1>4, <1>5
  <1> QED
    BY <1>5, <1>6, <1>7


LEMMA TextFacts ==
    ASSUME NEW t \in Text
    PROVE  /\ Len(t) \in Nat /\ DOMAIN t = 1 .. Len(t) /\ (t = <<>> <=> Len(t) = 0)
           /\ \A i \in 1 .. Len(t) : t[i] \in Characters
  BY DEF Text

LEMMA BlankTexts ==
    /\ <<>> \in Text /\ Letters(<<>>) = {} /\ InOrder(<<>>)
    /\ <<Space>> \in Text /\ Letters(<<Space>>) = {} /\ InOrder(<<Space>>) /\ Len(<<Space>>) = 1
    /\ BlankLine \in Text /\ Letters(BlankLine) = {} /\ InOrder(BlankLine) /\ Len(BlankLine) = 2
    /\ \A i \in 1 .. 2 : Blank(BlankLine[i])
  <1>1. Blank(Space) /\ Blank(Newline) /\ Space \in Characters /\ Newline \in Characters
    BY DEF Blank, Space, Newline, Characters
  <1>2. <<>> \in Text /\ Letters(<<>>) = {} /\ InOrder(<<>>)
    BY DEF Text, Letters, InOrder
  <1>3. PICK s : s = <<Space>>
    OBVIOUS
  <1>4. s \in Text /\ Len(s) = 1 /\ s[1] = Space
    BY <1>1, <1>3 DEF Text
  <1>5. Letters(s) = {} /\ InOrder(s)
    BY <1>1, <1>4 DEF Text, Letters, InOrder
  <1>6. PICK l : l = BlankLine
    OBVIOUS
  <1>7. l \in Text /\ Len(l) = 2 /\ \A i \in 1 .. 2 : l[i] = Newline
    BY <1>1, <1>6 DEF Text, BlankLine
  <1>8. Letters(l) = {} /\ InOrder(l)
    BY <1>1, <1>7 DEF Text, Letters, InOrder
  <1> QED
    BY <1>1, <1>2, <1>3, <1>4, <1>5, <1>6, <1>7, <1>8

LEMMA JoinedMeans ==
    ASSUME NEW s \in Text, NEW gap \in Text, NEW t \in Text, Letters(gap) = {}
    PROVE  /\ Joined(s, gap, t) \in Text
           /\ Letters(Joined(s, gap, t)) = Letters(s) \union Letters(t)
           /\ InOrder(s) /\ InOrder(t) /\ Precede(Letters(s), Letters(t)) => InOrder(Joined(s, gap, t))
           /\ s # <<>> => /\ Len(Joined(s, gap, t)) = Len(s) + Len(gap) + Len(t)
                          /\ \A i \in 1 .. Len(s) : Joined(s, gap, t)[i] = s[i]
                          /\ \A i \in 1 .. Len(gap) : Joined(s, gap, t)[Len(s) + i] = gap[i]
                          /\ \A i \in 1 .. Len(t) : Joined(s, gap, t)[Len(s) + Len(gap) + i] = t[i]
           /\ s = <<>> => Joined(s, gap, t) = t
  <1>1. CASE s = <<>>
    BY <1>1, BlankTexts DEF Joined
  <1>2. CASE s # <<>>
    <2>1. PICK r : r = s \o gap
      OBVIOUS
    <2>2. r \in Text /\ Letters(r) = Letters(s)
      BY <2>1, LettersOfTwo
    <2>3. PICK u : u = r \o t
      OBVIOUS
    <2>4. u \in Text /\ Letters(u) = Letters(s) \union Letters(t)
      BY <2>2, <2>3, LettersOfTwo
    <2>5. u = Joined(s, gap, t)
      BY <1>2, <2>1, <2>3 DEF Joined
    <2>6. /\ Len(r) = Len(s) + Len(gap) /\ Len(s) \in Nat /\ Len(gap) \in Nat /\ Len(t) \in Nat
          /\ \A i \in 1 .. Len(s) : r[i] = s[i]
          /\ \A i \in 1 .. Len(gap) : r[Len(s) + i] = gap[i]
      BY <2>1 DEF Text
    <2>7. /\ Len(u) = Len(r) + Len(t)
          /\ \A i \in 1 .. Len(r) : u[i] = r[i]
          /\ \A i \in 1 .. Len(t) : u[Len(r) + i] = t[i]
      BY <2>2, <2>3 DEF Text
    <2>8. /\ \A i \in 1 .. Len(s) : i \in 1 .. Len(r)
          /\ \A i \in 1 .. Len(gap) : Len(s) + i \in 1 .. Len(r)
      BY <2>6
    <2>9. /\ Len(u) = Len(s) + Len(gap) + Len(t)
          /\ \A i \in 1 .. Len(s) : u[i] = s[i]
          /\ \A i \in 1 .. Len(gap) : u[Len(s) + i] = gap[i]
          /\ \A i \in 1 .. Len(t) : u[Len(s) + Len(gap) + i] = t[i]
      BY <2>6, <2>7, <2>8
    <2>10. ASSUME InOrder(s), InOrder(t), Precede(Letters(s), Letters(t)) PROVE InOrder(u)
      <3>1. InOrder(gap)
        BY DEF InOrder, Letters
      <3>2. InOrder(r)
        BY <2>1, <2>10, <3>1, OrderOfTwo DEF Precede
      <3> QED
        BY <2>2, <2>3, <2>10, <3>2, OrderOfTwo
    <2> QED
      BY <1>2, <2>4, <2>5, <2>9, <2>10
  <1> QED
    BY <1>1, <1>2

LEMMA RStripKeeps ==
    ASSUME NEW t \in Text
    PROVE  /\ RStrip(t) \in Text /\ Letters(RStrip(t)) = Letters(t) /\ Len(RStrip(t)) <= Len(t)
           /\ InOrder(t) => InOrder(RStrip(t))
           /\ RStrip(t) # <<>> <=> Letters(t) # {}
           /\ \A i \in 1 .. Len(RStrip(t)) : RStrip(t)[i] = t[i]
  <1>1. PICK k \in 0 .. Len(t) : /\ RStrip(t) = SubSeq(t, 1, k) /\ (k > 0 => ~Blank(t[k]))
                                 /\ \A j \in k + 1 .. Len(t) : Blank(t[j])
    BY RStripped
  <1>2. Len(t) \in Nat /\ 1 \in 1 .. Len(t) + 1 /\ k \in 1 - 1 .. Len(t)
    BY TextFacts
  <1>3. PICK r : r = RStrip(t)
    OBVIOUS
  <1>4. r \in Text /\ Len(r) = k /\ \A i \in 1 .. k : r[i] = t[i]
    BY <1>1, <1>2, <1>3, Slice DEF Text
  <1>5. /\ \A c : c \in Letters(r) <=> \E j \in 1 .. k : ~Blank(t[j]) /\ c = t[j]
        /\ InOrder(t) => InOrder(r)
    BY <1>1, <1>2, <1>3, LettersOfSlice
  <1>6. \A j \in 1 .. Len(t) : j \in 1 .. k \/ Blank(t[j])
    BY <1>1, <1>2
  <1>7. 1 .. k \subseteq 1 .. Len(t)
    BY <1>2
  <1>8. Letters(r) = Letters(t)
    <2>1. \A c : c \in Letters(r) <=> c \in Letters(t)
      BY <1>5, <1>6, <1>7, IsLetter
    <2> QED
      BY <2>1
  <1>9. r # <<>> <=> k > 0
    BY <1>2, <1>4, TextFacts
  <1>10. k > 0 => t[k] \in Letters(r)
    BY <1>1, <1>5
  <1>11. k = 0 => Letters(r) = {}
    BY <1>5
  <1> QED
    BY <1>2, <1>3, <1>4, <1>5, <1>8, <1>9, <1>10, <1>11

LEMMA LStripKeeps ==
    ASSUME NEW t \in Text
    PROVE  /\ LStrip(t) \in Text /\ Letters(LStrip(t)) = Letters(t) /\ Len(LStrip(t)) <= Len(t)
           /\ InOrder(t) => InOrder(LStrip(t))
           /\ LStrip(t) # <<>> <=> Letters(t) # {}
           /\ LStrip(t) # <<>> => ~Blank(LStrip(t)[1])
           /\ \A i \in 1 .. Len(LStrip(t)) : LStrip(t)[i] = t[Len(t) - Len(LStrip(t)) + i]
  <1>1. PICK m \in 1 .. Len(t) + 1 : /\ LStrip(t) = SubSeq(t, m, Len(t)) /\ (m <= Len(t) => ~Blank(t[m]))
                                     /\ \A j \in 1 .. m - 1 : Blank(t[j])
    BY LStripped
  <1>2. Len(t) \in Nat /\ Len(t) \in m - 1 .. Len(t)
    BY TextFacts
  <1>3. PICK r : r = LStrip(t)
    OBVIOUS
  <1>4. r \in Text /\ Len(r) = Len(t) - m + 1 /\ \A i \in 1 .. Len(t) - m + 1 : r[i] = t[m + i - 1]
    BY <1>1, <1>2, <1>3, Slice DEF Text
  <1>5. /\ \A c : c \in Letters(r) <=> \E j \in m .. Len(t) : ~Blank(t[j]) /\ c = t[j]
        /\ InOrder(t) => InOrder(r)
    BY <1>1, <1>2, <1>3, LettersOfSlice
  <1>6. \A j \in 1 .. Len(t) : j \in m .. Len(t) \/ Blank(t[j])
    BY <1>1, <1>2
  <1>7. m .. Len(t) \subseteq 1 .. Len(t)
    BY <1>2
  <1>8. Letters(r) = Letters(t)
    <2>1. \A c : c \in Letters(r) <=> c \in Letters(t)
      BY <1>5, <1>6, <1>7, IsLetter
    <2> QED
      BY <2>1
  <1>9. r # <<>> <=> m <= Len(t)
    BY <1>2, <1>4, TextFacts
  <1>10. m <= Len(t) => t[m] \in Letters(r) /\ r[1] = t[m]
    BY <1>1, <1>2, <1>4, <1>5
  <1>11. ~(m <= Len(t)) => Letters(r) = {}
    BY <1>2, <1>5
  <1>12. \A i \in 1 .. Len(r) : r[i] = t[Len(t) - Len(r) + i]
    BY <1>2, <1>4
  <1> QED
    BY <1>1, <1>2, <1>3, <1>4, <1>5, <1>8, <1>9, <1>10, <1>11, <1>12

LEMMA StripKeeps ==
    ASSUME NEW t \in Text
    PROVE  /\ Strip(t) \in Text /\ Letters(Strip(t)) = Letters(t) /\ Len(Strip(t)) <= Len(t)
           /\ InOrder(t) => InOrder(Strip(t))
           /\ Strip(t) # <<>> <=> Letters(t) # {}
  <1>1. PICK l : l = LStrip(t)
    OBVIOUS
  <1>2. Len(t) \in Nat /\ Len(l) \in Nat /\ Len(RStrip(l)) \in Nat
    BY <1>1, LStripKeeps, RStripKeeps, TextFacts
  <1> QED
    BY <1>1, <1>2, LStripKeeps, RStripKeeps DEF Strip

-----------------------------------------------------------------------------
(* Chunking: several texts *)

LEMMA TellBoth ==
    ASSUME NEW p \in Seq(Text), NEW q \in Seq(Text), NEW C, NEW D, Tell(p, C), Tell(q, D), Precede(C, D)
    PROVE  Tell(p \o q, C \union D)
  <1>1. PICK r : r = p \o q
    OBVIOUS
  <1>2. /\ r \in Seq(Text) /\ Len(r) = Len(p) + Len(q) /\ Len(p) \in Nat /\ Len(q) \in Nat
        /\ \A i \in 1 .. Len(p) : r[i] = p[i]
        /\ \A i \in 1 .. Len(q) : r[Len(p) + i] = q[i]
    BY <1>1
  <1>3. \A i \in 1 .. Len(r) : \/ i \in 1 .. Len(p) /\ r[i] = p[i]
                               \/ i - Len(p) \in 1 .. Len(q) /\ r[i] = q[i - Len(p)]
    <2>1. ASSUME NEW i \in 1 .. Len(r), i > Len(p) PROVE i - Len(p) \in 1 .. Len(q) /\ r[i] = q[i - Len(p)]
      <3>1. i - Len(p) \in 1 .. Len(q) /\ i = Len(p) + (i - Len(p))
        BY <1>2, <2>1
      <3> QED
        BY <1>2, <3>1
    <2>2. ASSUME NEW i \in 1 .. Len(r), i <= Len(p) PROVE i \in 1 .. Len(p) /\ r[i] = p[i]
      <3>1. i \in 1 .. Len(p)
        BY <1>2, <2>2
      <3> QED
        BY <1>2, <3>1
    <2>3. \A i \in 1 .. Len(r) : i > Len(p) \/ i <= Len(p)
      BY <1>2
    <2> QED
      BY <2>1, <2>2, <2>3
  <1>4. \A i \in 1 .. Len(r) : InOrder(r[i])
    BY <1>3 DEF Tell
  <1>5. /\ \A i \in 1 .. Len(p) : Letters(p[i]) \subseteq C
        /\ \A i \in 1 .. Len(q) : Letters(q[i]) \subseteq D
    BY DEF Tell
  <1>6. ASSUME NEW i \in 1 .. Len(r), NEW j \in 1 .. Len(r), i < j PROVE Precede(Letters(r[i]), Letters(r[j]))
    <2>1. CASE j \in 1 .. Len(p) /\ r[j] = p[j]
      <3>1. i \in 1 .. Len(p) /\ r[i] = p[i]
        BY <1>2, <1>6, <2>1
      <3> QED
        BY <1>6, <2>1, <3>1 DEF Tell
    <2>2. CASE j - Len(p) \in 1 .. Len(q) /\ r[j] = q[j - Len(p)]
      <3>1. CASE i \in 1 .. Len(p) /\ r[i] = p[i]
        BY <1>5, <2>2, <3>1 DEF Precede
      <3>2. CASE i - Len(p) \in 1 .. Len(q) /\ r[i] = q[i - Len(p)]
        <4>1. i - Len(p) < j - Len(p)
          BY <1>2, <1>6
        <4> QED
          BY <2>2, <3>2, <4>1 DEF Tell
      <3> QED
        BY <1>3, <3>1, <3>2
    <2> QED
      BY <1>3, <2>1, <2>2
  <1>7. UNION {Letters(r[i]) : i \in 1 .. Len(r)} = C \union D
    <2>1. ASSUME NEW c PROVE (\E i \in 1 .. Len(r) : c \in Letters(r[i])) <=> c \in C \/ c \in D
      <3>1. c \in C <=> \E i \in 1 .. Len(p) : c \in Letters(p[i])
        BY DEF Tell
      <3>2. c \in D <=> \E i \in 1 .. Len(q) : c \in Letters(q[i])
        BY DEF Tell
      <3>3. \A i \in 1 .. Len(p) : i \in 1 .. Len(r)
        BY <1>2
      <3>4. \A i \in 1 .. Len(q) : Len(p) + i \in 1 .. Len(r)
        BY <1>2
      <3>5. ASSUME c \in C PROVE \E i \in 1 .. Len(r) : c \in Letters(r[i])
        BY <1>2, <3>1, <3>3, <3>5
      <3>6. ASSUME c \in D PROVE \E i \in 1 .. Len(r) : c \in Letters(r[i])
        BY <1>2, <3>2, <3>4, <3>6
      <3> QED
        BY <1>3, <3>1, <3>2, <3>5, <3>6
    <2> QED
      BY <2>1
  <1> QED
    BY <1>1, <1>2, <1>4, <1>6, <1>7 DEF Tell

LEMMA TellNothing == Tell(<<>>, {})
  BY DEF Tell

LEMMA TellOne ==
    ASSUME NEW t \in Text, InOrder(t)
    PROVE  <<t>> \in Seq(Text) /\ Tell(<<t>>, Letters(t))
  BY DEF Tell

LEMMA TellMore ==
    ASSUME NEW p \in Seq(Text), NEW C, NEW t \in Text, Tell(p, C), InOrder(t), Precede(C, Letters(t))
    PROVE  Append(p, t) \in Seq(Text) /\ Tell(Append(p, t), C \union Letters(t))
  <1>1. PICK q : q = <<t>>
    OBVIOUS
  <1>2. q \in Seq(Text) /\ Tell(q, Letters(t))
    BY <1>1, TellOne
  <1>3. Append(p, t) = p \o q
    BY <1>1
  <1>4. Tell(p \o q, C \union Letters(t))
    BY <1>2, TellBoth
  <1>5. Append(p, t) \in Seq(Text)
    OBVIOUS
  <1> QED
    BY <1>3, <1>4, <1>5

-----------------------------------------------------------------------------
(* Chunking: pieces of a paragraph *)

Given == document \in Documents /\ setting \in Settings

LEMMA SettingGiven ==
    ASSUME Given
    PROVE  Size \in Nat \ {0} /\ Minimum \in Nat /\ 1 <= Minimum /\ Minimum <= Size /\ setting.overlap \in 0 .. Size - 1
  BY ChunkingAssumption DEF Given, Size, Minimum

\* A text that begins and ends with letters, and has single blanks.
Solid(t) ==
    /\ t \in Text /\ t # <<>> /\ InOrder(t) /\ ~Blank(t[1]) /\ ~Blank(t[Len(t)])
    /\ \A i \in 1 .. Len(t) - 1 : Blank(t[i]) => ~Blank(t[i + 1])

LEMMA SolidSlice ==
    ASSUME NEW t, Solid(t), NEW m \in 1 .. Len(t), NEW n \in m .. Len(t), ~Blank(t[m]), ~Blank(t[n])
    PROVE  Solid(SubSeq(t, m, n))
  <1>1. t \in Text /\ Len(t) \in Nat
    BY TextFacts DEF Solid
  <1>2. m \in 1 .. Len(t) + 1 /\ n \in m - 1 .. Len(t)
    BY <1>1
  <1>3. PICK s : s = SubSeq(t, m, n)
    OBVIOUS
  <1>4. s \in Text /\ InOrder(s)
    BY <1>1, <1>2, <1>3, LettersOfSlice DEF Solid
  <1>5. Len(s) = n - m + 1 /\ \A i \in 1 .. n - m + 1 : s[i] = t[m + i - 1]
    BY <1>1, <1>2, <1>3, Slice DEF Text
  <1>6. s[1] = t[m] /\ s[Len(s)] = t[n] /\ s # <<>>
    BY <1>1, <1>4, <1>5, TextFacts
  <1>7. ASSUME NEW i \in 1 .. Len(s) - 1, Blank(s[i]) PROVE ~Blank(s[i + 1])
    <2>1. m + i - 1 \in 1 .. Len(t) - 1 /\ (m + i - 1) + 1 = m + (i + 1) - 1 /\ i + 1 \in 1 .. n - m + 1
      BY <1>1, <1>5
    <2>2. i \in 1 .. n - m + 1
      BY <1>1, <1>5
    <2>3. s[i] = t[m + i - 1] /\ s[i + 1] = t[m + (i + 1) - 1]
      BY <1>5, <2>1, <2>2
    <2>4. s[i + 1] = t[(m + i - 1) + 1]
      BY <2>1, <2>3
    <2> QED
      BY <1>7, <2>1, <2>3, <2>4 DEF Solid
  <1> QED
    BY <1>3, <1>4, <1>6, <1>7 DEF Solid

Fine(t) == t \in Text /\ t # <<>> /\ Len(t) <= Size /\ (Size > 1 => Letters(t) # {})

\* What a paragraph is cut into.
WellCut(pieces, letters) ==
    /\ pieces \in Seq(Text) /\ Tell(pieces, letters)
    /\ \A i \in 1 .. Len(pieces) : Fine(pieces[i])
    /\ pieces # <<>> => ~Blank(pieces[1][1])

LEMMA SolidFine ==
    ASSUME Given, NEW t, Solid(t), Len(t) <= Size
    PROVE  Fine(t)
  <1>1. t \in Text /\ t # <<>> /\ ~Blank(t[1])
    BY DEF Solid
  <1>2. 1 \in 1 .. Len(t)
    BY <1>1, TextFacts
  <1>3. t[1] \in Letters(t)
    BY <1>1, <1>2, IsLetter
  <1> QED
    BY <1>1, <1>3 DEF Fine

LEMMA WellCutMore ==
    ASSUME Given, NEW p, NEW C, WellCut(p, C), NEW t, Solid(t), Len(t) <= Size, Precede(C, Letters(t))
    PROVE  WellCut(Append(p, t), C \union Letters(t))
  <1>1. p \in Seq(Text) /\ Tell(p, C) /\ t \in Text /\ InOrder(t) /\ Fine(t) /\ ~Blank(t[1])
    BY SolidFine DEF WellCut, Solid
  <1>2. PICK q : q = Append(p, t)
    OBVIOUS
  <1>3. q \in Seq(Text) /\ Tell(q, C \union Letters(t))
    BY <1>1, <1>2, TellMore
  <1>4. Len(q) = Len(p) + 1 /\ Len(p) \in Nat /\ q[Len(p) + 1] = t /\ \A i \in 1 .. Len(p) : q[i] = p[i]
    BY <1>1, <1>2
  <1>5. \A i \in 1 .. Len(q) : Fine(q[i])
    <2>1. \A i \in 1 .. Len(q) : i \in 1 .. Len(p) \/ i = Len(p) + 1
      BY <1>4
    <2> QED
      BY <1>1, <1>4, <2>1 DEF WellCut
  <1>6. ~Blank(q[1][1])
    <2>1. CASE p = <<>>
      BY <1>1, <1>4, <2>1
    <2>2. CASE p # <<>>
      <3>1. 1 \in 1 .. Len(p)
        BY <1>1, <2>2
      <3> QED
        BY <1>4, <2>2, <3>1 DEF WellCut
    <2> QED
      BY <2>1, <2>2
  <1> QED
    BY <1>2, <1>3, <1>5, <1>6 DEF WellCut

LEMMA WellCutBoth ==
    ASSUME NEW p, NEW q, NEW C, NEW D, WellCut(p, C), WellCut(q, D), Precede(C, D)
    PROVE  WellCut(p \o q, C \union D)
  <1>1. p \in Seq(Text) /\ Tell(p, C) /\ q \in Seq(Text) /\ Tell(q, D)
    BY DEF WellCut
  <1>2. PICK r : r = p \o q
    OBVIOUS
  <1>3. r \in Seq(Text) /\ Tell(r, C \union D)
    BY <1>1, <1>2, TellBoth
  <1>4. /\ Len(r) = Len(p) + Len(q) /\ Len(p) \in Nat /\ Len(q) \in Nat
        /\ \A i \in 1 .. Len(p) : r[i] = p[i]
        /\ \A i \in 1 .. Len(q) : r[Len(p) + i] = q[i]
    BY <1>1, <1>2
  <1>5. \A i \in 1 .. Len(r) : Fine(r[i])
    <2>1. ASSUME NEW i \in 1 .. Len(r), i \notin 1 .. Len(p) PROVE Fine(r[i])
      <3>1. i - Len(p) \in 1 .. Len(q) /\ i = Len(p) + (i - Len(p))
        BY <1>4, <2>1
      <3> QED
        BY <1>4, <3>1 DEF WellCut
    <2> QED
      BY <1>4, <2>1 DEF WellCut
  <1>6. ASSUME r # <<>> PROVE ~Blank(r[1][1])
    <2>1. CASE p = <<>>
      <3>1. r = q
        BY <1>1, <1>2, <2>1
      <3> QED
        BY <1>6, <3>1 DEF WellCut
    <2>2. CASE p # <<>>
      <3>1. 1 \in 1 .. Len(p)
        BY <1>1, <2>2
      <3> QED
        BY <1>4, <2>2, <3>1 DEF WellCut
    <2> QED
      BY <2>1, <2>2
  <1> QED
    BY <1>2, <1>3, <1>5, <1>6 DEF WellCut

\* Tiles of a solid text, none longer than the size and, but for the last, none a single character.
LEMMA Tiles ==
    ASSUME Given, NEW t, Solid(t), NEW count \in Nat \ {0}, NEW from, NEW to,
           \A i \in 1 .. count : /\ from[i] \in Nat /\ to[i] \in Nat /\ from[i] < to[i]
                                 /\ to[i] <= from[i] + Size /\ to[i] <= Len(t),
           from[1] = 0, to[count] = Len(t),
           \A i \in 2 .. count : from[i] = to[i - 1],
           \A i, j \in 1 .. count : i < j => to[i] <= from[j],
           \A i \in 1 .. count - 1 : Size > 1 => from[i] + 2 <= to[i]
    PROVE  WellCut([i \in 1 .. count |-> SubSeq(t, from[i] + 1, to[i])], Letters(t))
  <1>1. t \in Text /\ Len(t) \in Nat /\ InOrder(t) /\ Size \in Nat \ {0}
    BY TextFacts, SettingGiven DEF Solid
  <1>2. \A i \in 1 .. count : /\ from[i] \in Nat /\ to[i] \in Nat /\ from[i] < to[i]
                              /\ to[i] <= from[i] + Size /\ to[i] <= Len(t)
    OBVIOUS
  <1>3. PICK p : p = [i \in 1 .. count |-> SubSeq(t, from[i] + 1, to[i])]
    OBVIOUS
  <1>4. ASSUME NEW i \in 1 .. count
        PROVE  /\ p[i] \in Text /\ InOrder(p[i]) /\ Len(p[i]) = to[i] - from[i]
               /\ \A k \in 1 .. Len(p[i]) : p[i][k] = t[from[i] + k]
               /\ \A c : c \in Letters(p[i]) <=> \E k \in from[i] + 1 .. to[i] : ~Blank(t[k]) /\ c = t[k]
    <2>1. PICK m, n : m = from[i] + 1 /\ n = to[i]
      OBVIOUS
    <2>2. p[i] = SubSeq(t, m, n)
      BY <1>3, <2>1
    <2>3. m \in 1 .. Len(t) + 1 /\ n \in m - 1 .. Len(t) /\ m \in Nat /\ n \in Nat /\ from[i] \in Nat
      <3>1. PICK x \in Nat, y \in Nat : x = from[i] /\ y = to[i] /\ x < y /\ y <= Len(t)
        BY <1>2
      <3>2. PICK z \in Nat : z = Len(t)
        BY <1>1
      <3>3. m = x + 1 /\ n = y /\ from[i] = x
        BY <2>1, <3>1
      <3>4. x + 1 \in 1 .. z + 1 /\ y \in (x + 1) - 1 .. z /\ x + 1 \in Nat
        BY <3>1, <3>2
      <3> QED
        BY <3>2, <3>3, <3>4
    <2>4. /\ p[i] \in Text /\ InOrder(p[i])
          /\ \A c : c \in Letters(p[i]) <=> \E k \in m .. n : ~Blank(t[k]) /\ c = t[k]
      <3>1. /\ SubSeq(t, m, n) \in Text /\ InOrder(SubSeq(t, m, n))
            /\ \A c : c \in Letters(SubSeq(t, m, n)) <=> \E k \in m .. n : ~Blank(t[k]) /\ c = t[k]
        BY <1>1, <2>3, LettersOfSlice, Zenon
      <3> QED
        BY <2>2, <3>1
    <2>5. Len(p[i]) = n - m + 1 /\ \A k \in 1 .. n - m + 1 : p[i][k] = t[m + k - 1]
      BY <1>1, <2>2, <2>3, Slice DEF Text
    <2>6. Len(p[i]) = to[i] - from[i]
      BY <1>2, <2>1, <2>5
    <2>7. ASSUME NEW k \in 1 .. Len(p[i]) PROVE p[i][k] = t[from[i] + k]
      <3>1. m + k - 1 = from[i] + k /\ k \in 1 .. n - m + 1
        <4>1. k \in 1 .. n - m + 1 /\ k \in Nat
          BY <2>3, <2>5
        <4> QED
          BY <2>1, <2>3, <4>1
      <3> QED
        BY <2>5, <3>1
    <2> QED
      BY <2>1, <2>4, <2>6, <2>7
  <1>11. ASSUME NEW i \in 1 .. count
         PROVE  p[i] \in Text /\ Len(p[i]) \in Nat /\ Len(p[i]) = to[i] - from[i]
    BY <1>4, TextFacts
  <1>12. ASSUME NEW i \in 1 .. count, NEW c \in Letters(p[i])
         PROVE  \E k \in 1 .. Len(t) : from[i] < k /\ k <= to[i] /\ ~Blank(t[k]) /\ c = t[k]
    <2>1. \E k \in from[i] + 1 .. to[i] : ~Blank(t[k]) /\ c = t[k]
      <3>1. \A d : d \in Letters(p[i]) <=> \E k \in from[i] + 1 .. to[i] : ~Blank(t[k]) /\ d = t[k]
        BY <1>4
      <3> QED
        BY <1>12, <3>1, Zenon
    <2>2. PICK k \in from[i] + 1 .. to[i] : ~Blank(t[k]) /\ c = t[k]
      BY <2>1
    <2>3. k \in 1 .. Len(t) /\ from[i] < k /\ k <= to[i]
      <3>1. from[i] \in Nat /\ to[i] \in Nat /\ to[i] <= Len(t)
        BY <1>2
      <3> QED
        BY <1>1, <3>1
    <2> QED
      BY <2>2, <2>3
  <1>5. p \in Seq(Text) /\ Len(p) = count
    <2>1. \A i \in 1 .. count : SubSeq(t, from[i] + 1, to[i]) \in Text
      BY <1>3, <1>4
    <2>2. p \in [1 .. count -> Text]
      BY <1>3, <2>1
    <2> QED
      BY <2>2
  <1>6. \A i \in 1 .. count : Fine(p[i])
    <2>1. ASSUME NEW i \in 1 .. count PROVE Fine(p[i])
      <3>1. p[i] # <<>> /\ Len(p[i]) <= Size
        <4>1. Len(p[i]) # 0 /\ Len(p[i]) <= Size
          <5>1. from[i] \in Nat /\ to[i] \in Nat /\ from[i] < to[i] /\ to[i] <= from[i] + Size
            BY <1>2
          <5>2. Len(p[i]) = to[i] - from[i]
            BY <1>11
          <5>3. PICK l : l = Len(p[i])
            OBVIOUS
          <5>4. l # 0 /\ l <= Size
            BY <1>1, <5>1, <5>2, <5>3
          <5> QED
            BY <5>3, <5>4
        <4> QED
          BY <1>4, <4>1, TextFacts
      <3>2. ASSUME Size > 1 PROVE Letters(p[i]) # {}
        <4>1. CASE i = count
          <5>1. Len(t) \in from[i] + 1 .. to[i]
            BY <1>2, <4>1
          <5> QED
            BY <1>4, <5>1 DEF Solid
        <4>2. CASE i # count
          <5>1. i \in 1 .. count - 1
            BY <4>2
          <5>2. /\ from[i] + 1 \in from[i] + 1 .. to[i] /\ from[i] + 2 \in from[i] + 1 .. to[i]
                /\ from[i] + 1 \in 1 .. Len(t) - 1
            <6>1. from[i] \in Nat /\ to[i] \in Nat /\ to[i] <= Len(t) /\ from[i] + 2 <= to[i]
              BY <1>2, <3>2, <5>1
            <6> QED
              BY <1>1, <6>1, SMTT(30)
          <5>3. Blank(t[from[i] + 1]) => ~Blank(t[(from[i] + 1) + 1])
            BY <5>2 DEF Solid
          <5>4. (from[i] + 1) + 1 = from[i] + 2
            BY <1>2
          <5> QED
            BY <1>4, <5>2, <5>3, <5>4
        <4> QED
          BY <4>1, <4>2
      <3> QED
        BY <1>4, <3>1, <3>2 DEF Fine
    <2> QED
      BY <2>1
  <1>7. ~Blank(p[1][1])
    <2>1. 1 \in 1 .. count /\ 1 \in 1 .. Len(p[1])
      BY <1>2, <1>4
    <2> QED
      BY <1>4, <2>1 DEF Solid
  <1>8. ASSUME NEW i \in 1 .. count, NEW j \in 1 .. count, i < j PROVE Precede(Letters(p[i]), Letters(p[j]))
    <2>1. to[i] <= from[j]
      BY <1>8
    <2>3. ASSUME NEW c \in Letters(p[i]), NEW d \in Letters(p[j]) PROVE Ahead(c, d)
      <3>1. PICK k \in 1 .. Len(t) : k <= to[i] /\ ~Blank(t[k]) /\ c = t[k]
        BY <1>12
      <3>2. PICK l \in 1 .. Len(t) : from[j] < l /\ ~Blank(t[l]) /\ d = t[l]
        BY <1>12
      <3>3. k < l
        BY <1>1, <1>2, <2>1, <3>1, <3>2
      <3> QED
        BY <1>1, <3>1, <3>2, <3>3, TextFacts DEF InOrder
    <2> QED
      BY <2>3 DEF Precede
  <1>9. ASSUME NEW c PROVE (\E i \in 1 .. count : c \in Letters(p[i])) <=> c \in Letters(t)
    <2>1. ASSUME NEW i \in 1 .. count, c \in Letters(p[i]) PROVE c \in Letters(t)
      BY <1>1, <1>12, <2>1, IsLetter
    <2>2. ASSUME NEW k \in 1 .. Len(t), ~Blank(t[k]) PROVE \E i \in 1 .. count : t[k] \in Letters(p[i])
      <3> DEFINE U == {i \in 1 .. count : k <= to[i]}
      <3>1. count \in U /\ U \in SUBSET Nat
        OBVIOUS
      <3>2. PICK i \in U : \A j \in U : i <= j
        <4> HIDE DEF U
        <4> QED
          BY <3>1, LeastNumber
      <3>3. from[i] < k
        <4>1. CASE i = 1
          BY <4>1
        <4>2. CASE i # 1
          <5>1. i - 1 \in 1 .. count /\ i - 1 < i /\ i \in 2 .. count
            BY <4>2
          <5>2. i - 1 \notin U
            BY <3>2, <5>1
          <5> QED
            BY <1>2, <5>1, <5>2
        <4> QED
          BY <4>1, <4>2
      <3>4. k \in from[i] + 1 .. to[i]
        BY <1>2, <3>2, <3>3
      <3> QED
        BY <1>4, <2>2, <3>2, <3>4
    <2> QED
      <3>1. ASSUME c \in Letters(t) PROVE \E i \in 1 .. count : c \in Letters(p[i])
        <4>1. PICK k \in 1 .. Len(t) : ~Blank(t[k]) /\ c = t[k]
          BY <1>1, <3>1, IsLetter
        <4> QED
          BY <2>2, <4>1
      <3> QED
        BY <2>1, <3>1
  <1>10. Tell(p, Letters(t))
    BY <1>4, <1>5, <1>8, <1>9 DEF Tell
  <1> QED
    BY <1>3, <1>5, <1>6, <1>7, <1>10 DEF WellCut

-----------------------------------------------------------------------------
(* Chunking: arithmetic *)

LEMMA MinOfTwo ==
    ASSUME NEW a \in Nat, NEW b \in Nat
    PROVE  Min({a, b}) = IF a <= b THEN a ELSE b
  <1>1. {a, b} \in SUBSET Nat /\ {a, b} # {}
    OBVIOUS
  <1>2. Min({a, b}) \in {a, b} /\ \A k \in {a, b} : Min({a, b}) <= k
    BY <1>1, SmallestNumber
  <1> QED
    BY <1>2

Quotient(a, b) == a \div b
Remainder(a, b) == a % b

LEMMA Division ==
    ASSUME NEW a \in Nat, NEW b \in Nat \ {0}
    PROVE  Quotient(a, b) \in Nat /\ Remainder(a, b) \in 0 .. b - 1 /\ a = b * Quotient(a, b) + Remainder(a, b)
  <1>1. PICK q, r : q = a \div b /\ r = a % b
    OBVIOUS
  <1>2. a \div b \in Nat
    OBVIOUS
  <1>3. a % b \in 0 .. b - 1
    OBVIOUS
  <1>4. a = b * q + r
    BY <1>1
  <1> QED
    BY <1>1, <1>2, <1>3, <1>4 DEF Quotient, Remainder

LEMMA Multiples ==
    ASSUME NEW a \in Nat, NEW b \in Nat, NEW c \in Nat, a <= b
    PROVE  a * c <= b * c /\ a * c \in Nat /\ b * c \in Nat
  <1>1. b - a \in Nat
    OBVIOUS
  <1>2. (b - a) * c \in Nat
    BY <1>1
  <1>3. b * c = a * c + (b - a) * c
    OBVIOUS
  <1>4. a * c \in Nat /\ b * c \in Nat
    OBVIOUS
  <1> QED
    BY <1>2, <1>3, <1>4

LEMMA NextMultiple ==
    ASSUME NEW a \in Nat, NEW c \in Nat
    PROVE  (a + 1) * c = a * c + c
  OBVIOUS

\* Where count parts of the length a begin, the first r of them one longer.
PlacedEvenly(S, count, a, r) == \A i \in 1 .. count + 1 : S[i] = (i - 1) * a + Min({i - 1, r})
SpacedEvenly(S, count, a, r) ==
    /\ S[1] = 0 /\ S[count + 1] = count * a + r
    /\ \A i \in 1 .. count + 1 : S[i] \in Nat
    /\ \A i \in 1 .. count : S[i + 1] = S[i] + a \/ (S[i + 1] = S[i] + a + 1 /\ r > 0)
    /\ \A i, j \in 1 .. count + 1 : i <= j => S[i] <= S[j]

LEMMA EvenPlaces ==
    ASSUME NEW count \in Nat \ {0}, NEW a \in Nat \ {0}, NEW r \in Nat, r <= count,
           NEW S, PlacedEvenly(S, count, a, r)
    PROVE  SpacedEvenly(S, count, a, r)
  <1>1. ASSUME NEW i \in 1 .. count + 1
        PROVE  /\ i - 1 \in Nat /\ (i - 1) * a \in Nat
               /\ S[i] = (i - 1) * a + (IF i - 1 <= r THEN i - 1 ELSE r)
    <2>1. i - 1 \in Nat
      OBVIOUS
    <2>2. Min({i - 1, r}) = IF i - 1 <= r THEN i - 1 ELSE r
      BY <2>1, MinOfTwo
    <2>3. (i - 1) * a \in Nat
      BY <2>1, Multiples
    <2>4. S[i] = (i - 1) * a + Min({i - 1, r})
      BY DEF PlacedEvenly
    <2> QED
      BY <2>1, <2>2, <2>3, <2>4
  <1>2. \A i \in 1 .. count + 1 : S[i] \in Nat
    BY <1>1
  <1>3. S[1] = 0
    <2>1. 1 \in 1 .. count + 1 /\ (1 - 1) * a = 0
      OBVIOUS
    <2> QED
      BY <1>1, <2>1
  <1>4. S[count + 1] = count * a + r
    <2>1. count + 1 \in 1 .. count + 1 /\ (count + 1) - 1 = count
      OBVIOUS
    <2> QED
      BY <1>1, <2>1
  <1>5. ASSUME NEW i \in 1 .. count
        PROVE  S[i + 1] = S[i] + a \/ (S[i + 1] = S[i] + a + 1 /\ r > 0)
    <2>1. i \in 1 .. count + 1 /\ i + 1 \in 1 .. count + 1 /\ i - 1 \in Nat /\ (i + 1) - 1 = i
      OBVIOUS
    <2>2. PICK x \in Nat : x = (i - 1) * a
      BY <1>1, <2>1
    <2>3. i * a = x + a
      BY <2>1, <2>2
    <2>4. S[i] = x + (IF i - 1 <= r THEN i - 1 ELSE r)
      BY <1>1, <2>1, <2>2
    <2>5. S[i + 1] = (x + a) + (IF i <= r THEN i ELSE r)
      BY <1>1, <2>1, <2>3
    <2> QED
      BY <2>1, <2>4, <2>5
  <1>6. ASSUME NEW i \in 1 .. count + 1, NEW j \in 1 .. count + 1, i <= j PROVE S[i] <= S[j]
    <2>1. i - 1 \in Nat /\ j - 1 \in Nat /\ i - 1 <= j - 1
      BY <1>6
    <2>2. (i - 1) * a <= (j - 1) * a
      BY <2>1, Multiples
    <2>3. PICK x \in Nat, y \in Nat : x = (i - 1) * a /\ y = (j - 1) * a
      BY <1>1
    <2>4. /\ S[i] = x + (IF i - 1 <= r THEN i - 1 ELSE r)
          /\ S[j] = y + (IF j - 1 <= r THEN j - 1 ELSE r)
      BY <1>1, <2>3
    <2> QED
      BY <2>1, <2>2, <2>3, <2>4
  <1> QED
    BY <1>2, <1>3, <1>4, <1>5, <1>6 DEF SpacedEvenly

LEMMA HardSplitSound ==
    ASSUME Given, NEW t, Solid(t), Len(t) > Size
    PROVE  WellCut(HardSplit(t), Letters(t))
  <1> DEFINE L == Len(t)
             count == (Len(t) + Size - 1) \div Size
             tail == Len(t) % Size
             even == tail \in 1 .. Minimum - 1 /\ count > 1 /\ Len(t) >= count * Minimum
             length == Len(t) \div count
             larger == Len(t) % count
             Begin(i) == IF even THEN (i - 1) * length + Min({i - 1, larger}) ELSE (i - 1) * Size
             from == [i \in 1 .. count |-> Begin(i)]
             to == [i \in 1 .. count |-> Min({Begin(i + 1), Len(t)})]
  <1>1. HardSplit(t) = [i \in 1 .. count |-> SubSeq(t, from[i] + 1, to[i])]
    BY DEF HardSplit
  <1>2. L \in Nat /\ Size \in Nat \ {0} /\ Minimum \in Nat /\ 1 <= Minimum /\ Minimum <= Size /\ L > Size
    BY TextFacts, SettingGiven DEF Solid
  <1>3. count \in Nat \ {0} /\ (count - 1) * Size < L /\ L <= count * Size
    <2>1. PICK a, c, r : a = Len(t) + Size - 1 /\ c = Quotient(a, Size) /\ r = Remainder(a, Size) /\ c = count
      BY DEF Quotient
    <2>2. a \in Nat /\ a = Len(t) + Size - 1
      BY <1>2, <2>1
    <2>9. c \in Nat /\ r \in 0 .. Size - 1 /\ a = Size * c + r
      BY <1>2, <2>1, <2>2, Division
    <2>3. c \in Nat /\ r \in 0 .. Size - 1 /\ Len(t) + Size - 1 = Size * c + r
      BY <2>2, <2>9
    <2>4. c # 0
      <3>1. Len(t) + Size - 1 > Size /\ Size * 0 = 0
        BY <1>2
      <3> QED
        BY <1>2, <2>3, <3>1
    <2>5. PICK x : x = Size * c
      OBVIOUS
    <2>6. x \in Nat /\ c * Size = x /\ (c - 1) * Size = x - Size
      BY <1>2, <2>3, <2>5
    <2>7. L + Size - 1 = x + r
      BY <2>3, <2>5
    <2> HIDE DEF count
    <2>8. x - Size < L /\ L <= x
      BY <1>2, <2>3, <2>6, <2>7
    <2> QED
      BY <2>1, <2>3, <2>4, <2>6, <2>8
  <1> DEFINE places == [i \in 1 .. count + 1 |-> Begin(i)]
  <1>4. /\ \A i \in 1 .. count + 1 : Begin(i) \in Nat
        /\ Begin(1) = 0
        /\ \A i, j \in 1 .. count + 1 : i <= j => Begin(i) <= Begin(j)
        /\ \A i \in 1 .. count : Begin(i) < Begin(i + 1) /\ Begin(i + 1) <= Begin(i) + Size
        /\ \A i \in 1 .. count : i < count => Begin(i + 1) <= L
        /\ Begin(count) < L /\ L <= Begin(count + 1)
        /\ \A i \in 1 .. count : Size > 1 => Begin(i) + 2 <= Begin(i + 1)
    <2>1. CASE even
      <3>1. PICK a, r : a = length /\ r = larger /\ a = Quotient(L, count) /\ r = Remainder(L, count)
        BY DEF Quotient, Remainder
      <3>2. a \in Nat /\ r \in 0 .. count - 1 /\ L = count * a + r
        <4> HIDE DEF count
        <4> QED
          BY <1>2, <1>3, <3>1, Division
      <3>3. a >= Minimum /\ Minimum >= 2
        <4>1. Minimum >= 2
          BY <1>2, <2>1
        <4>2. ASSUME a < Minimum PROVE FALSE
          <5> HIDE DEF count
          <5>1. a + 1 \in Nat /\ a + 1 <= Minimum
            BY <1>2, <3>2, <4>2
          <5>2. (a + 1) * count <= Minimum * count
            BY <1>2, <1>3, <5>1, Multiples
          <5>3. (a + 1) * count = count * a + count /\ Minimum * count = count * Minimum
            BY <1>2, <1>3, <3>2
          <5>4. L >= count * Minimum
            BY <2>1
          <5>5. PICK x, y : x = count * a /\ y = count * Minimum
            OBVIOUS
          <5>6. x \in Nat /\ y \in Nat
            BY <1>2, <1>3, <3>2, <5>5
          <5>7. x + count <= y /\ x + r >= y
            BY <3>2, <5>2, <5>3, <5>4, <5>5
          <5> QED
            BY <1>3, <3>2, <5>6, <5>7
        <4> QED
          BY <1>2, <3>2, <4>1, <4>2
      <3>4. a <= Size /\ (r > 0 => a + 1 <= Size)
        <4> HIDE DEF count
        <4>1. ASSUME a > Size \/ (r > 0 /\ a + 1 > Size) PROVE FALSE
          <5>1. Size <= a
            BY <1>2, <3>2, <4>1
          <5>2. Size * count <= a * count
            BY <1>2, <1>3, <3>2, <5>1, Multiples
          <5>3. Size * count = count * Size /\ a * count = count * a
            BY <1>2, <1>3, <3>2
          <5>4. PICK x, y : x = count * a /\ y = count * Size
            OBVIOUS
          <5>5. x \in Nat /\ y \in Nat /\ y <= x /\ x + r <= y
            BY <1>2, <1>3, <3>2, <5>2, <5>3, <5>4
          <5>6. r = 0 /\ x = y
            BY <3>2, <5>5
          <5>7. a >= Size + 1
            BY <1>2, <3>2, <4>1, <5>6
          <5>8. (Size + 1) * count <= a * count
            BY <1>2, <1>3, <3>2, <5>7, Multiples
          <5>9. (Size + 1) * count = count * Size + count
            BY <1>2, <1>3
          <5>10. y + count <= x
            BY <5>3, <5>4, <5>8, <5>9
          <5> QED
            BY <1>3, <5>5, <5>6, <5>10
        <4> QED
          BY <1>2, <3>2, <4>1
      <3>5. \A i \in 1 .. count + 1 : places[i] = (i - 1) * a + Min({i - 1, r})
        BY <2>1, <3>1
      <3>6. /\ places[1] = 0 /\ places[count + 1] = count * a + r
            /\ \A i \in 1 .. count + 1 : places[i] \in Nat
            /\ \A i \in 1 .. count : places[i + 1] = places[i] + a \/ (places[i + 1] = places[i] + a + 1 /\ r > 0)
            /\ \A i, j \in 1 .. count + 1 : i <= j => places[i] <= places[j]
        <4>1. a \in Nat \ {0} /\ r \in Nat /\ r <= count
          BY <1>2, <1>3, <3>2, <3>3
        <4> HIDE DEF places, count
        <4> QED
          <5>1. PICK S : S = places
            OBVIOUS
          <5>2. PlacedEvenly(S, count, a, r)
            BY <3>5, <5>1 DEF PlacedEvenly
          <5>3. SpacedEvenly(S, count, a, r)
            BY <1>3, <4>1, <5>2, EvenPlaces
          <5> QED
            BY <5>1, <5>3 DEF SpacedEvenly
      <3>7. \A i \in 1 .. count + 1 : places[i] = Begin(i)
        OBVIOUS
      <3> HIDE DEF places, Begin, count, L
      <3>8. \A i \in 1 .. count : i \in 1 .. count + 1 /\ i + 1 \in 1 .. count + 1
        BY <1>3
      <3>9. 1 \in 1 .. count + 1 /\ count + 1 \in 1 .. count + 1 /\ count \in 1 .. count
        BY <1>3
      <3>10. /\ Begin(1) = 0 /\ Begin(count + 1) = L
             /\ \A i \in 1 .. count + 1 : Begin(i) \in Nat
             /\ \A i \in 1 .. count : Begin(i + 1) = Begin(i) + a \/ (Begin(i + 1) = Begin(i) + a + 1 /\ r > 0)
             /\ \A i, j \in 1 .. count + 1 : i <= j => Begin(i) <= Begin(j)
        BY <3>2, <3>6, <3>7, <3>8, <3>9
      <3>11. ASSUME NEW i \in 1 .. count
             PROVE  Begin(i) < Begin(i + 1) /\ Begin(i + 1) <= Begin(i) + Size /\ Begin(i) + 2 <= Begin(i + 1)
        <4>1. Begin(i) \in Nat /\ (Begin(i + 1) = Begin(i) + a \/ (Begin(i + 1) = Begin(i) + a + 1 /\ r > 0))
          BY <3>8, <3>10
        <4> QED
          BY <1>2, <3>2, <3>3, <3>4, <4>1
      <3>12. \A i \in 1 .. count : Begin(i + 1) <= L
        <4>1. ASSUME NEW i \in 1 .. count PROVE i + 1 <= count + 1
          BY <1>3
        <4> QED
          BY <3>8, <3>9, <3>10, <4>1
      <3> QED
        BY <1>2, <3>9, <3>10, <3>11, <3>12
    <2>2. CASE ~even
      <3>1. \A i : Begin(i) = (i - 1) * Size
        BY <2>2
      <3> HIDE DEF Begin, count, L, even
      <3>2. ASSUME NEW i \in 1 .. count + 1
            PROVE  /\ i - 1 \in Nat /\ (i - 1) * Size \in Nat
                   /\ (i + 1 - 1) * Size = (i - 1) * Size + Size
        <4>1. i - 1 \in Nat /\ (i - 1) + 1 = i + 1 - 1
          BY <1>3
        <4> QED
          BY <1>2, <4>1, Multiples, NextMultiple
      <3>3. \A i \in 1 .. count + 1 : Begin(i) \in Nat /\ Begin(i + 1) = Begin(i) + Size
        BY <3>1, <3>2
      <3>4. Begin(1) = 0
        <4>1. (1 - 1) * Size = 0
          BY <1>2
        <4> QED
          BY <3>1, <4>1
      <3>5. ASSUME NEW i \in 1 .. count + 1, NEW j \in 1 .. count + 1, i <= j PROVE Begin(i) <= Begin(j)
        <4>1. i - 1 \in Nat /\ j - 1 \in Nat /\ i - 1 <= j - 1
          BY <1>3, <3>5
        <4> QED
          BY <1>2, <3>1, <4>1, Multiples
      <3>6. Begin(count) < L /\ L <= Begin(count + 1)
        <4>1. (count + 1) - 1 = count
          BY <1>3
        <4>2. Begin(count + 1) = count * Size
          BY <3>1, <4>1
        <4> QED
          BY <1>3, <3>1, <4>2
      <3>7. ASSUME NEW i \in 1 .. count, i < count PROVE Begin(i + 1) <= L
        <4>1. i + 1 \in 1 .. count + 1 /\ count \in 1 .. count + 1 /\ i + 1 <= count
          BY <1>3, <3>7
        <4>2. Begin(i + 1) <= Begin(count) /\ Begin(i + 1) \in Nat /\ Begin(count) \in Nat
          BY <3>3, <3>5, <4>1
        <4> QED
          BY <1>2, <3>6, <4>2
      <3>8. \A i \in 1 .. count : i \in 1 .. count + 1
        BY <1>3
      <3>9. ASSUME NEW i \in 1 .. count
            PROVE  /\ Begin(i) < Begin(i + 1) /\ Begin(i + 1) <= Begin(i) + Size
                   /\ Size > 1 => Begin(i) + 2 <= Begin(i + 1)
        <4>1. Begin(i) \in Nat /\ Begin(i + 1) = Begin(i) + Size
          BY <3>3, <3>8
        <4> QED
          BY <1>2, <4>1
      <3> QED
        BY <3>3, <3>4, <3>5, <3>6, <3>7, <3>9
    <2> QED
      BY <2>1, <2>2
  <1>5. \A i \in 1 .. count : from[i] = Begin(i) /\ to[i] = Min({Begin(i + 1), Len(t)})
    OBVIOUS
  <1> HIDE DEF from, to, Begin, count, even
  <1>6. ASSUME NEW i \in 1 .. count
        PROVE  /\ to[i] \in Nat /\ to[i] <= Len(t) /\ to[i] <= Begin(i + 1)
               /\ i < count => to[i] = Begin(i + 1)
               /\ i = count => to[i] = Len(t)
    <2>1. i \in 1 .. count + 1 /\ i + 1 \in 1 .. count + 1
      BY <1>3
    <2>2. Begin(i + 1) \in Nat
      BY <1>4, <2>1
    <2>3. to[i] = IF Begin(i + 1) <= Len(t) THEN Begin(i + 1) ELSE Len(t)
      BY <1>2, <1>5, <2>2, MinOfTwo
    <2>4. /\ i < count => Begin(i + 1) <= Len(t)
          /\ i = count => Len(t) <= Begin(i + 1)
      BY <1>4
    <2> QED
      BY <1>2, <2>2, <2>3, <2>4
  <1>7. ASSUME NEW i \in 1 .. count
        PROVE  /\ from[i] \in Nat /\ to[i] \in Nat /\ from[i] < to[i]
               /\ to[i] <= from[i] + Size /\ to[i] <= Len(t)
    <2>1. i \in 1 .. count + 1 /\ i + 1 \in 1 .. count + 1 /\ (i < count \/ i = count)
      BY <1>3
    <2>2. /\ Begin(i) \in Nat /\ Begin(i + 1) \in Nat
          /\ Begin(i) < Begin(i + 1) /\ Begin(i + 1) <= Begin(i) + Size
      BY <1>4, <2>1
    <2>3. i = count => Begin(i) < Len(t)
      BY <1>4
    <2>4. /\ from[i] = Begin(i) /\ to[i] \in Nat /\ to[i] <= Len(t) /\ to[i] <= Begin(i + 1)
          /\ to[i] = Begin(i + 1) \/ (to[i] = Len(t) /\ i = count)
      BY <1>5, <1>6, <2>1
    <2> QED
      BY <1>2, <2>2, <2>3, <2>4
  <1>8. from[1] = 0 /\ to[count] = Len(t)
    <2>1. 1 \in 1 .. count /\ count \in 1 .. count
      BY <1>3
    <2> QED
      BY <1>4, <1>5, <1>6, <2>1
  <1>9. \A i \in 2 .. count : from[i] = to[i - 1]
    <2>1. ASSUME NEW i \in 2 .. count PROVE from[i] = to[i - 1]
      <3>1. i - 1 \in 1 .. count /\ i - 1 < count /\ (i - 1) + 1 = i /\ i \in 1 .. count
        BY <1>3
      <3> QED
        BY <1>5, <1>6, <3>1
    <2> QED
      BY <2>1
  <1>10. \A i, j \in 1 .. count : i < j => to[i] <= from[j]
    <2>1. ASSUME NEW i \in 1 .. count, NEW j \in 1 .. count, i < j PROVE to[i] <= from[j]
      <3>1. i + 1 \in 1 .. count + 1 /\ j \in 1 .. count + 1 /\ i + 1 <= j /\ i < count
        BY <1>3, <2>1
      <3>2. Begin(i + 1) <= Begin(j)
        BY <1>4, <3>1
      <3> QED
        BY <1>5, <1>6, <3>1, <3>2
    <2> QED
      BY <2>1
  <1>11. \A i \in 1 .. count - 1 : Size > 1 => from[i] + 2 <= to[i]
    <2>1. ASSUME NEW i \in 1 .. count - 1, Size > 1 PROVE from[i] + 2 <= to[i]
      <3>1. i \in 1 .. count /\ i < count
        BY <1>3
      <3> QED
        BY <1>4, <1>5, <1>6, <2>1, <3>1
    <2> QED
      BY <2>1
  <1> HIDE DEF L
  <1>12. WellCut([i \in 1 .. count |-> SubSeq(t, from[i] + 1, to[i])], Letters(t))
    BY <1>3, <1>7, <1>8, <1>9, <1>10, <1>11, Tiles
  <1> QED
    BY <1>1, <1>12


\* How the pieces of a text come about, character by character.
LEMMA SplitReads ==
    ASSUME NEW t \in Text, NEW cuts
    PROVE  \E h : /\ h[0] = Nothing
                  /\ \A n \in 1 .. Len(t) : h[n] = AddCharacter(h[n - 1], t[n], n \in cuts)
                  /\ Split(t, cuts) = Append(h[Len(t)].pieces, h[Len(t)].current)
  <1> DEFINE X == [pieces : Seq(Text), current : Text]
             N == Len(t)
             after(n, g) == AddCharacter(g, t[n], n \in cuts)
             Is(h) == h = [n \in 0 .. Len(t) |-> IF n = 0 THEN Nothing ELSE AddCharacter(h[n - 1], t[n], n \in cuts)]
             Found == CHOOSE h : Is(h)
  <1>1. N \in Nat /\ Nothing \in X
    <2>1. <<>> \in Seq(Text)
      OBVIOUS
    <2> QED
      BY <2>1, TextFacts, BlankTexts DEF Nothing, Begun
  <1>2. ASSUME NEW n \in 1 .. N, NEW g \in X PROVE after(n, g) \in X
    <2>1. t[n] \in Characters
      BY TextFacts
    <2>2. g.pieces \in Seq(Text) /\ g.current \in Text
      OBVIOUS
    <2>3. Append(g.pieces, g.current) \in Seq(Text)
      BY <2>2
    <2>4. Append(g.current, t[n]) \in Text
      BY <2>1, <2>2 DEF Text
    <2> QED
      BY <2>2, <2>3, <2>4, BlankTexts DEF AddCharacter, Begun
  <1>3. PICK step \in [1 .. N -> [X -> X]] : \A n \in 1 .. N : \A g \in X : step[n][g] = after(n, g)
    <2>1. [n \in 1 .. N |-> [g \in X |-> after(n, g)]] \in [1 .. N -> [X -> X]]
      <3> HIDE DEF X, N, after
      <3> QED
        BY <1>2
    <2> HIDE DEF X, N, after
    <2> QED
      BY <2>1
  <1>4. PICK f \in [0 .. N -> X] : Follows(f, N, Nothing, step)
    <2> HIDE DEF X, N
    <2> QED
      BY <1>1, RecursionDefines
  <1>5. ASSUME NEW n \in 1 .. N PROVE f[n] = after(n, f[n - 1])
    <2> HIDE DEF X, after
    <2>1. n - 1 \in 0 .. N
      BY <1>1
    <2> QED
      BY <1>3, <1>4, <2>1 DEF Follows
  <1>6. Is(f)
    <2>1. \A n \in 0 .. N : f[n] = IF n = 0 THEN Nothing ELSE after(n, f[n - 1])
      <3> HIDE DEF X, after
      <3> QED
        BY <1>1, <1>4, <1>5 DEF Follows
    <2> QED
      BY <1>4, <2>1
  <1>7. Is(Found)
    <2> HIDE DEF Is
    <2> QED
      BY <1>6
  <1>8. PICK h : h = Found /\ Is(h)
    <2> HIDE DEF Is
    <2> QED
      BY <1>7
  <1>9. Split(t, cuts) = Append(h[N].pieces, h[N].current)
    BY <1>8 DEF Split
  <1> HIDE DEF Found
  <1>10. h[0] = Nothing
    BY <1>1, <1>8
  <1>11. ASSUME NEW n \in 1 .. N PROVE h[n] = after(n, h[n - 1])
    <2>1. n \in 0 .. N /\ n # 0
      BY <1>1
    <2> QED
      BY <1>8, <2>1
  <1> QED
    BY <1>9, <1>10, <1>11


\* What has been read of t: solid pieces, and the current one since the last cut.
CutAs(t, cuts, n, begun) ==
    /\ begun.pieces \in Seq(Text) /\ \A i \in 1 .. Len(begun.pieces) : Solid(begun.pieces[i])
    /\ \E s \in 0 .. n : /\ s = 0 \/ s \in cuts
                         /\ begun.current = SubSeq(t, s + 1, n)
                         /\ Tell(begun.pieces, Letters(SubSeq(t, 1, s)))

Cuts(t) == {k \in 2 .. Len(t) - 1 : Blank(t[k])}

LEMMA SolidMore ==
    ASSUME NEW p \in Seq(Text), \A i \in 1 .. Len(p) : Solid(p[i]), NEW t, Solid(t)
    PROVE  /\ Append(p, t) \in Seq(Text)
           /\ \A i \in 1 .. Len(Append(p, t)) : Solid(Append(p, t)[i])
  <1>1. t \in Text
    BY DEF Solid
  <1>2. PICK q : q = Append(p, t)
    OBVIOUS
  <1>3. q \in Seq(Text) /\ Len(q) = Len(p) + 1 /\ Len(p) \in Nat /\ q[Len(p) + 1] = t /\ \A i \in 1 .. Len(p) : q[i] = p[i]
    BY <1>1, <1>2
  <1>4. \A i \in 1 .. Len(q) : i \in 1 .. Len(p) \/ i = Len(p) + 1
    BY <1>3
  <1> QED
    BY <1>2, <1>3, <1>4

\* The piece of a text from one place to another, and what comes before it.
LEMMA NextPiece ==
    ASSUME NEW t, Solid(t), NEW s \in 0 .. Len(t), NEW e \in s + 1 .. Len(t), ~Blank(t[s + 1]), ~Blank(t[e])
    PROVE  /\ Solid(SubSeq(t, s + 1, e))
           /\ Precede(Letters(SubSeq(t, 1, s)), Letters(SubSeq(t, s + 1, e)))
           /\ Letters(SubSeq(t, 1, s)) \union Letters(SubSeq(t, s + 1, e)) = Letters(SubSeq(t, 1, e))
  <1>1. t \in Text /\ Len(t) \in Nat /\ InOrder(t) /\ DOMAIN t = 1 .. Len(t)
    BY TextFacts DEF Solid
  <1>2. Solid(SubSeq(t, s + 1, e))
    BY <1>1, SolidSlice
  <1>3. /\ 1 \in 1 .. Len(t) + 1 /\ s \in 1 - 1 .. Len(t) /\ e \in 1 - 1 .. Len(t)
        /\ s + 1 \in 1 .. Len(t) + 1 /\ e \in (s + 1) - 1 .. Len(t)
    BY <1>1
  <1> DEFINE a == SubSeq(t, 1, s)
             b == SubSeq(t, s + 1, e)
             c == SubSeq(t, 1, e)
  <1>5. \A x : x \in Letters(a) <=> \E k \in 1 .. s : ~Blank(t[k]) /\ x = t[k]
    BY <1>1, <1>3, LettersOfSlice
  <1>6. \A x : x \in Letters(b) <=> \E k \in s + 1 .. e : ~Blank(t[k]) /\ x = t[k]
    BY <1>1, <1>3, LettersOfSlice
  <1>7. \A x : x \in Letters(c) <=> \E k \in 1 .. e : ~Blank(t[k]) /\ x = t[k]
    BY <1>1, <1>3, LettersOfSlice
  <1> HIDE DEF a, b, c
  <1>8. /\ \A k : k \in 1 .. e <=> k \in 1 .. s \/ k \in s + 1 .. e
        /\ \A k \in 1 .. s, l \in s + 1 .. e : k \in 1 .. Len(t) /\ l \in 1 .. Len(t) /\ k < l
    BY <1>1
  <1>9. Letters(a) \union Letters(b) = Letters(c)
    <2>1. \A x : x \in Letters(c) <=> x \in Letters(a) \/ x \in Letters(b)
      BY <1>5, <1>6, <1>7, <1>8, Zenon
    <2> QED
      BY <2>1
  <1>10. Precede(Letters(a), Letters(b))
    <2>1. ASSUME NEW x \in Letters(a), NEW y \in Letters(b) PROVE Ahead(x, y)
      <3>1. PICK k \in 1 .. s : ~Blank(t[k]) /\ x = t[k]
        BY <1>5, Zenon
      <3>2. PICK l \in s + 1 .. e : ~Blank(t[l]) /\ y = t[l]
        BY <1>6, Zenon
      <3>3. k \in 1 .. Len(t) /\ l \in 1 .. Len(t) /\ k < l
        BY <1>8
      <3> QED
        BY <1>1, <3>1, <3>2, <3>3 DEF InOrder
    <2> QED
      BY <2>1 DEF Precede
  <1> QED
    BY <1>2, <1>9, <1>10 DEF a, b, c

LEMMA AfterCut ==
    ASSUME NEW t, Solid(t), NEW s \in 0 .. Len(t), s = 0 \/ s \in Cuts(t)
    PROVE  s + 1 \in 1 .. Len(t) /\ ~Blank(t[s + 1])
  <1>1. t \in Text /\ Len(t) \in Nat /\ Len(t) # 0
    BY TextFacts DEF Solid
  <1>2. CASE s = 0
    BY <1>1, <1>2 DEF Solid
  <1>3. CASE s \in Cuts(t)
    <2>1. s \in 1 .. Len(t) - 1 /\ Blank(t[s])
      BY <1>1, <1>3 DEF Cuts
    <2> QED
      BY <1>1, <2>1 DEF Solid
  <1> QED
    BY <1>2, <1>3

LEMMA SplitSound ==
    ASSUME NEW t, Solid(t), NEW cuts \in SUBSET Cuts(t)
    PROVE  LET pieces == Split(t, cuts)
           IN pieces \in Seq(Text) /\ (\A i \in 1 .. Len(pieces) : Solid(pieces[i])) /\ Tell(pieces, Letters(t))
  <1>1. t \in Text /\ Len(t) \in Nat /\ Len(t) # 0
    BY TextFacts DEF Solid
  <1>2. PICK h : /\ h[0] = Nothing
                 /\ \A n \in 1 .. Len(t) : h[n] = AddCharacter(h[n - 1], t[n], n \in cuts)
                 /\ Split(t, cuts) = Append(h[Len(t)].pieces, h[Len(t)].current)
    BY <1>1, SplitReads
  <1> DEFINE S == {n \in 0 .. Len(t) : CutAs(t, cuts, n, h[n])}
  <1>3. 0 \in S
    <2>1. h[0].pieces = <<>> /\ h[0].current = <<>>
      BY <1>2 DEF Nothing, Begun
    <2>2. SubSeq(t, 0 + 1, 0) = <<>> /\ SubSeq(t, 1, 0) = <<>>
      BY <1>1 DEF Text
    <2>3. <<>> \in Seq(Text) /\ Len(<<>>) = 0 /\ Tell(<<>>, Letters(<<>>))
      BY TellNothing, BlankTexts
    <2>4. CutAs(t, cuts, 0, h[0])
      <3>1. \E s \in 0 .. 0 : /\ s = 0 \/ s \in cuts
                              /\ h[0].current = SubSeq(t, s + 1, 0)
                              /\ Tell(h[0].pieces, Letters(SubSeq(t, 1, s)))
        <4>1. 0 \in 0 .. 0
          OBVIOUS
        <4> QED
          BY <2>1, <2>2, <2>3, <4>1
      <3> QED
        BY <2>1, <2>3, <3>1 DEF CutAs
    <2> QED
      BY <1>1, <2>4
  <1>4. ASSUME NEW n \in 1 .. Len(t), n - 1 \in S PROVE n \in S
    <2>1. CutAs(t, cuts, n - 1, h[n - 1]) /\ n \in 0 .. Len(t)
      BY <1>1, <1>4
    <2>2. PICK g : g = h[n - 1]
      OBVIOUS
    <2>3. PICK s \in 0 .. n - 1 : /\ s = 0 \/ s \in cuts
                                  /\ g.current = SubSeq(t, s + 1, n - 1)
                                  /\ Tell(g.pieces, Letters(SubSeq(t, 1, s)))
      BY <2>1, <2>2 DEF CutAs
    <2>4. g.pieces \in Seq(Text) /\ \A i \in 1 .. Len(g.pieces) : Solid(g.pieces[i])
      BY <2>1, <2>2 DEF CutAs
    <2>5. s \in 0 .. Len(t) /\ s \in Nat /\ s < n
      BY <1>1
    <2>6. s + 1 \in 1 .. Len(t) /\ ~Blank(t[s + 1])
      BY <2>3, <2>5, AfterCut
    <2>7. h[n] = AddCharacter(g, t[n], n \in cuts)
      BY <1>2, <2>2
    <2>8. CASE n \in cuts
      <3>1. n \in 2 .. Len(t) - 1 /\ Blank(t[n])
        BY <2>8 DEF Cuts
      <3>2. n - 1 \in s + 1 .. Len(t)
        <4>1. s + 1 # n
          BY <2>6, <3>1
        <4> QED
          BY <1>1, <2>5, <4>1
      <3>3. ~Blank(t[n - 1])
        <4>1. n - 1 \in 1 .. Len(t) - 1 /\ (n - 1) + 1 = n
          BY <1>1, <3>1
        <4> QED
          BY <3>1, <4>1 DEF Solid
      <3>4. PICK p : p = Append(g.pieces, g.current)
        OBVIOUS
      <3>5. h[n].pieces = p /\ h[n].current = <<>>
        BY <2>7, <2>8, <3>4 DEF AddCharacter, Begun
      <3>6. /\ Solid(g.current) /\ g.current \in Text /\ InOrder(g.current)
            /\ Precede(Letters(SubSeq(t, 1, s)), Letters(g.current))
            /\ Letters(SubSeq(t, 1, s)) \union Letters(g.current) = Letters(SubSeq(t, 1, n - 1))
        <4>1. /\ Solid(SubSeq(t, s + 1, n - 1))
              /\ Precede(Letters(SubSeq(t, 1, s)), Letters(SubSeq(t, s + 1, n - 1)))
              /\ Letters(SubSeq(t, 1, s)) \union Letters(SubSeq(t, s + 1, n - 1)) = Letters(SubSeq(t, 1, n - 1))
          BY <2>5, <2>6, <3>2, <3>3, NextPiece
        <4> QED
          BY <2>3, <4>1 DEF Solid
      <3>7. /\ p \in Seq(Text) /\ \A i \in 1 .. Len(p) : Solid(p[i])
        BY <2>4, <3>4, <3>6, SolidMore
      <3>8. Tell(p, Letters(SubSeq(t, 1, n - 1)))
        BY <2>3, <2>4, <3>4, <3>6, TellMore
      <3>9. Letters(SubSeq(t, 1, n)) = Letters(SubSeq(t, 1, n - 1))
        <4>1. 1 \in 1 .. Len(t) + 1 /\ n \in 1 - 1 .. Len(t) /\ n - 1 \in 1 - 1 .. Len(t)
          BY <1>1
        <4>2. PICK a, b : a = SubSeq(t, 1, n) /\ b = SubSeq(t, 1, n - 1)
          OBVIOUS
        <4>3. /\ \A x : x \in Letters(a) <=> \E k \in 1 .. n : ~Blank(t[k]) /\ x = t[k]
              /\ \A x : x \in Letters(b) <=> \E k \in 1 .. n - 1 : ~Blank(t[k]) /\ x = t[k]
          BY <1>1, <4>1, <4>2, LettersOfSlice
        <4>4. \A k : k \in 1 .. n <=> k \in 1 .. n - 1 \/ k = n
          OBVIOUS
        <4>5. \A x : x \in Letters(a) <=> x \in Letters(b)
          BY <3>1, <4>3, <4>4, Zenon
        <4> QED
          BY <4>2, <4>5
      <3>10. SubSeq(t, n + 1, n) = <<>>
        BY <1>1 DEF Text
      <3>11. \E z \in 0 .. n : /\ z = 0 \/ z \in cuts
                               /\ h[n].current = SubSeq(t, z + 1, n)
                               /\ Tell(h[n].pieces, Letters(SubSeq(t, 1, z)))
        <4>1. n \in 0 .. n
          BY <1>1
        <4> QED
          BY <2>8, <3>5, <3>8, <3>9, <3>10, <4>1
      <3>12. CutAs(t, cuts, n, h[n])
        BY <3>5, <3>7, <3>11 DEF CutAs
      <3> QED
        BY <2>1, <3>12
    <2>9. CASE n \notin cuts
      <3>1. h[n].pieces = g.pieces /\ h[n].current = Append(g.current, t[n])
        BY <2>7, <2>9 DEF AddCharacter, Begun
      <3>2. Append(SubSeq(t, s + 1, n - 1), t[n]) = SubSeq(t, s + 1, n)
        <4>1. t \in Seq(Characters)
          BY <1>1 DEF Text
        <4> QED
          BY <1>1, <2>5, <4>1
      <3>3. s \in 0 .. n
        BY <2>5
      <3> QED
        BY <2>1, <2>3, <2>4, <3>1, <3>2, <3>3 DEF CutAs
    <2> QED
      BY <2>8, <2>9
  <1>5. CutAs(t, cuts, Len(t), h[Len(t)])
    <2>1. 0 .. Len(t) \subseteq S
      <3> HIDE DEF S
      <3> QED
        BY <1>1, <1>3, <1>4, UpTo
    <2> QED
      BY <1>1, <2>1
  <1>6. PICK g : g = h[Len(t)]
    OBVIOUS
  <1>7. PICK s \in 0 .. Len(t) : /\ s = 0 \/ s \in cuts
                                 /\ g.current = SubSeq(t, s + 1, Len(t))
                                 /\ Tell(g.pieces, Letters(SubSeq(t, 1, s)))
    BY <1>5, <1>6 DEF CutAs
  <1>8. g.pieces \in Seq(Text) /\ \A i \in 1 .. Len(g.pieces) : Solid(g.pieces[i])
    BY <1>5, <1>6 DEF CutAs
  <1>9. s + 1 \in 1 .. Len(t) /\ ~Blank(t[s + 1]) /\ Len(t) \in s + 1 .. Len(t) /\ ~Blank(t[Len(t)])
    <2>1. s + 1 \in 1 .. Len(t) /\ ~Blank(t[s + 1])
      BY <1>7, AfterCut
    <2> QED
      BY <1>1, <2>1 DEF Solid
  <1>10. /\ Solid(SubSeq(t, s + 1, Len(t)))
         /\ Precede(Letters(SubSeq(t, 1, s)), Letters(SubSeq(t, s + 1, Len(t))))
         /\ Letters(SubSeq(t, 1, s)) \union Letters(SubSeq(t, s + 1, Len(t))) = Letters(SubSeq(t, 1, Len(t)))
    BY <1>9, NextPiece
  <1>11. SubSeq(t, 1, Len(t)) = t
    BY <1>1 DEF Text
  <1>12. Solid(g.current) /\ g.current \in Text /\ InOrder(g.current)
    BY <1>7, <1>10 DEF Solid
  <1>13. PICK p : p = Append(g.pieces, g.current)
    OBVIOUS
  <1>14. p \in Seq(Text) /\ \A i \in 1 .. Len(p) : Solid(p[i])
    BY <1>8, <1>12, <1>13, SolidMore
  <1>15. Tell(p, Letters(t))
    BY <1>7, <1>8, <1>10, <1>11, <1>12, <1>13, TellMore
  <1> QED
    BY <1>2, <1>6, <1>13, <1>14, <1>15


\* How fragments are packed, one by one.
LEMMA FragmentsReads ==
    ASSUME Given, NEW fragments \in Seq(Text), \A i \in 1 .. Len(fragments) : Solid(fragments[i])
    PROVE  \E h : /\ h[0] = Nothing
                  /\ \A n \in 1 .. Len(fragments) : h[n] = AddFragment(h[n - 1], fragments[n])
                  /\ PackFragments(fragments) = Flushed(h[Len(fragments)].pieces, h[Len(fragments)].current)
  <1> DEFINE X == [pieces : Seq(Text), current : Text]
             N == Len(fragments)
             after(n, g) == AddFragment(g, fragments[n])
             Is(h) == h = [n \in 0 .. Len(fragments) |-> IF n = 0 THEN Nothing ELSE AddFragment(h[n - 1], fragments[n])]
             Found == CHOOSE h : Is(h)
  <1>1. N \in Nat /\ Nothing \in X
    <2>1. <<>> \in Seq(Text)
      OBVIOUS
    <2> QED
      BY <2>1, BlankTexts DEF Nothing, Begun
  <1>2. ASSUME NEW n \in 1 .. N, NEW g \in X PROVE after(n, g) \in X
    <2>1. PICK t : t = fragments[n]
      OBVIOUS
    <2>2. Solid(t) /\ t \in Text
      BY <2>1 DEF Solid
    <2>3. g.pieces \in Seq(Text) /\ g.current \in Text
      OBVIOUS
    <2>4. Append(g.pieces, g.current) \in Seq(Text)
      BY <2>3
    <2>5. Flushed(g.pieces, g.current) \in Seq(Text)
      BY <2>3, <2>4 DEF Flushed
    <2>6. Joined(g.current, <<Space>>, t) \in Text
      BY <2>2, <2>3, BlankTexts, JoinedMeans
    <2>7. ASSUME Len(t) > Size PROVE Flushed(g.pieces, g.current) \o HardSplit(t) \in Seq(Text)
      <3>1. HardSplit(t) \in Seq(Text)
        BY <2>2, <2>7, HardSplitSound DEF WellCut
      <3> QED
        BY <2>5, <3>1
    <2> QED
      BY <2>1, <2>2, <2>3, <2>5, <2>6, <2>7, BlankTexts DEF AddFragment, Begun
  <1>3. PICK step \in [1 .. N -> [X -> X]] : \A n \in 1 .. N : \A g \in X : step[n][g] = after(n, g)
    <2>1. [n \in 1 .. N |-> [g \in X |-> after(n, g)]] \in [1 .. N -> [X -> X]]
      <3> HIDE DEF X, N, after
      <3> QED
        BY <1>2
    <2> HIDE DEF X, N, after
    <2> QED
      BY <2>1
  <1>4. PICK f \in [0 .. N -> X] : Follows(f, N, Nothing, step)
    <2> HIDE DEF X, N
    <2> QED
      BY <1>1, RecursionDefines
  <1>5. ASSUME NEW n \in 1 .. N PROVE f[n] = after(n, f[n - 1])
    <2> HIDE DEF X, after
    <2>1. n - 1 \in 0 .. N
      BY <1>1
    <2> QED
      BY <1>3, <1>4, <2>1 DEF Follows
  <1>6. Is(f)
    <2>1. \A n \in 0 .. N : f[n] = IF n = 0 THEN Nothing ELSE after(n, f[n - 1])
      <3> HIDE DEF X, after
      <3> QED
        BY <1>1, <1>4, <1>5 DEF Follows
    <2> QED
      BY <1>4, <2>1
  <1>7. Is(Found)
    <2> HIDE DEF Is
    <2> QED
      BY <1>6
  <1>8. PICK h : h = Found /\ Is(h)
    <2> HIDE DEF Is
    <2> QED
      BY <1>7
  <1>9. PackFragments(fragments) = Flushed(h[N].pieces, h[N].current)
    BY <1>8 DEF PackFragments
  <1> HIDE DEF Found
  <1>10. h[0] = Nothing
    BY <1>1, <1>8
  <1>11. ASSUME NEW n \in 1 .. N PROVE h[n] = after(n, h[n - 1])
    <2>1. n \in 0 .. N /\ n # 0
      BY <1>1
    <2> QED
      BY <1>8, <2>1
  <1> QED
    BY <1>9, <1>10, <1>11

LEMMA JoinedPlaces ==
    ASSUME NEW s \in Text, NEW gap \in Text, NEW t \in Text, Letters(gap) = {}, s # <<>>
    PROVE  /\ \A i \in 1 .. Len(s) : Joined(s, gap, t)[i] = s[i]
           /\ \A i \in 1 .. Len(gap) : Joined(s, gap, t)[Len(s) + i] = gap[i]
           /\ \A i \in 1 .. Len(t) : Joined(s, gap, t)[Len(s) + Len(gap) + i] = t[i]
  BY JoinedMeans

\* Two solid texts, with a space between them.
LEMMA SolidJoined ==
    ASSUME NEW s \in Text, Solid(s), NEW t \in Text, Solid(t), Precede(Letters(s), Letters(t))
    PROVE  Solid(Joined(s, <<Space>>, t)) /\ Letters(Joined(s, <<Space>>, t)) = Letters(s) \union Letters(t)
  <1>1. s \in Text /\ t \in Text /\ s # <<>> /\ t # <<>> /\ InOrder(s) /\ InOrder(t)
    BY DEF Solid
  <1>2. Len(s) \in Nat \ {0} /\ Len(t) \in Nat \ {0}
    BY <1>1, TextFacts
  <1>10. PICK gap \in Text : gap = <<Space>>
    BY BlankTexts
  <1>3. gap \in Text /\ Letters(gap) = {}
    BY <1>10, BlankTexts
  <1>12. Len(gap) = 1
    BY <1>10, BlankTexts
  <1>4. PICK r : r = Joined(s, gap, t)
    OBVIOUS
  <1>5. r \in Text /\ Letters(r) = Letters(s) \union Letters(t) /\ InOrder(r)
    <2>1. Joined(s, gap, t) \in Text /\ Letters(Joined(s, gap, t)) = Letters(s) \union Letters(t)
      BY <1>3, JoinedMeans
    <2>2. InOrder(Joined(s, gap, t))
      BY <1>1, <1>3, JoinedMeans
    <2> QED
      BY <1>4, <2>1, <2>2
  <1>6. /\ Len(r) = Len(s) + 1 + Len(t)
        /\ \A i \in 1 .. Len(s) : r[i] = s[i]
        /\ \A i \in 1 .. Len(t) : r[Len(s) + 1 + i] = t[i]
    <2>1. Len(Joined(s, gap, t)) = Len(s) + Len(gap) + Len(t)
      BY <1>1, <1>3, JoinedMeans
    <2>2. /\ \A i \in 1 .. Len(s) : Joined(s, gap, t)[i] = s[i]
          /\ \A i \in 1 .. Len(gap) : Joined(s, gap, t)[Len(s) + i] = gap[i]
          /\ \A i \in 1 .. Len(t) : Joined(s, gap, t)[Len(s) + Len(gap) + i] = t[i]
      BY <1>1, <1>3, JoinedPlaces, Zenon
    <2> QED
      BY <1>4, <1>12, <2>1, <2>2
  <1>7. ~Blank(s[1]) /\ ~Blank(s[Len(s)]) /\ ~Blank(t[1]) /\ ~Blank(t[Len(t)])
    BY DEF Solid
  <1>8. ~Blank(r[1]) /\ ~Blank(r[Len(r)]) /\ r # <<>>
    <2>1. 1 \in 1 .. Len(s) /\ Len(t) \in 1 .. Len(t) /\ Len(r) # 0
      BY <1>2, <1>6
    <2> QED
      BY <1>5, <1>6, <1>7, <2>1, TextFacts
  <1>9. ASSUME NEW i \in 1 .. Len(r) - 1, Blank(r[i]) PROVE ~Blank(r[i + 1])
    <2>1. CASE i < Len(s)
      <3>1. i \in 1 .. Len(s) - 1 /\ i \in 1 .. Len(s) /\ i + 1 \in 1 .. Len(s)
        BY <1>2, <2>1
      <3>2. r[i] = s[i] /\ r[i + 1] = s[i + 1]
        BY <1>6, <3>1
      <3> QED
        BY <1>9, <3>1, <3>2 DEF Solid
    <2>2. CASE i = Len(s)
      <3>1. i \in 1 .. Len(s)
        BY <1>2, <2>2
      <3> QED
        BY <1>6, <1>7, <1>9, <2>2, <3>1
    <2>3. CASE i = Len(s) + 1
      <3>1. 1 \in 1 .. Len(t) /\ i + 1 = Len(s) + 1 + 1
        BY <1>2, <2>3
      <3> QED
        BY <1>6, <1>7, <3>1
    <2>4. CASE i > Len(s) + 1
      <3>1. PICK j : j = i - (Len(s) + 1)
        OBVIOUS
      <3>2. /\ j \in 1 .. Len(t) - 1 /\ j \in 1 .. Len(t) /\ j + 1 \in 1 .. Len(t)
            /\ i = Len(s) + 1 + j /\ i + 1 = Len(s) + 1 + (j + 1)
        BY <1>2, <1>6, <2>4, <3>1
      <3>3. r[i] = t[j] /\ r[i + 1] = t[j + 1]
        BY <1>6, <3>2
      <3> QED
        BY <1>9, <3>2, <3>3 DEF Solid
    <2> QED
      BY <1>2, <1>6, <2>1, <2>2, <2>3, <2>4
  <1> QED
    BY <1>4, <1>5, <1>8, <1>9, <1>10 DEF Solid

\* The piece that grows: empty, or solid and not too long.
Growing(t) == t = <<>> \/ (Solid(t) /\ Len(t) <= Size)

LEMMA FlushedSound ==
    ASSUME Given, NEW p, NEW C, WellCut(p, C), NEW t, Growing(t), Precede(C, Letters(t))
    PROVE  WellCut(Flushed(p, t), C \union Letters(t))
  <1>1. CASE t = <<>>
    BY <1>1, BlankTexts DEF Flushed
  <1>2. CASE t # <<>>
    <2>1. Flushed(p, t) = Append(p, t)
      BY <1>2 DEF Flushed
    <2>2. Solid(t) /\ Len(t) <= Size
      BY <1>2 DEF Growing
    <2> QED
      BY <2>1, <2>2, WellCutMore
  <1> QED
    BY <1>1, <1>2

LettersUpTo(texts, n) == UNION {Letters(texts[i]) : i \in 1 .. n}

LEMMA LettersOfNext ==
    ASSUME NEW texts, NEW n \in Nat \ {0}
    PROVE  LettersUpTo(texts, n) = LettersUpTo(texts, n - 1) \union Letters(texts[n])
  <1>1. \A i : i \in 1 .. n <=> i \in 1 .. n - 1 \/ i = n
    OBVIOUS
  <1>2. \A c : c \in LettersUpTo(texts, n) <=> c \in LettersUpTo(texts, n - 1) \/ c \in Letters(texts[n])
    BY <1>1, Zenon DEF LettersUpTo
  <1> QED
    BY <1>2

LEMMA LettersBefore ==
    ASSUME NEW texts \in Seq(Text), NEW C, Tell(texts, C), NEW n \in 1 .. Len(texts)
    PROVE  /\ Precede(LettersUpTo(texts, n - 1), Letters(texts[n])) /\ InOrder(texts[n])
           /\ LettersUpTo(texts, Len(texts)) = C
  <1>1. \A i \in 1 .. n - 1 : i \in 1 .. Len(texts) /\ i < n
    OBVIOUS
  <1>2. DOMAIN texts = 1 .. Len(texts)
    OBVIOUS
  <1>3. \A i \in 1 .. n - 1 : Precede(Letters(texts[i]), Letters(texts[n]))
    BY <1>1, <1>2 DEF Tell
  <1> QED
    BY <1>2, <1>3 DEF Tell, Precede, LettersUpTo

\* What has been packed of the fragments.
Packs(fragments, n, begun) ==
    /\ Growing(begun.current)
    /\ \E C : /\ WellCut(begun.pieces, C) /\ Precede(C, Letters(begun.current))
              /\ C \union Letters(begun.current) = LettersUpTo(fragments, n)

LEMMA PackFragmentsSound ==
    ASSUME Given, NEW fragments \in Seq(Text), \A i \in 1 .. Len(fragments) : Solid(fragments[i]),
           NEW C, Tell(fragments, C), Len(fragments) > 0
    PROVE  WellCut(PackFragments(fragments), C)
  <1> DEFINE N == Len(fragments)
  <1>1. PICK h : /\ h[0] = Nothing
                 /\ \A n \in 1 .. Len(fragments) : h[n] = AddFragment(h[n - 1], fragments[n])
                 /\ PackFragments(fragments) = Flushed(h[Len(fragments)].pieces, h[Len(fragments)].current)
    BY FragmentsReads
  <1> DEFINE S == {n \in 0 .. N : Packs(fragments, n, h[n])}
  <1>2. 0 \in S
    <2>1. h[0].pieces = <<>> /\ h[0].current = <<>>
      BY <1>1 DEF Nothing, Begun
    <2>2. WellCut(<<>>, {})
      BY TellNothing DEF WellCut
    <2>3. LettersUpTo(fragments, 0) = {} /\ Letters(<<>>) = {}
      BY BlankTexts DEF LettersUpTo
    <2>4. Packs(fragments, 0, h[0])
      BY <2>1, <2>2, <2>3 DEF Packs, Growing, Precede
    <2> QED
      BY <2>4
  <1>3. ASSUME NEW n \in 1 .. N, n - 1 \in S PROVE n \in S
    <2>1. PICK g : g = h[n - 1]
      OBVIOUS
    <2>2. Packs(fragments, n - 1, g) /\ n \in 0 .. N /\ n \in Nat \ {0} /\ n \in 1 .. Len(fragments)
      BY <1>3, <2>1
    <2>3. PICK B : /\ WellCut(g.pieces, B) /\ Precede(B, Letters(g.current))
                   /\ B \union Letters(g.current) = LettersUpTo(fragments, n - 1)
      BY <2>2 DEF Packs
    <2>4. Growing(g.current)
      BY <2>2 DEF Packs
    <2>5. PICK t : t = fragments[n]
      OBVIOUS
    <2>6. Solid(t) /\ t \in Text
      BY <2>2, <2>5 DEF Solid
    <2>7. /\ Precede(B \union Letters(g.current), Letters(t))
          /\ LettersUpTo(fragments, n) = (B \union Letters(g.current)) \union Letters(t)
      <3>1. Precede(LettersUpTo(fragments, n - 1), Letters(t))
        BY <2>2, <2>5, LettersBefore
      <3>2. LettersUpTo(fragments, n) = LettersUpTo(fragments, n - 1) \union Letters(t)
        BY <2>2, <2>5, LettersOfNext
      <3> QED
        BY <2>3, <3>1, <3>2
    <2>8. h[n] = AddFragment(g, t)
      BY <1>1, <2>1, <2>2, <2>5
    <2>9. PICK f : f = Flushed(g.pieces, g.current)
      OBVIOUS
    <2>10. WellCut(f, B \union Letters(g.current))
      BY <2>3, <2>4, <2>9, FlushedSound
    <2>11. PICK c : c = Joined(g.current, <<Space>>, t)
      OBVIOUS
    <2>12. CASE Len(t) > Size
      <3>1. h[n].pieces = f \o HardSplit(t) /\ h[n].current = <<>>
        BY <2>8, <2>9, <2>12 DEF AddFragment, Begun
      <3>2. WellCut(HardSplit(t), Letters(t))
        BY <2>6, <2>12, HardSplitSound
      <3>3. WellCut(f \o HardSplit(t), LettersUpTo(fragments, n))
        BY <2>7, <2>10, <3>2, WellCutBoth
      <3>4. Packs(fragments, n, h[n])
        BY <3>1, <3>3, BlankTexts DEF Packs, Growing, Precede
      <3> QED
        BY <2>2, <3>4
    <2>13. CASE ~(Len(t) > Size) /\ Len(c) <= Size
      <3>1. h[n].pieces = g.pieces /\ h[n].current = c
        BY <2>8, <2>11, <2>13 DEF AddFragment, Begun
      <3>2. Solid(c) /\ Letters(c) = Letters(g.current) \union Letters(t)
        <4>1. CASE g.current = <<>>
          BY <2>6, <2>11, <4>1, BlankTexts DEF Joined
        <4>2. CASE g.current # <<>>
          <5>1. PICK u \in Text, v \in Text : u = g.current /\ v = t
            BY <2>4, <2>6, <4>2 DEF Growing, Solid
          <5>2. Solid(u) /\ Solid(v) /\ Precede(Letters(u), Letters(v))
            BY <2>4, <2>6, <2>7, <4>2, <5>1 DEF Growing, Precede
          <5> QED
            BY <2>11, <5>1, <5>2, SolidJoined
        <4> QED
          BY <4>1, <4>2
      <3>3. Precede(B, Letters(c)) /\ B \union Letters(c) = LettersUpTo(fragments, n)
        BY <2>3, <2>7, <3>2 DEF Precede
      <3>4. Packs(fragments, n, h[n])
        BY <2>3, <2>13, <3>1, <3>2, <3>3 DEF Packs, Growing
      <3> QED
        BY <2>2, <3>4
    <2>14. CASE ~(Len(t) > Size) /\ ~(Len(c) <= Size)
      <3>1. h[n].pieces = f /\ h[n].current = t
        BY <2>8, <2>9, <2>11, <2>14 DEF AddFragment, Begun
      <3>2. Len(t) <= Size
        BY <2>6, <2>14, SettingGiven, TextFacts
      <3>3. Packs(fragments, n, h[n])
        BY <2>6, <2>7, <2>10, <3>1, <3>2 DEF Packs, Growing
      <3> QED
        BY <2>2, <3>3
    <2> QED
      BY <2>12, <2>13, <2>14
  <1>4. Packs(fragments, N, h[N])
    <2>1. 0 .. N \subseteq S
      <3>1. N \in Nat
        OBVIOUS
      <3> HIDE DEF S, N
      <3> QED
        BY <1>2, <1>3, <3>1, UpTo
    <2> QED
      BY <2>1
  <1>5. PICK B : /\ WellCut(h[N].pieces, B) /\ Precede(B, Letters(h[N].current))
                 /\ B \union Letters(h[N].current) = LettersUpTo(fragments, N)
    BY <1>4 DEF Packs
  <1>6. WellCut(Flushed(h[N].pieces, h[N].current), LettersUpTo(fragments, N))
    BY <1>4, <1>5, FlushedSound DEF Packs
  <1>7. LettersUpTo(fragments, N) = C
    <2>1. 1 \in 1 .. Len(fragments)
      OBVIOUS
    <2> QED
      BY <2>1, LettersBefore
  <1> QED
    BY <1>1, <1>6, <1>7

-----------------------------------------------------------------------------
(* Chunking: blocks and the headings above them *)

LEMMA DocumentGiven ==
    ASSUME Given
    PROVE  /\ Len(document) \in Nat /\ DOMAIN document = 1 .. Len(document)
           /\ \A b \in 1 .. Len(document) : IsBlock(document[b])
  <1>1. document \in Seq(ToSet(document)) /\ \A b \in DOMAIN document : IsBlock(document[b])
    BY ChunkingAssumption DEF Given
  <1>2. PICK S : S = ToSet(document)
    OBVIOUS
  <1>3. document \in Seq(S)
    BY <1>1, <1>2
  <1>4. Len(document) \in Nat /\ DOMAIN document = 1 .. Len(document)
    BY <1>3
  <1> QED
    BY <1>1, <1>4

LEMMA BlockSolid ==
    ASSUME Given, NEW b \in 1 .. Len(document)
    PROVE  /\ Solid(Block(b)) /\ Len(Block(b)) = document[b].length
           /\ \A c \in Letters(Block(b)) : c[1] = b
           /\ document[b].spaces = Cuts(Block(b))
  <1>1. /\ document[b].length \in Nat \ {0}
        /\ document[b].spaces \subseteq 2 .. document[b].length - 1
        /\ \A k \in document[b].spaces : k + 1 \notin document[b].spaces
    BY DocumentGiven DEF IsBlock
  <1>2. b \in Nat \ {0}
    BY DocumentGiven
  <1>3. PICK n, spaces : n = document[b].length /\ spaces = document[b].spaces
    OBVIOUS
  <1>4. n \in Nat \ {0} /\ spaces \subseteq 2 .. n - 1 /\ \A k \in spaces : k + 1 \notin spaces
    BY <1>1, <1>3
  <1>5. PICK t : t = Block(b)
    OBVIOUS
  <1>6. t = [k \in 1 .. n |-> IF k \in spaces THEN Space ELSE <<b, k>>]
    BY <1>3, <1>5 DEF Block
  <1>7. ASSUME NEW k \in 1 .. n PROVE Space \in Characters /\ <<b, k>> \in Characters
    BY <1>2 DEF Characters, Space
  <1>8. t \in Text /\ Len(t) = n
    BY <1>4, <1>6, <1>7 DEF Text
  <1>9. ASSUME NEW k \in 1 .. n
        PROVE  (Blank(t[k]) <=> k \in spaces) /\ (~Blank(t[k]) => t[k] = <<b, k>>)
    <2>1. Blank(Space)
      BY DEF Blank, Space
    <2>2. ~Blank(<<b, k>>)
      BY <1>2 DEF Blank
    <2> QED
      BY <1>6, <2>1, <2>2
  <1>10. InOrder(t)
    <2>1. ASSUME NEW i \in 1 .. n, NEW j \in 1 .. n, i < j, ~Blank(t[i]), ~Blank(t[j]) PROVE Ahead(t[i], t[j])
      <3>1. t[i] = <<b, i>> /\ t[j] = <<b, j>>
        BY <1>9, <2>1
      <3> QED
        BY <2>1, <3>1 DEF Ahead
    <2> QED
      BY <1>8, <2>1, TextFacts DEF InOrder
  <1>11. Solid(t)
    <2>1. 1 \in 1 .. n /\ n \in 1 .. n /\ 1 \notin spaces /\ n \notin spaces
      BY <1>4
    <2>2. ASSUME NEW i \in 1 .. Len(t) - 1, Blank(t[i]) PROVE ~Blank(t[i + 1])
      <3>1. i \in 1 .. n /\ i + 1 \in 1 .. n
        BY <1>4, <1>8
      <3> QED
        BY <1>4, <1>9, <2>2, <3>1
    <2>3. t # <<>>
      BY <1>4, <1>8, TextFacts
    <2> QED
      BY <1>8, <1>9, <1>10, <2>1, <2>2, <2>3 DEF Solid
  <1>12. ASSUME NEW c \in Letters(t) PROVE c[1] = b
    <2>1. PICK k \in 1 .. n : ~Blank(t[k]) /\ c = t[k]
      BY <1>8, IsLetter
    <2>2. c = <<b, k>>
      BY <1>9, <2>1
    <2> QED
      BY <2>2
  <1>13. spaces = Cuts(t)
    <2>1. \A k \in 2 .. n - 1 : k \in 1 .. n
      BY <1>4
    <2> QED
      BY <1>4, <1>8, <1>9, <2>1 DEF Cuts
  <1> QED
    BY <1>3, <1>5, <1>8, <1>11, <1>12, <1>13

LEMMA SplitOversizedSound ==
    ASSUME Given, NEW b \in 1 .. Len(document)
    PROVE  WellCut(SplitOversized(b), Letters(Block(b)))
  <1>1. PICK t \in Text : t = Block(b)
    BY BlockSolid DEF Solid
  <1>2. Solid(t) /\ InOrder(t) /\ Len(t) \in Nat /\ Len(t) # 0
    BY <1>1, BlockSolid, TextFacts DEF Solid
  <1>3. document[b].spaces = Cuts(t) /\ document[b].stops \subseteq Cuts(t)
    BY <1>1, BlockSolid, DocumentGiven DEF IsBlock
  <1>4. ASSUME NEW cuts \in SUBSET Cuts(t) PROVE WellCut(PackFragments(Split(t, cuts)), Letters(t))
    <2>1. PICK p : p = Split(t, cuts)
      OBVIOUS
    <2>2. p \in Seq(Text) /\ (\A i \in 1 .. Len(p) : Solid(p[i])) /\ Tell(p, Letters(t))
      BY <1>2, <2>1, SplitSound
    <2>3. Len(p) > 0
      <3>1. t[1] \in Letters(t)
        <4>1. 1 \in 1 .. Len(t)
          BY <1>2
        <4> QED
          BY <1>2, <4>1, IsLetter DEF Solid
      <3>2. DOMAIN p # {}
        BY <2>2, <3>1 DEF Tell
      <3> QED
        BY <2>2, <3>2
    <2> QED
      BY <2>1, <2>2, <2>3, PackFragmentsSound
  <1>5. CASE Len(t) <= Size
    <2>1. SplitOversized(b) = <<t>>
      BY <1>1, <1>5 DEF SplitOversized
    <2>2. PICK p : p = <<t>>
      OBVIOUS
    <2>3. p \in Seq(Text) /\ Tell(p, Letters(t))
      BY <1>2, <2>2, TellOne
    <2>4. Len(p) = 1 /\ p[1] = t
      BY <2>2
    <2>5. Fine(t) /\ ~Blank(t[1])
      BY <1>2, <1>5, SolidFine DEF Solid
    <2> QED
      BY <1>1, <2>1, <2>2, <2>3, <2>4, <2>5 DEF WellCut
  <1>6. CASE ~(Len(t) <= Size)
    <2>1. Len(t) > Size
      BY <1>2, <1>6, SettingGiven
    <2>2. WellCut(HardSplit(t), Letters(t))
      BY <1>2, <2>1, HardSplitSound
    <2>3. WellCut(PackFragments(Sentences(b)), Letters(t))
      BY <1>1, <1>3, <1>4 DEF Sentences
    <2>4. WellCut(PackFragments(Words(b)), Letters(t))
      BY <1>1, <1>3, <1>4 DEF Words
    <2> QED
      BY <1>1, <1>6, <2>2, <2>3, <2>4 DEF SplitOversized
  <1> QED
    BY <1>5, <1>6

\* The headings a paragraph is under are those of what stands before it, and a
\* heading is under those of a level above its own.
LEMMA EnclosingNext ==
    ASSUME Given, NEW b \in 1 .. Len(document)
    PROVE  /\ document[b].level = 0 => Enclosing(b) = Enclosing(b - 1)
           /\ document[b].level > 0 =>
                 Enclosing(b) = {h \in Enclosing(b - 1) : document[h].level < document[b].level} \union {b}
  <1>1. /\ DOMAIN document = 1 .. Len(document) /\ Len(document) \in Nat /\ b \in Nat
        /\ \A h \in 1 .. Len(document) : document[h].level \in 0 .. 6
    BY DocumentGiven DEF IsBlock
  <1>2. Headings \subseteq 1 .. Len(document)
    BY <1>1 DEF Headings
  <1>3. CASE document[b].level = 0
    <2>1. b \notin Headings
      BY <1>3 DEF Headings
    <2>2. ASSUME NEW h \in Headings PROVE h \in Enclosing(b) <=> h \in Enclosing(b - 1)
      <3>1. h \in Nat /\ h # b
        BY <1>1, <1>2, <2>1
      <3>2. h <= b <=> h <= b - 1
        BY <1>1, <3>1
      <3>3. ASSUME NEW g \in Headings PROVE g \in h + 1 .. b <=> g \in h + 1 .. b - 1
        <4>1. g \in Nat /\ g # b
          BY <1>1, <1>2, <2>1
        <4> QED
          BY <1>1, <3>1, <4>1
      <3> QED
        BY <3>2, <3>3 DEF Enclosing
    <2> QED
      BY <1>1, <1>3, <2>2 DEF Enclosing
  <1>4. CASE document[b].level > 0
    <2>1. b \in Headings
      BY <1>1, <1>4 DEF Headings
    <2>2. b \in Enclosing(b)
      <3>1. ~(\E g : g \in b + 1 .. b)
        BY <1>1
      <3> QED
        BY <1>1, <2>1, <3>1 DEF Enclosing
    <2>3. ASSUME NEW h \in Headings, h # b
          PROVE  h \in Enclosing(b) <=> h \in Enclosing(b - 1) /\ document[h].level < document[b].level
      <3>1. h \in Nat
        BY <1>1, <1>2
      <3>2. h <= b <=> h <= b - 1
        BY <1>1, <2>3, <3>1
      <3>3. ASSUME NEW g \in Headings, h <= b PROVE g \in h + 1 .. b <=> g \in h + 1 .. b - 1 \/ g = b
        <4>1. g \in Nat
          BY <1>1, <1>2
        <4> QED
          BY <1>1, <2>3, <3>1, <3>3, <4>1
      <3>4. document[h].level \in Nat /\ document[b].level \in Nat
        BY <1>1, <1>2
      <3>5. document[b].level > document[h].level <=> document[h].level < document[b].level
        BY <3>4
      <3>6. ASSUME h <= b
            PROVE  (\A g \in Headings : g \in h + 1 .. b => document[g].level > document[h].level)
                   <=> /\ \A g \in Headings : g \in h + 1 .. b - 1 => document[g].level > document[h].level
                       /\ document[b].level > document[h].level
        BY <2>1, <3>3, <3>6
      <3> QED
        BY <3>2, <3>5, <3>6 DEF Enclosing
    <2>4. Enclosing(b) \subseteq Headings /\ Enclosing(b - 1) \subseteq Headings /\ b \notin Enclosing(b - 1)
      <3>1. ~(b <= b - 1)
        BY <1>1
      <3> QED
        BY <3>1 DEF Enclosing
    <2> QED
      <3>1. \A h : h \in Enclosing(b) <=> h = b \/ (h \in Enclosing(b - 1) /\ document[h].level < document[b].level)
        BY <2>2, <2>3, <2>4
      <3>2. ~(document[b].level = 0)
        BY <1>4
      <3> QED
        BY <3>1, <3>2
  <1>5. document[b].level = 0 \/ document[b].level > 0
    BY <1>1
  <1> QED
    BY <1>1, <1>3, <1>4, <1>5


-----------------------------------------------------------------------------
(* Chunking: units *)

SomeUnit == [text : Text, path : Seq(Nat), starts : BOOLEAN]
Fresh == [stack |-> <<>>, units |-> <<>>]
UnitsOf(pieces, stack) == [i \in DOMAIN pieces |-> Unit(pieces[i], stack, FALSE)]

LEMMA PathMeans ==
    ASSUME Given, NEW b \in 1 .. Len(document), document[b].level > 0, NEW stack \in Seq(Nat)
    PROVE  /\ PathOf(stack, b) \in Seq(Nat)
           /\ \E m \in 0 .. Len(stack) :
                 /\ m = IF Len(stack) <= document[b].level - 1 THEN Len(stack) ELSE document[b].level - 1
                 /\ Len(PathOf(stack, b)) = m + 1 /\ PathOf(stack, b)[m + 1] = b
                 /\ \A i \in 1 .. m : PathOf(stack, b)[i] = stack[i]
  <1>1. b \in Nat /\ document[b].level - 1 \in Nat /\ Len(stack) \in Nat
    BY DocumentGiven DEF IsBlock
  <1>2. PICK m : m = Min({Len(stack), document[b].level - 1})
    OBVIOUS
  <1>3. m = IF Len(stack) <= document[b].level - 1 THEN Len(stack) ELSE document[b].level - 1
    BY <1>1, <1>2, MinOfTwo
  <1>4. m \in 0 .. Len(stack)
    BY <1>1, <1>3
  <1>5. PICK s : s = SubSeq(stack, 1, m)
    OBVIOUS
  <1>6. s \in Seq(Nat) /\ Len(s) = m /\ \A i \in 1 .. m : s[i] = stack[i]
    BY <1>1, <1>4, <1>5
  <1>7. PICK p : p = Append(s, b)
    OBVIOUS
  <1>8. p \in Seq(Nat) /\ Len(p) = m + 1 /\ p[m + 1] = b /\ \A i \in 1 .. m : p[i] = s[i]
    BY <1>1, <1>4, <1>6, <1>7
  <1>9. p = PathOf(stack, b)
    BY <1>2, <1>5, <1>7 DEF PathOf
  <1> QED
    BY <1>3, <1>4, <1>6, <1>8, <1>9

LEMMA UnitsOfMeans ==
    ASSUME NEW pieces \in Seq(Text), NEW stack \in Seq(Nat)
    PROVE  /\ UnitsOf(pieces, stack) \in Seq(SomeUnit) /\ Len(UnitsOf(pieces, stack)) = Len(pieces)
           /\ \A i \in 1 .. Len(pieces) : UnitsOf(pieces, stack)[i] = Unit(pieces[i], stack, FALSE)
  <1>1. Len(pieces) \in Nat /\ DOMAIN pieces = 1 .. Len(pieces) /\ \A i \in 1 .. Len(pieces) : pieces[i] \in Text
    OBVIOUS
  <1>2. \A i \in 1 .. Len(pieces) : Unit(pieces[i], stack, FALSE) \in SomeUnit
    BY <1>1 DEF Unit, SomeUnit
  <1>3. PICK q : q = UnitsOf(pieces, stack)
    OBVIOUS
  <1>4. q = [i \in 1 .. Len(pieces) |-> Unit(pieces[i], stack, FALSE)]
    BY <1>1, <1>3 DEF UnitsOf
  <1>5. q \in [1 .. Len(pieces) -> SomeUnit]
    BY <1>2, <1>4
  <1>6. q \in Seq(SomeUnit) /\ Len(q) = Len(pieces)
    BY <1>1, <1>5
  <1> QED
    BY <1>3, <1>4, <1>6

\* How the units of a document come about, block by block.
LEMMA UnitsRead ==
    ASSUME Given
    PROVE  \E h : /\ h[0] = Fresh
                  /\ \A n \in 1 .. Len(document) : h[n] = AddBlock(h[n - 1], n)
                  /\ Units = h[Len(document)].units
  <1> DEFINE X == [stack : Seq(Nat), units : Seq(SomeUnit)]
             N == Len(document)
             after(n, g) == AddBlock(g, n)
             Is(h) == h = [n \in 0 .. Len(document) |-> IF n = 0 THEN Fresh ELSE AddBlock(h[n - 1], n)]
             Found == CHOOSE h : Is(h)
  <1>1. N \in Nat /\ Fresh \in X
    <2>1. <<>> \in Seq(Nat) /\ <<>> \in Seq(SomeUnit)
      OBVIOUS
    <2> QED
      BY <2>1, DocumentGiven DEF Fresh
  <1>2. ASSUME NEW n \in 1 .. N, NEW g \in X PROVE after(n, g) \in X
    <2>1. g.stack \in Seq(Nat) /\ g.units \in Seq(SomeUnit)
      OBVIOUS
    <2>2. CASE document[n].level > 0
      <3>1. PICK p : p = PathOf(g.stack, n)
        OBVIOUS
      <3>2. p \in Seq(Nat)
        BY <2>1, <2>2, <3>1, PathMeans
      <3>3. Block(n) \in Text
        BY BlockSolid DEF Solid
      <3>4. PICK u \in SomeUnit : u = Unit(Block(n), p, TRUE)
        BY <3>2, <3>3 DEF Unit, SomeUnit
      <3>7. PICK q : q = Append(g.units, u)
        OBVIOUS
      <3>8. PICK us \in Seq(SomeUnit) : us = g.units
        BY <2>1
      <3>9. Append(us, u) \in Seq(SomeUnit)
        OBVIOUS
      <3>5. q \in Seq(SomeUnit)
        BY <3>7, <3>8, <3>9
      <3>6. AddBlock(g, n) = [stack |-> p, units |-> q]
        BY <2>2, <3>1, <3>4, <3>7 DEF AddBlock
      <3> QED
        BY <3>2, <3>5, <3>6
    <2>3. CASE ~(document[n].level > 0)
      <3>1. PICK p : p = SplitOversized(n)
        OBVIOUS
      <3>2. PICK q : q = UnitsOf(p, g.stack)
        OBVIOUS
      <3>3. p \in Seq(Text)
        BY <3>1, SplitOversizedSound DEF WellCut
      <3>4. q \in Seq(SomeUnit)
        BY <2>1, <3>2, <3>3, UnitsOfMeans
      <3>5. g.units \o q \in Seq(SomeUnit)
        BY <2>1, <3>4
      <3>6. AddBlock(g, n) = [stack |-> g.stack, units |-> g.units \o q]
        BY <2>3, <3>1, <3>2 DEF AddBlock, UnitsOf
      <3> QED
        BY <2>1, <3>5, <3>6
    <2> QED
      BY <2>2, <2>3
  <1>3. PICK step \in [1 .. N -> [X -> X]] : \A n \in 1 .. N : \A g \in X : step[n][g] = after(n, g)
    <2>1. [n \in 1 .. N |-> [g \in X |-> after(n, g)]] \in [1 .. N -> [X -> X]]
      <3> HIDE DEF X, N, after
      <3> QED
        BY <1>2
    <2> HIDE DEF X, N, after
    <2> QED
      BY <2>1
  <1>4. PICK f \in [0 .. N -> X] : Follows(f, N, Fresh, step)
    <2> HIDE DEF X, N
    <2> QED
      BY <1>1, RecursionDefines
  <1>5. ASSUME NEW n \in 1 .. N PROVE f[n] = after(n, f[n - 1])
    <2> HIDE DEF X, after
    <2>1. n - 1 \in 0 .. N
      BY <1>1
    <2> QED
      BY <1>3, <1>4, <2>1 DEF Follows
  <1>6. Is(f)
    <2>1. \A n \in 0 .. N : f[n] = IF n = 0 THEN Fresh ELSE after(n, f[n - 1])
      <3> HIDE DEF X, after
      <3> QED
        BY <1>1, <1>4, <1>5 DEF Follows
    <2> QED
      BY <1>4, <2>1
  <1>7. Is(Found)
    <2> HIDE DEF Is
    <2> QED
      BY <1>6
  <1>8. PICK h : h = Found /\ Is(h)
    <2> HIDE DEF Is
    <2> QED
      BY <1>7
  <1>9. Units = h[N].units
    BY <1>8 DEF Units, Fresh
  <1> HIDE DEF Found
  <1>10. h[0] = Fresh
    BY <1>1, <1>8
  <1>11. ASSUME NEW n \in 1 .. N PROVE h[n] = after(n, h[n - 1])
    <2>1. n \in 0 .. N /\ n # 0
      BY <1>1
    <2> QED
      BY <1>8, <2>1
  <1> QED
    BY <1>9, <1>10, <1>11


\* The headings a place is under, the outermost first.
StackSound(n, stack) ==
    /\ stack \in Seq(Nat) /\ \A i \in 1 .. Len(stack) : stack[i] <= n
    /\ \A i, j \in 1 .. Len(stack) : i < j => stack[i] < stack[j]
    /\ Nested => ToSet(stack) = Enclosing(n) /\ \A i \in 1 .. Len(stack) : document[stack[i]].level = i

Right(path, b) == Nested => Names(path, b)

LEMMA StackNames ==
    ASSUME NEW n, NEW stack, StackSound(n, stack)
    PROVE  Right(stack, n)
  <1>1. DOMAIN stack = 1 .. Len(stack)
    BY DEF StackSound
  <1>2. /\ \A i, j \in 1 .. Len(stack) : i < j => stack[i] < stack[j]
        /\ Nested => ToSet(stack) = Enclosing(n)
    BY DEF StackSound
  <1> QED
    BY <1>1, <1>2 DEF Right, Names

LEMMA ParagraphStack ==
    ASSUME Given, NEW b \in 1 .. Len(document), document[b].level = 0, NEW stack, StackSound(b - 1, stack)
    PROVE  StackSound(b, stack)
  <1>1. Enclosing(b) = Enclosing(b - 1)
    BY EnclosingNext
  <1>2. stack \in Seq(Nat) /\ \A i \in 1 .. Len(stack) : stack[i] <= b
    <2>1. stack \in Seq(Nat) /\ (\A i \in 1 .. Len(stack) : stack[i] <= b - 1) /\ b \in Nat
      BY DocumentGiven DEF StackSound
    <2>2. \A i \in 1 .. Len(stack) : stack[i] \in Nat
      BY <2>1
    <2> QED
      BY <2>1, <2>2
  <1> QED
    BY <1>1, <1>2 DEF StackSound

LEMMA HeadingStack ==
    ASSUME Given, NEW b \in 1 .. Len(document), document[b].level > 0, NEW stack, StackSound(b - 1, stack)
    PROVE  StackSound(b, PathOf(stack, b))
  <1>1. /\ stack \in Seq(Nat) /\ Len(stack) \in Nat /\ b \in Nat
        /\ \A i \in 1 .. Len(stack) : stack[i] \in Nat /\ stack[i] <= b - 1
        /\ \A i, j \in 1 .. Len(stack) : i < j => stack[i] < stack[j]
    <2>1. stack \in Seq(Nat)
      BY DEF StackSound
    <2>2. Len(stack) \in Nat /\ \A i \in 1 .. Len(stack) : stack[i] \in Nat
      BY <2>1
    <2> QED
      BY <2>1, <2>2, DocumentGiven DEF StackSound
  <1>2. document[b].level \in Nat \ {0}
    BY DocumentGiven DEF IsBlock
  <1>3. PICK l : l = document[b].level
    OBVIOUS
  <1>4. PICK p : p = PathOf(stack, b)
    OBVIOUS
  <1>5. p \in Seq(Nat)
    BY <1>1, <1>4, PathMeans
  <1>6. PICK m \in 0 .. Len(stack) :
              /\ m = IF Len(stack) <= l - 1 THEN Len(stack) ELSE l - 1
              /\ Len(p) = m + 1 /\ p[m + 1] = b /\ \A i \in 1 .. m : p[i] = stack[i]
    <2>1. \E m \in 0 .. Len(stack) :
              /\ m = IF Len(stack) <= document[b].level - 1 THEN Len(stack) ELSE document[b].level - 1
              /\ Len(PathOf(stack, b)) = m + 1 /\ PathOf(stack, b)[m + 1] = b
              /\ \A i \in 1 .. m : PathOf(stack, b)[i] = stack[i]
      BY <1>1, PathMeans
    <2> QED
      BY <1>3, <1>4, <2>1
  <1>7. \A i \in 1 .. m + 1 : i \in 1 .. m \/ i = m + 1
    BY <1>6
  <1>8. ASSUME NEW i \in 1 .. m PROVE i \in 1 .. Len(stack) /\ p[i] = stack[i] /\ p[i] \in Nat /\ p[i] < b
    <2>1. i \in 1 .. Len(stack)
      BY <1>1, <1>6
    <2>2. stack[i] \in Nat /\ stack[i] <= b - 1 /\ p[i] = stack[i]
      BY <1>1, <1>6, <2>1
    <2> QED
      BY <1>1, <2>1, <2>2
  <1>9. \A i \in 1 .. Len(p) : p[i] <= b
    <2>1. \A i \in 1 .. m : p[i] <= b
      BY <1>1, <1>8
    <2> QED
      BY <1>1, <1>6, <1>7, <2>1
  <1>10. ASSUME NEW i \in 1 .. Len(p), NEW j \in 1 .. Len(p), i < j PROVE p[i] < p[j]
    <2>1. i \in 1 .. m
      BY <1>6, <1>10
    <2>2. CASE j = m + 1
      BY <1>6, <1>8, <2>1, <2>2
    <2>3. CASE j \in 1 .. m
      BY <1>1, <1>8, <1>10, <2>1, <2>3
    <2> QED
      BY <1>6, <1>7, <2>2, <2>3
  <1>11. ASSUME Nested
         PROVE  ToSet(p) = Enclosing(b) /\ \A i \in 1 .. Len(p) : document[p[i]].level = i
    <2>1. /\ ToSet(stack) = Enclosing(b - 1)
          /\ \A i \in 1 .. Len(stack) : document[stack[i]].level = i
      BY <1>11 DEF StackSound
    <2>2. Enclosing(b) = {h \in Enclosing(b - 1) : document[h].level < l} \union {b}
      BY <1>2, <1>3, EnclosingNext
    <2>3. \A h : h \in Enclosing(b - 1) <=> \E i \in 1 .. Len(stack) : h = stack[i]
      BY <1>1, <2>1 DEF ToSet
    <2>4. l - 1 <= Len(stack)
      <3>1. b \in Headings
        BY <1>2, DocumentGiven DEF Headings
      <3>2. CASE l = 1
        BY <1>1, <3>2
      <3>3. CASE l # 1
        <4>1. PICK g \in Enclosing(b) : document[g].level + 1 = l
          BY <1>3, <1>11, <3>1, <3>3 DEF Nested
        <4>2. g # b
          BY <1>2, <1>3, <4>1
        <4>3. PICK i \in 1 .. Len(stack) : g = stack[i]
          BY <2>2, <2>3, <4>1, <4>2
        <4>4. i + 1 = l
          BY <2>1, <4>1, <4>3
        <4> QED
          BY <1>1, <4>4
      <3> QED
        BY <3>2, <3>3
    <2>5. m = l - 1
      <3>1. PICK x \in Nat, y \in Nat \ {0} : x = Len(stack) /\ y = l
        BY <1>1, <1>2, <1>3
      <3>2. (m = IF x <= y - 1 THEN x ELSE y - 1) /\ y - 1 <= x
        BY <1>6, <2>4, <3>1
      <3> QED
        BY <3>1, <3>2
    <2>6. ASSUME NEW i \in 1 .. Len(p) PROVE document[p[i]].level = i
      <3>1. CASE i = m + 1
        <4>1. m + 1 = l
          BY <1>2, <1>3, <2>5
        <4> QED
          BY <1>3, <1>6, <3>1, <4>1
      <3>2. CASE i \in 1 .. m
        BY <1>8, <2>1, <3>2
      <3> QED
        BY <1>6, <1>7, <3>1, <3>2
    <2>7. ASSUME NEW h PROVE h \in Enclosing(b) <=> \E i \in 1 .. Len(p) : h = p[i]
      <3>1. ASSUME NEW i \in 1 .. Len(p), h = p[i] PROVE h \in Enclosing(b)
        <4>1. CASE i = m + 1
          BY <1>6, <2>2, <3>1, <4>1
        <4>2. CASE i \in 1 .. m
          <5>1. h \in Enclosing(b - 1) /\ document[h].level = i
            BY <1>8, <2>1, <2>3, <3>1, <4>2
          <5>2. i < l
            BY <1>2, <1>3, <2>5, <4>2
          <5> QED
            BY <2>2, <5>1, <5>2
        <4> QED
          BY <1>6, <1>7, <4>1, <4>2
      <3>2. ASSUME h \in Enclosing(b) PROVE \E i \in 1 .. Len(p) : h = p[i]
        <4>1. CASE h = b
          <5>1. m + 1 \in 1 .. Len(p)
            BY <1>6
          <5> QED
            BY <1>6, <4>1, <5>1
        <4>2. CASE h # b
          <5>1. h \in Enclosing(b - 1) /\ document[h].level < l
            BY <2>2, <3>2, <4>2
          <5>2. PICK i \in 1 .. Len(stack) : h = stack[i]
            BY <2>3, <5>1
          <5>3. i < l
            BY <2>1, <5>1, <5>2
          <5>4. i \in 1 .. m /\ i \in 1 .. Len(p)
            <6>1. i \in Nat /\ i >= 1 /\ l \in Nat /\ i <= l - 1
              BY <1>2, <1>3, <5>3
            <6> QED
              BY <1>6, <2>5, <6>1
          <5> QED
            BY <1>8, <5>2, <5>4
        <4> QED
          BY <4>1, <4>2
      <3> QED
        BY <3>1, <3>2
    <2>8. ToSet(p) = {p[i] : i \in 1 .. Len(p)}
      BY <1>5 DEF ToSet
    <2>9. ToSet(p) = Enclosing(b)
      BY <2>7, <2>8
    <2> QED
      BY <2>6, <2>9
  <1> QED
    BY <1>4, <1>5, <1>9, <1>10, <1>11 DEF StackSound


LEMMA TextsMeans ==
    ASSUME NEW parts, NEW N \in Nat, DOMAIN parts = 1 .. N, \A i \in 1 .. N : parts[i].text \in Text
    PROVE  /\ Texts(parts) \in Seq(Text) /\ Len(Texts(parts)) = N /\ DOMAIN Texts(parts) = 1 .. N
           /\ \A i \in 1 .. N : Texts(parts)[i] = parts[i].text
  <1>1. PICK t : t = Texts(parts)
    OBVIOUS
  <1>2. t = [i \in 1 .. N |-> parts[i].text]
    BY <1>1 DEF Texts
  <1>3. t \in [1 .. N -> Text]
    BY <1>2
  <1>4. t \in Seq(Text) /\ Len(t) = N /\ DOMAIN t = 1 .. N
    BY <1>3
  <1> QED
    BY <1>1, <1>2, <1>4

LEMMA SameTexts ==
    ASSUME NEW p \in Seq(Text), NEW q \in Seq(Text), Len(p) = Len(q), \A i \in 1 .. Len(p) : p[i] = q[i]
    PROVE  p = q
  OBVIOUS

UnitFine(u) ==
    /\ u.text # <<>> /\ Bounded(u.text) /\ (Size > 1 => Letters(u.text) # {})
    /\ \A c \in Letters(u.text) : Right(u.path, c[1])

\* Units that say these letters, the last of them under these headings.
ListSound(units, letters, stack) ==
    /\ units \in Seq(SomeUnit) /\ Tell(Texts(units), letters)
    /\ \A i \in 1 .. Len(units) : UnitFine(units[i])
    /\ \A i \in 2 .. Len(units) : units[i].starts \/ units[i].path = units[i - 1].path
    /\ \A i \in 1 .. Len(units) : Blank(units[i].text[1]) => i > 1 /\ ~units[i].starts
    /\ Len(units) > 0 => units[Len(units)].path = stack

LEMMA UnitsTexts ==
    ASSUME NEW units \in Seq(SomeUnit)
    PROVE  /\ Texts(units) \in Seq(Text) /\ Len(Texts(units)) = Len(units) /\ DOMAIN Texts(units) = 1 .. Len(units)
           /\ \A i \in 1 .. Len(units) : Texts(units)[i] = units[i].text /\ units[i].text \in Text
  <1>1. \A i \in 1 .. Len(units) : units[i] \in SomeUnit
    OBVIOUS
  <1>2. \A i \in 1 .. Len(units) : units[i].text \in Text
    BY <1>1 DEF SomeUnit
  <1>3. Len(units) \in Nat /\ DOMAIN units = 1 .. Len(units)
    OBVIOUS
  <1> QED
    BY <1>2, <1>3, TextsMeans

LEMMA ListBoth ==
    ASSUME NEW p, NEW C, NEW s, ListSound(p, C, s), NEW q, NEW D, NEW s2, ListSound(q, D, s2),
           Precede(C, D), Len(q) = 0 => s2 = s, Len(q) > 0 => q[1].starts \/ q[1].path = s
    PROVE  ListSound(p \o q, C \union D, s2)
  <1>1. p \in Seq(SomeUnit) /\ q \in Seq(SomeUnit)
    BY DEF ListSound
  <1>2. PICK r : r = p \o q
    OBVIOUS
  <1>3. /\ r \in Seq(SomeUnit) /\ Len(r) = Len(p) + Len(q) /\ Len(p) \in Nat /\ Len(q) \in Nat
        /\ \A i \in 1 .. Len(p) : r[i] = p[i]
        /\ \A i \in 1 .. Len(q) : r[Len(p) + i] = q[i]
    BY <1>1, <1>2
  <1>4. ASSUME NEW i \in 1 .. Len(r)
        PROVE  \/ i \in 1 .. Len(p) /\ r[i] = p[i]
               \/ i - Len(p) \in 1 .. Len(q) /\ r[i] = q[i - Len(p)]
    <2>1. CASE i \in 1 .. Len(p)
      BY <1>3, <2>1
    <2>2. CASE i \notin 1 .. Len(p)
      <3>1. i - Len(p) \in 1 .. Len(q) /\ i = Len(p) + (i - Len(p))
        BY <1>3, <2>2
      <3> QED
        BY <1>3, <3>1
    <2> QED
      BY <2>1, <2>2
  <1>5. Tell(Texts(r), C \union D)
    <2>1. PICK a \in Seq(Text), b \in Seq(Text) : a = Texts(p) /\ b = Texts(q)
      BY <1>1, UnitsTexts
    <2>2. Tell(a, C) /\ Tell(b, D)
      BY <2>1 DEF ListSound
    <2>3. Tell(a \o b, C \union D)
      BY <2>2, TellBoth
    <2>11. a \o b \in Seq(Text)
      OBVIOUS
    <2>4. PICK c \in Seq(Text) : c = a \o b
      BY <2>11
    <2>5. /\ Len(a) = Len(p) /\ Len(b) = Len(q)
          /\ \A i \in 1 .. Len(p) : a[i] = p[i].text
          /\ \A i \in 1 .. Len(q) : b[i] = q[i].text
      BY <1>1, <2>1, UnitsTexts
    <2>6. /\ Len(c) = Len(a) + Len(b)
          /\ \A i \in 1 .. Len(a) : c[i] = a[i]
          /\ \A i \in 1 .. Len(b) : c[Len(a) + i] = b[i]
      BY <2>4
    <2>7. PICK d \in Seq(Text) : d = Texts(r)
      BY <1>3, UnitsTexts
    <2>8. Len(d) = Len(r) /\ \A i \in 1 .. Len(r) : d[i] = r[i].text
      BY <1>3, <2>7, UnitsTexts
    <2>9. ASSUME NEW i \in 1 .. Len(d) PROVE d[i] = c[i]
      <3>1. d[i] = r[i].text /\ i \in 1 .. Len(r)
        BY <2>8
      <3>2. CASE i \in 1 .. Len(p) /\ r[i] = p[i]
        BY <2>5, <2>6, <3>1, <3>2
      <3>3. CASE i - Len(p) \in 1 .. Len(q) /\ r[i] = q[i - Len(p)]
        <4>1. PICK j \in 1 .. Len(q) : i = Len(p) + j /\ r[i] = q[j]
          BY <1>3, <3>1, <3>3
        <4>2. c[Len(a) + j] = b[j]
          BY <2>5, <2>6
        <4>3. c[i] = b[j]
          BY <2>5, <4>1, <4>2
        <4> QED
          BY <2>5, <3>1, <4>1, <4>3
      <3> QED
        BY <1>4, <3>1, <3>2, <3>3
    <2>10. d = c
      BY <1>3, <2>5, <2>6, <2>8, <2>9, SameTexts
    <2> QED
      BY <2>3, <2>4, <2>7, <2>10
  <1>6. \A i \in 1 .. Len(r) : UnitFine(r[i])
    BY <1>4 DEF ListSound
  <1>7. ASSUME NEW i \in 2 .. Len(r) PROVE r[i].starts \/ r[i].path = r[i - 1].path
    <2>1. i \in 1 .. Len(r) /\ i - 1 \in 1 .. Len(r) /\ i \in Nat
      BY <1>3
    <2>2. CASE i \in 1 .. Len(p) /\ r[i] = p[i]
      <3>1. i \in 2 .. Len(p) /\ i - 1 \in 1 .. Len(p)
        BY <2>2
      <3> QED
        BY <1>3, <2>2, <3>1 DEF ListSound
    <2>3. CASE i - Len(p) \in 1 .. Len(q) /\ r[i] = q[i - Len(p)]
      <3>1. CASE i - Len(p) = 1
        <4>1. i - 1 = Len(p) /\ Len(p) \in 1 .. Len(p) /\ Len(q) > 0 /\ Len(p) > 0
          BY <1>3, <2>3, <3>1
        <4>2. r[i - 1] = p[Len(p)]
          BY <1>3, <4>1
        <4>3. p[Len(p)].path = s
          BY <4>1 DEF ListSound
        <4> QED
          BY <2>3, <3>1, <4>1, <4>2, <4>3
      <3>2. CASE i - Len(p) # 1
        <4>3. PICK j : j = i - Len(p)
          OBVIOUS
        <4>1. j \in 2 .. Len(q) /\ i = Len(p) + j /\ i - 1 = Len(p) + (j - 1) /\ j \in 1 .. Len(q) /\ j - 1 \in 1 .. Len(q)
          <5>1. j \in 1 .. Len(q) /\ j # 1
            BY <2>3, <3>2, <4>3
          <5>2. Len(p) \in Nat /\ Len(q) \in Nat /\ i \in Nat
            BY <1>3, <2>1
          <5> QED
            BY <4>3, <5>1, <5>2
        <4>2. r[i] = q[j] /\ r[i - 1] = q[j - 1]
          BY <1>3, <4>1
        <4> QED
          BY <4>1, <4>2 DEF ListSound
      <3> QED
        BY <3>1, <3>2
    <2> QED
      BY <1>4, <2>1, <2>2, <2>3
  <1>8. ASSUME NEW i \in 1 .. Len(r), Blank(r[i].text[1]) PROVE i > 1 /\ ~r[i].starts
    <2>1. CASE i \in 1 .. Len(p) /\ r[i] = p[i]
      BY <1>8, <2>1 DEF ListSound
    <2>2. CASE i - Len(p) \in 1 .. Len(q) /\ r[i] = q[i - Len(p)]
      <3>1. i - Len(p) > 1 /\ ~q[i - Len(p)].starts
        BY <1>8, <2>2 DEF ListSound
      <3> QED
        BY <1>3, <2>2, <3>1
    <2> QED
      BY <1>4, <2>1, <2>2
  <1>9. Len(r) > 0 => r[Len(r)].path = s2
    <2>1. CASE Len(q) = 0
      <3>1. Len(r) = Len(p) /\ (Len(p) > 0 => Len(p) \in 1 .. Len(p))
        BY <1>3, <2>1
      <3> QED
        BY <1>3, <2>1, <3>1 DEF ListSound
    <2>2. CASE Len(q) # 0
      <3>1. Len(q) > 0 /\ Len(q) \in 1 .. Len(q) /\ Len(r) = Len(p) + Len(q)
        BY <1>3, <2>2
      <3> QED
        BY <1>3, <3>1 DEF ListSound
    <2> QED
      BY <2>1, <2>2
  <1> QED
    BY <1>2, <1>3, <1>5, <1>6, <1>7, <1>8, <1>9 DEF ListSound

Says(n) == UNION {Letters(Block(b)) : b \in 1 .. n}

LEMMA SaidNext ==
    ASSUME Given, NEW b \in 1 .. Len(document)
    PROVE  Says(b) = Says(b - 1) \union Letters(Block(b)) /\ Precede(Says(b - 1), Letters(Block(b)))
  <1>1. b \in Nat \ {0} /\ Len(document) \in Nat
    BY DocumentGiven
  <1>2. \A i : i \in 1 .. b <=> i \in 1 .. b - 1 \/ i = b
    BY <1>1
  <1>3. \A c : c \in Says(b) <=> c \in Says(b - 1) \/ c \in Letters(Block(b))
    BY <1>2, Zenon DEF Says
  <1>4. ASSUME NEW c \in Says(b - 1), NEW d \in Letters(Block(b)) PROVE Ahead(c, d)
    <2>1. PICK i \in 1 .. b - 1 : c \in Letters(Block(i))
      BY DEF Says
    <2>2. i \in 1 .. Len(document) /\ i < b
      BY <1>1
    <2>3. c[1] = i /\ d[1] = b
      BY <2>1, <2>2, BlockSolid
    <2> QED
      BY <2>2, <2>3 DEF Ahead
  <1> QED
    BY <1>3, <1>4 DEF Precede

LEMMA HeadingUnits ==
    ASSUME Given, NEW b \in 1 .. Len(document), document[b].level > 0,
           NEW path \in Seq(Nat), Right(path, b)
    PROVE  ListSound(<<Unit(Block(b), path, TRUE)>>, Letters(Block(b)), path)
  <1>1. PICK t \in Text : t = Block(b)
    BY BlockSolid DEF Solid
  <1>2. Solid(t) /\ Len(t) = document[b].length /\ \A c \in Letters(t) : c[1] = b
    BY <1>1, BlockSolid
  <1>3. PICK u \in SomeUnit : u = Unit(t, path, TRUE)
    BY DEF Unit, SomeUnit
  <1>4. u.text = t /\ u.path = path /\ u.starts = TRUE
    BY <1>3 DEF Unit
  <1>5. PICK q : q = <<u>>
    OBVIOUS
  <1>6. q \in Seq(SomeUnit) /\ Len(q) = 1 /\ q[1] = u
    BY <1>5
  <1>7. PICK w : w = <<t>>
    OBVIOUS
  <1>8. w \in Seq(Text) /\ Tell(w, Letters(t)) /\ Len(w) = 1 /\ w[1] = t
    BY <1>2, <1>7, TellOne DEF Solid
  <1>9. Tell(Texts(q), Letters(t))
    <2>1. PICK d \in Seq(Text) : d = Texts(q)
      BY <1>6, UnitsTexts
    <2>2. Len(d) = 1 /\ d[1] = t
      BY <1>4, <1>6, <2>1, UnitsTexts
    <2>3. d = w
      BY <1>8, <2>2, SameTexts
    <2> QED
      BY <1>8, <2>1, <2>3
  <1>10. UnitFine(u)
    <2>1. t # <<>> /\ ~Blank(t[1])
      BY <1>2 DEF Solid
    <2>2. 1 \in 1 .. Len(t)
      BY <2>1, TextFacts
    <2>3. Letters(t) # {}
      BY <2>1, <2>2, IsLetter
    <2>4. Bounded(t)
      <3>1. CASE Len(t) <= Size
        BY <3>1 DEF Bounded
      <3>2. CASE ~(Len(t) <= Size)
        <4>1. b \in Headings /\ document[b].length > Size
          BY <1>2, <3>2, SettingGiven, DocumentGiven, TextFacts DEF Headings
        <4> QED
          BY <1>2, <4>1 DEF Bounded
      <3> QED
        BY <3>1, <3>2
    <2> QED
      BY <1>2, <1>4, <2>1, <2>3, <2>4 DEF UnitFine
  <1>11. ~Blank(u.text[1])
    BY <1>2, <1>4 DEF Solid
  <1>12. ListSound(q, Letters(t), path)
    <2>1. \A i \in 1 .. Len(q) : i = 1
      BY <1>6
    <2>2. ~(\E i : i \in 2 .. Len(q))
      BY <1>6
    <2> QED
      BY <1>4, <1>6, <1>9, <1>10, <1>11, <2>1, <2>2 DEF ListSound
  <1> QED
    BY <1>1, <1>3, <1>5, <1>12

LEMMA ParagraphUnits ==
    ASSUME Given, NEW b \in 1 .. Len(document), NEW path \in Seq(Nat), Right(path, b)
    PROVE  ListSound(UnitsOf(SplitOversized(b), path), Letters(Block(b)), path)
  <1>1. WellCut(SplitOversized(b), Letters(Block(b)))
    BY SplitOversizedSound
  <1>2. PICK p \in Seq(Text) : p = SplitOversized(b)
    BY <1>1 DEF WellCut
  <1>3. PICK q \in Seq(SomeUnit) : q = UnitsOf(p, path)
    BY UnitsOfMeans
  <1>4. Len(q) = Len(p) /\ Len(p) \in Nat /\ \A i \in 1 .. Len(p) : q[i] = Unit(p[i], path, FALSE)
    <2>1. /\ Len(UnitsOf(p, path)) = Len(p)
          /\ \A i \in 1 .. Len(p) : UnitsOf(p, path)[i] = Unit(p[i], path, FALSE)
      BY UnitsOfMeans, Zenon
    <2>2. Len(p) \in Nat
      OBVIOUS
    <2> QED
      BY <1>3, <2>1, <2>2
  <1>5. ASSUME NEW i \in 1 .. Len(p)
        PROVE  q[i].text = p[i] /\ q[i].path = path /\ q[i].starts = FALSE
    <2>1. q[i] = Unit(p[i], path, FALSE)
      BY <1>4
    <2> QED
      BY <2>1 DEF Unit
  <1>6. Tell(p, Letters(Block(b))) /\ (\A i \in 1 .. Len(p) : Fine(p[i])) /\ (p # <<>> => ~Blank(p[1][1]))
    BY <1>1, <1>2 DEF WellCut
  <1>7. Tell(Texts(q), Letters(Block(b)))
    <2>1. PICK d \in Seq(Text) : d = Texts(q)
      BY UnitsTexts
    <2>2. Len(d) = Len(p) /\ \A i \in 1 .. Len(p) : d[i] = p[i]
      BY <1>4, <1>5, <2>1, UnitsTexts
    <2>3. d = p
      BY <2>2, SameTexts
    <2> QED
      BY <1>6, <2>1, <2>3
  <1>8. ASSUME NEW i \in 1 .. Len(q) PROVE UnitFine(q[i])
    <2>1. Fine(p[i]) /\ q[i].text = p[i] /\ q[i].path = path
      BY <1>4, <1>5, <1>6
    <2>2. Letters(p[i]) \subseteq Letters(Block(b))
      BY <1>4, <1>6 DEF Tell
    <2>3. \A c \in Letters(p[i]) : c[1] = b
      BY <2>2, BlockSolid
    <2> QED
      BY <2>1, <2>3 DEF UnitFine, Fine, Bounded
  <1>9. ASSUME NEW i \in 1 .. Len(q), Blank(q[i].text[1]) PROVE i > 1
    <2>1. i # 1
      <3>1. p # <<>>
        BY <1>4
      <3> QED
        BY <1>4, <1>5, <1>6, <1>9, <3>1
    <2> QED
      BY <1>4, <2>1
  <1>10. \A i \in 2 .. Len(q) : q[i].path = q[i - 1].path
    <2>1. \A i \in 2 .. Len(q) : i \in 1 .. Len(p) /\ i - 1 \in 1 .. Len(p)
      BY <1>4
    <2> QED
      BY <1>5, <2>1
  <1>11. Len(q) > 0 => q[Len(q)].path = path
    <2>1. Len(q) > 0 => Len(q) \in 1 .. Len(p)
      BY <1>4
    <2> QED
      BY <1>5, <2>1
  <1> QED
    BY <1>2, <1>3, <1>4, <1>5, <1>7, <1>8, <1>9, <1>10, <1>11 DEF ListSound

LEMMA UnitsSound ==
    ASSUME Given
    PROVE  \E stack : ListSound(Units, Everything, stack)
  <1> DEFINE N == Len(document)
  <1>1. PICK h : /\ h[0] = Fresh
                 /\ \A n \in 1 .. Len(document) : h[n] = AddBlock(h[n - 1], n)
                 /\ Units = h[Len(document)].units
    BY UnitsRead
  <1>2. N \in Nat /\ DOMAIN document = 1 .. N
    BY DocumentGiven
  <1> DEFINE Sound(n, g) == ListSound(g.units, Says(n), g.stack) /\ StackSound(n, g.stack)
             S == {n \in 0 .. N : Sound(n, h[n])}
  <1>3. 0 \in S
    <2>1. h[0].stack = <<>> /\ h[0].units = <<>>
      BY <1>1 DEF Fresh
    <2>2. Says(0) = {}
      BY DEF Says
    <2>3. ListSound(<<>>, {}, <<>>)
      <3>4. <<>> \in Seq(SomeUnit)
        OBVIOUS
      <3>1. PICK e \in Seq(SomeUnit) : e = <<>>
        BY <3>4
      <3>2. Len(e) = 0 /\ Texts(e) = <<>>
        BY <3>1 DEF Texts
      <3>3. ListSound(e, {}, <<>>)
        BY <3>2, TellNothing DEF ListSound
      <3> QED
        BY <3>1, <3>3
    <2>4. StackSound(0, <<>>)
      <3>1. Enclosing(0) = {}
        <4>1. \A k \in Headings : ~(k <= 0)
          BY <1>2 DEF Headings
        <4> QED
          BY <4>1 DEF Enclosing
      <3>2. ToSet(<<>>) = {}
        BY DEF ToSet
      <3>3. PICK e : e = <<>>
        OBVIOUS
      <3>4. e \in Seq(Nat) /\ Len(e) = 0
        BY <3>3
      <3>5. StackSound(0, e)
        BY <3>1, <3>2, <3>3, <3>4 DEF StackSound
      <3> QED
        BY <3>3, <3>5
    <2> QED
      BY <1>2, <2>1, <2>2, <2>3, <2>4
  <1>4. ASSUME NEW n \in 1 .. N, n - 1 \in S PROVE n \in S
    <2>1. PICK g : g = h[n - 1]
      OBVIOUS
    <2>2. ListSound(g.units, Says(n - 1), g.stack) /\ StackSound(n - 1, g.stack) /\ n \in 0 .. N /\ n \in 1 .. Len(document)
      BY <1>2, <1>4, <2>1
    <2>3. h[n] = AddBlock(g, n)
      BY <1>1, <2>1
    <2>4. Says(n) = Says(n - 1) \union Letters(Block(n)) /\ Precede(Says(n - 1), Letters(Block(n)))
      BY SaidNext
    <2>5. g.stack \in Seq(Nat) /\ g.units \in Seq(SomeUnit)
      BY <2>2 DEF StackSound, ListSound
    <2>6. CASE document[n].level > 0
      <3>1. PICK p \in Seq(Nat) : p = PathOf(g.stack, n)
        BY <2>5, <2>6, PathMeans
      <3>2. StackSound(n, p)
        BY <2>2, <2>6, <3>1, HeadingStack
      <3>3. PICK q : q = <<Unit(Block(n), p, TRUE)>>
        OBVIOUS
      <3>4. ListSound(q, Letters(Block(n)), p)
        BY <2>6, <3>2, <3>3, StackNames, HeadingUnits
      <3>5. Len(q) = 1 /\ q[1].starts
        BY <3>3 DEF Unit
      <3>6. ListSound(g.units \o q, Says(n), p)
        <4>1. PICK us, s : us = g.units /\ s = g.stack
          OBVIOUS
        <4>2. ListSound(us, Says(n - 1), s)
          BY <2>2, <4>1
        <4>3. (Len(q) = 0 => p = s) /\ (Len(q) > 0 => q[1].starts \/ q[1].path = s)
          BY <3>5
        <4>4. ListSound(us \o q, Says(n - 1) \union Letters(Block(n)), p)
          BY <2>4, <3>4, <4>2, <4>3, ListBoth
        <4> QED
          BY <2>4, <4>1, <4>4
      <3>7. PICK u \in SomeUnit : u = Unit(Block(n), p, TRUE)
        BY BlockSolid DEF Solid, Unit, SomeUnit
      <3>8. g.units \o <<u>> = Append(g.units, u)
        BY <2>5
      <3>9. h[n].stack = p /\ h[n].units = Append(g.units, u)
        <4>1. PICK us : us = Append(g.units, u)
          OBVIOUS
        <4>2. AddBlock(g, n) = [stack |-> p, units |-> us]
          BY <2>6, <3>1, <3>7, <4>1 DEF AddBlock
        <4> QED
          BY <2>3, <4>1, <4>2
      <3>10. Sound(n, h[n])
        BY <3>2, <3>3, <3>6, <3>7, <3>8, <3>9
      <3> QED
        BY <2>2, <3>10
    <2>7. CASE ~(document[n].level > 0)
      <3>1. document[n].level = 0
        BY <2>2, <2>7, DocumentGiven DEF IsBlock
      <3>2. StackSound(n, g.stack)
        BY <2>2, <3>1, ParagraphStack
      <3>3. PICK q : q = UnitsOf(SplitOversized(n), g.stack)
        OBVIOUS
      <3>4. ListSound(q, Letters(Block(n)), g.stack)
        BY <2>5, <3>2, <3>3, StackNames, ParagraphUnits
      <3>5. Len(q) > 0 => q[1].path = g.stack
        <4>1. PICK p \in Seq(Text) : p = SplitOversized(n)
          BY SplitOversizedSound DEF WellCut
        <4>2. Len(q) = Len(p) /\ \A i \in 1 .. Len(p) : q[i] = Unit(p[i], g.stack, FALSE)
          BY <2>5, <3>3, <4>1, UnitsOfMeans
        <4>3. Len(p) > 0 => 1 \in 1 .. Len(p)
          OBVIOUS
        <4>4. ASSUME Len(p) > 0 PROVE q[1].path = g.stack
          <5>1. q[1] = Unit(p[1], g.stack, FALSE)
            BY <4>2, <4>3, <4>4
          <5> QED
            BY <5>1 DEF Unit
        <4> QED
          BY <4>2, <4>4
      <3>6. ListSound(g.units \o q, Says(n), g.stack)
        <4>1. PICK us, s : us = g.units /\ s = g.stack
          OBVIOUS
        <4>2. ListSound(us, Says(n - 1), s) /\ ListSound(q, Letters(Block(n)), s)
          BY <2>2, <3>4, <4>1
        <4>3. Len(q) > 0 => q[1].starts \/ q[1].path = s
          BY <3>5, <4>1
        <4>4. ListSound(us \o q, Says(n - 1) \union Letters(Block(n)), s)
          BY <2>4, <4>2, <4>3, ListBoth
        <4> QED
          BY <2>4, <4>1, <4>4
      <3>7. h[n].stack = g.stack /\ h[n].units = g.units \o q
        <4>1. PICK us : us = g.units \o q
          OBVIOUS
        <4>2. AddBlock(g, n) = [stack |-> g.stack, units |-> us]
          BY <2>7, <3>3, <4>1 DEF AddBlock, UnitsOf
        <4> QED
          BY <2>3, <4>1, <4>2
      <3>8. Sound(n, h[n])
        BY <3>2, <3>6, <3>7
      <3> QED
        BY <2>2, <3>8
    <2> QED
      BY <2>6, <2>7
  <1>5. Sound(N, h[N])
    <2>1. 0 .. N \subseteq S
      <3> HIDE DEF S, N
      <3> QED
        BY <1>2, <1>3, <1>4, UpTo
    <2> QED
      BY <1>2, <2>1
  <1>6. Says(N) = Everything
    BY <1>2 DEF Says, Everything
  <1> QED
    BY <1>1, <1>5, <1>6


-----------------------------------------------------------------------------
(* Chunking: packing *)

SomeChunk == [text : Text, path : Seq(Nat)]
Empty == [done |-> <<>>, text |-> <<>>, path |-> <<>>]


\* How units are packed, one by one.
LEMMA PassagesRead ==
    ASSUME NEW units \in Seq(SomeUnit)
    PROVE  \E h : /\ h[0] = Empty
                  /\ \A n \in 1 .. Len(units) : h[n] = AddUnit(h[n - 1], units[n])
                  /\ Pack(units) = Closed(h[Len(units)])
  <1> DEFINE X == [done : Seq(SomeChunk), text : Text, path : Seq(Nat)]
             N == Len(units)
             after(n, g) == AddUnit(g, units[n])
             Is(h) == h = [n \in 0 .. Len(units) |-> IF n = 0 THEN Empty ELSE AddUnit(h[n - 1], units[n])]
             Found == CHOOSE h : Is(h)
  <1>1. N \in Nat /\ Empty \in X
    <2>1. <<>> \in Seq(Nat) /\ <<>> \in Seq(SomeChunk)
      OBVIOUS
    <2> QED
      BY <2>1, BlankTexts DEF Empty
  <1>2. ASSUME NEW n \in 1 .. N, NEW g \in X PROVE after(n, g) \in X
    <2>1. g.done \in Seq(SomeChunk) /\ g.text \in Text /\ g.path \in Seq(Nat)
      OBVIOUS
    <2>2. PICK u \in SomeUnit : u = units[n]
      OBVIOUS
    <2>3. u.text \in Text /\ u.path \in Seq(Nat)
      BY DEF SomeUnit
    <2>4. Joined(g.text, BlankLine, u.text) \in Text
      BY <2>1, <2>3, BlankTexts, JoinedMeans
    <2>5. Closed(g) \in Seq(SomeChunk)
      <3>1. PICK c \in SomeChunk : c = Chunk(g.text, g.path)
        BY <2>1 DEF SomeChunk, Chunk
      <3>2. PICK list \in Seq(SomeChunk) : list = g.done
        BY <2>1
      <3>3. Append(list, c) \in Seq(SomeChunk)
        OBVIOUS
      <3> QED
        BY <3>1, <3>2, <3>3 DEF Closed
    <2> QED
      BY <2>1, <2>2, <2>3, <2>4, <2>5 DEF AddUnit
  <1>3. PICK step \in [1 .. N -> [X -> X]] : \A n \in 1 .. N : \A g \in X : step[n][g] = after(n, g)
    <2>1. [n \in 1 .. N |-> [g \in X |-> after(n, g)]] \in [1 .. N -> [X -> X]]
      <3> HIDE DEF X, N, after
      <3> QED
        BY <1>2
    <2> HIDE DEF X, N, after
    <2> QED
      BY <2>1
  <1>4. PICK f \in [0 .. N -> X] : Follows(f, N, Empty, step)
    <2> HIDE DEF X, N
    <2> QED
      BY <1>1, RecursionDefines
  <1>5. ASSUME NEW n \in 1 .. N PROVE f[n] = after(n, f[n - 1])
    <2> HIDE DEF X, after
    <2>1. n - 1 \in 0 .. N
      BY <1>1
    <2> QED
      BY <1>3, <1>4, <2>1 DEF Follows
  <1>6. Is(f)
    <2>1. \A n \in 0 .. N : f[n] = IF n = 0 THEN Empty ELSE after(n, f[n - 1])
      <3> HIDE DEF X, after
      <3> QED
        BY <1>1, <1>4, <1>5 DEF Follows
    <2> QED
      BY <1>4, <2>1
  <1>7. Is(Found)
    <2> HIDE DEF Is
    <2> QED
      BY <1>6
  <1>8. PICK h : h = Found /\ Is(h)
    <2> HIDE DEF Is
    <2> QED
      BY <1>7
  <1>9. Pack(units) = Closed(h[N])
    BY <1>8 DEF Pack, Empty
  <1> HIDE DEF Found
  <1>10. h[0] = Empty
    BY <1>1, <1>8
  <1>11. ASSUME NEW n \in 1 .. N PROVE h[n] = after(n, h[n - 1])
    <2>1. n \in 0 .. N /\ n # 0
      BY <1>1
    <2> QED
      BY <1>8, <2>1
  <1> QED
    BY <1>9, <1>10, <1>11

\* Passages that say these letters.
PassageList(list, letters) ==
    /\ list \in Seq(SomeChunk) /\ Tell(Texts(list), letters)
    /\ \A k \in 1 .. Len(list) : UnitFine(list[k])
    /\ \A k \in 1 .. Len(list) : Blank(list[k].text[1]) => k > 1 /\ list[k].path = list[k - 1].path

LEMMA ChunksTexts ==
    ASSUME NEW list \in Seq(SomeChunk)
    PROVE  /\ Texts(list) \in Seq(Text) /\ Len(Texts(list)) = Len(list) /\ DOMAIN Texts(list) = 1 .. Len(list)
           /\ \A i \in 1 .. Len(list) : Texts(list)[i] = list[i].text /\ list[i].text \in Text
  <1>1. \A i \in 1 .. Len(list) : list[i] \in SomeChunk
    OBVIOUS
  <1>2. \A i \in 1 .. Len(list) : list[i].text \in Text
    BY <1>1 DEF SomeChunk
  <1>3. Len(list) \in Nat /\ DOMAIN list = 1 .. Len(list)
    OBVIOUS
  <1> QED
    BY <1>2, <1>3, TextsMeans

LEMMA TextsMore ==
    ASSUME NEW list \in Seq(SomeChunk), NEW c \in SomeChunk
    PROVE  Texts(Append(list, c)) = Append(Texts(list), c.text)
  <1>1. PICK a \in Seq(Text) : a = Texts(list)
    BY ChunksTexts
  <1>2. c.text \in Text
    BY DEF SomeChunk
  <1>3. Append(a, c.text) \in Seq(Text) /\ Append(list, c) \in Seq(SomeChunk)
    BY <1>2
  <1>4. PICK b \in Seq(Text), r \in Seq(SomeChunk) : b = Append(a, c.text) /\ r = Append(list, c)
    BY <1>3
  <1>5. PICK d \in Seq(Text) : d = Texts(r)
    BY ChunksTexts
  <1>6. Len(a) = Len(list) /\ \A i \in 1 .. Len(list) : a[i] = list[i].text
    BY <1>1, ChunksTexts
  <1>7. Len(d) = Len(r) /\ \A i \in 1 .. Len(r) : d[i] = r[i].text
    BY <1>5, ChunksTexts
  <1>8. /\ Len(b) = Len(a) + 1 /\ b[Len(a) + 1] = c.text /\ \A i \in 1 .. Len(a) : b[i] = a[i]
        /\ Len(r) = Len(list) + 1 /\ r[Len(list) + 1] = c /\ \A i \in 1 .. Len(list) : r[i] = list[i]
        /\ Len(list) \in Nat
    BY <1>2, <1>4
  <1>9. ASSUME NEW i \in 1 .. Len(d) PROVE d[i] = b[i]
    <2>1. i \in 1 .. Len(list) \/ i = Len(list) + 1
      BY <1>7, <1>8
    <2> QED
      BY <1>6, <1>7, <1>8, <2>1
  <1>10. d = b
    BY <1>6, <1>7, <1>8, <1>9, SameTexts
  <1> QED
    BY <1>1, <1>4, <1>5, <1>10

LEMMA PassageMore ==
    ASSUME NEW list, NEW C, PassageList(list, C), NEW c \in SomeChunk, UnitFine(c), InOrder(c.text),
           Precede(C, Letters(c.text)),
           Blank(c.text[1]) => Len(list) > 0 /\ c.path = list[Len(list)].path
    PROVE  PassageList(Append(list, c), C \union Letters(c.text))
  <1>1. list \in Seq(SomeChunk)
    BY DEF PassageList
  <1>2. Append(list, c) \in Seq(SomeChunk)
    BY <1>1
  <1>3. PICK r \in Seq(SomeChunk) : r = Append(list, c)
    BY <1>2
  <1>4. Len(r) = Len(list) + 1 /\ Len(list) \in Nat /\ r[Len(list) + 1] = c /\ \A i \in 1 .. Len(list) : r[i] = list[i]
    BY <1>1, <1>3
  <1>5. \A i \in 1 .. Len(r) : i \in 1 .. Len(list) \/ i = Len(list) + 1
    BY <1>4
  <1>6. Tell(Texts(r), C \union Letters(c.text))
    <2>1. PICK a \in Seq(Text) : a = Texts(list)
      BY <1>1, ChunksTexts
    <2>2. Tell(a, C) /\ c.text \in Text
      BY <2>1 DEF PassageList, SomeChunk
    <2>3. Tell(Append(a, c.text), C \union Letters(c.text))
      BY <2>2, TellMore
    <2> QED
      BY <1>1, <1>3, <2>1, <2>3, TextsMore
  <1>7. \A k \in 1 .. Len(r) : UnitFine(r[k])
    BY <1>4, <1>5 DEF PassageList
  <1>8. ASSUME NEW k \in 1 .. Len(r), Blank(r[k].text[1]) PROVE k > 1 /\ r[k].path = r[k - 1].path
    <2>1. CASE k \in 1 .. Len(list)
      <3>1. r[k] = list[k]
        BY <1>4, <2>1
      <3>2. k > 1 /\ list[k].path = list[k - 1].path
        BY <1>8, <2>1, <3>1 DEF PassageList
      <3>3. k - 1 \in 1 .. Len(list)
        BY <1>4, <2>1, <3>2
      <3> QED
        BY <1>4, <3>1, <3>2, <3>3
    <2>2. CASE k = Len(list) + 1
      <3>1. Len(list) > 0 /\ c.path = list[Len(list)].path
        BY <1>4, <1>8, <2>2
      <3>2. Len(list) \in 1 .. Len(list) /\ k - 1 = Len(list) /\ k > 1
        BY <1>4, <2>2, <3>1
      <3> QED
        BY <1>4, <2>2, <3>1, <3>2
    <2> QED
      BY <1>5, <2>1, <2>2
  <1> QED
    BY <1>3, <1>6, <1>7, <1>8 DEF PassageList

\* What has been packed of the units.
Packed(units, n, acc) ==
    /\ acc.text \in Text /\ acc.path \in Seq(Nat) /\ InOrder(acc.text)
    /\ n > 0 => UnitFine(acc) /\ acc.path = units[n].path
    /\ n = 0 => acc.text = <<>> /\ acc.done = <<>>
    /\ n > 0 /\ Blank(acc.text[1]) => Len(acc.done) > 0 /\ acc.path = acc.done[Len(acc.done)].path
    /\ \E C : /\ PassageList(acc.done, C) /\ Precede(C, Letters(acc.text))
              /\ C \union Letters(acc.text) = LettersUpTo(Texts(units), n)

LEMMA ClosedSound ==
    ASSUME NEW units, NEW n \in Nat, NEW acc, Packed(units, n, acc)
    PROVE  /\ PassageList(Closed(acc), LettersUpTo(Texts(units), n))
           /\ n > 0 => Len(Closed(acc)) > 0 /\ Closed(acc)[Len(Closed(acc))].path = acc.path
  <1>1. PICK C : /\ PassageList(acc.done, C) /\ Precede(C, Letters(acc.text))
                 /\ C \union Letters(acc.text) = LettersUpTo(Texts(units), n)
    BY DEF Packed
  <1>2. CASE n = 0
    <2>1. acc.text = <<>>
      BY <1>2 DEF Packed
    <2>2. Closed(acc) = acc.done
      BY <2>1 DEF Closed
    <2>3. LettersUpTo(Texts(units), n) = C
      BY <1>1, <2>1, BlankTexts
    <2> QED
      BY <1>1, <1>2, <2>2, <2>3
  <1>3. CASE n > 0
    <2>1. acc.text # <<>> /\ UnitFine(acc) /\ InOrder(acc.text) /\ acc.text \in Text /\ acc.path \in Seq(Nat)
      BY <1>3 DEF Packed, UnitFine
    <2>2. PICK c \in SomeChunk : c = Chunk(acc.text, acc.path)
      BY <2>1 DEF SomeChunk, Chunk
    <2>3. c.text = acc.text /\ c.path = acc.path
      BY <2>2 DEF Chunk
    <2>4. PICK list \in Seq(SomeChunk) : list = acc.done
      BY <1>1 DEF PassageList
    <2>5. Closed(acc) = Append(list, c)
      BY <2>1, <2>2, <2>4 DEF Closed
    <2>6. UnitFine(c)
      BY <2>1, <2>3 DEF UnitFine
    <2>7. Blank(c.text[1]) => Len(list) > 0 /\ c.path = list[Len(list)].path
      BY <1>3, <2>3, <2>4 DEF Packed
    <2>8. PassageList(Append(list, c), C \union Letters(c.text))
      BY <1>1, <2>1, <2>3, <2>4, <2>6, <2>7, PassageMore
    <2>9. Len(Append(list, c)) > 0 /\ Append(list, c)[Len(Append(list, c))] = c
      OBVIOUS
    <2> QED
      BY <1>1, <2>3, <2>5, <2>8, <2>9
  <1> QED
    BY <1>2, <1>3

LEMMA PackSound ==
    ASSUME Given, NEW units, NEW C, NEW stack, ListSound(units, C, stack)
    PROVE  PassageList(Pack(units), C)
  <1> DEFINE N == Len(units)
  <1>1. units \in Seq(SomeUnit) /\ N \in Nat
    BY DEF ListSound
  <1>2. PICK texts \in Seq(Text) : texts = Texts(units)
    BY <1>1, UnitsTexts
  <1>3. Tell(texts, C) /\ Len(texts) = N /\ \A i \in 1 .. N : texts[i] = units[i].text
    BY <1>1, <1>2, UnitsTexts DEF ListSound
  <1>4. PICK h : /\ h[0] = Empty
                 /\ \A n \in 1 .. Len(units) : h[n] = AddUnit(h[n - 1], units[n])
                 /\ Pack(units) = Closed(h[Len(units)])
    BY <1>1, PassagesRead
  <1> DEFINE S == {n \in 0 .. N : Packed(units, n, h[n])}
  <1>5. 0 \in S
    <2>1. h[0].done = <<>> /\ h[0].text = <<>> /\ h[0].path = <<>>
      BY <1>4 DEF Empty
    <2>2. PassageList(<<>>, {})
      <3>1. <<>> \in Seq(SomeChunk)
        OBVIOUS
      <3>2. PICK e \in Seq(SomeChunk) : e = <<>>
        BY <3>1
      <3>3. Len(e) = 0 /\ Texts(e) = <<>>
        BY <3>2 DEF Texts
      <3>4. PassageList(e, {})
        BY <3>3, TellNothing DEF PassageList
      <3> QED
        BY <3>2, <3>4
    <2>3. LettersUpTo(Texts(units), 0) = {}
      BY DEF LettersUpTo
    <2>4. \E B : /\ PassageList(h[0].done, B) /\ Precede(B, Letters(h[0].text))
                 /\ B \union Letters(h[0].text) = LettersUpTo(Texts(units), 0)
      <3>1. Precede({}, Letters(<<>>)) /\ {} \union Letters(<<>>) = {}
        BY BlankTexts DEF Precede
      <3> QED
        BY <2>1, <2>2, <2>3, <3>1
    <2>5. h[0].text \in Text /\ h[0].path \in Seq(Nat) /\ InOrder(h[0].text)
      <3>1. <<>> \in Seq(Nat)
        OBVIOUS
      <3> QED
        BY <2>1, <3>1, BlankTexts
    <2>6. Packed(units, 0, h[0])
      BY <2>1, <2>4, <2>5 DEF Packed
    <2> QED
      BY <1>1, <2>6
  <1>6. ASSUME NEW n \in 1 .. N, n - 1 \in S PROVE n \in S
    <2>1. PICK g : g = h[n - 1]
      OBVIOUS
    <2>2. Packed(units, n - 1, g) /\ n \in 0 .. N /\ n \in Nat \ {0} /\ n - 1 \in Nat /\ n \in 1 .. Len(texts)
      BY <1>1, <1>3, <1>6, <2>1
    <2>3. PICK u \in SomeUnit : u = units[n]
      BY <1>1
    <2>4. h[n] = AddUnit(g, u)
      BY <1>4, <2>1, <2>3
    <2>5. u.text \in Text /\ u.path \in Seq(Nat) /\ u.text = texts[n]
      BY <1>3, <2>3 DEF SomeUnit
    <2>6. UnitFine(u)
      BY <2>3 DEF ListSound
    <2>7. /\ Precede(LettersUpTo(texts, n - 1), Letters(u.text)) /\ InOrder(u.text)
          /\ LettersUpTo(texts, n) = LettersUpTo(texts, n - 1) \union Letters(u.text)
      BY <1>3, <2>2, <2>5, LettersBefore, LettersOfNext
    <2>8. PICK D : /\ PassageList(g.done, D) /\ Precede(D, Letters(g.text))
                   /\ D \union Letters(g.text) = LettersUpTo(texts, n - 1)
      BY <1>2, <2>2 DEF Packed
    <2>9. g.text \in Text /\ g.path \in Seq(Nat) /\ InOrder(g.text)
      BY <2>2 DEF Packed
    <2>10. PICK t : t = Joined(g.text, BlankLine, u.text)
      OBVIOUS
    <2>11. ~(n - 1 > 0) => n = 1
      BY <2>2
    <2>12. CASE g.text # <<>> /\ ~u.starts /\ Len(t) <= Size
      <3>1. h[n] = [done |-> g.done, text |-> t, path |-> g.path]
        BY <2>4, <2>10, <2>12 DEF AddUnit
      <3>2. h[n].done = g.done /\ h[n].text = t /\ h[n].path = g.path
        BY <3>1
      <3>3. n - 1 > 0
        BY <2>2, <2>12 DEF Packed
      <3>4. g.path = units[n - 1].path /\ UnitFine(g)
        BY <2>2, <3>3 DEF Packed
      <3>5. u.path = units[n - 1].path
        <4>1. n \in 2 .. Len(units)
          BY <1>1, <3>3
        <4> QED
          BY <2>3, <2>12, <4>1 DEF ListSound
      <3>14. PICK gt \in Text, ut \in Text, gap \in Text : gt = g.text /\ ut = u.text /\ gap = BlankLine
        BY <2>5, <2>9, BlankTexts
      <3>15. Letters(gap) = {} /\ gt # <<>> /\ t = Joined(gt, gap, ut)
        BY <2>10, <2>12, <3>14, BlankTexts
      <3>16. Letters(gap) = {} /\ gt # <<>>
        BY <3>15
      <3>6. t \in Text /\ Letters(t) = Letters(g.text) \union Letters(u.text)
        <4>1. Joined(gt, gap, ut) \in Text /\ Letters(Joined(gt, gap, ut)) = Letters(gt) \union Letters(ut)
          BY <3>16, JoinedMeans
        <4> QED
          BY <3>14, <3>15, <4>1
      <3>7. InOrder(t)
        <4>1. Precede(Letters(g.text), Letters(u.text))
          BY <2>7, <2>8 DEF Precede
        <4>2. InOrder(gt) /\ InOrder(ut) /\ Precede(Letters(gt), Letters(ut))
          BY <2>7, <2>9, <3>14, <4>1
        <4>3. InOrder(Joined(gt, gap, ut))
          BY <3>16, <4>2, JoinedMeans
        <4> QED
          BY <3>15, <4>3
      <3>8. t # <<>> /\ t[1] = g.text[1]
        <4>1. 1 \in 1 .. Len(g.text)
          BY <2>9, <2>12, TextFacts
        <4>4. \A i \in 1 .. Len(gt) : Joined(gt, gap, ut)[i] = gt[i]
          BY <3>16, JoinedPlaces, Zenon
        <4>5. Len(Joined(gt, gap, ut)) = Len(gt) + Len(gap) + Len(ut)
          BY <3>16, JoinedMeans
        <4>6. Len(gt) \in Nat /\ Len(gap) \in Nat /\ Len(ut) \in Nat /\ Len(gt) # 0
          BY <3>16, TextFacts
        <4>7. Len(Joined(gt, gap, ut)) # 0
          BY <4>5, <4>6
        <4> QED
          BY <3>6, <3>14, <3>15, <4>1, <4>4, <4>7, TextFacts
      <3>9. UnitFine(h[n])
        <4>1. Bounded(t)
          BY <2>12 DEF Bounded
        <4>2. Size > 1 => Letters(t) # {}
          BY <2>6, <3>6 DEF UnitFine
        <4>3. \A c \in Letters(t) : Right(g.path, c[1])
          BY <2>6, <3>4, <3>5, <3>6 DEF UnitFine
        <4> QED
          BY <3>2, <3>8, <4>1, <4>2, <4>3 DEF UnitFine
      <3>10. h[n].path = units[n].path
        BY <2>3, <3>2, <3>4, <3>5
      <3>11. Blank(t[1]) => Len(g.done) > 0 /\ g.path = g.done[Len(g.done)].path
        BY <2>2, <3>3, <3>8 DEF Packed
      <3>12. /\ PassageList(h[n].done, D) /\ Precede(D, Letters(h[n].text))
             /\ D \union Letters(h[n].text) = LettersUpTo(Texts(units), n)
        <4>1. Precede(D, Letters(t))
          BY <2>7, <2>8, <3>6 DEF Precede
        <4> QED
          BY <1>2, <2>7, <2>8, <3>2, <3>6, <4>1
      <3>13. Packed(units, n, h[n])
        BY <2>2, <2>9, <3>2, <3>6, <3>7, <3>9, <3>10, <3>11, <3>12 DEF Packed
      <3> QED
        BY <2>2, <3>13
    <2>13. CASE ~(g.text # <<>> /\ ~u.starts /\ Len(t) <= Size)
      <3>1. PICK list : list = Closed(g)
        OBVIOUS
      <3>2. h[n] = [done |-> list, text |-> u.text, path |-> u.path]
        BY <2>4, <2>10, <2>13, <3>1 DEF AddUnit
      <3>3. h[n].done = list /\ h[n].text = u.text /\ h[n].path = u.path
        BY <3>2
      <3>4. PassageList(list, LettersUpTo(texts, n - 1)) /\ (n - 1 > 0 => Len(list) > 0 /\ list[Len(list)].path = g.path)
        BY <1>2, <2>2, <3>1, ClosedSound
      <3>5. UnitFine(h[n]) /\ h[n].path = units[n].path
        BY <2>3, <2>6, <3>3 DEF UnitFine
      <3>6. ASSUME Blank(u.text[1]) PROVE Len(list) > 0 /\ u.path = list[Len(list)].path
        <4>1. n > 1 /\ ~u.starts
          BY <2>3, <3>6 DEF ListSound
        <4>2. n - 1 > 0 /\ n \in 2 .. Len(units)
          BY <1>1, <2>2, <4>1
        <4>3. u.path = units[n - 1].path
          BY <2>3, <4>1, <4>2 DEF ListSound
        <4>4. g.path = units[n - 1].path
          BY <2>2, <4>2 DEF Packed
        <4> QED
          BY <3>4, <4>2, <4>3, <4>4
      <3>7. Packed(units, n, h[n])
        BY <1>2, <2>2, <2>5, <2>7, <3>3, <3>4, <3>5, <3>6 DEF Packed
      <3> QED
        BY <2>2, <3>7
    <2> QED
      BY <2>12, <2>13
  <1>7. Packed(units, N, h[N])
    <2>1. 0 .. N \subseteq S
      <3> HIDE DEF S, N
      <3> QED
        BY <1>1, <1>5, <1>6, UpTo
    <2> QED
      BY <1>1, <2>1
  <1>8. LettersUpTo(texts, N) = C
    BY <1>1, <1>2, <1>3, UnitsTexts DEF LettersUpTo, Tell
  <1> QED
    BY <1>1, <1>2, <1>4, <1>7, <1>8, ClosedSound

-----------------------------------------------------------------------------
(* Chunking: first and last characters *)

FirstIn(letters, c) == c \in letters /\ \A d \in letters : d = c \/ Ahead(c, d)
LastIn(letters, c) == c \in letters /\ \A d \in letters : d = c \/ Ahead(d, c)

LEMMA AheadOnce ==
    ASSUME NEW c \in Characters, NEW d \in Characters, Ahead(c, d), Ahead(d, c)
    PROVE  FALSE
  <1>1. c[1] \in Nat /\ c[2] \in Nat /\ d[1] \in Nat /\ d[2] \in Nat
    BY DEF Characters
  <1> QED
    BY <1>1 DEF Ahead

LEMMA AheadOfItself ==
    ASSUME NEW c \in Characters, Ahead(c, c)
    PROVE  FALSE
  BY AheadOnce

LEMMA LettersAre ==
    ASSUME NEW t \in Text
    PROVE  Letters(t) \subseteq Characters
  <1>1. ASSUME NEW c \in Letters(t) PROVE c \in Characters
    <2>1. PICK i \in 1 .. Len(t) : c = t[i]
      BY IsLetter
    <2> QED
      BY <2>1, TextFacts
  <1> QED
    BY <1>1

LEMMA FirstOfTwo ==
    ASSUME NEW A \in SUBSET Characters, NEW B \in SUBSET Characters, Precede(A, B), A # {}, NEW c
    PROVE  FirstIn(A \union B, c) <=> FirstIn(A, c)
  <1>1. ASSUME FirstIn(A \union B, c) PROVE FirstIn(A, c)
    <2>1. ASSUME c \in B PROVE FALSE
      <3>1. PICK a \in A : TRUE
        OBVIOUS
      <3>2. Ahead(a, c) /\ (a = c \/ Ahead(c, a))
        BY <1>1, <2>1 DEF FirstIn, Precede
      <3> QED
        BY <2>1, <3>2, AheadOnce, AheadOfItself
    <2> QED
      BY <1>1, <2>1 DEF FirstIn
  <1>2. ASSUME FirstIn(A, c) PROVE FirstIn(A \union B, c)
    BY <1>2 DEF FirstIn, Precede
  <1> QED
    BY <1>1, <1>2

LEMMA LastOfTwo ==
    ASSUME NEW A \in SUBSET Characters, NEW B \in SUBSET Characters, Precede(A, B), B # {}, NEW c
    PROVE  LastIn(A \union B, c) <=> LastIn(B, c)
  <1>1. ASSUME LastIn(A \union B, c) PROVE LastIn(B, c)
    <2>1. ASSUME c \in A PROVE FALSE
      <3>1. PICK b \in B : TRUE
        OBVIOUS
      <3>2. Ahead(c, b) /\ (b = c \/ Ahead(b, c))
        BY <1>1, <2>1 DEF LastIn, Precede
      <3> QED
        BY <2>1, <3>2, AheadOnce, AheadOfItself
    <2> QED
      BY <1>1, <2>1 DEF LastIn
  <1>2. ASSUME LastIn(B, c) PROVE LastIn(A \union B, c)
    BY <1>2 DEF LastIn, Precede
  <1> QED
    BY <1>1, <1>2

\* Where the first character that is no blank stands, and the last one.
LEMMA FirstPlace ==
    ASSUME NEW t \in Text, InOrder(t), Letters(t) # {}
    PROVE  \E w \in 1 .. Len(t) : /\ ~Blank(t[w]) /\ FirstIn(Letters(t), t[w])
                                  /\ \A v \in 1 .. w - 1 : Blank(t[v])
  <1> DEFINE T == {i \in 1 .. Len(t) : ~Blank(t[i])}
  <1>1. T # {} /\ T \in SUBSET Nat
    <2>1. PICK c : c \in Letters(t)
      OBVIOUS
    <2>2. \E i \in 1 .. Len(t) : ~Blank(t[i])
      BY <2>1, IsLetter
    <2> QED
      BY <2>2
  <1>2. PICK w \in T : \A k \in T : w <= k
    <2> HIDE DEF T
    <2> QED
      BY <1>1, LeastNumber
  <1>3. w \in 1 .. Len(t) /\ ~Blank(t[w]) /\ Len(t) \in Nat /\ DOMAIN t = 1 .. Len(t)
    BY <1>2, TextFacts
  <1>4. t[w] \in Letters(t)
    BY <1>3, IsLetter
  <1>5. ASSUME NEW d \in Letters(t) PROVE d = t[w] \/ Ahead(t[w], d)
    <2>1. PICK k \in 1 .. Len(t) : ~Blank(t[k]) /\ d = t[k]
      BY IsLetter
    <2>2. k = w \/ w < k
      BY <1>2, <1>3, <2>1
    <2> QED
      BY <1>3, <2>1, <2>2 DEF InOrder
  <1>6. ASSUME NEW v \in 1 .. w - 1 PROVE Blank(t[v])
    <2>1. v \in 1 .. Len(t) /\ ~(w <= v)
      BY <1>3
    <2> QED
      BY <1>2, <2>1
  <1> QED
    BY <1>3, <1>4, <1>5, <1>6 DEF FirstIn

LEMMA LastPlace ==
    ASSUME NEW t \in Text, InOrder(t), Letters(t) # {}
    PROVE  \E w \in 1 .. Len(t) : ~Blank(t[w]) /\ LastIn(Letters(t), t[w])
  <1>1. PICK k \in 0 .. Len(t) : /\ (k > 0 => ~Blank(t[k]))
                                 /\ \A j \in k + 1 .. Len(t) : Blank(t[j])
    BY RStripped
  <1>2. Len(t) \in Nat /\ DOMAIN t = 1 .. Len(t)
    BY TextFacts
  <1>3. \A i \in 1 .. Len(t) : ~Blank(t[i]) => i <= k
    <2>1. \A i \in 1 .. Len(t) : i \in k + 1 .. Len(t) \/ i <= k
      BY <1>2
    <2> QED
      BY <1>1, <2>1
  <1>4. PICK c : c \in Letters(t)
    OBVIOUS
  <1>5. PICK i \in 1 .. Len(t) : ~Blank(t[i]) /\ c = t[i]
    BY <1>4, IsLetter
  <1>6. k \in 1 .. Len(t) /\ ~Blank(t[k])
    BY <1>1, <1>2, <1>3, <1>5
  <1>7. ASSUME NEW d \in Letters(t) PROVE d = t[k] \/ Ahead(d, t[k])
    <2>1. PICK l \in 1 .. Len(t) : ~Blank(t[l]) /\ d = t[l]
      BY IsLetter
    <2>2. l = k \/ l < k
      BY <1>2, <1>3, <2>1
    <2> QED
      BY <1>2, <1>6, <2>1, <2>2 DEF InOrder
  <1>8. t[k] \in Letters(t)
    BY <1>6, IsLetter
  <1> QED
    BY <1>6, <1>7, <1>8 DEF LastIn

-----------------------------------------------------------------------------
(* Chunking: one passage of two, or two passages otherwise divided *)

LEMMA TellMerge ==
    ASSUME NEW p \in Seq(Text), NEW C, Tell(p, C), NEW i \in 1 .. Len(p) - 1, NEW q \in Seq(Text),
           Len(q) = Len(p) - 1, \A k \in 1 .. i - 1 : q[k] = p[k],
           \A k \in i + 1 .. Len(q) : q[k] = p[k + 1],
           Letters(q[i]) = Letters(p[i]) \union Letters(p[i + 1]), InOrder(q[i])
    PROVE  Tell(q, C)
  <1>1. /\ Len(p) \in Nat /\ Len(q) \in Nat /\ DOMAIN p = 1 .. Len(p) /\ DOMAIN q = 1 .. Len(q)
        /\ i \in Nat /\ i \in 1 .. Len(q) /\ i \in 1 .. Len(p) /\ i + 1 \in 1 .. Len(p)
    OBVIOUS
  <1>2. ASSUME NEW k \in 1 .. Len(q), k # i
        PROVE  \E l \in 1 .. Len(p) : q[k] = p[l] /\ (k < i => l < i) /\ (k > i => l > i + 1)
    <2>1. CASE k < i
      <3>1. k \in 1 .. i - 1 /\ k \in 1 .. Len(p)
        BY <1>1, <2>1
      <3> QED
        BY <1>1, <2>1, <3>1
    <2>2. CASE k > i
      <3>1. k \in i + 1 .. Len(q) /\ k + 1 \in 1 .. Len(p) /\ k + 1 > i + 1
        BY <1>1, <2>2
      <3> QED
        BY <1>1, <2>2, <3>1
    <2> QED
      BY <1>1, <1>2, <2>1, <2>2
  <1>3. \A k \in 1 .. Len(q) : InOrder(q[k])
    BY <1>1, <1>2 DEF Tell
  <1>4. \A k, l \in 1 .. Len(p) : k < l => Precede(Letters(p[k]), Letters(p[l]))
    BY <1>1 DEF Tell
  <1>5. ASSUME NEW k \in 1 .. Len(q), NEW l \in 1 .. Len(q), k < l PROVE Precede(Letters(q[k]), Letters(q[l]))
    <2>1. CASE k = i
      <3>1. l # i /\ l > i
        BY <1>1, <1>5, <2>1
      <3>2. PICK m \in 1 .. Len(p) : q[l] = p[m] /\ m > i + 1
        BY <1>2, <3>1
      <3>3. i < m
        BY <1>1, <3>2
      <3> QED
        BY <1>1, <1>4, <2>1, <3>2, <3>3 DEF Precede
    <2>2. CASE l = i
      <3>1. k # i /\ k < i
        BY <1>1, <1>5, <2>2
      <3>2. PICK m \in 1 .. Len(p) : q[k] = p[m] /\ m < i
        BY <1>2, <3>1
      <3>3. m < i + 1
        BY <1>1, <3>2
      <3> QED
        BY <1>1, <1>4, <2>2, <3>2, <3>3 DEF Precede
    <2>3. CASE k # i /\ l # i
      <3>1. CASE l < i
        <4>1. q[k] = p[k] /\ q[l] = p[l] /\ k \in 1 .. Len(p) /\ l \in 1 .. Len(p)
          <5>1. k \in 1 .. i - 1 /\ l \in 1 .. i - 1 /\ k \in 1 .. Len(p) /\ l \in 1 .. Len(p)
            BY <1>1, <1>5, <3>1
          <5> QED
            BY <5>1
        <4> QED
          BY <1>4, <1>5, <4>1
      <3>2. CASE k > i
        <4>1. q[k] = p[k + 1] /\ q[l] = p[l + 1] /\ k + 1 \in 1 .. Len(p) /\ l + 1 \in 1 .. Len(p) /\ k + 1 < l + 1
          <5>1. k \in i + 1 .. Len(q) /\ l \in i + 1 .. Len(q) /\ k + 1 \in 1 .. Len(p) /\ l + 1 \in 1 .. Len(p) /\ k + 1 < l + 1
            BY <1>1, <1>5, <3>2
          <5> QED
            BY <5>1
        <4> QED
          BY <1>4, <4>1
      <3>3. CASE k < i /\ l > i
        <4> k # i /\ l # i
          BY <2>3
        <4>1. PICK a \in 1 .. Len(p) : q[k] = p[a] /\ a < i
          <5>1. \E a \in 1 .. Len(p) : q[k] = p[a] /\ (k < i => a < i)
            BY <1>2
          <5> QED
            BY <3>3, <5>1
        <4>2. PICK b \in 1 .. Len(p) : q[l] = p[b] /\ b > i + 1
          <5>1. \E b \in 1 .. Len(p) : q[l] = p[b] /\ (l > i => b > i + 1)
            BY <1>2
          <5> QED
            BY <3>3, <5>1
        <4>3. a < b
          BY <1>1, <4>1, <4>2
        <4> QED
          BY <1>4, <4>1, <4>2, <4>3
      <3> QED
        BY <1>1, <1>5, <2>3, <3>1, <3>2, <3>3
    <2> QED
      BY <2>1, <2>2, <2>3
  <1>6. ASSUME NEW c PROVE (\E k \in 1 .. Len(q) : c \in Letters(q[k])) <=> c \in C
    <2>1. c \in C <=> \E k \in 1 .. Len(p) : c \in Letters(p[k])
      BY <1>1 DEF Tell
    <2>2. ASSUME NEW k \in 1 .. Len(q), c \in Letters(q[k]) PROVE \E l \in 1 .. Len(p) : c \in Letters(p[l])
      BY <1>1, <1>2, <2>2
    <2>3. ASSUME NEW l \in 1 .. Len(p), c \in Letters(p[l]) PROVE \E k \in 1 .. Len(q) : c \in Letters(q[k])
      <3>1. CASE l \in 1 .. i - 1
        <4>1. l \in 1 .. Len(q)
          BY <1>1, <3>1
        <4> QED
          BY <2>3, <3>1, <4>1
      <3>2. CASE l = i \/ l = i + 1
        BY <1>1, <2>3, <3>2
      <3>3. CASE l > i + 1
        <4>1. l - 1 \in i + 1 .. Len(q) /\ l - 1 \in 1 .. Len(q) /\ (l - 1) + 1 = l
          BY <1>1, <3>3
        <4> QED
          BY <2>3, <4>1
      <3> QED
        BY <1>1, <3>1, <3>2, <3>3
    <2> QED
      BY <2>1, <2>2, <2>3
  <1> QED
    BY <1>1, <1>3, <1>5, <1>6 DEF Tell

LEMMA TellDivide ==
    ASSUME NEW p \in Seq(Text), NEW C, Tell(p, C), NEW i \in 1 .. Len(p) - 1, NEW q \in Seq(Text),
           Len(q) = Len(p), \A k \in 1 .. Len(p) : k # i /\ k # i + 1 => q[k] = p[k],
           Letters(q[i]) \union Letters(q[i + 1]) = Letters(p[i]) \union Letters(p[i + 1]),
           InOrder(q[i]), InOrder(q[i + 1]), Precede(Letters(q[i]), Letters(q[i + 1]))
    PROVE  Tell(q, C)
  <1>1. /\ Len(p) \in Nat /\ DOMAIN p = 1 .. Len(p) /\ DOMAIN q = 1 .. Len(p)
        /\ i \in Nat /\ i \in 1 .. Len(p) /\ i + 1 \in 1 .. Len(p)
    OBVIOUS
  <1>2. \A k \in 1 .. Len(p) : InOrder(q[k])
    BY <1>1 DEF Tell
  <1>3. \A k, l \in 1 .. Len(p) : k < l => Precede(Letters(p[k]), Letters(p[l]))
    BY <1>1 DEF Tell
  <1> DEFINE Pair == {i, i + 1}
  <1>4. \A k \in Pair : Letters(q[k]) \subseteq Letters(p[i]) \union Letters(p[i + 1])
    OBVIOUS
  <1>5. ASSUME NEW k \in 1 .. Len(p), NEW l \in 1 .. Len(p), k < l PROVE Precede(Letters(q[k]), Letters(q[l]))
    <2>1. CASE k \in Pair /\ l \in Pair
      <3>1. k = i /\ l = i + 1
        BY <1>1, <1>5, <2>1
      <3> QED
        BY <3>1
    <2>2. CASE k \in Pair /\ l \notin Pair
      <3>1. i < l /\ i + 1 < l /\ q[l] = p[l]
        BY <1>1, <1>5, <2>2
      <3>2. Precede(Letters(p[i]), Letters(p[l])) /\ Precede(Letters(p[i + 1]), Letters(p[l]))
        BY <1>1, <1>3, <3>1
      <3> QED
        BY <1>4, <2>2, <3>1, <3>2 DEF Precede
    <2>3. CASE k \notin Pair /\ l \in Pair
      <3>1. k < i /\ k < i + 1 /\ q[k] = p[k]
        BY <1>1, <1>5, <2>3
      <3>2. Precede(Letters(p[k]), Letters(p[i])) /\ Precede(Letters(p[k]), Letters(p[i + 1]))
        BY <1>1, <1>3, <3>1
      <3> QED
        BY <1>4, <2>3, <3>1, <3>2 DEF Precede
    <2>4. CASE k \notin Pair /\ l \notin Pair
      <3>1. q[k] = p[k] /\ q[l] = p[l]
        BY <2>4
      <3> QED
        BY <1>3, <1>5, <3>1
    <2> QED
      BY <2>1, <2>2, <2>3, <2>4
  <1>6. ASSUME NEW c PROVE (\E k \in 1 .. Len(p) : c \in Letters(q[k])) <=> c \in C
    <2>1. c \in C <=> \E k \in 1 .. Len(p) : c \in Letters(p[k])
      BY <1>1 DEF Tell
    <2>2. c \in Letters(q[i]) \/ c \in Letters(q[i + 1]) <=> c \in Letters(p[i]) \/ c \in Letters(p[i + 1])
      <3>1. c \in Letters(q[i]) \union Letters(q[i + 1]) <=> c \in Letters(p[i]) \union Letters(p[i + 1])
        OBVIOUS
      <3> QED
        BY <3>1
    <2> QED
      BY <1>1, <2>1, <2>2
  <1> QED
    BY <1>1, <1>2, <1>5, <1>6 DEF Tell

-----------------------------------------------------------------------------
(* Chunking: passages that are too short *)

LEMMA MergedMeans ==
    ASSUME NEW cs \in Seq(SomeChunk), cs = chunks, NEW i \in 1 .. Len(cs) - 1
    PROVE  /\ Merged(i) \in Seq(SomeChunk) /\ Len(Merged(i)) = Len(cs) - 1
           /\ \A k \in 1 .. i - 1 : Merged(i)[k] = cs[k]
           /\ Merged(i)[i] = Chunk(cs[i].text \o BlankLine \o cs[i + 1].text, cs[i].path)
           /\ \A k \in i + 1 .. Len(Merged(i)) : Merged(i)[k] = cs[k + 1]
  <1>1. Len(cs) \in Nat /\ i \in Nat /\ i \in 1 .. Len(cs) /\ i + 1 \in 1 .. Len(cs)
    OBVIOUS
  <1>2. cs[i] \in SomeChunk /\ cs[i + 1] \in SomeChunk
    BY <1>1
  <1>3. PICK s \in Text, t \in Text, p \in Seq(Nat) : s = cs[i].text /\ t = cs[i + 1].text /\ p = cs[i].path
    BY <1>2 DEF SomeChunk
  <1>4. PICK u : u = s \o BlankLine
    OBVIOUS
  <1>5. u \in Text
    BY <1>4, LettersOfTwo, BlankTexts
  <1>6. PICK v : v = u \o t
    OBVIOUS
  <1>7. v \in Text
    BY <1>5, <1>6, LettersOfTwo
  <1>8. PICK both \in SomeChunk : both = Chunk(v, p)
    BY <1>7 DEF Chunk, SomeChunk
  <1>9. both = Chunk(cs[i].text \o BlankLine \o cs[i + 1].text, cs[i].path)
    BY <1>3, <1>4, <1>6, <1>8
  <1>10. PICK r : r = RemoveAt(cs, i + 1)
    OBVIOUS
  <1>11. /\ r \in Seq(SomeChunk) /\ Len(r) = Len(cs) - 1
         /\ \A k \in 1 .. i : r[k] = cs[k]
         /\ \A k \in i + 1 .. Len(cs) - 1 : r[k] = cs[k + 1]
    <2> DEFINE a == SubSeq(cs, 1, i)
               b == SubSeq(cs, i + 2, Len(cs))
    <2>1. a \in Seq(SomeChunk) /\ Len(a) = i /\ \A k \in 1 .. i : a[k] = cs[k]
      BY <1>1
    <2>2. b \in Seq(SomeChunk) /\ Len(b) = Len(cs) - i - 1 /\ \A k \in 1 .. Len(cs) - i - 1 : b[k] = cs[i + k + 1]
      BY <1>1
    <2>3. r = a \o b
      <3>1. (i + 1) - 1 = i /\ (i + 1) + 1 = i + 2
        BY <1>1
      <3> QED
        BY <1>10, <3>1 DEF RemoveAt
    <2>6. PICK x \in Seq(SomeChunk), y \in Seq(SomeChunk) : x = a /\ y = b
      BY <2>1, <2>2
    <2> HIDE DEF a, b
    <2>7. x \o y \in Seq(SomeChunk) /\ Len(x \o y) = Len(x) + Len(y)
      OBVIOUS
    <2>8. (\A k \in 1 .. Len(x) : (x \o y)[k] = x[k]) /\ (\A k \in 1 .. Len(y) : (x \o y)[Len(x) + k] = y[k])
      OBVIOUS
    <2>4. /\ r \in Seq(SomeChunk) /\ Len(r) = Len(a) + Len(b)
          /\ \A k \in 1 .. Len(a) : r[k] = a[k]
          /\ \A k \in 1 .. Len(b) : r[Len(a) + k] = b[k]
      BY <2>3, <2>6, <2>7, <2>8
    <2>5. ASSUME NEW k \in i + 1 .. Len(cs) - 1 PROVE r[k] = cs[k + 1]
      <3>1. k - i \in 1 .. Len(b) /\ i + (k - i) = k /\ i + (k - i) + 1 = k + 1
        BY <1>1, <2>2
      <3>2. r[i + (k - i)] = b[k - i] /\ b[k - i] = cs[i + (k - i) + 1]
        BY <2>1, <2>2, <2>4, <3>1
      <3> QED
        BY <3>1, <3>2
    <2> QED
      BY <1>1, <2>1, <2>2, <2>4, <2>5
  <1>12. PICK m : m = [r EXCEPT ![i] = both]
    OBVIOUS
  <1>13. m = Merged(i)
    BY <1>9, <1>10, <1>12 DEF Merged, ReplaceAt
  <1>14. i \in 1 .. Len(r)
    BY <1>1, <1>11
  <1>15. m \in Seq(SomeChunk) /\ Len(m) = Len(r) /\ m[i] = both /\ \A k \in 1 .. Len(r) : k # i => m[k] = r[k]
    BY <1>11, <1>12, <1>14
  <1>16. ASSUME NEW k \in 1 .. i - 1 PROVE m[k] = cs[k]
    <2>1. k \in 1 .. Len(r) /\ k # i /\ k \in 1 .. i
      BY <1>1, <1>11
    <2> QED
      BY <1>11, <1>15, <2>1
  <1>17. ASSUME NEW k \in i + 1 .. Len(m) PROVE m[k] = cs[k + 1]
    <2>1. k \in 1 .. Len(r) /\ k # i /\ k \in i + 1 .. Len(cs) - 1
      BY <1>1, <1>11, <1>15
    <2> QED
      BY <1>11, <1>15, <2>1
  <1> QED
    BY <1>9, <1>11, <1>13, <1>15, <1>16, <1>17

\* The i-th chunk now has the text l, and the next one r; nothing else is changed.
Redivided(cs, i, l, r, qs) ==
    /\ qs \in Seq(SomeChunk) /\ Len(qs) = Len(cs)
    /\ \A k \in 1 .. Len(cs) : k # i /\ k # i + 1 => qs[k] = cs[k]
    /\ qs[i].text = l /\ qs[i].path = cs[i].path
    /\ qs[i + 1].text = r /\ qs[i + 1].path = cs[i + 1].path

LEMMA RewrittenMeans ==
    ASSUME NEW cs \in Seq(SomeChunk), cs = chunks, NEW i \in 1 .. Len(cs) - 1, NEW texts, texts[1] \in Text, texts[2] \in Text
    PROVE  Redivided(cs, i, texts[1], texts[2], Rewritten(i, texts))
  <1>1. Len(cs) \in Nat /\ i \in Nat /\ i \in 1 .. Len(cs) /\ i + 1 \in 1 .. Len(cs) /\ i # i + 1
    OBVIOUS
  <1>2. cs[i] \in SomeChunk /\ cs[i + 1] \in SomeChunk
    BY <1>1
  <1>3. PICK a \in SomeChunk : a = [cs[i] EXCEPT !.text = texts[1]]
    BY <1>2 DEF SomeChunk
  <1>4. PICK b \in SomeChunk : b = [cs[i + 1] EXCEPT !.text = texts[2]]
    BY <1>2 DEF SomeChunk
  <1>5. a.text = texts[1] /\ a.path = cs[i].path /\ b.text = texts[2] /\ b.path = cs[i + 1].path
    BY <1>2, <1>3, <1>4 DEF SomeChunk
  <1>6. PICK r : r = [[cs EXCEPT ![i] = a] EXCEPT ![i + 1] = b]
    OBVIOUS
  <1>7. r = Rewritten(i, texts)
    BY <1>1, <1>3, <1>4, <1>6 DEF Rewritten
  <1>8. /\ r \in Seq(SomeChunk) /\ Len(r) = Len(cs) /\ r[i] = a /\ r[i + 1] = b
        /\ \A k \in 1 .. Len(cs) : k # i /\ k # i + 1 => r[k] = cs[k]
    BY <1>1, <1>6
  <1> QED
    BY <1>5, <1>7, <1>8 DEF Redivided


\* A text that says something, and is not too long.
Proper(t) == t # <<>> /\ Bounded(t) /\ (Size > 1 => Letters(t) # {})

\* The path is that of the first character of the text, of the last one, of every one.
FirstRight(path, t) == \A c : FirstIn(Letters(t), c) => Right(path, c[1])
LastRight(path, t) == \A c : LastIn(Letters(t), c) => Right(path, c[1])
AllRight(path, t) == \A c \in Letters(t) : Right(path, c[1])

\* The path is that of a character which is the first, or which nobody will take
\* away: it is too near the beginning for the next passage, of n characters.
Told(t, path, n) ==
    \E w \in 1 .. Len(t) : /\ ~Blank(t[w]) /\ Right(path, t[w][1])
                           /\ FirstIn(Letters(t), t[w]) \/ (n < Minimum => Len(t) - w + 3 + n > Size)
Following(cs, k) == IF k < Len(cs) THEN Len(cs[k + 1].text) ELSE Minimum

LoopSound(cs, ix) ==
    /\ cs \in Seq(SomeChunk) /\ ix \in 1 .. Len(cs) + 1
    /\ Tell(Texts(cs), Everything)
    /\ \A k \in 1 .. Len(cs) : Proper(cs[k].text)
    /\ \A k \in 1 .. Len(cs) : k > ix => AllRight(cs[k].path, cs[k].text)
    /\ ix <= Len(cs) => FirstRight(cs[ix].path, cs[ix].text)
    /\ \A k \in 1 .. Len(cs) : Len(cs[k].text) < Minimum /\ Blank(cs[k].text[1]) =>
                                  k > 1 /\ LastRight(cs[k].path, cs[k - 1].text)
    /\ \A k \in 1 .. Len(cs) : k < ix /\ Letters(cs[k].text) # {} => Told(cs[k].text, cs[k].path, Following(cs, k))

LEMMA AllFirstRight ==
    ASSUME NEW path, NEW t, AllRight(path, t)
    PROVE  FirstRight(path, t) /\ LastRight(path, t)
  BY DEF AllRight, FirstRight, LastRight, FirstIn, LastIn

LEMMA LoopStart ==
    ASSUME Given, NEW list, PassageList(list, Everything)
    PROVE  LoopSound(list, 1)
  <1>1. list \in Seq(SomeChunk) /\ Len(list) \in Nat
    BY DEF PassageList
  <1>2. \A k \in 1 .. Len(list) : Proper(list[k].text) /\ AllRight(list[k].path, list[k].text)
    BY DEF PassageList, UnitFine, Proper, AllRight
  <1>3. ASSUME NEW k \in 1 .. Len(list), Blank(list[k].text[1])
        PROVE  k > 1 /\ LastRight(list[k].path, list[k - 1].text)
    <2>1. k > 1 /\ list[k].path = list[k - 1].path /\ k - 1 \in 1 .. Len(list)
      BY <1>1, <1>3 DEF PassageList
    <2> QED
      BY <1>2, <2>1, AllFirstRight
  <1>4. 1 <= Len(list) => FirstRight(list[1].path, list[1].text)
    BY <1>1, <1>2, AllFirstRight
  <1>5. \A k \in 1 .. Len(list) : ~(k < 1)
    BY <1>1
  <1>6. Tell(Texts(list), Everything) /\ 1 \in 1 .. Len(list) + 1
    BY <1>1 DEF PassageList
  <1> QED
    BY <1>1, <1>2, <1>3, <1>4, <1>5, <1>6 DEF LoopSound

\* The next passage may have grown, or be long enough to take nothing.
LEMMA ToldStill ==
    ASSUME Given, NEW t \in Text, NEW path, NEW m \in Nat, NEW n \in Nat, Told(t, path, m), m <= n \/ n >= Minimum
    PROVE  Told(t, path, n)
  <1>1. PICK w \in 1 .. Len(t) : /\ ~Blank(t[w]) /\ Right(path, t[w][1])
                                 /\ FirstIn(Letters(t), t[w]) \/ (m < Minimum => Len(t) - w + 3 + m > Size)
    BY DEF Told
  <1>2. (m < Minimum => Len(t) - w + 3 + m > Size) => (n < Minimum => Len(t) - w + 3 + n > Size)
    BY SettingGiven, TextFacts
  <1> QED
    BY <1>1, <1>2 DEF Told

LEMMA ToldWhenLong ==
    ASSUME Given, NEW t \in Text, NEW path, NEW n \in Nat, n >= Minimum, NEW c \in Letters(t), Right(path, c[1])
    PROVE  Told(t, path, n)
  <1>1. PICK w \in 1 .. Len(t) : ~Blank(t[w]) /\ c = t[w]
    BY IsLetter
  <1>2. ~(n < Minimum)
    BY SettingGiven
  <1> QED
    BY <1>1, <1>2 DEF Told

LEMMA FirstTold ==
    ASSUME NEW t \in Text, NEW path, NEW n, InOrder(t), Letters(t) # {}, FirstRight(path, t)
    PROVE  Told(t, path, n)
  <1>1. PICK w \in 1 .. Len(t) : ~Blank(t[w]) /\ FirstIn(Letters(t), t[w])
    BY FirstPlace
  <1> QED
    BY <1>1 DEF Told, FirstRight

\* There is only one first character.
LEMMA FirstOnly ==
    ASSUME NEW t \in Text, NEW c, FirstIn(Letters(t), c), NEW path, Right(path, c[1])
    PROVE  FirstRight(path, t)
  <1>1. ASSUME NEW d, FirstIn(Letters(t), d) PROVE d = c
    <2>1. c \in Characters /\ d \in Characters
      BY <1>1, LettersAre DEF FirstIn
    <2>2. (c = d \/ Ahead(d, c)) /\ (d = c \/ Ahead(c, d))
      BY <1>1 DEF FirstIn
    <2> QED
      BY <2>1, <2>2, AheadOnce
  <1> QED
    BY <1>1 DEF FirstRight

\* What a part of a text keeps.
LEMMA BoundedPart ==
    ASSUME Given, NEW s \in Text, NEW t \in Text, Bounded(t), Letters(s) \subseteq Letters(t), Len(s) <= Len(t)
    PROVE  Bounded(s)
  <1>1. CASE Len(t) <= Size
    BY <1>1, SettingGiven, TextFacts DEF Bounded
  <1>2. CASE ~(Len(t) <= Size)
    BY <1>2 DEF Bounded
  <1> QED
    BY <1>1, <1>2

\* What there is at any place.
LEMMA LoopPlaces ==
    ASSUME NEW cs, NEW ix, LoopSound(cs, ix)
    PROVE  /\ Len(cs) \in Nat /\ DOMAIN cs = 1 .. Len(cs) /\ ix \in Nat
           /\ \A k \in 1 .. Len(cs) : /\ cs[k].text \in Text /\ InOrder(cs[k].text) /\ Len(cs[k].text) \in Nat
                                      /\ cs[k].text # <<>> /\ cs[k].path \in Seq(Nat)
                                      /\ Letters(cs[k].text) \in SUBSET Characters
           /\ \A j, k \in 1 .. Len(cs) : j < k => Precede(Letters(cs[j].text), Letters(cs[k].text))
  <1>1. cs \in Seq(SomeChunk) /\ ix \in 1 .. Len(cs) + 1 /\ Tell(Texts(cs), Everything)
    BY DEF LoopSound
  <1>2. PICK texts : texts = Texts(cs)
    OBVIOUS
  <1>3. Len(cs) \in Nat /\ DOMAIN cs = 1 .. Len(cs) /\ ix \in Nat
    BY <1>1
  <1>4. DOMAIN texts = 1 .. Len(cs) /\ \A k \in 1 .. Len(cs) : texts[k] = cs[k].text /\ cs[k].text \in Text
    BY <1>1, <1>2, ChunksTexts
  <1>5. \A k \in 1 .. Len(cs) : InOrder(cs[k].text)
    BY <1>1, <1>2, <1>4 DEF Tell
  <1>6. \A j, k \in 1 .. Len(cs) : j < k => Precede(Letters(cs[j].text), Letters(cs[k].text))
    BY <1>1, <1>2, <1>4 DEF Tell
  <1>7. \A k \in 1 .. Len(cs) : Len(cs[k].text) \in Nat /\ Letters(cs[k].text) \in SUBSET Characters
    BY <1>4, TextFacts, LettersAre
  <1>8. \A k \in 1 .. Len(cs) : cs[k].text # <<>>
    BY DEF LoopSound, Proper
  <1>9. \A k \in 1 .. Len(cs) : cs[k].path \in Seq(Nat)
    <2>1. \A k \in 1 .. Len(cs) : cs[k] \in SomeChunk
      BY <1>1
    <2> QED
      BY <2>1 DEF SomeChunk
  <1> QED
    BY <1>3, <1>4, <1>5, <1>6, <1>7, <1>8, <1>9


\* Two texts with a blank line between them.
Glued(s, t, u) ==
    /\ u \in Text /\ Letters(u) = Letters(s) \union Letters(t)
    /\ InOrder(s) /\ InOrder(t) /\ Precede(Letters(s), Letters(t)) => InOrder(u)
    /\ Len(u) = Len(s) + 2 + Len(t)
    /\ \A k \in 1 .. Len(s) : u[k] = s[k]
    /\ \A k \in 1 .. Len(t) : u[Len(s) + 2 + k] = t[k]

LEMMA BlankLineBetween ==
    ASSUME NEW s \in Text, NEW t \in Text, s # <<>>
    PROVE  Glued(s, t, s \o BlankLine \o t)
  <1> DEFINE u == s \o BlankLine \o t
  <1>1. PICK gap \in Text : gap = BlankLine
    BY BlankTexts
  <1>2. Letters(gap) = {}
    BY <1>1, BlankTexts
  <1>11. Len(gap) = 2
    BY <1>1, BlankTexts
  <1>3. PICK r : r = Joined(s, gap, t)
    OBVIOUS
  <1>4. r = u
    BY <1>1, <1>3 DEF Joined
  <1> HIDE DEF u
  <1>5. r \in Text /\ Letters(r) = Letters(s) \union Letters(t)
    <2>1. Joined(s, gap, t) \in Text
      BY <1>2, JoinedMeans
    <2>2. Letters(Joined(s, gap, t)) = Letters(s) \union Letters(t)
      BY <1>2, JoinedMeans
    <2> QED
      BY <1>3, <2>1, <2>2
  <1>6. InOrder(s) /\ InOrder(t) /\ Precede(Letters(s), Letters(t)) => InOrder(r)
    BY <1>2, <1>3, JoinedMeans
  <1>7. Len(r) = Len(s) + Len(gap) + Len(t)
    BY <1>2, <1>3, JoinedMeans
  <1>8. /\ \A k \in 1 .. Len(s) : r[k] = s[k]
        /\ \A k \in 1 .. Len(t) : r[Len(s) + Len(gap) + k] = t[k]
    <2>1. \A k \in 1 .. Len(s) : Joined(s, gap, t)[k] = s[k]
      BY <1>2, JoinedPlaces, Zenon
    <2>2. \A k \in 1 .. Len(t) : Joined(s, gap, t)[Len(s) + Len(gap) + k] = t[k]
      BY <1>2, JoinedPlaces, Zenon
    <2> QED
      BY <1>3, <2>1, <2>2
  <1>9. /\ u \in Text /\ Letters(u) = Letters(s) \union Letters(t)
        /\ InOrder(s) /\ InOrder(t) /\ Precede(Letters(s), Letters(t)) => InOrder(u)
    BY <1>4, <1>5, <1>6
  <1>10. /\ Len(u) = Len(s) + Len(gap) + Len(t)
         /\ \A k \in 1 .. Len(s) : u[k] = s[k]
         /\ \A k \in 1 .. Len(t) : u[Len(s) + Len(gap) + k] = t[k]
    BY <1>4, <1>7, <1>8
  <1> QED
    BY <1>9, <1>10, <1>11 DEF Glued, u

LEMMA ChunkMeans ==
    ASSUME NEW text, NEW path
    PROVE  Chunk(text, path).text = text /\ Chunk(text, path).path = path
  BY DEF Chunk

\* Two passages become one, whose first character is that of the first of them.
LEMMA MergeSound ==
    ASSUME Given, NEW cs, NEW ix, LoopSound(cs, ix), NEW i \in 1 .. Len(cs) - 1, ix = i \/ ix = i + 1,
           Len(cs[i].text) + 2 + Len(cs[i + 1].text) <= Size, FirstRight(cs[i].path, cs[i].text),
           NEW qs \in Seq(SomeChunk), Len(qs) = Len(cs) - 1, \A k \in 1 .. i - 1 : qs[k] = cs[k],
           qs[i] = Chunk(cs[i].text \o BlankLine \o cs[i + 1].text, cs[i].path),
           \A k \in i + 1 .. Len(qs) : qs[k] = cs[k + 1]
    PROVE  LoopSound(qs, i)
  <1>1. /\ cs \in Seq(SomeChunk) /\ Len(cs) \in Nat /\ Len(qs) \in Nat /\ i \in Nat
        /\ i \in 1 .. Len(cs) /\ i + 1 \in 1 .. Len(cs) /\ i \in 1 .. Len(qs) /\ ix \in Nat
    BY LoopPlaces DEF LoopSound
  <1>2. PICK s \in Text, t \in Text, u \in Text :
              /\ s = cs[i].text /\ t = cs[i + 1].text /\ u = s \o BlankLine \o t
    <2>1. PICK s \in Text, t \in Text : s = cs[i].text /\ t = cs[i + 1].text
      BY <1>1, LoopPlaces
    <2>2. s # <<>>
      BY <1>1, <2>1, LoopPlaces
    <2>3. PICK u : u = s \o BlankLine \o t
      OBVIOUS
    <2>4. Glued(s, t, u)
      BY <2>2, <2>3, BlankLineBetween
    <2> QED
      BY <2>1, <2>3, <2>4 DEF Glued
  <1>3. s # <<>> /\ t # <<>> /\ InOrder(s) /\ InOrder(t) /\ Len(s) \in Nat \ {0} /\ Len(t) \in Nat \ {0}
    BY <1>1, <1>2, LoopPlaces, TextFacts
  <1>4. Precede(Letters(s), Letters(t))
    BY <1>1, <1>2, LoopPlaces
  <1>5. /\ Letters(u) = Letters(s) \union Letters(t) /\ InOrder(u)
        /\ Len(u) = Len(s) + 2 + Len(t) /\ u[1] = s[1]
    <2>3. u = s \o BlankLine \o t
      BY <1>2
    <2>4. s # <<>>
      BY <1>3
    <2>6. Glued(s, t, u)
      BY <2>3, <2>4, BlankLineBetween
    <2>5. /\ Letters(u) = Letters(s) \union Letters(t) /\ Len(u) = Len(s) + 2 + Len(t)
          /\ \A k \in 1 .. Len(s) : u[k] = s[k]
          /\ InOrder(s) /\ InOrder(t) /\ Precede(Letters(s), Letters(t)) => InOrder(u)
      BY <2>6 DEF Glued
    <2>2. 1 \in 1 .. Len(s)
      BY <1>3
    <2> QED
      BY <1>3, <1>4, <2>2, <2>5
  <1>6. Size > 1 /\ Len(u) <= Size /\ Len(u) \in Nat /\ Len(u) > Len(s)
    <2>1. Len(s) + 2 + Len(t) <= Size
      BY <1>2
    <2> QED
      BY <1>3, <1>5, <2>1, SettingGiven
  <1>7. Letters(s) # {} /\ Letters(t) # {} /\ Letters(s) \in SUBSET Characters /\ Letters(t) \in SUBSET Characters
    <2>1. Proper(s) /\ Proper(t)
      BY <1>1, <1>2 DEF LoopSound
    <2>2. Letters(s) # {} /\ Letters(t) # {}
      BY <1>6, <2>1 DEF Proper
    <2> QED
      BY <2>2, LettersAre
  <1>8. qs[i].text = u /\ qs[i].path = cs[i].path
    <2>1. qs[i] = Chunk(u, cs[i].path)
      BY <1>2
    <2> QED
      BY <2>1, ChunkMeans
  <1>9. ASSUME NEW k \in 1 .. Len(qs), k # i
        PROVE  \/ k < i /\ k \in 1 .. Len(cs) /\ qs[k] = cs[k]
               \/ k > i /\ k + 1 \in 1 .. Len(cs) /\ qs[k] = cs[k + 1]
    <2>1. CASE k < i
      <3>1. k \in 1 .. i - 1 /\ k \in 1 .. Len(cs)
        BY <1>1, <2>1
      <3> QED
        BY <2>1, <3>1
    <2>2. CASE k > i
      <3>1. k \in i + 1 .. Len(qs) /\ k + 1 \in 1 .. Len(cs)
        BY <1>1, <2>2
      <3> QED
        BY <2>2, <3>1
    <2> QED
      BY <1>1, <1>9, <2>1, <2>2
  <1>10. Tell(Texts(qs), Everything)
    <2>1. PICK p \in Seq(Text), q \in Seq(Text) : p = Texts(cs) /\ q = Texts(qs)
      BY <1>1, ChunksTexts
    <2>2. Len(p) = Len(cs) /\ \A k \in 1 .. Len(cs) : p[k] = cs[k].text
      BY <1>1, <2>1, ChunksTexts
    <2>3. Len(q) = Len(qs) /\ \A k \in 1 .. Len(qs) : q[k] = qs[k].text
      BY <2>1, ChunksTexts
    <2>4. Tell(p, Everything)
      BY <2>1 DEF LoopSound
    <2>5. i \in 1 .. Len(p) - 1 /\ Len(q) = Len(p) - 1 /\ p[i] = s /\ p[i + 1] = t /\ q[i] = u
      BY <1>1, <1>2, <1>8, <2>2, <2>3
    <2>6. \A k \in 1 .. i - 1 : q[k] = p[k]
      <3>1. \A k \in 1 .. i - 1 : k \in 1 .. Len(qs) /\ k \in 1 .. Len(cs)
        BY <1>1
      <3> QED
        BY <2>2, <2>3, <3>1
    <2>7. \A k \in i + 1 .. Len(q) : q[k] = p[k + 1]
      <3>1. \A k \in i + 1 .. Len(qs) : k \in 1 .. Len(qs) /\ k + 1 \in 1 .. Len(cs)
        BY <1>1
      <3> QED
        BY <2>2, <2>3, <3>1
    <2>8. Letters(q[i]) = Letters(p[i]) \union Letters(p[i + 1]) /\ InOrder(q[i])
      BY <1>5, <2>5
    <2>9. Tell(q, Everything)
      BY <2>4, <2>5, <2>6, <2>7, <2>8, TellMerge
    <2> QED
      BY <2>1, <2>9
  <1>11. ASSUME NEW k \in 1 .. Len(qs) PROVE Proper(qs[k].text)
    <2>1. CASE k = i
      <3>1. Proper(u)
        BY <1>5, <1>6, <1>7, TextFacts DEF Proper, Bounded
      <3> QED
        BY <1>8, <2>1, <3>1
    <2>2. CASE k # i
      BY <1>9, <2>2 DEF LoopSound
    <2> QED
      BY <2>1, <2>2
  <1>12. ASSUME NEW k \in 1 .. Len(qs), k > i PROVE AllRight(qs[k].path, qs[k].text)
    <2>1. k # i /\ k + 1 > ix
      BY <1>1, <1>12
    <2>2. k + 1 \in 1 .. Len(cs) /\ qs[k] = cs[k + 1]
      BY <1>1, <1>9, <1>12, <2>1
    <2> QED
      BY <2>1, <2>2 DEF LoopSound
  <1>13. FirstRight(qs[i].path, qs[i].text)
    <2>1. \A c : FirstIn(Letters(u), c) => FirstIn(Letters(s), c)
      BY <1>4, <1>5, <1>7, FirstOfTwo
    <2> QED
      BY <1>2, <1>8, <2>1 DEF FirstRight
  <1>14. ASSUME NEW k \in 1 .. Len(qs), Len(qs[k].text) < Minimum, Blank(qs[k].text[1])
         PROVE  k > 1 /\ LastRight(qs[k].path, qs[k - 1].text)
    <2> DEFINE Before(list, m) == m > 1 /\ LastRight(list[m].path, list[m - 1].text)
    <2>1. \A m \in 1 .. Len(cs) : Len(cs[m].text) < Minimum /\ Blank(cs[m].text[1]) => Before(cs, m)
      BY DEF LoopSound
    <2>2. CASE k = i
      <3>1. Len(s) < Minimum /\ Blank(s[1])
        <4>1. Len(u) < Minimum /\ Blank(u[1])
          BY <1>8, <1>14, <2>2
        <4> QED
          BY <1>3, <1>5, <1>6, <4>1, SettingGiven
      <3>2. Before(cs, i)
        BY <1>1, <1>2, <2>1, <3>1
      <3>3. i - 1 \in 1 .. Len(qs) /\ i - 1 # i /\ i - 1 < i
        BY <1>1, <3>2
      <3>4. qs[i - 1] = cs[i - 1]
        BY <1>1, <1>9, <3>3
      <3> QED
        BY <1>8, <2>2, <3>2, <3>4
    <2>3. CASE k < i
      <3>1. k # i /\ qs[k] = cs[k] /\ k \in 1 .. Len(cs)
        BY <1>1, <1>9, <2>3
      <3>2. Before(cs, k)
        BY <1>14, <2>1, <3>1
      <3>3. k - 1 \in 1 .. Len(qs) /\ k - 1 # i /\ k - 1 < i
        BY <1>1, <2>3, <3>2
      <3>4. qs[k - 1] = cs[k - 1]
        BY <1>1, <1>9, <3>3
      <3> QED
        BY <3>1, <3>2, <3>4
    <2>4. CASE k > i
      <3>1. k # i /\ qs[k] = cs[k + 1] /\ k + 1 \in 1 .. Len(cs)
        BY <1>1, <1>9, <2>4
      <3>2. Before(cs, k + 1)
        BY <1>14, <2>1, <3>1
      <3>3. k > 1 /\ (k + 1) - 1 = k /\ k - 1 \in 1 .. Len(qs)
        BY <1>1, <2>4
      <3>4. LastRight(qs[k].path, cs[k].text)
        BY <3>1, <3>2, <3>3
      <3>5. CASE k = i + 1
        <4>3. k - 1 = i
          BY <1>1, <3>5
        <4>1. LastRight(qs[k].path, t) /\ qs[k - 1].text = u
          BY <1>2, <1>8, <3>4, <3>5, <4>3
        <4>2. \A c : LastIn(Letters(u), c) => LastIn(Letters(t), c)
          BY <1>4, <1>5, <1>7, LastOfTwo
        <4> QED
          BY <3>3, <4>1, <4>2 DEF LastRight
      <3>6. CASE k # i + 1
        <4>1. k - 1 > i /\ k - 1 # i /\ (k - 1) + 1 = k
          BY <1>1, <2>4, <3>6
        <4>2. qs[k - 1] = cs[k]
          BY <1>1, <1>9, <3>3, <4>1
        <4> QED
          BY <3>3, <3>4, <4>2
      <3> QED
        BY <3>5, <3>6
    <2> QED
      BY <1>1, <2>2, <2>3, <2>4
  <1>15. ASSUME NEW k \in 1 .. Len(qs), k < i, Letters(qs[k].text) # {}
         PROVE  Told(qs[k].text, qs[k].path, Following(qs, k))
    <2>1. k # i /\ qs[k] = cs[k] /\ k \in 1 .. Len(cs) /\ k < ix /\ k < Len(cs) /\ k < Len(qs) /\ k + 1 \in 1 .. Len(qs)
      BY <1>1, <1>9, <1>15
    <2>2. Told(qs[k].text, qs[k].path, Following(cs, k)) /\ qs[k].text \in Text
      BY <1>15, <2>1, LoopPlaces DEF LoopSound
    <2>3. Following(cs, k) = Len(cs[k + 1].text) /\ Following(qs, k) = Len(qs[k + 1].text)
      BY <2>1 DEF Following
    <2>4. Following(cs, k) \in Nat /\ Following(qs, k) \in Nat /\ Following(cs, k) <= Following(qs, k)
      <3>1. CASE k + 1 = i
        <4>1. Following(cs, k) = Len(s) /\ Following(qs, k) = Len(u)
          BY <1>2, <1>8, <2>3, <3>1
        <4> QED
          BY <1>3, <1>6, <4>1
      <3>2. CASE k + 1 # i
        <4>1. k + 1 < i
          BY <1>1, <1>15, <3>2
        <4>2. qs[k + 1] = cs[k + 1] /\ k + 1 \in 1 .. Len(cs)
          BY <1>1, <1>9, <2>1, <4>1
        <4>3. Len(cs[k + 1].text) \in Nat
          BY <4>2, LoopPlaces
        <4> QED
          BY <2>3, <4>2, <4>3
      <3> QED
        BY <3>1, <3>2
    <2> QED
      BY <2>2, <2>4, ToldStill
  <1>16. i \in 1 .. Len(qs) + 1
    BY <1>1
  <1> QED
    BY <1>10, <1>11, <1>12, <1>13, <1>14, <1>15, <1>16 DEF LoopSound


\* Two passages, otherwise divided so that both are long enough.
LEMMA BorrowSound ==
    ASSUME Given, NEW cs, NEW ix, LoopSound(cs, ix), NEW a \in 1 .. Len(cs) - 1, ix = a \/ ix = a + 1,
           NEW qs \in Seq(SomeChunk), Len(qs) = Len(cs),
           \A k \in 1 .. Len(cs) : k # a /\ k # a + 1 => qs[k] = cs[k],
           Proper(qs[a].text), Proper(qs[a + 1].text),
           Len(qs[a].text) >= Minimum, Len(qs[a + 1].text) >= Minimum,
           Letters(qs[a].text) \union Letters(qs[a + 1].text) = Letters(cs[a].text) \union Letters(cs[a + 1].text),
           InOrder(qs[a].text), InOrder(qs[a + 1].text),
           Precede(Letters(qs[a].text), Letters(qs[a + 1].text)),
           \A c : LastIn(Letters(qs[a + 1].text), c) => LastIn(Letters(cs[a + 1].text), c),
           NEW iy, iy = a + 1 \/ iy = a + 2, ix <= iy,
           iy <= Len(qs) => FirstRight(qs[iy].path, qs[iy].text),
           Told(qs[a].text, qs[a].path, Following(qs, a)),
           iy = a + 2 => Told(qs[a + 1].text, qs[a + 1].path, Following(qs, a + 1))
    PROVE  LoopSound(qs, iy)
  <1>1. /\ cs \in Seq(SomeChunk) /\ Len(cs) \in Nat /\ a \in Nat /\ a \in 1 .. Len(cs) /\ a + 1 \in 1 .. Len(cs)
        /\ ix \in Nat /\ iy \in 1 .. Len(qs) + 1
    BY LoopPlaces DEF LoopSound
  <1>2. Tell(Texts(qs), Everything)
    <2>1. PICK p \in Seq(Text), q \in Seq(Text) : p = Texts(cs) /\ q = Texts(qs)
      BY <1>1, ChunksTexts
    <2>2. Len(p) = Len(cs) /\ \A k \in 1 .. Len(cs) : p[k] = cs[k].text
      BY <1>1, <2>1, ChunksTexts
    <2>3. Len(q) = Len(cs) /\ \A k \in 1 .. Len(cs) : q[k] = qs[k].text
      BY <2>1, ChunksTexts
    <2>4. Tell(p, Everything)
      BY <2>1 DEF LoopSound
    <2>5. a \in 1 .. Len(p) - 1 /\ Len(q) = Len(p)
      BY <1>1, <2>2, <2>3
    <2>6. \A k \in 1 .. Len(p) : k # a /\ k # a + 1 => q[k] = p[k]
      BY <2>2, <2>3
    <2>7. p[a] = cs[a].text /\ p[a + 1] = cs[a + 1].text /\ q[a] = qs[a].text /\ q[a + 1] = qs[a + 1].text
      BY <1>1, <2>2, <2>3
    <2>8. /\ Letters(q[a]) \union Letters(q[a + 1]) = Letters(p[a]) \union Letters(p[a + 1])
          /\ InOrder(q[a]) /\ InOrder(q[a + 1]) /\ Precede(Letters(q[a]), Letters(q[a + 1]))
      BY <2>7
    <2>9. Tell(q, Everything)
      BY <2>4, <2>5, <2>6, <2>8, TellDivide
    <2> QED
      BY <2>1, <2>9
  <1>3. \A k \in 1 .. Len(qs) : Proper(qs[k].text)
    BY DEF LoopSound
  <1>4. ASSUME NEW k \in 1 .. Len(qs), k > iy PROVE AllRight(qs[k].path, qs[k].text)
    <2>1. k # a /\ k # a + 1 /\ k > ix
      BY <1>1, <1>4
    <2> QED
      BY <2>1 DEF LoopSound
  <1>5. ASSUME NEW k \in 1 .. Len(qs), Len(qs[k].text) < Minimum, Blank(qs[k].text[1])
        PROVE  k > 1 /\ LastRight(qs[k].path, qs[k - 1].text)
    <2>1. k # a /\ k # a + 1
      <3>1. /\ qs[a].text \in Text /\ qs[a + 1].text \in Text
        BY <1>1, ChunksTexts
      <3>2. /\ Len(qs[a].text) \in Nat /\ Len(qs[a + 1].text) \in Nat
        BY <3>1, TextFacts
      <3> QED
        BY <1>5, <3>2, SettingGiven
    <2>2. qs[k] = cs[k]
      BY <2>1
    <2>3. k > 1 /\ LastRight(qs[k].path, cs[k - 1].text)
      BY <1>5, <2>2 DEF LoopSound
    <2>4. CASE k - 1 = a + 1
      BY <2>3, <2>4 DEF LastRight
    <2>5. CASE k - 1 # a + 1
      <3>1. k - 1 # a /\ k - 1 \in 1 .. Len(cs)
        BY <1>1, <2>1, <2>3
      <3>2. qs[k - 1] = cs[k - 1]
        BY <2>5, <3>1
      <3> QED
        BY <2>3, <3>2
    <2> QED
      BY <2>4, <2>5
  <1>6. ASSUME NEW k \in 1 .. Len(qs), k < iy, Letters(qs[k].text) # {}
        PROVE  Told(qs[k].text, qs[k].path, Following(qs, k))
    <2>1. CASE k = a
      BY <2>1
    <2>2. CASE k = a + 1
      <3>1. iy = a + 2
        BY <1>1, <1>6, <2>2
      <3> QED
        BY <2>2, <3>1
    <2>3. CASE k # a /\ k # a + 1
      <3>1. k < a /\ k < ix /\ k < Len(cs) /\ k + 1 # a + 1 /\ k + 1 \in 1 .. Len(cs)
        BY <1>1, <1>6, <2>3
      <3>2. qs[k] = cs[k] /\ qs[k].text \in Text
        BY <2>3, LoopPlaces
      <3>3. Told(qs[k].text, qs[k].path, Following(cs, k))
        BY <1>6, <3>1, <3>2 DEF LoopSound
      <3>4. Following(cs, k) = Len(cs[k + 1].text) /\ Following(qs, k) = Len(qs[k + 1].text)
        BY <3>1 DEF Following
      <3>5. CASE k + 1 = a
        <4>1. Following(cs, k) \in Nat /\ Following(qs, k) \in Nat /\ Following(qs, k) >= Minimum
          <5>1. qs[k + 1].text \in Text /\ cs[k + 1].text \in Text
            BY <1>1, <3>1, ChunksTexts
          <5> QED
            BY <3>4, <3>5, <5>1, TextFacts
        <4> QED
          BY <3>2, <3>3, <4>1, ToldStill
      <3>6. CASE k + 1 # a
        BY <3>1, <3>3, <3>4, <3>6
      <3> QED
        BY <3>5, <3>6
    <2> QED
      BY <2>1, <2>2, <2>3
  <1> QED
    BY <1>1, <1>2, <1>3, <1>4, <1>5, <1>6 DEF LoopSound


\* What a text is cut into.
IsCut(t, j, l, r) ==
    /\ l \in Text /\ r \in Text /\ Letters(l) \union Letters(r) = Letters(t)
    /\ InOrder(l) /\ InOrder(r) /\ Precede(Letters(l), Letters(r))
    /\ Len(l) <= j /\ Len(r) <= Len(t) - j
    /\ (l # <<>> <=> Letters(l) # {}) /\ (r # <<>> <=> Letters(r) # {})
    /\ \A w \in 1 .. j : ~Blank(t[w]) => t[w] \in Letters(l)

LEMMA CutSound ==
    ASSUME NEW t \in Text, InOrder(t), NEW j \in 1 .. Len(t) - 1
    PROVE  IsCut(t, j, LeftOf(t, j), RightOf(t, j))
  <1>1. Len(t) \in Nat /\ j \in Nat /\ j \in 0 .. Len(t)
    BY TextFacts
  <1> DEFINE x == SubSeq(t, 1, j)
             y == SubSeq(t, j + 1, Len(t))
  <1>2. /\ x \in Text /\ y \in Text /\ Len(x) = j /\ Len(y) = Len(t) - j
        /\ Letters(x) \union Letters(y) = Letters(t)
        /\ InOrder(x) /\ InOrder(y) /\ Precede(Letters(x), Letters(y))
    BY <1>1, CutInTwo
  <1>3. \A k \in 1 .. j : x[k] = t[k]
    <2>1. 1 \in 1 .. Len(t) + 1 /\ j \in 1 - 1 .. Len(t) /\ t \in Seq(Characters)
      BY <1>1 DEF Text
    <2>2. \A k \in 1 .. j - 1 + 1 : x[k] = t[1 + k - 1]
      BY <2>1, Slice
    <2>3. \A k \in 1 .. j : k \in 1 .. j - 1 + 1 /\ 1 + k - 1 = k
      BY <1>1
    <2> QED
      BY <2>2, <2>3
  <1>4. PICK l : l = LeftOf(t, j)
    OBVIOUS
  <1>5. PICK r : r = RightOf(t, j)
    OBVIOUS
  <1>6. l = RStrip(x) /\ r = LStrip(y)
    BY <1>4, <1>5 DEF LeftOf, RightOf
  <1> HIDE DEF x, y
  <1>7. l \in Text /\ Letters(l) = Letters(x) /\ Len(l) <= j /\ InOrder(l) /\ (l # <<>> <=> Letters(l) # {})
    BY <1>2, <1>6, RStripKeeps
  <1>8. r \in Text /\ Letters(r) = Letters(y) /\ Len(r) <= Len(t) - j /\ InOrder(r) /\ (r # <<>> <=> Letters(r) # {})
    BY <1>2, <1>6, LStripKeeps
  <1>9. ASSUME NEW w \in 1 .. j, ~Blank(t[w]) PROVE t[w] \in Letters(l)
    <2>1. w \in 1 .. Len(x) /\ x[w] = t[w]
      BY <1>2, <1>3
    <2> QED
      BY <1>2, <1>7, <1>9, <2>1, IsLetter
  <1> QED
    BY <1>2, <1>4, <1>5, <1>7, <1>8, <1>9 DEF IsCut

LEMMA MinOfIntegers ==
    ASSUME NEW a \in Int, NEW b \in Int
    PROVE  Min({a, b}) \in Int /\ Min({a, b}) <= a /\ Min({a, b}) <= b
  <1>1. \E x \in {a, b} : \A y \in {a, b} : x <= y
    OBVIOUS
  <1>2. Min({a, b}) \in {a, b} /\ \A y \in {a, b} : Min({a, b}) <= y
    BY <1>1 DEF Min
  <1> QED
    BY <1>2

LEMMA MayTakeMeans ==
    ASSUME Given, NEW cs, NEW ix, cs = chunks, ix = index, LoopSound(cs, ix), ix <= Len(cs), NEW t \in Text, NEW n \in MayTake(t)
    PROVE  /\ n \in Int /\ Minimum - Len(cs[ix].text) <= n /\ n <= Len(t) - Minimum /\ n <= Size - Len(cs[ix].text) - 2
  <1>1. /\ Len(cs[ix].text) \in Nat /\ Len(t) \in Nat /\ Size \in Nat /\ Minimum \in Nat
    <2>1. ix \in 1 .. Len(cs)
      BY LoopPlaces DEF LoopSound
    <2> QED
      BY <2>1, LoopPlaces, SettingGiven, TextFacts
  <1>2. PICK m, o : m = Len(t) - Minimum /\ o = Size - Len(cs[ix].text) - 2
    OBVIOUS
  <1>3. m \in Int /\ o \in Int
    BY <1>1, <1>2
  <1>4. Min({m, o}) \in Int /\ Min({m, o}) <= m /\ Min({m, o}) <= o
    BY <1>3, MinOfIntegers
  <1>5. n \in Minimum - Len(cs[ix].text) .. Min({m, o})
    BY <1>2 DEF MayTake, Needed
  <1>6. PICK a \in Nat, z \in Nat, e \in Nat : a = Len(cs[ix].text) /\ z = Size /\ e = Minimum
    BY <1>1
  <1>7. n \in Int /\ e - a <= n /\ n <= m /\ n <= o
    BY <1>3, <1>4, <1>5, <1>6
  <1> QED
    BY <1>2, <1>6, <1>7

LEMMA SuffixCutChosen ==
    ASSUME NEW t \in Text, SuffixCuts(t) # {}
    PROVE  /\ Max(SuffixCuts(t)) \in 1 .. Len(t) - 1
           /\ LET i == Max(SuffixCuts(t))
              IN Len(t) - i \in MayTake(t) /\ LeftOf(t, i) # <<>> /\ Len(RightOf(t, i)) \in MayTake(t)
  <1>1. Len(t) \in Nat
    BY TextFacts
  <1>2. SuffixCuts(t) \in SUBSET (0 .. Len(t)) /\ SuffixCuts(t) \subseteq 1 .. Len(t) - 1
    BY <1>1 DEF SuffixCuts, Boundaries
  <1>3. PICK i : i = Max(SuffixCuts(t))
    OBVIOUS
  <1>4. i \in SuffixCuts(t)
    BY <1>1, <1>2, <1>3, LargestNumber
  <1> QED
    BY <1>2, <1>3, <1>4 DEF SuffixCuts

LEMMA PrefixCutChosen ==
    ASSUME NEW t \in Text, PrefixCuts(t) # {}
    PROVE  /\ Min(PrefixCuts(t)) \in 1 .. Len(t) - 1
           /\ LET i == Min(PrefixCuts(t))
              IN i \in MayTake(t) /\ RightOf(t, i) # <<>> /\ Len(LeftOf(t, i)) \in MayTake(t)
  <1>1. Len(t) \in Nat
    BY TextFacts
  <1>2. PrefixCuts(t) \in SUBSET Nat /\ PrefixCuts(t) \subseteq 1 .. Len(t) - 1
    BY <1>1 DEF PrefixCuts, Boundaries
  <1>3. PICK i : i = Min(PrefixCuts(t))
    OBVIOUS
  <1>4. i \in PrefixCuts(t)
    BY <1>1, <1>2, <1>3, SmallestNumber
  <1> QED
    BY <1>2, <1>3, <1>4 DEF PrefixCuts

LEMMA ShortMeans ==
    ASSUME Given, NEW cs, NEW ix, cs = chunks, ix = index, LoopSound(cs, ix), Short
    PROVE  ix \in 1 .. Len(cs) /\ Len(cs[ix].text) < Minimum /\ Len(cs[ix].text) \in Nat \ {0} /\ Minimum > 1 /\ Size > 1
  <1>1. ix \in 1 .. Len(cs) /\ Len(cs[ix].text) < Minimum
    BY LoopPlaces DEF Short, Looping, LoopSound
  <1>2. Len(cs[ix].text) \in Nat \ {0}
    BY <1>1, LoopPlaces, TextFacts
  <1> QED
    BY <1>1, <1>2, SettingGiven

LEMMA MergeBeforeSound ==
    ASSUME Given, NEW cs, NEW ix, cs = chunks, ix = index, LoopSound(cs, ix), MergeBefore
    PROVE  \E qs, iy : chunks' = qs /\ index' = iy /\ LoopSound(qs, iy)
  <1>1. /\ ix \in 1 .. Len(cs) /\ Len(cs[ix].text) < Minimum /\ Size > 1 /\ cs \in Seq(SomeChunk) /\ Len(cs) \in Nat
    BY ShortMeans, LoopPlaces DEF MergeBefore, LoopSound
  <1>2. PICK i : i = ix - 1
    OBVIOUS
  <1>3. ix > 1 /\ CombinedLength(cs[ix - 1], cs[ix]) <= Size
    BY DEF MergeBefore, FitsBefore
  <1>4. i \in 1 .. Len(cs) - 1 /\ i \in 1 .. Len(cs) /\ ix = i + 1 /\ i < ix
    BY <1>1, <1>2, <1>3
  <1>5. Len(cs[i].text) + 2 + Len(cs[i + 1].text) <= Size
    BY <1>2, <1>3, <1>4 DEF CombinedLength
  <1>6. FirstRight(cs[i].path, cs[i].text)
    <2>1. PICK t \in Text : t = cs[i].text
      BY <1>4, LoopPlaces
    <2>2. Letters(t) # {}
      BY <1>1, <1>4, <2>1 DEF LoopSound, Proper
    <2>3. Told(t, cs[i].path, Len(cs[i + 1].text))
      <3>1. Told(t, cs[i].path, Following(cs, i))
        BY <1>4, <2>1, <2>2 DEF LoopSound
      <3>2. i < Len(cs)
        BY <1>1, <1>4
      <3> QED
        BY <3>1, <3>2 DEF Following
    <2>4. PICK w \in 1 .. Len(t) : /\ ~Blank(t[w]) /\ Right(cs[i].path, t[w][1])
                                   /\ \/ FirstIn(Letters(t), t[w])
                                      \/ Len(cs[i + 1].text) < Minimum => Len(t) - w + 3 + Len(cs[i + 1].text) > Size
      BY <2>3 DEF Told
    <2>5. ~(Len(t) - w + 3 + Len(cs[i + 1].text) > Size)
      <3>1. Len(t) \in Nat /\ Len(cs[i + 1].text) \in Nat /\ w \in Nat /\ w >= 1
        BY <1>1, <1>4, LoopPlaces, TextFacts
      <3>2. Len(t) + 2 + Len(cs[i + 1].text) <= Size
        BY <1>5, <2>1
      <3>3. PICK a \in Nat, b \in Nat, z \in Nat : a = Len(t) /\ b = Len(cs[i + 1].text) /\ z = Size
        BY <3>1, SettingGiven
      <3>4. a + 2 + b <= z
        BY <3>2, <3>3
      <3>5. ~(a - w + 3 + b > z)
        BY <3>1, <3>4
      <3> QED
        BY <3>3, <3>5
    <2>6. FirstIn(Letters(t), t[w])
      BY <1>1, <1>4, <2>4, <2>5
    <2> QED
      BY <2>1, <2>4, <2>6, FirstOnly
  <1>7. PICK qs \in Seq(SomeChunk) : qs = Merged(i)
    BY <1>1, <1>4, MergedMeans
  <1>8. /\ Len(qs) = Len(cs) - 1 /\ \A k \in 1 .. i - 1 : qs[k] = cs[k]
        /\ qs[i] = Chunk(cs[i].text \o BlankLine \o cs[i + 1].text, cs[i].path)
        /\ \A k \in i + 1 .. Len(qs) : qs[k] = cs[k + 1]
    BY <1>1, <1>4, <1>7, MergedMeans
  <1>9. LoopSound(qs, i)
    BY <1>4, <1>5, <1>6, <1>8, MergeSound
  <1>10. chunks' = qs /\ index' = i
    BY <1>2, <1>7 DEF MergeBefore
  <1> QED
    BY <1>9, <1>10

LEMMA MergeAfterSound ==
    ASSUME Given, NEW cs, NEW ix, cs = chunks, ix = index, LoopSound(cs, ix), MergeAfter
    PROVE  \E qs, iy : chunks' = qs /\ index' = iy /\ LoopSound(qs, iy)
  <1>1. /\ ix \in 1 .. Len(cs) /\ cs \in Seq(SomeChunk) /\ Len(cs) \in Nat
    BY ShortMeans, LoopPlaces DEF MergeAfter, LoopSound
  <1>2. ix < Len(cs) /\ CombinedLength(cs[ix], cs[ix + 1]) <= Size
    BY DEF MergeAfter, FitsAfter
  <1>3. ix \in 1 .. Len(cs) - 1
    BY <1>1, <1>2
  <1>4. Len(cs[ix].text) + 2 + Len(cs[ix + 1].text) <= Size
    BY <1>2 DEF CombinedLength
  <1>5. FirstRight(cs[ix].path, cs[ix].text)
    BY <1>1 DEF LoopSound
  <1>6. PICK qs \in Seq(SomeChunk) : qs = Merged(ix)
    BY <1>1, <1>3, MergedMeans
  <1>7. /\ Len(qs) = Len(cs) - 1 /\ \A k \in 1 .. ix - 1 : qs[k] = cs[k]
        /\ qs[ix] = Chunk(cs[ix].text \o BlankLine \o cs[ix + 1].text, cs[ix].path)
        /\ \A k \in ix + 1 .. Len(qs) : qs[k] = cs[k + 1]
    BY <1>1, <1>3, <1>6, MergedMeans
  <1>8. LoopSound(qs, ix)
    BY <1>3, <1>4, <1>5, <1>7, MergeSound
  <1>9. chunks' = qs /\ index' = ix
    BY <1>6 DEF MergeAfter
  <1> QED
    BY <1>8, <1>9

LEMMA KeepSound ==
    ASSUME Given, NEW cs, NEW ix, cs = chunks, ix = index, LoopSound(cs, ix), Keep
    PROVE  LoopSound(cs, ix + 1)
  <1>1. ix \in 1 .. Len(cs) /\ cs \in Seq(SomeChunk) /\ Len(cs) \in Nat
    BY LoopPlaces DEF Keep, Looping, LoopSound
  <1>2. \A k \in 1 .. Len(cs) : k > ix + 1 => AllRight(cs[k].path, cs[k].text)
    <2>1. \A k \in 1 .. Len(cs) : k > ix => AllRight(cs[k].path, cs[k].text)
      BY DEF LoopSound
    <2>2. \A k \in 1 .. Len(cs) : k > ix + 1 => k > ix
      BY <1>1
    <2> QED
      BY <2>1, <2>2
  <1>3. ix + 1 <= Len(cs) => FirstRight(cs[ix + 1].path, cs[ix + 1].text)
    <2>1. ix + 1 <= Len(cs) => ix + 1 \in 1 .. Len(cs) /\ ix + 1 > ix
      BY <1>1
    <2> QED
      BY <2>1, AllFirstRight DEF LoopSound
  <1>4. ASSUME NEW k \in 1 .. Len(cs), k < ix + 1, Letters(cs[k].text) # {}
        PROVE  Told(cs[k].text, cs[k].path, Following(cs, k))
    <2>1. CASE k = ix
      <3>2. cs[ix].text \in Text /\ InOrder(cs[ix].text)
        BY <1>1, LoopPlaces
      <3>1. cs[ix].text \in Text /\ InOrder(cs[ix].text) /\ FirstRight(cs[ix].path, cs[ix].text)
        BY <1>1, <3>2 DEF LoopSound
      <3> QED
        BY <1>4, <2>1, <3>1, FirstTold
    <2>2. CASE k # ix
      <3>1. k < ix
        BY <1>1, <1>4, <2>2
      <3> QED
        BY <1>4, <3>1 DEF LoopSound
    <2> QED
      BY <2>1, <2>2
  <1>5. ix + 1 \in 1 .. Len(cs) + 1
    BY <1>1
  <1> QED
    BY <1>2, <1>3, <1>4, <1>5 DEF LoopSound


LEMMA BorrowBeforeSound ==
    ASSUME Given, NEW cs, NEW ix, cs = chunks, ix = index, LoopSound(cs, ix), BorrowBefore
    PROVE  \E qs, iy : chunks' = qs /\ index' = iy /\ LoopSound(qs, iy)
  <1>1. /\ ix \in 1 .. Len(cs) /\ Len(cs[ix].text) < Minimum /\ Len(cs[ix].text) \in Nat \ {0}
        /\ Minimum > 1 /\ Size > 1 /\ cs \in Seq(SomeChunk) /\ Len(cs) \in Nat
    BY ShortMeans, LoopPlaces DEF BorrowBefore, LoopSound
  <1>2. /\ ix > 1 /\ SuffixCuts(cs[ix - 1].text) # {}
        /\ Len(FromPrevious[1]) >= Minimum /\ Len(FromPrevious[2]) <= Size
    BY DEF BorrowBefore, BorrowsBefore
  <1>3. PICK a : a = ix - 1
    OBVIOUS
  <1>4. a \in 1 .. Len(cs) - 1 /\ a \in 1 .. Len(cs) /\ ix = a + 1 /\ a < ix /\ a < Len(cs) /\ a \in Nat
    BY <1>1, <1>2, <1>3
  <1>5. PICK t \in Text, s \in Text : t = cs[a].text /\ s = cs[ix].text
    BY <1>1, <1>4, LoopPlaces
  <1>6. /\ InOrder(t) /\ InOrder(s) /\ Precede(Letters(t), Letters(s)) /\ s # <<>>
        /\ Len(t) \in Nat /\ Len(s) \in Nat /\ Letters(t) \in SUBSET Characters /\ Letters(s) \in SUBSET Characters
    BY <1>1, <1>4, <1>5, LoopPlaces
  <1>7. Proper(t) /\ Proper(s) /\ Letters(t) # {} /\ Letters(s) # {}
    <2>1. Proper(t) /\ Proper(s)
      BY <1>1, <1>4, <1>5 DEF LoopSound
    <2> QED
      BY <1>1, <2>1 DEF Proper
  <1>8. PICK j : j = Max(SuffixCuts(t))
    OBVIOUS
  <1>9. PICK l : l = LeftOf(t, j)
    OBVIOUS
  <1>10. PICK r : r = RightOf(t, j)
    OBVIOUS
  <1>11. j \in 1 .. Len(t) - 1 /\ Len(t) - j \in MayTake(t) /\ l # <<>> /\ Len(r) \in MayTake(t)
    BY <1>2, <1>3, <1>5, <1>8, <1>9, <1>10, SuffixCutChosen
  <1>12. IsCut(t, j, l, r)
    BY <1>6, <1>9, <1>10, <1>11, CutSound
  <1>13. /\ l \in Text /\ r \in Text /\ Letters(l) \union Letters(r) = Letters(t)
         /\ InOrder(l) /\ InOrder(r) /\ Precede(Letters(l), Letters(r)) /\ Len(l) <= j
         /\ Letters(l) # {} /\ \A w \in 1 .. j : ~Blank(t[w]) => t[w] \in Letters(l)
    BY <1>11, <1>12 DEF IsCut
  <1>14. /\ Minimum - Len(s) <= Len(r) /\ Len(t) - j <= Size - Len(s) - 2 /\ Len(r) \in Nat /\ Len(l) \in Nat
    <2>1. Minimum - Len(cs[ix].text) <= Len(r) /\ Len(t) - j <= Size - Len(cs[ix].text) - 2
      <3>1. ix <= Len(cs)
        BY <1>1
      <3> QED
        BY <1>11, <3>1, MayTakeMeans
    <2> QED
      BY <1>5, <1>13, <2>1, TextFacts
  <1>15. Len(r) > 0 /\ r # <<>> /\ Letters(r) # {} /\ Letters(l) \in SUBSET Characters /\ Letters(r) \in SUBSET Characters
    <2>1. Len(s) < Minimum
      BY <1>1, <1>5
    <2>2. Len(r) > 0
      BY <1>6, <1>14, <2>1, SettingGiven
    <2>3. r # <<>>
      BY <1>13, <2>2, TextFacts
    <2> QED
      BY <1>12, <1>13, <2>2, <2>3, LettersAre DEF IsCut
  <1>16. PICK u : u = r \o BlankLine \o s
    OBVIOUS
  <1>17. Glued(r, s, u)
    BY <1>13, <1>15, <1>16, BlankLineBetween
  <1>18. Precede(Letters(r), Letters(s)) /\ Precede(Letters(l), Letters(s))
    BY <1>6, <1>13 DEF Precede
  <1>19. /\ u \in Text /\ Letters(u) = Letters(r) \union Letters(s) /\ InOrder(u) /\ Len(u) = Len(r) + 2 + Len(s)
         /\ \A k \in 1 .. Len(r) : u[k] = r[k]
         /\ \A k \in 1 .. Len(s) : u[Len(r) + 2 + k] = s[k]
    BY <1>6, <1>13, <1>17, <1>18 DEF Glued
  <1>20. FromPrevious[1] = l /\ FromPrevious[2] = u
    BY <1>3, <1>5, <1>8, <1>9, <1>10, <1>16 DEF FromPrevious
  <1>21. Len(l) >= Minimum /\ Len(u) <= Size /\ Len(u) >= Minimum /\ Len(u) \in Nat
    <2>1. Len(l) >= Minimum /\ Len(u) <= Size
      BY <1>2, <1>20
    <2> QED
      BY <1>6, <1>14, <1>19, <2>1, SettingGiven
  <1>22. PICK qs : qs = Rewritten(a, FromPrevious)
    OBVIOUS
  <1>23. /\ qs \in Seq(SomeChunk) /\ Len(qs) = Len(cs)
         /\ \A k \in 1 .. Len(cs) : k # a /\ k # a + 1 => qs[k] = cs[k]
         /\ qs[a].text = l /\ qs[a].path = cs[a].path
         /\ qs[a + 1].text = u /\ qs[a + 1].path = cs[a + 1].path
    <2>1. FromPrevious[1] \in Text /\ FromPrevious[2] \in Text
      BY <1>13, <1>19, <1>20
    <2>2. Redivided(cs, a, FromPrevious[1], FromPrevious[2], qs)
      BY <1>1, <1>4, <1>22, <2>1, RewrittenMeans
    <2>3. Redivided(cs, a, l, u, qs)
      BY <1>20, <2>2
    <2> QED
      BY <2>3 DEF Redivided
  <1>24. Proper(l) /\ Proper(u)
    <2>1. Bounded(l)
      <3>1. Bounded(t) /\ Len(l) <= Len(t) /\ Letters(l) \subseteq Letters(t)
        BY <1>6, <1>7, <1>11, <1>13, <1>14 DEF Proper
      <3> QED
        BY <1>13, <3>1, BoundedPart
    <2>2. Bounded(u)
      BY <1>21 DEF Bounded
    <2>3. Letters(u) # {} /\ u # <<>>
      BY <1>1, <1>15, <1>19, <1>21, TextFacts
    <2> QED
      BY <1>11, <1>13, <2>1, <2>2, <2>3 DEF Proper
  <1>25. Letters(l) \union Letters(u) = Letters(t) \union Letters(s)
    BY <1>13, <1>19
  <1>26. Precede(Letters(l), Letters(u))
    BY <1>13, <1>18, <1>19 DEF Precede
  <1>27. \A c : LastIn(Letters(u), c) => LastIn(Letters(s), c)
    BY <1>6, <1>7, <1>15, <1>18, <1>19, LastOfTwo
  <1>28. Told(l, cs[a].path, Len(u))
    <2>1. Told(t, cs[a].path, Following(cs, a))
      BY <1>4, <1>5, <1>7 DEF LoopSound
    <2>2. Following(cs, a) = Len(s)
      BY <1>4, <1>5 DEF Following
    <2>3. PICK w \in 1 .. Len(t) : /\ ~Blank(t[w]) /\ Right(cs[a].path, t[w][1])
                                   /\ FirstIn(Letters(t), t[w]) \/ (Len(s) < Minimum => Len(t) - w + 3 + Len(s) > Size)
      BY <2>1, <2>2 DEF Told
    <2>4. CASE FirstIn(Letters(t), t[w])
      <3>1. FirstIn(Letters(l), t[w])
        BY <1>13, <1>15, <2>4, FirstOfTwo
      <3>2. t[w] \in Letters(l)
        BY <3>1 DEF FirstIn
      <3> QED
        BY <1>13, <1>21, <2>3, <3>2, ToldWhenLong
    <2>5. CASE Len(s) < Minimum => Len(t) - w + 3 + Len(s) > Size
      <3>1. Len(t) - w + 3 + Len(s) > Size
        BY <1>1, <1>5, <2>5
      <3>2. PICK x \in Nat, y \in Nat, z \in Nat : x = Len(t) /\ y = Len(s) /\ z = Size
        BY <1>6, SettingGiven
      <3>3. x - w + 3 + y > z /\ x - j <= z - y - 2 /\ j \in Nat /\ w \in 1 .. x
        BY <1>11, <1>14, <3>1, <3>2
      <3>4. w \in 1 .. j
        BY <3>3
      <3>5. t[w] \in Letters(l)
        BY <1>13, <2>3, <3>4
      <3> QED
        BY <1>13, <1>21, <2>3, <3>5, ToldWhenLong
    <2> QED
      BY <2>3, <2>4, <2>5
  <1>29. Told(u, cs[ix].path, Following(cs, ix))
    <2> DEFINE n == Following(cs, ix)
    <2>1. n < Minimum => Len(s) + 2 + n > Size
      <3>1. CASE ix < Len(cs)
        <4>1. n = Len(cs[ix + 1].text)
          BY <3>1 DEF Following
        <4>2. ~(Len(cs[ix].text) + 2 + Len(cs[ix + 1].text) <= Size)
          BY <3>1 DEF BorrowBefore, FitsAfter, CombinedLength
        <4>3. ix + 1 \in 1 .. Len(cs)
          BY <1>1, <3>1
        <4>4. n \in Nat
          BY <4>1, <4>3, LoopPlaces
        <4>5. PICK y \in Nat, z \in Nat : y = Len(s) /\ z = Size
          BY <1>6, SettingGiven
        <4>6. ~(y + 2 + n <= z)
          BY <1>5, <4>1, <4>2, <4>5
        <4>7. y + 2 + n > z
          BY <4>4, <4>6
        <4> QED
          BY <4>5, <4>7
      <3>2. CASE ~(ix < Len(cs))
        BY <3>2, SettingGiven DEF Following
      <3> QED
        BY <3>1, <3>2
    <2>2. n \in Nat
      <3>1. CASE ix < Len(cs)
        <4>1. ix + 1 \in 1 .. Len(cs)
          BY <1>1, <3>1
        <4> QED
          BY <3>1, <4>1, LoopPlaces DEF Following
      <3>2. CASE ~(ix < Len(cs))
        BY <3>2, SettingGiven DEF Following
      <3> QED
        BY <3>1, <3>2
    <2> HIDE DEF n
    <2>3. ASSUME NEW w \in 1 .. Len(r) + 3, n < Minimum PROVE Len(u) - w + 3 + n > Size
      <3>1. PICK x \in Nat, y \in Nat, z \in Nat : x = Len(r) /\ y = Len(s) /\ z = Size
        BY <1>6, <1>14, SettingGiven
      <3>2. Len(u) = x + 2 + y /\ y + 2 + n > z /\ w \in 1 .. x + 3
        BY <1>19, <2>1, <2>3, <3>1
      <3>3. (x + 2 + y) - w + 3 + n > z
        BY <2>2, <3>2
      <3> QED
        BY <3>1, <3>2, <3>3
    <2>4. \A w \in 1 .. Len(r) + 3 : w \in 1 .. Len(u)
      <3>1. PICK x \in Nat, y \in Nat : x = Len(r) /\ y = Len(s)
        BY <1>6, <1>14
      <3>2. Len(u) = x + 2 + y /\ y # 0
        BY <1>1, <1>5, <1>19, <3>1
      <3>3. \A w \in 1 .. x + 3 : w \in 1 .. x + 2 + y
        BY <3>2
      <3> QED
        BY <3>1, <3>2, <3>3
    <2>5. CASE ~Blank(s[1])
      <3>1. 1 \in 1 .. Len(s) /\ Len(r) + 2 + 1 = Len(r) + 3 /\ Len(r) + 3 \in 1 .. Len(r) + 3
        BY <1>1, <1>5, <1>14
      <3>2. u[Len(r) + 3] = s[1]
        BY <1>19, <3>1
      <3>3. FirstIn(Letters(s), s[1])
        <4>1. PICK v \in 1 .. Len(s) : /\ FirstIn(Letters(s), s[v]) /\ \A k \in 1 .. v - 1 : Blank(s[k])
          BY <1>6, <1>7, FirstPlace
        <4>2. v = 1
          <5>1. 1 \in 1 .. v - 1 \/ v = 1
            BY <1>6
          <5> QED
            BY <2>5, <4>1, <5>1
        <4> QED
          BY <4>1, <4>2
      <3>4. Right(cs[ix].path, s[1][1])
        <4>1. FirstRight(cs[ix].path, s)
          BY <1>1, <1>5 DEF LoopSound
        <4> QED
          BY <3>3, <4>1 DEF FirstRight
      <3>5. PICK w \in 1 .. Len(r) + 3 : w = Len(r) + 3
        BY <3>1
      <3>6. w \in 1 .. Len(u) /\ ~Blank(u[w]) /\ Right(cs[ix].path, u[w][1]) /\ (n < Minimum => Len(u) - w + 3 + n > Size)
        BY <2>3, <2>4, <2>5, <3>2, <3>4, <3>5
      <3> QED
        BY <3>6 DEF Told, n
    <2>6. CASE Blank(s[1])
      <3>1. LastRight(cs[ix].path, t)
        BY <1>1, <1>3, <1>5, <2>6 DEF LoopSound
      <3>2. PICK v \in 1 .. Len(r) : ~Blank(r[v]) /\ LastIn(Letters(r), r[v])
        BY <1>13, <1>15, LastPlace
      <3>3. LastIn(Letters(t), r[v])
        BY <1>13, <1>15, <3>2, LastOfTwo
      <3>4. Right(cs[ix].path, r[v][1])
        BY <3>1, <3>3 DEF LastRight
      <3>5. v \in 1 .. Len(r) + 3 /\ u[v] = r[v]
        BY <1>14, <1>19, <3>2
      <3>6. v \in 1 .. Len(u) /\ ~Blank(u[v]) /\ Right(cs[ix].path, u[v][1]) /\ (n < Minimum => Len(u) - v + 3 + n > Size)
        BY <2>3, <2>4, <3>2, <3>4, <3>5
      <3> QED
        BY <3>6 DEF Told, n
    <2> QED
      BY <2>5, <2>6
  <1>30. Following(qs, a) = Len(u) /\ Following(qs, a + 1) = Following(cs, ix)
    <2>1. Following(qs, a) = Len(u)
      BY <1>4, <1>23 DEF Following
    <2>2. CASE ix < Len(cs)
      <3>1. ix + 1 \in 1 .. Len(cs) /\ ix + 1 # a /\ ix + 1 # a + 1
        BY <1>1, <1>4, <2>2
      <3>2. qs[ix + 1] = cs[ix + 1]
        BY <1>23, <3>1
      <3> QED
        BY <1>4, <1>23, <2>1, <2>2, <3>2 DEF Following
    <2>3. CASE ~(ix < Len(cs))
      BY <1>4, <1>23, <2>1, <2>3 DEF Following
    <2> QED
      BY <2>2, <2>3
  <1>31. PICK iy : iy = a + 2
    OBVIOUS
  <1>32. ix <= iy /\ iy = ix + 1
    BY <1>4, <1>31
  <1>33. iy <= Len(qs) => FirstRight(qs[iy].path, qs[iy].text)
    <2>1. ASSUME iy <= Len(qs) PROVE FirstRight(qs[iy].path, qs[iy].text)
      <3>1. iy \in 1 .. Len(cs) /\ iy > ix /\ iy # a /\ iy # a + 1
        BY <1>1, <1>4, <1>23, <1>31, <2>1
      <3>2. qs[iy] = cs[iy] /\ AllRight(cs[iy].path, cs[iy].text)
        BY <1>23, <3>1 DEF LoopSound
      <3> QED
        BY <3>2, AllFirstRight
    <2> QED
      BY <2>1
  <1>34. LoopSound(qs, iy)
    <2>1. Proper(qs[a].text) /\ Proper(qs[a + 1].text) /\ Len(qs[a].text) >= Minimum /\ Len(qs[a + 1].text) >= Minimum
      BY <1>21, <1>23, <1>24
    <2>2. /\ Letters(qs[a].text) \union Letters(qs[a + 1].text) = Letters(cs[a].text) \union Letters(cs[a + 1].text)
          /\ InOrder(qs[a].text) /\ InOrder(qs[a + 1].text)
          /\ Precede(Letters(qs[a].text), Letters(qs[a + 1].text))
          /\ \A c : LastIn(Letters(qs[a + 1].text), c) => LastIn(Letters(cs[a + 1].text), c)
      BY <1>4, <1>5, <1>13, <1>19, <1>23, <1>25, <1>26, <1>27
    <2>3. Told(qs[a].text, qs[a].path, Following(qs, a))
      BY <1>23, <1>28, <1>30
    <2>4. Told(qs[a + 1].text, qs[a + 1].path, Following(qs, a + 1))
      BY <1>4, <1>23, <1>29, <1>30
    <2> QED
      BY <1>4, <1>23, <1>31, <1>32, <1>33, <2>1, <2>2, <2>3, <2>4, BorrowSound
  <1>35. chunks' = qs /\ index' = iy
    BY <1>3, <1>22, <1>32 DEF BorrowBefore
  <1> QED
    BY <1>34, <1>35

LEMMA BorrowAfterSound ==
    ASSUME Given, NEW cs, NEW ix, cs = chunks, ix = index, LoopSound(cs, ix), BorrowAfter
    PROVE  \E qs, iy : chunks' = qs /\ index' = iy /\ LoopSound(qs, iy)
  <1>1. /\ ix \in 1 .. Len(cs) /\ Len(cs[ix].text) < Minimum /\ Len(cs[ix].text) \in Nat \ {0}
        /\ Minimum > 1 /\ Size > 1 /\ cs \in Seq(SomeChunk) /\ Len(cs) \in Nat /\ ix \in Nat
    BY ShortMeans, LoopPlaces DEF BorrowAfter, LoopSound
  <1>2. /\ ix < Len(cs) /\ PrefixCuts(cs[ix + 1].text) # {}
        /\ Len(FromFollowing[2]) >= Minimum /\ Len(FromFollowing[1]) <= Size
    BY DEF BorrowAfter, BorrowsAfter
  <1>4. ix \in 1 .. Len(cs) - 1 /\ ix + 1 \in 1 .. Len(cs) /\ ix < ix + 1
    BY <1>1, <1>2
  <1>5. PICK t \in Text, s \in Text : t = cs[ix + 1].text /\ s = cs[ix].text
    BY <1>1, <1>4, LoopPlaces
  <1>6. /\ InOrder(t) /\ InOrder(s) /\ Precede(Letters(s), Letters(t)) /\ s # <<>>
        /\ Len(t) \in Nat /\ Len(s) \in Nat /\ Letters(t) \in SUBSET Characters /\ Letters(s) \in SUBSET Characters
    BY <1>1, <1>4, <1>5, LoopPlaces
  <1>7. Proper(t) /\ Proper(s) /\ Letters(t) # {} /\ Letters(s) # {}
    <2>1. Proper(t) /\ Proper(s)
      BY <1>1, <1>4, <1>5 DEF LoopSound
    <2> QED
      BY <1>1, <2>1 DEF Proper
  <1>8. PICK j : j = Min(PrefixCuts(t))
    OBVIOUS
  <1>9. PICK l : l = LeftOf(t, j)
    OBVIOUS
  <1>10. PICK r : r = RightOf(t, j)
    OBVIOUS
  <1>11. j \in 1 .. Len(t) - 1 /\ r # <<>> /\ Len(l) \in MayTake(t)
    BY <1>2, <1>5, <1>8, <1>9, <1>10, PrefixCutChosen
  <1>12. IsCut(t, j, l, r)
    BY <1>6, <1>9, <1>10, <1>11, CutSound
  <1>13. /\ l \in Text /\ r \in Text /\ Letters(l) \union Letters(r) = Letters(t)
         /\ InOrder(l) /\ InOrder(r) /\ Precede(Letters(l), Letters(r)) /\ Len(r) <= Len(t) - j
         /\ Letters(r) # {}
    BY <1>11, <1>12 DEF IsCut
  <1>14. Minimum - Len(s) <= Len(l) /\ Len(r) \in Nat /\ Len(l) \in Nat
    <2>1. Minimum - Len(cs[ix].text) <= Len(l)
      <3>1. ix <= Len(cs)
        BY <1>1
      <3> QED
        BY <1>11, <3>1, MayTakeMeans
    <2> QED
      BY <1>5, <1>13, <2>1, TextFacts
  <1>15. Letters(l) \in SUBSET Characters /\ Letters(r) \in SUBSET Characters
    BY <1>13, LettersAre
  <1>16. PICK u : u = s \o BlankLine \o l
    OBVIOUS
  <1>17. Glued(s, l, u)
    BY <1>6, <1>13, <1>16, BlankLineBetween
  <1>18. Precede(Letters(s), Letters(l)) /\ Precede(Letters(s), Letters(r))
    BY <1>6, <1>13 DEF Precede
  <1>19. u \in Text /\ Letters(u) = Letters(s) \union Letters(l) /\ InOrder(u) /\ Len(u) = Len(s) + 2 + Len(l)
    BY <1>6, <1>13, <1>17, <1>18 DEF Glued
  <1>20. FromFollowing[1] = u /\ FromFollowing[2] = r
    BY <1>5, <1>8, <1>9, <1>10, <1>16 DEF FromFollowing
  <1>21. Len(r) >= Minimum /\ Len(u) <= Size /\ Len(u) >= Minimum /\ Len(u) \in Nat
    <2>1. Len(r) >= Minimum /\ Len(u) <= Size
      BY <1>2, <1>20
    <2> QED
      BY <1>6, <1>14, <1>19, <2>1, SettingGiven
  <1>22. PICK qs : qs = Rewritten(ix, FromFollowing)
    OBVIOUS
  <1>23. /\ qs \in Seq(SomeChunk) /\ Len(qs) = Len(cs)
         /\ \A k \in 1 .. Len(cs) : k # ix /\ k # ix + 1 => qs[k] = cs[k]
         /\ qs[ix].text = u /\ qs[ix].path = cs[ix].path
         /\ qs[ix + 1].text = r /\ qs[ix + 1].path = cs[ix + 1].path
    <2>1. FromFollowing[1] \in Text /\ FromFollowing[2] \in Text
      BY <1>13, <1>19, <1>20
    <2>2. Redivided(cs, ix, FromFollowing[1], FromFollowing[2], qs)
      BY <1>1, <1>4, <1>22, <2>1, RewrittenMeans
    <2>3. Redivided(cs, ix, u, r, qs)
      BY <1>20, <2>2
    <2> QED
      BY <2>3 DEF Redivided
  <1>24. Proper(r) /\ Proper(u)
    <2>1. Bounded(r)
      <3>1. Bounded(t) /\ Len(r) <= Len(t) /\ Letters(r) \subseteq Letters(t)
        BY <1>6, <1>7, <1>11, <1>13, <1>14 DEF Proper
      <3> QED
        BY <1>13, <3>1, BoundedPart
    <2>2. Bounded(u)
      BY <1>21 DEF Bounded
    <2>3. Letters(u) # {} /\ u # <<>>
      BY <1>1, <1>7, <1>19, <1>21, TextFacts
    <2> QED
      BY <1>11, <1>13, <2>1, <2>2, <2>3 DEF Proper
  <1>25. Letters(u) \union Letters(r) = Letters(s) \union Letters(t)
    BY <1>13, <1>19
  <1>26. Precede(Letters(u), Letters(r))
    BY <1>13, <1>18, <1>19 DEF Precede
  <1>27. \A c : LastIn(Letters(r), c) => LastIn(Letters(t), c)
    BY <1>13, <1>15, LastOfTwo
  <1>28. Told(u, cs[ix].path, Len(r))
    <2>1. PICK w \in 1 .. Len(s) : ~Blank(s[w]) /\ FirstIn(Letters(s), s[w])
      BY <1>6, <1>7, FirstPlace
    <2>2. Right(cs[ix].path, s[w][1])
      <3>1. FirstRight(cs[ix].path, s)
        BY <1>1, <1>5 DEF LoopSound
      <3> QED
        BY <2>1, <3>1 DEF FirstRight
    <2>3. s[w] \in Letters(u)
      BY <1>19, <2>1 DEF FirstIn
    <2> QED
      BY <1>14, <1>19, <1>21, <2>2, <2>3, ToldWhenLong
  <1>30. Following(qs, ix) = Len(r)
    BY <1>2, <1>23 DEF Following
  <1>31. PICK iy : iy = ix + 1
    OBVIOUS
  <1>32. ix <= iy
    BY <1>1, <1>31
  <1>33. FirstRight(qs[iy].path, qs[iy].text)
    <2>1. AllRight(cs[ix + 1].path, t)
      BY <1>4, <1>5 DEF LoopSound
    <2>2. AllRight(cs[ix + 1].path, r)
      BY <1>13, <2>1 DEF AllRight
    <2> QED
      BY <1>23, <1>31, <2>2, AllFirstRight
  <1>34. LoopSound(qs, iy)
    <2>1. Proper(qs[ix].text) /\ Proper(qs[ix + 1].text) /\ Len(qs[ix].text) >= Minimum /\ Len(qs[ix + 1].text) >= Minimum
      BY <1>21, <1>23, <1>24
    <2>2. /\ Letters(qs[ix].text) \union Letters(qs[ix + 1].text) = Letters(cs[ix].text) \union Letters(cs[ix + 1].text)
          /\ InOrder(qs[ix].text) /\ InOrder(qs[ix + 1].text)
          /\ Precede(Letters(qs[ix].text), Letters(qs[ix + 1].text))
          /\ \A c : LastIn(Letters(qs[ix + 1].text), c) => LastIn(Letters(cs[ix + 1].text), c)
      BY <1>5, <1>13, <1>19, <1>23, <1>25, <1>26, <1>27
    <2>3. Told(qs[ix].text, qs[ix].path, Following(qs, ix))
      BY <1>23, <1>28, <1>30
    <2>4. ~(iy = ix + 2)
      BY <1>1, <1>31
    <2> QED
      BY <1>4, <1>23, <1>31, <1>32, <1>33, <2>1, <2>2, <2>3, <2>4, BorrowSound
  <1>35. chunks' = qs /\ index' = iy
    BY <1>22, <1>31 DEF BorrowAfter
  <1> QED
    BY <1>34, <1>35


\* What is said about passages is about the page and the setting, which stay.
LEMMA SamePage ==
    ASSUME document' = document, setting' = setting
    PROVE  /\ Given' = Given /\ Size' = Size /\ Minimum' = Minimum /\ Everything' = Everything
           /\ Headings' = Headings /\ Nested' = Nested
  <1>1. Headings' = Headings
    BY DEF Headings
  <1>2. \A b : Enclosing(b)' = Enclosing(b)
    BY <1>1 DEF Enclosing
  <1>3. Nested' = Nested
    BY <1>1, <1>2 DEF Nested
  <1>4. \A b : Block(b)' = Block(b)
    BY DEF Block
  <1>5. Everything' = Everything
    BY <1>4 DEF Everything
  <1> QED
    BY <1>1, <1>3, <1>5 DEF Given, Size, Minimum

LEMMA SameWords ==
    ASSUME document' = document, setting' = setting, NEW CONSTANT t, NEW CONSTANT path, NEW CONSTANT n
    PROVE  /\ Bounded(t)' = Bounded(t) /\ Proper(t)' = Proper(t)
           /\ Names(path, n)' = Names(path, n) /\ Right(path, n)' = Right(path, n)
  <1>1. Headings' = Headings /\ Size' = Size /\ Nested' = Nested
    BY SamePage
  <1>2. Bounded(t)' = Bounded(t)
    BY <1>1 DEF Bounded
  <1>3. Proper(t)' = Proper(t)
    BY <1>1, <1>2 DEF Proper
  <1>4. Names(path, n)' = Names(path, n)
    BY <1>1 DEF Names, Enclosing
  <1>5. Right(path, n)' = Right(path, n)
    BY <1>1, <1>4 DEF Right
  <1> QED
    BY <1>2, <1>3, <1>4, <1>5

LEMMA SameLoop ==
    ASSUME document' = document, setting' = setting, NEW CONSTANT cs, NEW CONSTANT ix, LoopSound(cs, ix)
    PROVE  LoopSound(cs, ix)'
  <1>1. Everything' = Everything /\ Size' = Size /\ Minimum' = Minimum
    BY SamePage
  <1>2. \A t : Proper(t)' = Proper(t)
    BY SameWords
  <1>3. \A path, n : Right(path, n)' = Right(path, n)
    BY SameWords
  <1>4. \A path, t : AllRight(path, t)' = AllRight(path, t)
    BY <1>3 DEF AllRight
  <1>5. \A path, t : FirstRight(path, t)' = FirstRight(path, t)
    BY <1>3 DEF FirstRight
  <1>6. \A path, t : LastRight(path, t)' = LastRight(path, t)
    BY <1>3 DEF LastRight
  <1>7. \A path, t, n : Told(t, path, n)' = Told(t, path, n)
    BY <1>1, <1>3 DEF Told
  <1>8. \A k : Following(cs, k)' = Following(cs, k)
    BY <1>1 DEF Following
  <1> QED
    BY <1>1, <1>2, <1>4, <1>5, <1>6, <1>7, <1>8 DEF LoopSound

LoopInv == Given /\ \E cs, ix : chunks = cs /\ index = ix /\ LoopSound(cs, ix)

LEMMA LoopInit ==
    ASSUME ChunkingInit
    PROVE  LoopInv
  <1>1. Given
    BY DEF ChunkingInit, Given
  <1>2. PICK list : list = Pack(Units)
    OBVIOUS
  <1>3. chunks = list /\ index = 1
    BY <1>2 DEF ChunkingInit
  <1>4. PassageList(list, Everything)
    BY <1>1, <1>2, UnitsSound, PackSound
  <1>5. LoopSound(list, 1)
    BY <1>1, <1>4, LoopStart
  <1> QED
    BY <1>1, <1>3, <1>5 DEF LoopInv

LEMMA LoopNext ==
    ASSUME LoopInv, MergeBefore \/ MergeAfter \/ BorrowBefore \/ BorrowAfter \/ Keep
    PROVE  LoopInv'
  <1>1. PICK cs, ix : cs = chunks /\ ix = index /\ LoopSound(cs, ix)
    BY DEF LoopInv
  <1>2. Given
    BY DEF LoopInv
  <1>3. document' = document /\ setting' = setting
    BY DEF MergeBefore, MergeAfter, BorrowBefore, BorrowAfter, Keep, inputs
  <1>4. \E qs, iy : chunks' = qs /\ index' = iy /\ LoopSound(qs, iy)
    <2>1. CASE Keep
      <3>1. LoopSound(cs, ix + 1)
        BY <1>1, <1>2, <2>1, KeepSound
      <3>2. chunks' = cs /\ index' = ix + 1
        BY <1>1, <2>1 DEF Keep
      <3> QED
        BY <3>1, <3>2
    <2> QED
      BY <1>1, <1>2, <2>1, MergeBeforeSound, MergeAfterSound, BorrowBeforeSound, BorrowAfterSound
  <1>5. PICK qs, iy : chunks' = qs /\ index' = iy /\ LoopSound(qs, iy)
    BY <1>4
  <1>6. LoopSound(qs, iy)'
    BY <1>3, <1>5, SameLoop
  <1>7. Given'
    BY <1>2, <1>3, SamePage
  <1> QED
    BY <1>5, <1>6, <1>7 DEF LoopInv

-----------------------------------------------------------------------------
(* Chunking: context *)

\* The letters of one text are the last ones of another.
IsEnd(s, t) == Letters(s) \subseteq Letters(t) /\ Precede(Letters(t) \ Letters(s), Letters(s))

LEMMA EndOfEnd ==
    ASSUME NEW s, NEW t, NEW u, IsEnd(s, t), IsEnd(t, u)
    PROVE  IsEnd(s, u)
  BY DEF IsEnd, Precede

LEMMA SliceEnds ==
    ASSUME NEW t \in Text, InOrder(t), NEW i \in 0 .. Len(t)
    PROVE  /\ SubSeq(t, i + 1, Len(t)) \in Text /\ InOrder(SubSeq(t, i + 1, Len(t)))
           /\ Len(SubSeq(t, i + 1, Len(t))) = Len(t) - i /\ IsEnd(SubSeq(t, i + 1, Len(t)), t)
  <1> DEFINE x == SubSeq(t, 1, i)
             y == SubSeq(t, i + 1, Len(t))
  <1>1. /\ x \in Text /\ y \in Text /\ Len(y) = Len(t) - i
        /\ Letters(x) \union Letters(y) = Letters(t)
        /\ InOrder(y) /\ Precede(Letters(x), Letters(y))
    BY CutInTwo
  <1> HIDE DEF x, y
  <1>2. Letters(t) \ Letters(y) \subseteq Letters(x) /\ Letters(y) \subseteq Letters(t)
    BY <1>1
  <1>3. IsEnd(y, t)
    BY <1>1, <1>2 DEF IsEnd, Precede
  <1> QED
    BY <1>1, <1>3 DEF y

LEMMA StripEnds ==
    ASSUME NEW t \in Text, InOrder(t)
    PROVE  Strip(t) \in Text /\ InOrder(Strip(t)) /\ Len(Strip(t)) <= Len(t) /\ IsEnd(Strip(t), t)
  <1>1. Strip(t) \in Text /\ Letters(Strip(t)) = Letters(t) /\ Len(Strip(t)) <= Len(t) /\ InOrder(Strip(t))
    BY StripKeeps
  <1> QED
    BY <1>1 DEF IsEnd, Precede

LEMMA ContextEnds ==
    ASSUME NEW t \in Text, InOrder(t), NEW n \in Nat, n > 0, n < Len(t)
    PROVE  /\ ContextSuffix(t, n) \in Text /\ InOrder(ContextSuffix(t, n)) /\ Len(ContextSuffix(t, n)) <= n
           /\ IsEnd(ContextSuffix(t, n), t)
  <1>1. Len(t) \in Nat
    BY TextFacts
  <1>2. PICK i \in 0 .. Len(t) : i = Len(t) - n
    BY <1>1
  <1>3. PICK s : s = SubSeq(t, i + 1, Len(t))
    OBVIOUS
  <1>4. s \in Text /\ InOrder(s) /\ Len(s) = n /\ IsEnd(s, t)
    <2>1. s \in Text /\ InOrder(s) /\ Len(s) = Len(t) - i /\ IsEnd(s, t)
      BY <1>3, SliceEnds
    <2>2. Len(t) - i = n
      BY <1>1, <1>2
    <2> QED
      BY <2>1, <2>2
  <1>5. PICK c : c = Strip(s)
    OBVIOUS
  <1>6. c \in Text /\ InOrder(c) /\ Len(c) <= n /\ IsEnd(c, t)
    BY <1>4, <1>5, StripEnds, EndOfEnd
  <1>7. s = SubSeq(t, Len(t) - n + 1, Len(t))
    BY <1>2, <1>3
  <1> DEFINE spaces == {k \in DOMAIN c : c[k] = Space}
  <1>8. CASE spaces = {}
    <2>1. ContextSuffix(t, n) = c
      BY <1>5, <1>7, <1>8 DEF ContextSuffix
    <2> QED
      BY <1>6, <2>1
  <1>9. CASE spaces # {}
    <2>1. Len(c) \in Nat /\ DOMAIN c = 1 .. Len(c)
      BY <1>6, TextFacts
    <2>2. spaces \in SUBSET Nat /\ spaces \subseteq 1 .. Len(c)
      BY <2>1
    <2>3. PICK m : m = Min(spaces)
      OBVIOUS
    <2>4. m \in spaces
      <3> HIDE DEF spaces
      <3> QED
        BY <1>9, <2>2, <2>3, SmallestNumber
    <2>5. m \in 0 .. Len(c)
      BY <2>1, <2>2, <2>4
    <2>6. PICK r : r = SubSeq(c, m + 1, Len(c))
      OBVIOUS
    <2>7. r \in Text /\ InOrder(r) /\ Len(r) = Len(c) - m /\ IsEnd(r, t)
      BY <1>6, <2>5, <2>6, SliceEnds, EndOfEnd
    <2>8. ContextSuffix(t, n) = Strip(r)
      BY <1>5, <1>7, <1>9, <2>3, <2>6 DEF ContextSuffix
    <2>9. Strip(r) \in Text /\ InOrder(Strip(r)) /\ Len(Strip(r)) <= Len(r) /\ IsEnd(Strip(r), t)
      BY <2>7, StripEnds, EndOfEnd
    <2>10. Len(Strip(r)) <= n
      <3>1. Len(Strip(r)) \in Nat /\ Len(r) \in Nat
        BY <2>7, <2>9, TextFacts
      <3> QED
        BY <1>6, <2>1, <2>5, <2>7, <2>9, <3>1
    <2> QED
      BY <2>8, <2>9, <2>10
  <1> QED
    BY <1>8, <1>9

\* A text has no more letters than characters.
LEMMA LettersCounted ==
    ASSUME NEW t \in Text
    PROVE  IsFiniteSet(Letters(t)) /\ Cardinality(Letters(t)) <= Len(t)
  <1> DEFINE places == {i \in DOMAIN t : ~Blank(t[i])}
             f == [i \in places |-> t[i]]
  <1>1. Len(t) \in Nat /\ DOMAIN t = 1 .. Len(t)
    BY TextFacts
  <1>2. IsFiniteSet(1 .. Len(t)) /\ Cardinality(1 .. Len(t)) = Len(t)
    <2>1. PICK N \in Nat : N = Len(t)
      BY <1>1
    <2>2. 1 \in Int /\ N \in Int
      OBVIOUS
    <2>3. IsFiniteSet(1 .. N) /\ Cardinality(1 .. N) = IF 1 > N THEN 0 ELSE N - 1 + 1
      BY <2>2, FS_Interval
    <2>4. (IF 1 > N THEN 0 ELSE N - 1 + 1) = N
      OBVIOUS
    <2> QED
      BY <2>1, <2>3, <2>4
  <1>3. places \in SUBSET (1 .. Len(t))
    BY <1>1
  <1>4. IsFiniteSet(places) /\ Cardinality(places) <= Len(t)
    <2> HIDE DEF places
    <2> QED
      BY <1>2, <1>3, FS_Subset
  <1>5. f \in Surjection(places, Letters(t))
    BY DEF Letters, Surjection
  <1>6. IsFiniteSet(Letters(t)) /\ Cardinality(Letters(t)) <= Cardinality(places)
    <2> HIDE DEF places, f
    <2> QED
      BY <1>4, <1>5, FS_Surjection
  <1>7. Cardinality(places) \in Nat /\ Cardinality(Letters(t)) \in Nat
    BY <1>4, <1>6, FS_CardinalityType
  <1> QED
    BY <1>1, <1>4, <1>6, <1>7

LEMMA MinOfThree ==
    ASSUME NEW a \in Int, NEW b \in Int, NEW c \in Int
    PROVE  /\ Min({a, b, c}) \in Int /\ Min({a, b, c}) <= a /\ Min({a, b, c}) <= b /\ Min({a, b, c}) <= c
  <1>1. \E x \in {a, b, c} : \A y \in {a, b, c} : x <= y
    OBVIOUS
  <1>2. Min({a, b, c}) \in {a, b, c} /\ \A y \in {a, b, c} : Min({a, b, c}) <= y
    BY <1>1 DEF Min
  <1> QED
    BY <1>2

\* The text of a passage with its context.
Contextual(cs, i, t) ==
    /\ t \in Text /\ InOrder(t) /\ Bounded(t) /\ Letters(cs[i].text) \subseteq Letters(t)
    /\ Letters(t) # Letters(cs[i].text) =>
          /\ i > 1 /\ Letters(t) \ Letters(cs[i].text) \subseteq Letters(cs[i - 1].text)
          /\ Precede(Letters(cs[i - 1].text) \ (Letters(t) \ Letters(cs[i].text)), Letters(t) \ Letters(cs[i].text))
    /\ IsFiniteSet(Letters(t) \ Letters(cs[i].text))
    /\ Cardinality(Letters(t) \ Letters(cs[i].text)) <= setting.overlap
    /\ Letters(cs[i].text) = {} => Letters(t) = {}

LEMMA ContextSound ==
    ASSUME Given, NEW cs, NEW ix, cs = chunks, LoopSound(cs, ix), NEW i \in 1 .. Len(cs)
    PROVE  Contextual(cs, i, WithContext(i))
  <1> DEFINE budget == Min({setting.overlap, Size - Len(chunks[i].text) - 2, Len(chunks[i - 1].text) - 1})
  <1>1. PICK t \in Text : t = cs[i].text
    BY LoopPlaces
  <1>2. InOrder(t) /\ Bounded(t) /\ Len(t) \in Nat /\ Letters(t) \in SUBSET Characters
    BY <1>1, LoopPlaces DEF LoopSound, Proper
  <1>3. i \in Nat /\ setting.overlap \in Nat /\ Size \in Nat
    BY SettingGiven, LoopPlaces
  <1>4. CASE i = 1 \/ budget <= 0
    <2>1. WithContext(i) = t
      BY <1>1, <1>4 DEF WithContext
    <2>2. Letters(t) \ Letters(t) = {}
      OBVIOUS
    <2>3. IsFiniteSet({}) /\ Cardinality({}) <= setting.overlap
      BY <1>3, FS_EmptySet
    <2> QED
      BY <1>1, <1>2, <2>1, <2>2, <2>3 DEF Contextual
  <1>5. CASE ~(i = 1 \/ budget <= 0)
    <2>1. i - 1 \in 1 .. Len(cs) /\ i - 1 < i /\ i > 1
      BY <1>3, <1>5, LoopPlaces
    <2>2. PICK b \in Text : b = cs[i - 1].text
      BY <2>1, LoopPlaces
    <2>3. InOrder(b) /\ Len(b) \in Nat /\ Precede(Letters(b), Letters(t)) /\ Letters(b) \in SUBSET Characters
      BY <1>1, <2>1, <2>2, LoopPlaces
    <2>4. PICK v, m : v = Size - Len(t) - 2 /\ m = Len(b) - 1
      OBVIOUS
    <2>5. v \in Int /\ m \in Int /\ setting.overlap \in Int
      BY <1>2, <1>3, <2>3, <2>4
    <2>6. PICK n : n = Min({setting.overlap, v, m})
      OBVIOUS
    <2>7. n \in Int /\ n <= setting.overlap /\ n <= v /\ n <= m
      BY <2>5, <2>6, MinOfThree
    <2>8. n = budget
      BY <1>1, <2>2, <2>4, <2>6
    <2>9. n \in Nat /\ n > 0 /\ n < Len(b)
      BY <1>5, <2>3, <2>4, <2>7, <2>8
    <2>10. PICK c : c = ContextSuffix(b, n)
      OBVIOUS
    <2>11. c \in Text /\ InOrder(c) /\ Len(c) <= n /\ IsEnd(c, b)
      BY <2>3, <2>9, <2>10, ContextEnds
    <2>12. PICK w : w = Joined(c, BlankLine, t)
      OBVIOUS
    <2>13. WithContext(i) = w
      BY <1>1, <1>5, <2>2, <2>8, <2>10, <2>12 DEF WithContext
    <2>14. Letters(c) \subseteq Letters(b) /\ Precede(Letters(b) \ Letters(c), Letters(c))
      BY <2>11 DEF IsEnd
    <2>15. Precede(Letters(c), Letters(t))
      BY <2>3, <2>14 DEF Precede
    <2>16. PICK gap \in Text : gap = BlankLine
      BY BlankTexts
    <2>17. Letters(gap) = {}
      BY <2>16, BlankTexts
    <2>18. w \in Text /\ Letters(w) = Letters(c) \union Letters(t)
      <3>1. Joined(c, gap, t) \in Text
        BY <2>11, <2>17, JoinedMeans
      <3>2. Letters(Joined(c, gap, t)) = Letters(c) \union Letters(t)
        BY <2>11, <2>17, JoinedMeans
      <3> QED
        BY <2>12, <2>16, <3>1, <3>2
    <2>19. InOrder(w)
      <3>1. InOrder(Joined(c, gap, t))
        BY <1>2, <2>11, <2>15, <2>17, JoinedMeans
      <3> QED
        BY <2>12, <2>16, <3>1
    <2>20. Bounded(w)
      <3>1. CASE c = <<>>
        BY <1>2, <2>12, <3>1 DEF Joined
      <3>2. CASE c # <<>>
        <4>1. Len(Joined(c, gap, t)) = Len(c) + Len(gap) + Len(t)
          <5>1. PICK d \in Text : d = c
            BY <2>11
          <5>2. Len(Joined(d, gap, t)) = Len(d) + Len(gap) + Len(t)
            BY <2>17, <3>2, <5>1, JoinedMeans
          <5> QED
            BY <5>1, <5>2
        <4>2. Len(gap) = 2 /\ Len(c) \in Nat
          BY <2>11, <2>16, BlankTexts, TextFacts
        <4>3. Len(w) = Len(c) + 2 + Len(t)
          BY <2>12, <2>16, <4>1, <4>2
        <4>4. Len(w) <= Size
          BY <1>2, <1>3, <2>4, <2>7, <2>11, <4>2, <4>3
        <4> QED
          BY <4>4 DEF Bounded
      <3> QED
        BY <3>1, <3>2
    <2>21. Letters(w) \ Letters(t) = Letters(c)
      <3>1. ASSUME NEW x \in Letters(c), x \in Letters(t) PROVE FALSE
        <4>1. x \in Characters /\ Ahead(x, x)
          BY <1>2, <2>15, <3>1 DEF Precede
        <4> QED
          BY <4>1, AheadOfItself
      <3> QED
        BY <2>18, <3>1
    <2>22. IsFiniteSet(Letters(c)) /\ Cardinality(Letters(c)) <= setting.overlap
      <3>1. IsFiniteSet(Letters(c)) /\ Cardinality(Letters(c)) <= Len(c)
        BY <2>11, LettersCounted
      <3>2. Cardinality(Letters(c)) \in Nat /\ Len(c) \in Nat
        BY <2>11, <3>1, FS_CardinalityType, TextFacts
      <3> QED
        BY <1>3, <2>7, <2>11, <3>1, <3>2
    <2>23. Letters(t) # {}
      <3>1. Size > 1
        BY <1>2, <1>3, <2>4, <2>7, <2>9
      <3>2. Proper(t)
        BY <1>1 DEF LoopSound
      <3> QED
        BY <3>1, <3>2 DEF Proper
    <2>24. Contextual(cs, i, w)
      BY <1>1, <2>1, <2>2, <2>14, <2>18, <2>19, <2>20, <2>21, <2>22, <2>23 DEF Contextual
    <2> QED
      BY <2>13, <2>24
  <1> QED
    BY <1>4, <1>5


\* How the passages that say something are kept, one by one.
LEMMA KeptRead ==
    ASSUME Finish, Len(chunks) \in Nat
    PROVE  \E h : /\ h[0] = <<>>
                  /\ \A n \in 1 .. Len(chunks) : h[n] = IF Passage(n).text = <<>> THEN h[n - 1] ELSE Append(h[n - 1], Passage(n))
                  /\ passages' = h[Len(chunks)]
  <1> DEFINE X == Seq({Passage(i) : i \in 1 .. Len(chunks)})
             N == Len(chunks)
             after(n, g) == IF Passage(n).text = <<>> THEN g ELSE Append(g, Passage(n))
             Is(h) == h = [n \in 0 .. Len(chunks) |-> IF n = 0 THEN <<>> ELSE IF Passage(n).text = <<>> THEN h[n - 1] ELSE Append(h[n - 1], Passage(n))]
             Found == CHOOSE h : Is(h)
  <1>1. N \in Nat /\ <<>> \in X
    OBVIOUS
  <1>2. ASSUME NEW n \in 1 .. N, NEW g \in X PROVE after(n, g) \in X
    <2>1. PICK p \in {Passage(i) : i \in 1 .. Len(chunks)} : p = Passage(n)
      OBVIOUS
    <2>2. Append(g, p) \in X
      OBVIOUS
    <2> QED
      BY <2>1, <2>2
  <1>3. PICK step \in [1 .. N -> [X -> X]] : \A n \in 1 .. N : \A g \in X : step[n][g] = after(n, g)
    <2>1. [n \in 1 .. N |-> [g \in X |-> after(n, g)]] \in [1 .. N -> [X -> X]]
      <3> HIDE DEF X, N, after
      <3> QED
        BY <1>2
    <2> HIDE DEF X, N, after
    <2> QED
      BY <2>1
  <1>4. PICK f \in [0 .. N -> X] : Follows(f, N, <<>>, step)
    <2> HIDE DEF X, N
    <2> QED
      BY <1>1, RecursionDefines
  <1>5. ASSUME NEW n \in 1 .. N PROVE f[n] = after(n, f[n - 1])
    <2> HIDE DEF X, after
    <2>1. n - 1 \in 0 .. N
      BY <1>1
    <2> QED
      BY <1>3, <1>4, <2>1 DEF Follows
  <1>6. Is(f)
    <2>1. \A n \in 0 .. N : f[n] = IF n = 0 THEN <<>> ELSE after(n, f[n - 1])
      <3> HIDE DEF X, after
      <3> QED
        BY <1>1, <1>4, <1>5 DEF Follows
    <2> QED
      BY <1>4, <2>1
  <1>7. Is(Found)
    <2> HIDE DEF Is
    <2> QED
      BY <1>6
  <1>8. PICK h : h = Found /\ Is(h)
    <2> HIDE DEF Is
    <2> QED
      BY <1>7
  <1>9. passages' = h[N]
    BY <1>8 DEF Finish
  <1> HIDE DEF Found
  <1>10. h[0] = <<>>
    BY <1>1, <1>8
  <1>11. ASSUME NEW n \in 1 .. N PROVE h[n] = after(n, h[n - 1])
    <2>1. n \in 0 .. N /\ n # 0
      BY <1>1
    <2> QED
      BY <1>8, <2>1
  <1> QED
    BY <1>9, <1>10, <1>11

LEMMA PassageMeans ==
    ASSUME NEW i
    PROVE  Passage(i).sequence = i /\ Passage(i).text = Strip(WithContext(i)) /\ Passage(i).path = chunks[i].path
  BY DEF Passage

\* What Finish keeps.
Kept(list, n) ==
    /\ list \in Seq({Passage(i) : i \in 1 .. Len(chunks)})
    /\ \A m \in 1 .. Len(list) : \E i \in 1 .. n : list[m] = Passage(i) /\ Passage(i).text # <<>>
    /\ \A m, l \in 1 .. Len(list) : m < l => list[m].sequence < list[l].sequence
    /\ \A i \in 1 .. n : Passage(i).text # <<>> => \E m \in 1 .. Len(list) : list[m] = Passage(i)

LEMMA KeptMore ==
    ASSUME Len(chunks) \in Nat, NEW n \in 1 .. Len(chunks), NEW list, Kept(list, n - 1)
    PROVE  Kept(IF Passage(n).text = <<>> THEN list ELSE Append(list, Passage(n)), n)
  <1> DEFINE X == {Passage(i) : i \in 1 .. Len(chunks)}
  <1>1. /\ list \in Seq(X) /\ Len(list) \in Nat /\ n \in Nat
        /\ \A i \in 1 .. n - 1 : i \in 1 .. n /\ i < n
        /\ \A i \in 1 .. n : i \in 1 .. n - 1 \/ i = n
    BY DEF Kept
  <1>2. \A m \in 1 .. Len(list) : \E i \in 1 .. n - 1 : list[m] = Passage(i) /\ Passage(i).text # <<>>
    BY DEF Kept
  <1>3. \A m, l \in 1 .. Len(list) : m < l => list[m].sequence < list[l].sequence
    BY DEF Kept
  <1>4. \A i \in 1 .. n - 1 : Passage(i).text # <<>> => \E m \in 1 .. Len(list) : list[m] = Passage(i)
    BY DEF Kept
  <1>5. CASE Passage(n).text = <<>>
    BY <1>1, <1>2, <1>3, <1>4, <1>5 DEF Kept
  <1>6. CASE Passage(n).text # <<>>
    <2>1. PICK p \in X : p = Passage(n)
      OBVIOUS
    <2>2. PICK r \in Seq(X) : r = Append(list, p)
      <3> HIDE DEF X
      <3>1. PICK k \in Seq(X) : k = list
        BY <1>1
      <3>2. Append(k, p) \in Seq(X)
        OBVIOUS
      <3> QED
        BY <3>1, <3>2
    <2>3. Len(r) = Len(list) + 1 /\ r[Len(list) + 1] = p /\ \A m \in 1 .. Len(list) : r[m] = list[m]
      <3> HIDE DEF X
      <3> QED
        BY <1>1, <2>2
    <2>4. \A m \in 1 .. Len(r) : m \in 1 .. Len(list) \/ m = Len(list) + 1
      BY <1>1, <2>3
    <2>5. Len(list) + 1 \in 1 .. Len(r) /\ \A m \in 1 .. Len(list) : m \in 1 .. Len(r) /\ m < Len(list) + 1
      BY <1>1, <2>3
    <2> HIDE DEF X
    <2>6. ASSUME NEW m \in 1 .. Len(r) PROVE \E i \in 1 .. n : r[m] = Passage(i) /\ Passage(i).text # <<>>
      <3>1. CASE m \in 1 .. Len(list)
        BY <1>1, <1>2, <2>3, <3>1
      <3>2. CASE m = Len(list) + 1
        <4>1. n \in 1 .. n
          BY <1>1
        <4> QED
          BY <1>6, <2>1, <2>3, <3>2, <4>1
      <3> QED
        BY <2>4, <3>1, <3>2
    <2>7. ASSUME NEW m \in 1 .. Len(r), NEW l \in 1 .. Len(r), m < l PROVE r[m].sequence < r[l].sequence
      <3>1. CASE l \in 1 .. Len(list)
        <4>1. m \in 1 .. Len(list)
          BY <1>1, <2>7, <3>1
        <4> QED
          BY <1>3, <2>3, <2>7, <3>1, <4>1
      <3>2. CASE l = Len(list) + 1
        <4>1. m \in 1 .. Len(list)
          BY <1>1, <2>4, <2>7, <3>2
        <4>2. PICK i \in 1 .. n - 1 : list[m] = Passage(i)
          BY <1>2, <4>1
        <4>3. r[m].sequence = i /\ r[l].sequence = n
          BY <2>1, <2>3, <3>2, <4>1, <4>2, PassageMeans
        <4> QED
          BY <1>1, <4>3
      <3> QED
        BY <2>4, <3>1, <3>2
    <2>8. ASSUME NEW i \in 1 .. n, Passage(i).text # <<>> PROVE \E m \in 1 .. Len(r) : r[m] = Passage(i)
      <3>1. CASE i \in 1 .. n - 1
        BY <1>4, <2>3, <2>5, <2>8, <3>1
      <3>2. CASE i = n
        BY <2>1, <2>3, <2>5, <3>2
      <3> QED
        BY <1>1, <3>1, <3>2
    <2>9. Kept(r, n)
      BY <2>6, <2>7, <2>8 DEF Kept, X
    <2> QED
      BY <1>6, <2>1, <2>2, <2>9
  <1> QED
    BY <1>5, <1>6

LEMMA FinishKeeps ==
    ASSUME Finish, Len(chunks) \in Nat
    PROVE  Kept(passages', Len(chunks))
  <1> DEFINE N == Len(chunks)
  <1>1. PICK h : /\ h[0] = <<>>
                 /\ \A n \in 1 .. Len(chunks) : h[n] = IF Passage(n).text = <<>> THEN h[n - 1] ELSE Append(h[n - 1], Passage(n))
                 /\ passages' = h[Len(chunks)]
    BY KeptRead
  <1> DEFINE S == {n \in 0 .. N : Kept(h[n], n)}
  <1>2. 0 \in S
    <2>1. Kept(<<>>, 0)
      BY DEF Kept
    <2> QED
      BY <1>1, <2>1
  <1>3. ASSUME NEW n \in 1 .. N, n - 1 \in S PROVE n \in S
    <2>1. Kept(h[n], n)
      BY <1>1, <1>3, KeptMore
    <2> QED
      BY <2>1
  <1>4. 0 .. N \subseteq S
    <2>1. N \in Nat
      OBVIOUS
    <2> HIDE DEF S, N
    <2> QED
      BY <1>2, <1>3, <2>1, UpTo
  <1>5. N \in S
    BY <1>4
  <1> QED
    BY <1>1, <1>5

LEMMA PassageSound ==
    ASSUME Given, NEW cs, NEW ix, cs = chunks, LoopSound(cs, ix), ix > Len(cs), NEW i \in 1 .. Len(cs)
    PROVE  /\ Passage(i).text # <<>> => PassageFaithful(Passage(i))
           /\ Letters(cs[i].text) # {} => Passage(i).text # <<>>
  <1>1. PICK w : w = WithContext(i)
    OBVIOUS
  <1>2. Contextual(cs, i, w) /\ w \in Text
    BY <1>1, ContextSound DEF Contextual
  <1>3. PICK t : t = Strip(w)
    OBVIOUS
  <1>4. t \in Text /\ Letters(t) = Letters(w) /\ Len(t) <= Len(w) /\ InOrder(t) /\ (t # <<>> <=> Letters(t) # {})
    BY <1>2, <1>3, StripKeeps DEF Contextual
  <1>5. PICK p : p = Passage(i)
    OBVIOUS
  <1>6. p.sequence = i /\ p.text = t /\ p.path = cs[i].path
    BY <1>1, <1>3, <1>5, PassageMeans
  <1>7. Bounded(t)
    BY <1>2, <1>4, BoundedPart DEF Contextual
  <1>8. ContextOf(p) = Letters(w) \ Letters(cs[i].text)
    BY <1>4, <1>6 DEF ContextOf
  <1>9. ASSUME t # <<>> PROVE PassageFaithful(p)
    <2>1. Letters(cs[i].text) # {}
      BY <1>2, <1>4, <1>9 DEF Contextual
    <2>2. Nested => \E c \in Letters(cs[i].text) : Names(p.path, c[1])
      <3>1. Told(cs[i].text, cs[i].path, Following(cs, i))
        <4>1. i < ix
          BY LoopPlaces
        <4> QED
          BY <2>1, <4>1 DEF LoopSound
      <3>2. PICK v \in 1 .. Len(cs[i].text) : ~Blank(cs[i].text[v]) /\ Right(cs[i].path, cs[i].text[v][1])
        BY <3>1 DEF Told
      <3>3. cs[i].text[v] \in Letters(cs[i].text)
        <4>1. cs[i].text \in Text
          BY LoopPlaces
        <4> QED
          BY <3>2, <4>1, IsLetter
      <3> QED
        BY <1>6, <3>2, <3>3 DEF Right
    <2>3. ContextOf(p) # {} => /\ ContextOf(p) \subseteq Letters(cs[i - 1].text)
                               /\ Precede(Letters(cs[i - 1].text) \ ContextOf(p), ContextOf(p))
      <3>1. ContextOf(p) # {} => Letters(w) # Letters(cs[i].text)
        BY <1>8
      <3> QED
        BY <1>2, <1>8, <3>1 DEF Contextual
    <2>4. Cardinality(ContextOf(p)) <= setting.overlap
      BY <1>2, <1>8 DEF Contextual
    <2>5. Letters(cs[i].text) \subseteq Letters(p.text) /\ InOrder(p.text) /\ Bounded(p.text)
      BY <1>2, <1>4, <1>6, <1>7 DEF Contextual
    <2> QED
      BY <1>6, <2>2, <2>3, <2>4, <2>5 DEF PassageFaithful
  <1>10. Letters(cs[i].text) # {} => t # <<>>
    BY <1>2, <1>4 DEF Contextual
  <1> QED
    BY <1>5, <1>6, <1>9, <1>10

LEMMA SameFaithful ==
    ASSUME document' = document, setting' = setting, chunks' = chunks, NEW CONSTANT p
    PROVE  PassageFaithful(p)' = PassageFaithful(p)
  <1>1. Nested' = Nested
    BY SamePage
  <1>2. \A t : Bounded(t)' = Bounded(t)
    BY SameWords
  <1>3. \A path, n : Names(path, n)' = Names(path, n)
    BY SameWords
  <1>4. ContextOf(p)' = ContextOf(p)
    BY DEF ContextOf
  <1> QED
    BY <1>1, <1>2, <1>3, <1>4 DEF PassageFaithful

LEMMA FinishSound ==
    ASSUME LoopInv, Finish
    PROVE  PassagesFaithful'
  <1>1. PICK cs, ix : cs = chunks /\ ix = index /\ LoopSound(cs, ix)
    BY DEF LoopInv
  <1>2. Given
    BY DEF LoopInv
  <1>3. document' = document /\ setting' = setting /\ chunks' = chunks /\ ix > Len(cs)
    BY <1>1 DEF Finish
  <1>4. Len(cs) \in Nat /\ DOMAIN cs = 1 .. Len(cs) /\ cs \in Seq(SomeChunk) /\ Tell(Texts(cs), Everything)
    BY <1>1, LoopPlaces DEF LoopSound
  <1>5. PICK ps : ps = passages'
    OBVIOUS
  <1>6. Kept(ps, Len(cs))
    BY <1>1, <1>4, <1>5, FinishKeeps
  <1>7. DOMAIN ps = 1 .. Len(ps)
    BY <1>6 DEF Kept
  <1>8. \A i \in 1 .. Len(cs) : /\ Passage(i).text # <<>> => PassageFaithful(Passage(i))
                                /\ Letters(cs[i].text) # {} => Passage(i).text # <<>>
    BY <1>1, <1>2, <1>3, PassageSound
  <1>9. \A i \in DOMAIN cs : Letters(cs[i].text) # {} => \E n \in DOMAIN ps : ps[n].sequence = i
    <2>1. ASSUME NEW i \in 1 .. Len(cs), Letters(cs[i].text) # {} PROVE \E n \in 1 .. Len(ps) : ps[n].sequence = i
      <3>1. PICK n \in 1 .. Len(ps) : ps[n] = Passage(i)
        BY <1>6, <1>8, <2>1 DEF Kept
      <3> QED
        BY <3>1, PassageMeans
    <2> QED
      BY <1>4, <1>7, <2>1
  <1>10. \A m, n \in DOMAIN ps : m < n => ps[m].sequence < ps[n].sequence
    BY <1>6, <1>7 DEF Kept
  <1>11. \A n \in DOMAIN ps : PassageFaithful(ps[n])
    <2>1. ASSUME NEW n \in 1 .. Len(ps) PROVE PassageFaithful(ps[n])
      <3>1. PICK i \in 1 .. Len(cs) : ps[n] = Passage(i) /\ Passage(i).text # <<>>
        BY <1>6 DEF Kept
      <3> QED
        BY <1>8, <3>1
    <2> QED
      BY <1>7, <2>1
  <1>12. \A n \in DOMAIN ps : PassageFaithful(ps[n])'
    BY <1>3, <1>11, SameFaithful
  <1>13. Tell(Texts(cs), Everything)'
    <2>1. Everything' = Everything
      BY <1>3, SamePage
    <2> QED
      BY <1>4, <2>1
  <1> QED
    BY <1>1, <1>3, <1>5, <1>9, <1>10, <1>12, <1>13 DEF PassagesFaithful

\* Whatever the page and the setting: the passages hold every character of the
\* page once and in order, none is too long, the context of each is the end of
\* the one before, and its path is the path of something in it (PassagesFaithful).
THEOREM PassagesAreFaithful == ChunkingSpec => []PassagesFaithful
  <1> DEFINE Inv == LoopInv /\ PassagesFaithful
  <1>1. ChunkingInit => Inv
    BY LoopInit DEF ChunkingInit, PassagesFaithful
  <1>2. ASSUME Inv, [ChunkingNext]_chunkingVars PROVE Inv'
    <2>1. CASE MergeBefore \/ MergeAfter \/ BorrowBefore \/ BorrowAfter \/ Keep
      <3>1. LoopInv'
        BY <1>2, <2>1, LoopNext
      <3>2. passages = <<>> /\ passages' = passages
        BY <2>1 DEF MergeBefore, MergeAfter, BorrowBefore, BorrowAfter, Keep, Short, Looping, inputs
      <3> QED
        BY <3>1, <3>2 DEF PassagesFaithful
    <2>2. CASE Finish \/ UNCHANGED chunkingVars
      <3>1. document' = document /\ setting' = setting /\ chunks' = chunks /\ index' = index
        BY <2>2 DEF Finish, chunkingVars, inputs
      <3>2. LoopInv'
        <4>1. PICK cs, ix : chunks = cs /\ index = ix /\ LoopSound(cs, ix)
          BY <1>2 DEF LoopInv
        <4>2. LoopSound(cs, ix)'
          BY <3>1, <4>1, SameLoop
        <4>3. Given'
          BY <1>2, <3>1, SamePage DEF LoopInv
        <4> QED
          BY <3>1, <4>1, <4>2, <4>3 DEF LoopInv
      <3>3. PassagesFaithful'
        <4>1. CASE Finish
          BY <1>2, <4>1, FinishSound
        <4>2. CASE UNCHANGED chunkingVars
          <5>1. passages' = passages /\ Everything' = Everything
            BY <3>1, <4>2, SamePage DEF chunkingVars, inputs
          <5>2. \A p : PassageFaithful(p)' = PassageFaithful(p)
            BY <3>1, SameFaithful
          <5> QED
            BY <1>2, <3>1, <5>1, <5>2 DEF PassagesFaithful
        <4> QED
          BY <2>2, <4>1, <4>2
      <3> QED
        BY <3>2, <3>3
    <2> QED
      BY <1>2, <2>1, <2>2 DEF ChunkingNext
  <1> QED
    BY <1>1, <1>2, PTL DEF ChunkingSpec
=============================================================================
