------------------------ MODULE IngestionLeaseProofs ------------------------
(***************************************************************************)
(* Proofs about IngestionLease, for any set of jobs, executors and worker  *)
(* identities, any number of which may have wrong clocks.                  *)
(*                                                                         *)
(* TypeOK is inductive by itself. Single ownership is not: that two slots  *)
(* never hold a job follows from the claim versions they carry, so the     *)
(* invariant of the proofs is TypeOK /\ LeaseInv.                          *)
(***************************************************************************)
EXTENDS IngestionLease, TLAPS

-----------------------------------------------------------------------------
(* Type correctness                                                        *)

\* The initial rows and slots have their types.
LEMMA TypeInit == Init => TypeOK
  BY LeaseAssumption DEF Init, TypeOK, Statuses, Phases

\* Every repair of the maintenance keeps the types of what it clears.
LEMMA TypeReleaseRow ==
  ASSUME TypeOK, NEW j \in Jobs, ReleaseRow(j)
  PROVE  /\ worker' \in [Jobs -> WorkerIds \union {NoWorker}]
         /\ lease' \in [Jobs -> Phases]
         /\ version' \in [Jobs -> Nat]
         /\ stamped' \in [Jobs -> BOOLEAN]
         /\ claim' = claim
  BY DEF TypeOK, ReleaseRow, NextVersion, Phases

\* Every step keeps the types.
LEMMA TypeStep == TypeOK /\ [Next]_leaseVars => TypeOK'
<1> SUFFICES ASSUME TypeOK, [Next]_leaseVars
             PROVE  TypeOK'
  OBVIOUS
<1> USE DEF TypeOK
<1>1. ASSUME NEW e \in Executors, NEW j \in Jobs, Claim(e, j)
      PROVE  TypeOK'
  <2>1. WorkerOf[e] \in WorkerIds
    BY LeaseAssumption
  <2>2. version[j] + 1 \in Nat
    OBVIOUS
  <2>3. [job |-> j, version |-> version[j] + 1] \in Claims
    BY <2>2 DEF Claims
  <2>4. lease' \in [Jobs -> Phases]
    BY <1>1 DEF Claim, GrantedLease, Phases
  <2> QED
    BY <1>1, <2>1, <2>2, <2>3, <2>4 DEF Claim, NextVersion, Statuses
<1>2. ASSUME NEW e \in Executors, NEW j \in Jobs, Renew(e, j)
      PROVE  TypeOK'
  BY <1>2 DEF Renew, GrantedLease, Phases
<1>3. ASSUME NEW e \in Executors, NEW j \in Jobs, NEW outcome \in Terminal,
             Finish(e, j, outcome)
      PROVE  TypeOK'
  BY <1>3 DEF Finish, Terminal, Statuses, Phases
<1>4. ASSUME NEW e \in Executors, Leave(e)
      PROVE  TypeOK'
  BY <1>4 DEF Leave
<1>5. ASSUME NEW j \in Jobs, LeaseAges(j)
      PROVE  TypeOK'
  BY <1>5 DEF LeaseAges, Phases
<1>6. ASSUME NEW j \in Jobs, CompleteCommitted(j)
      PROVE  TypeOK'
  BY <1>6, TypeReleaseRow DEF CompleteCommitted, Statuses
<1>7. ASSUME NEW j \in Jobs, ResetQueued(j)
      PROVE  TypeOK'
  BY <1>7, TypeReleaseRow DEF ResetQueued, Statuses
<1>8. ASSUME NEW j \in Jobs, ClearOwnership(j)
      PROVE  TypeOK'
  BY <1>8, TypeReleaseRow DEF ClearOwnership
<1>9. CASE UNCHANGED leaseVars
  BY <1>9 DEF leaseVars
<1> QED
  BY <1>1, <1>2, <1>3, <1>4, <1>5, <1>6, <1>7, <1>8, <1>9 DEF Next

\* The job rows and the executors' claims keep their types in every behaviour.
THEOREM TypeCorrect == Spec => []TypeOK
  BY TypeInit, TypeStep, PTL DEF Spec

-----------------------------------------------------------------------------
(* Single ownership                                                        *)

\* A slot's claim, when it has one, names a job and a version of it.
LEMMA ClaimHasType ==
  ASSUME TypeOK, NEW e \in Executors, claim[e] # NoClaim
  PROVE  claim[e].job \in Jobs /\ claim[e].version \in Nat
  BY DEF TypeOK, Claims

\* No slot starts with a claim.
LEMMA LeaseInvInit == Init => LeaseInv
  BY DEF Init, LeaseInv, ClaimsBehindRow, ClaimsDistinct, CurrentClaimRecorded

\* A step that gives nobody a claim keeps the claims distinct.
LEMMA DistinctWhenClaimsShrink ==
  ASSUME ClaimsDistinct,
         \A e \in Executors : claim'[e] \in {claim[e], NoClaim}
  PROVE  ClaimsDistinct'
  BY DEF ClaimsDistinct

\* A repair raises the version of its row, so the claims on it are overtaken and
\* no other claim is touched.
LEMMA InvReleaseRow ==
  ASSUME TypeOK, LeaseInv, NEW j \in Jobs, ReleaseRow(j),
         \A i \in Jobs \ {j} : status'[i] = status[i]
  PROVE  LeaseInv'
<1>1. /\ claim' = claim
      /\ version'[j] = version[j] + 1
      /\ \A i \in Jobs \ {j} : version'[i] = version[i] /\ worker'[i] = worker[i]
  BY DEF ReleaseRow, NextVersion, TypeOK
<1>2. ClaimsBehindRow'
  <2> SUFFICES ASSUME NEW e \in Executors, claim[e] # NoClaim
               PROVE  claim[e].version <= version'[claim[e].job]
    BY <1>1 DEF ClaimsBehindRow
  <2>1. claim[e].job \in Jobs /\ claim[e].version \in Nat
    BY ClaimHasType
  <2>2. claim[e].version <= version[claim[e].job]
    BY DEF LeaseInv, ClaimsBehindRow
  <2>3. version \in [Jobs -> Nat]
    BY DEF TypeOK
  <2> QED
    BY <1>1, <2>1, <2>2, <2>3
<1>3. ClaimsDistinct'
  BY <1>1, DistinctWhenClaimsShrink DEF LeaseInv
<1>4. CurrentClaimRecorded'
  <2> SUFFICES ASSUME NEW e \in Executors, claim[e] # NoClaim,
                      claim[e].version = version'[claim[e].job]
               PROVE  \/ status'[claim[e].job] \in Terminal
                      \/ /\ status'[claim[e].job] = "running"
                         /\ worker'[claim[e].job] = WorkerOf[e]
    BY <1>1 DEF CurrentClaimRecorded
  <2>1. claim[e].job \in Jobs /\ claim[e].version \in Nat
    BY ClaimHasType
  <2>2. claim[e].version <= version[claim[e].job]
    BY DEF LeaseInv, ClaimsBehindRow
  <2>3. claim[e].job # j
    BY <1>1, <2>1, <2>2 DEF TypeOK
  <2> QED
    BY <1>1, <2>1, <2>3 DEF LeaseInv, CurrentClaimRecorded
<1> QED
  BY <1>2, <1>3, <1>4 DEF LeaseInv

\* Taking a job raises its version past every claim on it, then records the new
\* claim in the row.
LEMMA InvClaim ==
  ASSUME TypeOK, LeaseInv, NEW e \in Executors, NEW j \in Jobs, Claim(e, j)
  PROVE  LeaseInv'
<1> DEFINE next == version[j] + 1
<1>1. /\ version \in [Jobs -> Nat]
      /\ version' = [version EXCEPT ![j] = next]
      /\ claim' = [claim EXCEPT ![e] = [job |-> j, version |-> next]]
      /\ status' = [status EXCEPT ![j] = "running"]
      /\ worker' = [worker EXCEPT ![j] = WorkerOf[e]]
  BY DEF Claim, NextVersion, TypeOK
<1>2. /\ claim'[e].job = j /\ claim'[e].version = next
      /\ \A f \in Executors \ {e} : claim'[f] = claim[f]
      /\ version'[j] = next
      /\ \A i \in Jobs \ {j} : version'[i] = version[i]
      /\ status'[j] = "running" /\ worker'[j] = WorkerOf[e]
      /\ \A i \in Jobs \ {j} : status'[i] = status[i] /\ worker'[i] = worker[i]
  BY <1>1 DEF TypeOK
<1>3. ASSUME NEW f \in Executors \ {e}, claim[f] # NoClaim
      PROVE  /\ claim[f].job \in Jobs
             /\ claim[f].version \in Nat
             /\ claim[f].version <= version[claim[f].job]
             /\ claim[f].job = j => claim[f].version < next
  <2>1. claim[f].job \in Jobs /\ claim[f].version \in Nat
    BY <1>3, ClaimHasType
  <2>2. claim[f].version <= version[claim[f].job]
    BY <1>3 DEF LeaseInv, ClaimsBehindRow
  <2> QED
    BY <1>1, <2>1, <2>2
<1>4. next \in Nat
  BY <1>1
<1> HIDE DEF next
<1>5. ClaimsBehindRow'
  <2> SUFFICES ASSUME NEW f \in Executors, claim'[f] # NoClaim
               PROVE  claim'[f].version <= version'[claim'[f].job]
    BY DEF ClaimsBehindRow
  <2>1. CASE f = e
    BY <1>2, <1>4, <2>1
  <2>2. CASE f # e
    BY <1>2, <1>3, <1>4, <2>2
  <2> QED
    BY <2>1, <2>2
<1>6. ClaimsDistinct'
  <2> SUFFICES ASSUME NEW f \in Executors, NEW g \in Executors, f # g,
                      claim'[f] # NoClaim, claim'[g] # NoClaim,
                      claim'[f].job = claim'[g].job
               PROVE  claim'[f].version # claim'[g].version
    BY DEF ClaimsDistinct
  <2>1. CASE f = e
    BY <1>2, <1>3, <1>4, <2>1
  <2>2. CASE g = e
    BY <1>2, <1>3, <1>4, <2>2
  <2>3. CASE f # e /\ g # e
    BY <1>2, <2>3 DEF LeaseInv, ClaimsDistinct
  <2> QED
    BY <2>1, <2>2, <2>3
<1>7. CurrentClaimRecorded'
  <2> SUFFICES ASSUME NEW f \in Executors, claim'[f] # NoClaim,
                      claim'[f].version = version'[claim'[f].job]
               PROVE  \/ status'[claim'[f].job] \in Terminal
                      \/ /\ status'[claim'[f].job] = "running"
                         /\ worker'[claim'[f].job] = WorkerOf[f]
    BY DEF CurrentClaimRecorded
  <2>1. CASE f = e
    BY <1>2, <2>1
  <2>2. CASE f # e
    <3>1. claim[f].job # j
      BY <1>2, <1>3, <1>4, <2>2
    <3> QED
      BY <1>2, <1>3, <2>2, <3>1 DEF LeaseInv, CurrentClaimRecorded
  <2> QED
    BY <2>1, <2>2
<1> QED
  BY <1>5, <1>6, <1>7 DEF LeaseInv

\* Every step keeps the strengthened invariant.
LEMMA LeaseInvStep == TypeOK /\ LeaseInv /\ [Next]_leaseVars => LeaseInv'
<1> SUFFICES ASSUME TypeOK, LeaseInv, [Next]_leaseVars
             PROVE  LeaseInv'
  OBVIOUS
<1>1. ASSUME NEW e \in Executors, NEW j \in Jobs, Claim(e, j)
      PROVE  LeaseInv'
  BY <1>1, InvClaim
<1>2. ASSUME NEW e \in Executors, NEW j \in Jobs, Renew(e, j)
      PROVE  LeaseInv'
  BY <1>2 DEF Renew, LeaseInv, ClaimsBehindRow, ClaimsDistinct, CurrentClaimRecorded
<1>3. ASSUME NEW e \in Executors, NEW j \in Jobs, NEW outcome \in Terminal,
             Finish(e, j, outcome)
      PROVE  LeaseInv'
  <2>1. /\ version' = version
        /\ \A f \in Executors : claim'[f] \in {claim[f], NoClaim}
        /\ status'[j] \in Terminal
        /\ \A i \in Jobs \ {j} : status'[i] = status[i] /\ worker'[i] = worker[i]
    BY <1>3 DEF Finish, TypeOK
  <2>2. ClaimsBehindRow'
    BY <2>1 DEF LeaseInv, ClaimsBehindRow
  <2>3. ClaimsDistinct'
    BY <2>1, DistinctWhenClaimsShrink DEF LeaseInv
  <2>4. CurrentClaimRecorded'
    <3> SUFFICES ASSUME NEW f \in Executors, claim'[f] # NoClaim,
                        claim'[f].version = version'[claim'[f].job]
                 PROVE  \/ status'[claim'[f].job] \in Terminal
                        \/ /\ status'[claim'[f].job] = "running"
                           /\ worker'[claim'[f].job] = WorkerOf[f]
      BY DEF CurrentClaimRecorded
    <3>1. claim'[f] = claim[f] /\ claim[f].job \in Jobs
      BY <2>1, ClaimHasType
    <3>2. CASE claim[f].job = j
      BY <2>1, <3>1, <3>2
    <3>3. CASE claim[f].job # j
      BY <2>1, <3>1, <3>3 DEF LeaseInv, CurrentClaimRecorded
    <3> QED
      BY <3>2, <3>3
  <2> QED
    BY <2>2, <2>3, <2>4 DEF LeaseInv
<1>4. ASSUME NEW e \in Executors, Leave(e)
      PROVE  LeaseInv'
  <2>1. /\ \A f \in Executors : claim'[f] \in {claim[f], NoClaim}
        /\ UNCHANGED <<status, worker, version>>
    BY <1>4 DEF Leave, TypeOK
  <2> QED
    BY <2>1, DistinctWhenClaimsShrink DEF LeaseInv, ClaimsBehindRow, CurrentClaimRecorded
<1>5. ASSUME NEW j \in Jobs, LeaseAges(j)
      PROVE  LeaseInv'
  BY <1>5 DEF LeaseAges, LeaseInv, ClaimsBehindRow, ClaimsDistinct, CurrentClaimRecorded
<1>6. ASSUME NEW j \in Jobs, CompleteCommitted(j)
      PROVE  LeaseInv'
  <2>1. \A i \in Jobs \ {j} : status'[i] = status[i]
    BY <1>6 DEF CompleteCommitted, TypeOK
  <2> QED
    BY <1>6, <2>1, InvReleaseRow DEF CompleteCommitted
<1>7. ASSUME NEW j \in Jobs, ResetQueued(j)
      PROVE  LeaseInv'
  <2>1. \A i \in Jobs \ {j} : status'[i] = status[i]
    BY <1>7 DEF ResetQueued, TypeOK
  <2> QED
    BY <1>7, <2>1, InvReleaseRow DEF ResetQueued
<1>8. ASSUME NEW j \in Jobs, ClearOwnership(j)
      PROVE  LeaseInv'
  BY <1>8, InvReleaseRow DEF ClearOwnership
<1>9. CASE UNCHANGED leaseVars
  BY <1>9 DEF leaseVars, LeaseInv, ClaimsBehindRow, ClaimsDistinct, CurrentClaimRecorded
<1> QED
  BY <1>1, <1>2, <1>3, <1>4, <1>5, <1>6, <1>7, <1>8, <1>9 DEF Next

\* Claims never run ahead of their row, never coincide, and the latest claim of
\* a running row is the one the row records.
THEOREM LeaseInvariant == Spec => []LeaseInv
<1>1. Init => TypeOK /\ LeaseInv
  BY TypeInit, LeaseInvInit
<1>2. TypeOK /\ LeaseInv /\ [Next]_leaseVars => (TypeOK /\ LeaseInv)'
  BY TypeStep, LeaseInvStep
<1> QED
  BY <1>1, <1>2, PTL DEF Spec

\* The conjunction that every step keeps.
THEOREM InductiveInvariant == Spec => []IInv
  BY TypeCorrect, LeaseInvariant, PTL DEF IInv

\* Whatever the clocks and however worker identities are shared, at most one
\* execution can write a job at any moment.
THEOREM SingleOwner == Spec => []OneEffectiveOwner
<1>1. LeaseInv => OneEffectiveOwner
  BY DEF LeaseInv, ClaimsDistinct, OneEffectiveOwner, Holds
<1> QED
  BY <1>1, LeaseInvariant, PTL

-----------------------------------------------------------------------------
(* What a step may never do                                                *)

\* No step changes the outcome of a job that is completed or failed.
LEMMA TerminalStep ==
  TypeOK /\ [Next]_leaseVars =>
     [\A j \in Jobs : status[j] \in Terminal => status'[j] = status[j]]_leaseVars
<1> SUFFICES ASSUME TypeOK, Next, NEW k \in Jobs, status[k] \in Terminal
             PROVE  status'[k] = status[k]
  OBVIOUS
<1>1. ASSUME NEW e \in Executors, NEW j \in Jobs, Claim(e, j)
      PROVE  status'[k] = status[k]
  BY <1>1 DEF Claim, Claimable, TypeOK, Terminal
<1>2. ASSUME NEW e \in Executors, NEW j \in Jobs, Renew(e, j)
      PROVE  status'[k] = status[k]
  BY <1>2 DEF Renew
<1>3. ASSUME NEW e \in Executors, NEW j \in Jobs, NEW outcome \in Terminal,
             Finish(e, j, outcome)
      PROVE  status'[k] = status[k]
  BY <1>3 DEF Finish, Fenced, Holds, TypeOK, Terminal
<1>4. ASSUME NEW e \in Executors, Leave(e)
      PROVE  status'[k] = status[k]
  BY <1>4 DEF Leave
<1>5. ASSUME NEW j \in Jobs,
             LeaseAges(j) \/ CompleteCommitted(j) \/ ResetQueued(j) \/ ClearOwnership(j)
      PROVE  status'[k] = status[k]
  BY <1>5 DEF LeaseAges, CompleteCommitted, ResetQueued, ClearOwnership, StaleRunning,
              TypeOK, Terminal
<1> QED
  BY <1>1, <1>2, <1>3, <1>4, <1>5 DEF Next

\* A completed or failed job keeps its outcome for ever.
THEOREM TerminalOutcome == Spec => TerminalIsFinal
  BY TypeCorrect, TerminalStep, PTL DEF Spec, TerminalIsFinal

\* The fence of a claim follows the columns of its row and the slot's claim.
LEMMA FencedDependsOnRow ==
  ASSUME NEW e \in Executors, NEW j \in Jobs,
         status'[j] = status[j], worker'[j] = worker[j], lease'[j] = lease[j],
         version'[j] = version[j], claim'[e] = claim[e]
  PROVE  Fenced(e, j)' <=> Fenced(e, j)
  BY DEF Fenced, Holds

\* A claim whose row has got a new version, a final status or a lease that is
\* not live cannot write.
LEMMA FenceFails ==
  ASSUME TypeOK, LeaseInv, NEW e \in Executors, NEW j \in Jobs,
         claim[e] # NoClaim, claim[e].job = j, claim'[e] = claim[e],
         \/ version'[j] = version[j] + 1
         \/ status'[j] # "running"
         \/ lease'[j] # "live"
  PROVE  ~Fenced(e, j)'
<1>1. claim[e].version \in Nat /\ version[j] \in Nat
  BY ClaimHasType DEF TypeOK
<1>2. claim[e].version <= version[j]
  BY DEF LeaseInv, ClaimsBehindRow
<1> QED
  BY <1>1, <1>2 DEF Fenced, Holds

\* No step gives a claim back the right to write, on a process whose clock agrees
\* with the database.
LEMMA LostStep ==
  TypeOK /\ LeaseInv /\ OneEffectiveOwner /\ [Next]_leaseVars =>
     [\A e \in Executors \ Skewed, j \in Jobs :
          /\ claim[e] # NoClaim
          /\ claim[e].job = j
          /\ ~Fenced(e, j)
          /\ claim'[e] = claim[e]
          => ~Fenced(e, j)']_leaseVars
<1> SUFFICES ASSUME TypeOK, LeaseInv, OneEffectiveOwner, Next,
                    NEW e \in Executors \ Skewed, NEW j \in Jobs,
                    claim[e] # NoClaim, claim[e].job = j,
                    ~Fenced(e, j), claim'[e] = claim[e]
             PROVE  ~Fenced(e, j)'
  OBVIOUS
<1>1. ASSUME NEW f \in Executors, NEW i \in Jobs, Claim(f, i)
      PROVE  ~Fenced(e, j)'
  <2>1. CASE i = j
    <3>1. version'[j] = version[j] + 1
      BY <1>1, <2>1 DEF Claim, NextVersion, TypeOK
    <3> QED
      BY <3>1, FenceFails
  <2>2. CASE i # j
    BY <1>1, <2>2, FencedDependsOnRow DEF Claim, NextVersion, TypeOK
  <2> QED
    BY <2>1, <2>2
<1>2. ASSUME NEW f \in Executors, NEW i \in Jobs, Renew(f, i)
      PROVE  ~Fenced(e, j)'
  <2>1. CASE i = j /\ Holds(e, j)
    <3>1. f = e
      BY <1>2, <2>1 DEF Renew, OneEffectiveOwner
    <3> QED
      BY <1>2, <2>1, <3>1 DEF Renew, SeesLive, Fenced
  <2>2. CASE i = j /\ ~Holds(e, j)
    BY <1>2, <2>2 DEF Renew, Fenced, Holds
  <2>3. CASE i # j
    BY <1>2, <2>3, FencedDependsOnRow DEF Renew, TypeOK
  <2> QED
    BY <2>1, <2>2, <2>3
<1>3. ASSUME NEW f \in Executors, NEW i \in Jobs, NEW outcome \in Terminal,
             Finish(f, i, outcome)
      PROVE  ~Fenced(e, j)'
  <2>1. CASE i = j
    <3>1. status'[j] # "running"
      BY <1>3, <2>1 DEF Finish, TypeOK, Terminal
    <3> QED
      BY <3>1, FenceFails
  <2>2. CASE i # j
    BY <1>3, <2>2, FencedDependsOnRow DEF Finish, TypeOK
  <2> QED
    BY <2>1, <2>2
<1>4. ASSUME NEW f \in Executors, Leave(f)
      PROVE  ~Fenced(e, j)'
  BY <1>4, FencedDependsOnRow DEF Leave
<1>5. ASSUME NEW i \in Jobs, LeaseAges(i)
      PROVE  ~Fenced(e, j)'
  <2>1. CASE i = j
    <3>1. lease'[j] # "live"
      BY <1>5, <2>1 DEF LeaseAges, TypeOK
    <3> QED
      BY <3>1, FenceFails
  <2>2. CASE i # j
    BY <1>5, <2>2, FencedDependsOnRow DEF LeaseAges, TypeOK
  <2> QED
    BY <2>1, <2>2
<1>6. ASSUME NEW i \in Jobs, CompleteCommitted(i) \/ ResetQueued(i) \/ ClearOwnership(i)
      PROVE  ~Fenced(e, j)'
  <2>1. /\ ReleaseRow(i)
        /\ i # j => status'[j] = status[j]
    BY <1>6 DEF CompleteCommitted, ResetQueued, ClearOwnership, TypeOK
  <2>2. CASE i = j
    <3>1. version'[j] = version[j] + 1
      BY <2>1, <2>2 DEF ReleaseRow, NextVersion, TypeOK
    <3> QED
      BY <3>1, FenceFails
  <2>3. CASE i # j
    BY <2>1, <2>3, FencedDependsOnRow DEF ReleaseRow, NextVersion, TypeOK
  <2> QED
    BY <2>2, <2>3
<1> QED
  BY <1>1, <1>2, <1>3, <1>4, <1>5, <1>6 DEF Next

\* A claim that has lost the right to write its job has lost it for good, on a
\* process whose clock agrees with the database.
THEOREM LostForGood == Spec => LostClaimStaysLost
  BY TypeCorrect, LeaseInvariant, SingleOwner, LostStep, PTL DEF Spec, LostClaimStaysLost

\* No step takes a job from an execution whose lease is live, but for a claim by
\* a process whose clock runs ahead.
LEMMA ExclusiveStep ==
  TypeOK /\ LeaseInv /\ OneEffectiveOwner /\ [Next]_leaseVars =>
     [\A e \in Executors, j \in Jobs :
          Fenced(e, j) =>
             \/ Fenced(e, j)'
             \/ claim'[e] = NoClaim
             \/ lease'[j] = "expired"
             \/ \E f \in Skewed : claim'[f] # claim[f]]_leaseVars
<1> SUFFICES ASSUME TypeOK, OneEffectiveOwner, Next,
                    NEW e \in Executors, NEW j \in Jobs, Fenced(e, j),
                    claim'[e] # NoClaim, lease'[j] # "expired",
                    \A f \in Skewed : claim'[f] = claim[f]
             PROVE  Fenced(e, j)'
  OBVIOUS
<1> USE LeaseAssumption
<1>0. /\ claim[e] # NoClaim /\ claim[e].job = j
      /\ status[j] = "running" /\ lease[j] = "live"
  BY DEF Fenced, Holds
<1>1. ASSUME NEW f \in Executors, NEW i \in Jobs, Claim(f, i)
      PROVE  Fenced(e, j)'
  <2>1. e # f
    BY <1>0, <1>1 DEF Claim
  <2>2. i # j
    <3>1. ASSUME i = j
          PROVE  FALSE
      <4>1. f \in Skewed
        BY <1>0, <1>1, <3>1 DEF Claim, Claimable, SeesExpired
      <4>2. claim'[f] = [job |-> j, version |-> version[j] + 1] /\ claim[f] = NoClaim
        BY <1>1, <3>1 DEF Claim, NextVersion, TypeOK
      <4>3. claim'[f] \in [job : Jobs, version : Nat]
        BY <4>2 DEF TypeOK
      <4> QED
        BY <4>1, <4>2, <4>3
    <3> QED
      BY <3>1
  <2> QED
    BY <1>1, <2>1, <2>2, FencedDependsOnRow DEF Claim, NextVersion, TypeOK
<1>2. ASSUME NEW f \in Executors, NEW i \in Jobs, Renew(f, i)
      PROVE  Fenced(e, j)'
  <2>1. CASE i = j
    <3>1. lease'[j] = "live"
      BY <1>2, <2>1 DEF Renew, GrantedLease, TypeOK
    <3> QED
      BY <1>2, <3>1 DEF Renew, Fenced, Holds
  <2>2. CASE i # j
    BY <1>2, <2>2, FencedDependsOnRow DEF Renew, TypeOK
  <2> QED
    BY <2>1, <2>2
<1>3. ASSUME NEW f \in Executors, NEW i \in Jobs, NEW outcome \in Terminal,
             Finish(f, i, outcome)
      PROVE  Fenced(e, j)'
  <2>1. claim'[f] = NoClaim
    BY <1>3 DEF Finish, TypeOK
  <2>2. e # f
    BY <2>1
  <2>3. i # j
    BY <1>3, <2>2 DEF Finish, Fenced, OneEffectiveOwner
  <2> QED
    BY <1>3, <2>2, <2>3, FencedDependsOnRow DEF Finish, TypeOK
<1>4. ASSUME NEW f \in Executors, Leave(f)
      PROVE  Fenced(e, j)'
  <2>1. e # f
    BY <1>4 DEF Leave, TypeOK
  <2> QED
    BY <1>4, <2>1, FencedDependsOnRow DEF Leave, TypeOK
<1>5. ASSUME NEW i \in Jobs, LeaseAges(i)
      PROVE  Fenced(e, j)'
  <2>1. i # j
    BY <1>0, <1>5 DEF LeaseAges, TypeOK
  <2> QED
    BY <1>5, <2>1, FencedDependsOnRow DEF LeaseAges, TypeOK
<1>6. ASSUME NEW i \in Jobs, CompleteCommitted(i) \/ ResetQueued(i) \/ ClearOwnership(i)
      PROVE  Fenced(e, j)'
  <2>1. i # j
    BY <1>0, <1>6 DEF CompleteCommitted, ResetQueued, ClearOwnership, StaleRunning, Terminal
  <2>2. ReleaseRow(i) /\ status'[j] = status[j]
    BY <1>6, <2>1 DEF CompleteCommitted, ResetQueued, ClearOwnership, TypeOK
  <2> QED
    BY <2>1, <2>2, FencedDependsOnRow DEF ReleaseRow, NextVersion, TypeOK
<1> QED
  BY <1>1, <1>2, <1>3, <1>4, <1>5, <1>6 DEF Next

\* Neither another worker nor the maintenance takes a job from an execution that
\* keeps its lease.
THEOREM LiveClaimKept == Spec => LiveClaimIsExclusive
  BY TypeCorrect, LeaseInvariant, SingleOwner, ExclusiveStep, PTL
     DEF Spec, LiveClaimIsExclusive
=============================================================================
