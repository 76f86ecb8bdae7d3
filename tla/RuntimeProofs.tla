--------------------------- MODULE RuntimeProofs ----------------------------
(***************************************************************************)
(* What is proved of platform-runtime: of its job queue, of its outbox,    *)
(* relay and bus, of its capacity gate and of its circuit breaker, and of  *)
(* the four side by side.                                                  *)
(***************************************************************************)
EXTENDS MCRuntime, TotalsProofs

-----------------------------------------------------------------------------
(***************************************************************************)
(* Type correctness of the job queue, and the invariants that make its     *)
(* indexes, its bounded retries and its exclusive claims right, for every  *)
(* set of jobs, workers and types and every lease and backoff length.      *)
(***************************************************************************)

LEMMA LessOne == \A n \in Nat : Less1(n) \in Nat /\ Less1(n) <= n
  BY DEF Less1

\* What one record written through `Write' looks like, typed.
LEMMA WriteType ==
  ASSUME NEW D \in SUBSET Jobs, NEW new \in [D -> Job], TypeOK, Write(new)
  PROVE  /\ jobs' \in [Jobs -> Job]
         /\ queuedByType' \in [Types -> SUBSET Jobs]
         /\ running' \in SUBSET Jobs
         /\ jobs' = [j \in Jobs |-> IF j \in D THEN new[j] ELSE jobs[j]]
  <1>1. DOMAIN new = D
    OBVIOUS
  <1>2. jobs' = [j \in Jobs |-> IF j \in D THEN new[j] ELSE jobs[j]]
    BY <1>1 DEF Write
  <1>3. jobs' \in [Jobs -> Job]
    BY <1>2 DEF TypeOK
  <1>4. queuedByType' \in [Types -> SUBSET Jobs]
    BY <1>1 DEF Write, TypeOK
  <1>5. running' \in SUBSET Jobs
    BY <1>1 DEF Write, TypeOK
  <1>6. QED
    BY <1>2, <1>3, <1>4, <1>5

\* The single write path keeps both indexes in step, whatever is written:
\* the comment of `write', as a lemma.
LEMMA WriteKeepsIndexes ==
  ASSUME NEW D \in SUBSET Jobs, NEW new \in [D -> Job], TypeOK, IndexesInStep,
         Write(new)
  PROVE  IndexesInStep'
  <1>1. DOMAIN new = D
    OBVIOUS
  <1>2. jobs' = [j \in Jobs |-> IF j \in D THEN new[j] ELSE jobs[j]]
    BY <1>1 DEF Write
  <1>3. ASSUME NEW t \in Types
        PROVE  queuedByType'[t] = {j \in Jobs : jobs'[j].status = "queued" /\ JobType[j] = t}
    <2>1. queuedByType'[t] =
            (queuedByType[t] \ {j \in {k \in D : jobs[k].status = "queued"} : JobType[j] = t})
              \cup {j \in {k \in D : new[k].status = "queued"} : JobType[j] = t}
      BY <1>1 DEF Write
    <2>2. queuedByType[t] = {j \in Jobs : jobs[j].status = "queued" /\ JobType[j] = t}
      BY DEF IndexesInStep
    <2>3. QED
      BY <1>2, <2>1, <2>2
  <1>4. running' = {j \in Jobs : jobs'[j].status = "running"}
    <2>1. running' = (running \ {k \in D : jobs[k].status = "running"})
                       \cup {k \in D : new[k].status = "running"}
      BY <1>1 DEF Write
    <2>2. running = {j \in Jobs : jobs[j].status = "running"}
      BY DEF IndexesInStep
    <2>3. QED
      BY <1>2, <2>1, <2>2
  <1>5. QED
    BY <1>3, <1>4 DEF IndexesInStep

-----------------------------------------------------------------------------
(* Every step of the queue is a write of well-typed records                *)

LEMMA RecordTypes ==
  ASSUME TypeOK, NEW j \in Jobs
  PROVE  /\ jobs[j] \in Job
         /\ Requeued(jobs[j]) \in Job
         /\ Swept(j) \in Job
         /\ \A w \in Workers, lease \in Leases : Claimed(j, w, lease) \in Job
  <1>1. jobs[j] \in Job
    BY DEF TypeOK
  <1>2. Requeued(jobs[j]) \in Job
    BY <1>1 DEF Requeued, Job, Status
  <1>3. Swept(j) \in Job
    BY <1>1, <1>2 DEF Swept
  <1>4. ASSUME NEW w \in Workers, NEW lease \in Leases
        PROVE  Claimed(j, w, lease) \in Job
    <2>1. lease \in Nat /\ Swept(j).attempts + 1 \in Nat
      BY <1>3, QueueAssumption DEF Job
    <2>2. QED
      BY <1>3, <2>1 DEF Claimed, Job, Status
  <1>5. QED
    BY <1>1, <1>2, <1>3, <1>4

\* The records the reporting steps write.
LEMMA ReportTypes ==
  ASSUME TypeOK, NEW j \in Jobs
  PROVE  /\ [jobs[j] EXCEPT !.lease = HeartbeatLease] \in Job
         /\ \A s \in Status :
              [jobs[j] EXCEPT !.status = s, !.claimedBy = NoWorker, !.lease = 0] \in Job
         /\ \A delay \in Backoffs : [Requeued(jobs[j]) EXCEPT !.delay = delay] \in Job
  <1>1. jobs[j] \in Job
    BY DEF TypeOK
  <1>2. [jobs[j] EXCEPT !.lease = HeartbeatLease] \in Job
    BY <1>1, QueueAssumption DEF Job
  <1>3. \A s \in Status :
          [jobs[j] EXCEPT !.status = s, !.claimedBy = NoWorker, !.lease = 0] \in Job
    BY <1>1 DEF Job
  <1>4. \A delay \in Backoffs : [Requeued(jobs[j]) EXCEPT !.delay = delay] \in Job
    BY RecordTypes, QueueAssumption DEF Job
  <1>5. QED
    BY <1>2, <1>3, <1>4

Writes == \E D \in SUBSET Jobs : \E new \in [D -> Job] : Write(new)

LEMMA WriteOne ==
  ASSUME NEW j \in Jobs, NEW record \in Job, Write(Only(j, record))
  PROVE  Writes
  <1>1. Only(j, record) \in [{j} -> Job]
    BY DEF Only
  <1>2. QED
    BY <1>1 DEF Writes

LEMMA EnqueueWrites ==
  ASSUME TypeOK, NEW j \in Jobs, Enqueue(j)
  PROVE  Writes
  <1>1. PICK stamp \in NextStamps, delay \in Backoffs \cup {0} :
          Write(Only(j, [NoJob EXCEPT !.status = "queued", !.delay = delay,
                                      !.created = stamp]))
    BY DEF Enqueue
  <1>2. stamp \in Nat
    BY DEF NextStamps, Known, TypeOK, Job
  <1>3. [NoJob EXCEPT !.status = "queued", !.delay = delay, !.created = stamp] \in Job
    <2>1. delay \in Nat
      BY QueueAssumption
    <2>2. NoJob \in Job
      BY DEF NoJob, Job, Status
    <2>3. QED
      BY <1>2, <2>1, <2>2 DEF Job, Status
  <1>4. QED
    BY <1>1, <1>3, WriteOne

LEMMA CandidateFacts ==
  ASSUME TypeOK, NEW w \in Workers, NEW j \in Best(Candidates(w))
  PROVE  /\ j \in Jobs
         /\ Swept(j).status = "queued"
  BY DEF Best, Candidates, Scan

LEMMA ClaimWrites ==
  ASSUME TypeOK, NEW w \in Workers, Claim(w)
  PROVE  Writes /\ \E j \in Jobs, lease \in Leases :
                       /\ work' = [work EXCEPT ![w] = {j}]
                       /\ granted' = [granted EXCEPT ![w] = lease]
  <1>1. PICK j \in Best(Candidates(w)), lease \in Leases :
          /\ Write([k \in Lapsed \cup {j} |->
                      IF k = j THEN Claimed(j, w, lease) ELSE Requeued(jobs[k])])
          /\ work' = [work EXCEPT ![w] = {j}]
          /\ granted' = [granted EXCEPT ![w] = lease]
    BY DEF Claim
  <1>2. j \in Jobs
    BY CandidateFacts
  <1>3. Lapsed \cup {j} \in SUBSET Jobs
    BY <1>2 DEF Lapsed, TypeOK
  <1>4. [k \in Lapsed \cup {j} |->
           IF k = j THEN Claimed(j, w, lease) ELSE Requeued(jobs[k])]
          \in [Lapsed \cup {j} -> Job]
    BY <1>2, <1>3, RecordTypes
  <1>5. QED
    BY <1>1, <1>2, <1>3, <1>4 DEF Writes

LEMMA SweepWrites ==
  ASSUME TypeOK, NEW w \in Workers, ClaimNothing(w)
  PROVE  Writes
  <1>1. Lapsed \in SUBSET Jobs
    BY DEF Lapsed, TypeOK
  <1>2. [k \in Lapsed |-> Requeued(jobs[k])] \in [Lapsed -> Job]
    BY <1>1, RecordTypes
  <1>3. QED
    BY <1>1, <1>2 DEF ClaimNothing, Writes

LEMMA ReportWrites ==
  ASSUME TypeOK, NEW w \in Workers, NEW j \in Jobs,
         \/ Heartbeat(w, j)
         \/ Complete(w, j)
         \/ \E retryable \in BOOLEAN : FailForGood(w, j, retryable)
         \/ FailAndRetry(w, j)
  PROVE  Writes
  <1>1. CASE Heartbeat(w, j)
    <2>1. Write(Only(j, [jobs[j] EXCEPT !.lease = HeartbeatLease]))
      BY <1>1 DEF Heartbeat
    <2>2. [jobs[j] EXCEPT !.lease = HeartbeatLease] \in Job
      BY ReportTypes
    <2>3. QED
      BY <2>1, <2>2, WriteOne
  <1>2. CASE Complete(w, j)
    <2>1. Write(Only(j, [jobs[j] EXCEPT !.status = "completed", !.claimedBy = NoWorker, !.lease = 0]))
      BY <1>2 DEF Complete
    <2>2. [jobs[j] EXCEPT !.status = "completed", !.claimedBy = NoWorker, !.lease = 0] \in Job
      BY ReportTypes DEF Status
    <2>3. QED
      BY <2>1, <2>2, WriteOne
  <1>3. CASE \E retryable \in BOOLEAN : FailForGood(w, j, retryable)
    BY <1>3, ReportTypes, WriteOne DEF FailForGood, Status
  <1>4. CASE FailAndRetry(w, j)
    BY <1>4, ReportTypes, WriteOne DEF FailAndRetry
  <1>5. QED
    BY <1>1, <1>2, <1>3, <1>4

\* A step writes records, passes time, or leaves the queue alone.
LEMMA QueueSteps ==
  ASSUME TypeOK, [Next]_vars
  PROVE  Writes \/ Tick \/ UNCHANGED queueVars
  <1>1. CASE UNCHANGED vars
    BY <1>1 DEF vars, queueVars
  <1>2. ASSUME NEW j \in Jobs, Enqueue(j) PROVE Writes
    BY <1>2, EnqueueWrites
  <1>3. ASSUME NEW w \in Workers, Claim(w) PROVE Writes
    BY <1>3, ClaimWrites
  <1>4. ASSUME NEW w \in Workers, ClaimNothing(w) PROVE Writes
    BY <1>4, SweepWrites
  <1>5. ASSUME NEW w \in Workers, NEW j \in Jobs, Heartbeat(w, j) PROVE Writes
    BY <1>5, ReportWrites
  <1>6. ASSUME NEW w \in Workers, Report(w) PROVE Writes
    BY <1>6, ReportWrites DEF Report
  <1>7. ASSUME NEW w \in Workers, Abandon(w) \/ Crash(w) PROVE UNCHANGED queueVars
    BY <1>7 DEF Abandon, Crash, queueVars
  <1>8. QED
    BY <1>1, <1>2, <1>3, <1>4, <1>5, <1>6, <1>7 DEF Next

-----------------------------------------------------------------------------
(* Type correctness, and the indexes                                       *)

LEMMA TickTypes ==
  ASSUME TypeOK, Tick
  PROVE  /\ jobs' \in [Jobs -> Job]
         /\ granted' \in [Workers -> Nat]
         /\ \A j \in Jobs : /\ jobs'[j].status = jobs[j].status
                            /\ jobs'[j].attempts = jobs[j].attempts
                            /\ jobs'[j].claimedBy = jobs[j].claimedBy
                            /\ jobs'[j].lease = Less1(jobs[j].lease)
  <1>1. jobs' = [j \in Jobs |-> [jobs[j] EXCEPT !.lease = Less1(@), !.delay = Less1(@)]]
    BY DEF Tick
  <1>2. ASSUME NEW j \in Jobs
        PROVE  /\ jobs'[j] \in Job
               /\ jobs'[j].status = jobs[j].status
               /\ jobs'[j].attempts = jobs[j].attempts
               /\ jobs'[j].claimedBy = jobs[j].claimedBy
               /\ jobs'[j].lease = Less1(jobs[j].lease)
    <2>1. jobs[j] \in Job
      BY DEF TypeOK
    <2>2. Less1(jobs[j].lease) \in Nat /\ Less1(jobs[j].delay) \in Nat
      BY <2>1, LessOne DEF Job
    <2>3. QED
      BY <1>1, <2>1, <2>2 DEF Job
  <1>3. granted' \in [Workers -> Nat]
    BY LessOne DEF Tick, TypeOK
  <1>4. QED
    BY <1>1, <1>2, <1>3

\* The part of TypeOK that is about workers and histories.
ActorTypes ==
  /\ work \in [Workers -> SUBSET Jobs]
  /\ granted \in [Workers -> Nat]
  /\ lapses \in [Jobs -> Nat]
  /\ crashes \in Nat

LEMMA TypeStep == TypeOK /\ [Next]_vars => TypeOK'
  <1> SUFFICES ASSUME TypeOK, [Next]_vars PROVE TypeOK'
    OBVIOUS
  <1>1. /\ jobs' \in [Jobs -> Job]
        /\ queuedByType' \in [Types -> SUBSET Jobs]
        /\ running' \in SUBSET Jobs
    <2>1. CASE Writes
      BY <2>1, WriteType DEF Writes
    <2>2. CASE Tick
      BY <2>2, TickTypes DEF Tick, TypeOK
    <2>3. CASE UNCHANGED queueVars
      BY <2>3 DEF queueVars, TypeOK
    <2>4. QED
      BY <2>1, <2>2, <2>3, QueueSteps
  <1>2. ActorTypes'
    <2>1. CASE UNCHANGED vars
      BY <2>1 DEF vars, ActorTypes, TypeOK
    <2>2. ASSUME NEW j \in Jobs, Enqueue(j)
          PROVE  ActorTypes'
      BY <2>2 DEF Enqueue, ActorTypes, TypeOK
    <2>3. ASSUME NEW w \in Workers, Claim(w)
          PROVE  ActorTypes'
      <3>1. work' \in [Workers -> SUBSET Jobs] /\ granted' \in [Workers -> Nat]
        BY <2>3, ClaimWrites, QueueAssumption DEF ActorTypes, TypeOK
      <3>2. QED
        BY <2>3, <3>1 DEF Claim, ActorTypes, TypeOK
    <2>4. ASSUME NEW w \in Workers, ClaimNothing(w)
          PROVE  ActorTypes'
      BY <2>4 DEF ClaimNothing, ActorTypes, TypeOK
    <2>5. ASSUME NEW w \in Workers, NEW j \in Jobs, Heartbeat(w, j)
          PROVE  ActorTypes'
      BY <2>5, QueueAssumption DEF Heartbeat, Larger, ActorTypes, TypeOK
    <2>6. ASSUME NEW w \in Workers, Report(w)
          PROVE  ActorTypes'
      <3>1. Finished(w)
        BY <2>6, Zenon DEF Report, Complete, FailForGood, FailAndRetry
      <3>2. QED
        BY <3>1 DEF Finished, ActorTypes, TypeOK
    <2>7. ASSUME NEW w \in Workers, Abandon(w) \/ Crash(w)
          PROVE  ActorTypes'
      BY <2>7 DEF Abandon, Finished, Crash, ActorTypes, TypeOK
    <2>8. CASE Tick
      BY <2>8, TickTypes DEF Tick, ActorTypes, TypeOK
    <2>9. QED
      BY <2>1, <2>2, <2>3, <2>4, <2>5, <2>6, <2>7, <2>8 DEF Next
  <1>3. QED
    BY <1>1, <1>2 DEF ActorTypes, TypeOK

\* Every reachable state of the queue and of its workers is well typed.
THEOREM TypeCorrect == Spec => []TypeOK
  <1>1. Init => TypeOK
    BY DEF Init, TypeOK, NoJob, Job, Status
  <1>2. QED
    BY <1>1, TypeStep, PTL DEF Spec

LEMMA IndexStep == TypeOK /\ IndexesInStep /\ [Next]_vars => IndexesInStep'
  <1> SUFFICES ASSUME TypeOK, IndexesInStep, [Next]_vars PROVE IndexesInStep'
    OBVIOUS
  <1>1. CASE Writes
    BY <1>1, WriteKeepsIndexes DEF Writes
  <1>2. CASE Tick
    <2>1. UNCHANGED <<queuedByType, running>>
      BY <1>2 DEF Tick
    <2>2. \A j \in Jobs : jobs'[j].status = jobs[j].status
      BY <1>2, TickTypes
    <2>3. QED
      BY <2>1, <2>2 DEF IndexesInStep
  <1>3. CASE UNCHANGED queueVars
    BY <1>3 DEF queueVars, IndexesInStep
  <1>4. QED
    BY <1>1, <1>2, <1>3, QueueSteps

\* queuedByType and running never drift from the job map, whatever the workers
\* do and whenever they do it.
THEOREM IndexesCorrect == Spec => []IndexesInStep
  <1>1. Init => IndexesInStep
    BY DEF Init, IndexesInStep, NoJob
  <1>2. QED
    BY <1>1, IndexStep, TypeCorrect, PTL DEF Spec

-----------------------------------------------------------------------------
(* What each step does to one job                                          *)

LEMMA WriteEffect ==
  ASSUME NEW D \in SUBSET Jobs, NEW new \in [D -> Job], Write(new), NEW i \in Jobs
  PROVE  jobs'[i] = IF i \in D THEN new[i] ELSE jobs[i]
  BY DEF Write

LEMMA OnlyEffect ==
  ASSUME NEW j \in Jobs, NEW record \in Job, Write(Only(j, record)), NEW i \in Jobs
  PROVE  jobs'[i] = IF i = j THEN record ELSE jobs[i]
  <1>1. Only(j, record) \in [{j} -> Job] /\ Only(j, record)[j] = record
    BY DEF Only
  <1>2. QED
    BY <1>1, WriteEffect

\* The fields that `claim' writes, for the job it takes and the ones it sweeps.
LEMMA RecordFields ==
  ASSUME TypeOK, NEW j \in Jobs
  PROVE  /\ Requeued(jobs[j]).status = "queued"
         /\ Requeued(jobs[j]).attempts = jobs[j].attempts
         /\ \A w \in Workers, lease \in Leases :
              /\ Claimed(j, w, lease).status = "running"
              /\ Claimed(j, w, lease).attempts = jobs[j].attempts + 1
              /\ Claimed(j, w, lease).claimedBy = w
              /\ Claimed(j, w, lease).lease = lease
  <1>1. jobs[j] \in Job
    BY DEF TypeOK
  <1>2. /\ Requeued(jobs[j]).status = "queued"
        /\ Requeued(jobs[j]).attempts = jobs[j].attempts
    BY <1>1 DEF Requeued, Job
  <1>3. Swept(j) \in Job /\ Swept(j).attempts = jobs[j].attempts
    BY <1>2, RecordTypes DEF Swept
  <1>4. QED
    BY <1>2, <1>3 DEF Claimed, Job

\* A claim takes one job that was queued, or whose lease has lapsed; it
\* requeues the other lapsed ones and leaves every other job alone.
LEMMA ClaimEffect ==
  ASSUME TypeOK, NEW w \in Workers, Claim(w)
  PROVE  \E j \in Jobs, lease \in Leases :
           /\ j \in Lapsed \/ jobs[j].status = "queued"
           /\ work' = [work EXCEPT ![w] = {j}]
           /\ granted' = [granted EXCEPT ![w] = lease]
           /\ jobs'[j] = Claimed(j, w, lease)
           /\ \A i \in Jobs \ {j} :
                jobs'[i] = IF i \in Lapsed THEN Requeued(jobs[i]) ELSE jobs[i]
  <1>1. PICK j \in Best(Candidates(w)), lease \in Leases :
          /\ Write([k \in Lapsed \cup {j} |->
                      IF k = j THEN Claimed(j, w, lease) ELSE Requeued(jobs[k])])
          /\ work' = [work EXCEPT ![w] = {j}]
          /\ granted' = [granted EXCEPT ![w] = lease]
    BY DEF Claim
  <1> DEFINE new == [k \in Lapsed \cup {j} |->
                       IF k = j THEN Claimed(j, w, lease) ELSE Requeued(jobs[k])]
  <1>2. j \in Jobs /\ Swept(j).status = "queued"
    BY CandidateFacts
  <1>3. Lapsed \cup {j} \in SUBSET Jobs
    BY <1>2 DEF Lapsed, TypeOK
  <1>4. new \in [Lapsed \cup {j} -> Job]
    BY <1>2, <1>3, RecordTypes
  <1>5. ASSUME NEW i \in Jobs
        PROVE  jobs'[i] = IF i \in Lapsed \cup {j} THEN new[i] ELSE jobs[i]
    BY <1>1, <1>3, <1>4, WriteEffect
  <1>6. j \in Lapsed \/ jobs[j].status = "queued"
    BY <1>2 DEF Swept
  <1>7. jobs'[j] = Claimed(j, w, lease)
    BY <1>2, <1>5
  <1>8. \A i \in Jobs \ {j} :
          jobs'[i] = IF i \in Lapsed THEN Requeued(jobs[i]) ELSE jobs[i]
    BY <1>5
  <1>9. QED
    BY <1>1, <1>2, <1>6, <1>7, <1>8

LEMMA SweepEffect ==
  ASSUME TypeOK, NEW w \in Workers, ClaimNothing(w), NEW i \in Jobs
  PROVE  jobs'[i] = IF i \in Lapsed THEN Requeued(jobs[i]) ELSE jobs[i]
  <1>1. Lapsed \in SUBSET Jobs
    BY DEF Lapsed, TypeOK
  <1>2. [k \in Lapsed |-> Requeued(jobs[k])] \in [Lapsed -> Job]
    BY <1>1, RecordTypes
  <1>3. QED
    BY <1>1, <1>2, WriteEffect DEF ClaimNothing

LEMMA EnqueueEffect ==
  ASSUME TypeOK, NEW j \in Jobs, Enqueue(j)
  PROVE  /\ jobs[j].status = "absent"
         /\ jobs'[j].status = "queued" /\ jobs'[j].attempts = 0
         /\ \A i \in Jobs \ {j} : jobs'[i] = jobs[i]
  <1>1. PICK stamp \in NextStamps, delay \in Backoffs \cup {0} :
          Write(Only(j, [NoJob EXCEPT !.status = "queued", !.delay = delay,
                                      !.created = stamp]))
    BY DEF Enqueue
  <1> DEFINE record == [NoJob EXCEPT !.status = "queued", !.delay = delay, !.created = stamp]
  <1>2. stamp \in Nat
    BY DEF NextStamps, Known, TypeOK, Job
  <1>3. record \in Job /\ record.status = "queued" /\ record.attempts = 0
    <2>1. delay \in Nat
      BY QueueAssumption
    <2>2. QED
      BY <1>2, <2>1 DEF Job, Status, NoJob
  <1>4. \A i \in Jobs : jobs'[i] = IF i = j THEN record ELSE jobs[i]
    BY <1>1, <1>3, OnlyEffect
  <1>5. jobs[j].status = "absent"
    BY DEF Enqueue, Known
  <1>6. QED
    BY <1>3, <1>4, <1>5

LEMMA HeartbeatEffect ==
  ASSUME TypeOK, NEW w \in Workers, NEW j \in Jobs, Heartbeat(w, j), NEW i \in Jobs
  PROVE  /\ i # j => jobs'[i] = jobs[i]
         /\ jobs'[i].status = jobs[i].status
         /\ jobs'[i].attempts = jobs[i].attempts
         /\ jobs'[i].claimedBy = jobs[i].claimedBy
         /\ i = j => jobs'[i].lease = HeartbeatLease
  <1> DEFINE record == [jobs[j] EXCEPT !.lease = HeartbeatLease]
  <1>1. jobs[j] \in Job
    BY DEF TypeOK
  <1>2. record \in Job
    BY ReportTypes
  <1>3. jobs'[i] = IF i = j THEN record ELSE jobs[i]
    BY <1>2, OnlyEffect DEF Heartbeat
  <1>4. /\ record.status = jobs[j].status /\ record.attempts = jobs[j].attempts
        /\ record.claimedBy = jobs[j].claimedBy /\ record.lease = HeartbeatLease
    BY <1>1 DEF Job
  <1>5. QED
    BY <1>3, <1>4

LEMMA FinishEffect ==
  ASSUME TypeOK, NEW w \in Workers, NEW j \in Jobs,
         Complete(w, j) \/ (\E retryable \in BOOLEAN : FailForGood(w, j, retryable)),
         NEW i \in Jobs
  PROVE  /\ i # j => jobs'[i] = jobs[i]
         /\ i = j => jobs'[i].status \in {"completed", "failed"}
         /\ jobs'[i].attempts = jobs[i].attempts
  <1>1. PICK s \in {"completed", "failed"} :
          Write(Only(j, [jobs[j] EXCEPT !.status = s, !.claimedBy = NoWorker, !.lease = 0]))
    BY DEF Complete, FailForGood
  <1> DEFINE record == [jobs[j] EXCEPT !.status = s, !.claimedBy = NoWorker, !.lease = 0]
  <1>2. jobs[j] \in Job
    BY DEF TypeOK
  <1>3. record \in Job /\ record.status = s /\ record.attempts = jobs[j].attempts
    BY <1>2 DEF Job, Status
  <1>4. jobs'[i] = IF i = j THEN record ELSE jobs[i]
    BY <1>1, <1>3, OnlyEffect
  <1>5. QED
    BY <1>3, <1>4

LEMMA RetryEffect ==
  ASSUME TypeOK, NEW w \in Workers, NEW j \in Jobs, FailAndRetry(w, j), NEW i \in Jobs
  PROVE  /\ i # j => jobs'[i] = jobs[i]
         /\ i = j => jobs'[i].status = "queued"
         /\ jobs'[i].attempts = jobs[i].attempts
  <1>1. PICK delay \in Backoffs : Write(Only(j, [Requeued(jobs[j]) EXCEPT !.delay = delay]))
    BY DEF FailAndRetry
  <1> DEFINE record == [Requeued(jobs[j]) EXCEPT !.delay = delay]
  <1>2. Requeued(jobs[j]) \in Job
    BY RecordTypes
  <1>3. record \in Job
    BY ReportTypes
  <1>4. record.status = "queued" /\ record.attempts = jobs[j].attempts
    BY <1>2, RecordFields DEF Job
  <1>5. jobs'[i] = IF i = j THEN record ELSE jobs[i]
    BY <1>1, <1>3, OnlyEffect
  <1>6. QED
    BY <1>4, <1>5

-----------------------------------------------------------------------------
(* Retries                                                                 *)

\* RetriesBoundedByLapses, of one job.
Bounded(j) ==
  /\ jobs[j].attempts <= MaxAttempts + lapses[j]
  /\ jobs[j].status = "queued" => jobs[j].attempts < MaxAttempts + lapses[j]

LEMMA BoundedFrame ==
  ASSUME TypeOK, NEW i \in Jobs, Bounded(i), jobs'[i] = jobs[i], lapses'[i] = lapses[i]
  PROVE  Bounded(i)'
  BY DEF Bounded

\* A lapsed lease gives the job one attempt more, and counts one lapse more.
LEMMA BoundedSwept ==
  ASSUME TypeOK, NEW i \in Jobs, Bounded(i), lapses'[i] = lapses[i] + 1,
         jobs'[i] = Requeued(jobs[i])
  PROVE  Bounded(i)'
  <1>1. /\ jobs'[i].attempts = jobs[i].attempts
        /\ jobs[i].attempts \in Nat /\ lapses[i] \in Nat
    BY RecordFields DEF TypeOK, Job
  <1>2. QED
    BY <1>1, QueueAssumption DEF Bounded

LEMMA BoundedStep == TypeOK /\ RetriesBoundedByLapses /\ [Next]_vars => RetriesBoundedByLapses'
  <1> SUFFICES ASSUME TypeOK, \A i \in Jobs : Bounded(i), [Next]_vars, NEW i \in Jobs
               PROVE  Bounded(i)'
    BY DEF RetriesBoundedByLapses, Bounded
  <1>1. /\ Bounded(i)
        /\ jobs[i] \in Job /\ jobs[i].attempts \in Nat /\ lapses[i] \in Nat
        /\ MaxAttempts \in Nat \ {0}
    BY QueueAssumption DEF TypeOK, Job
  <1>2. CASE UNCHANGED vars
    BY <1>1, <1>2 DEF vars, Bounded
  <1>3. ASSUME NEW j \in Jobs, Enqueue(j)
        PROVE  Bounded(i)'
    <2>1. lapses'[i] = lapses[i]
      BY <1>3 DEF Enqueue
    <2>2. CASE i = j
      BY <1>1, <1>3, <2>1, <2>2, EnqueueEffect DEF Bounded
    <2>3. CASE i # j
      BY <1>1, <1>3, <2>1, <2>3, EnqueueEffect, BoundedFrame
    <2>4. QED
      BY <2>2, <2>3
  <1>4. ASSUME NEW w \in Workers, Claim(w)
        PROVE  Bounded(i)'
    <2>1. PICK j \in Jobs, lease \in Leases :
            /\ j \in Lapsed \/ jobs[j].status = "queued"
            /\ jobs'[j] = Claimed(j, w, lease)
            /\ \A k \in Jobs \ {j} :
                 jobs'[k] = IF k \in Lapsed THEN Requeued(jobs[k]) ELSE jobs[k]
      BY <1>4, ClaimEffect
    <2>2. lapses'[i] = lapses[i] + IF i \in Lapsed THEN 1 ELSE 0
      BY <1>4 DEF Claim
    <2>3. CASE i = j
      <3>1. jobs'[i].status = "running" /\ jobs'[i].attempts = jobs[i].attempts + 1
        BY <2>1, <2>3, RecordFields
      <3>2. CASE i \in Lapsed
        BY <1>1, <2>2, <3>1, <3>2 DEF Bounded
      <3>3. CASE jobs[i].status = "queued" /\ i \notin Lapsed
        BY <1>1, <2>2, <3>1, <3>3 DEF Bounded
      <3>4. QED
        BY <2>1, <2>3, <3>2, <3>3
    <2>4. CASE i # j /\ i \in Lapsed
      BY <1>1, <2>1, <2>2, <2>4, BoundedSwept
    <2>5. CASE i # j /\ i \notin Lapsed
      BY <1>1, <2>1, <2>2, <2>5, BoundedFrame
    <2>6. QED
      BY <2>3, <2>4, <2>5
  <1>5. ASSUME NEW w \in Workers, ClaimNothing(w)
        PROVE  Bounded(i)'
    <2>1. lapses'[i] = lapses[i] + IF i \in Lapsed THEN 1 ELSE 0
      BY <1>5 DEF ClaimNothing
    <2>2. jobs'[i] = IF i \in Lapsed THEN Requeued(jobs[i]) ELSE jobs[i]
      BY <1>5, SweepEffect
    <2>3. QED
      BY <1>1, <2>1, <2>2, BoundedSwept, BoundedFrame
  <1>6. ASSUME NEW w \in Workers, NEW j \in Jobs, Heartbeat(w, j)
        PROVE  Bounded(i)'
    <2>1. lapses' = lapses
      BY <1>6 DEF Heartbeat
    <2>2. jobs'[i].status = jobs[i].status /\ jobs'[i].attempts = jobs[i].attempts
      BY <1>6, HeartbeatEffect
    <2>3. QED
      BY <1>1, <2>1, <2>2 DEF Bounded
  <1>7. ASSUME NEW w \in Workers, Report(w)
        PROVE  Bounded(i)'
    <2>1. lapses' = lapses
      BY <1>7 DEF Report, Complete, FailForGood, FailAndRetry, Finished
    <2>2. PICK j \in Jobs :
            \/ Complete(w, j) \/ (\E retryable \in BOOLEAN : FailForGood(w, j, retryable))
            \/ FailAndRetry(w, j)
      BY <1>7 DEF Report
    <2>3. CASE i # j
      BY <1>1, <2>1, <2>2, <2>3, FinishEffect, RetryEffect, BoundedFrame
    <2>4. CASE i = j /\ (Complete(w, j) \/ \E retryable \in BOOLEAN : FailForGood(w, j, retryable))
      BY <1>1, <2>1, <2>4, FinishEffect DEF Bounded
    <2>5. CASE i = j /\ FailAndRetry(w, j)
      <3>1. jobs[j].attempts < MaxAttempts
        BY <1>1, <2>5 DEF FailAndRetry, Exhausted
      <3>2. QED
        BY <1>1, <2>1, <2>5, <3>1, RetryEffect DEF Bounded
    <2>6. QED
      BY <2>2, <2>3, <2>4, <2>5
  <1>8. ASSUME NEW w \in Workers, Abandon(w) \/ Crash(w)
        PROVE  Bounded(i)'
    <2>1. jobs' = jobs /\ lapses' = lapses
      BY <1>8 DEF Abandon, Finished, Crash, queueVars
    <2>2. QED
      BY <1>1, <2>1, BoundedFrame
  <1>9. CASE Tick
    <2>1. lapses' = lapses
      BY <1>9 DEF Tick
    <2>2. QED
      BY <1>1, <1>9, <2>1, TickTypes DEF Bounded
  <1>10. QED
    BY <1>2, <1>3, <1>4, <1>5, <1>6, <1>7, <1>8, <1>9 DEF Next

\* Retries are bounded, once the leases that lapsed are counted: a job is never
\* claimed more than maxAttempts times beyond the claims a sweep took back.
THEOREM RetriesCorrect == Spec => []RetriesBoundedByLapses
  <1>1. Init => RetriesBoundedByLapses
    BY QueueAssumption DEF Init, RetriesBoundedByLapses, NoJob
  <1>2. QED
    BY <1>1, BoundedStep, TypeCorrect, PTL DEF Spec

-----------------------------------------------------------------------------
(* Exclusive claims, under the discipline the queue does not enforce: a     *)
(* worker stops reporting on a job when its lease has lapsed, and nobody    *)
(* asks for a lease longer than the one a heartbeat grants.  The run        *)
(* JobQueue_late_exclusive shows what happens without the first.            *)

Disciplined == ~LateReports /\ \A l \in Leases : l <= HeartbeatLease

\* Inside its lease, a worker is on one job and the queue knows it.
Held(w, j) == granted[w] > 0 =>
                /\ jobs[j].status = "running"
                /\ jobs[j].claimedBy = w
                /\ jobs[j].lease >= granted[w]

OneJob(w) == granted[w] <= HeartbeatLease /\ \A i, j \in work[w] : i = j

OneJobEach == \A w \in Workers : OneJob(w)

LeaseInv == TypeOK /\ IndexesInStep /\ OneJobEach /\ GrantsHonoured

LEMMA LapsedRuns ==
  ASSUME LeaseInv, NEW j \in Lapsed
  PROVE  j \in Jobs /\ jobs[j].status = "running" /\ jobs[j].lease = 0
  BY DEF Lapsed, LeaseInv, TypeOK, IndexesInStep

\* A job that some worker holds is neither lapsed nor queued, so no claim takes it.
LEMMA HeldIsSafe ==
  ASSUME LeaseInv, NEW w \in Workers, NEW j \in work[w], granted[w] > 0
  PROVE  /\ j \in Jobs /\ j \notin Lapsed
         /\ jobs[j].status = "running" /\ jobs[j].claimedBy = w
         /\ jobs[j].lease >= granted[w]
  <1>1. j \in Jobs /\ granted[w] \in Nat /\ jobs[j].lease \in Nat
    BY DEF LeaseInv, TypeOK, Job
  <1>2. Held(w, j)
    BY DEF LeaseInv, GrantsHonoured, Held
  <1>3. QED
    BY <1>1, <1>2, LapsedRuns DEF Held

LEMMA OneJobStep ==
  ASSUME Disciplined
  PROVE  LeaseInv /\ [Next]_vars => OneJobEach'
  <1> SUFFICES ASSUME LeaseInv, [Next]_vars, NEW v \in Workers
               PROVE  OneJob(v)'
    BY DEF OneJobEach
  <1>1. /\ TypeOK /\ granted[v] \in Nat /\ granted[v] <= HeartbeatLease
        /\ HeartbeatLease \in Nat /\ \A i, j \in work[v] : i = j
    BY QueueAssumption DEF LeaseInv, OneJobEach, OneJob, TypeOK
  <1>2. CASE UNCHANGED <<work, granted>>
    BY <1>1, <1>2 DEF OneJob
  <1>3. ASSUME NEW w \in Workers, Claim(w)
        PROVE  OneJob(v)'
    BY <1>1, <1>3, ClaimEffect DEF Disciplined, OneJob, TypeOK
  <1>4. ASSUME NEW w \in Workers, NEW j \in Jobs, Heartbeat(w, j)
        PROVE  OneJob(v)'
    BY <1>1, <1>4 DEF Heartbeat, Larger, OneJob, TypeOK
  <1>5. ASSUME NEW w \in Workers, Report(w) \/ Abandon(w) \/ Crash(w)
        PROVE  OneJob(v)'
    <2>1. work' = [work EXCEPT ![w] = {}] /\ granted' = [granted EXCEPT ![w] = 0]
      BY <1>5, Zenon DEF Report, Complete, FailForGood, FailAndRetry, Abandon, Crash, Finished
    <2>2. QED
      BY <1>1, <2>1 DEF OneJob, TypeOK
  <1>6. CASE Tick
    <2>1. work' = work /\ granted' = [w \in Workers |-> Less1(granted[w])]
      BY <1>6 DEF Tick
    <2>2. granted'[v] = Less1(granted[v])
      BY <2>1
    <2>3. granted'[v] \in Nat /\ granted'[v] <= granted[v]
      BY <1>1, <2>2, LessOne
    <2>4. QED
      BY <1>1, <2>1, <2>3 DEF OneJob
  <1>7. ASSUME NEW j \in Jobs, Enqueue(j)
        PROVE  OneJob(v)'
    BY <1>2, <1>7 DEF Enqueue
  <1>8. ASSUME NEW w \in Workers, ClaimNothing(w)
        PROVE  OneJob(v)'
    BY <1>2, <1>8 DEF ClaimNothing
  <1>9. CASE UNCHANGED vars
    BY <1>2, <1>9 DEF vars
  <1>10. QED
    BY <1>3, <1>4, <1>5, <1>6, <1>7, <1>8, <1>9 DEF Next

\* A worker whose own claim does not change keeps a job that nothing touches.
LEMMA HeldFrame ==
  ASSUME LeaseInv, NEW v \in Workers, NEW i \in work[v],
         granted'[v] = granted[v], granted[v] > 0 => jobs'[i] = jobs[i]
  PROVE  Held(v, i)'
  BY HeldIsSafe DEF Held

LEMMA HeldStep ==
  ASSUME Disciplined
  PROVE  LeaseInv /\ [Next]_vars => GrantsHonoured'
  <1> SUFFICES ASSUME LeaseInv, [Next]_vars, NEW v \in Workers, NEW i \in work'[v]
               PROVE  Held(v, i)'
    BY DEF GrantsHonoured, Held
  <1>1. TypeOK /\ granted \in [Workers -> Nat] /\ work \in [Workers -> SUBSET Jobs]
    BY DEF LeaseInv, TypeOK
  <1>2. CASE UNCHANGED vars
    BY <1>2, HeldFrame DEF vars
  <1>3. ASSUME NEW j \in Jobs, Enqueue(j)
        PROVE  Held(v, i)'
    <2>1. work' = work /\ granted' = granted
      BY <1>3 DEF Enqueue
    <2>2. granted[v] > 0 => i # j
      BY <1>1, <1>3, <2>1, HeldIsSafe, EnqueueEffect
    <2>3. granted[v] > 0 => jobs'[i] = jobs[i]
      BY <1>1, <1>3, <2>1, <2>2, EnqueueEffect
    <2>4. QED
      BY <2>1, <2>3, HeldFrame
  <1>4. ASSUME NEW w \in Workers, Claim(w)
        PROVE  Held(v, i)'
    <2>1. PICK j \in Jobs, lease \in Leases :
            /\ j \in Lapsed \/ jobs[j].status = "queued"
            /\ work' = [work EXCEPT ![w] = {j}]
            /\ granted' = [granted EXCEPT ![w] = lease]
            /\ jobs'[j] = Claimed(j, w, lease)
            /\ \A k \in Jobs \ {j} :
                 jobs'[k] = IF k \in Lapsed THEN Requeued(jobs[k]) ELSE jobs[k]
      BY <1>1, <1>4, ClaimEffect
    <2>2. CASE v = w
      <3>1. i = j /\ granted'[v] = lease /\ lease \in Nat
        BY <1>1, <2>1, <2>2, QueueAssumption
      <3>2. QED
        BY <1>1, <2>1, <2>2, <3>1, RecordFields DEF Held
    <2>3. CASE v # w
      <3>1. i \in work[v] /\ granted'[v] = granted[v]
        BY <1>1, <2>1, <2>3
      <3>2. granted[v] > 0 => i # j /\ jobs'[i] = jobs[i]
        BY <2>1, <3>1, HeldIsSafe
      <3>3. QED
        BY <3>1, <3>2, HeldFrame
    <2>4. QED
      BY <2>2, <2>3
  <1>5. ASSUME NEW w \in Workers, ClaimNothing(w)
        PROVE  Held(v, i)'
    <2>1. work' = work /\ granted' = granted
      BY <1>5 DEF ClaimNothing
    <2>2. granted[v] > 0 => jobs'[i] = jobs[i]
      BY <1>1, <1>5, <2>1, HeldIsSafe, SweepEffect
    <2>3. QED
      BY <2>1, <2>2, HeldFrame
  <1>6. ASSUME NEW w \in Workers, NEW j \in Jobs, Heartbeat(w, j)
        PROVE  Held(v, i)'
    <2>1. /\ work' = work /\ granted' = [granted EXCEPT ![w] = Larger(@, HeartbeatLease)]
          /\ j \in work[w] /\ granted[w] > 0
      BY <1>6 DEF Heartbeat, MayReport, Disciplined
    <2>2. /\ jobs'[j].status = jobs[j].status
          /\ jobs'[j].claimedBy = jobs[j].claimedBy
          /\ jobs'[j].lease = HeartbeatLease
          /\ \A k \in Jobs \ {j} : jobs'[k] = jobs[k]
      BY <1>1, <1>6, HeartbeatEffect
    <2>3. CASE v = w
      <3>1. i = j
        BY <2>1, <2>3 DEF LeaseInv, OneJobEach, OneJob
      <3>2. granted'[v] = HeartbeatLease /\ HeartbeatLease \in Nat
        <4>1. granted[w] <= HeartbeatLease /\ granted[w] \in Nat /\ HeartbeatLease \in Nat
          BY <1>1, QueueAssumption DEF LeaseInv, OneJobEach, OneJob
        <4>2. QED
          BY <1>1, <2>1, <2>3, <4>1 DEF Larger
      <3>3. jobs[j].status = "running" /\ jobs[j].claimedBy = w
        BY <2>1, HeldIsSafe
      <3>4. QED
        BY <2>2, <2>3, <3>1, <3>2, <3>3 DEF Held
    <2>4. CASE v # w
      <3>1. i \in work[v] /\ granted'[v] = granted[v]
        BY <1>1, <2>1, <2>4
      <3>2. granted[v] > 0 => i # j
        BY <2>1, <2>4, <3>1, HeldIsSafe
      <3>3. QED
        BY <1>1, <2>2, <3>1, <3>2, HeldFrame, HeldIsSafe
    <2>5. QED
      BY <2>3, <2>4
  <1>7. ASSUME NEW w \in Workers, Report(w)
        PROVE  Held(v, i)'
    <2>1. PICK j \in Jobs :
            /\ \/ Complete(w, j) \/ (\E retryable \in BOOLEAN : FailForGood(w, j, retryable))
               \/ FailAndRetry(w, j)
            /\ MayReport(w, j) /\ Finished(w)
      BY <1>7, Zenon DEF Report, Complete, FailForGood, FailAndRetry
    <2>2. j \in work[w] /\ granted[w] > 0
      BY <2>1 DEF MayReport, Disciplined
    <2>3. v # w /\ i \in work[v] /\ granted'[v] = granted[v]
      BY <1>1, <2>1 DEF Finished
    <2>4. granted[v] > 0 => i # j
      BY <2>2, <2>3, HeldIsSafe
    <2>5. \A k \in Jobs \ {j} : jobs'[k] = jobs[k]
      BY <1>1, <2>1, FinishEffect, RetryEffect
    <2>6. QED
      BY <1>1, <2>3, <2>4, <2>5, HeldFrame, HeldIsSafe
  <1>8. ASSUME NEW w \in Workers, Abandon(w) \/ Crash(w)
        PROVE  Held(v, i)'
    <2>1. /\ work' = [work EXCEPT ![w] = {}] /\ granted' = [granted EXCEPT ![w] = 0]
          /\ jobs' = jobs
      BY <1>8 DEF Abandon, Crash, Finished, queueVars
    <2>2. v # w /\ i \in work[v] /\ granted'[v] = granted[v]
      BY <1>1, <2>1
    <2>3. QED
      BY <2>1, <2>2, HeldFrame
  <1>9. CASE Tick
    <2>1. work' = work /\ granted' = [w \in Workers |-> Less1(granted[w])]
      BY <1>9 DEF Tick
    <2>2. i \in work[v] /\ granted'[v] = Less1(granted[v])
      BY <2>1
    <2>3. i \in Jobs /\ jobs[i].lease \in Nat /\ granted[v] \in Nat
      BY <1>1, <2>2 DEF TypeOK, Job
    <2>4. QED
      BY <1>1, <1>9, <2>2, <2>3, TickTypes, HeldIsSafe DEF Held, Less1
  <1>10. QED
    BY <1>2, <1>3, <1>4, <1>5, <1>6, <1>7, <1>8, <1>9 DEF Next

LEMMA LeaseStep ==
  ASSUME Disciplined
  PROVE  LeaseInv /\ [Next]_vars => LeaseInv'
  BY TypeStep, IndexStep, OneJobStep, HeldStep DEF LeaseInv

LEMMA LeaseInit == Init => LeaseInv
  <1> SUFFICES ASSUME Init PROVE LeaseInv
    OBVIOUS
  <1>1. TypeOK
    BY DEF Init, TypeOK, NoJob, Job, Status
  <1>2. IndexesInStep
    BY DEF Init, IndexesInStep, NoJob
  <1>3. OneJobEach /\ GrantsHonoured
    BY QueueAssumption DEF Init, OneJobEach, OneJob, GrantsHonoured
  <1>4. QED
    BY <1>1, <1>2, <1>3 DEF LeaseInv

\* While a disciplined worker is inside its lease, the queue records it as the
\* holder of its job for at least as long.
THEOREM GrantsCorrect ==
  ASSUME Disciplined
  PROVE  Spec => []GrantsHonoured
  <1>1. LeaseInv => GrantsHonoured
    BY DEF LeaseInv
  <1>2. QED
    BY <1>1, LeaseInit, LeaseStep, PTL DEF Spec

LEMMA HonouredIsExclusive == LeaseInv => ExclusiveClaims
  <1> SUFFICES ASSUME LeaseInv, NEW v \in Workers, NEW w \in Workers,
                      granted[v] > 0, granted[w] > 0, NEW j \in work[v], j \in work[w]
               PROVE  v = w
    BY DEF ExclusiveClaims
  <1>1. jobs[j].claimedBy = v
    BY HeldIsSafe
  <1>2. jobs[j].claimedBy = w
    BY HeldIsSafe
  <1>3. QED
    BY <1>1, <1>2

\* Claims are exclusive among disciplined workers: the header's first promise.
THEOREM ExclusiveCorrect ==
  ASSUME Disciplined
  PROVE  Spec => []ExclusiveClaims
  BY LeaseInit, LeaseStep, HonouredIsExclusive, PTL DEF Spec

-----------------------------------------------------------------------------
(* Settled jobs, and the refinement                                        *)

SettledStays == \A j \in Jobs : jobs[j].status \in {"completed", "failed"}
                                 => jobs'[j].status = jobs[j].status

\* Only the worker that holds a job reports on it.
LEMMA ReporterHolds ==
  ASSUME Disciplined, LeaseInv, NEW w \in Workers, NEW j \in Jobs, MayReport(w, j)
  PROVE  jobs[j].status = "running"
  BY HeldIsSafe DEF MayReport, Disciplined

LEMMA SettledStep ==
  ASSUME Disciplined
  PROVE  LeaseInv /\ [Next]_vars => SettledStays
  <1> SUFFICES ASSUME LeaseInv, [Next]_vars, NEW i \in Jobs,
                      jobs[i].status \in {"completed", "failed"}
               PROVE  jobs'[i].status = jobs[i].status
    BY DEF SettledStays
  <1>1. TypeOK /\ i \notin Lapsed
    BY LapsedRuns DEF LeaseInv
  <1>2. ASSUME NEW j \in Jobs, Enqueue(j)
        PROVE  jobs'[i].status = jobs[i].status
    BY <1>1, <1>2, EnqueueEffect
  <1>3. ASSUME NEW w \in Workers, Claim(w)
        PROVE  jobs'[i].status = jobs[i].status
    BY <1>1, <1>3, ClaimEffect
  <1>4. ASSUME NEW w \in Workers, ClaimNothing(w)
        PROVE  jobs'[i].status = jobs[i].status
    BY <1>1, <1>4, SweepEffect
  <1>5. ASSUME NEW w \in Workers, NEW j \in Jobs, Heartbeat(w, j)
        PROVE  jobs'[i].status = jobs[i].status
    BY <1>1, <1>5, HeartbeatEffect
  <1>6. ASSUME NEW w \in Workers, Report(w)
        PROVE  jobs'[i].status = jobs[i].status
    <2>1. PICK j \in Jobs :
            /\ \/ Complete(w, j) \/ (\E retryable \in BOOLEAN : FailForGood(w, j, retryable))
               \/ FailAndRetry(w, j)
            /\ MayReport(w, j)
      BY <1>6, Zenon DEF Report, Complete, FailForGood, FailAndRetry
    <2>2. i # j
      BY <2>1, ReporterHolds
    <2>3. QED
      BY <1>1, <2>1, <2>2, FinishEffect, RetryEffect
  <1>7. ASSUME NEW w \in Workers, Abandon(w) \/ Crash(w)
        PROVE  jobs' = jobs
    BY <1>7 DEF Abandon, Crash, queueVars
  <1>8. CASE Tick
    BY <1>1, <1>8, TickTypes
  <1>9. CASE UNCHANGED vars
    BY <1>9 DEF vars
  <1>10. QED
    BY <1>2, <1>3, <1>4, <1>5, <1>6, <1>7, <1>8, <1>9 DEF Next

\* A job that was completed or failed for good never runs again.
THEOREM SettledCorrect ==
  ASSUME Disciplined
  PROVE  Spec => SettledForGood
  <1>1. LeaseInv /\ [Next]_vars => [SettledStays]_vars
    BY SettledStep
  <1>2. [SettledStays]_vars => [\A j \in Jobs : jobs[j].status \in {"completed", "failed"}
                                  => jobs'[j].status = jobs[j].status]_vars
    BY DEF SettledStays
  <1>3. QED
    BY <1>1, <1>2, LeaseInit, LeaseStep, PTL DEF Spec, SettledForGood

Holders(j) == {w \in Workers : j \in work[w] /\ granted[w] > 0}

\* Every step of the queue takes an item nobody holds, or only loses holders.
LEMMA ExclusiveStep ==
  ASSUME Disciplined
  PROVE  LeaseInv /\ [Next]_vars =>
           \/ \A j \in Jobs : Holders(j)' \subseteq Holders(j)
           \/ \E j \in Jobs, w \in Workers :
                /\ Holders(j) = {} /\ Holders(j)' = {w}
                /\ \A i \in Jobs \ {j} : Holders(i)' = Holders(i)
  <1> SUFFICES ASSUME LeaseInv, [Next]_vars
               PROVE  \/ \A j \in Jobs : Holders(j)' \subseteq Holders(j)
                      \/ \E j \in Jobs, w \in Workers :
                           /\ Holders(j) = {} /\ Holders(j)' = {w}
                           /\ \A i \in Jobs \ {j} : Holders(i)' = Holders(i)
    OBVIOUS
  <1>1. TypeOK /\ granted \in [Workers -> Nat] /\ work \in [Workers -> SUBSET Jobs]
    BY DEF LeaseInv, TypeOK
  <1>2. ASSUME NEW w \in Workers, Claim(w)
        PROVE  \E j \in Jobs : /\ Holders(j) = {} /\ Holders(j)' = {w}
                               /\ \A i \in Jobs \ {j} : Holders(i)' = Holders(i)
    <2>1. PICK j \in Jobs, lease \in Leases :
            /\ j \in Lapsed \/ jobs[j].status = "queued"
            /\ work' = [work EXCEPT ![w] = {j}]
            /\ granted' = [granted EXCEPT ![w] = lease]
      BY <1>1, <1>2, ClaimEffect
    <2>2. work[w] = {} /\ lease > 0 /\ lease \in Nat
      BY <1>2, QueueAssumption DEF Claim
    <2>3. Holders(j) = {}
      BY <2>1, HeldIsSafe DEF Holders
    <2>4. Holders(j)' = {w}
      BY <1>1, <2>1, <2>2, <2>3 DEF Holders
    <2>5. ASSUME NEW i \in Jobs \ {j}
          PROVE  Holders(i)' = Holders(i)
      BY <1>1, <2>1, <2>2 DEF Holders
    <2>6. QED
      BY <2>3, <2>4, <2>5
  <1>3. ASSUME NEW w \in Workers, NEW j \in Jobs, Heartbeat(w, j), NEW i \in Jobs
        PROVE  Holders(i)' \subseteq Holders(i)
    BY <1>1, <1>3 DEF Heartbeat, MayReport, Disciplined, Holders
  <1>4. ASSUME NEW w \in Workers, Report(w) \/ Abandon(w) \/ Crash(w), NEW i \in Jobs
        PROVE  Holders(i)' \subseteq Holders(i)
    <2>1. work' = [work EXCEPT ![w] = {}] /\ granted' = [granted EXCEPT ![w] = 0]
      BY <1>4, Zenon DEF Report, Complete, FailForGood, FailAndRetry, Abandon, Crash, Finished
    <2>2. QED
      BY <1>1, <2>1 DEF Holders
  <1>5. ASSUME Tick, NEW i \in Jobs
        PROVE  Holders(i)' \subseteq Holders(i)
    <2>1. work' = work /\ granted' = [w \in Workers |-> Less1(granted[w])]
      BY <1>5 DEF Tick
    <2>2. QED
      BY <1>1, <2>1, LessOne DEF Holders, Less1
  <1>6. ASSUME (\E j \in Jobs : Enqueue(j)) \/ (\E w \in Workers : ClaimNothing(w))
                 \/ UNCHANGED vars,
               NEW i \in Jobs
        PROVE  Holders(i)' \subseteq Holders(i)
    BY <1>6 DEF Enqueue, ClaimNothing, vars, Holders
  <1>7. QED
    BY <1>2, <1>3, <1>4, <1>5, <1>6 DEF Next

\* The queue, used by disciplined workers, implements ExclusiveWork.
THEOREM QueueImplementsExclusiveWork ==
  ASSUME Disciplined
  PROVE  Spec => ImplementsExclusiveWork
  <1> DEFINE map == [j \in Jobs |-> {w \in Workers : j \in work[w] /\ granted[w] > 0}]
  <1>1. Init => Exclusive!Init
    BY DEF Init, Exclusive!Init
  <1>2. LeaseInv /\ [Next]_vars => Exclusive!Next
    <2> SUFFICES ASSUME LeaseInv, [Next]_vars PROVE Exclusive!Next
      OBVIOUS
    <2>1. map = [j \in Jobs |-> Holders(j)] /\ map' = [j \in Jobs |-> Holders(j)']
      BY DEF Holders
    <2>2. CASE \A j \in Jobs : Holders(j)' \subseteq Holders(j)
      <3>1. Exclusive!Lose
        BY <2>1, <2>2 DEF Exclusive!Lose, Holders
      <3>2. QED
        BY <3>1 DEF Exclusive!Next
    <2>3. ASSUME NEW j \in Jobs, NEW w \in Workers, Holders(j) = {}, Holders(j)' = {w},
                 \A i \in Jobs \ {j} : Holders(i)' = Holders(i)
          PROVE  Exclusive!Take(j, w)
      BY <2>1, <2>3 DEF Exclusive!Take, Holders
    <2>4. QED
      BY <2>2, <2>3, ExclusiveStep DEF Exclusive!Next
  <1>3. QED
    BY <1>1, <1>2, LeaseInit, LeaseStep, PTL DEF Spec, ImplementsExclusiveWork, Exclusive!Spec

-----------------------------------------------------------------------------
(***************************************************************************)
(* The outbox and the bus behind it implement OrderedFeed for any number   *)
(* of entries, drains and readers, whatever fails, hangs or crashes.  What *)
(* makes it so is that everything before the entry a drain is at has been  *)
(* marked, and that an entry is marked when every reader has answered it.  *)
(***************************************************************************)

AnsweredBy(r) == handled[r] \cup {e \in Entries : <<r, e>> \in letters}

\* The reader at place i, if it wants the entry, has answered it.
Served(d, i) == Current(d) \in Wanted[Readers[i]] => Current(d) \in AnsweredBy(Readers[i])

DrainSound(d) ==
  /\ \A e \in drain[d].todo : \A f \in 1 .. recorded : f < e => f \in published \cup drain[d].todo
  /\ drain[d].at \in {"handler", "backoff"} =>
       /\ Current(d) \in Wanted[Reader(d)] /\ Current(d) \in given[Reader(d)]
       /\ \A i \in 1 .. drain[d].to - 1 : Served(d, i)
  /\ drain[d].at = "backoff" => drain[d].tries < MaxTries
  /\ drain[d].at = "answer" => \A i \in DOMAIN Readers : Served(d, i)

DrainsSound == \A d \in Drains : DrainSound(d)

MarkedAnswered ==
  \A e \in published, r \in DOMAIN Wanted : e \in Wanted[r] => e \in AnsweredBy(r)

AnsweredGiven ==
  /\ \A r \in DOMAIN Wanted : AnsweredBy(r) \subseteq given[r]
  /\ \A z \in zombies : z[2] \in given[z[1]]

RelayInv == RelayTypeOK /\ DrainsSound /\ MarkedAnswered /\ AnsweredGiven

\* Nothing that was seen, answered or marked is taken back.
Grows ==
  /\ recorded' \in {recorded, recorded + 1}
  /\ published \subseteq published'
  /\ \A r \in DOMAIN Wanted : given[r] \subseteq given'[r] /\ AnsweredBy(r) \subseteq AnsweredBy(r)'

-----------------------------------------------------------------------------
(* The least of some entries                                               *)

LEMMA LeastEntry ==
  ASSUME NEW S \in SUBSET Nat, S # {}
  PROVE  Min(S) \in S /\ \A x \in S : Min(S) <= x
  <1>1. PICK x \in S : \A y \in S : ~ <<y, x>> \in OpToRel(<, Nat)
    BY WFMin, NatLessThanWellFounded
  <1>2. \A y \in S : x <= y
    <2> SUFFICES ASSUME NEW y \in S
                 PROVE  x <= y
      OBVIOUS
    <2>1. ~ y < x
      BY <1>1 DEF OpToRel
    <2>2. QED
      BY <2>1
  <1>3. QED
    BY <1>2 DEF Min

Older(e) == {f \in Pending : f < e}

\* The batch is not empty, and goes from the oldest pending entry on.
LEMMA BatchOldest ==
  ASSUME RelayTypeOK, Pending # {}
  PROVE  /\ Batch # {} /\ Batch \subseteq 1 .. recorded
         /\ \A e \in Batch : \A f \in 1 .. recorded : f < e => f \in published \cup Batch
  <1>1. Pending \subseteq 1 .. recorded /\ recorded \in Nat
    BY RelayAssumption DEF Pending, RelayTypeOK
  <1>2. IsFiniteSet(Pending)
    <2>1. IsFiniteSet(1 .. recorded)
      BY <1>1, FS_Interval
    <2>2. QED
      BY <1>1, <2>1, FS_Subset
  <1>3. Min(Pending) \in Batch
    <2>1. Min(Pending) \in Pending /\ \A x \in Pending : Min(Pending) <= x
      <3>1. Pending \in SUBSET Nat
        BY <1>1
      <3>2. QED
        BY <3>1, LeastEntry
    <2>2. Older(Min(Pending)) = {}
      <3> SUFFICES ASSUME NEW f \in Pending, f < Min(Pending)
                   PROVE  FALSE
        BY DEF Older
      <3>1. \A x \in Pending : x \in Nat
        BY <1>1
      <3>2. Min(Pending) \in Nat /\ Min(Pending) <= f
        BY <2>1, <3>1
      <3>3. f \in Nat
        BY <3>1
      <3>4. QED
        BY <3>2, <3>3
    <2>3. Cardinality(Older(Min(Pending))) < Limit
      BY <2>2, FS_EmptySet, RelayAssumption
    <2>4. QED
      BY <2>1, <2>3 DEF Batch, Older
  <1>4. ASSUME NEW e \in Batch, NEW f \in 1 .. recorded, f < e, f \notin published
        PROVE  f \in Batch
    <2>1. f \in Pending /\ e \in Pending /\ Cardinality(Older(e)) < Limit
      BY <1>4 DEF Batch, Pending, Older
    <2>2. Older(f) \in SUBSET Older(e) /\ IsFiniteSet(Older(e))
      <3>1. \A g \in Pending : g < f => g < e
        BY <1>1, <1>4, <2>1
      <3>2. Older(f) \in SUBSET Older(e) /\ Older(e) \in SUBSET Pending
        BY <3>1 DEF Older
      <3>3. QED
        BY <1>2, <3>2, FS_Subset
    <2>3. IsFiniteSet(Older(f)) /\ Cardinality(Older(f)) <= Cardinality(Older(e))
      BY <2>2, FS_Subset
    <2>4. Cardinality(Older(f)) \in Nat /\ Cardinality(Older(e)) \in Nat
      BY <2>2, <2>3, FS_CardinalityType
    <2>5. Cardinality(Older(f)) < Limit
      BY <2>1, <2>3, <2>4, RelayAssumption
    <2>6. QED
      BY <2>1, <2>5 DEF Batch, Older
  <1>5. QED
    BY <1>1, <1>3, <1>4 DEF Batch

\* The entry a drain is at.
LEMMA CurrentEntry ==
  ASSUME RelayTypeOK, NEW d \in Drains, drain[d].at # "idle"
  PROVE  /\ Current(d) \in drain[d].todo /\ Current(d) \in 1 .. recorded
         /\ Current(d) \in Entries
         /\ \A e \in drain[d].todo : Current(d) <= e
  <1>1. drain[d].todo \subseteq 1 .. recorded /\ drain[d].todo # {} /\ recorded \in 0 .. MaxEntries
    BY DEF RelayTypeOK
  <1>2. drain[d].todo \in SUBSET Nat /\ 1 .. recorded \subseteq Entries
    BY <1>1, RelayAssumption DEF Entries
  <1>3. QED
    BY <1>1, <1>2, LeastEntry DEF Current

\* Whoever is shown that entry has been shown all it wants before it.
LEMMA EarlierGiven ==
  ASSUME RelayInv, NEW d \in Drains, drain[d].at # "idle", NEW r \in DOMAIN Wanted
  PROVE  {f \in Wanted[r] : f < Current(d)} \subseteq given[r]
  <1> SUFFICES ASSUME NEW f \in Wanted[r], f < Current(d)
               PROVE  f \in given[r]
    OBVIOUS
  <1>1. f \in Entries /\ recorded \in 0 .. MaxEntries
    BY RelayAssumption DEF RelayInv, RelayTypeOK
  <1>2. f \in 1 .. recorded /\ f \notin drain[d].todo
    BY <1>1, CurrentEntry, RelayAssumption DEF RelayInv, Entries
  <1>3. f \in published
    BY <1>2, CurrentEntry DEF RelayInv, DrainsSound, DrainSound
  <1>4. QED
    BY <1>3 DEF RelayInv, MarkedAnswered, AnsweredGiven

-----------------------------------------------------------------------------
(* What a step leaves as it was                                            *)

\* A drain that does not move stays sound.
LEMMA OthersSound ==
  ASSUME RelayInv, Grows, NEW d \in Drains, drain'[d] = drain[d]
  PROVE  DrainSound(d)'
  <1>1. DrainSound(d) /\ Current(d)' = Current(d) /\ Reader(d)' = Reader(d)
    BY DEF RelayInv, DrainsSound, Current, Reader
  <1>2. drain[d].at \in {"handler", "backoff"} => drain[d].to \in DOMAIN Readers
    BY RelayAssumption DEF RelayInv, RelayTypeOK
  <1>3. \A i \in DOMAIN Readers : Readers[i] \in DOMAIN Wanted
    BY RelayAssumption
  <1>4. \A i \in DOMAIN Readers : Served(d, i) => Served(d, i)'
    BY <1>1, <1>3 DEF Served, Grows
  <1>5. \A e \in drain[d].todo : \A f \in 1 .. recorded' : f < e => f \in published' \cup drain[d].todo
    <2> SUFFICES ASSUME NEW e \in drain[d].todo, NEW f \in 1 .. recorded', f < e
                 PROVE  f \in published' \cup drain[d].todo
      OBVIOUS
    <2>1. recorded \in Nat /\ e \in 1 .. recorded
      BY RelayAssumption DEF RelayInv, RelayTypeOK
    <2>2. f \in 1 .. recorded
      BY <2>1 DEF Grows
    <2>3. QED
      BY <1>1, <2>2 DEF DrainSound, Grows
  <1>6. drain[d].at \in {"handler", "backoff"} =>
          /\ Current(d) \in Wanted[Reader(d)] /\ Current(d) \in given'[Reader(d)]
          /\ \A i \in 1 .. drain[d].to - 1 : Served(d, i)'
    <2> SUFFICES ASSUME drain[d].at \in {"handler", "backoff"}
                 PROVE  /\ Current(d) \in Wanted[Reader(d)] /\ Current(d) \in given'[Reader(d)]
                        /\ \A i \in 1 .. drain[d].to - 1 : Served(d, i)'
      OBVIOUS
    <2>1. drain[d].to \in 1 .. Len(Readers) /\ DOMAIN Readers = 1 .. Len(Readers)
      BY <1>2, RelayAssumption
    <2>2. Reader(d) \in DOMAIN Wanted
      BY <1>2, <1>3 DEF Reader
    <2>3. 1 .. drain[d].to - 1 \subseteq DOMAIN Readers
      BY <2>1
    <2>4. QED
      BY <1>1, <1>4, <2>2, <2>3 DEF DrainSound, Grows
  <1>7. QED
    BY <1>1, <1>4, <1>5, <1>6 DEF DrainSound

\* Growing keeps what was answered answered.
LEMMA MarkedStay ==
  ASSUME RelayInv, Grows,
         \A e \in published' \ published, r \in DOMAIN Wanted : e \in Wanted[r] => e \in AnsweredBy(r)'
  PROVE  MarkedAnswered'
  BY DEF RelayInv, MarkedAnswered, Grows

-----------------------------------------------------------------------------
(* Steps as OrderedFeed sees them                                          *)

\* The types and the shapes of the drains.
DrainRecord ==
  [at : {"idle", "publish", "handler", "backoff", "answer"}, todo : SUBSET (1 .. recorded),
   to : 0 .. Len(Readers), tries : 0 .. MaxTries]

ShapeOK(record) ==
  /\ (record.todo = {}) <=> (record.at = "idle")
  /\ record.at \in {"handler", "backoff"} <=> record.to # 0

Answers == [r \in DOMAIN Wanted |-> AnsweredBy(r)]

FeedStep == [Feed!Next]_(Feed!vars)

\* d's entry is shown to somebody, or to nobody.
Shown(d) == UNCHANGED given \/ \E r \in DOMAIN Wanted : Feed!Give(r, Current(d))

\* r has answered e: its handler returned, or a dead letter is on record.
Answering(r, e) ==
  \/ handled' = [handled EXCEPT ![r] = @ \cup {e}] /\ UNCHANGED letters
  \/ letters' = letters \cup {<<r, e>>} /\ UNCHANGED handled

\* OrderedFeed's view of a step that leaves all it sees alone.
LEMMA NothingSeen ==
  ASSUME UNCHANGED <<given, handled, letters, published>>
  PROVE  FeedStep
  BY DEF FeedStep, Feed!vars

LEMMA AnswerSeen ==
  ASSUME RelayTypeOK, NEW r \in DOMAIN Wanted, NEW e \in Entries, Answering(r, e)
  PROVE  /\ \A s \in DOMAIN Wanted : AnsweredBy(s) \subseteq AnsweredBy(s)'
         /\ \A s \in DOMAIN Wanted \ {r} : AnsweredBy(s)' = AnsweredBy(s)
         /\ AnsweredBy(r)' = AnsweredBy(r) \cup {e}
         /\ e \in given[r] => Feed!Answer(r, e)
         /\ handled' \in [DOMAIN Wanted -> SUBSET Entries]
         /\ letters' \subseteq (DOMAIN Wanted) \X Entries
  <1>1. /\ handled \in [DOMAIN Wanted -> SUBSET Entries]
        /\ letters \subseteq (DOMAIN Wanted) \X Entries
    BY DEF RelayTypeOK
  <1>2. \A s \in DOMAIN Wanted \ {r} : AnsweredBy(s)' = AnsweredBy(s)
    BY <1>1 DEF Answering, AnsweredBy
  <1>3. AnsweredBy(r)' = AnsweredBy(r) \cup {e}
    BY <1>1 DEF Answering, AnsweredBy
  <1>4. Answers' = [Answers EXCEPT ![r] = @ \cup {e}]
    BY <1>2, <1>3 DEF Answers
  <1>5. e \in given[r] => Feed!Answer(r, e)
    BY <1>4 DEF Feed!Answer, Answers, AnsweredBy
  <1>6. /\ handled' \in [DOMAIN Wanted -> SUBSET Entries]
        /\ letters' \subseteq (DOMAIN Wanted) \X Entries
    BY <1>1 DEF Answering
  <1>7. QED
    BY <1>2, <1>3, <1>5, <1>6

\* Where `After' goes: to the next reader that wants the entry, or to the answer.
LEMMA AfterShape ==
  ASSUME RelayTypeOK, NEW d \in Drains, drain[d].at # "idle", NEW n \in 0 .. Len(Readers)
  PROVE  /\ After(d, n) \in DrainRecord /\ ShapeOK(After(d, n))
         /\ After(d, n).todo = drain[d].todo
         /\ \/ /\ After(d, n).at = "answer"
               /\ \A i \in DOMAIN Readers : i > n => Current(d) \notin Wanted[Readers[i]]
            \/ /\ After(d, n).at = "handler"
               /\ After(d, n).to \in DOMAIN Readers
               /\ Current(d) \in Wanted[Readers[After(d, n).to]]
               /\ \A i \in DOMAIN Readers :
                    i > n /\ i < After(d, n).to => Current(d) \notin Wanted[Readers[i]]
  <1> DEFINE wants == {i \in DOMAIN Readers : i > n /\ Current(d) \in Wanted[Readers[i]]}
  <1>1. drain[d] \in DrainRecord /\ drain[d].todo # {}
    BY DEF RelayTypeOK, DrainRecord
  <1>2. DOMAIN Readers = 1 .. Len(Readers) /\ Len(Readers) \in Nat /\ MaxTries \in Nat \ {0}
    BY RelayAssumption
  <1>3. CASE wants = {}
    <2>1. After(d, n) = [drain[d] EXCEPT !.at = "answer", !.to = 0, !.tries = 0]
      BY <1>3 DEF After
    <2>2. \A i \in DOMAIN Readers : i > n => Current(d) \notin Wanted[Readers[i]]
      BY <1>3
    <2>3. After(d, n) \in DrainRecord
      <3>1. 0 \in 0 .. Len(Readers) /\ 0 \in 0 .. MaxTries
        BY <1>2
      <3>2. QED
        BY <1>1, <2>1, <3>1 DEF DrainRecord
    <2>4. /\ After(d, n).todo = drain[d].todo
          /\ After(d, n).at = "answer" /\ After(d, n).to = 0
      BY <1>1, <2>1 DEF DrainRecord
    <2>5. QED
      BY <1>1, <2>2, <2>3, <2>4 DEF ShapeOK
  <1>4. CASE wants # {}
    <2>1. After(d, n) = [drain[d] EXCEPT !.at = "handler", !.to = Min(wants), !.tries = 1]
      BY <1>4 DEF After
    <2>2. Min(wants) \in wants /\ \A x \in wants : Min(wants) <= x
      <3>1. wants \in SUBSET Nat
        BY <1>2
      <3> HIDE DEF wants
      <3>2. QED
        BY <1>4, <3>1, LeastEntry
    <2>3. PICK m \in DOMAIN Readers : m = Min(wants)
      BY <2>2
    <2>4. m > n /\ Current(d) \in Wanted[Readers[m]]
      BY <2>2, <2>3
    <2>5. \A i \in DOMAIN Readers : i > n /\ i < m => Current(d) \notin Wanted[Readers[i]]
      <3> SUFFICES ASSUME NEW i \in DOMAIN Readers, i > n, i < m, Current(d) \in Wanted[Readers[i]]
                   PROVE  FALSE
        OBVIOUS
      <3>1. m <= i
        BY <2>2, <2>3
      <3>2. QED
        BY <1>2, <3>1
    <2>6. After(d, n) = [drain[d] EXCEPT !.at = "handler", !.to = m, !.tries = 1]
      BY <2>1, <2>3
    <2>7. m \in 0 .. Len(Readers) /\ m # 0 /\ 1 \in 0 .. MaxTries
      BY <1>2
    <2> HIDE DEF wants
    <2>8. After(d, n) \in DrainRecord
      BY <1>1, <2>6, <2>7 DEF DrainRecord
    <2>9. /\ After(d, n).todo = drain[d].todo
          /\ After(d, n).at = "handler" /\ After(d, n).to = m
      BY <1>1, <2>6 DEF DrainRecord
    <2>10. ShapeOK(After(d, n))
      BY <1>1, <2>7, <2>9 DEF ShapeOK
    <2>11. QED
      BY <2>4, <2>5, <2>8, <2>9, <2>10
  <1>5. QED
    BY <1>3, <1>4

\* A drain that goes on after the subscription at place n, when all up to there
\* have answered: whoever is shown the entry may be shown it.
LEMMA GoesOn ==
  ASSUME RelayInv, NEW d \in Drains, drain[d].at # "idle", NEW n \in 0 .. Len(Readers),
         GoOn(d, After(d, n)),
         \A r \in DOMAIN Wanted : AnsweredBy(r) \subseteq AnsweredBy(r)',
         \A i \in 1 .. n : Current(d) \in Wanted[Readers[i]]
                             => Current(d) \in AnsweredBy(Readers[i])'
  PROVE  /\ drain' \in [Drains -> DrainRecord] /\ \A c \in Drains : ShapeOK(drain'[c])
         /\ given' \in [DOMAIN Wanted -> SUBSET Entries]
         /\ Grows /\ DrainsSound' /\ Shown(d)
  <1> DEFINE next == After(d, n)
  <1>1. RelayTypeOK /\ drain \in [Drains -> DrainRecord] /\ \A c \in Drains : ShapeOK(drain[c])
    BY DEF RelayInv, RelayTypeOK, DrainRecord, ShapeOK
  <1>2. /\ next \in DrainRecord /\ ShapeOK(next) /\ next.todo = drain[d].todo
        /\ \/ /\ next.at = "answer"
              /\ \A i \in DOMAIN Readers : i > n => Current(d) \notin Wanted[Readers[i]]
           \/ /\ next.at = "handler" /\ next.to \in DOMAIN Readers
              /\ Current(d) \in Wanted[Readers[next.to]]
              /\ \A i \in DOMAIN Readers :
                   i > n /\ i < next.to => Current(d) \notin Wanted[Readers[i]]
    BY <1>1, AfterShape
  <1> HIDE DEF next
  <1>3. /\ drain' = [drain EXCEPT ![d] = next]
        /\ given' = IF next.at = "handler"
                    THEN [given EXCEPT ![Readers[next.to]] = @ \cup {Current(d)}] ELSE given
        /\ UNCHANGED <<recorded, published, faults>>
    BY DEF GoOn, outboxVars, next
  <1>4. Current(d) \in Entries /\ Current(d) \in drain[d].todo
    BY <1>1, CurrentEntry
  <1>5. /\ given \in [DOMAIN Wanted -> SUBSET Entries]
        /\ next.at = "handler" => Readers[next.to] \in DOMAIN Wanted
    BY <1>1, <1>2, RelayAssumption DEF RelayTypeOK
  <1>6. /\ given' \in [DOMAIN Wanted -> SUBSET Entries]
        /\ \A r \in DOMAIN Wanted : given[r] \subseteq given'[r]
    BY <1>3, <1>4, <1>5
  <1>7. /\ drain' \in [Drains -> DrainRecord] /\ \A c \in Drains : ShapeOK(drain'[c])
        /\ drain'[d] = next /\ \A c \in Drains \ {d} : drain'[c] = drain[c]
    BY <1>1, <1>2, <1>3
  <1>8. Grows
    BY <1>3, <1>6 DEF Grows
  <1>9. Shown(d)
    <2>1. CASE next.at = "handler"
      BY <1>2, <1>3, <1>5, <2>1, EarlierGiven DEF Shown, Feed!Give
    <2>2. CASE next.at # "handler"
      BY <1>3, <2>2 DEF Shown
    <2>3. QED
      BY <2>1, <2>2
  <1>10. DrainSound(d)'
    <2>1. Current(d)' = Current(d)
      BY <1>2, <1>7 DEF Current
    <2>2. \A e \in drain'[d].todo :
            \A f \in 1 .. recorded' : f < e => f \in published' \cup drain'[d].todo
      BY <1>2, <1>3, <1>7 DEF RelayInv, DrainsSound, DrainSound
    <2>3. DOMAIN Readers = 1 .. Len(Readers) /\ Len(Readers) \in Nat
      BY RelayAssumption
    <2>4. CASE next.at = "answer"
      <3>1. \A i \in DOMAIN Readers : Served(d, i)'
        <4> SUFFICES ASSUME NEW i \in DOMAIN Readers, Current(d) \in Wanted[Readers[i]]
                     PROVE  Current(d) \in AnsweredBy(Readers[i])'
          BY <2>1 DEF Served
        <4>1. i \in 1 .. n
          BY <1>2, <2>3, <2>4
        <4>2. QED
          BY <4>1
      <3>2. QED
        BY <1>7, <2>2, <2>4, <3>1 DEF DrainSound
    <2>5. CASE next.at = "handler"
      <3>1. Reader(d)' = Readers[next.to]
        BY <1>7 DEF Reader
      <3>2. Current(d) \in given'[Readers[next.to]]
        BY <1>3, <1>5, <2>5
      <3>3. \A i \in 1 .. next.to - 1 : Served(d, i)'
        <4> SUFFICES ASSUME NEW i \in 1 .. next.to - 1, Current(d) \in Wanted[Readers[i]]
                     PROVE  Current(d) \in AnsweredBy(Readers[i])'
          BY <2>1 DEF Served
        <4>1. next.to \in 1 .. Len(Readers)
          BY <1>2, <2>3, <2>5
        <4>2. i \in DOMAIN Readers /\ i < next.to
          BY <2>3, <4>1
        <4>3. i \in 1 .. n
          BY <1>2, <2>3, <2>5, <4>2
        <4>4. QED
          BY <4>3
      <3>4. QED
        BY <1>2, <1>7, <2>1, <2>2, <2>5, <3>1, <3>2, <3>3 DEF DrainSound
    <2>6. QED
      BY <1>2, <2>4, <2>5
  <1>11. DrainsSound'
    BY <1>7, <1>8, <1>10, OthersSound DEF DrainsSound
  <1>12. QED
    BY <1>6, <1>7, <1>8, <1>9, <1>11

-----------------------------------------------------------------------------
(* Each action keeps the invariant and is a step of OrderedFeed            *)

Good == RelayInv' /\ FeedStep

\* The bounds that count nothing but faults.
LEMMA FaultsTyped ==
  ASSUME RelayTypeOK, faults' = faults \/ (faults < MaxFaults /\ faults' = faults + 1)
  PROVE  faults' \in 0 .. MaxFaults
  BY RelayAssumption DEF RelayTypeOK

LEMMA PublishGood ==
  ASSUME RelayInv, NEW d \in Drains, Publish(d)
  PROVE  Good
  <1>1. /\ drain[d].at # "idle" /\ GoOn(d, After(d, 0))
        /\ UNCHANGED <<handled, letters, zombies, published, recorded, faults>>
    BY DEF Publish, GoOn, outboxVars
  <1>2. /\ drain' \in [Drains -> DrainRecord] /\ \A c \in Drains : ShapeOK(drain'[c])
        /\ given' \in [DOMAIN Wanted -> SUBSET Entries]
        /\ Grows /\ DrainsSound' /\ Shown(d)
    <2>1. \A r \in DOMAIN Wanted : AnsweredBy(r) \subseteq AnsweredBy(r)'
      BY <1>1 DEF AnsweredBy
    <2>2. 0 \in 0 .. Len(Readers) /\ 1 .. 0 = {}
      BY RelayAssumption
    <2>3. QED
      BY <1>1, <2>1, <2>2, GoesOn
  <1>3. RelayTypeOK'
    BY <1>1, <1>2 DEF RelayInv, RelayTypeOK, DrainRecord, ShapeOK
  <1>4. MarkedAnswered'
    BY <1>1, <1>2, MarkedStay
  <1>5. AnsweredGiven'
    BY <1>1, <1>2 DEF RelayInv, RelayTypeOK, AnsweredGiven, AnsweredBy, Grows
  <1>6. FeedStep
    <2>1. CASE UNCHANGED given
      BY <1>1, <2>1, NothingSeen
    <2>2. ASSUME NEW r \in DOMAIN Wanted, Feed!Give(r, Current(d))
          PROVE  FeedStep
      BY <1>1, <2>2, CurrentEntry DEF RelayInv, FeedStep, Feed!Next
    <2>3. QED
      BY <1>2, <2>1, <2>2 DEF Shown
  <1>7. QED
    BY <1>2, <1>3, <1>4, <1>5, <1>6 DEF Good, RelayInv

\* The handler returned or was given up, and the delivery goes on.
LEMMA AnsweredGood ==
  ASSUME RelayInv, NEW d \in Drains, drain[d].at = "handler",
         Answering(Reader(d), Current(d)), GoOn(d, After(d, drain[d].to)),
         zombies' \in {zombies, zombies \cup {<<Reader(d), Current(d)>>}}
  PROVE  Good
  <1>1. RelayTypeOK /\ drain[d].at # "idle" /\ DrainSound(d)
    BY DEF RelayInv, DrainsSound
  <1>2. /\ drain[d].to \in 1 .. Len(Readers) /\ drain[d].to \in 0 .. Len(Readers)
        /\ DOMAIN Readers = 1 .. Len(Readers) /\ Len(Readers) \in Nat
    BY <1>1, RelayAssumption DEF RelayTypeOK
  <1>3. PICK r \in DOMAIN Wanted, e \in Entries :
          r = Reader(d) /\ e = Current(d) /\ e \in given[r]
    BY <1>1, <1>2, RelayAssumption, CurrentEntry DEF Reader, DrainSound
  <1>4. UNCHANGED <<recorded, published, faults>>
    BY DEF GoOn, outboxVars
  <1>5. Answering(r, e)
    BY <1>3
  <1>6. /\ \A s \in DOMAIN Wanted : AnsweredBy(s) \subseteq AnsweredBy(s)'
        /\ \A s \in DOMAIN Wanted \ {r} : AnsweredBy(s)' = AnsweredBy(s)
        /\ AnsweredBy(r)' = AnsweredBy(r) \cup {e}
        /\ Feed!Answer(r, e)
        /\ handled' \in [DOMAIN Wanted -> SUBSET Entries]
        /\ letters' \subseteq (DOMAIN Wanted) \X Entries
    BY <1>1, <1>3, <1>5, AnswerSeen
  <1>7. \A i \in 1 .. drain[d].to : e \in Wanted[Readers[i]] => e \in AnsweredBy(Readers[i])'
    <2> SUFFICES ASSUME NEW i \in 1 .. drain[d].to, e \in Wanted[Readers[i]]
                 PROVE  e \in AnsweredBy(Readers[i])'
      OBVIOUS
    <2>1. Readers[i] \in DOMAIN Wanted
      BY <1>2, RelayAssumption
    <2>2. CASE i = drain[d].to
      BY <1>3, <1>6, <2>2 DEF Reader
    <2>3. CASE i # drain[d].to
      <3>1. i \in 1 .. drain[d].to - 1
        BY <1>2, <2>3
      <3>2. e \in AnsweredBy(Readers[i])
        BY <1>1, <1>3, <3>1 DEF DrainSound, Served
      <3>3. QED
        BY <1>6, <2>1, <3>2
    <2>4. QED
      BY <2>2, <2>3
  <1>8. /\ drain' \in [Drains -> DrainRecord] /\ \A c \in Drains : ShapeOK(drain'[c])
        /\ given' \in [DOMAIN Wanted -> SUBSET Entries]
        /\ Grows /\ DrainsSound' /\ Shown(d)
    BY <1>1, <1>2, <1>3, <1>6, <1>7, GoesOn
  <1>9. RelayTypeOK'
    <2>1. zombies' \subseteq (DOMAIN Wanted) \X Entries
      BY <1>1, <1>3 DEF RelayTypeOK
    <2>2. QED
      BY <1>1, <1>4, <1>6, <1>8, <2>1 DEF RelayTypeOK, DrainRecord, ShapeOK
  <1>10. MarkedAnswered'
    BY <1>4, <1>8, MarkedStay
  <1>11. AnsweredGiven'
    <2>1. \A s \in DOMAIN Wanted : AnsweredBy(s)' \subseteq given'[s]
      BY <1>3, <1>6, <1>8 DEF RelayInv, AnsweredGiven, Grows
    <2>2. \A z \in zombies' : z[2] \in given'[z[1]]
      <3>1. \A z \in zombies : z[2] \in given[z[1]] /\ z[1] \in DOMAIN Wanted
        BY <1>1 DEF RelayInv, AnsweredGiven, RelayTypeOK
      <3>2. \A z \in zombies : z[2] \in given'[z[1]]
        BY <1>8, <3>1 DEF Grows
      <3>3. e \in given'[r]
        BY <1>3, <1>8 DEF Grows
      <3>4. QED
        BY <1>3, <3>2, <3>3
    <2>3. QED
      BY <2>1, <2>2 DEF AnsweredGiven
  <1>12. FeedStep
    <2>1. CASE UNCHANGED given
      BY <1>3, <1>4, <1>6, <2>1 DEF FeedStep, Feed!Next
    <2>2. ASSUME NEW s \in DOMAIN Wanted, Feed!Give(s, e)
          PROVE  FeedStep
      BY <1>3, <1>4, <1>6, <2>2 DEF FeedStep, Feed!Next
    <2>3. QED
      BY <1>3, <1>8, <2>1, <2>2 DEF Shown
  <1>13. QED
    BY <1>8, <1>9, <1>10, <1>11, <1>12 DEF Good, RelayInv

\* A failed attempt that is tried again later.
LEMMA BackoffGood ==
  ASSUME RelayInv, NEW d \in Drains, drain[d].at = "handler", drain[d].tries < MaxTries,
         GoOn(d, [drain[d] EXCEPT !.at = "backoff"]), UNCHANGED <<handled, letters>>,
         zombies' \in {zombies, zombies \cup {<<Reader(d), Current(d)>>}}
  PROVE  Good
  <1> DEFINE next == [drain[d] EXCEPT !.at = "backoff"]
  <1>1. RelayTypeOK /\ drain[d].at # "idle" /\ DrainSound(d) /\ drain[d] \in DrainRecord
    BY DEF RelayInv, DrainsSound, RelayTypeOK, DrainRecord
  <1>2. /\ next \in DrainRecord /\ next.at = "backoff"
        /\ next.todo = drain[d].todo /\ next.to = drain[d].to /\ next.tries = drain[d].tries
    BY <1>1 DEF DrainRecord
  <1>3. ShapeOK(next)
    BY <1>1, <1>2 DEF RelayTypeOK, ShapeOK
  <1>4. drain' = [drain EXCEPT ![d] = next] /\ UNCHANGED <<recorded, published, given, faults>>
    BY <1>2 DEF GoOn, outboxVars
  <1> HIDE DEF next
  <1>5. /\ drain' \in [Drains -> DrainRecord] /\ \A c \in Drains : ShapeOK(drain'[c])
        /\ drain'[d] = next /\ \A c \in Drains \ {d} : drain'[c] = drain[c]
    BY <1>1, <1>2, <1>3, <1>4 DEF RelayTypeOK, DrainRecord, ShapeOK
  <1>6. Grows
    BY <1>4 DEF Grows, AnsweredBy
  <1>7. DrainSound(d)'
    <2>1. Current(d)' = Current(d) /\ Reader(d)' = Reader(d)
      BY <1>2, <1>5 DEF Current, Reader
    <2>2. \A i \in 1 .. drain[d].to - 1 : Served(d, i)'
      BY <1>1, <1>4, <2>1 DEF DrainSound, Served, AnsweredBy
    <2>3. QED
      BY <1>1, <1>2, <1>4, <1>5, <2>1, <2>2 DEF DrainSound
  <1>8. DrainsSound'
    BY <1>5, <1>6, <1>7, OthersSound DEF DrainsSound
  <1>9. PICK r \in DOMAIN Wanted, e \in Entries :
          r = Reader(d) /\ e = Current(d) /\ e \in given[r]
    <2>1. drain[d].to \in 1 .. Len(Readers) /\ DOMAIN Readers = 1 .. Len(Readers)
      BY <1>1, RelayAssumption DEF RelayTypeOK
    <2>2. Reader(d) \in DOMAIN Wanted /\ Current(d) \in Entries
      BY <1>1, <2>1, RelayAssumption, CurrentEntry DEF Reader
    <2>3. QED
      BY <1>1, <2>2 DEF DrainSound
  <1>10. RelayTypeOK'
    <2>1. zombies' \subseteq (DOMAIN Wanted) \X Entries
      BY <1>1, <1>9 DEF RelayTypeOK
    <2>2. QED
      BY <1>1, <1>4, <1>5, <2>1 DEF RelayTypeOK, DrainRecord, ShapeOK
  <1>11. MarkedAnswered'
    BY <1>4, <1>6, MarkedStay
  <1>12. AnsweredGiven'
    BY <1>4, <1>9 DEF RelayInv, AnsweredGiven, AnsweredBy
  <1>13. FeedStep
    BY <1>4, NothingSeen
  <1>14. QED
    BY <1>8, <1>10, <1>11, <1>12, <1>13 DEF Good, RelayInv

LEMMA HandlerGood ==
  ASSUME RelayInv, NEW d \in Drains,
         HandlerReturns(d) \/ HandlerThrows(d) \/ HandlerTimesOut(d)
  PROVE  Good
  <1>1. CASE HandlerReturns(d)
    BY <1>1, AnsweredGood DEF HandlerReturns, Answering
  <1>2. ASSUME NEW transient \in BOOLEAN, drain[d].at = "handler", AttemptFailed(d, transient),
               UNCHANGED handled,
               zombies' \in {zombies, zombies \cup {<<Reader(d), Current(d)>>}}
        PROVE  Good
    <2>1. CASE GoOn(d, [drain[d] EXCEPT !.at = "backoff"]) /\ UNCHANGED letters
               /\ drain[d].tries < MaxTries
      BY <1>2, <2>1, BackoffGood
    <2>2. CASE letters' = DeadLetter(d) /\ GoOn(d, After(d, drain[d].to))
      BY <1>2, <2>2, AnsweredGood DEF DeadLetter, Answering
    <2>3. QED
      BY <1>2, <2>1, <2>2 DEF AttemptFailed
  <1>3. CASE HandlerThrows(d)
    BY <1>2, <1>3 DEF HandlerThrows
  <1>4. CASE HandlerTimesOut(d)
    BY <1>2, <1>4 DEF HandlerTimesOut
  <1>5. QED
    BY <1>1, <1>3, <1>4

\* The entry is shown again to a reader that has seen it.
LEMMA RetryGood ==
  ASSUME RelayInv, NEW d \in Drains, Retry(d)
  PROVE  Good
  <1> DEFINE next == [drain[d] EXCEPT !.at = "handler", !.tries = NextTry(d)]
  <1>1. RelayTypeOK /\ drain[d].at = "backoff" /\ DrainSound(d) /\ drain[d] \in DrainRecord
    BY DEF RelayInv, DrainsSound, RelayTypeOK, DrainRecord, Retry
  <1>2. NextTry(d) \in 0 .. MaxTries
    BY <1>1, RelayAssumption DEF DrainRecord, DrainSound, NextTry
  <1>3. /\ next \in DrainRecord /\ next.at = "handler"
        /\ next.todo = drain[d].todo /\ next.to = drain[d].to
    BY <1>1, <1>2 DEF DrainRecord
  <1>4. ShapeOK(next)
    BY <1>1, <1>3 DEF RelayTypeOK, ShapeOK
  <1>5. GoOn(d, next) /\ UNCHANGED <<handled, letters, zombies>>
    BY DEF Retry
  <1> HIDE DEF next
  <1>6. UNCHANGED given
    <2>1. /\ Readers[drain[d].to] \in DOMAIN given
          /\ Current(d) \in given[Readers[drain[d].to]]
      BY <1>1, RelayAssumption DEF DrainSound, Reader, RelayTypeOK
    <2>2. given' = [given EXCEPT ![Readers[drain[d].to]] = @ \cup {Current(d)}]
      BY <1>3, <1>5 DEF GoOn
    <2>3. QED
      BY <1>1, <2>1, <2>2 DEF RelayTypeOK
  <1>7. drain' = [drain EXCEPT ![d] = next] /\ UNCHANGED <<recorded, published, faults>>
    BY <1>5 DEF GoOn, outboxVars
  <1>8. /\ drain' \in [Drains -> DrainRecord] /\ \A c \in Drains : ShapeOK(drain'[c])
        /\ drain'[d] = next /\ \A c \in Drains \ {d} : drain'[c] = drain[c]
    BY <1>1, <1>3, <1>4, <1>7 DEF RelayTypeOK, DrainRecord, ShapeOK
  <1>9. Grows
    BY <1>5, <1>6, <1>7 DEF Grows, AnsweredBy
  <1>10. DrainSound(d)'
    <2>1. Current(d)' = Current(d) /\ Reader(d)' = Reader(d)
      BY <1>3, <1>8 DEF Current, Reader
    <2>2. \A i \in 1 .. drain[d].to - 1 : Served(d, i)'
      BY <1>1, <1>5, <2>1 DEF DrainSound, Served, AnsweredBy
    <2>3. QED
      BY <1>1, <1>3, <1>6, <1>7, <1>8, <2>1, <2>2 DEF DrainSound
  <1>11. DrainsSound'
    BY <1>8, <1>9, <1>10, OthersSound DEF DrainsSound
  <1>12. RelayTypeOK'
    BY <1>1, <1>5, <1>6, <1>7, <1>8 DEF RelayTypeOK, DrainRecord, ShapeOK
  <1>13. MarkedAnswered'
    BY <1>7, <1>9, MarkedStay
  <1>14. AnsweredGiven'
    BY <1>5, <1>6 DEF RelayInv, AnsweredGiven, AnsweredBy
  <1>15. FeedStep
    BY <1>5, <1>6, <1>7, NothingSeen
  <1>16. QED
    BY <1>11, <1>12, <1>13, <1>14, <1>15 DEF Good, RelayInv

\* A drain that is over, or that has not begun, asks for nothing.
LEMMA IdleSound == Idle \in DrainRecord /\ ShapeOK(Idle) /\ Idle.at = "idle" /\ Idle.todo = {}
  BY RelayAssumption DEF Idle, DrainRecord, ShapeOK

\* Drains that stop: at a failure, or with the process.
LEMMA StopsGood ==
  ASSUME RelayInv, UNCHANGED <<outboxVars, letters, given, handled>>,
         faults < MaxFaults, faults' = faults + 1, zombies' \subseteq zombies,
         drain' \in [Drains -> DrainRecord],
         \A d \in Drains : drain'[d] = drain[d] \/ drain'[d] = Idle
  PROVE  Good
  <1>1. Grows /\ UNCHANGED <<published, recorded>>
    BY DEF Grows, AnsweredBy, outboxVars
  <1>2. ASSUME NEW d \in Drains, drain'[d] = Idle
        PROVE  DrainSound(d)'
    BY <1>2, IdleSound DEF DrainSound
  <1>3. DrainsSound'
    BY <1>1, <1>2, OthersSound DEF DrainsSound
  <1>4. \A d \in Drains : ShapeOK(drain'[d])
    BY IdleSound DEF RelayInv, RelayTypeOK, ShapeOK
  <1>5. RelayTypeOK'
    BY <1>1, <1>4, FaultsTyped DEF RelayInv, RelayTypeOK, DrainRecord, ShapeOK
  <1>6. MarkedAnswered' /\ AnsweredGiven'
    BY <1>1, MarkedStay DEF RelayInv, AnsweredGiven, AnsweredBy
  <1>7. FeedStep
    BY <1>1, NothingSeen
  <1>8. QED
    BY <1>3, <1>5, <1>6, <1>7 DEF Good, RelayInv

LEMMA FailsGood ==
  ASSUME RelayInv, NEW d \in Drains, PublishFails(d)
  PROVE  Good
  <1>1. /\ drain' = [drain EXCEPT ![d] = Idle] /\ drain \in [Drains -> DrainRecord]
    BY DEF PublishFails, Halted, RelayInv, RelayTypeOK, DrainRecord
  <1>2. /\ drain' \in [Drains -> DrainRecord]
        /\ \A c \in Drains : drain'[c] = drain[c] \/ drain'[c] = Idle
    BY <1>1, IdleSound
  <1>3. QED
    BY <1>2, StopsGood DEF PublishFails, readerVars

LEMMA CrashGood ==
  ASSUME RelayInv, HostCrash
  PROVE  Good
  BY IdleSound, StopsGood DEF HostCrash

\* A batch has been read, or what is left of one goes on.
LEMMA TodoSound ==
  ASSUME NEW S \in SUBSET (1 .. recorded), S # {}
  PROVE  /\ [Idle EXCEPT !.at = "publish", !.todo = S] \in DrainRecord
         /\ ShapeOK([Idle EXCEPT !.at = "publish", !.todo = S])
         /\ [Idle EXCEPT !.at = "publish", !.todo = S].at = "publish"
         /\ [Idle EXCEPT !.at = "publish", !.todo = S].todo = S
  <1> DEFINE next == [Idle EXCEPT !.at = "publish", !.todo = S]
  <1>1. Idle \in DrainRecord /\ Idle.to = 0
    BY IdleSound DEF Idle
  <1>2. next \in DrainRecord /\ next.at = "publish" /\ next.todo = S /\ next.to = 0
    BY <1>1 DEF DrainRecord
  <1> HIDE DEF next
  <1>3. ShapeOK(next)
    BY <1>2 DEF ShapeOK
  <1>4. QED
    BY <1>2, <1>3 DEF next

LEMMA StartGood ==
  ASSUME RelayInv, NEW d \in Drains, StartDrain(d)
  PROVE  Good
  <1> DEFINE next == [Idle EXCEPT !.at = "publish", !.todo = Batch]
  <1>1. /\ Batch # {} /\ Batch \in SUBSET (1 .. recorded)
        /\ \A e \in Batch : \A f \in 1 .. recorded : f < e => f \in published \cup Batch
    BY BatchOldest DEF StartDrain, RelayInv
  <1>2. next \in DrainRecord /\ ShapeOK(next) /\ next.at = "publish" /\ next.todo = Batch
    BY <1>1, TodoSound
  <1>3. /\ drain' = [drain EXCEPT ![d] = next]
        /\ UNCHANGED <<recorded, published, given, handled, letters, zombies, faults>>
    BY DEF StartDrain, outboxVars, readerVars
  <1> HIDE DEF next
  <1>4. /\ drain' \in [Drains -> DrainRecord] /\ \A c \in Drains : ShapeOK(drain'[c])
        /\ drain'[d] = next /\ \A c \in Drains \ {d} : drain'[c] = drain[c]
    BY <1>2, <1>3 DEF RelayInv, RelayTypeOK, DrainRecord, ShapeOK
  <1>5. Grows
    BY <1>3 DEF Grows, AnsweredBy
  <1>6. DrainSound(d)'
    BY <1>1, <1>2, <1>3, <1>4 DEF DrainSound
  <1>7. DrainsSound'
    BY <1>4, <1>5, <1>6, OthersSound DEF DrainsSound
  <1>8. RelayTypeOK'
    BY <1>3, <1>4 DEF RelayInv, RelayTypeOK, DrainRecord, ShapeOK
  <1>9. MarkedAnswered' /\ AnsweredGiven'
    BY <1>3, <1>5, MarkedStay DEF RelayInv, AnsweredGiven, AnsweredBy
  <1>10. FeedStep
    BY <1>3, NothingSeen
  <1>11. QED
    BY <1>7, <1>8, <1>9, <1>10 DEF Good, RelayInv

\* An entry that every reader has answered is marked.
LEMMA MarkGood ==
  ASSUME RelayInv, NEW d \in Drains, MarkPublished(d)
  PROVE  Good
  <1> DEFINE rest == drain[d].todo \ {Current(d)}
             next == IF rest = {} THEN Idle ELSE [Idle EXCEPT !.at = "publish", !.todo = rest]
  <1>1. RelayTypeOK /\ drain[d].at = "answer" /\ DrainSound(d)
    BY DEF RelayInv, DrainsSound, MarkPublished
  <1>2. /\ Current(d) \in 1 .. recorded /\ Current(d) \in Entries
        /\ Current(d) \in drain[d].todo /\ rest \in SUBSET (1 .. recorded)
    BY <1>1, CurrentEntry DEF RelayTypeOK
  <1>3. next \in DrainRecord /\ ShapeOK(next) /\ next.todo = rest /\ next.at \in {"idle", "publish"}
    BY <1>2, TodoSound, IdleSound
  <1>4. /\ published' = published \cup {Current(d)} /\ drain' = [drain EXCEPT ![d] = next]
        /\ UNCHANGED <<recorded, given, handled, letters, zombies, faults>>
    BY DEF MarkPublished, readerVars
  <1> HIDE DEF next
  <1>5. /\ drain' \in [Drains -> DrainRecord] /\ \A c \in Drains : ShapeOK(drain'[c])
        /\ drain'[d] = next /\ \A c \in Drains \ {d} : drain'[c] = drain[c]
    BY <1>1, <1>3, <1>4 DEF RelayTypeOK, DrainRecord, ShapeOK
  <1>6. Grows
    BY <1>4 DEF Grows, AnsweredBy
  <1>7. DrainSound(d)'
    BY <1>1, <1>3, <1>4, <1>5 DEF DrainSound
  <1>8. DrainsSound'
    BY <1>5, <1>6, <1>7, OthersSound DEF DrainsSound
  <1>9. \A r \in DOMAIN Wanted : Current(d) \in Wanted[r] => Current(d) \in AnsweredBy(r)
    BY <1>1, RelayAssumption DEF DrainSound, Served
  <1>10. RelayTypeOK'
    BY <1>1, <1>2, <1>4, <1>5 DEF RelayTypeOK, DrainRecord, ShapeOK
  <1>11. MarkedAnswered' /\ AnsweredGiven'
    BY <1>4, <1>6, <1>9, MarkedStay DEF RelayInv, AnsweredGiven, AnsweredBy
  <1>12. FeedStep
    <2>1. Feed!Settle(Current(d))
      BY <1>4, <1>9 DEF Feed!Settle, AnsweredBy
    <2>2. QED
      BY <1>2, <2>1 DEF FeedStep, Feed!Next
  <1>13. QED
    BY <1>8, <1>10, <1>11, <1>12 DEF Good, RelayInv

LEMMA RecordGood ==
  ASSUME RelayInv, RecordEntry
  PROVE  Good
  <1>1. /\ recorded' = recorded + 1 /\ recorded' \in 0 .. MaxEntries
        /\ UNCHANGED <<published, drain, given, handled, letters, zombies, faults>>
    BY RelayAssumption DEF RecordEntry, readerVars, RelayInv, RelayTypeOK
  <1>2. 1 .. recorded \subseteq 1 .. recorded'
    BY <1>1, RelayAssumption DEF RelayInv, RelayTypeOK
  <1>3. Grows
    BY <1>1 DEF Grows, AnsweredBy
  <1>4. DrainsSound'
    BY <1>1, <1>3, OthersSound DEF DrainsSound
  <1>5. drain' \in [Drains -> DrainRecord']
    BY <1>1, <1>2 DEF RelayInv, RelayTypeOK, DrainRecord
  <1>6. RelayTypeOK'
    BY <1>1, <1>2, <1>5 DEF RelayInv, RelayTypeOK, DrainRecord
  <1>7. MarkedAnswered' /\ AnsweredGiven'
    BY <1>1, <1>3, MarkedStay DEF RelayInv, AnsweredGiven, AnsweredBy
  <1>8. FeedStep
    BY <1>1, NothingSeen
  <1>9. QED
    BY <1>4, <1>6, <1>7, <1>8 DEF Good, RelayInv

LEMMA ZombieGood ==
  ASSUME RelayInv, NEW z \in zombies, ZombieEnds(z)
  PROVE  Good
  <1>1. RelayTypeOK /\ AnsweredGiven
    BY DEF RelayInv
  <1>2. PICK r \in DOMAIN Wanted, e \in Entries : z = <<r, e>> /\ e \in given[r]
    BY <1>1 DEF RelayTypeOK, AnsweredGiven
  <1>3. /\ zombies' \subseteq zombies
        /\ UNCHANGED <<recorded, published, drain, letters, given, faults>>
    BY DEF ZombieEnds, outboxVars
  <1>4. CASE UNCHANGED handled
    <2>1. Grows
      BY <1>3, <1>4 DEF Grows, AnsweredBy
    <2>2. DrainsSound'
      BY <1>3, <2>1, OthersSound DEF DrainsSound
    <2>3. RelayTypeOK'
      BY <1>1, <1>3, <1>4 DEF RelayTypeOK
    <2>4. MarkedAnswered' /\ AnsweredGiven'
      BY <1>1, <1>3, <1>4, <2>1, MarkedStay DEF AnsweredGiven, AnsweredBy
    <2>5. FeedStep
      BY <1>3, <1>4, NothingSeen
    <2>6. QED
      BY <2>2, <2>3, <2>4, <2>5 DEF Good, RelayInv
  <1>5. CASE handled' = [handled EXCEPT ![r] = @ \cup {e}]
    <2>1. Answering(r, e)
      BY <1>3, <1>5 DEF Answering
    <2>2. /\ \A s \in DOMAIN Wanted : AnsweredBy(s) \subseteq AnsweredBy(s)'
          /\ \A s \in DOMAIN Wanted \ {r} : AnsweredBy(s)' = AnsweredBy(s)
          /\ AnsweredBy(r)' = AnsweredBy(r) \cup {e}
          /\ Feed!Answer(r, e)
          /\ handled' \in [DOMAIN Wanted -> SUBSET Entries]
      BY <1>1, <1>2, <2>1, AnswerSeen
    <2>3. Grows
      BY <1>3, <2>2 DEF Grows
    <2>4. DrainsSound'
      BY <1>3, <2>3, OthersSound DEF DrainsSound
    <2>5. RelayTypeOK'
      BY <1>1, <1>3, <2>2 DEF RelayTypeOK
    <2>6. MarkedAnswered'
      BY <1>3, <2>3, MarkedStay
    <2>7. AnsweredGiven'
      BY <1>1, <1>2, <1>3, <2>2 DEF AnsweredGiven
    <2>8. FeedStep
      BY <1>2, <1>3, <2>2 DEF FeedStep, Feed!Next
    <2>9. QED
      BY <2>4, <2>5, <2>6, <2>7, <2>8 DEF Good, RelayInv
  <1>6. QED
    BY <1>2, <1>4, <1>5 DEF ZombieEnds

-----------------------------------------------------------------------------

LEMMA RelayStarts == RelayInit => RelayInv
  <1> SUFFICES ASSUME RelayInit
               PROVE  RelayInv
    OBVIOUS
  <1>1. RelayTypeOK
    BY RelayAssumption DEF RelayInit, RelayTypeOK, Idle
  <1>2. DrainsSound
    BY IdleSound DEF RelayInit, DrainsSound, DrainSound
  <1>3. MarkedAnswered /\ AnsweredGiven
    BY DEF RelayInit, MarkedAnswered, AnsweredGiven, AnsweredBy
  <1>4. QED
    BY <1>1, <1>2, <1>3 DEF RelayInv

LEMMA RelaySteps ==
  ASSUME RelayInv, [RelayNext]_relayVars
  PROVE  Good
  <1>1. CASE UNCHANGED relayVars
    <2>1. RelayInv'
      BY <1>1 DEF relayVars, RelayInv, RelayTypeOK, DrainsSound, DrainSound, MarkedAnswered,
                  AnsweredGiven, Served, AnsweredBy, Current, Reader
    <2>2. FeedStep
      BY <1>1, NothingSeen DEF relayVars
    <2>3. QED
      BY <2>1, <2>2 DEF Good
  <1>2. ASSUME NEW d \in Drains, StartDrain(d) \/ DrainStep(d)
        PROVE  Good
    BY <1>2, StartGood, FailsGood, MarkGood, PublishGood, HandlerGood, RetryGood DEF DrainStep
  <1>3. QED
    BY <1>1, <1>2, RecordGood, CrashGood, ZombieGood DEF RelayNext

LEMMA RelayAlways == RelaySpec => []RelayInv
  <1>1. RelayInv /\ [RelayNext]_relayVars => RelayInv'
    BY RelaySteps DEF Good
  <1>2. QED
    BY <1>1, RelayStarts, PTL DEF RelaySpec

\* The outbox, the drains and what the readers have seen keep their types.
THEOREM RelayTypes == RelaySpec => []RelayTypeOK
  <1>1. RelayInv => RelayTypeOK
    BY DEF RelayInv
  <1>2. QED
    BY <1>1, RelayAlways, PTL

\* drainOutbox over the bus's publish and deliverResiliently shows every reader
\* the entries in order and marks none before all readers have answered it.
THEOREM RelayImplementsFeed == RelaySpec => ImplementsOrderedFeed
  <1>1. RelayInit => Feed!Init
    BY DEF RelayInit, Feed!Init
  <1>2. RelayInv /\ [RelayNext]_relayVars => [Feed!Next]_(Feed!vars)
    BY RelaySteps DEF Good, FeedStep
  <1>3. QED
    BY <1>1, <1>2, RelayAlways, PTL DEF RelaySpec, ImplementsOrderedFeed, Feed!Spec

-----------------------------------------------------------------------------
(***************************************************************************)
(* The capacity gate, for every set of dimensions, limits, shares, tenants *)
(* and requests: what is kept for constitutional work stays free for it,   *)
(* and no tenant holds more than its share and one burst.                  *)
(***************************************************************************)

\* The places of the works in C.
PlacesOf(h, C) == {i \in DOMAIN h : h[i] \in C}
LesserWork == {w \in Work : w.class # 0}
WorkOf(t) == {w \in Work : w.tenant = t}

LEMMA HeldPlaces ==
  ASSUME NEW h \in Seq(Work), NEW d \in DimSet
  PROVE  /\ DOMAIN h = 1 .. Len(h) /\ Len(h) \in Nat /\ IsFiniteSet(DOMAIN h)
         /\ \A i \in DOMAIN h : h[i] \in Work /\ h[i].demand[d] \in Nat
         /\ \A S \in SUBSET DOMAIN h : IsFiniteSet(S) /\ Used(h, S, d) \in Nat
<1>1. DOMAIN h = 1 .. Len(h) /\ Len(h) \in Nat /\ \A i \in DOMAIN h : h[i] \in Work
  OBVIOUS
<1>2. IsFiniteSet(DOMAIN h)
  BY <1>1, FS_Interval
<1>3. \A i \in DOMAIN h : h[i].demand[d] \in Nat
  BY <1>1 DEF Work
<1>4. ASSUME NEW S \in SUBSET DOMAIN h PROVE IsFiniteSet(S) /\ Used(h, S, d) \in Nat
  <2> DEFINE f == [i \in DOMAIN h |-> h[i].demand[d]]
  <2>1. IsFiniteSet(S) /\ \A x \in S : f[x] \in Nat
    BY <1>2, <1>3, FS_Subset
  <2> HIDE DEF f
  <2>2. TotalOf(f, S) \in Nat
    BY <2>1, TotalNat
  <2> QED
    BY <2>1, <2>2 DEF Used, f
<1> QED
  BY <1>1, <1>2, <1>3, <1>4

\* Fewer reservations hold no more.
LEMMA UsedSubset ==
  ASSUME NEW h \in Seq(Work), NEW d \in DimSet, NEW S \in SUBSET DOMAIN h, NEW T \in SUBSET S
  PROVE  Used(h, T, d) <= Used(h, S, d)
<1> DEFINE f == [i \in DOMAIN h |-> h[i].demand[d]]
<1>1. IsFiniteSet(S) /\ \A x \in S : f[x] \in Nat
  BY HeldPlaces
<1> HIDE DEF f
<1>2. TotalOf(f, T) <= TotalOf(f, S)
  BY <1>1, TotalSubset
<1> QED
  BY <1>2 DEF Used, f

\* What is held in two parts.
LEMMA UsedParts ==
  ASSUME NEW h \in Seq(Work), NEW d \in DimSet, NEW S \in SUBSET DOMAIN h, NEW T \in SUBSET S
  PROVE  Used(h, S, d) = Used(h, T, d) + Used(h, S \ T, d)
<1> DEFINE f == [i \in DOMAIN h |-> h[i].demand[d]]
<1>1. IsFiniteSet(T) /\ IsFiniteSet(S \ T) /\ \A x \in T \cup (S \ T) : f[x] \in Int
  BY HeldPlaces
<1> HIDE DEF f
<1>2. T \cap (S \ T) = {} /\ T \cup (S \ T) = S
  OBVIOUS
<1>3. TotalOf(f, T \cup (S \ T)) = TotalOf(f, T) + TotalOf(f, S \ T)
  BY <1>1, <1>2, TotalUnion
<1> QED
  BY <1>2, <1>3 DEF Used, f

\* What is left after an eviction or a release is what was kept, in its order.
LEMMA WithoutPlaces ==
  ASSUME NEW h \in Seq(Work), NEW S
  PROVE  /\ Without(h, S) \in Seq(Work)
         /\ \E g \in Bijection(1 .. Len(Without(h, S)), DOMAIN h \ S) :
              Without(h, S) = [n \in 1 .. Len(Without(h, S)) |-> h[g[n]]]
<1> DEFINE keep == DOMAIN h \ S
           N == Cardinality(keep)
           g == [k \in 1 .. N |-> Nth(keep, k)]
<1>1. keep \in SUBSET (1 .. Len(h)) /\ Len(h) \in Nat
  OBVIOUS
<1>2. N \in Nat /\ g \in Bijection(1 .. N, keep)
  <2> HIDE DEF keep
  <2> QED
    BY <1>1, Numbering
<1>3. Without(h, S) = [n \in 1 .. N |-> h[Nth(keep, n)]]
  BY DEF Without, Nth
<1>4. Without(h, S) = [n \in 1 .. N |-> h[g[n]]]
  BY <1>3
<1>5. \A n \in 1 .. N : g[n] \in DOMAIN h
  <2>1. g \in [1 .. N -> keep]
    BY <1>2 DEF Bijection, Injection
  <2> HIDE DEF g
  <2> QED
    BY <2>1
<1>6. Without(h, S) \in [1 .. N -> Work]
  <2> HIDE DEF g, N
  <2>1. \A n \in 1 .. N : h[g[n]] \in Work
    BY <1>5
  <2> QED
    BY ONLY <1>4, <2>1
<1>7. Len(Without(h, S)) = N /\ Without(h, S) \in Seq(Work)
  <2> HIDE DEF N
  <2> QED
    BY <1>2, <1>6
<1> QED
  <2> HIDE DEF N, g, keep
  <2>1. g \in Bijection(1 .. Len(Without(h, S)), keep)
    BY <1>2, <1>7
  <2>2. Without(h, S) = [n \in 1 .. Len(Without(h, S)) |-> h[g[n]]]
    BY <1>4, <1>7
  <2> QED
    BY <1>7, <2>1, <2>2 DEF keep

LEMMA WithoutNothing ==
  ASSUME NEW h \in Seq(Work)
  PROVE  Without(h, {}) = h
<1>1. DOMAIN h \ {} = 1 .. Len(h) /\ Len(h) \in Nat
  OBVIOUS
<1>2. Cardinality(1 .. Len(h)) = Len(h)
  <2>1. \A n \in Nat : Cardinality(1 .. n) = IF 1 > n THEN 0 ELSE n - 1 + 1
    BY FS_Interval
  <2> QED
    BY <1>1, <2>1
<1>3. Without(h, {}) = [n \in 1 .. Len(h) |-> h[Nth(1 .. Len(h), n)]]
  BY <1>1, <1>2 DEF Without, Nth
<1>4. \A n \in 1 .. Len(h) : Nth(1 .. Len(h), n) = n
  BY <1>1, NumberingAll
<1> QED
  BY <1>3, <1>4

\* The works of a kind hold after an eviction what those not evicted held.
LEMMA UsedWithout ==
  ASSUME NEW h \in Seq(Work), NEW S, NEW C, NEW d \in DimSet
  PROVE  Used(Without(h, S), PlacesOf(Without(h, S), C), d) = Used(h, PlacesOf(h, C) \ S, d)
<1> DEFINE k == Without(h, S)
           f == [i \in DOMAIN h |-> h[i].demand[d]]
           keep == DOMAIN h \ S
           T == 1 .. Len(k)
<1>1. k \in Seq(Work)
  BY WithoutPlaces
<1>2. PICK g \in Bijection(T, keep) : k = [n \in T |-> h[g[n]]]
  BY WithoutPlaces
<1>3. IsFiniteSet(T) /\ DOMAIN k = T /\ \A x \in keep : f[x] \in Int
  BY <1>1, HeldPlaces
<1>4. g \in [T -> keep] /\ \A x \in keep : \E n \in T : g[n] = x
  BY <1>2 DEF Bijection, Injection, Surjection
<1>5. [n \in DOMAIN k |-> k[n].demand[d]] = [n \in T |-> f[g[n]]]
  <2>1. \A n \in T : k[n] = h[g[n]] /\ g[n] \in DOMAIN h
    BY <1>2, <1>4
  <2> QED
    BY <2>1, <1>3
<1> DEFINE U == PlacesOf(k, C)
<1>6. {g[u] : u \in U} = PlacesOf(h, C) \ S
  <2>1. \A n \in T : k[n] = h[g[n]] /\ g[n] \in DOMAIN h /\ g[n] \notin S
    BY <1>2, <1>4
  <2>2. U = {n \in T : h[g[n]] \in C}
    BY <2>1, <1>3 DEF PlacesOf
  <2> HIDE DEF U, T, k
  <2> QED
    BY <2>1, <2>2, <1>4 DEF PlacesOf
<1>7. TotalOf([n \in T |-> f[g[n]]], U) = TotalOf(f, {g[u] : u \in U})
  <2>1. U \in SUBSET T
    BY <1>3 DEF PlacesOf
  <2> HIDE DEF U, T, k, f, keep
  <2> QED
    BY <2>1, <1>2, <1>3, TotalMoved
<1> QED
  <2>1. Used(k, U, d) = TotalOf(f, PlacesOf(h, C) \ S)
    BY ONLY <1>5, <1>6, <1>7 DEF Used
  <2> QED
    BY <2>1 DEF Used

LEMMA UsedWithoutLess ==
  ASSUME NEW h \in Seq(Work), NEW S, NEW C, NEW d \in DimSet
  PROVE  Used(Without(h, S), PlacesOf(Without(h, S), C), d) <= Used(h, PlacesOf(h, C), d)
<1>1. PlacesOf(h, C) \in SUBSET DOMAIN h /\ PlacesOf(h, C) \ S \in SUBSET PlacesOf(h, C)
  BY DEF PlacesOf
<1>2. Used(h, PlacesOf(h, C) \ S, d) <= Used(h, PlacesOf(h, C), d)
  BY <1>1, UsedSubset
<1> QED
  BY <1>2, UsedWithout

\* What one work more holds.
LEMMA UsedAppend ==
  ASSUME NEW h \in Seq(Work), NEW w \in Work, NEW C, NEW d \in DimSet
  PROVE  /\ Append(h, w) \in Seq(Work)
         /\ Used(Append(h, w), PlacesOf(Append(h, w), C), d)
              = Used(h, PlacesOf(h, C), d) + (IF w \in C THEN w.demand[d] ELSE 0)
<1> DEFINE k == Append(h, w)
           f == [i \in DOMAIN h |-> h[i].demand[d]]
           e == [i \in DOMAIN k |-> k[i].demand[d]]
           N == Len(h) + 1
           U == PlacesOf(h, C)
<1>1. /\ k \in Seq(Work) /\ DOMAIN k = 1 .. N /\ DOMAIN h = 1 .. Len(h) /\ Len(h) \in Nat
      /\ \A i \in DOMAIN h : k[i] = h[i]
      /\ k[N] = w
  OBVIOUS
<1>2. IsFiniteSet(U) /\ U \in SUBSET DOMAIN h /\ \A x \in U : f[x] \in Int
  BY HeldPlaces DEF PlacesOf
<1>3. \A x \in U : e[x] = f[x]
  <2>1. \A x \in U : x \in DOMAIN h /\ x \in DOMAIN k /\ k[x] = h[x]
    BY <1>1, <1>2
  <2> QED
    BY <2>1
<1>4. TotalOf(e, U) = TotalOf(f, U) /\ TotalOf(f, U) \in Nat
  <2>1. TotalOf(f, U) = TotalOf(e, U)
    <3> HIDE DEF e, f, U
    <3> QED
      BY <1>2, <1>3, TotalSame
  <2>2. TotalOf(f, U) \in Nat
    BY <1>2, HeldPlaces DEF Used
  <2> QED
    BY <2>1, <2>2
<1>5. CASE w \in C
  <2>1. PlacesOf(k, C) = U \cup {N} /\ N \notin U
    BY <1>1, <1>5 DEF PlacesOf
  <2>2. e[N] = w.demand[d] /\ w.demand[d] \in Int
    <3>1. N \in DOMAIN k
      BY <1>1
    <3> QED
      BY <3>1, <1>1 DEF Work
  <2>3. TotalOf(e, U \cup {N}) = e[N] + TotalOf(e, U)
    <3>1. \A y \in U \cup {N} : e[y] \in Int
      BY <1>2, <1>3, <2>2
    <3> HIDE DEF e, U, N
    <3> QED
      BY <3>1, <2>1, <1>2, TotalAdd
  <2>4. TotalOf(e, PlacesOf(k, C)) = TotalOf(f, U) + w.demand[d]
    <3> HIDE DEF e, f, U, N, k
    <3> QED
      BY <2>1, <2>2, <2>3, <1>4
  <2> QED
    BY <2>4, <1>1, <1>5 DEF Used
<1>6. CASE w \notin C
  <2>1. PlacesOf(k, C) = U
    BY <1>1, <1>6 DEF PlacesOf
  <2>2. TotalOf(e, PlacesOf(k, C)) = TotalOf(f, U) + 0
    <3> HIDE DEF e, f, U, k
    <3> QED
      BY <2>1, <1>4
  <2> QED
    BY <2>2, <1>1, <1>6 DEF Used
<1> QED
  BY <1>5, <1>6

-----------------------------------------------------------------------------
(* The loop over the dimensions.                                           *)

Starting(ask) == [h |-> held, evicted |-> 0, deferred |-> FALSE,
                   burst |-> IF ask.tenant = NoTenant THEN 0 ELSE tokens[ask.tenant]]
IsTrial(ask, n, st) ==
  st = [k \in 0 .. n |-> IF k = 0 THEN Starting(ask) ELSE TryDim(ask, st[k - 1], ask.dims[k])]

LEMMA TrialExists ==
  ASSUME NEW ask, NEW n \in Nat
  PROVE  \E st : IsTrial(ask, n, st)
<1> DEFINE P == {k \in Nat : \E st : IsTrial(ask, k, st)}
<1>1. 0 \in P
  <2> DEFINE st == [k \in 0 .. 0 |-> Starting(ask)]
  <2>1. st = [k \in 0 .. 0 |-> IF k = 0 THEN Starting(ask) ELSE TryDim(ask, st[k - 1], ask.dims[k])]
    OBVIOUS
  <2> QED
    BY <2>1 DEF IsTrial
<1>2. ASSUME NEW k \in Nat, k \in P PROVE k + 1 \in P
  <2>1. PICK st : IsTrial(ask, k, st)
    BY <1>2
  <2> DEFINE new == [j \in 0 .. k + 1 |-> IF j = 0 THEN Starting(ask) ELSE TryDim(ask, st[j - 1], ask.dims[j])]
  <2>2. \A j \in 0 .. k : st[j] = new[j]
    BY <2>1 DEF IsTrial
  <2>3. \A j \in 0 .. k + 1 : j # 0 => j - 1 \in 0 .. k /\ st[j - 1] = new[j - 1]
    <3> HIDE DEF new
    <3> QED
      BY <2>2
  <2>4. new = [j \in 0 .. k + 1 |-> IF j = 0 THEN Starting(ask) ELSE TryDim(ask, new[j - 1], ask.dims[j])]
    BY <2>3
  <2>5. IsTrial(ask, k + 1, new)
    BY <2>4 DEF IsTrial
  <2> QED
    BY <2>5
<1>3. Nat \subseteq P
  <2> HIDE DEF P
  <2> QED
    BY <1>1, <1>2, NatSetInduction
<1> QED
  BY <1>3

\* What was left and done after each dimension, and in the end.
LEMMA TriedSteps ==
  ASSUME NEW ask, Len(ask.dims) \in Nat
  PROVE  \E st : /\ Tried(ask) = st[Len(ask.dims)]
                 /\ st[0] = Starting(ask)
                 /\ \A k \in 1 .. Len(ask.dims) : st[k] = TryDim(ask, st[k - 1], ask.dims[k])
<1> DEFINE st == CHOOSE st : IsTrial(ask, Len(ask.dims), st)
<1>1. Len(ask.dims) \in Nat
  OBVIOUS
<1>2. IsTrial(ask, Len(ask.dims), st)
  BY <1>1, TrialExists
<1>3. Tried(ask) = st[Len(ask.dims)]
  BY DEF Tried, IsTrial, Starting
<1> HIDE DEF st
<1>4. st[0] = Starting(ask) /\ \A k \in 1 .. Len(ask.dims) : st[k] = TryDim(ask, st[k - 1], ask.dims[k])
  BY <1>1, <1>2 DEF IsTrial
<1> QED
  BY <1>3, <1>4

\* The parts of one dimension.
LeftBy(ask, st, d) == Without(st.h, Victims(st.h, ask, d))
Full(ask, st, d) ==
  Used(LeftBy(ask, st, d), Counted(LeftBy(ask, st, d), ask), d) + ask.demand[d] > Ceiling(ask, d)
OverBy(ask, st, d) == Over(LeftBy(ask, st, d), ask, d)
Bursts(ask, st, d) == OverBy(ask, st, d) > 0 /\ OverBy(ask, st, d) <= st.burst

LEMMA TryDimIs ==
  ASSUME NEW ask, NEW st, NEW d
  PROVE  TryDim(ask, st, d) =
           IF st.deferred THEN st
           ELSE [h |-> LeftBy(ask, st, d),
                 evicted |-> st.evicted + Cardinality(Victims(st.h, ask, d)),
                 burst |-> IF Bursts(ask, st, d) /\ ~Full(ask, st, d)
                             THEN st.burst - OverBy(ask, st, d) ELSE st.burst,
                 deferred |-> Full(ask, st, d) \/ (OverBy(ask, st, d) > 0 /\ ~Bursts(ask, st, d))]
BY DEF TryDim, LeftBy, Full, OverBy, Bursts

LEMMA Kinds ==
  ASSUME NEW h \in Seq(Work), NEW t
  PROVE  /\ NotP0(h) = PlacesOf(h, LesserWork)
         /\ Of(h, t) = PlacesOf(h, WorkOf(t))
         /\ Of(h, t) \cap NotP0(h) = PlacesOf(h, WorkOf(t) \cap LesserWork)
<1>1. \A i \in DOMAIN h : h[i] \in Work
  OBVIOUS
<1> QED
  BY <1>1 DEF NotP0, Of, PlacesOf, LesserWork, WorkOf

-----------------------------------------------------------------------------
(* What a request leaves.                                                  *)

\* A work that is not deferred for d fits into what is not reserved, and takes
\* its tenant at most a burst over the share.
Fits(ask, h, d) ==
  /\ Used(h, NotP0(h), d) + ask.demand[d] <= General(d)
  /\ ask.tenant # NoTenant => Used(h, Of(h, ask.tenant), d) + ask.demand[d] <= Share[d] + BurstMax

NoMore(h, k) ==
  \A C \in SUBSET Work, d \in DimSet : Used(h, PlacesOf(h, C), d) <= Used(k, PlacesOf(k, C), d)

TrialOK(ask, st, n) ==
  /\ st.h \in Seq(Work) /\ st.burst \in 0 .. BurstMax
  /\ NoMore(st.h, held)
  /\ ask.class # 0 /\ ~st.deferred => \A k \in 1 .. n : Fits(ask, st.h, ask.dims[k])

\* What a dimension has, and what is set apart of it, are numbers.
LEMMA GateNumbers ==
  ASSUME NEW d \in DimSet
  PROVE  General(d) \in Int /\ Share[d] \in Nat /\ BurstMax \in Nat
<1>1. Total[d] \in Nat /\ Reserve[d] \in 0 .. Total[d]
  BY GateAssumption
<1> QED
  BY <1>1, GateAssumption DEF General

\* So is what a work demands of it.
LEMMA Demanded ==
  ASSUME NEW ask \in Work, NEW d \in DimSet
  PROVE  ask.demand[d] \in Nat
<1>1. ask.demand \in [DimSet -> Nat]
  BY DEF Work
<1> QED
  BY <1>1

\* The dimensions it names are a sequence.
LEMMA Named ==
  ASSUME NEW ask \in Work
  PROVE  /\ Len(ask.dims) \in Nat
         /\ \A k \in 1 .. Len(ask.dims) : ask.dims[k] \in DimSet
         /\ \A d \in ToSet(ask.dims) : \E k \in 1 .. Len(ask.dims) : d = ask.dims[k]
<1> DEFINE dims == ask.dims
<1>1. dims \in Seq(DimSet)
  BY DEF Work
<1> HIDE DEF dims
<1>2. /\ Len(dims) \in Nat /\ \A k \in 1 .. Len(dims) : dims[k] \in DimSet
      /\ DOMAIN dims = 1 .. Len(dims)
  BY ONLY <1>1
<1>3. \A d \in ToSet(dims) : \E k \in 1 .. Len(dims) : d = dims[k]
  BY <1>2 DEF ToSet
<1> QED
  BY <1>2, <1>3 DEF dims

\* What is asked still fits where less is used.
LEMMA LessFits ==
  ASSUME NEW a \in Int, NEW b \in Int, NEW w \in Int, NEW c \in Int, a <= b, b + w <= c
  PROVE  a + w <= c
OBVIOUS

LEMMA FitsWithout ==
  ASSUME NEW h \in Seq(Work), NEW S, NEW ask \in Work, NEW d \in DimSet, Fits(ask, h, d)
  PROVE  Fits(ask, Without(h, S), d)
<1> DEFINE k == Without(h, S)
<1>1. k \in Seq(Work)
  BY WithoutPlaces
<1>2. /\ NotP0(h) = PlacesOf(h, LesserWork) /\ NotP0(k) = PlacesOf(k, LesserWork)
      /\ Of(h, ask.tenant) = PlacesOf(h, WorkOf(ask.tenant))
      /\ Of(k, ask.tenant) = PlacesOf(k, WorkOf(ask.tenant))
  <2> HIDE DEF k
  <2> QED
    BY <1>1, Kinds
<1>3. /\ Used(k, NotP0(k), d) <= Used(h, NotP0(h), d)
      /\ Used(k, Of(k, ask.tenant), d) <= Used(h, Of(h, ask.tenant), d)
  BY <1>2, UsedWithoutLess
<1>4. /\ Used(k, NotP0(k), d) \in Nat /\ Used(k, Of(k, ask.tenant), d) \in Nat
      /\ Used(h, NotP0(h), d) \in Nat /\ Used(h, Of(h, ask.tenant), d) \in Nat
  <2>1. /\ NotP0(k) \in SUBSET DOMAIN k /\ Of(k, ask.tenant) \in SUBSET DOMAIN k
        /\ NotP0(h) \in SUBSET DOMAIN h /\ Of(h, ask.tenant) \in SUBSET DOMAIN h
    BY DEF NotP0, Of
  <2> HIDE DEF k
  <2> QED
    BY <1>1, <2>1, HeldPlaces
<1>5. ask.demand[d] \in Nat /\ General(d) \in Int /\ Share[d] \in Nat /\ BurstMax \in Nat
  BY ONLY GateNumbers, Demanded, ask \in Work, d \in DimSet
<1> HIDE DEF k
<1>6. Share[d] + BurstMax \in Int
  BY <1>5
<1>7. Used(h, NotP0(h), d) + ask.demand[d] <= General(d)
      /\ (ask.tenant # NoTenant => Used(h, Of(h, ask.tenant), d) + ask.demand[d] <= Share[d] + BurstMax)
  BY DEF Fits
<1> DEFINE less == Used(k, NotP0(k), d)
           more == Used(h, NotP0(h), d)
           lessOf == Used(k, Of(k, ask.tenant), d)
           moreOf == Used(h, Of(h, ask.tenant), d)
           asked == ask.demand[d]
           room == General(d)
           roomOf == Share[d] + BurstMax
<1>a. less \in Int /\ more \in Int /\ lessOf \in Int /\ moreOf \in Int
  BY <1>4
<1>b. asked \in Int /\ room \in Int /\ roomOf \in Int
  BY <1>5, <1>6
<1>c. less <= more /\ lessOf <= moreOf
  BY <1>3
<1>d. more + asked <= room /\ (ask.tenant # NoTenant => moreOf + asked <= roomOf)
  BY <1>7
<1>8. Used(k, NotP0(k), d) + ask.demand[d] <= General(d)
  <2> HIDE DEF less, more, asked, room
  <2>1. less + asked <= room
    BY ONLY <1>a, <1>b, <1>c, <1>d, LessFits
  <2> QED
    BY <2>1 DEF less, asked, room
<1>9. ask.tenant # NoTenant => Used(k, Of(k, ask.tenant), d) + ask.demand[d] <= Share[d] + BurstMax
  <2> HIDE DEF lessOf, moreOf, asked, roomOf
  <2>1. ask.tenant # NoTenant => lessOf + asked <= roomOf
    BY ONLY <1>a, <1>b, <1>c, <1>d, LessFits
  <2> QED
    BY <2>1 DEF lessOf, asked, roomOf
<1>10. Fits(ask, k, d)
  BY <1>8, <1>9 DEF Fits
<1> QED
  BY <1>10 DEF k

LEMMA TryDimKeeps ==
  ASSUME NEW ask \in Work, NEW st, NEW n \in 1 .. Len(ask.dims), held \in Seq(Work),
         st.deferred \in BOOLEAN,
         TrialOK(ask, st, n - 1)
  PROVE  TrialOK(ask, TryDim(ask, st, ask.dims[n]), n) /\ TryDim(ask, st, ask.dims[n]).deferred \in BOOLEAN
<1> DEFINE d == ask.dims[n]
           new == TryDim(ask, st, d)
           h == LeftBy(ask, st, d)
           over == OverBy(ask, st, d)
<1>0. d \in DimSet /\ Len(ask.dims) \in Nat /\ \A k \in 1 .. n : ask.dims[k] \in DimSet
  <2>1. Len(ask.dims) \in Nat /\ \A k \in 1 .. Len(ask.dims) : ask.dims[k] \in DimSet
    BY Named
  <2>2. \A k \in 1 .. n : k \in 1 .. Len(ask.dims)
    BY ONLY <2>1, n \in 1 .. Len(ask.dims)
  <2> QED
    BY <2>1, <2>2
<1>1. CASE st.deferred
  <2>1. new = st
    BY <1>1, TryDimIs
  <2> QED
    BY <1>1, <2>1 DEF TrialOK
<1>2. CASE ~st.deferred
  <2>1. new = [h |-> h,
                 evicted |-> st.evicted + Cardinality(Victims(st.h, ask, d)),
                 burst |-> IF Bursts(ask, st, d) /\ ~Full(ask, st, d)
                             THEN st.burst - over ELSE st.burst,
                 deferred |-> Full(ask, st, d) \/ (over > 0 /\ ~Bursts(ask, st, d))]
    BY <1>2, TryDimIs
  <2>2. /\ new.h = h
        /\ new.burst = IF Bursts(ask, st, d) /\ ~Full(ask, st, d) THEN st.burst - over ELSE st.burst
        /\ new.deferred = (Full(ask, st, d) \/ (over > 0 /\ ~Bursts(ask, st, d)))
    <3> HIDE DEF new, h, over
    <3> QED
      BY <2>1
  <2>3. h \in Seq(Work)
    BY WithoutPlaces DEF LeftBy, TrialOK
  <2>u. Used(h, Of(h, ask.tenant), d) \in Nat /\ Used(h, NotP0(h), d) \in Nat
    <3>1. Of(h, ask.tenant) \in SUBSET DOMAIN h /\ NotP0(h) \in SUBSET DOMAIN h
      BY DEF Of, NotP0
    <3> HIDE DEF h, d
    <3> QED
      BY <3>1, <2>3, <1>0, HeldPlaces
  <2>v. ask.demand[d] \in Nat /\ General(d) \in Int /\ Share[d] \in Nat /\ BurstMax \in Nat
    BY ONLY <1>0, GateNumbers, Demanded, ask \in Work
  <2>4. over \in Int
    <3> HIDE DEF h, d
    <3>1. over = Over(h, ask, d)
      BY DEF OverBy, h
    <3> QED
      BY <3>1, <2>u, <2>v DEF Over
  <2>5. new.burst \in 0 .. BurstMax
    <3>1. st.burst \in 0 .. BurstMax
      BY DEF TrialOK
    <3> HIDE DEF new, over
    <3> QED
      BY <3>1, <2>2, <2>4, <2>v DEF Bursts, over
  <2>6. NoMore(h, held)
    <3> SUFFICES ASSUME NEW C \in SUBSET Work, NEW e \in DimSet
                 PROVE  Used(h, PlacesOf(h, C), e) <= Used(held, PlacesOf(held, C), e)
      BY DEF NoMore
    <3>1. Used(st.h, PlacesOf(st.h, C), e) <= Used(held, PlacesOf(held, C), e)
      BY DEF TrialOK, NoMore
    <3>2. Used(h, PlacesOf(h, C), e) <= Used(st.h, PlacesOf(st.h, C), e)
      BY UsedWithoutLess DEF LeftBy, TrialOK
    <3>3. /\ Used(h, PlacesOf(h, C), e) \in Nat /\ Used(st.h, PlacesOf(st.h, C), e) \in Nat
          /\ Used(held, PlacesOf(held, C), e) \in Nat
      <4>1. \A k : PlacesOf(k, C) \in SUBSET DOMAIN k
        BY DEF PlacesOf
      <4>2. st.h \in Seq(Work)
        BY DEF TrialOK
      <4> HIDE DEF h
      <4> QED
        BY <4>1, <4>2, <2>3, HeldPlaces
    <3> QED
      BY <3>1, <3>2, <3>3
  <2>7. ASSUME ask.class # 0, ~new.deferred, NEW k \in 1 .. n PROVE Fits(ask, h, ask.dims[k])
    <3>1. CASE k < n
      <4>1. k \in 1 .. n - 1
        BY <3>1, <1>0
      <4>2. Fits(ask, st.h, ask.dims[k])
        BY <4>1, <2>7, <1>2 DEF TrialOK
      <4> QED
        BY <4>2, <1>0, FitsWithout DEF LeftBy, TrialOK
    <3>2. CASE k = n
      <4>1. ~Full(ask, st, d) /\ ~(over > 0 /\ ~Bursts(ask, st, d))
        BY <2>7, <2>2
      <4>2. Used(h, NotP0(h), d) + ask.demand[d] <= General(d)
        <5>1. ~(Used(h, NotP0(h), d) + ask.demand[d] > General(d))
          BY <4>1, <2>7 DEF Full, Counted, Ceiling
        <5> HIDE DEF h, d
        <5> QED
          BY ONLY <5>1, <2>u, <2>v
      <4>3. over <= BurstMax
        <5>1. st.burst \in 0 .. BurstMax
          BY DEF TrialOK
        <5> HIDE DEF h
        <5> QED
          BY <5>1, <4>1, <2>4, <2>v DEF Bursts
      <4>4. ask.tenant # NoTenant => Used(h, Of(h, ask.tenant), d) + ask.demand[d] <= Share[d] + BurstMax
        <5>1. ask.tenant # NoTenant => over = Used(h, Of(h, ask.tenant), d) + ask.demand[d] - Share[d]
          BY <2>7 DEF OverBy, Over
        <5> HIDE DEF h, d, over
        <5> QED
          BY ONLY <5>1, <4>3, <2>u, <2>v
      <4>5. Fits(ask, h, d)
        BY <4>2, <4>4 DEF Fits
      <4> QED
        BY <4>5, <3>2
    <3> QED
      BY <3>1, <3>2, <1>0
  <2> HIDE DEF new, h
  <2> QED
    BY <2>2, <2>3, <2>5, <2>6, <2>7 DEF TrialOK, new
<1> QED
  BY <1>1, <1>2

\* What a request leaves when the loop is through.
LEMMA TriedOK ==
  ASSUME GateTypeOK, NEW ask \in Works
  PROVE  /\ ask \in Work /\ TrialOK(ask, Tried(ask), Len(ask.dims))
         /\ Tried(ask).deferred \in BOOLEAN
<1>1. ask \in Work /\ Len(ask.dims) \in Nat /\ BurstMax \in Nat
  BY GateAssumption, Named
<1>2. PICK st : /\ Tried(ask) = st[Len(ask.dims)]
                /\ st[0] = Starting(ask)
                /\ \A k \in 1 .. Len(ask.dims) : st[k] = TryDim(ask, st[k - 1], ask.dims[k])
  BY <1>1, TriedSteps
<1> DEFINE P == {n \in Nat : n <= Len(ask.dims) => TrialOK(ask, st[n], n) /\ st[n].deferred \in BOOLEAN}
<1>3. 0 \in P
  <2>1. /\ Starting(ask).h = held /\ Starting(ask).deferred = FALSE
        /\ Starting(ask).burst = IF ask.tenant = NoTenant THEN 0 ELSE tokens[ask.tenant]
    BY DEF Starting
  <2>2. Starting(ask).burst \in 0 .. BurstMax
    BY <2>1, <1>1 DEF GateTypeOK, Work
  <2>3. NoMore(held, held)
    <3> SUFFICES ASSUME NEW C \in SUBSET Work, NEW d \in DimSet
                 PROVE  Used(held, PlacesOf(held, C), d) <= Used(held, PlacesOf(held, C), d)
      BY DEF NoMore
    <3>1. PlacesOf(held, C) \in SUBSET DOMAIN held
      BY DEF PlacesOf
    <3>2. Used(held, PlacesOf(held, C), d) \in Nat
      BY <3>1, HeldPlaces DEF GateTypeOK
    <3> QED
      BY <3>2
  <2>4. TrialOK(ask, Starting(ask), 0)
    BY <2>1, <2>2, <2>3 DEF TrialOK, GateTypeOK
  <2> QED
    BY <2>1, <2>4, <1>2
<1>4. ASSUME NEW n \in Nat, n \in P PROVE n + 1 \in P
  <2> SUFFICES ASSUME n + 1 <= Len(ask.dims)
               PROVE  TrialOK(ask, st[n + 1], n + 1) /\ st[n + 1].deferred \in BOOLEAN
    OBVIOUS
  <2>1. n + 1 \in 1 .. Len(ask.dims) /\ n <= Len(ask.dims) /\ (n + 1) - 1 = n
    BY <1>1
  <2>2. TrialOK(ask, st[n], n) /\ st[n].deferred \in BOOLEAN
    BY <1>4, <2>1
  <2>3. st[n + 1] = TryDim(ask, st[n], ask.dims[n + 1])
    BY <1>2, <2>1
  <2> HIDE DEF P
  <2> QED
    BY <2>1, <2>2, <2>3, <1>1, TryDimKeeps DEF GateTypeOK
<1>5. Nat \subseteq P
  <2> HIDE DEF P
  <2> QED
    BY <1>3, <1>4, NatSetInduction
<1> QED
  BY <1>1, <1>2, <1>5

-----------------------------------------------------------------------------
(* The gate.                                                               *)

\* What is not reserved holds all that is not constitutional.
GeneralBounded == \A d \in DimSet : Used(held, NotP0(held), d) <= General(d)

GateInv == GateTypeOK /\ GeneralBounded /\ TenantBounded

LEMMA GateInitOK == GateInit => GateInv
<1> SUFFICES ASSUME GateInit PROVE GateInv
  OBVIOUS
<1>1. GateTypeOK
  BY GateAssumption DEF GateInit, GateTypeOK
<1>2. held \in Seq(Work) /\ NotP0(held) = {} /\ \A t : Of(held, t) \cap NotP0(held) = {}
  BY <1>1 DEF GateInit, GateTypeOK, NotP0
<1>3. \A d : Used(held, {}, d) = 0
  BY TotalEmpty DEF Used
<1>4. \A d \in DimSet : General(d) \in Nat /\ Share[d] + BurstMax \in Nat
  BY GateAssumption DEF General
<1> QED
  BY <1>1, <1>2, <1>3, <1>4 DEF GateInv, GeneralBounded, TenantBounded

\* Where nothing is held that was not held before, the bounds stay.
LEMMA NoMoreKeeps ==
  ASSUME GateInv, NEW h \in Seq(Work), NoMore(h, held)
  PROVE  /\ \A d \in DimSet : Used(h, NotP0(h), d) <= General(d)
         /\ \A t \in Tenants, d \in DimSet :
              Used(h, Of(h, t) \cap NotP0(h), d) <= Share[d] + BurstMax
<1>1. held \in Seq(Work)
  BY DEF GateInv, GateTypeOK
<1>2. ASSUME NEW d \in DimSet, NEW C \in SUBSET Work, NEW n \in Int,
             Used(held, PlacesOf(held, C), d) <= n
      PROVE  Used(h, PlacesOf(h, C), d) <= n
  <2>1. Used(h, PlacesOf(h, C), d) \in Nat /\ Used(held, PlacesOf(held, C), d) \in Nat
    BY <1>1, HeldPlaces DEF PlacesOf
  <2>2. Used(h, PlacesOf(h, C), d) <= Used(held, PlacesOf(held, C), d)
    BY DEF NoMore
  <2> QED
    BY <1>2, <2>1, <2>2
<1>3. \A d \in DimSet : General(d) \in Int /\ Share[d] + BurstMax \in Int
  BY GateAssumption DEF General
<1>4. ASSUME NEW d \in DimSet PROVE Used(h, NotP0(h), d) <= General(d)
  <2>1. NotP0(h) = PlacesOf(h, LesserWork) /\ NotP0(held) = PlacesOf(held, LesserWork)
        /\ LesserWork \in SUBSET Work
    BY <1>1, Kinds DEF LesserWork
  <2>2. Used(held, PlacesOf(held, LesserWork), d) <= General(d)
    BY <2>1 DEF GateInv, GeneralBounded
  <2> QED
    BY <2>1, <2>2, <1>2, <1>3
<1>5. ASSUME NEW t \in Tenants, NEW d \in DimSet
      PROVE  Used(h, Of(h, t) \cap NotP0(h), d) <= Share[d] + BurstMax
  <2> DEFINE C == WorkOf(t) \cap LesserWork
  <2>1. Of(h, t) \cap NotP0(h) = PlacesOf(h, C) /\ Of(held, t) \cap NotP0(held) = PlacesOf(held, C)
        /\ C \in SUBSET Work
    BY <1>1, Kinds DEF LesserWork
  <2> HIDE DEF C
  <2>2. Used(held, PlacesOf(held, C), d) <= Share[d] + BurstMax
    BY <2>1 DEF GateInv, TenantBounded
  <2> QED
    BY <2>1, <2>2, <1>2, <1>3
<1> QED
  BY <1>4, <1>5

LEMMA RecomputedType ==
  ASSUME NEW h, NEW level \in 0 .. 5
  PROVE  Recomputed(h, level) \in 0 .. 5
BY DEF Recomputed

\* What is charged and credited keeps its type.
LEMMA ChargedType ==
  ASSUME GateTypeOK, NEW ask \in Work
  PROVE  /\ Plus(spent, ask.tenant, ask.spend) \in [Tenants -> Nat]
         /\ \A n \in 0 .. BurstMax : SetTokens(ask, n) => tokens' \in [Tenants -> 0 .. BurstMax]
<1>1. ask.spend \in Nat /\ spent \in [Tenants -> Nat] /\ tokens \in [Tenants -> 0 .. BurstMax]
  BY DEF Work, GateTypeOK
<1> QED
  BY <1>1 DEF Plus, SetTokens

LEMMA DeferKeeps ==
  ASSUME GateInv, NEW ask \in Works, Defer(ask)
  PROVE  GateInv'
<1> DEFINE h == Tried(ask).h
           n == Tried(ask).burst
<1>1. /\ ask \in Work /\ h \in Seq(Work) /\ NoMore(h, held) /\ n \in 0 .. BurstMax
  BY TriedOK DEF GateInv, TrialOK
<1>2. held' = h /\ SetTokens(ask, n) /\ UNCHANGED <<rung, spent>>
  BY DEF Defer
<1>3. GateTypeOK'
  BY <1>1, <1>2, ChargedType DEF GateInv, GateTypeOK
<1>4. /\ \A d \in DimSet : Used(h, NotP0(h), d) <= General(d)
      /\ \A t \in Tenants, d \in DimSet : Used(h, Of(h, t) \cap NotP0(h), d) <= Share[d] + BurstMax
  BY <1>1, NoMoreKeeps
<1> HIDE DEF h
<1> QED
  BY <1>2, <1>3, <1>4 DEF GateInv, GeneralBounded, TenantBounded

\* A work that fits in every dimension it asks for keeps the bounds.
LEMMA AppendKeeps ==
  ASSUME GateInv, NEW h \in Seq(Work), NoMore(h, held), NEW ask \in Work,
         ask.class # 0 => \A d \in DimSet : Fits(ask, h, d) \/ ask.demand[d] = 0,
         held' = Append(h, ask)
  PROVE  GeneralBounded' /\ TenantBounded' /\ held' \in Seq(Work)
<1>0. \A d \in DimSet : ask.demand[d] \in Nat /\ General(d) \in Int /\ Share[d] \in Nat /\ BurstMax \in Nat
  BY GateNumbers, Demanded
<1>1. held' \in Seq(Work)
  BY UsedAppend
<1>2. ASSUME NEW d \in DimSet PROVE Used(held', NotP0(held'), d) <= General(d)
  <2>1. Used(h, NotP0(h), d) <= General(d) /\ Used(h, NotP0(h), d) \in Nat
    BY NoMoreKeeps, HeldPlaces DEF NotP0
  <2>2. NotP0(h) = PlacesOf(h, LesserWork) /\ NotP0(held') = PlacesOf(held', LesserWork)
    BY <1>1, Kinds
  <2>3. Used(held', NotP0(held'), d)
          = Used(h, NotP0(h), d) + (IF ask \in LesserWork THEN ask.demand[d] ELSE 0)
    BY <2>2, UsedAppend
  <2>4. ask \in LesserWork =>
          Used(h, NotP0(h), d) + ask.demand[d] <= General(d) \/ ask.demand[d] = 0
    BY DEF Fits, LesserWork
  <2> QED
    BY <2>1, <2>3, <2>4, <1>0
<1>3. ASSUME NEW t \in Tenants, NEW d \in DimSet
      PROVE  Used(held', Of(held', t) \cap NotP0(held'), d) <= Share[d] + BurstMax
  <2> DEFINE C == WorkOf(t) \cap LesserWork
  <2>1. Of(h, t) \cap NotP0(h) = PlacesOf(h, C) /\ Of(held', t) \cap NotP0(held') = PlacesOf(held', C)
        /\ Of(h, t) = PlacesOf(h, WorkOf(t))
    BY <1>1, Kinds
  <2>2. Used(h, Of(h, t) \cap NotP0(h), d) <= Share[d] + BurstMax
        /\ Used(h, Of(h, t) \cap NotP0(h), d) \in Nat /\ Used(h, Of(h, t), d) \in Nat
        /\ Used(h, Of(h, t) \cap NotP0(h), d) <= Used(h, Of(h, t), d)
    BY NoMoreKeeps, HeldPlaces, UsedSubset DEF NotP0, Of
  <2>3. Used(held', PlacesOf(held', C), d)
          = Used(h, PlacesOf(h, C), d) + (IF ask \in C THEN ask.demand[d] ELSE 0)
    BY UsedAppend
  <2>4. ask \in C =>
          Used(h, Of(h, t), d) + ask.demand[d] <= Share[d] + BurstMax \/ ask.demand[d] = 0
    <3>1. ask \in C => ask.class # 0 /\ ask.tenant = t /\ t # NoTenant
      BY GateAssumption DEF WorkOf, LesserWork
    <3> QED
      BY <3>1 DEF Fits
  <2> HIDE DEF C
  <2>r. /\ Used(h, Of(h, t) \cap NotP0(h), d) <= Share[d] + BurstMax
        /\ Used(h, Of(h, t) \cap NotP0(h), d) \in Int /\ Used(h, Of(h, t), d) \in Int
        /\ Used(h, Of(h, t) \cap NotP0(h), d) <= Used(h, Of(h, t), d)
    BY <2>2
  <2>5. \A a, b, c, w \in Int : a <= c /\ a <= b /\ b + w <= c => a + w <= c
    OBVIOUS
  <2>6. CASE ask \in C /\ ask.demand[d] # 0
    <3>1. /\ Used(h, PlacesOf(h, C), d) <= Used(h, Of(h, t), d)
          /\ Used(h, PlacesOf(h, C), d) \in Int /\ Used(h, Of(h, t), d) \in Int
          /\ Used(h, PlacesOf(h, C), d) <= Share[d] + BurstMax
      BY ONLY <2>1, <2>r, Zenon
    <3>2. Used(h, Of(h, t), d) + ask.demand[d] <= Share[d] + BurstMax
      BY <2>4, <2>6
    <3>3. Share[d] + BurstMax \in Int /\ ask.demand[d] \in Int
      BY <1>0
    <3>4. Used(h, PlacesOf(h, C), d) + ask.demand[d] <= Share[d] + BurstMax
      BY ONLY <3>1, <3>2, <3>3, <2>5
    <3>5. Used(held', PlacesOf(held', C), d) <= Share[d] + BurstMax
      BY ONLY <3>4, <2>3, <2>6
    <3> QED
      BY <3>5, <2>1
  <2>7. CASE ask \notin C \/ ask.demand[d] = 0
    <3>1. Used(h, PlacesOf(h, C), d) <= Share[d] + BurstMax /\ Used(h, PlacesOf(h, C), d) \in Int
      BY ONLY <2>1, <2>r, Zenon
    <3>2. Used(held', PlacesOf(held', C), d) <= Share[d] + BurstMax
      BY ONLY <3>1, <2>3, <2>7
    <3> QED
      BY <3>2, <2>1
  <2> QED
    BY <2>6, <2>7
<1> QED
  BY <1>1, <1>2, <1>3 DEF GeneralBounded, TenantBounded

LEMMA AdmitKeeps ==
  ASSUME GateInv, NEW ask \in Works, Admit(ask)
  PROVE  GateInv'
<1> DEFINE h == Tried(ask).h
           n == Tried(ask).burst
<1>1. /\ ask \in Work /\ h \in Seq(Work) /\ NoMore(h, held) /\ n \in 0 .. BurstMax
      /\ TrialOK(ask, Tried(ask), Len(ask.dims))
  BY TriedOK DEF GateInv, TrialOK
<1>2. /\ held' = Append(h, ask) /\ rung' = Recomputed(held', rung)
      /\ spent' = Plus(spent, ask.tenant, ask.spend) /\ SetTokens(ask, n)
      /\ ~Tried(ask).deferred
  BY DEF Admit
<1>3. ask.class # 0 => \A d \in DimSet : Fits(ask, h, d) \/ ask.demand[d] = 0
  <2>1. \A d \in ToSet(ask.dims) : \E k \in 1 .. Len(ask.dims) : d = ask.dims[k]
    BY <1>1, Named
  <2>2. \A d \in DimSet : d \in ToSet(ask.dims) \/ ask.demand[d] = 0
    BY GateAssumption
  <2> QED
    BY <1>1, <1>2, <2>1, <2>2 DEF TrialOK
<1>4. GeneralBounded' /\ TenantBounded' /\ held' \in Seq(Work)
  <2> HIDE DEF h
  <2> QED
    BY <1>1, <1>2, <1>3, AppendKeeps
<1>5. GateTypeOK'
  <2>1. spent' \in [Tenants -> Nat] /\ tokens' \in [Tenants -> 0 .. BurstMax]
    BY <1>1, <1>2, ChargedType DEF GateInv
  <2>2. rung' \in 0 .. 5
    BY <1>2, RecomputedType DEF GateInv, GateTypeOK
  <2> QED
    BY <1>4, <2>1, <2>2 DEF GateTypeOK
<1> QED
  BY <1>4, <1>5 DEF GateInv

LEMMA ReleaseKeeps ==
  ASSUME GateInv, NEW i \in DOMAIN held, NEW actual \in Nat, Release(i, actual)
  PROVE  GateInv'
<1>1. held \in Seq(Work) /\ rung \in 0 .. 5 /\ spent \in [Tenants -> Nat] /\ held[i] \in Work
  BY DEF GateInv, GateTypeOK
<1>2. held' = Without(held, {i}) /\ rung' = Recomputed(held', rung) /\ tokens' = tokens
  BY DEF Release
<1>3. held' \in Seq(Work)
  BY <1>1, <1>2, WithoutPlaces
<1>4. NoMore(held', held)
  <2> SUFFICES ASSUME NEW C \in SUBSET Work, NEW d \in DimSet
               PROVE  Used(held', PlacesOf(held', C), d) <= Used(held, PlacesOf(held, C), d)
    BY DEF NoMore
  <2> QED
    BY <1>1, <1>2, UsedWithoutLess
<1>5. GeneralBounded' /\ TenantBounded'
  BY <1>3, <1>4, NoMoreKeeps DEF GeneralBounded, TenantBounded
<1>6. spent' \in [Tenants -> Nat]
  <2> DEFINE final == Plus(spent, held[i].tenant, actual - held[i].spend)
  <2>1. held[i].spend \in Nat
    BY <1>1 DEF Work
  <2>2. \A t \in Tenants : final[t] \in Int
    BY <1>1, <2>1 DEF Plus
  <2>3. spent' = [t \in Tenants |-> IF final[t] < 0 THEN 0 ELSE final[t]]
    BY DEF Release
  <2> HIDE DEF final
  <2> QED
    BY <2>2, <2>3
<1>7. GateTypeOK'
  BY <1>1, <1>2, <1>3, <1>6, RecomputedType DEF GateInv, GateTypeOK
<1> QED
  BY <1>5, <1>7 DEF GateInv

LEMMA GateStep == GateInv /\ [GateNext]_gateVars => GateInv'
<1> SUFFICES ASSUME GateInv, [GateNext]_gateVars PROVE GateInv'
  OBVIOUS
<1>1. ASSUME NEW ask \in Works, Defer(ask) \/ Admit(ask) PROVE GateInv'
  BY <1>1, DeferKeeps, AdmitKeeps
<1>2. ASSUME NEW i \in DOMAIN held, NEW actual \in Actuals \cup {held[i].spend}, Release(i, actual)
      PROVE  GateInv'
  <2>1. held[i] \in Work
    BY DEF GateInv, GateTypeOK
  <2>2. actual \in Nat
    BY <2>1, GateAssumption DEF Work
  <2> QED
    BY <1>2, <2>2, ReleaseKeeps
<1>3. ASSUME NEW t \in Tenants, Refill(t) PROVE GateInv'
  <2>1. GateTypeOK'
    BY <1>3, GateAssumption DEF Refill, GateInv, GateTypeOK
  <2> QED
    BY <1>3, <2>1 DEF Refill, GateInv, GeneralBounded, TenantBounded
<1>4. CASE UNCHANGED gateVars
  BY <1>4 DEF gateVars, GateInv, GateTypeOK, GeneralBounded, TenantBounded
<1> QED
  BY <1>1, <1>2, <1>3, <1>4 DEF GateNext

\* Fairness among tenants: whatever is requested, preempted and released, and
\* however often its burst tokens come back, a tenant holds of each dimension at
\* most its share and one burst, its constitutional actions left aside.
THEOREM TenantBoundedCorrect == GateSpec => []TenantBounded
<1>1. GateInv => TenantBounded
  BY DEF GateInv
<1> QED
  BY <1>1, GateInitOK, GateStep, PTL DEF GateSpec

\* A constitutional action that fits into what the reserve has left evicts
\* nothing and is not deferred, in no dimension.
LEMMA ReserveTried ==
  ASSUME GateInv, NEW ask \in Works, ask.class = 0, ask.tenant = NoTenant,
         \A d \in DimSet : Used(held, DOMAIN held \ NotP0(held), d) + ask.demand[d] <= Reserve[d]
  PROVE  Tried(ask).deferred = FALSE /\ Tried(ask).evicted = 0
<1>0. held \in Seq(Work) /\ ask \in Work
  BY GateAssumption DEF GateInv, GateTypeOK
<1>d. Len(ask.dims) \in Nat /\ \A k \in 1 .. Len(ask.dims) : ask.dims[k] \in DimSet
  BY <1>0, Named
<1> DEFINE S == [h |-> held, evicted |-> 0, deferred |-> FALSE, burst |-> 0]
<1>1. ASSUME NEW d \in DimSet, NEW T \in SUBSET DOMAIN held
      PROVE  ~(Used(held, T, d) + ask.demand[d] > Ceiling(ask, d))
  <2>1. Used(held, T, d) <= Used(held, DOMAIN held, d)
    BY <1>0, UsedSubset
  <2>2. NotP0(held) \in SUBSET DOMAIN held
    BY DEF NotP0
  <2>3. Used(held, DOMAIN held, d) = Used(held, NotP0(held), d) + Used(held, DOMAIN held \ NotP0(held), d)
    <3>1. DOMAIN held \in SUBSET DOMAIN held
      OBVIOUS
    <3> QED
      BY ONLY <1>0, <2>2, <3>1, d \in DimSet, UsedParts
  <2>4. Used(held, NotP0(held), d) <= General(d)
    BY DEF GateInv, GeneralBounded
  <2>5. Used(held, DOMAIN held \ NotP0(held), d) + ask.demand[d] <= Reserve[d]
    OBVIOUS
  <2>6. /\ Used(held, T, d) \in Nat /\ Used(held, DOMAIN held, d) \in Nat
        /\ Used(held, NotP0(held), d) \in Nat
        /\ Used(held, DOMAIN held \ NotP0(held), d) \in Nat
    BY <1>0, <2>2, HeldPlaces
  <2>7. /\ ask.demand[d] \in Nat /\ Total[d] \in Nat /\ Reserve[d] \in Nat
        /\ General(d) = Total[d] - Reserve[d] /\ Ceiling(ask, d) = Total[d]
    BY <1>0, GateAssumption DEF Work, General, Ceiling
  <2>8. \A t, a, n, z, w, g, r, c \in Int :
          t <= a /\ a = n + z /\ n <= c - r /\ z + w <= r => ~(t + w > c)
    OBVIOUS
  <2>9. Used(held, NotP0(held), d) <= Total[d] - Reserve[d]
    BY <2>4, <2>7
  <2> QED
    BY ONLY <2>1, <2>3, <2>5, <2>6, <2>7, <2>8, <2>9
<1>2. ASSUME NEW d \in DimSet PROVE TryDim(ask, S, d) = S
  <2>1. Victims(held, ask, d) = {}
    <3>1. \A T : DOMAIN held \ T \in SUBSET DOMAIN held
      OBVIOUS
    <3> QED
      BY <1>1, <3>1 DEF Victims, Counted
  <2>2. LeftBy(ask, S, d) = held
    BY <2>1, <1>0, WithoutNothing DEF LeftBy
  <2>3. ~Full(ask, S, d)
    BY <2>2, <1>1 DEF Full, Counted
  <2>4. OverBy(ask, S, d) = 0
    BY DEF OverBy, Over
  <2>5. ~Bursts(ask, S, d)
    BY <2>4 DEF Bursts
  <2>6. Cardinality(Victims(S.h, ask, d)) = 0
    BY <2>1, FS_EmptySet
  <2>7. TryDim(ask, S, d) = [h |-> held, evicted |-> 0, burst |-> 0, deferred |-> FALSE]
    <3>1. S.h = held /\ S.evicted = 0 /\ S.burst = 0 /\ S.deferred = FALSE
      OBVIOUS
    <3> HIDE DEF S
    <3>2. (Full(ask, S, d) \/ (OverBy(ask, S, d) > 0 /\ ~Bursts(ask, S, d))) = FALSE
      BY <2>3, <2>4
    <3>3. (IF Bursts(ask, S, d) /\ ~Full(ask, S, d) THEN S.burst - OverBy(ask, S, d) ELSE S.burst) = 0
      BY <2>5, <3>1
    <3>4. S.evicted + Cardinality(Victims(S.h, ask, d)) = 0
      BY ONLY <2>6, <3>1
    <3>5. TryDim(ask, S, d) =
           [h |-> LeftBy(ask, S, d),
                 evicted |-> S.evicted + Cardinality(Victims(S.h, ask, d)),
                 burst |-> IF Bursts(ask, S, d) /\ ~Full(ask, S, d)
                             THEN S.burst - OverBy(ask, S, d) ELSE S.burst,
                 deferred |-> Full(ask, S, d) \/ (OverBy(ask, S, d) > 0 /\ ~Bursts(ask, S, d))]
      BY <3>1, TryDimIs
    <3> QED
      BY ONLY <2>2, <3>2, <3>3, <3>4, <3>5
  <2> QED
    BY <2>7
<1>3. PICK st : /\ Tried(ask) = st[Len(ask.dims)]
                /\ st[0] = Starting(ask)
                /\ \A k \in 1 .. Len(ask.dims) : st[k] = TryDim(ask, st[k - 1], ask.dims[k])
  BY <1>d, TriedSteps
<1> DEFINE P == {n \in Nat : n <= Len(ask.dims) => st[n] = S}
<1>4. 0 \in P
  BY <1>3 DEF Starting
<1>5. ASSUME NEW n \in Nat, n \in P PROVE n + 1 \in P
  <2> SUFFICES ASSUME n + 1 <= Len(ask.dims) PROVE st[n + 1] = S
    OBVIOUS
  <2> HIDE DEF S
  <2>1. n + 1 \in 1 .. Len(ask.dims) /\ n <= Len(ask.dims) /\ (n + 1) - 1 = n
    BY <1>d
  <2>2. st[n] = S
    BY <1>5, <2>1
  <2>3. ask.dims[n + 1] \in DimSet
    BY <2>1, <1>d
  <2> HIDE DEF P
  <2>4. st[n + 1] = TryDim(ask, st[n], ask.dims[n + 1])
    BY <1>3, <2>1
  <2> QED
    BY <1>2, <2>2, <2>3, <2>4
<1>6. Nat \subseteq P
  <2> HIDE DEF P
  <2> QED
    BY <1>4, <1>5, NatSetInduction
<1>7. Tried(ask) = S
  <2> HIDE DEF S
  <2>1. Len(ask.dims) \in P
    <3> HIDE DEF P
    <3> QED
      BY <1>d, <1>6
  <2>2. Len(ask.dims) <= Len(ask.dims)
    BY <1>d
  <2>3. st[Len(ask.dims)] = S
    BY <2>1, <2>2
  <2> QED
    BY <2>3, <1>3
<1> QED
  BY <1>7

\* The constitutional reserve: an action of P0 that fits into what is left of
\* it is admitted, on every rung of the ladder, and nothing is evicted for it.
THEOREM ReserveCorrect == GateSpec => []ReserveRunnable
<1>1. GateInv => ReserveRunnable
  <2> SUFFICES ASSUME GateInv, NEW ask \in Works, ask.class = 0, ask.tenant = NoTenant,
                      \A d \in DimSet :
                        Used(held, DOMAIN held \ NotP0(held), d) + ask.demand[d] <= Reserve[d]
               PROVE  Outcome(ask) = "admitted" /\ Tried(ask).evicted = 0
    BY DEF ReserveRunnable
  <2>1. Tried(ask).deferred = FALSE /\ Tried(ask).evicted = 0
    BY ReserveTried
  <2>2. ask.class \in AdmissibleAt(rung)
    BY DEF AdmissibleAt, GateInv, GateTypeOK
  <2>3. ~OverBudget(ask)
    BY DEF OverBudget
  <2>4. Outcome(ask) = "admitted"
    BY <2>1, <2>2, <2>3 DEF Outcome
  <2> QED
    BY <2>1, <2>4
<1> QED
  BY <1>1, GateInitOK, GateStep, PTL DEF GateSpec

\* The reservations, the rung, what is spent and the burst tokens keep their types.
THEOREM GateTypes == GateSpec => []GateTypeOK
<1>1. GateInv => GateTypeOK
  BY DEF GateInv
<1> QED
  BY <1>1, GateInitOK, GateStep, PTL DEF GateSpec

-----------------------------------------------------------------------------
(* The circuit breaker                                                     *)

\* The transition keeps the type whatever record it starts from: it begins both
\* counts anew.
LEMMA MovedTypes ==
  ASSUME NEW record, record.state \in States,
         record \in [state : States, failures : Nat, successes : 0 .. SuccessThreshold - 1,
                     wait : 0 .. OpenFor],
         NEW to \in States
  PROVE  Moved(record, to) \in [state : States, failures : Nat,
                                successes : 0 .. SuccessThreshold - 1, wait : 0 .. OpenFor]
BY BreakerAssumption DEF Moved

LEMMA BreakerStep == BreakerTypeOK /\ [BreakerNext]_breakerVars => BreakerTypeOK'
<1> SUFFICES ASSUME BreakerTypeOK, [BreakerNext]_breakerVars PROVE BreakerTypeOK'
  OBVIOUS
<1> DEFINE Circuit == [state : States, failures : Nat, successes : 0 .. SuccessThreshold - 1,
                       wait : 0 .. OpenFor]
<1>1. circuit \in Circuit /\ \A to \in States : Moved(circuit, to) \in Circuit
  BY MovedTypes DEF BreakerTypeOK
<1>2. {"closed", "open", "half-open"} = States
  BY DEF States
<1>3. OnSuccess(circuit) \in Circuit
  BY <1>1, <1>2, BreakerAssumption DEF OnSuccess
<1>4. OnFailure(circuit) \in Circuit
  <2> DEFINE counted == [circuit EXCEPT !.failures = @ + 1]
  <2>1. counted \in Circuit
    BY <1>1
  <2>2. Moved(counted, "open") \in Circuit
    BY <1>2, <2>1, MovedTypes
  <2> HIDE DEF Circuit
  <2> QED
    BY <1>1, <1>2, <2>1, <2>2 DEF OnFailure
<1>5. circuit' \in Circuit
  <2>1. CASE OpenTick
    BY <1>1, <2>1, BreakerAssumption DEF OpenTick
  <2> HIDE DEF Circuit
  <2>2. CASE ~OpenTick
    BY <1>1, <1>2, <1>3, <1>4, <2>2
       DEF BreakerNext, breakerVars, Begin, Probe, Succeed, FailTransiently, FailForGoodReason,
           ResetCircuit, Change
  <2> QED
    BY <2>1, <2>2
<1>6. calls' \in [Calls -> {"idle", "closed", "half-open"}]
  <2>1. LetThrough => circuit.state \in {"closed", "half-open"}
    BY <1>1, <1>2 DEF LetThrough
  <2> QED
    BY <2>1 DEF BreakerTypeOK, BreakerNext, breakerVars, Begin, Probe, Succeed, FailTransiently,
                FailForGoodReason, ResetCircuit, OpenTick, Change
<1>7. healthy' \in BOOLEAN
  BY DEF BreakerTypeOK, BreakerNext, breakerVars, Begin, Probe, Succeed, FailTransiently,
         FailForGoodReason, ResetCircuit, OpenTick, Change
<1> QED
  BY <1>5, <1>6, <1>7 DEF BreakerTypeOK

\* The successes of a half-open circuit never reach the threshold that closes it
\* unnoticed, however late the calls end that an earlier state let through.
THEOREM BreakerTypes == BreakerSpec => []BreakerTypeOK
<1>1. BreakerInit => BreakerTypeOK
  BY BreakerAssumption DEF BreakerInit, BreakerTypeOK, States
<1> QED
  BY <1>1, BreakerStep, PTL DEF BreakerSpec

-----------------------------------------------------------------------------
(* The parts side by side                                                  *)

\* What the instance of punctual workers does, the other one may do as well: its
\* workers report in time, and its retries wait for one tick.
LEMMA PunctualSteps ==
  ASSUME SlowWorkers, 1 \in Backoffs, Punctual!Next
  PROVE  Next
<1>1. Punctual!Tick => Tick
  BY Zenon
     DEF Tick, Punctual!Tick, Less1, Punctual!Less1
<1>2. ASSUME NEW j \in Jobs, Punctual!Enqueue(j) PROVE Enqueue(j)
  <2>1. PICK stamp \in Punctual!NextStamps, delay \in {1} \cup {0} :
          Punctual!Write(Punctual!Only(j, [Punctual!NoJob EXCEPT !.status = "queued",
                                             !.delay = delay, !.created = stamp]))
    BY <1>2, Zenon DEF Punctual!Enqueue
  <2>2. Write(Only(j, [NoJob EXCEPT !.status = "queued", !.delay = delay, !.created = stamp]))
    BY <2>1, Zenon DEF Write, Punctual!Write, Only, Punctual!Only, NoJob, Punctual!NoJob
  <2>3. stamp \in NextStamps
    BY <2>1, Zenon DEF NextStamps, Punctual!NextStamps, Known, Punctual!Known
  <2>4. delay \in Backoffs \cup {0}
    BY <2>1
  <2>5. j \notin Known /\ UNCHANGED <<work, granted, lapses, crashes>>
    BY <1>2, Zenon DEF Punctual!Enqueue, Known, Punctual!Known
  <2> QED
    BY <2>2, <2>3, <2>4, <2>5, Zenon DEF Enqueue
<1>3. ASSUME NEW w \in Workers
      PROVE  /\ Punctual!Claim(w) => Claim(w)
             /\ Punctual!ClaimNothing(w) => ClaimNothing(w)
  BY Zenon
     DEF Claim, Punctual!Claim, ClaimNothing, Punctual!ClaimNothing, Best, Punctual!Best,
         Beats, Punctual!Beats, Candidates, Punctual!Candidates, Scan, Punctual!Scan, Swept,
         Punctual!Swept, Lapsed, Punctual!Lapsed, Claimed, Punctual!Claimed, Requeued,
         Punctual!Requeued, Write, Punctual!Write
<1>4. ASSUME NEW w \in Workers, NEW j \in Jobs
      PROVE  /\ Punctual!Heartbeat(w, j) => Heartbeat(w, j)
             /\ Punctual!Complete(w, j) => Complete(w, j)
             /\ \A retryable : Punctual!FailForGood(w, j, retryable) => FailForGood(w, j, retryable)
  BY Zenon
     DEF Heartbeat, Punctual!Heartbeat, Complete, Punctual!Complete, FailForGood,
         Punctual!FailForGood, MayReport, Punctual!MayReport, Honoured, Punctual!Honoured,
         Exhausted, Punctual!Exhausted, Larger, Punctual!Larger, Only, Punctual!Only,
         Finished, Punctual!Finished, Write, Punctual!Write
<1>5. ASSUME NEW w \in Workers, NEW j \in Jobs, Punctual!FailAndRetry(w, j)
      PROVE  FailAndRetry(w, j)
  <2>1. PICK delay \in {1} :
          Punctual!Write(Punctual!Only(j, [Punctual!Requeued(jobs[j]) EXCEPT !.delay = delay]))
    BY <1>5, Zenon DEF Punctual!FailAndRetry
  <2>2. Write(Only(j, [Requeued(jobs[j]) EXCEPT !.delay = delay])) /\ delay \in Backoffs
    BY <2>1, Zenon
       DEF Write, Punctual!Write, Only, Punctual!Only, Requeued, Punctual!Requeued
  <2>3. MayReport(w, j) /\ ~Exhausted(j) /\ Finished(w)
    BY <1>5, Zenon
       DEF Punctual!FailAndRetry, MayReport, Punctual!MayReport, Exhausted, Punctual!Exhausted,
           Finished, Punctual!Finished
  <2> QED
    BY <2>2, <2>3, Zenon DEF FailAndRetry
<1>6. ASSUME NEW w \in Workers
      PROVE  /\ Punctual!Report(w) => Report(w)
             /\ Punctual!Abandon(w) => Abandon(w)
             /\ Punctual!Crash(w) => Crash(w)
  BY <1>4, <1>5, Zenon
     DEF Report, Punctual!Report, Abandon, Punctual!Abandon, Crash, Punctual!Crash,
         Finished, Punctual!Finished, queueVars, Punctual!queueVars
<1> QED
  BY <1>1, <1>2, <1>3, <1>4, <1>6, Zenon DEF Next, Punctual!Next

\* A step of the whole is a step of one part, and the others stand still.
LEMMA RuntimeStep ==
  ASSUME SlowWorkers, 1 \in Backoffs, [RuntimeNext]_allVars
  PROVE  /\ [Next]_vars
         /\ [RelayNext]_relayVars
         /\ [GateNext]_gateVars
         /\ [BreakerNext]_breakerVars
<1>1. CASE UNCHANGED allVars
  BY <1>1 DEF allVars
<1>2. CASE OfJobs("jobs", Next /\ jobs'[cut].status = "absent")
  BY <1>2 DEF OfJobs
<1>3. CASE OfJobs("punctual", Punctual!Next /\ jobs'[parse].status = "absent")
  BY <1>3, PunctualSteps DEF OfJobs
<1>4. CASE OfRelay(RelayNext /\ \A z \in zombies' : z[1] = "floor")
  BY <1>4 DEF OfRelay
<1>5. CASE OfGate(GateNext)
  BY <1>5 DEF OfGate
<1>6. CASE OfBreaker(BreakerNext)
  BY <1>6 DEF OfBreaker
<1> QED
  BY <1>1, <1>2, <1>3, <1>4, <1>5, <1>6 DEF RuntimeNext

\* What is proved of each part holds of the whole that the run checks, whose
\* punctual workers are a case of those that may outlast their leases.
THEOREM RuntimeOfParts ==
  ASSUME SlowWorkers, 1 \in Backoffs
  PROVE  RuntimeSpec => Spec /\ RelaySpec /\ GateSpec /\ BreakerSpec
<1>1. RuntimeInit => Init /\ RelayInit /\ GateInit /\ BreakerInit
  BY DEF RuntimeInit
<1>2. [RuntimeNext]_allVars => /\ [Next]_vars
                               /\ [RelayNext]_relayVars
                               /\ [GateNext]_gateVars
                               /\ [BreakerNext]_breakerVars
  BY RuntimeStep
<1> QED
  BY <1>1, <1>2, PTL DEF RuntimeSpec, Spec, RelaySpec, GateSpec, BreakerSpec

\* Every variable of the four parts keeps its type while they run side by side.
THEOREM RuntimeTypesCorrect ==
  ASSUME SlowWorkers, 1 \in Backoffs
  PROVE  RuntimeSpec => []RuntimeTypes
<1> QED
  BY RuntimeOfParts, TypeCorrect, RelayTypes, GateTypes, BreakerTypes, PTL DEF RuntimeTypes

\* The properties of the parts, of the whole: indexes in step, a reserve that
\* stays runnable, tenants within their bounds, readers that are given events in
\* order, and claims that are exclusive while workers are disciplined.
THEOREM RuntimeCorrect ==
  ASSUME SlowWorkers, 1 \in Backoffs, Disciplined
  PROVE  RuntimeSpec => /\ [](IndexesInStep /\ ReserveRunnable /\ TenantBounded)
                        /\ ImplementsOrderedFeed
                        /\ ImplementsExclusiveWork
<1> QED
  BY RuntimeOfParts, IndexesCorrect, ReserveCorrect, TenantBoundedCorrect, RelayImplementsFeed,
     QueueImplementsExclusiveWork, PTL
=============================================================================
