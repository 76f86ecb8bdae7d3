------------------------------ MODULE JobQueue ------------------------------
(***************************************************************************)
(* The in-memory job queue of platform-runtime, with the workers that      *)
(* claim from it.  packages/platform-runtime/src/inMemoryJobQueue.ts.      *)
(*                                                                         *)
(* Every method of the queue is synchronous, so one call is one step.      *)
(* Wall-clock times are kept as the time that remains: `lease' is          *)
(* claimedUntil - now and `delay' is availableAt - now, both floored at 0, *)
(* which is all the code compares them for.  createdAt is kept as a stamp  *)
(* that two enqueues of the same millisecond share.                        *)
(***************************************************************************)
EXTENDS Integers, FiniteSets

CONSTANTS
  Jobs,            \* the job ids callers use
  Workers,         \* the worker names passed to claim and heartbeat
  Types,           \* job types, the bulkheads
  JobType,         \* JobType[j]: input.jobType of job j
  Priority,        \* Priority[j]: input.priority of job j
  Serves,          \* Serves[w]: the jobTypes worker w claims
  Leases,          \* the leaseMs values workers ask for
  HeartbeatLease,  \* the 30_000 a heartbeat grants
  Backoffs,        \* what backoffDelayMs may return
  MaxAttempts,     \* input.maxAttempts
  NoWorker,        \* claimedBy: undefined
  SlowWorkers,     \* may a live worker outlast its lease?
  LateReports,     \* may a worker report on a job after its lease lapsed?
  MaxCrashes,      \* bound: worker crashes in a behaviour
  AttemptCap       \* bound: claims of one job explored

ASSUME QueueAssumption ==
  /\ JobType \in [Jobs -> Types]
  /\ Priority \in [Jobs -> Nat]
  /\ Serves \in [Workers -> SUBSET Types]
  /\ Leases \subseteq Nat \ {0}
  /\ HeartbeatLease \in Nat \ {0}
  /\ Backoffs \subseteq Nat
  /\ MaxAttempts \in Nat \ {0}
  /\ NoWorker \notin Workers
  /\ SlowWorkers \in BOOLEAN
  /\ LateReports \in BOOLEAN
  /\ MaxCrashes \in Nat
  /\ AttemptCap \in Nat

VARIABLES
  jobs,          \* the Map of jobs; status "absent" is "not in the map"
  queuedByType,  \* index: ids of the queued jobs of each type
  running,       \* index: ids of the jobs a worker holds
  work,          \* work[w]: the set of (at most one) job w is processing
  granted,       \* granted[w]: what remains of the lease w was given
  lapses,        \* history: how often a lease on the job was reclaimed
  crashes        \* history: worker crashes so far

queueVars == <<jobs, queuedByType, running>>
vars == <<jobs, queuedByType, running, work, granted, lapses, crashes>>

Status == {"absent", "queued", "running", "completed", "failed"}

Job == [status : Status, attempts : Nat, claimedBy : Workers \cup {NoWorker},
        lease : Nat, delay : Nat, created : Nat]

NoJob == [status |-> "absent", attempts |-> 0, claimedBy |-> NoWorker,
          lease |-> 0, delay |-> 0, created |-> 0]

Init ==
  /\ jobs = [j \in Jobs |-> NoJob]
  /\ queuedByType = [t \in Types |-> {}]
  /\ running = {}
  /\ work = [w \in Workers |-> {}]
  /\ granted = [w \in Workers |-> 0]
  /\ lapses = [j \in Jobs |-> 0]
  /\ crashes = 0

-----------------------------------------------------------------------------
(* The single write path, and the queue's own steps                        *)

\* Mutant: the index entry of the previous record is not removed.
WriteLeavingQueued(new) ==
  LET written == DOMAIN new
      Now(s) == {j \in written : new[j].status = s}
  IN
  /\ jobs' = [j \in Jobs |-> IF j \in written THEN new[j] ELSE jobs[j]]
  /\ queuedByType' = [t \in Types |->
       queuedByType[t] \cup {j \in Now("queued") : JobType[j] = t}]
  /\ running' = (running \ written) \cup Now("running")

\* `write', for each job of the domain of `new'.
Write(new) ==
  LET written == DOMAIN new
      Was(s) == {j \in written : jobs[j].status = s}
      Now(s) == {j \in written : new[j].status = s}
  IN
  /\ jobs' = [j \in Jobs |-> IF j \in written THEN new[j] ELSE jobs[j]]
  /\ queuedByType' = [t \in Types |->
       (queuedByType[t] \ {j \in Was("queued") : JobType[j] = t})
         \cup {j \in Now("queued") : JobType[j] = t}]
  /\ running' = (running \ Was("running")) \cup Now("running")

Only(j, record) == [k \in {j} |-> record]

\* The record `claim' writes for a lapsed lease.
Requeued(job) ==
  [job EXCEPT !.status = "queued", !.claimedBy = NoWorker, !.lease = 0]

Known == {j \in Jobs : jobs[j].status # "absent"}

\* createdAt of the next enqueue: no earlier than any before, maybe the same.
NextStamps ==
  IF Known = {} THEN {0}
  ELSE {stamp \in UNION {{jobs[k].created, jobs[k].created + 1} : k \in Known} :
          \A k \in Known : jobs[k].created <= stamp}

\* Enqueueing a jobId again returns the existing job and changes nothing.
Enqueue(j) ==
  /\ j \notin Known
  /\ \E stamp \in NextStamps, delay \in Backoffs \cup {0} :
       Write(Only(j, [NoJob EXCEPT !.status = "queued", !.delay = delay,
                                   !.created = stamp]))
  /\ UNCHANGED <<work, granted, lapses, crashes>>

\* Mutant: off by one, a lease is reclaimed before it is over.
LapsedEarly == {j \in running : jobs[j].lease <= 1}

Lapsed == {j \in running : jobs[j].lease = 0}

Swept(j) == IF j \in Lapsed THEN Requeued(jobs[j]) ELSE jobs[j]

\* What the scan reads: the index of each requested type, after the sweep.
Scan(w) ==
  {j \in Jobs : \/ \E t \in Serves[w] : j \in queuedByType[t]
                \/ j \in Lapsed /\ JobType[j] \in Serves[w]}

\* The queued jobs of the requested types that are available.
Candidates(w) ==
  {j \in Scan(w) : /\ Swept(j).status = "queued"
                   /\ Swept(j).delay = 0
                   /\ jobs[j].attempts < AttemptCap}

\* Priority first, then oldest.
Beats(j, k) ==
  \/ Priority[j] > Priority[k]
  \/ Priority[j] = Priority[k] /\ jobs[j].created < jobs[k].created

Best(S) == {j \in S : \A k \in S : ~Beats(k, j)}

\* Mutant: the claim forgets to count.
ClaimedUncounted(j, w, lease) ==
  [Swept(j) EXCEPT !.status = "running", !.claimedBy = w, !.lease = lease]

Claimed(j, w, lease) ==
  [Swept(j) EXCEPT !.status = "running", !.attempts = @ + 1,
                   !.claimedBy = w, !.lease = lease]

\* claim: sweep the lapsed leases, then take the best candidate.
Claim(w) ==
  /\ work[w] = {}
  /\ \E j \in Best(Candidates(w)), lease \in Leases :
       /\ Write([k \in Lapsed \cup {j} |->
                   IF k = j THEN Claimed(j, w, lease) ELSE Requeued(jobs[k])])
       /\ work' = [work EXCEPT ![w] = {j}]
       /\ granted' = [granted EXCEPT ![w] = lease]
  /\ lapses' = [j \in Jobs |-> lapses[j] + IF j \in Lapsed THEN 1 ELSE 0]
  /\ UNCHANGED crashes

\* claim that returns null has still swept.
ClaimNothing(w) ==
  /\ work[w] = {}
  /\ Candidates(w) = {}
  /\ Lapsed # {}
  /\ Write([k \in Lapsed |-> Requeued(jobs[k])])
  /\ lapses' = [j \in Jobs |-> lapses[j] + IF j \in Lapsed THEN 1 ELSE 0]
  /\ UNCHANGED <<work, granted, crashes>>

-----------------------------------------------------------------------------
(* What a worker does with the job it is processing                        *)

MayReport(w, j) == j \in work[w] /\ (granted[w] > 0 \/ LateReports)

Larger(m, n) == IF m > n THEN m ELSE n

\* `job.claimedBy !== worker' returns without effect, and says nothing.
Honoured(w, j) == jobs[j].claimedBy = w

Heartbeat(w, j) ==
  /\ MayReport(w, j)
  /\ Honoured(w, j)
  /\ Write(Only(j, [jobs[j] EXCEPT !.lease = HeartbeatLease]))
  /\ granted' = [granted EXCEPT ![w] = Larger(@, HeartbeatLease)]
  /\ UNCHANGED <<work, lapses, crashes>>

Finished(w) ==
  /\ work' = [work EXCEPT ![w] = {}]
  /\ granted' = [granted EXCEPT ![w] = 0]
  /\ UNCHANGED <<lapses, crashes>>

\* complete: nobody asks who is completing, or whether it is still running.
Complete(w, j) ==
  /\ MayReport(w, j)
  /\ Write(Only(j, [jobs[j] EXCEPT !.status = "completed",
                                   !.claimedBy = NoWorker, !.lease = 0]))
  /\ Finished(w)

Exhausted(j) == jobs[j].attempts >= MaxAttempts

\* fail, not retryable or out of attempts.
FailForGood(w, j, retryable) ==
  /\ MayReport(w, j)
  /\ ~retryable \/ Exhausted(j)
  /\ Write(Only(j, [jobs[j] EXCEPT !.status = "failed",
                                   !.claimedBy = NoWorker, !.lease = 0]))
  /\ Finished(w)

\* fail, retryable: back in the queue behind a backoff.
FailAndRetry(w, j) ==
  /\ MayReport(w, j)
  /\ ~Exhausted(j)
  /\ \E delay \in Backoffs :
       Write(Only(j, [Requeued(jobs[j]) EXCEPT !.delay = delay]))
  /\ Finished(w)

\* A worker that notices its lease has lapsed stops; one that crashes just stops.
Abandon(w) ==
  /\ work[w] # {}
  /\ granted[w] = 0
  /\ Finished(w)
  /\ UNCHANGED queueVars

Crash(w) ==
  /\ work[w] # {}
  /\ crashes < MaxCrashes
  /\ work' = [work EXCEPT ![w] = {}]
  /\ granted' = [granted EXCEPT ![w] = 0]
  /\ crashes' = crashes + 1
  /\ UNCHANGED <<jobs, queuedByType, running, lapses>>

Less1(n) == IF n = 0 THEN 0 ELSE n - 1

\* Time passes.  Unless SlowWorkers, a live worker reports or heartbeats first.
Tick ==
  /\ SlowWorkers \/ \A w \in Workers : granted[w] # 1
  /\ \E j \in Jobs : jobs[j].lease > 0 \/ jobs[j].delay > 0
  /\ jobs' = [j \in Jobs |-> [jobs[j] EXCEPT !.lease = Less1(@), !.delay = Less1(@)]]
  /\ granted' = [w \in Workers |-> Less1(granted[w])]
  /\ UNCHANGED <<queuedByType, running, work, lapses, crashes>>

Report(w) ==
  \E j \in Jobs : \/ Complete(w, j)
                  \/ \E retryable \in BOOLEAN : FailForGood(w, j, retryable)
                  \/ FailAndRetry(w, j)

Next ==
  \/ \E j \in Jobs : Enqueue(j)
  \/ \E w \in Workers : \/ Claim(w)
                        \/ ClaimNothing(w)
                        \/ \E j \in Jobs : Heartbeat(w, j)
                        \/ Report(w)
                        \/ Abandon(w)
                        \/ Crash(w)
  \/ Tick

Spec == Init /\ [][Next]_vars

\* Workers poll, a worker that is processing eventually reports, and time passes.
Fairness ==
  /\ \A w \in Workers : /\ WF_vars(Claim(w) \/ ClaimNothing(w))
                        /\ WF_vars(Report(w))
                        /\ WF_vars(Abandon(w))
  /\ WF_vars(Tick)

FairSpec == Spec /\ Fairness

-----------------------------------------------------------------------------
(* Properties                                                              *)

TypeOK ==
  /\ jobs \in [Jobs -> Job]
  /\ queuedByType \in [Types -> SUBSET Jobs]
  /\ running \in SUBSET Jobs
  /\ work \in [Workers -> SUBSET Jobs]
  /\ granted \in [Workers -> Nat]
  /\ lapses \in [Jobs -> Nat]
  /\ crashes \in Nat

\* The two indexes never drift from the map they are derived from, however
\* enqueues, sweeps, late reports and retries interleave ("derived state that
\* drifts is worse than no index at all").
IndexesInStep ==
  /\ \A t \in Types :
       queuedByType[t] = {j \in Jobs : jobs[j].status = "queued" /\ JobType[j] = t}
  /\ running = {j \in Jobs : jobs[j].status = "running"}

\* Claims are exclusive: no two workers are inside the lease they were given
\* for one job.
ExclusiveClaims ==
  \A v, w \in Workers :
    (granted[v] > 0 /\ granted[w] > 0 /\ work[v] \cap work[w] # {}) => v = w

\* What makes them so: while a worker is inside its lease, the queue records
\* it as the holder for at least as long.
GrantsHonoured ==
  \A w \in Workers : \A j \in work[w] :
    granted[w] > 0 => /\ jobs[j].status = "running"
                      /\ jobs[j].claimedBy = w
                      /\ jobs[j].lease >= granted[w]

\* Retries are bounded once the claims that lapsed are counted apart: a sweep
\* returns a job to the queue without asking how often it was attempted.
RetriesBoundedByLapses ==
  \A j \in Jobs :
    /\ jobs[j].attempts <= MaxAttempts + lapses[j]
    /\ jobs[j].status = "queued" => jobs[j].attempts < MaxAttempts + lapses[j]

\* A job that was completed or failed for good never runs again.
SettledForGood ==
  [][\A j \in Jobs : jobs[j].status \in {"completed", "failed"}
                       => jobs'[j].status = jobs[j].status]_vars

\* Every job that was enqueued is completed or failed in the end, although
\* workers crash with jobs in their hands.
EveryJobSettles ==
  \A j \in Jobs : jobs[j].status = "queued" ~> jobs[j].status \in {"completed", "failed"}

\* What the queue promises its workers, as a specification.
Exclusive == INSTANCE ExclusiveWork
  WITH Items <- Jobs,
       holders <- [j \in Jobs |-> {w \in Workers : j \in work[w] /\ granted[w] > 0}]
ImplementsExclusiveWork == Exclusive!Spec
=============================================================================
