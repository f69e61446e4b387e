--------------------------- MODULE PublishPipeline ---------------------------
(***************************************************************************)
(* The publish pipeline: `publish_jobs` rows, the API handlers that create, *)
(* release, drop and retry them, the two Redis queues and the RQ workers    *)
(* that run `run_publish_job` and `poll_publish_job`.                       *)
(*                                                                         *)
(* The grain is the database transaction.  Every `session_scope` block that *)
(* decides from what it read is two steps, a read and a commit, because     *)
(* the rows are read under READ COMMITTED without a lock; a block that      *)
(* writes the same thing whatever it read is one step.  Enqueueing,         *)
(* transferring and polling lie outside every transaction and are steps of  *)
(* their own, so that another actor, or a crash, can come in between.       *)
(***************************************************************************)
EXTENDS Naturals, FiniteSets

CONSTANTS
    Assets,       \* source videos
    Jobs,         \* ids of publish_jobs rows, each used at most once
    AssetOf,      \* the asset a job publishes
    PlatformOf,   \* the platform it publishes to
    Workers,      \* RQ worker processes
    Serves,       \* the queues a worker was started with
    Handlers,     \* API request threads
    MaxAttempts,  \* MAX_ATTEMPTS
    MaxPolls,     \* MAX_POLLS
    MaxRetries,   \* bound of the model: operator retries per job
    Faults,       \* what may go wrong: "worker", "api", "transport"
    NoJob         \* the job of an idle worker

Platforms == {"facebook_reel", "facebook_video", "tiktok"}
Queues == {"facebook", "tiktok"}

ASSUME ConstantsOK ==
    /\ AssetOf \in [Jobs -> Assets]
    /\ PlatformOf \in [Jobs -> Platforms]
    /\ IsFiniteSet(Workers)
    /\ Serves \in [Workers -> SUBSET Queues]
    /\ MaxAttempts \in Nat \ {0}
    /\ MaxPolls \in Nat \ {0}
    /\ MaxRetries \in Nat
    /\ Faults \subseteq {"worker", "api", "transport"}
    /\ NoJob \notin Jobs

VARIABLES
    state,       \* PublishJob.state, or that the row does not exist
    attempts,    \* PublishJob.attempts
    external,    \* whether PublishJob.external_id is set
    runs,        \* queued run_publish_job tasks of a job
    polls,       \* queued poll_publish_job tasks of a job, by poll_count
    req,         \* what each API request has read and still has to do
    wpc,         \* where each worker is in its task
    ctx,         \* the locals of that task
    posts,       \* history: publishes the platform accepted
    blind,       \* history: accepted publishes whose answer was not recorded
    dispatches,  \* history: tasks enqueued by `dispatch`
    retries,     \* history: operator retries
    lost         \* history: jobs whose task or pending dispatch was dropped

rows == <<state, attempts, external>>
queues == <<runs, polls>>
history == <<posts, blind, dispatches, retries, lost>>
vars == <<rows, queues, req, wpc, ctx, history>>

Terminal == {"published", "failed"}
Live == {"pending", "uploading", "processing"}
Gone == {"none", "deleted"}
RowState == Terminal \cup Live \cup Gone \cup {"scheduled"}

Exists(j) == state[j] \notin Gone
JobsOf(A) == {j \in Jobs : AssetOf[j] \in A}

\* Facebook Reels and feed videos share one queue.
QueueFor(j) == IF PlatformOf[j] = "tiktok" THEN "tiktok" ELSE "facebook"

Outcome == {"none", "retryable", "fatal", "unexpected", "published", "failed"}

ReqPC == {"idle", "release", "unschedule", "retry", "dispatch", "enqueue"}
Request == [pc : ReqPC, jobs : SUBSET Jobs]
NoRequest == [pc |-> "idle", jobs |-> {}]

WorkerPC == {"idle", "claim", "claiming", "rendition", "starting", "publishing",
             "accepted", "startpoll", "failing", "requeue",
             "poll", "checking", "settling", "repoll"}
Context == [job : Jobs \cup {NoJob}, attempt : Nat, seen : RowState,
            poll : 0..MaxPolls, outcome : Outcome]
NoContext == [job |-> NoJob, attempt |-> 0, seen |-> "none", poll |-> 0,
              outcome |-> "none"]

\* A busy worker has a job, and settles it with a final state only.
WorkerOK(w) ==
    /\ wpc[w] = "idle" <=> ctx[w].job = NoJob
    /\ wpc[w] = "settling" => ctx[w].outcome \in Terminal

\* The types of the variables.
TypeOK ==
    /\ state \in [Jobs -> RowState]
    /\ attempts \in [Jobs -> Nat]
    /\ external \in [Jobs -> BOOLEAN]
    /\ runs \in [Jobs -> Nat]
    /\ polls \in [Jobs -> [1..MaxPolls -> Nat]]
    /\ req \in [Handlers -> Request]
    /\ wpc \in [Workers -> WorkerPC]
    /\ ctx \in [Workers -> Context]
    /\ \A w \in Workers : WorkerOK(w)
    /\ posts \in [Jobs -> Nat]
    /\ blind \in [Jobs -> Nat]
    /\ dispatches \in [Jobs -> Nat]
    /\ retries \in [Jobs -> Nat]
    /\ lost \subseteq Jobs

Init ==
    /\ state = [j \in Jobs |-> "none"]
    /\ attempts = [j \in Jobs |-> 0]
    /\ external = [j \in Jobs |-> FALSE]
    /\ runs = [j \in Jobs |-> 0]
    /\ polls = [j \in Jobs |-> [n \in 1..MaxPolls |-> 0]]
    /\ req = [h \in Handlers |-> NoRequest]
    /\ wpc = [w \in Workers |-> "idle"]
    /\ ctx = [w \in Workers |-> NoContext]
    /\ posts = [j \in Jobs |-> 0]
    /\ blind = [j \in Jobs |-> 0]
    /\ dispatches = [j \in Jobs |-> 0]
    /\ retries = [j \in Jobs |-> 0]
    /\ lost = {}
-----------------------------------------------------------------------------
(* What the steps have in common.                                          *)

WriteState(J, s) == state' = [j \in Jobs |-> IF j \in J THEN s ELSE state[j]]
SetRequest(h, pc, J) == req' = [req EXCEPT ![h] = [pc |-> pc, jobs |-> J]]

WriteIfExists(j, s) == WriteState(IF Exists(j) THEN {j} ELSE {}, s)

\* The asset has no row yet for any of the targets: the check the handler makes,
\* backed by the unique constraint on (asset_id, platform) when it commits.
Insertable(J) ==
    /\ J # {}
    /\ \A j \in J :
        /\ state[j] = "none"
        /\ \A k \in Jobs \ {j} :
            AssetOf[k] = AssetOf[j] /\ PlatformOf[k] = PlatformOf[j]
                => ~Exists(k) /\ k \notin J

\* What a request has committed and its background task has not enqueued.
Dispatching(h) == IF req[h].pc \in {"dispatch", "enqueue"} THEN req[h].jobs ELSE {}

Goto(w, pc) == wpc' = [wpc EXCEPT ![w] = pc]
Finish(w) == Goto(w, "idle") /\ ctx' = [ctx EXCEPT ![w] = NoContext]
Fail(w, outcome) ==
    Goto(w, "failing") /\ ctx' = [ctx EXCEPT ![w].outcome = outcome]

-----------------------------------------------------------------------------
(* Faulty variants: each is an action below with one plausible mistake in it *)
(* and is no part of the specification.  They show that the properties bite. *)

\* The early return of `publish` for a scheduled asset is missing.
ScheduleAndDispatch(h, J) ==
    /\ req[h].pc = "idle"
    /\ Insertable(J)
    /\ WriteState(J, "scheduled")
    /\ SetRequest(h, "dispatch", J)
    /\ UNCHANGED <<attempts, external, queues, wpc, ctx, history>>

\* `retry_job` refuses only the jobs that are still on a worker.
RetryReadPublished(h, j) ==
    /\ req[h].pc = "idle"
    /\ state[j] \in Terminal
    /\ retries[j] < MaxRetries
    /\ SetRequest(h, "retry", {j})
    /\ UNCHANGED <<rows, queues, wpc, ctx, history>>

\* `retry_job` does not look at the state at all.
RetryReadAny(h, j) ==
    /\ req[h].pc = "idle"
    /\ Exists(j)
    /\ retries[j] < MaxRetries
    /\ SetRequest(h, "retry", {j})
    /\ UNCHANGED <<rows, queues, wpc, ctx, history>>

\* `_record_failure` counts the attempts one too far.
RecordFailureOneMore(w) ==
    LET j == ctx[w].job
        retry == ctx[w].outcome = "retryable" /\ ctx[w].attempt <= MaxAttempts
    IN /\ wpc[w] = "failing"
       /\ WriteIfExists(j, IF retry THEN "pending" ELSE "failed")
       /\ IF retry /\ Exists(j)
          THEN Goto(w, "requeue") /\ UNCHANGED ctx
          ELSE Finish(w)
       /\ UNCHANGED <<attempts, external, queues, req, history>>

\* `_record_failure` stores the kind of error where the state belongs.
RecordFailureKind(w) ==
    /\ wpc[w] = "failing"
    /\ WriteIfExists(ctx[w].job, ctx[w].outcome)
    /\ Finish(w)
    /\ UNCHANGED <<attempts, external, queues, req, history>>

\* `_record_started` stores the state and forgets the external id.
RecordStartedNoId(w) ==
    /\ wpc[w] = "accepted"
    /\ WriteIfExists(ctx[w].job, "processing")
    /\ Goto(w, "startpoll")
    /\ UNCHANGED <<attempts, external, queues, req, ctx, history>>

\* A transient status error returns instead of falling through.
StatusPendingReturns(w) ==
    /\ wpc[w] = "checking"
    /\ Finish(w)
    /\ UNCHANGED <<rows, queues, req, history>>

\* The next poll runs with the same poll_count.
RepollSameCount(w) ==
    LET j == ctx[w].job
        n == ctx[w].poll
    IN /\ wpc[w] = "repoll"
       /\ polls' = [polls EXCEPT ![j][n] = @ + 1]
       /\ Finish(w)
       /\ UNCHANGED <<rows, runs, req, history>>

\* A job that is still processing is started again instead of polled again.
RepollReruns(w) ==
    /\ wpc[w] = "repoll"
    /\ runs' = [runs EXCEPT ![ctx[w].job] = @ + 1]
    /\ Finish(w)
    /\ UNCHANGED <<rows, polls, req, history>>

\* The return after "still processing after MAX_POLLS polls" is missing.
RepollNoReturn(w) ==
    LET j == ctx[w].job
        n == ctx[w].poll
    IN /\ wpc[w] = "repoll"
       /\ WriteIfExists(j, IF n >= MaxPolls THEN "failed" ELSE state[j])
       /\ polls' = [polls EXCEPT ![j][IF n >= MaxPolls THEN n ELSE n + 1] = @ + 1]
       /\ Finish(w)
       /\ UNCHANGED <<attempts, external, runs, req, history>>
-----------------------------------------------------------------------------
(* API requests.                                                           *)

\* POST /publish with schedule=true: into the backlog, never dispatched here.
Schedule(h, J) ==
    /\ req[h].pc = "idle"
    /\ Insertable(J)
    /\ WriteState(J, "scheduled")
    /\ UNCHANGED <<attempts, external, queues, req, wpc, ctx, history>>

\* POST /publish: commit, then leave the dispatch to a background task.
Publish(h, J) ==
    /\ req[h].pc = "idle"
    /\ Insertable(J)
    /\ WriteState(J, "pending")
    /\ SetRequest(h, "dispatch", J)
    /\ UNCHANGED <<attempts, external, queues, wpc, ctx, history>>

\* The scheduled jobs of one asset (release) or of the groups that the due
\* slots of a tick took from the head of the backlog.
ReleaseRead(h, A) ==
    LET J == {j \in JobsOf(A) : state[j] = "scheduled"}
    IN /\ req[h].pc = "idle"
       /\ J # {}
       /\ SetRequest(h, "release", J)
       /\ UNCHANGED <<rows, queues, wpc, ctx, history>>

\* The update is by primary key: it does not look at the state again, and a row
\* deleted meanwhile makes the flush raise and the whole transaction roll back.
ReleaseCommit(h) ==
    LET J == req[h].jobs
    IN /\ req[h].pc = "release"
       /\ IF \A j \in J : Exists(j)
          THEN WriteState(J, "pending") /\ SetRequest(h, "dispatch", J)
          ELSE UNCHANGED state /\ SetRequest(h, "idle", {})
       /\ UNCHANGED <<attempts, external, queues, wpc, ctx, history>>

UnscheduleRead(h, a) ==
    LET J == {j \in JobsOf({a}) : state[j] = "scheduled"}
    IN /\ req[h].pc = "idle"
       /\ J # {}
       /\ SetRequest(h, "unschedule", J)
       /\ UNCHANGED <<rows, queues, wpc, ctx, history>>

\* Again by primary key, whatever the rows have become since.
UnscheduleCommit(h) ==
    /\ req[h].pc = "unschedule"
    /\ WriteState(req[h].jobs, "deleted")
    /\ SetRequest(h, "idle", {})
    /\ UNCHANGED <<attempts, external, queues, wpc, ctx, history>>

RetryRead(h, j) ==
    /\ req[h].pc = "idle"
    /\ state[j] = "failed"
    /\ retries[j] < MaxRetries
    /\ SetRequest(h, "retry", {j})
    /\ UNCHANGED <<rows, queues, wpc, ctx, history>>

RetryCommit(h) ==
    LET J == req[h].jobs
    IN /\ req[h].pc = "retry"
       /\ IF \A j \in J : Exists(j)
          THEN /\ WriteState(J, "pending")
               /\ attempts' = [j \in Jobs |-> IF j \in J THEN 0 ELSE attempts[j]]
               /\ retries' = [j \in Jobs |-> retries[j] + IF j \in J THEN 1 ELSE 0]
               /\ SetRequest(h, "dispatch", J)
          ELSE /\ UNCHANGED <<state, attempts, retries>>
               /\ SetRequest(h, "idle", {})
       /\ UNCHANGED <<external, queues, wpc, ctx, posts, blind, dispatches, lost>>

\* `dispatch` first looks every id up, in a session of its own.
DispatchRead(h) ==
    LET found == {j \in req[h].jobs : Exists(j)}
    IN /\ req[h].pc = "dispatch"
       /\ SetRequest(h, IF found = {} THEN "idle" ELSE "enqueue", found)
       /\ UNCHANGED <<rows, queues, wpc, ctx, history>>

Enqueue(h, j) ==
    LET left == req[h].jobs \ {j}
    IN /\ req[h].pc = "enqueue"
       /\ j \in req[h].jobs
       /\ runs' = [runs EXCEPT ![j] = @ + 1]
       /\ dispatches' = [dispatches EXCEPT ![j] = @ + 1]
       /\ SetRequest(h, IF left = {} THEN "idle" ELSE "enqueue", left)
       /\ UNCHANGED <<rows, polls, wpc, ctx, posts, blind, retries, lost>>

\* The API process stops, or Redis refuses the enqueue: what was committed stays
\* committed, what the background task had left to enqueue is never enqueued.
RequestDies(h) ==
    /\ "api" \in Faults
    /\ req[h].pc # "idle"
    /\ lost' = lost \cup Dispatching(h)
    /\ SetRequest(h, "idle", {})
    /\ UNCHANGED <<rows, queues, wpc, ctx, posts, blind, dispatches, retries>>
-----------------------------------------------------------------------------
(* Workers.                                                                *)

TakeRun(w, j) ==
    /\ wpc[w] = "idle"
    /\ runs[j] > 0
    /\ QueueFor(j) \in Serves[w]
    /\ runs' = [runs EXCEPT ![j] = @ - 1]
    /\ Goto(w, "claim")
    /\ ctx' = [ctx EXCEPT ![w] = [NoContext EXCEPT !.job = j]]
    /\ UNCHANGED <<rows, polls, req, history>>

TakePoll(w, j, n) ==
    /\ wpc[w] = "idle"
    /\ polls[j][n] > 0
    /\ QueueFor(j) \in Serves[w]
    /\ polls' = [polls EXCEPT ![j][n] = @ - 1]
    /\ Goto(w, "poll")
    /\ ctx' = [ctx EXCEPT ![w] = [NoContext EXCEPT !.job = j, !.poll = n]]
    /\ UNCHANGED <<rows, runs, req, history>>

\* `_claim`, what it reads: a missing, finished or unreleased job is declined.
ClaimRead(w) ==
    LET j == ctx[w].job
    IN /\ wpc[w] = "claim"
       /\ IF state[j] \in Live
          THEN /\ Goto(w, "claiming")
               /\ ctx' = [ctx EXCEPT ![w].seen = state[j],
                                     ![w].attempt = attempts[j] + 1]
          ELSE Finish(w)
       /\ UNCHANGED <<rows, queues, req, history>>

\* `_claim`, what it commits.  Only changed columns are written, so a row that
\* was read as UPLOADING keeps whatever state it has by now.
ClaimCommit(w) ==
    LET j == ctx[w].job
    IN /\ wpc[w] = "claiming"
       /\ IF ~Exists(j)
          THEN UNCHANGED <<state, attempts>> /\ Finish(w)
          ELSE /\ attempts' = [attempts EXCEPT ![j] = ctx[w].attempt]
               /\ IF ctx[w].attempt > MaxAttempts
                  THEN WriteState({j}, "failed") /\ Finish(w)
                  ELSE /\ WriteState(IF ctx[w].seen = "uploading" THEN {} ELSE {j},
                                     "uploading")
                       /\ Goto(w, "rendition")
                       /\ UNCHANGED ctx
       /\ UNCHANGED <<external, queues, req, history>>

EnsureRendition(w) ==
    /\ wpc[w] = "rendition"
    /\ IF Exists(ctx[w].job)
       THEN Goto(w, "starting") /\ UNCHANGED ctx
       ELSE Finish(w)
    /\ UNCHANGED <<rows, queues, req, history>>

\* Another worker inserted the rendition first, or the database failed.
RenditionFails(w) ==
    /\ wpc[w] = "rendition"
    /\ Fail(w, "unexpected")
    /\ UNCHANGED <<rows, queues, req, history>>

SetUploading(w) ==
    /\ wpc[w] = "starting"
    /\ WriteIfExists(ctx[w].job, "uploading")
    /\ Goto(w, "publishing")
    /\ UNCHANGED <<attempts, external, queues, req, ctx, history>>

\* `Publisher.publish` raises before the platform has a post to show.
PlatformRefuses(w, outcome) ==
    /\ wpc[w] = "publishing"
    /\ Fail(w, outcome)
    /\ UNCHANGED <<rows, queues, req, history>>

PlatformAccepts(w) ==
    /\ wpc[w] = "publishing"
    /\ posts' = [posts EXCEPT ![ctx[w].job] = @ + 1]
    /\ Goto(w, "accepted")
    /\ UNCHANGED <<rows, queues, req, ctx, blind, dispatches, retries, lost>>

\* The platform acted and the answer did not come back.
AnswerLost(w, outcome) ==
    /\ "transport" \in Faults
    /\ wpc[w] = "accepted"
    /\ blind' = [blind EXCEPT ![ctx[w].job] = @ + 1]
    /\ Fail(w, outcome)
    /\ UNCHANGED <<rows, queues, req, posts, dispatches, retries, lost>>

\* Every publisher returns PROCESSING.
RecordStarted(w) ==
    LET j == ctx[w].job
    IN /\ wpc[w] = "accepted"
       /\ WriteIfExists(j, "processing")
       /\ external' = [external EXCEPT ![j] = @ \/ Exists(j)]
       /\ Goto(w, "startpoll")
       /\ UNCHANGED <<attempts, queues, req, ctx, history>>

EnqueuePoll(w) ==
    /\ wpc[w] = "startpoll"
    /\ polls' = [polls EXCEPT ![ctx[w].job][1] = @ + 1]
    /\ Finish(w)
    /\ UNCHANGED <<rows, runs, req, history>>

\* `_record_failure`, and the handler for any other exception.
RecordFailure(w) ==
    LET j == ctx[w].job
        retry == ctx[w].outcome = "retryable" /\ ctx[w].attempt < MaxAttempts
    IN /\ wpc[w] = "failing"
       /\ WriteIfExists(j, IF retry THEN "pending" ELSE "failed")
       /\ IF retry /\ Exists(j)
          THEN Goto(w, "requeue") /\ UNCHANGED ctx
          ELSE Finish(w)
       /\ UNCHANGED <<attempts, external, queues, req, history>>

Requeue(w) ==
    /\ wpc[w] = "requeue"
    /\ runs' = [runs EXCEPT ![ctx[w].job] = @ + 1]
    /\ Finish(w)
    /\ UNCHANGED <<rows, polls, req, history>>

PollRead(w) ==
    LET j == ctx[w].job
    IN /\ wpc[w] = "poll"
       /\ IF ~Exists(j) \/ state[j] \in Terminal
          THEN UNCHANGED state /\ Finish(w)
          ELSE IF ~external[j]
               THEN WriteState({j}, "failed") /\ Finish(w)
               ELSE UNCHANGED <<state, ctx>> /\ Goto(w, "checking")
       /\ UNCHANGED <<attempts, external, queues, req, history>>

\* A final status, or a platform error that is not worth another poll.
StatusFinal(w, outcome) ==
    /\ wpc[w] = "checking"
    /\ Goto(w, "settling")
    /\ ctx' = [ctx EXCEPT ![w].outcome = outcome]
    /\ UNCHANGED <<rows, queues, req, history>>

\* Still encoding, or a retryable platform error.
StatusPending(w) ==
    /\ wpc[w] = "checking"
    /\ Goto(w, "repoll")
    /\ UNCHANGED <<rows, queues, req, ctx, history>>

\* A transport error is no PlatformError: it leaves the task and RQ files it
\* under failed jobs, which nothing re-runs.
StatusEscapes(w) ==
    /\ "transport" \in Faults
    /\ wpc[w] = "checking"
    /\ lost' = lost \cup {ctx[w].job}
    /\ Finish(w)
    /\ UNCHANGED <<rows, queues, req, posts, blind, dispatches, retries>>

Settle(w) ==
    /\ wpc[w] = "settling"
    /\ WriteIfExists(ctx[w].job, ctx[w].outcome)
    /\ Finish(w)
    /\ UNCHANGED <<attempts, external, queues, req, history>>

Repoll(w) ==
    LET j == ctx[w].job
        n == ctx[w].poll
    IN /\ wpc[w] = "repoll"
       /\ IF n >= MaxPolls
          THEN WriteIfExists(j, "failed") /\ UNCHANGED polls
          ELSE polls' = [polls EXCEPT ![j][n + 1] = @ + 1] /\ UNCHANGED state
       /\ Finish(w)
       /\ UNCHANGED <<attempts, external, runs, req, history>>

\* The process is killed, or an exception leaves the task outside its handlers.
\* The queues have no retry policy, so the task is gone with it.
WorkerDies(w) ==
    LET j == ctx[w].job
    IN /\ "worker" \in Faults
       /\ wpc[w] # "idle"
       /\ lost' = lost \cup {j}
       /\ blind' = [blind EXCEPT ![j] = @ + IF wpc[w] = "accepted" THEN 1 ELSE 0]
       /\ Finish(w)
       /\ UNCHANGED <<rows, queues, req, posts, dispatches, retries>>
-----------------------------------------------------------------------------
Background(h) == DispatchRead(h) \/ \E j \in Jobs : Enqueue(h, j)
Commit(h) == ReleaseCommit(h) \/ UnscheduleCommit(h) \/ RetryCommit(h)

HandlerStep(h) ==
    \/ \E J \in SUBSET Jobs : Schedule(h, J) \/ Publish(h, J)
    \/ \E A \in SUBSET Assets : ReleaseRead(h, A)
    \/ \E a \in Assets : UnscheduleRead(h, a)
    \/ \E j \in Jobs : RetryRead(h, j)
    \/ Commit(h)
    \/ Background(h)

Take(w) ==
    \E j \in Jobs : TakeRun(w, j) \/ \E n \in 1..MaxPolls : TakePoll(w, j, n)

RunStep(w) ==
    \/ ClaimRead(w) \/ ClaimCommit(w)
    \/ EnsureRendition(w) \/ RenditionFails(w)
    \/ SetUploading(w)
    \/ \E outcome \in {"retryable", "fatal", "unexpected"} : PlatformRefuses(w, outcome)
    \/ PlatformAccepts(w)
    \/ \E outcome \in {"retryable", "unexpected"} : AnswerLost(w, outcome)
    \/ RecordStarted(w) \/ EnqueuePoll(w)
    \/ RecordFailure(w) \/ Requeue(w)

PollStep(w) ==
    \/ PollRead(w)
    \/ \E outcome \in {"published", "failed"} : StatusFinal(w, outcome)
    \/ StatusPending(w) \/ StatusEscapes(w)
    \/ Settle(w) \/ Repoll(w)

WorkerStep(w) == Take(w) \/ RunStep(w) \/ PollStep(w)

Next ==
    \/ \E h \in Handlers : HandlerStep(h) \/ RequestDies(h)
    \/ \E w \in Workers : WorkerStep(w) \/ WorkerDies(w)

Spec == Init /\ [][Next]_vars

\* A worker that is up works, and a request that was accepted runs to its end.
\* Nobody has to call the API, and no fault has to happen.
Fairness ==
    /\ \A h \in Handlers : WF_vars(Commit(h) \/ Background(h))
    /\ \A w \in Workers : WF_vars(WorkerStep(w))

FairSpec == Spec /\ Fairness

\* No job is in the hands of two requests: those that overlap are about different
\* jobs, as those of one operator and of a tick over the backlog usually are.
Undisputed == \A g, h \in Handlers : g # h => req[g].jobs \cap req[h].jobs = {}

CalmSpec == Init /\ [][Next /\ Undisputed']_vars /\ Fairness
-----------------------------------------------------------------------------
(* What carries a job forward: a queued task, a worker in the middle of one, *)
(* or a request that has committed it and not dispatched it yet.             *)

RunTasks(j) == {<<"run", i, 0>> : i \in 1..runs[j]}
PollTasks(j) == UNION {{<<"poll", n, i>> : i \in 1..polls[j][n]} : n \in 1..MaxPolls}
InHand(j) == {<<"worker", w, 0>> : w \in {v \in Workers : ctx[v].job = j}}
InRequest(j) == {<<"request", h, 0>> : h \in {g \in Handlers : j \in Dispatching(g)}}

Carriers(j) == RunTasks(j) \cup PollTasks(j) \cup InHand(j) \cup InRequest(j)

\* A job that is neither finished nor in the backlog has something that carries
\* it forward, under every interleaving of requests and workers, unless a fault
\* dropped its task or its dispatch.  This is about the commit-before-dispatch
\* comments in sau/api/main.py and the enqueue that ends each task.
NoOrphan == \A j \in Jobs : state[j] \in Live => Carriers(j) # {} \/ j \in lost

\* A job in the backlog has never been near a queue, a worker or the platform:
\* no interleaving of release, unschedule and retry leaves a task behind for a
\* row that is still SCHEDULED.
BacklogInert ==
    \A j \in Jobs : state[j] = "scheduled" =>
        Carriers(j) = {} /\ attempts[j] = 0 /\ posts[j] = 0

\* A job that is polled has its external id recorded, so the guard "polled a job
\* with no external id" of poll_publish_job never has to fail a job.
PollHasExternalId ==
    \A j \in Jobs :
        /\ \E n \in 1..MaxPolls : polls[j][n] > 0
           \/ \E w \in Workers : wpc[w] = "poll" /\ ctx[w].job = j
        /\ Exists(j)
        => external[j]

\* Even when racing requests dispatch a job more than once, the platform has at
\* most one post per dispatched task and one more per answer that was lost.
PostPerDispatch == \A j \in Jobs : posts[j] <= dispatches[j] + blind[j]

\* While no two requests dispute a job a job is never carried twice: no two tasks, workers
\* or requests can act on the same row at once.
OneCarrier == \A j \in Jobs : \A c, d \in Carriers(j) : c = d

\* While no two requests dispute a job a finished job is finished: nothing is left that
\* could write to it or post it again.
SettledIsQuiet == \A j \in Jobs : state[j] \in Terminal => Carriers(j) = {}

\* While no two requests dispute a job no job is claimed more than MAX_ATTEMPTS times
\* between two operator decisions, however its attempts end.
AttemptBudget == \A j \in Jobs : attempts[j] <= MaxAttempts

StatusOf(j) ==
    CASE state[j] = "none" -> "none"
      [] state[j] = "scheduled" -> "backlog"
      [] state[j] = "deleted" -> "dropped"
      [] state[j] \in Live -> "active"
      [] OTHER -> state[j]

Decided(j) == IF state[j] \in Gone \cup {"scheduled"} THEN 0 ELSE 1

Ledger == INSTANCE PublishLedger WITH
    status <- [j \in Jobs |-> StatusOf(j)],
    licence <- [j \in Jobs |-> Decided(j) + retries[j] + blind[j]],
    posts <- posts

\* While no two requests dispute a job the pipeline implements PublishLedger: one post per
\* decision to publish, plus one per lost answer, and no state but FAILED is ever
\* left once a job has settled.
ImplementsLedger == Ledger!Spec

\* Every job that was released settles, or is dropped, or a fault took its task:
\* MAX_ATTEMPTS and MAX_POLLS bound every loop, and no step ends without either a
\* final state or the next task on a queue.
Settles == \A j \in Jobs : state[j] \in Live ~> state[j] \notin Live \/ j \in lost

\* docs/N8N_INTEGRATION.md:70 "The service itself gives up after ~40 minutes and
\* marks the job failed, so the n8n loop cannot spin forever."
GivesUp == \A j \in Jobs : state[j] = "processing" ~> state[j] # "processing"

\* sau/api/main.py:203 "Only ever deletes SCHEDULED rows, so a job already in
\* flight on a worker cannot be cancelled through this path."
OnlyDropsBacklog ==
    [][\A j \in Jobs : state'[j] = "deleted" =>
            state[j] \in {"scheduled", "deleted"}]_vars
=============================================================================
