----------------------- MODULE PublishPipeline_proofs -----------------------
(***************************************************************************)
(* Theorems about PublishPipeline, for any number of assets, jobs, workers  *)
(* and request threads, any MaxAttempts and MaxPolls, and any faults: the    *)
(* type invariant, then its safety in three arguments.                      *)
(*                                                                         *)
(* BacklogInert and PollHasExternalId are not inductive: a row still         *)
(* SCHEDULED could be about to be claimed if a task for it were queued, and  *)
(* a task for it could be queued if some request were about to dispatch it.  *)
(* What is inductive is that whatever carries a job names a row that has     *)
(* left the backlog, which no step brings back, and that a poll, wherever it *)
(* is, names a row whose external id is stored.  NoOrphan and                *)
(* PostPerDispatch follow below, each with its own invariant.                *)
(***************************************************************************)
EXTENDS PublishPipeline, TLAPS, FiniteSetTheorems

\* TypeOK, part by part.
RowsOK ==
    /\ state \in [Jobs -> RowState]
    /\ attempts \in [Jobs -> Nat]
    /\ external \in [Jobs -> BOOLEAN]
QueuesOK ==
    /\ runs \in [Jobs -> Nat]
    /\ polls \in [Jobs -> [1..MaxPolls -> Nat]]
RequestsOK == req \in [Handlers -> Request]
HistoryOK ==
    /\ posts \in [Jobs -> Nat]
    /\ blind \in [Jobs -> Nat]
    /\ dispatches \in [Jobs -> Nat]
    /\ retries \in [Jobs -> Nat]
    /\ lost \subseteq Jobs
WorkersOK ==
    /\ wpc \in [Workers -> WorkerPC]
    /\ ctx \in [Workers -> Context]
    /\ \A w \in Workers : WorkerOK(w)

(***************************************************************************)
(* What the helpers do to the types.                                       *)
(***************************************************************************)
LEMMA WriteStateType ==
    ASSUME TypeOK, NEW J, NEW s \in RowState, WriteState(J, s)
    PROVE  state' \in [Jobs -> RowState]
  BY DEF TypeOK, WriteState

LEMMA WriteIfExistsType ==
    ASSUME TypeOK, NEW j, NEW s \in RowState, WriteIfExists(j, s)
    PROVE  state' \in [Jobs -> RowState]
  BY WriteStateType DEF WriteIfExists

LEMMA SetRequestType ==
    ASSUME TypeOK, NEW h \in Handlers, NEW pc \in ReqPC, NEW J \in SUBSET Jobs,
           SetRequest(h, pc, J)
    PROVE  req' \in [Handlers -> Request]
  BY DEF TypeOK, SetRequest, Request

LEMMA FinishType ==
    ASSUME TypeOK, NEW w \in Workers, Finish(w)
    PROVE  WorkersOK'
<1>1. NoContext \in Context
  BY ConstantsOK DEF NoContext, Context, Outcome, RowState, Gone
<1>2. wpc' \in [Workers -> WorkerPC] /\ ctx' \in [Workers -> Context]
  BY <1>1 DEF Finish, Goto, TypeOK, WorkerPC
<1>3. ASSUME NEW v \in Workers PROVE WorkerOK(v)'
  <2>1. CASE v = w
    BY <2>1 DEF Finish, Goto, TypeOK, WorkerOK, NoContext
  <2>2. CASE v # w
    BY <2>2 DEF Finish, Goto, TypeOK, WorkerOK
  <2> QED
    BY <2>1, <2>2
<1> QED
  BY <1>2, <1>3 DEF WorkersOK

\* A busy worker moves on within its task.
LEMMA GotoType ==
    ASSUME TypeOK, NEW w \in Workers, NEW pc \in WorkerPC \ {"idle", "settling"},
           wpc[w] # "idle", Goto(w, pc), UNCHANGED ctx
    PROVE  WorkersOK'
<1>1. wpc' \in [Workers -> WorkerPC] /\ ctx' \in [Workers -> Context]
  BY DEF Goto, TypeOK
<1>2. ASSUME NEW v \in Workers PROVE WorkerOK(v)'
  BY DEF Goto, TypeOK, WorkerOK
<1> QED
  BY <1>1, <1>2 DEF WorkersOK

\* The same, with new locals for the same job.
LEMMA GotoWithType ==
    ASSUME TypeOK, NEW w \in Workers, NEW pc \in WorkerPC \ {"idle"}, NEW c \in Context,
           c.job # NoJob, pc = "settling" => c.outcome \in Terminal,
           Goto(w, pc), ctx' = [ctx EXCEPT ![w] = c]
    PROVE  WorkersOK'
<1>1. wpc' \in [Workers -> WorkerPC] /\ ctx' \in [Workers -> Context]
  BY DEF Goto, TypeOK
<1>2. ASSUME NEW v \in Workers PROVE WorkerOK(v)'
  <2>1. CASE v = w
    BY <2>1 DEF Goto, TypeOK, WorkerOK
  <2>2. CASE v # w
    BY <2>2 DEF Goto, TypeOK, WorkerOK
  <2> QED
    BY <2>1, <2>2
<1> QED
  BY <1>1, <1>2 DEF WorkersOK

\* What a context holds, and what the updates of it leave.
LEMMA ContextType ==
    ASSUME TypeOK, NEW w \in Workers
    PROVE  /\ ctx[w] \in Context
           /\ ctx[w].attempt \in Nat
           /\ ctx[w].poll \in 0..MaxPolls
           /\ wpc[w] # "idle" => ctx[w].job \in Jobs /\ ctx[w].job # NoJob
           /\ wpc[w] = "settling" => ctx[w].outcome \in Terminal
  BY ConstantsOK DEF TypeOK, Context, WorkerOK

LEMMA OutcomeType ==
    ASSUME TypeOK, NEW w \in Workers, NEW o \in Outcome
    PROVE  /\ [ctx[w] EXCEPT !.outcome = o] \in Context
           /\ [ctx[w] EXCEPT !.outcome = o].job = ctx[w].job
           /\ [ctx[w] EXCEPT !.outcome = o].outcome = o
  BY ContextType DEF Context

LEMMA SeenType ==
    ASSUME TypeOK, NEW w \in Workers, NEW s \in RowState, NEW n \in Nat
    PROVE  /\ [ctx[w] EXCEPT !.seen = s, !.attempt = n] \in Context
           /\ [ctx[w] EXCEPT !.seen = s, !.attempt = n].job = ctx[w].job
  BY ContextType DEF Context

LEMMA FailType ==
    ASSUME TypeOK, NEW w \in Workers, NEW o \in Outcome, wpc[w] # "idle", Fail(w, o)
    PROVE  WorkersOK'
<1> DEFINE c == [ctx[w] EXCEPT !.outcome = o]
<1>1. Goto(w, "failing") /\ ctx' = [ctx EXCEPT ![w] = c]
  BY DEF Fail
<1>2. c \in Context /\ c.job # NoJob
  BY ContextType, OutcomeType
<1>3. "failing" \in WorkerPC \ {"idle"} /\ "failing" # "settling"
  BY DEF WorkerPC
<1> HIDE DEF c
<1> QED
  BY <1>1, <1>2, <1>3, GotoWithType

LEMMA TypeParts ==
    /\ TypeOK <=> RowsOK /\ QueuesOK /\ RequestsOK /\ WorkersOK /\ HistoryOK
    /\ TypeOK' <=> RowsOK' /\ QueuesOK' /\ RequestsOK' /\ WorkersOK' /\ HistoryOK'
  BY DEF TypeOK, RowsOK, QueuesOK, RequestsOK, WorkersOK, HistoryOK

\* An update of the rows, the queues, the requests, the workers or the history
\* that leaves the others alone.
LEMMA Untouched ==
    ASSUME TypeOK
    PROVE  /\ UNCHANGED rows => RowsOK'
           /\ UNCHANGED queues => QueuesOK'
           /\ UNCHANGED req => RequestsOK'
           /\ UNCHANGED <<wpc, ctx>> => WorkersOK'
           /\ UNCHANGED history => HistoryOK'
  BY TypeParts DEF rows, queues, history, RowsOK, QueuesOK, RequestsOK, WorkersOK,
                   WorkerOK, HistoryOK

LEMMA InitType == Init => TypeOK
<1> SUFFICES ASSUME Init PROVE TypeOK
  OBVIOUS
<1>1. RowsOK /\ QueuesOK /\ HistoryOK
  BY DEF Init, RowsOK, QueuesOK, HistoryOK, RowState, Gone
<1>2. RequestsOK
  BY DEF Init, RequestsOK, Request, ReqPC, NoRequest
<1>3. WorkersOK
  BY ConstantsOK DEF Init, WorkersOK, WorkerOK, WorkerPC, Context, NoContext, RowState,
                     Gone, Outcome
<1> QED
  BY <1>1, <1>2, <1>3, TypeParts

(***************************************************************************)
(* Steps of an API request.                                                *)
(***************************************************************************)
LEMMA HandlerStepType ==
    ASSUME TypeOK, NEW h \in Handlers, HandlerStep(h) \/ RequestDies(h)
    PROVE  TypeOK'
<1> USE DEF ReqPC, RowState, Live, Gone, Terminal
<1>0. req[h].jobs \subseteq Jobs
  BY DEF TypeOK, Request
<1>1. ASSUME NEW J \in SUBSET Jobs, Schedule(h, J) PROVE TypeOK'
  <2>1. RowsOK'
    BY <1>1, TypeParts, WriteStateType DEF Schedule, RowsOK
  <2> QED
    BY <1>1, <2>1, TypeParts, Untouched DEF Schedule
<1>2. ASSUME NEW J \in SUBSET Jobs, Publish(h, J) PROVE TypeOK'
  <2>1. RowsOK' /\ RequestsOK'
    BY <1>2, TypeParts, WriteStateType, SetRequestType DEF Publish, RowsOK, RequestsOK
  <2> QED
    BY <1>2, <2>1, TypeParts, Untouched DEF Publish
<1>3. ASSUME NEW A \in SUBSET Assets, ReleaseRead(h, A) PROVE TypeOK'
  <2>1. RequestsOK'
    BY <1>3, SetRequestType DEF ReleaseRead, JobsOf, RequestsOK
  <2> QED
    BY <1>3, <2>1, TypeParts, Untouched DEF ReleaseRead
<1>4. ASSUME NEW a \in Assets, UnscheduleRead(h, a) PROVE TypeOK'
  <2>1. RequestsOK'
    BY <1>4, SetRequestType DEF UnscheduleRead, JobsOf, RequestsOK
  <2> QED
    BY <1>4, <2>1, TypeParts, Untouched DEF UnscheduleRead
<1>5. ASSUME NEW j \in Jobs, RetryRead(h, j) PROVE TypeOK'
  <2>1. RequestsOK'
    BY <1>5, SetRequestType DEF RetryRead, RequestsOK
  <2> QED
    BY <1>5, <2>1, TypeParts, Untouched DEF RetryRead
<1>6. CASE ReleaseCommit(h)
  <2>1. RowsOK'
    BY <1>6, TypeParts, WriteStateType DEF ReleaseCommit, RowsOK
  <2>2. RequestsOK'
    BY <1>0, <1>6, SetRequestType DEF ReleaseCommit, RequestsOK
  <2> QED
    BY <1>6, <2>1, <2>2, TypeParts, Untouched DEF ReleaseCommit
<1>7. CASE UnscheduleCommit(h)
  <2>1. RowsOK'
    BY <1>7, TypeParts, WriteStateType DEF UnscheduleCommit, RowsOK
  <2>2. RequestsOK'
    BY <1>7, SetRequestType DEF UnscheduleCommit, RequestsOK
  <2> QED
    BY <1>7, <2>1, <2>2, TypeParts, Untouched DEF UnscheduleCommit
<1>8. CASE RetryCommit(h)
  <2>1. RowsOK'
    BY <1>8, TypeParts, WriteStateType DEF RetryCommit, RowsOK
  <2>2. RequestsOK'
    BY <1>0, <1>8, SetRequestType DEF RetryCommit, RequestsOK
  <2>3. HistoryOK'
    BY <1>8, TypeParts DEF RetryCommit, HistoryOK
  <2> QED
    BY <1>8, <2>1, <2>2, <2>3, TypeParts, Untouched DEF RetryCommit
<1>9. CASE DispatchRead(h)
  <2>1. RequestsOK'
    BY <1>0, <1>9, SetRequestType DEF DispatchRead, RequestsOK
  <2> QED
    BY <1>9, <2>1, TypeParts, Untouched DEF DispatchRead
<1>10. ASSUME NEW j \in Jobs, Enqueue(h, j) PROVE TypeOK'
  <2>1. RequestsOK'
    BY <1>0, <1>10, SetRequestType DEF Enqueue, RequestsOK
  <2>2. QueuesOK' /\ HistoryOK'
    BY <1>10, TypeParts DEF Enqueue, QueuesOK, HistoryOK
  <2> QED
    BY <1>10, <2>1, <2>2, TypeParts, Untouched DEF Enqueue
<1>11. CASE RequestDies(h)
  <2>1. RequestsOK'
    BY <1>11, SetRequestType DEF RequestDies, RequestsOK
  <2>2. HistoryOK'
    BY <1>0, <1>11, TypeParts DEF RequestDies, Dispatching, HistoryOK
  <2> QED
    BY <1>11, <2>1, <2>2, TypeParts, Untouched DEF RequestDies
<1> QED
  BY <1>1, <1>2, <1>3, <1>4, <1>5, <1>6, <1>7, <1>8, <1>9, <1>10, <1>11
     DEF HandlerStep, Commit, Background

(***************************************************************************)
(* Steps of a worker.                                                      *)
(***************************************************************************)
LEMMA PollsType ==
    ASSUME TypeOK, NEW j \in Jobs, NEW n \in 1..MaxPolls
    PROVE  /\ polls[j][n] \in Nat
           /\ \A k \in Nat : [polls EXCEPT ![j][n] = k] \in [Jobs -> [1..MaxPolls -> Nat]]
           /\ [polls EXCEPT ![j][n] = @ + 1] \in [Jobs -> [1..MaxPolls -> Nat]]
<1>1. polls \in [Jobs -> [1..MaxPolls -> Nat]] /\ polls[j][n] \in Nat
  BY DEF TypeOK
<1>2. \A k \in Nat : [polls[j] EXCEPT ![n] = k] \in [1..MaxPolls -> Nat]
  BY <1>1
<1>3. \A k \in Nat : [polls EXCEPT ![j][n] = k] \in [Jobs -> [1..MaxPolls -> Nat]]
  BY <1>1, <1>2
<1>4. [polls EXCEPT ![j][n] = @ + 1] = [polls EXCEPT ![j][n] = polls[j][n] + 1]
  BY <1>1
<1>5. polls[j][n] + 1 \in Nat
  BY <1>1
<1> QED
  BY <1>1, <1>3, <1>4, <1>5

LEMMA TakeType ==
    ASSUME TypeOK, NEW w \in Workers, NEW j \in Jobs,
           TakeRun(w, j) \/ \E n \in 1..MaxPolls : TakePoll(w, j, n)
    PROVE  TypeOK'
<1> DEFINE c(n) == [NoContext EXCEPT !.job = j, !.poll = n]
           d == [NoContext EXCEPT !.job = j]
<1>1. ASSUME NEW n \in 0..MaxPolls PROVE c(n) \in Context /\ c(n).job # NoJob
  BY ConstantsOK DEF Context, NoContext, RowState, Gone, Outcome
<1>2. d \in Context /\ d.job # NoJob
  BY ConstantsOK DEF Context, NoContext, RowState, Gone, Outcome
<1>3. {"claim", "poll"} \subseteq WorkerPC \ {"idle", "settling"}
  BY DEF WorkerPC
<1>4. CASE TakeRun(w, j)
  <2>1. Goto(w, "claim") /\ ctx' = [ctx EXCEPT ![w] = d]
    BY <1>4 DEF TakeRun
  <2> HIDE DEF d
  <2>2. WorkersOK'
    BY <1>2, <1>3, <2>1, GotoWithType
  <2>3. QueuesOK'
    BY <1>4, TypeParts DEF TakeRun, QueuesOK
  <2> QED
    BY <1>4, <2>2, <2>3, TypeParts, Untouched DEF TakeRun
<1>5. ASSUME NEW n \in 1..MaxPolls, TakePoll(w, j, n) PROVE TypeOK'
  <2>1. Goto(w, "poll") /\ ctx' = [ctx EXCEPT ![w] = c(n)]
    BY <1>5 DEF TakePoll
  <2>2. c(n) \in Context /\ c(n).job # NoJob
    <3>1. n \in 0..MaxPolls
      BY ConstantsOK
    <3> HIDE DEF c
    <3> QED
      BY <1>1, <3>1
  <2> HIDE DEF c
  <2>3. WorkersOK'
    BY <1>3, <2>1, <2>2, GotoWithType
  <2>4. polls[j][n] - 1 \in Nat
    <3>1. polls[j][n] \in Nat /\ polls[j][n] > 0
      BY <1>5, PollsType DEF TakePoll
    <3> QED
      BY <3>1
  <2>5. QueuesOK'
    BY <1>5, <2>4, PollsType, TypeParts DEF TakePoll, QueuesOK
  <2> QED
    BY <1>5, <2>3, <2>5, TypeParts, Untouched DEF TakePoll
<1> QED
  BY <1>4, <1>5

LEMMA RunStepType ==
    ASSUME TypeOK, NEW w \in Workers, RunStep(w)
    PROVE  TypeOK'
<1> USE DEF WorkerPC, RowState, Live, Gone, Terminal
<1>1. wpc[w] # "idle" => ctx[w].job \in Jobs /\ ctx[w].job # NoJob /\ ctx[w].attempt \in Nat
  BY ContextType
<1>2. CASE ClaimRead(w)
  <2> DEFINE j == ctx[w].job
             c == [ctx[w] EXCEPT !.seen = state[j], !.attempt = attempts[j] + 1]
  <2>1. state[j] \in RowState /\ attempts[j] + 1 \in Nat /\ j # NoJob
    BY <1>1, <1>2, TypeParts DEF ClaimRead, RowsOK
  <2>2. c \in Context /\ c.job # NoJob
    BY <2>1, SeenType
  <2>3. ASSUME state[j] \in Live PROVE WorkersOK'
    <3>1. Goto(w, "claiming") /\ ctx' = [ctx EXCEPT ![w] = c]
      BY <1>2, <2>3 DEF ClaimRead
    <3> HIDE DEF c
    <3> QED
      BY <2>2, <3>1, GotoWithType
  <2>4. ASSUME state[j] \notin Live PROVE WorkersOK'
    BY <1>2, <2>4, FinishType DEF ClaimRead
  <2> QED
    BY <1>2, <2>3, <2>4, TypeParts, Untouched DEF ClaimRead
<1>3. CASE ClaimCommit(w)
  <2>1. RowsOK'
    BY <1>1, <1>3, TypeParts, WriteStateType DEF ClaimCommit, RowsOK
  <2>2. WorkersOK'
    BY <1>3, FinishType, GotoType DEF ClaimCommit
  <2> QED
    BY <1>3, <2>1, <2>2, TypeParts, Untouched DEF ClaimCommit
<1>4. CASE EnsureRendition(w)
  <2>1. WorkersOK'
    BY <1>4, FinishType, GotoType DEF EnsureRendition
  <2> QED
    BY <1>4, <2>1, TypeParts, Untouched DEF EnsureRendition
<1>5. CASE RenditionFails(w)
  <2>1. WorkersOK'
    BY <1>5, FailType DEF RenditionFails, Outcome
  <2> QED
    BY <1>5, <2>1, TypeParts, Untouched DEF RenditionFails
<1>6. CASE SetUploading(w)
  <2>1. RowsOK'
    BY <1>6, <1>1, TypeParts, WriteIfExistsType DEF SetUploading, RowsOK
  <2>2. WorkersOK'
    BY <1>6, GotoType DEF SetUploading
  <2> QED
    BY <1>6, <2>1, <2>2, TypeParts, Untouched DEF SetUploading
<1>7. ASSUME NEW o \in {"retryable", "fatal", "unexpected"}, PlatformRefuses(w, o)
      PROVE  TypeOK'
  <2>1. WorkersOK'
    BY <1>7, FailType DEF PlatformRefuses, Outcome
  <2> QED
    BY <1>7, <2>1, TypeParts, Untouched DEF PlatformRefuses
<1>8. CASE PlatformAccepts(w)
  <2>1. HistoryOK'
    BY <1>8, <1>1, TypeParts DEF PlatformAccepts, HistoryOK
  <2>2. WorkersOK'
    BY <1>8, GotoType DEF PlatformAccepts
  <2> QED
    BY <1>8, <2>1, <2>2, TypeParts, Untouched DEF PlatformAccepts
<1>9. ASSUME NEW o \in {"retryable", "unexpected"}, AnswerLost(w, o)
      PROVE  TypeOK'
  <2>1. HistoryOK'
    BY <1>9, <1>1, TypeParts DEF AnswerLost, HistoryOK
  <2>2. WorkersOK'
    BY <1>9, FailType DEF AnswerLost, Outcome
  <2> QED
    BY <1>9, <2>1, <2>2, TypeParts, Untouched DEF AnswerLost
<1>10. CASE RecordStarted(w)
  <2>1. RowsOK'
    BY <1>10, <1>1, TypeParts, WriteIfExistsType DEF RecordStarted, RowsOK
  <2>2. WorkersOK'
    BY <1>10, GotoType DEF RecordStarted
  <2> QED
    BY <1>10, <2>1, <2>2, TypeParts, Untouched DEF RecordStarted
<1>11. CASE EnqueuePoll(w)
  <2>1. 1 \in 1..MaxPolls
    BY <1>11, ConstantsOK
  <2>2. QueuesOK'
    BY <1>11, <1>1, <2>1, PollsType, TypeParts DEF EnqueuePoll, QueuesOK
  <2>3. WorkersOK'
    BY <1>11, FinishType DEF EnqueuePoll
  <2> QED
    BY <1>11, <2>1, <2>2, <2>3, TypeParts, Untouched DEF EnqueuePoll
<1>12. CASE RecordFailure(w)
  <2>1. RowsOK'
    BY <1>12, <1>1, TypeParts, WriteIfExistsType DEF RecordFailure, RowsOK
  <2>2. WorkersOK'
    BY <1>12, FinishType, GotoType DEF RecordFailure
  <2> QED
    BY <1>12, <2>1, <2>2, TypeParts, Untouched DEF RecordFailure
<1>13. CASE Requeue(w)
  <2>1. QueuesOK'
    BY <1>13, <1>1, TypeParts DEF Requeue, QueuesOK
  <2>2. WorkersOK'
    BY <1>13, FinishType DEF Requeue
  <2> QED
    BY <1>13, <2>1, <2>2, TypeParts, Untouched DEF Requeue
<1> QED
  BY <1>2, <1>3, <1>4, <1>5, <1>6, <1>7, <1>8, <1>9, <1>10, <1>11, <1>12, <1>13
     DEF RunStep

LEMMA PollStepType ==
    ASSUME TypeOK, NEW w \in Workers, PollStep(w)
    PROVE  TypeOK'
<1> USE DEF WorkerPC, RowState, Live, Gone, Terminal
<1>1. /\ wpc[w] # "idle" => ctx[w].job \in Jobs /\ ctx[w].job # NoJob
      /\ ctx[w].poll \in 0..MaxPolls
      /\ wpc[w] = "settling" => ctx[w].outcome \in RowState
  BY ContextType
<1>2. CASE PollRead(w)
  <2>1. RowsOK'
    BY <1>2, <1>1, TypeParts, WriteStateType DEF PollRead, RowsOK
  <2>2. WorkersOK'
    BY <1>2, FinishType, GotoType DEF PollRead
  <2> QED
    BY <1>2, <2>1, <2>2, TypeParts, Untouched DEF PollRead
<1>3. ASSUME NEW o \in {"published", "failed"}, StatusFinal(w, o)
      PROVE  TypeOK'
  <2> DEFINE c == [ctx[w] EXCEPT !.outcome = o]
  <2>1. o \in Outcome /\ o \in Terminal /\ "settling" \in WorkerPC \ {"idle"}
    BY DEF Outcome
  <2>2. c \in Context /\ c.job # NoJob /\ c.outcome \in Terminal
    BY <1>1, <1>3, <2>1, OutcomeType DEF StatusFinal
  <2>3. Goto(w, "settling") /\ ctx' = [ctx EXCEPT ![w] = c]
    BY <1>3 DEF StatusFinal
  <2> HIDE DEF c
  <2>4. WorkersOK'
    BY <2>1, <2>2, <2>3, GotoWithType
  <2> QED
    BY <1>3, <2>4, TypeParts, Untouched DEF StatusFinal
<1>4. CASE StatusPending(w)
  <2>1. WorkersOK'
    BY <1>4, GotoType DEF StatusPending
  <2> QED
    BY <1>4, <2>1, TypeParts, Untouched DEF StatusPending
<1>5. CASE StatusEscapes(w)
  <2>1. HistoryOK'
    BY <1>5, <1>1, TypeParts DEF StatusEscapes, HistoryOK
  <2>2. WorkersOK'
    BY <1>5, FinishType DEF StatusEscapes
  <2> QED
    BY <1>5, <2>1, <2>2, TypeParts, Untouched DEF StatusEscapes
<1>6. CASE Settle(w)
  <2>1. RowsOK'
    BY <1>6, <1>1, TypeParts, WriteIfExistsType DEF Settle, RowsOK
  <2>2. WorkersOK'
    BY <1>6, FinishType DEF Settle
  <2> QED
    BY <1>6, <2>1, <2>2, TypeParts, Untouched DEF Settle
<1>7. CASE Repoll(w)
  <2>1. RowsOK'
    BY <1>7, <1>1, TypeParts, WriteIfExistsType DEF Repoll, RowsOK
  <2>2. ctx[w].poll < MaxPolls => ctx[w].poll + 1 \in 1..MaxPolls
    BY <1>7, <1>1, ConstantsOK
  <2>3. QueuesOK'
    <3>1. CASE ctx[w].poll >= MaxPolls
      BY <1>7, <3>1, TypeParts DEF Repoll, QueuesOK
    <3>2. CASE ~(ctx[w].poll >= MaxPolls)
      <4>1. ctx[w].poll + 1 \in 1..MaxPolls /\ ctx[w].job \in Jobs
        BY <1>7, <1>1, <2>2, <3>2, ConstantsOK DEF Repoll
      <4>2. /\ polls' = [polls EXCEPT ![ctx[w].job][ctx[w].poll + 1] = @ + 1]
            /\ runs' = runs
        BY <1>7, <3>2 DEF Repoll
      <4> QED
        BY <4>1, <4>2, PollsType, TypeParts DEF QueuesOK
    <3> QED
      BY <3>1, <3>2
  <2>4. WorkersOK'
    BY <1>7, FinishType DEF Repoll
  <2> QED
    BY <1>7, <2>1, <2>2, <2>3, <2>4, TypeParts, Untouched DEF Repoll
<1> QED
  BY <1>2, <1>3, <1>4, <1>5, <1>6, <1>7 DEF PollStep

LEMMA WorkerDiesType ==
    ASSUME TypeOK, NEW w \in Workers, WorkerDies(w)
    PROVE  TypeOK'
<1>1. wpc[w] # "idle" => ctx[w].job \in Jobs
  BY ContextType
<1>2. HistoryOK'
  BY <1>1, TypeParts DEF WorkerDies, HistoryOK
<1>3. WorkersOK'
  BY FinishType DEF WorkerDies
<1> QED
  BY <1>2, <1>3, TypeParts, Untouched DEF WorkerDies

LEMMA TypeStep == TypeOK /\ [Next]_vars => TypeOK'
<1> SUFFICES ASSUME TypeOK, [Next]_vars PROVE TypeOK'
  OBVIOUS
<1>1. ASSUME NEW h \in Handlers, HandlerStep(h) \/ RequestDies(h) PROVE TypeOK'
  BY <1>1, HandlerStepType
<1>2. ASSUME NEW w \in Workers, WorkerStep(w) \/ WorkerDies(w) PROVE TypeOK'
  BY <1>2, TakeType, RunStepType, PollStepType, WorkerDiesType DEF WorkerStep, Take
<1>3. CASE UNCHANGED vars
  BY <1>3, TypeParts, Untouched DEF vars
<1> QED
  BY <1>1, <1>2, <1>3 DEF Next

\* The types hold in every reachable state, whatever the interleaving and the
\* faults: the API, the workers and the tasks they leave on the queues never put
\* anything into a row that sau/models.py does not name.
THEOREM TypeCorrect == Spec => []TypeOK
<1> QED
  BY InitType, TypeStep, PTL DEF Spec
-----------------------------------------------------------------------------

\* The row has left the backlog, whatever became of it.
Moved(j) == state[j] \notin {"none", "scheduled"}

QueuedMoved ==
    /\ \A j \in Jobs : runs[j] > 0 => Moved(j)
    /\ \A j \in Jobs, n \in 1..MaxPolls : polls[j][n] > 0 => Moved(j)
WorkersMoved == \A w \in Workers : wpc[w] # "idle" => Moved(ctx[w].job)
RequestsMoved ==
    \A h \in Handlers : \A j \in req[h].jobs :
        /\ state[j] # "none"
        /\ req[h].pc \in {"retry", "dispatch", "enqueue"} => Moved(j)
CountedMoved == \A j \in Jobs : attempts[j] > 0 \/ posts[j] > 0 => Moved(j)

MovedInv == QueuedMoved /\ WorkersMoved /\ RequestsMoved /\ CountedMoved

\* A row that is still there has its external id.
Known(j) == Exists(j) => external[j]
PollsKnown == \A j \in Jobs, n \in 1..MaxPolls : polls[j][n] > 0 => Known(j)
WorkersKnown ==
    \A w \in Workers :
        wpc[w] \in {"startpoll", "poll", "checking", "repoll"} => Known(ctx[w].job)

KnownInv == PollsKnown /\ WorkersKnown

\* Carriers(j) is not empty, said without the set.
Carried(j) ==
    \/ runs[j] > 0
    \/ \E n \in 1..MaxPolls : polls[j][n] > 0
    \/ \E w \in Workers : ctx[w].job = j
    \/ \E h \in Handlers : j \in Dispatching(h)

LEMMA CarriedIff ==
    ASSUME TypeOK, NEW j \in Jobs
    PROVE  Carried(j) <=> Carriers(j) # {}
<1>1. runs[j] \in Nat /\ \A n \in 1..MaxPolls : polls[j][n] \in Nat
  BY DEF TypeOK
<1>2. runs[j] > 0 <=> 1 \in 1..runs[j]
  BY <1>1
<1>3. \A n \in 1..MaxPolls : polls[j][n] > 0 <=> 1 \in 1..polls[j][n]
  BY <1>1
<1>4. runs[j] > 0 <=> RunTasks(j) # {}
  <2>1. ASSUME runs[j] > 0 PROVE <<"run", 1, 0>> \in RunTasks(j)
    BY <1>2, <2>1 DEF RunTasks
  <2>2. ASSUME NEW x \in RunTasks(j) PROVE runs[j] > 0
    <3>1. PICK i \in 1..runs[j] : x = <<"run", i, 0>>
      BY <2>2 DEF RunTasks
    <3> QED BY <1>1, <3>1
  <2> QED BY <2>1, <2>2
<1>5. (\E n \in 1..MaxPolls : polls[j][n] > 0) <=> PollTasks(j) # {}
  <2>1. ASSUME NEW n \in 1..MaxPolls, polls[j][n] > 0 PROVE <<"poll", n, 1>> \in PollTasks(j)
    <3>1. <<"poll", n, 1>> \in {<<"poll", n, i>> : i \in 1..polls[j][n]}
      BY <1>3, <2>1
    <3> QED BY <3>1 DEF PollTasks
  <2>2. ASSUME NEW x \in PollTasks(j) PROVE \E n \in 1..MaxPolls : polls[j][n] > 0
    <3>1. PICK n \in 1..MaxPolls : x \in {<<"poll", n, i>> : i \in 1..polls[j][n]}
      BY <2>2 DEF PollTasks
    <3>2. PICK i \in 1..polls[j][n] : x = <<"poll", n, i>>
      BY <3>1
    <3> QED BY <1>1, <3>2
  <2> QED BY <2>1, <2>2
<1>6. (\E w \in Workers : ctx[w].job = j) <=> InHand(j) # {}
  BY DEF InHand
<1>7. (\E h \in Handlers : j \in Dispatching(h)) <=> InRequest(j) # {}
  BY DEF InRequest
<1> QED BY <1>4, <1>5, <1>6, <1>7 DEF Carried, Carriers

(***************************************************************************)
(* What no step ever does to a row.                                        *)
(***************************************************************************)
Forward ==
    \A j \in Jobs :
        /\ Moved(j) => Moved(j)'
        /\ state[j] # "none" => state'[j] # "none"
        /\ state[j] = "deleted" => state'[j] = "deleted"
        /\ external[j] => external'[j]

LEMMA WriteForward ==
    ASSUME TypeOK, NEW J, NEW s \in RowState \ {"none", "scheduled"}, WriteState(J, s),
           \A j \in J \cap Jobs : state[j] # "deleted" \/ s = "deleted",
           \A j \in Jobs : external[j] => external'[j]
    PROVE  Forward
  BY DEF TypeOK, WriteState, Forward, Moved

LEMMA WriteIfExistsForward ==
    ASSUME TypeOK, NEW j, NEW s \in RowState \ {"none", "scheduled"}, WriteIfExists(j, s),
           \A k \in Jobs : external[k] => external'[k]
    PROVE  Forward
  BY WriteForward DEF WriteIfExists, Exists, Gone

LEMMA SameForward ==
    ASSUME TypeOK, UNCHANGED <<state, external>>
    PROVE  Forward
  BY DEF Forward, Moved

LEMMA ForwardStep ==
    ASSUME TypeOK, [Next]_vars
    PROVE  Forward
<1> USE DEF RowState, Live, Gone, Terminal
<1>1. ASSUME NEW h \in Handlers, HandlerStep(h) \/ RequestDies(h) PROVE Forward
  <2>1. ASSUME NEW J \in SUBSET Jobs, Schedule(h, J) PROVE Forward
    BY <2>1 DEF Schedule, Insertable, WriteState, TypeOK, Forward, Moved
  <2>2. ASSUME NEW J \in SUBSET Jobs, Publish(h, J) PROVE Forward
    BY <2>2, WriteForward DEF Publish, Insertable
  <2>3. CASE ReleaseCommit(h)
    BY <2>3, WriteForward, SameForward DEF ReleaseCommit, Exists
  <2>4. CASE UnscheduleCommit(h)
    BY <2>4, WriteForward DEF UnscheduleCommit
  <2>5. CASE RetryCommit(h)
    BY <2>5, WriteForward, SameForward DEF RetryCommit, Exists
  <2>6. CASE UNCHANGED rows
    BY <2>6, SameForward DEF rows
  <2> QED
    BY <1>1, <2>1, <2>2, <2>3, <2>4, <2>5, <2>6
       DEF HandlerStep, Commit, Background, RequestDies, ReleaseRead, UnscheduleRead,
           RetryRead, DispatchRead, Enqueue
<1>2. ASSUME NEW w \in Workers, WorkerStep(w) \/ WorkerDies(w) PROVE Forward
  <2>1. wpc[w] = "settling" => ctx[w].outcome \in Terminal
    BY ContextType
  <2>2. CASE ClaimCommit(w)
    BY <2>2, WriteForward, SameForward DEF ClaimCommit, Exists
  <2>3. CASE SetUploading(w)
    BY <2>3, WriteIfExistsForward DEF SetUploading
  <2>4. CASE RecordStarted(w)
    <3>1. \A k \in Jobs : external[k] => external'[k]
      BY <2>4 DEF RecordStarted, TypeOK
    <3> QED
      BY <2>4, <3>1, WriteIfExistsForward DEF RecordStarted
  <2>5. CASE RecordFailure(w)
    BY <2>5, WriteIfExistsForward DEF RecordFailure
  <2>6. CASE PollRead(w)
    BY <2>6, WriteForward, SameForward DEF PollRead, Exists
  <2>7. CASE Settle(w)
    BY <2>1, <2>7, WriteIfExistsForward DEF Settle
  <2>8. CASE Repoll(w)
    BY <2>8, WriteIfExistsForward, SameForward DEF Repoll
  <2>9. CASE UNCHANGED rows
    BY <2>9, SameForward DEF rows
  <2> QED
    BY <1>2, <2>2, <2>3, <2>4, <2>5, <2>6, <2>7, <2>8, <2>9
       DEF WorkerStep, Take, RunStep, PollStep, WorkerDies, TakeRun, TakePoll, ClaimRead,
           EnsureRendition, RenditionFails, PlatformRefuses, PlatformAccepts, AnswerLost,
           EnqueuePoll, Requeue, StatusFinal, StatusPending, StatusEscapes
<1>3. CASE UNCHANGED vars
  BY <1>3, SameForward DEF vars, rows
<1> QED
  BY <1>1, <1>2, <1>3 DEF Next

(***************************************************************************)
(* What a step does not touch keeps its part of the invariant.             *)
(***************************************************************************)
Inv == TypeOK /\ MovedInv /\ KnownInv

\* A job that is carried is not "none", so what is known of it stays known.
LEMMA KnownForward ==
    ASSUME Forward, NEW j \in Jobs, Moved(j), Known(j)
    PROVE  Moved(j)' /\ Known(j)'
  BY DEF Forward, Moved, Known, Exists, Gone

LEMMA UntouchedParts ==
    ASSUME Inv, Forward
    PROVE  /\ UNCHANGED runs /\ UNCHANGED polls => QueuedMoved'
           /\ UNCHANGED <<wpc, ctx>> => WorkersMoved'
           /\ UNCHANGED req => RequestsMoved'
           /\ UNCHANGED <<attempts, posts>> => CountedMoved'
           /\ UNCHANGED polls => PollsKnown'
           /\ UNCHANGED <<wpc, ctx>> => WorkersKnown'
<1>1. UNCHANGED runs /\ UNCHANGED polls => QueuedMoved'
  BY DEF Inv, MovedInv, QueuedMoved, Forward
<1>2. UNCHANGED <<wpc, ctx>> => WorkersMoved'
  BY ContextType DEF Inv, MovedInv, WorkersMoved, Forward
<1>3. UNCHANGED req => RequestsMoved'
  BY DEF Inv, MovedInv, RequestsMoved, Forward, TypeOK, Request
<1>4. UNCHANGED <<attempts, posts>> => CountedMoved'
  BY DEF Inv, MovedInv, CountedMoved, Forward
<1>5. UNCHANGED polls => PollsKnown'
  BY KnownForward DEF Inv, MovedInv, KnownInv, PollsKnown, QueuedMoved
<1>6. UNCHANGED <<wpc, ctx>> => WorkersKnown'
  BY KnownForward, ContextType DEF Inv, MovedInv, KnownInv, WorkersMoved, WorkersKnown
<1> QED
  BY <1>1, <1>2, <1>3, <1>4, <1>5, <1>6

\* A worker that ends its task, or moves on with the same job.
KeepsJob(w) ==
    /\ \A v \in Workers \ {w} : wpc'[v] = wpc[v] /\ ctx'[v] = ctx[v]
    /\ wpc'[w] # "idle" => wpc[w] # "idle" /\ ctx'[w].job = ctx[w].job

LEMMA KeepsJobMoved ==
    ASSUME Inv, Forward, NEW w \in Workers, KeepsJob(w)
    PROVE  /\ WorkersMoved'
           /\ (wpc'[w] \in {"startpoll", "poll", "checking", "repoll"}
                  => Known(ctx[w].job)')
              => WorkersKnown'
<1>1. ASSUME NEW v \in Workers, v # w
      PROVE  /\ wpc'[v] # "idle" => Moved(ctx[v].job)'
             /\ wpc'[v] \in {"startpoll", "poll", "checking", "repoll"}
                => Known(ctx[v].job)'
  <2>1. wpc'[v] = wpc[v] /\ ctx'[v] = ctx[v]
    BY <1>1 DEF KeepsJob
  <2> QED
    BY <2>1, KnownForward, ContextType
       DEF Inv, MovedInv, KnownInv, WorkersMoved, WorkersKnown, Forward
<1>2. wpc'[w] # "idle" => Moved(ctx[w].job)'
  BY ContextType DEF KeepsJob, Inv, MovedInv, WorkersMoved, Forward
<1> QED
  BY <1>1, <1>2 DEF WorkersMoved, WorkersKnown

LEMMA FinishKeeps ==
    ASSUME Inv, NEW w \in Workers, Finish(w)
    PROVE  KeepsJob(w) /\ wpc'[w] = "idle"
  BY DEF Inv, TypeOK, Finish, Goto, KeepsJob

LEMMA GotoKeeps ==
    ASSUME Inv, NEW w \in Workers, NEW pc, wpc[w] # "idle", Goto(w, pc), UNCHANGED ctx
    PROVE  KeepsJob(w) /\ wpc'[w] = pc
  BY DEF Inv, TypeOK, Goto, KeepsJob

LEMMA FailKeeps ==
    ASSUME Inv, NEW w \in Workers, NEW o \in Outcome, wpc[w] # "idle", Fail(w, o)
    PROVE  KeepsJob(w) /\ wpc'[w] = "failing"
<1>1. [ctx[w] EXCEPT !.outcome = o].job = ctx[w].job
  BY OutcomeType DEF Inv
<1> QED
  BY <1>1 DEF Inv, TypeOK, Fail, Goto, KeepsJob

LEMMA InvParts ==
    /\ Inv <=> /\ TypeOK /\ QueuedMoved /\ WorkersMoved /\ RequestsMoved
               /\ CountedMoved /\ PollsKnown /\ WorkersKnown
    /\ Inv' <=> /\ TypeOK' /\ QueuedMoved' /\ WorkersMoved' /\ RequestsMoved'
                /\ CountedMoved' /\ PollsKnown' /\ WorkersKnown'
  BY DEF Inv, MovedInv, KnownInv

(***************************************************************************)
(* Steps of an API request.                                                *)
(***************************************************************************)
LEMMA HandlerStepInv ==
    ASSUME Inv, Forward, TypeOK', NEW h \in Handlers, HandlerStep(h) \/ RequestDies(h)
    PROVE  Inv'
<1> USE DEF rows, queues, history
<1>0. /\ TypeOK
      /\ req \in [Handlers -> Request]
      /\ req[h].jobs \subseteq Jobs
      /\ \A j \in req[h].jobs :
            /\ state[j] # "none" /\ (state[j] # "none")'
            /\ req[h].pc \in {"retry", "dispatch", "enqueue"} => Moved(j) /\ Moved(j)'
  <2>1. TypeOK /\ RequestsMoved
    BY InvParts
  <2>2. req \in [Handlers -> Request] /\ req[h].jobs \subseteq Jobs
    BY <2>1 DEF TypeOK, Request
  <2> QED
    BY <2>1, <2>2 DEF RequestsMoved, Forward
\* A request that goes on with the jobs J.
<1> DEFINE Goes(pc, J) ==
        /\ J \subseteq Jobs /\ SetRequest(h, pc, J)
        /\ \A j \in J : /\ (state[j] # "none")'
                        /\ pc \in {"retry", "dispatch", "enqueue"} => Moved(j)'
<1>a. ASSUME NEW pc, NEW J, Goes(pc, J) PROVE RequestsMoved'
  <2>1. /\ req'[h].pc = pc /\ req'[h].jobs = J
        /\ \A g \in Handlers \ {h} : req'[g] = req[g]
    BY <1>0, <1>a DEF SetRequest
  <2>2. \A g \in Handlers : req[g].jobs \subseteq Jobs
    BY <1>0 DEF Request
  <2> QED
    BY <1>a, <2>1, <2>2, InvParts DEF RequestsMoved, Forward
<1>b. ASSUME SetRequest(h, "idle", {}) PROVE RequestsMoved'
  BY <1>a, <1>b
<1>1. ASSUME NEW J \in SUBSET Jobs, Schedule(h, J) PROVE Inv'
  BY <1>1, UntouchedParts, InvParts DEF Schedule
<1>2. ASSUME NEW J \in SUBSET Jobs, Publish(h, J) PROVE Inv'
  <2>1. Goes("dispatch", J)
    BY <1>0, <1>2 DEF Publish, WriteState, Moved
  <2>2. RequestsMoved'
    BY <1>a, <2>1
  <2> QED
    BY <1>2, <2>2, UntouchedParts, InvParts DEF Publish
<1>3. ASSUME NEW A \in SUBSET Assets, ReleaseRead(h, A) PROVE Inv'
  <2> DEFINE J == {j \in JobsOf(A) : state[j] = "scheduled"}
  <2>1. Goes("release", J)
    BY <1>0, <1>3 DEF ReleaseRead, JobsOf, Forward
  <2>2. RequestsMoved'
    BY <1>a, <2>1
  <2> QED
    BY <1>3, <2>2, UntouchedParts, InvParts DEF ReleaseRead
<1>4. ASSUME NEW a \in Assets, UnscheduleRead(h, a) PROVE Inv'
  <2> DEFINE J == {j \in JobsOf({a}) : state[j] = "scheduled"}
  <2>1. Goes("unschedule", J)
    BY <1>0, <1>4 DEF UnscheduleRead, JobsOf, Forward
  <2>2. RequestsMoved'
    BY <1>a, <2>1
  <2> QED
    BY <1>4, <2>2, UntouchedParts, InvParts DEF UnscheduleRead
<1>5. ASSUME NEW j \in Jobs, RetryRead(h, j) PROVE Inv'
  <2>1. Goes("retry", {j})
    BY <1>0, <1>5 DEF RetryRead, Forward, Moved
  <2>2. RequestsMoved'
    BY <1>a, <2>1
  <2> QED
    BY <1>5, <2>2, UntouchedParts, InvParts DEF RetryRead
<1>6. CASE ReleaseCommit(h)
  <2>1. CASE \A j \in req[h].jobs : Exists(j)
    <3>1. Goes("dispatch", req[h].jobs)
      BY <1>0, <1>6, <2>1 DEF ReleaseCommit, WriteState, Moved
    <3>2. RequestsMoved'
      BY <1>a, <3>1
    <3> QED
      BY <1>6, <3>2, UntouchedParts, InvParts DEF ReleaseCommit
  <2>2. CASE ~\A j \in req[h].jobs : Exists(j)
    BY <1>b, <1>6, <2>2, UntouchedParts, InvParts DEF ReleaseCommit
  <2> QED
    BY <2>1, <2>2
<1>7. CASE UnscheduleCommit(h)
  BY <1>b, <1>7, UntouchedParts, InvParts DEF UnscheduleCommit
<1>8. CASE RetryCommit(h)
  <2>1. CountedMoved'
    BY <1>0, <1>8, InvParts DEF RetryCommit, CountedMoved, Forward, TypeOK
  <2>2. CASE \A j \in req[h].jobs : Exists(j)
    <3>1. Goes("dispatch", req[h].jobs)
      BY <1>0, <1>8, <2>2 DEF RetryCommit, WriteState, Moved
    <3>2. RequestsMoved'
      BY <1>a, <3>1
    <3> QED
      BY <1>8, <2>1, <3>2, UntouchedParts, InvParts DEF RetryCommit
  <2>3. CASE ~\A j \in req[h].jobs : Exists(j)
    BY <1>b, <1>8, <2>1, <2>3, UntouchedParts, InvParts DEF RetryCommit
  <2> QED
    BY <2>2, <2>3
<1>9. CASE DispatchRead(h)
  <2> DEFINE found == {j \in req[h].jobs : Exists(j)}
             pc == IF found = {} THEN "idle" ELSE "enqueue"
  <2>1. Goes(pc, found)
    BY <1>0, <1>9 DEF DispatchRead
  <2>2. RequestsMoved'
    BY <1>a, <2>1
  <2> QED
    BY <1>9, <2>2, UntouchedParts, InvParts DEF DispatchRead
<1>10. ASSUME NEW j \in Jobs, Enqueue(h, j) PROVE Inv'
  <2> DEFINE left == req[h].jobs \ {j}
             pc == IF left = {} THEN "idle" ELSE "enqueue"
  <2>1. Goes(pc, left)
    BY <1>0, <1>10 DEF Enqueue
  <2>2. RequestsMoved'
    BY <1>a, <2>1
  <2>3. QueuedMoved'
    BY <1>0, <1>10, InvParts DEF Enqueue, QueuedMoved, Forward, TypeOK
  <2> QED
    BY <1>10, <2>2, <2>3, UntouchedParts, InvParts DEF Enqueue
<1>11. CASE RequestDies(h)
  BY <1>b, <1>11, UntouchedParts, InvParts DEF RequestDies
<1> QED
  BY <1>1, <1>2, <1>3, <1>4, <1>5, <1>6, <1>7, <1>8, <1>9, <1>10, <1>11
     DEF HandlerStep, Commit, Background

(***************************************************************************)
(* Steps of a worker.                                                      *)
(***************************************************************************)
LEMMA TakeInv ==
    ASSUME Inv, Forward, TypeOK', NEW w \in Workers, NEW j \in Jobs,
           TakeRun(w, j) \/ \E n \in 1..MaxPolls : TakePoll(w, j, n)
    PROVE  Inv'
<1> USE DEF rows, queues, history
\* A worker that starts on a job that has left the backlog.
<1>1. ASSUME NEW pc \in {"claim", "poll"}, Goto(w, pc), Moved(j), pc = "poll" => Known(j),
             \A v \in Workers \ {w} : ctx'[v] = ctx[v], ctx'[w].job = j
      PROVE  WorkersMoved' /\ WorkersKnown'
  <2>1. wpc'[w] = pc /\ \A v \in Workers \ {w} : wpc'[v] = wpc[v]
    BY <1>1, InvParts DEF Goto, TypeOK
  <2>2. Moved(j)' /\ (pc = "poll" => Known(j)')
    BY <1>1, KnownForward DEF Forward
  <2>3. ASSUME NEW v \in Workers, v # w
        PROVE  /\ wpc'[v] # "idle" => Moved(ctx[v].job)'
               /\ wpc'[v] \in {"startpoll", "poll", "checking", "repoll"}
                  => Known(ctx[v].job)'
    <3>1. wpc'[v] = wpc[v] /\ ctx'[v] = ctx[v]
      BY <1>1, <2>1, <2>3
    <3> QED
      BY <3>1, InvParts, KnownForward, ContextType DEF WorkersMoved, WorkersKnown, Forward
  <2> QED
    BY <1>1, <2>1, <2>2, <2>3 DEF WorkersMoved, WorkersKnown
<1>2. CASE TakeRun(w, j)
  <2>1. Moved(j)
    BY <1>2, InvParts DEF TakeRun, QueuedMoved
  <2>2. (\A v \in Workers \ {w} : ctx'[v] = ctx[v]) /\ ctx'[w].job = j
    BY <1>2, InvParts DEF TakeRun, TypeOK, NoContext
  <2>3. WorkersMoved' /\ WorkersKnown'
    BY <1>1, <1>2, <2>1, <2>2 DEF TakeRun
  <2>4. QueuedMoved'
    BY <1>2, <2>1, InvParts DEF TakeRun, QueuedMoved, Forward, TypeOK
  <2> QED
    BY <1>2, <2>3, <2>4, UntouchedParts, InvParts DEF TakeRun
<1>3. ASSUME NEW n \in 1..MaxPolls, TakePoll(w, j, n) PROVE Inv'
  <2>1. Moved(j) /\ Known(j)
    BY <1>3, InvParts DEF TakePoll, QueuedMoved, PollsKnown
  <2>2. (\A v \in Workers \ {w} : ctx'[v] = ctx[v]) /\ ctx'[w].job = j
    BY <1>3, InvParts DEF TakePoll, TypeOK, NoContext
  <2>3. WorkersMoved' /\ WorkersKnown'
    BY <1>1, <1>3, <2>1, <2>2 DEF TakePoll
  <2>4. \A k \in Jobs, m \in 1..MaxPolls : polls'[k][m] > 0 => polls[k][m] > 0
    BY <1>3, InvParts DEF TakePoll, TypeOK
  <2>5. QueuedMoved' /\ PollsKnown'
    BY <1>3, <2>4, InvParts, KnownForward DEF TakePoll, QueuedMoved, PollsKnown, Forward
  <2> QED
    BY <1>3, <2>3, <2>5, UntouchedParts, InvParts DEF TakePoll
<1> QED
  BY <1>2, <1>3

\* One more poll of a job that is known.
LEMMA EnqueuedPoll ==
    ASSUME Inv, Forward, NEW j \in Jobs, NEW n \in 1..MaxPolls, Moved(j), Known(j),
           UNCHANGED runs, polls' = [polls EXCEPT ![j][n] = @ + 1]
    PROVE  QueuedMoved' /\ PollsKnown'
<1>1. \A k \in Jobs, m \in 1..MaxPolls : polls'[k][m] > 0 => polls[k][m] > 0 \/ k = j
  BY InvParts DEF TypeOK
<1> QED
  BY <1>1, InvParts, KnownForward DEF QueuedMoved, PollsKnown, Forward

LEMMA RunStepInv ==
    ASSUME Inv, Forward, TypeOK', NEW w \in Workers, RunStep(w)
    PROVE  Inv'
<1> USE DEF rows, queues, history
<1>1. /\ TypeOK
      /\ wpc[w] # "idle" => ctx[w].job \in Jobs /\ Moved(ctx[w].job)
      /\ wpc[w] \in {"startpoll", "poll", "checking", "repoll"} => Known(ctx[w].job)
  BY InvParts, ContextType DEF WorkersMoved, WorkersKnown, Forward
<1>2. CASE ClaimRead(w)
  <2>1. KeepsJob(w) /\ wpc'[w] \in {"claiming", "idle"}
    <3>1. CASE state[ctx[w].job] \in Live
      <4> DEFINE c == [ctx[w] EXCEPT !.seen = state[ctx[w].job],
                                     !.attempt = attempts[ctx[w].job] + 1]
      <4>1. c.job = ctx[w].job
        BY InvParts DEF TypeOK, Context
      <4>2. wpc' = [wpc EXCEPT ![w] = "claiming"] /\ ctx' = [ctx EXCEPT ![w] = c]
        BY <1>2, <3>1 DEF ClaimRead, Goto
      <4> HIDE DEF c
      <4> QED
        BY <1>2, <4>1, <4>2, <1>1 DEF KeepsJob, TypeOK, ClaimRead
    <3>2. CASE state[ctx[w].job] \notin Live
      BY <1>2, <3>2, FinishKeeps DEF ClaimRead
    <3> QED
      BY <3>1, <3>2
  <2>2. WorkersMoved' /\ WorkersKnown'
    BY <2>1, KeepsJobMoved
  <2> QED
    BY <1>2, <2>2, UntouchedParts, InvParts DEF ClaimRead
<1>3. CASE ClaimCommit(w)
  <2>1. KeepsJob(w) /\ wpc'[w] \in {"rendition", "idle"}
    BY <1>3, InvParts, FinishKeeps, GotoKeeps DEF ClaimCommit
  <2>2. WorkersMoved' /\ WorkersKnown'
    BY <2>1, KeepsJobMoved
  <2>3. CountedMoved'
    BY <1>3, <1>1, InvParts DEF ClaimCommit, CountedMoved, Forward, TypeOK
  <2> QED
    BY <1>3, <2>2, <2>3, UntouchedParts, InvParts DEF ClaimCommit
<1>4. CASE EnsureRendition(w)
  <2>1. KeepsJob(w) /\ wpc'[w] \in {"starting", "idle"}
    BY <1>4, InvParts, FinishKeeps, GotoKeeps DEF EnsureRendition
  <2>2. WorkersMoved' /\ WorkersKnown'
    BY <2>1, KeepsJobMoved
  <2> QED
    BY <1>4, <2>2, UntouchedParts, InvParts DEF EnsureRendition
<1>5. CASE RenditionFails(w)
  <2>1. KeepsJob(w) /\ wpc'[w] = "failing"
    BY <1>5, InvParts, FailKeeps DEF RenditionFails, Outcome
  <2>2. WorkersMoved' /\ WorkersKnown'
    BY <2>1, KeepsJobMoved
  <2> QED
    BY <1>5, <2>2, UntouchedParts, InvParts DEF RenditionFails
<1>6. CASE SetUploading(w)
  <2>1. KeepsJob(w) /\ wpc'[w] = "publishing"
    BY <1>6, InvParts, GotoKeeps DEF SetUploading
  <2>2. WorkersMoved' /\ WorkersKnown'
    BY <2>1, KeepsJobMoved
  <2> QED
    BY <1>6, <2>2, UntouchedParts, InvParts DEF SetUploading
<1>7. ASSUME NEW o \in {"retryable", "fatal", "unexpected"}, PlatformRefuses(w, o) PROVE Inv'
  <2>1. KeepsJob(w) /\ wpc'[w] = "failing"
    BY <1>7, InvParts, FailKeeps DEF PlatformRefuses, Outcome
  <2>2. WorkersMoved' /\ WorkersKnown'
    BY <2>1, KeepsJobMoved
  <2> QED
    BY <1>7, <2>2, UntouchedParts, InvParts DEF PlatformRefuses
<1>8. CASE PlatformAccepts(w)
  <2>1. KeepsJob(w) /\ wpc'[w] = "accepted"
    BY <1>8, InvParts, GotoKeeps DEF PlatformAccepts
  <2>2. WorkersMoved' /\ WorkersKnown'
    BY <2>1, KeepsJobMoved
  <2>3. CountedMoved'
    BY <1>8, <1>1, InvParts DEF PlatformAccepts, CountedMoved, Forward, TypeOK
  <2> QED
    BY <1>8, <2>2, <2>3, UntouchedParts, InvParts DEF PlatformAccepts
<1>9. ASSUME NEW o \in {"retryable", "unexpected"}, AnswerLost(w, o) PROVE Inv'
  <2>1. KeepsJob(w) /\ wpc'[w] = "failing"
    BY <1>9, InvParts, FailKeeps DEF AnswerLost, Outcome
  <2>2. WorkersMoved' /\ WorkersKnown'
    BY <2>1, KeepsJobMoved
  <2> QED
    BY <1>9, <2>2, UntouchedParts, InvParts DEF AnswerLost
<1>10. CASE RecordStarted(w)
  <2>1. KeepsJob(w) /\ wpc'[w] = "startpoll"
    BY <1>10, InvParts, GotoKeeps DEF RecordStarted
  <2>2. Known(ctx[w].job)'
    BY <1>10, <1>1 DEF RecordStarted, WriteIfExists, WriteState, Known, Exists,
                      TypeOK
  <2>3. WorkersMoved' /\ WorkersKnown'
    BY <2>1, <2>2, KeepsJobMoved
  <2> QED
    BY <1>10, <2>3, UntouchedParts, InvParts DEF RecordStarted
<1>11. CASE EnqueuePoll(w)
  <2>1. KeepsJob(w) /\ wpc'[w] = "idle"
    BY <1>11, InvParts, FinishKeeps DEF EnqueuePoll
  <2>2. WorkersMoved' /\ WorkersKnown'
    BY <2>1, KeepsJobMoved
  <2>3. 1 \in 1..MaxPolls
    BY <1>11, <1>1, ConstantsOK
  <2>4. QueuedMoved' /\ PollsKnown'
    BY <1>11, <1>1, <2>3, EnqueuedPoll DEF EnqueuePoll
  <2> QED
    BY <1>11, <2>2, <2>3, <2>4, UntouchedParts, InvParts DEF EnqueuePoll
<1>12. CASE RecordFailure(w)
  <2>1. KeepsJob(w) /\ wpc'[w] \in {"requeue", "idle"}
    BY <1>12, InvParts, FinishKeeps, GotoKeeps DEF RecordFailure
  <2>2. WorkersMoved' /\ WorkersKnown'
    BY <2>1, KeepsJobMoved
  <2> QED
    BY <1>12, <2>2, UntouchedParts, InvParts DEF RecordFailure
<1>13. CASE Requeue(w)
  <2>1. KeepsJob(w) /\ wpc'[w] = "idle"
    BY <1>13, InvParts, FinishKeeps DEF Requeue
  <2>2. WorkersMoved' /\ WorkersKnown'
    BY <2>1, KeepsJobMoved
  <2>3. QueuedMoved'
    BY <1>13, <1>1, InvParts DEF Requeue, QueuedMoved, Forward, TypeOK
  <2> QED
    BY <1>13, <2>2, <2>3, UntouchedParts, InvParts DEF Requeue
<1> QED
  BY <1>2, <1>3, <1>4, <1>5, <1>6, <1>7, <1>8, <1>9, <1>10, <1>11, <1>12, <1>13
     DEF RunStep

LEMMA PollStepInv ==
    ASSUME Inv, Forward, TypeOK', NEW w \in Workers, PollStep(w) \/ WorkerDies(w)
    PROVE  Inv'
<1> USE DEF rows, queues, history
<1>1. /\ TypeOK
      /\ wpc[w] # "idle" => ctx[w].job \in Jobs /\ Moved(ctx[w].job)
      /\ wpc[w] \in {"startpoll", "poll", "checking", "repoll"} => Known(ctx[w].job)
  BY InvParts, ContextType DEF WorkersMoved, WorkersKnown, Forward
<1>2. CASE PollRead(w)
  <2>1. KeepsJob(w) /\ wpc'[w] \in {"checking", "idle"}
    BY <1>2, InvParts, FinishKeeps, GotoKeeps DEF PollRead
  <2>2. wpc'[w] = "checking" => Known(ctx[w].job)'
    <3>1. wpc[w] = "poll" /\ (wpc'[w] = "checking" => ctx'[w].job = ctx[w].job)
      BY <1>2, <2>1 DEF PollRead, KeepsJob
    <3> QED
      BY <1>1, <3>1, KnownForward DEF Known
  <2>3. WorkersMoved' /\ WorkersKnown'
    BY <2>1, <2>2, KeepsJobMoved
  <2> QED
    BY <1>2, <2>3, UntouchedParts, InvParts DEF PollRead
<1>3. ASSUME NEW o \in {"published", "failed"}, StatusFinal(w, o) PROVE Inv'
  <2> DEFINE c == [ctx[w] EXCEPT !.outcome = o]
  <2>1. c.job = ctx[w].job
    BY <1>1, OutcomeType DEF Outcome
  <2>2. wpc' = [wpc EXCEPT ![w] = "settling"] /\ ctx' = [ctx EXCEPT ![w] = c]
    BY <1>3 DEF StatusFinal, Goto
  <2> HIDE DEF c
  <2>3. KeepsJob(w) /\ wpc'[w] = "settling"
    BY <1>3, <1>1, <2>1, <2>2 DEF KeepsJob, TypeOK, StatusFinal
  <2>4. WorkersMoved' /\ WorkersKnown'
    BY <2>3, KeepsJobMoved
  <2> QED
    BY <1>3, <2>4, UntouchedParts, InvParts DEF StatusFinal
<1>4. CASE StatusPending(w)
  <2>1. KeepsJob(w) /\ wpc'[w] = "repoll"
    BY <1>4, InvParts, GotoKeeps DEF StatusPending
  <2>2. Known(ctx[w].job)'
    BY <1>4, <1>1, KnownForward DEF StatusPending
  <2>3. WorkersMoved' /\ WorkersKnown'
    BY <2>1, <2>2, KeepsJobMoved
  <2> QED
    BY <1>4, <2>3, UntouchedParts, InvParts DEF StatusPending
<1>5. CASE StatusEscapes(w)
  <2>1. KeepsJob(w) /\ wpc'[w] = "idle"
    BY <1>5, InvParts, FinishKeeps DEF StatusEscapes
  <2>2. WorkersMoved' /\ WorkersKnown'
    BY <2>1, KeepsJobMoved
  <2> QED
    BY <1>5, <2>2, UntouchedParts, InvParts DEF StatusEscapes
<1>6. CASE Settle(w)
  <2>1. KeepsJob(w) /\ wpc'[w] = "idle"
    BY <1>6, InvParts, FinishKeeps DEF Settle
  <2>2. WorkersMoved' /\ WorkersKnown'
    BY <2>1, KeepsJobMoved
  <2> QED
    BY <1>6, <2>2, UntouchedParts, InvParts DEF Settle
<1>7. CASE Repoll(w)
  <2>1. WorkersMoved' /\ WorkersKnown'
    BY <1>7, FinishKeeps, KeepsJobMoved DEF Repoll
  <2>2. CASE ctx[w].poll >= MaxPolls
    BY <1>7, <2>1, <2>2, UntouchedParts, InvParts DEF Repoll
  <2>3. CASE ~(ctx[w].poll >= MaxPolls)
    <3>1. ctx[w].poll + 1 \in 1..MaxPolls
      BY <1>1, <2>3, ConstantsOK, ContextType
    <3>2. QueuedMoved' /\ PollsKnown'
      BY <1>7, <1>1, <2>3, <3>1, EnqueuedPoll DEF Repoll
    <3> QED
      BY <1>7, <2>1, <3>2, UntouchedParts, InvParts DEF Repoll
  <2> QED
    BY <2>2, <2>3
<1>8. CASE WorkerDies(w)
  <2>1. WorkersMoved' /\ WorkersKnown'
    BY <1>8, FinishKeeps, KeepsJobMoved DEF WorkerDies
  <2> QED
    BY <1>8, <2>1, UntouchedParts, InvParts DEF WorkerDies
<1> QED
  BY <1>2, <1>3, <1>4, <1>5, <1>6, <1>7, <1>8
     DEF PollStep

(***************************************************************************)
(* The theorems.                                                           *)
(***************************************************************************)
LEMMA InvInit == Init => Inv
<1> SUFFICES ASSUME Init PROVE Inv
  OBVIOUS
<1>1. TypeOK
  BY InitType
<1>2. QueuedMoved /\ PollsKnown /\ CountedMoved
  BY DEF Init, QueuedMoved, PollsKnown, CountedMoved
<1>3. WorkersMoved /\ WorkersKnown
  BY DEF Init, WorkersMoved, WorkersKnown
<1>4. RequestsMoved
  BY DEF Init, RequestsMoved, NoRequest
<1> QED
  BY <1>1, <1>2, <1>3, <1>4, InvParts

LEMMA InvNext == Inv /\ [Next]_vars => Inv'
<1> SUFFICES ASSUME Inv, [Next]_vars PROVE Inv'
  OBVIOUS
<1>1. Forward /\ TypeOK'
  BY InvParts, ForwardStep, TypeStep
<1>2. ASSUME NEW h \in Handlers, HandlerStep(h) \/ RequestDies(h) PROVE Inv'
  BY <1>1, <1>2, HandlerStepInv
<1>3. ASSUME NEW w \in Workers, WorkerStep(w) \/ WorkerDies(w) PROVE Inv'
  BY <1>1, <1>3, TakeInv, RunStepInv, PollStepInv DEF WorkerStep, Take
<1>4. CASE UNCHANGED vars
  BY <1>1, <1>4, UntouchedParts, InvParts DEF vars, rows, queues, history
<1> QED
  BY <1>2, <1>3, <1>4 DEF Next

THEOREM InvCorrect == Spec => []Inv
<1> QED
  BY InvInit, InvNext, PTL DEF Spec

\* For any number of requests, workers and jobs: while a row is SCHEDULED nothing
\* carries it, no attempt was counted and nothing was posted.  `release`,
\* `unschedule`, `retry` and the tick may interleave in any way.
THEOREM BacklogIsInert == Spec => []BacklogInert
<1>1. Inv => BacklogInert
  <2> SUFFICES ASSUME Inv, NEW j \in Jobs, state[j] = "scheduled"
               PROVE  Carriers(j) = {} /\ attempts[j] = 0 /\ posts[j] = 0
    BY DEF BacklogInert
  <2>1. ~Moved(j)
    BY DEF Moved
  <2>2. TypeOK
    BY InvParts
  <2>3. attempts[j] = 0 /\ posts[j] = 0
    BY <2>1, <2>2, InvParts DEF CountedMoved, TypeOK
  <2>4. runs[j] = 0 /\ \A n \in 1..MaxPolls : polls[j][n] = 0
    <3>1. runs[j] \in Nat /\ \A n \in 1..MaxPolls : polls[j][n] \in Nat
      BY <2>2 DEF TypeOK
    <3>2. ~(runs[j] > 0) /\ \A n \in 1..MaxPolls : ~(polls[j][n] > 0)
      BY <2>1, InvParts DEF QueuedMoved
    <3> QED
      BY <3>1, <3>2
  <2>5. \A w \in Workers : ctx[w].job # j
    <3> SUFFICES ASSUME NEW w \in Workers, ctx[w].job = j PROVE FALSE
      OBVIOUS
    <3>1. wpc[w] # "idle"
      BY <2>2, ConstantsOK DEF TypeOK, WorkerOK
    <3> QED
      BY <2>1, <3>1, InvParts DEF WorkersMoved
  <2>6. \A h \in Handlers : j \notin Dispatching(h)
    BY <2>1, InvParts DEF Dispatching, RequestsMoved
  <2>7. ~Carried(j)
    BY <2>4, <2>5, <2>6 DEF Carried
  <2> QED
    BY <2>2, <2>3, <2>7, CarriedIff
<1> QED
  BY <1>1, InvCorrect, PTL

\* A poll, queued or just started, names a row with an external id, however the
\* requests and the workers interleave: the branch of poll_publish_job that fails
\* a job for want of one is never taken.
THEOREM PollsHaveExternalId == Spec => []PollHasExternalId
<1>1. Inv => PollHasExternalId
  BY InvParts DEF PollHasExternalId, PollsKnown, WorkersKnown, Known
<1> QED
  BY <1>1, InvCorrect, PTL

(***************************************************************************)
(* NoOrphan: with the types it is inductive as it stands.  A step that ends  *)
(* what carries a job leaves the job at rest, or hands it on.               *)
(***************************************************************************)
Kept(j) == state[j] \in Live => Carried(j) \/ j \in lost

\* A request goes on: what the others have to dispatch stays.
LEMMA RequestCarries ==
    ASSUME TypeOK, NEW h \in Handlers, NEW pc, NEW J, SetRequest(h, pc, J), NEW j \in Jobs,
           Carried(j), UNCHANGED <<polls, ctx>>, runs[j] > 0 => runs'[j] > 0,
           j \in Dispatching(h) => (j \in J /\ pc \in {"dispatch", "enqueue"}) \/ runs'[j] > 0
    PROVE  Carried(j)'
<1>1. /\ \A g \in Handlers \ {h} : req'[g] = req[g]
      /\ req'[h].pc = pc /\ req'[h].jobs = J
  BY DEF TypeOK, SetRequest
<1> QED BY <1>1 DEF Carried, Dispatching

LEMMA HandlerKeeps ==
    ASSUME TypeOK, NEW h \in Handlers, HandlerStep(h) \/ RequestDies(h), NEW j \in Jobs, Kept(j)
    PROVE  Kept(j)'
<1> SUFFICES ASSUME state'[j] \in Live PROVE Carried(j)' \/ j \in lost'
  BY DEF Kept
<1> USE DEF queues, history
<1>0. req \in [Handlers -> Request] /\ req[h].jobs \subseteq Jobs
  BY DEF TypeOK, Request
\* A request that leaves the row alone, or puts it among those it will dispatch.
<1>a. ASSUME NEW pc, NEW J, SetRequest(h, pc, J), Dispatching(h) = {},
             UNCHANGED <<runs, polls, ctx, lost>>,
             state'[j] = state[j] \/ (j \in J /\ pc = "dispatch")
      PROVE  Carried(j)' \/ j \in lost'
  <2>1. CASE state'[j] = state[j]
    BY <1>a, <2>1, RequestCarries DEF Kept
  <2>2. CASE j \in J /\ pc = "dispatch"
    <3>1. req'[h].pc = "dispatch" /\ req'[h].jobs = J
      BY <1>0, <1>a, <2>2 DEF SetRequest
    <3> QED BY <2>2, <3>1 DEF Carried, Dispatching
  <2> QED BY <1>a, <2>1, <2>2
<1>1. ASSUME NEW J \in SUBSET Jobs, Schedule(h, J) PROVE Carried(j)' \/ j \in lost'
  <2>1. state'[j] = state[j]
    BY <1>1 DEF Schedule, WriteState, Live
  <2> QED BY <1>1, <2>1 DEF Schedule, Kept, Carried, Dispatching
<1>2. ASSUME NEW J \in SUBSET Jobs, Publish(h, J) PROVE Carried(j)' \/ j \in lost'
  BY <1>2, <1>a DEF Publish, WriteState, Dispatching
<1>3. ASSUME NEW A \in SUBSET Assets, ReleaseRead(h, A) PROVE Carried(j)' \/ j \in lost'
  BY <1>3, <1>a DEF ReleaseRead, rows, Dispatching
<1>4. ASSUME NEW a \in Assets, UnscheduleRead(h, a) PROVE Carried(j)' \/ j \in lost'
  BY <1>4, <1>a DEF UnscheduleRead, rows, Dispatching
<1>5. ASSUME NEW k \in Jobs, RetryRead(h, k) PROVE Carried(j)' \/ j \in lost'
  BY <1>5, <1>a DEF RetryRead, rows, Dispatching
<1>6. CASE ReleaseCommit(h)
  BY <1>6, <1>a DEF ReleaseCommit, WriteState, Dispatching
<1>7. CASE UnscheduleCommit(h)
  BY <1>7, <1>a DEF UnscheduleCommit, WriteState, Dispatching, Live
<1>8. CASE RetryCommit(h)
  BY <1>8, <1>a DEF RetryCommit, WriteState, Dispatching
<1>9. CASE DispatchRead(h)
  <2> DEFINE found == {k \in req[h].jobs : Exists(k)}
  <2>1. state'[j] = state[j] /\ Exists(j) /\ UNCHANGED <<runs, polls, ctx, lost>>
    BY <1>9 DEF DispatchRead, rows, Exists, Live, Gone
  <2>2. SetRequest(h, IF found = {} THEN "idle" ELSE "enqueue", found)
    BY <1>9 DEF DispatchRead
  <2>3. j \in Dispatching(h) => j \in found
    BY <2>1 DEF Dispatching
  <2> HIDE DEF found
  <2> QED BY <2>1, <2>2, <2>3, RequestCarries DEF Kept
<1>10. ASSUME NEW k \in Jobs, Enqueue(h, k) PROVE Carried(j)' \/ j \in lost'
  <2> DEFINE left == req[h].jobs \ {k}
  <2>1. state'[j] = state[j] /\ UNCHANGED <<polls, ctx, lost>>
    BY <1>10 DEF Enqueue, rows
  <2>2. SetRequest(h, IF left = {} THEN "idle" ELSE "enqueue", left)
    BY <1>10 DEF Enqueue
  <2>3. /\ runs[j] > 0 => runs'[j] > 0
        /\ j = k => runs'[j] > 0
    BY <1>10 DEF Enqueue, TypeOK
  <2>4. j \in Dispatching(h) => j \in left \/ runs'[j] > 0
    BY <2>3 DEF Dispatching
  <2> HIDE DEF left
  <2> QED BY <2>1, <2>2, <2>3, <2>4, RequestCarries DEF Kept
<1>11. CASE RequestDies(h)
  <2>1. CASE j \in Dispatching(h)
    BY <1>11, <2>1 DEF RequestDies
  <2>2. CASE j \notin Dispatching(h)
    BY <1>11, <2>2, RequestCarries DEF RequestDies, rows, Kept
  <2> QED BY <2>1, <2>2
<1> QED BY <1>1, <1>2, <1>3, <1>4, <1>5, <1>6, <1>7, <1>8, <1>9, <1>10, <1>11
        DEF HandlerStep, Commit, Background

\* What a worker does to the jobs it has not in hand.
LEMMA OthersKept ==
    ASSUME TypeOK, NEW w \in Workers, RunStep(w) \/ PollStep(w) \/ WorkerDies(w),
           NEW j \in Jobs, ctx[w].job # j
    PROVE  /\ state'[j] = state[j] /\ runs'[j] = runs[j] /\ polls'[j] = polls[j]
           /\ UNCHANGED req /\ lost \subseteq lost'
           /\ \A v \in Workers : ctx[v].job = j => ctx'[v] = ctx[v]
<1> USE DEF TypeOK, rows, queues, history, WriteIfExists, WriteState
<1>1. CASE WorkerDies(w)
  BY <1>1 DEF WorkerDies, Finish, Goto
<1>2. CASE ClaimRead(w) \/ ClaimCommit(w) \/ EnsureRendition(w) \/ RenditionFails(w)
  BY <1>2 DEF ClaimRead, ClaimCommit, EnsureRendition, RenditionFails, Finish, Goto, Fail
<1>3. CASE \/ SetUploading(w) \/ PlatformAccepts(w)
           \/ \E outcome \in {"retryable", "fatal", "unexpected"} : PlatformRefuses(w, outcome)
           \/ \E outcome \in {"retryable", "unexpected"} : AnswerLost(w, outcome)
  BY <1>3 DEF SetUploading, PlatformAccepts, PlatformRefuses, AnswerLost, Goto, Fail
<1>4. CASE RecordStarted(w) \/ EnqueuePoll(w) \/ RecordFailure(w) \/ Requeue(w)
  BY <1>4 DEF RecordStarted, EnqueuePoll, RecordFailure, Requeue, Finish, Goto
<1>5. CASE PollStep(w)
  BY <1>5 DEF PollStep, PollRead, StatusFinal, StatusPending, StatusEscapes, Settle, Repoll,
              Finish, Goto
<1> QED BY <1>1, <1>2, <1>3, <1>4, <1>5 DEF RunStep

LEMMA PollsAdded ==
    ASSUME TypeOK, NEW j \in Jobs, NEW n \in 1..MaxPolls,
           polls' = [polls EXCEPT ![j][n] = @ + 1]
    PROVE  \E m \in 1..MaxPolls : polls'[j][m] > 0
<1>1. polls \in [Jobs -> [1..MaxPolls -> Nat]] /\ polls[j][n] \in Nat
  BY DEF TypeOK
<1>2. polls'[j][n] = polls[j][n] + 1
  BY <1>1
<1> QED BY <1>1, <1>2

\* What it does to its own: the job is left at rest, kept in hand, queued again or
\* lost.
LEMMA OwnKept ==
    ASSUME TypeOK, NEW w \in Workers, RunStep(w) \/ PollStep(w) \/ WorkerDies(w),
           NEW j \in Jobs, ctx[w].job = j, state'[j] \in Live
    PROVE  \/ ctx'[w].job = j \/ runs'[j] > 0 \/ j \in lost'
           \/ \E n \in 1..MaxPolls : polls'[j][n] > 0
<1>0. /\ ctx[w] \in Context /\ ctx[w].poll \in 0..MaxPolls
      /\ wpc[w] = "settling" => ctx[w].outcome \in Terminal
  BY ContextType
<1> USE DEF TypeOK, rows, queues, history, WriteIfExists, WriteState, Live, Gone, Terminal, Exists
<1>1. CASE WorkerDies(w)
  BY <1>1 DEF WorkerDies
<1>2. CASE ClaimRead(w) \/ ClaimCommit(w) \/ EnsureRendition(w)
  BY <1>0, <1>2 DEF ClaimRead, ClaimCommit, EnsureRendition, Finish, Goto, Context
<1>3. CASE \/ SetUploading(w) \/ PlatformAccepts(w) \/ RenditionFails(w)
           \/ \E outcome \in {"retryable", "fatal", "unexpected"} : PlatformRefuses(w, outcome)
           \/ \E outcome \in {"retryable", "unexpected"} : AnswerLost(w, outcome)
  BY <1>0, <1>3 DEF SetUploading, PlatformAccepts, RenditionFails, PlatformRefuses, AnswerLost,
                    Goto, Fail, Context
<1>4. CASE RecordStarted(w) \/ RecordFailure(w)
  BY <1>4 DEF RecordStarted, RecordFailure, Finish, Goto
<1>5. CASE Requeue(w)
  BY <1>5 DEF Requeue
<1>6. CASE EnqueuePoll(w)
  <2>1. 1 \in 1..MaxPolls
    BY ConstantsOK
  <2> QED BY <1>6, <2>1, PollsAdded DEF EnqueuePoll
<1>7. CASE Repoll(w)
  <2>1. CASE ctx[w].poll >= MaxPolls
    BY <1>7, <2>1 DEF Repoll
  <2>2. CASE ~(ctx[w].poll >= MaxPolls)
    <3>1. ctx[w].poll + 1 \in 1..MaxPolls
      BY <1>0, <2>2, ConstantsOK
    <3>2. polls' = [polls EXCEPT ![j][ctx[w].poll + 1] = @ + 1]
      BY <1>7, <2>2 DEF Repoll
    <3> HIDE DEF TypeOK
    <3> QED BY <3>1, <3>2, PollsAdded
  <2> QED BY <2>1, <2>2
<1>8. CASE PollRead(w)
  BY <1>8 DEF PollRead
<1>9. CASE Settle(w)
  BY <1>0, <1>9 DEF Settle
<1>10. CASE StatusPending(w) \/ StatusEscapes(w)
  BY <1>10 DEF StatusPending, StatusEscapes
<1>11. ASSUME NEW outcome \in {"published", "failed"}, StatusFinal(w, outcome)
       PROVE  ctx'[w].job = j
  BY <1>0, <1>11 DEF StatusFinal, Context
<1> QED BY <1>1, <1>2, <1>3, <1>4, <1>5, <1>6, <1>7, <1>8, <1>9, <1>10, <1>11
        DEF RunStep, PollStep

\* A worker takes a task: the job is in its hands instead of on the queue.
LEMMA TakeKeeps ==
    ASSUME TypeOK, NEW w \in Workers, Take(w), NEW j \in Jobs, Kept(j)
    PROVE  Kept(j)'
<1> USE DEF rows, history
<1>0. /\ ctx \in [Workers -> Context] /\ ctx[w].job = NoJob /\ NoJob # j
      /\ UNCHANGED <<state, lost, req>>
  BY ConstantsOK DEF TypeOK, WorkerOK, Take, TakeRun, TakePoll
<1>1. \A v \in Workers \ {w} : ctx'[v] = ctx[v]
  BY <1>0 DEF Take, TakeRun, TakePoll
<1>2. ASSUME NEW k \in Jobs, TakeRun(w, k) PROVE Kept(j)'
  <2>1. ctx'[w].job = k /\ (j # k => runs'[j] = runs[j]) /\ polls' = polls
    BY <1>0, <1>2 DEF TakeRun, NoContext, TypeOK
  <2> QED BY <1>0, <1>1, <2>1 DEF Kept, Carried, Dispatching
<1>3. ASSUME NEW k \in Jobs, NEW n \in 1..MaxPolls, TakePoll(w, k, n) PROVE Kept(j)'
  <2>1. ctx'[w].job = k /\ (j # k => polls'[j] = polls[j]) /\ runs' = runs
    BY <1>0, <1>3 DEF TakePoll, NoContext, TypeOK
  <2> QED BY <1>0, <1>1, <2>1 DEF Kept, Carried, Dispatching
<1> QED BY <1>2, <1>3 DEF Take

LEMMA WorkerKeeps ==
    ASSUME TypeOK, NEW w \in Workers, WorkerStep(w) \/ WorkerDies(w), NEW j \in Jobs, Kept(j)
    PROVE  Kept(j)'
<1>1. CASE Take(w)
  BY <1>1, TakeKeeps
<1>2. CASE RunStep(w) \/ PollStep(w) \/ WorkerDies(w)
  <2>1. CASE ctx[w].job = j
    BY <1>2, <2>1, OwnKept DEF Kept, Carried
  <2>2. CASE ctx[w].job # j
    <3>1. /\ state'[j] = state[j] /\ runs'[j] = runs[j] /\ polls'[j] = polls[j]
          /\ UNCHANGED req /\ lost \subseteq lost'
          /\ \A v \in Workers : ctx[v].job = j => ctx'[v] = ctx[v]
      BY <1>2, <2>2, OthersKept
    <3>2. Carried(j) => Carried(j)'
      BY <3>1 DEF Carried, Dispatching
    <3> QED BY <3>1, <3>2 DEF Kept
  <2> QED BY <2>1, <2>2
<1> QED BY <1>1, <1>2 DEF WorkerStep

AllKept == \A j \in Jobs : Kept(j)

LEMMA KeptStep == TypeOK /\ AllKept /\ [Next]_vars => AllKept'
<1> SUFFICES ASSUME TypeOK, AllKept, [Next]_vars, NEW j \in Jobs PROVE Kept(j)'
  BY DEF AllKept
<1> Kept(j)
  BY DEF AllKept
<1>1. ASSUME NEW h \in Handlers, HandlerStep(h) \/ RequestDies(h) PROVE Kept(j)'
  BY <1>1, HandlerKeeps
<1>2. ASSUME NEW w \in Workers, WorkerStep(w) \/ WorkerDies(w) PROVE Kept(j)'
  BY <1>2, WorkerKeeps
<1>3. CASE UNCHANGED vars
  BY <1>3 DEF vars, rows, queues, history, Kept, Carried, Dispatching
<1> QED BY <1>1, <1>2, <1>3 DEF Next

\* No job is orphaned: one that is neither finished nor in the backlog has a queued
\* task, a worker or a request that carries it, or a fault took what did.
THEOREM NoJobOrphaned == Spec => []NoOrphan
<1>1. Init => AllKept
  BY DEF Init, AllKept, Kept, Live
<1>2. TypeOK /\ AllKept => NoOrphan
  BY CarriedIff DEF NoOrphan, AllKept, Kept
<1> QED BY <1>1, <1>2, KeptStep, TypeCorrect, PTL DEF Spec

(***************************************************************************)
(* PostPerDispatch: every dispatched task, and every lost answer that sends  *)
(* its task back to be tried again, is either still on the queue, in the    *)
(* hands of one worker that may yet post it, spent on a post, or gone.      *)
(***************************************************************************)
BeforePost == {"claim", "claiming", "rendition", "starting", "publishing", "failing", "requeue"}
Unposted(w, j) == ctx[w].job = j /\ wpc[w] \in BeforePost
MayPost(j) == {w \in Workers : Unposted(w, j)}
Count(b) == IF b THEN 1 ELSE 0
Budget ==
    \A j \in Jobs :
        posts[j] + runs[j] + Cardinality(MayPost(j)) <= dispatches[j] + blind[j]

LEMMA CountIn ==
    ASSUME NEW U \in SUBSET Workers, NEW w \in Workers, NEW R, R = U \ {w}
    PROVE  /\ Cardinality(U) \in Nat /\ Cardinality(R) \in Nat
           /\ Cardinality(U) = Cardinality(R) + Count(w \in U)
<1>1. IsFiniteSet(R) /\ IsFiniteSet(U)
  BY ConstantsOK, FS_Subset
<1>2. Cardinality(U) \in Nat /\ Cardinality(R) \in Nat
  BY <1>1, FS_CardinalityType
<1>3. CASE w \in U
  <2>1. U = R \cup {w} /\ w \notin R
    BY <1>3
  <2>2. Cardinality(R \cup {w}) = Cardinality(R) + 1
    BY <1>1, <2>1, FS_AddElement
  <2>3. Cardinality(U) = Cardinality(R) + 1
    BY <2>1, <2>2, Zenon
  <2> QED BY <1>2, <1>3, <2>3 DEF Count
<1>4. CASE w \notin U
  <2>1. U = R
    BY <1>4
  <2>2. Cardinality(U) = Cardinality(R)
    BY <2>1, Zenon
  <2> QED BY <1>2, <1>4, <2>2 DEF Count
<1> QED BY <1>3, <1>4

LEMMA OneMore ==
    ASSUME NEW U \in SUBSET Workers, NEW V \in SUBSET Workers, NEW w \in Workers,
           U \ {w} = V \ {w}
    PROVE  /\ Cardinality(U) \in Nat /\ Cardinality(V) \in Nat
           /\ Cardinality(V) + Count(w \in U) = Cardinality(U) + Count(w \in V)
<1>1. PICK R : R = U \ {w} /\ R = V \ {w}
  OBVIOUS
<1>2. /\ Cardinality(U) \in Nat /\ Cardinality(V) \in Nat /\ Cardinality(R) \in Nat
      /\ Cardinality(U) = Cardinality(R) + Count(w \in U)
      /\ Cardinality(V) = Cardinality(R) + Count(w \in V)
  BY <1>1, CountIn
<1>3. Count(w \in U) \in Nat /\ Count(w \in V) \in Nat
  BY DEF Count
<1> QED BY <1>2, <1>3

\* A step of one worker moves no other worker in or out of the count.
LEMMA OneWorker ==
    ASSUME NEW w \in Workers, NEW j \in Jobs,
           \A v \in Workers \ {w} : ctx'[v] = ctx[v] /\ wpc'[v] = wpc[v]
    PROVE  /\ Cardinality(MayPost(j)) \in Nat /\ Cardinality(MayPost(j))' \in Nat
           /\ Cardinality(MayPost(j))' + Count(Unposted(w, j))
                = Cardinality(MayPost(j)) + Count(Unposted(w, j)')
<1> DEFINE U == MayPost(j)
           V == MayPost(j)'
<1>1. U \in SUBSET Workers /\ V \in SUBSET Workers /\ U \ {w} = V \ {w}
  BY DEF MayPost, Unposted
<1>2. (w \in U <=> Unposted(w, j)) /\ (w \in V <=> Unposted(w, j)')
  BY DEF MayPost
<1> HIDE DEF U, V
<1>3. /\ Cardinality(U) \in Nat /\ Cardinality(V) \in Nat
      /\ Cardinality(V) + Count(w \in U) = Cardinality(U) + Count(w \in V)
  BY <1>1, OneMore
<1>4. Count(w \in U) = Count(Unposted(w, j)) /\ Count(w \in V) = Count(Unposted(w, j)')
  BY <1>2 DEF Count
<1> QED BY <1>3, <1>4 DEF U, V

\* What a step of one worker spends of a job's budget it has.
Spends(w, j) ==
    posts'[j] + runs'[j] + Count(Unposted(w, j)') + dispatches[j] + blind[j]
        <= posts[j] + runs[j] + Count(Unposted(w, j)) + dispatches'[j] + blind'[j]

LEMMA WorkerSpends ==
    ASSUME TypeOK, NEW w \in Workers, WorkerStep(w) \/ WorkerDies(w), NEW j \in Jobs
    PROVE  Spends(w, j) /\ \A v \in Workers \ {w} : ctx'[v] = ctx[v] /\ wpc'[v] = wpc[v]
<1>0. /\ wpc[w] = "idle" <=> ctx[w].job = NoJob
      /\ NoJob # j
      /\ ctx[w] \in Context /\ (wpc[w] # "idle" => ctx[w].job \in Jobs)
      /\ posts \in [Jobs -> Nat] /\ runs \in [Jobs -> Nat]
      /\ blind \in [Jobs -> Nat] /\ dispatches \in [Jobs -> Nat]
      /\ wpc \in [Workers -> WorkerPC] /\ ctx \in [Workers -> Context]
  BY ContextType, ConstantsOK DEF TypeOK, WorkerOK
<1> HIDE DEF TypeOK
<1> USE DEF Spends, Unposted, Count, BeforePost, rows, queues, history
<1>1. CASE \E k \in Jobs : TakeRun(w, k)
  BY <1>0, <1>1 DEF TakeRun, NoContext, Goto
<1>2. CASE \E k \in Jobs, n \in 1..MaxPolls : TakePoll(w, k, n)
  BY <1>0, <1>2 DEF TakePoll, NoContext, Goto
<1>3. CASE ClaimRead(w)
  BY <1>0, <1>3 DEF ClaimRead, Finish, NoContext, Context, Goto
<1>4. CASE ClaimCommit(w)
  BY <1>0, <1>4 DEF ClaimCommit, Finish, NoContext, Context, Goto
<1>5. CASE EnsureRendition(w) \/ RenditionFails(w)
  BY <1>0, <1>5 DEF EnsureRendition, RenditionFails, Fail, Finish, NoContext, Context, Goto
<1>6. CASE SetUploading(w)
  BY <1>0, <1>6 DEF SetUploading, Goto
<1>7. CASE \E outcome \in {"retryable", "fatal", "unexpected"} : PlatformRefuses(w, outcome)
  BY <1>0, <1>7 DEF PlatformRefuses, Fail, Context, Goto
<1>8. CASE PlatformAccepts(w)
  BY <1>0, <1>8 DEF PlatformAccepts, Goto
<1>9. CASE \E outcome \in {"retryable", "unexpected"} : AnswerLost(w, outcome)
  BY <1>0, <1>9 DEF AnswerLost, Fail, Context, Goto
<1>10. CASE RecordStarted(w)
  BY <1>0, <1>10 DEF RecordStarted, Goto
<1>11. CASE EnqueuePoll(w)
  BY <1>0, <1>11 DEF EnqueuePoll, Finish, NoContext, Goto
<1>12. CASE RecordFailure(w)
  BY <1>0, <1>12 DEF RecordFailure, Finish, NoContext, Goto
<1>13. CASE Requeue(w)
  BY <1>0, <1>13 DEF Requeue, Finish, NoContext, Goto
<1>14. CASE PollRead(w)
  BY <1>0, <1>14 DEF PollRead, Finish, NoContext, Goto
<1>15. CASE \E outcome \in {"published", "failed"} : StatusFinal(w, outcome)
  BY <1>0, <1>15 DEF StatusFinal, Context, Goto
<1>16. CASE StatusPending(w)
  BY <1>0, <1>16 DEF StatusPending, Goto
<1>17. CASE StatusEscapes(w)
  BY <1>0, <1>17 DEF StatusEscapes, Finish, NoContext, Goto
<1>18. CASE Settle(w)
  BY <1>0, <1>18 DEF Settle, Finish, NoContext, Goto
<1>19. CASE Repoll(w)
  BY <1>0, <1>19 DEF Repoll, Finish, NoContext, Goto
<1>20. CASE WorkerDies(w)
  BY <1>0, <1>20 DEF WorkerDies, Finish, NoContext, Goto
<1> QED BY <1>1, <1>2, <1>3, <1>4, <1>5, <1>6, <1>7, <1>8, <1>9, <1>10, <1>11, <1>12, <1>13, <1>14, <1>15, <1>16, <1>17, <1>18, <1>19, <1>20
        DEF WorkerStep, Take, RunStep, PollStep

LEMMA BudgetStep == TypeOK /\ Budget /\ [Next]_vars => Budget'
<1> SUFFICES ASSUME TypeOK, Budget, [Next]_vars, NEW j \in Jobs
             PROVE  (posts[j] + runs[j] + Cardinality(MayPost(j)) <= dispatches[j] + blind[j])'
  BY DEF Budget
<1>0. /\ posts[j] + runs[j] + Cardinality(MayPost(j)) <= dispatches[j] + blind[j]
      /\ posts[j] \in Nat /\ runs[j] \in Nat /\ dispatches[j] \in Nat /\ blind[j] \in Nat
      /\ TypeOK'
  BY TypeStep DEF Budget, TypeOK
<1>1. /\ posts'[j] \in Nat /\ runs'[j] \in Nat /\ dispatches'[j] \in Nat /\ blind'[j] \in Nat
  BY <1>0 DEF TypeOK
<1>2. ASSUME NEW h \in Handlers, HandlerStep(h) \/ RequestDies(h)
      PROVE  /\ UNCHANGED <<posts, blind, wpc, ctx>>
             /\ runs'[j] + dispatches[j] = runs[j] + dispatches'[j]
  <2> USE DEF rows, queues, history
  <2>1. ASSUME NEW J \in SUBSET Jobs, Schedule(h, J) \/ Publish(h, J)
        PROVE  UNCHANGED <<posts, blind, wpc, ctx, runs, dispatches>>
    BY <2>1 DEF Schedule, Publish
  <2>2. CASE \/ \E A \in SUBSET Assets : ReleaseRead(h, A)
             \/ \E a \in Assets : UnscheduleRead(h, a)
             \/ \E k \in Jobs : RetryRead(h, k)
    BY <2>2 DEF ReleaseRead, UnscheduleRead, RetryRead
  <2>3. CASE Commit(h) \/ DispatchRead(h) \/ RequestDies(h)
    BY <2>3 DEF Commit, ReleaseCommit, UnscheduleCommit, RetryCommit, DispatchRead, RequestDies
  <2>4. ASSUME NEW k \in Jobs, Enqueue(h, k)
        PROVE  /\ UNCHANGED <<posts, blind, wpc, ctx>>
               /\ runs'[j] + dispatches[j] = runs[j] + dispatches'[j]
    BY <1>0, <2>4 DEF Enqueue, TypeOK
  <2> QED BY <1>2, <2>1, <2>2, <2>3, <2>4 DEF HandlerStep, Background
<1>3. CASE \E h \in Handlers : HandlerStep(h) \/ RequestDies(h)
  <2>1. /\ UNCHANGED <<posts, blind, wpc, ctx>>
        /\ runs'[j] + dispatches[j] = runs[j] + dispatches'[j]
    BY <1>2, <1>3
  <2>2. MayPost(j)' = MayPost(j)
    BY <2>1 DEF MayPost, Unposted
  <2>3. Cardinality(MayPost(j)) \in Nat
    <3>1. IsFiniteSet(MayPost(j))
      BY ConstantsOK, FS_Subset DEF MayPost
    <3> QED BY <3>1, FS_CardinalityType
  <2> QED BY <1>0, <1>1, <2>1, <2>2, <2>3
<1>4. ASSUME NEW w \in Workers, WorkerStep(w) \/ WorkerDies(w)
      PROVE  (posts[j] + runs[j] + Cardinality(MayPost(j)) <= dispatches[j] + blind[j])'
  <2>1. Spends(w, j) /\ \A v \in Workers \ {w} : ctx'[v] = ctx[v] /\ wpc'[v] = wpc[v]
    BY <1>4, WorkerSpends
  <2> DEFINE c == Cardinality(MayPost(j))
             d == Cardinality(MayPost(j))'
             a == Count(Unposted(w, j))
             b == Count(Unposted(w, j)')
  <2>2. c \in Nat /\ d \in Nat /\ d + a = c + b /\ a \in {0, 1} /\ b \in {0, 1}
    BY <2>1, OneWorker DEF Count
  <2>3. posts'[j] + runs'[j] + b + dispatches[j] + blind[j]
            <= posts[j] + runs[j] + a + dispatches'[j] + blind'[j]
    BY <2>1 DEF Spends
  <2>4. posts[j] + runs[j] + c <= dispatches[j] + blind[j]
    BY <1>0
  <2>5. posts'[j] + runs'[j] + d <= dispatches'[j] + blind'[j]
    <3> HIDE DEF a, b, c, d
    <3> QED BY <1>0, <1>1, <2>2, <2>3, <2>4
  <2> QED BY <2>5
<1>5. CASE UNCHANGED vars
  BY <1>0, <1>5 DEF vars, rows, queues, history, MayPost, Unposted
<1> QED BY <1>3, <1>4, <1>5 DEF Next

\* The platform never has more posts of a job than tasks were dispatched for it and
\* answers were lost, however requests race and workers die.
THEOREM PostsWithinBudget == Spec => []PostPerDispatch
<1>1. Init => Budget
  <2> SUFFICES ASSUME Init, NEW j \in Jobs
               PROVE  posts[j] + runs[j] + Cardinality(MayPost(j)) <= dispatches[j] + blind[j]
    BY DEF Budget
  <2>1. MayPost(j) = {}
    BY DEF Init, MayPost, Unposted, BeforePost
  <2> QED BY <2>1, FS_EmptySet DEF Init
<1>2. TypeOK /\ Budget => PostPerDispatch
  <2> SUFFICES ASSUME TypeOK, Budget, NEW j \in Jobs PROVE posts[j] <= dispatches[j] + blind[j]
    BY DEF PostPerDispatch
  <2>1. IsFiniteSet(MayPost(j))
    BY ConstantsOK, FS_Subset DEF MayPost
  <2>2. Cardinality(MayPost(j)) \in Nat
    BY <2>1, FS_CardinalityType
  <2> QED BY <2>2 DEF Budget, TypeOK
<1> QED BY <1>1, <1>2, BudgetStep, TypeCorrect, PTL DEF Spec

(***************************************************************************)
(* PublishedWasPosted: what a row shows, the platform has.  An id is stored  *)
(* after the platform accepted, and by the worker whose post it was; a final *)
(* status is that of a job that was polled, and so has its id.              *)
(***************************************************************************)
Shown == {"processing", "published"}

\* A row that shows a post being processed or published has the id it was polled by,
\* and the platform accepted a post of that job.
PublishedWasPosted == \A j \in Jobs : state[j] \in Shown => external[j] /\ posts[j] > 0

PostedInv ==
    /\ \A j \in Jobs : state[j] \in Shown => external[j]
    /\ \A j \in Jobs : external[j] => posts[j] > 0
    /\ \A w \in Workers : wpc[w] = "accepted" => posts[ctx[w].job] > 0
    /\ \A w \in Workers : wpc[w] = "settling" => Known(ctx[w].job)

LEMMA HandlerShows ==
    ASSUME NEW h \in Handlers, HandlerStep(h) \/ RequestDies(h)
    PROVE  /\ UNCHANGED <<external, posts, wpc, ctx>>
           /\ \A j \in Jobs : state'[j] \in Shown => state'[j] = state[j]
<1> USE DEF rows, history, Shown, WriteState
<1>1. ASSUME NEW J \in SUBSET Jobs, Schedule(h, J) \/ Publish(h, J)
      PROVE  /\ UNCHANGED <<external, posts, wpc, ctx>>
             /\ \A j \in Jobs : state'[j] \in Shown => state'[j] = state[j]
  BY <1>1 DEF Schedule, Publish
<1>2. CASE \/ \E A \in SUBSET Assets : ReleaseRead(h, A)
           \/ \E a \in Assets : UnscheduleRead(h, a)
           \/ \E k \in Jobs : RetryRead(h, k)
           \/ Background(h) \/ RequestDies(h)
  BY <1>2 DEF ReleaseRead, UnscheduleRead, RetryRead, Background, DispatchRead, Enqueue, RequestDies
<1>3. CASE Commit(h)
  BY <1>3 DEF Commit, ReleaseCommit, UnscheduleCommit, RetryCommit
<1> QED BY <1>1, <1>2, <1>3 DEF HandlerStep

\* What a step of one worker has a row show, and on which grounds.
Grounded(w, j) ==
    /\ posts[j] > 0 => posts'[j] > 0
    /\ state'[j] \in Shown => state'[j] = state[j] \/ external'[j]
    /\ external'[j] => external[j] \/ posts[j] > 0

\* How it gets to the places that PostedInv speaks of, while the others stay.
Enters(w) ==
    /\ \A v \in Workers \ {w} : ctx'[v] = ctx[v] /\ wpc'[v] = wpc[v]
    /\ wpc'[w] = "accepted" => posts'[ctx'[w].job] > 0
    /\ wpc'[w] = "settling" => wpc[w] = "checking" /\ ctx'[w].job = ctx[w].job

LEMMA WorkerShows ==
    ASSUME TypeOK, PostedInv, NEW w \in Workers, WorkerStep(w) \/ WorkerDies(w)
    PROVE  Enters(w) /\ \A j \in Jobs : Grounded(w, j)
<1>0. /\ ctx[w] \in Context /\ (wpc[w] # "idle" => ctx[w].job \in Jobs)
      /\ wpc[w] = "settling" => ctx[w].outcome \in Terminal
      /\ posts \in [Jobs -> Nat] /\ external \in [Jobs -> BOOLEAN]
      /\ wpc \in [Workers -> WorkerPC] /\ ctx \in [Workers -> Context]
  BY ContextType DEF TypeOK
<1> HIDE DEF TypeOK
<1> USE DEF Enters, Grounded, Shown, rows, history, WriteIfExists, WriteState
<1>1. CASE Take(w)
  <2>1. ASSUME NEW j \in Jobs, TakeRun(w, j) PROVE Enters(w) /\ UNCHANGED <<rows, posts>>
    BY <1>0, <2>1 DEF TakeRun, Goto
  <2>2. ASSUME NEW j \in Jobs, NEW n \in 1..MaxPolls, TakePoll(w, j, n)
        PROVE  Enters(w) /\ UNCHANGED <<rows, posts>>
    BY <1>0, <2>2 DEF TakePoll, Goto
  <2> QED BY <1>1, <2>1, <2>2 DEF Take
<1>2. CASE ClaimRead(w) \/ ClaimCommit(w) \/ EnsureRendition(w) \/ RenditionFails(w)
  BY <1>0, <1>2 DEF ClaimRead, ClaimCommit, EnsureRendition, RenditionFails, Fail, Finish, Goto
<1>3. CASE SetUploading(w) \/ \E o \in {"retryable", "fatal", "unexpected"} : PlatformRefuses(w, o)
  BY <1>0, <1>3 DEF SetUploading, PlatformRefuses, Fail, Goto
<1>4. CASE PlatformAccepts(w)
  BY <1>0, <1>4 DEF PlatformAccepts, Goto
<1>5. CASE \E o \in {"retryable", "unexpected"} : AnswerLost(w, o)
  BY <1>0, <1>5 DEF AnswerLost, Fail, Goto
<1>6. CASE RecordStarted(w)
  BY <1>0, <1>6 DEF RecordStarted, Goto, PostedInv
<1>7. CASE EnqueuePoll(w) \/ RecordFailure(w) \/ Requeue(w)
  BY <1>0, <1>7 DEF EnqueuePoll, RecordFailure, Requeue, Finish, Goto
<1>8. CASE PollRead(w) \/ StatusPending(w) \/ StatusEscapes(w) \/ Repoll(w)
  BY <1>0, <1>8 DEF PollRead, StatusPending, StatusEscapes, Repoll, Finish, Goto
<1>9. CASE \E o \in {"published", "failed"} : StatusFinal(w, o)
  BY <1>0, <1>9 DEF StatusFinal, Goto, Context
<1>10. CASE Settle(w)
  BY <1>0, <1>10 DEF Settle, Finish, Goto, PostedInv, Known
<1>11. CASE WorkerDies(w)
  BY <1>0, <1>11 DEF WorkerDies, Finish, Goto
<1> QED BY <1>1, <1>2, <1>3, <1>4, <1>5, <1>6, <1>7, <1>8, <1>9, <1>10, <1>11
        DEF WorkerStep, RunStep, PollStep

LEMMA PostedStep == Inv /\ PostedInv /\ [Next]_vars => PostedInv'
<1> SUFFICES ASSUME Inv, PostedInv, [Next]_vars PROVE PostedInv'
  OBVIOUS
<1>0. Forward /\ TypeOK
  BY InvParts, ForwardStep
\* What is known of the job a worker has stays known.
<1>a. ASSUME NEW w \in Workers, wpc[w] # "idle", Known(ctx[w].job)
      PROVE  ctx[w].job \in Jobs /\ \A j \in Jobs : j = ctx[w].job => Known(j)'
  <2>1. ctx[w].job \in Jobs /\ Moved(ctx[w].job)
    BY <1>0, <1>a, InvParts, ContextType DEF WorkersMoved
  <2> QED BY <1>0, <1>a, <2>1, KnownForward
<1>1. ASSUME NEW h \in Handlers, HandlerStep(h) \/ RequestDies(h) PROVE PostedInv'
  <2>1. /\ UNCHANGED <<external, posts, wpc, ctx>>
        /\ \A j \in Jobs : state'[j] \in Shown => state'[j] = state[j]
    BY <1>1, HandlerShows
  <2>2. ASSUME NEW w \in Workers, wpc[w] = "settling" PROVE Known(ctx[w].job)'
    <3>1. ctx'[w].job = ctx[w].job /\ Known(ctx[w].job)
      BY <2>1, <2>2 DEF PostedInv
    <3> QED BY <1>a, <2>2, <3>1 DEF Known, Exists
  <2> QED BY <2>1, <2>2 DEF PostedInv
<1>2. ASSUME NEW w \in Workers, WorkerStep(w) \/ WorkerDies(w) PROVE PostedInv'
  <2>1. /\ \A v \in Workers \ {w} : ctx'[v] = ctx[v] /\ wpc'[v] = wpc[v]
        /\ Enters(w)
        /\ \A j \in Jobs : Grounded(w, j)
    BY <1>0, <1>2, WorkerShows DEF Enters
  <2>2. \A j \in Jobs : external[j] => external'[j]
    BY <1>0 DEF Forward
  <2>3. \A j \in Jobs : state'[j] \in Shown => external'[j]
    BY <2>1, <2>2 DEF Grounded, PostedInv
  <2>4. \A j \in Jobs : external'[j] => posts'[j] > 0
    BY <2>1 DEF Grounded, PostedInv
  <2>5. ASSUME NEW v \in Workers, wpc'[v] = "accepted" PROVE posts'[ctx'[v].job] > 0
    <3>1. CASE v # w
      <4>1. wpc[v] = "accepted" /\ ctx'[v] = ctx[v] /\ ctx[v].job \in Jobs
        BY <1>0, <2>1, <2>5, <3>1, ContextType
      <4> QED BY <2>1, <4>1 DEF Grounded, PostedInv
    <3>2. CASE v = w
      BY <2>1, <2>5, <3>2 DEF Enters
    <3> QED BY <3>1, <3>2
  <2>6. ASSUME NEW v \in Workers, wpc'[v] = "settling" PROVE Known(ctx[v].job)'
    <3>1. wpc[v] \in {"checking", "settling"} /\ ctx'[v].job = ctx[v].job
      BY <2>1, <2>6 DEF Enters
    <3>2. Known(ctx[v].job)
      BY <3>1, InvParts DEF PostedInv, WorkersKnown
    <3> QED BY <1>a, <3>1, <3>2 DEF Known, Exists
  <2> QED BY <2>3, <2>4, <2>5, <2>6 DEF PostedInv, Known, Exists
<1>3. CASE UNCHANGED vars
  BY <1>3 DEF vars, rows, history, PostedInv, Known, Exists
<1> QED BY <1>1, <1>2, <1>3 DEF Next

\* What a row shows is true: under every race, crash and lost answer, a job that is
\* PROCESSING or PUBLISHED was accepted by the platform, under the id that is stored.
THEOREM PublishedJobsWerePosted == Spec => []PublishedWasPosted
<1>1. Init => PostedInv
  BY DEF Init, PostedInv, Shown
<1>2. PostedInv => PublishedWasPosted
  BY DEF PostedInv, PublishedWasPosted
<1> QED BY <1>1, <1>2, PostedStep, InvCorrect, PTL DEF Spec

=============================================================================
