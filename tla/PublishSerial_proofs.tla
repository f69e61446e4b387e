------------------------- MODULE PublishSerial_proofs -------------------------
(***************************************************************************)
(* While no two requests have one job in hand, whatever else they do at once, *)
(* a job is carried once, is quiet once it is at rest and stays within its   *)
(* attempts, and the pipeline implements PublishLedger, for every value of   *)
(* the constants.                                                           *)
(*                                                                         *)
(* The invariant says where a job is: at rest, with the request that will    *)
(* dispatch it, on the run queue, with one worker, or on the poll queue, and  *)
(* in the last four cases live, and what of its attempts and its licence is  *)
(* left at that place.                                                      *)
(***************************************************************************)
EXTENDS PublishPipeline_proofs

Licence(j) == Decided(j) + retries[j] + blind[j]

NoPolls(j) == \A n \in 1..MaxPolls : polls[j][n] = 0
OnePoll(j) ==
    \E n \in 1..MaxPolls : \A m \in 1..MaxPolls : polls[j][m] = IF m = n THEN 1 ELSE 0
NoWorker(j) == \A w \in Workers : ctx[w].job # j
NoDispatch(j) == \A h \in Handlers : j \notin Dispatching(h)

\* What is left to spend of the attempts and of the licence.
ToSpend(j) == attempts[j] < MaxAttempts /\ posts[j] < Licence(j)

Resting(j) == runs[j] = 0 /\ NoPolls(j) /\ NoWorker(j) /\ NoDispatch(j)
WithRequest(j) ==
    /\ runs[j] = 0 /\ NoPolls(j) /\ NoWorker(j) /\ ~NoDispatch(j)
    /\ ToSpend(j)
OnRunQueue(j) ==
    /\ runs[j] = 1 /\ NoPolls(j) /\ NoWorker(j) /\ NoDispatch(j)
    /\ ToSpend(j)
OnPollQueue(j) ==
    /\ runs[j] = 0 /\ OnePoll(j) /\ NoWorker(j) /\ NoDispatch(j)
    /\ posts[j] > 0

\* What a worker knows of the job it has in hand.
TaskOK(w, j) ==
    /\ IF wpc[w] \in BeforePost THEN posts[j] < Licence(j) ELSE posts[j] > 0
    /\ wpc[w] \in {"claim", "claiming", "requeue"} => attempts[j] < MaxAttempts
    /\ wpc[w] = "claiming" => ctx[w].attempt = attempts[j] + 1
    /\ wpc[w] \in {"rendition", "starting", "publishing", "accepted", "failing"}
          => ctx[w].attempt = attempts[j]
WithWorker(w, j) ==
    /\ runs[j] = 0 /\ NoPolls(j) /\ NoDispatch(j)
    /\ \A v \in Workers : ctx[v].job = j <=> v = w
    /\ TaskOK(w, j)

Placed(j) ==
    \/ Resting(j)
    \/ /\ state[j] \in Live
       /\ \/ WithRequest(j) \/ OnRunQueue(j) \/ OnPollQueue(j)
          \/ \E w \in Workers : WithWorker(w, j)

Bounded(j) == attempts[j] <= MaxAttempts /\ posts[j] <= Licence(j)

\* What the request has read still stands.
ReadsStand ==
    \A h \in Handlers :
        /\ req[h].pc \in {"release", "unschedule"} => \A j \in req[h].jobs : state[j] = "scheduled"
        /\ req[h].pc = "retry" => \A j \in req[h].jobs : state[j] = "failed"

Serial(j) == Bounded(j) /\ Placed(j)
SerialInv == Inv /\ ReadsStand /\ \A j \in Jobs : Serial(j)
-----------------------------------------------------------------------------
\* A step that leaves a job, and what carries it, alone.
SameFor(j) ==
    /\ state'[j] = state[j] /\ attempts'[j] = attempts[j]
    /\ runs'[j] = runs[j] /\ polls'[j] = polls[j]
    /\ posts'[j] = posts[j] /\ retries'[j] = retries[j] /\ blind'[j] = blind[j]
    /\ \A w \in Workers :
          /\ ctx'[w].job = j <=> ctx[w].job = j
          /\ ctx[w].job = j => ctx'[w] = ctx[w] /\ wpc'[w] = wpc[w]
    /\ \A h \in Handlers : (j \in Dispatching(h))' <=> j \in Dispatching(h)

LEMMA Apart ==
    ASSUME NEW j \in Jobs, Serial(j), SameFor(j)
    PROVE  Serial(j)'
<1>1. Licence(j)' = Licence(j)
  BY DEF SameFor, Licence, Decided
<1>2. (NoPolls(j)' <=> NoPolls(j)) /\ (OnePoll(j)' <=> OnePoll(j))
  BY DEF SameFor, NoPolls, OnePoll
<1>3. (NoWorker(j)' <=> NoWorker(j)) /\ (NoDispatch(j)' <=> NoDispatch(j))
  BY DEF SameFor, NoWorker, NoDispatch
<1>4. Bounded(j)' /\ (ToSpend(j)' <=> ToSpend(j))
  BY <1>1 DEF SameFor, Serial, Bounded, ToSpend
<1>5. ASSUME NEW w \in Workers, WithWorker(w, j) PROVE WithWorker(w, j)'
  <2>1. ctx'[w] = ctx[w] /\ wpc'[w] = wpc[w]
    BY <1>5 DEF WithWorker, SameFor
  <2>2. TaskOK(w, j)'
    BY <1>1, <1>5, <2>1 DEF WithWorker, TaskOK, SameFor
  <2> QED BY <1>2, <1>3, <1>5, <2>2 DEF WithWorker, SameFor
<1>6. Placed(j)'
  BY <1>2, <1>3, <1>4, <1>5
     DEF Serial, Placed, Resting, WithRequest, OnRunQueue, OnPollQueue, SameFor
<1> QED BY <1>4, <1>6 DEF Serial
-----------------------------------------------------------------------------
(***************************************************************************)
(* Steps of a worker.                                                       *)
(***************************************************************************)
LEMMA OthersSame ==
    ASSUME TypeOK, NEW w \in Workers, RunStep(w) \/ PollStep(w) \/ WorkerDies(w),
           NEW j \in Jobs, ctx[w].job # j
    PROVE  SameFor(j)
<1>0. /\ NoJob # j /\ ctx[w] \in Context /\ ctx \in [Workers -> Context]
      /\ wpc[w] # "idle" => ctx[w].job \in Jobs
  BY ContextType, ConstantsOK DEF TypeOK
<1> SUFFICES /\ state'[j] = state[j] /\ attempts'[j] = attempts[j]
             /\ runs'[j] = runs[j] /\ polls'[j] = polls[j]
             /\ posts'[j] = posts[j] /\ retries'[j] = retries[j] /\ blind'[j] = blind[j]
             /\ ctx'[w].job # j
             /\ UNCHANGED req
  <2>1. \A v \in Workers \ {w} : ctx'[v] = ctx[v] /\ wpc'[v] = wpc[v]
    BY WorkerSpends DEF WorkerStep
  <2> QED BY <2>1 DEF SameFor, Dispatching
<1> USE DEF TypeOK, rows, queues, history, WriteIfExists, WriteState, Goto
<1>1. CASE ClaimRead(w)
  BY <1>0, <1>1 DEF ClaimRead, Finish, NoContext, Context
<1>2. CASE ClaimCommit(w)
  BY <1>0, <1>2 DEF ClaimCommit, Finish, NoContext, Context
<1>3. CASE EnsureRendition(w) \/ RenditionFails(w)
  BY <1>0, <1>3 DEF EnsureRendition, RenditionFails, Fail, Finish, NoContext, Context
<1>4. CASE SetUploading(w) \/ PlatformAccepts(w)
  BY <1>0, <1>4 DEF SetUploading, PlatformAccepts
<1>5. CASE \E outcome \in {"retryable", "fatal", "unexpected"} : PlatformRefuses(w, outcome)
  BY <1>0, <1>5 DEF PlatformRefuses, Fail, Context
<1>6. CASE \E outcome \in {"retryable", "unexpected"} : AnswerLost(w, outcome)
  BY <1>0, <1>6 DEF AnswerLost, Fail, Context
<1>7. CASE RecordStarted(w)
  BY <1>0, <1>7 DEF RecordStarted
<1>8. CASE EnqueuePoll(w)
  BY <1>0, <1>8 DEF EnqueuePoll, Finish, NoContext
<1>9. CASE RecordFailure(w)
  BY <1>0, <1>9 DEF RecordFailure, Finish, NoContext
<1>10. CASE Requeue(w)
  BY <1>0, <1>10 DEF Requeue, Finish, NoContext
<1>11. CASE PollRead(w)
  BY <1>0, <1>11 DEF PollRead, Finish, NoContext
<1>12. CASE \E outcome \in {"published", "failed"} : StatusFinal(w, outcome)
  BY <1>0, <1>12 DEF StatusFinal, Context
<1>13. CASE StatusPending(w) \/ StatusEscapes(w)
  BY <1>0, <1>13 DEF StatusPending, StatusEscapes, Finish, NoContext
<1>14. CASE Settle(w)
  BY <1>0, <1>14 DEF Settle, Finish, NoContext
<1>15. CASE Repoll(w)
  BY <1>0, <1>15 DEF Repoll, Finish, NoContext
<1>16. CASE WorkerDies(w)
  BY <1>0, <1>16 DEF WorkerDies, Finish, NoContext
<1> QED BY <1>1, <1>2, <1>3, <1>4, <1>5, <1>6, <1>7, <1>8, <1>9, <1>10, <1>11, <1>12, <1>13, <1>14, <1>15, <1>16
        DEF RunStep, PollStep

\* Where a step of its worker leaves a job.
Left(w, j) ==
    /\ Bounded(j)'
    /\ \/ ctx'[w].job # j /\ runs'[j] = 0 /\ NoPolls(j)'
       \/ /\ state'[j] \in Live
          /\ \/ ctx'[w].job # j /\ runs'[j] = 1 /\ NoPolls(j)' /\ ToSpend(j)'
             \/ ctx'[w].job # j /\ runs'[j] = 0 /\ OnePoll(j)' /\ posts'[j] > 0
             \/ ctx'[w].job = j /\ runs'[j] = 0 /\ NoPolls(j)' /\ TaskOK(w, j)'

LEMMA FirstPoll ==
    ASSUME TypeOK, NEW j \in Jobs, NEW n \in 1..MaxPolls, NoPolls(j),
           polls' = [polls EXCEPT ![j][n] = @ + 1]
    PROVE  OnePoll(j)'
<1>1. polls \in [Jobs -> [1..MaxPolls -> Nat]] /\ \A m \in 1..MaxPolls : polls[j][m] = 0
  BY DEF TypeOK, NoPolls
<1>2. polls'[j] = [polls[j] EXCEPT ![n] = polls[j][n] + 1]
  BY <1>1
<1>3. polls'[j][n] = 1 /\ \A m \in 1..MaxPolls \ {n} : polls'[j][m] = 0
  <2> DEFINE p == polls[j]
  <2>1. p \in [1..MaxPolls -> Nat] /\ p[n] = 0 /\ \A m \in 1..MaxPolls : p[m] = 0
    BY <1>1
  <2> HIDE DEF p
  <2>2. [p EXCEPT ![n] = p[n] + 1][n] = 1 /\ \A m \in 1..MaxPolls \ {n} : [p EXCEPT ![n] = p[n] + 1][m] = 0
    BY <2>1
  <2> QED BY <1>2, <2>2 DEF p
<1>4. \A m \in 1..MaxPolls : polls'[j][m] = IF m = n THEN 1 ELSE 0
  BY <1>3
<1> QED BY <1>4 DEF OnePoll

LEMMA OwnLeft ==
    ASSUME TypeOK, NEW w \in Workers, NEW j \in Jobs, state[j] \in Live, Bounded(j),
           WithWorker(w, j), RunStep(w) \/ PollStep(w) \/ WorkerDies(w)
    PROVE  Left(w, j)
<1>0. /\ ctx[w].job = j /\ NoJob # j /\ Exists(j)
      /\ ctx[w] \in Context /\ ctx \in [Workers -> Context] /\ wpc \in [Workers -> WorkerPC]
      /\ ctx[w].attempt \in Nat /\ ctx[w].poll \in 0..MaxPolls
      /\ wpc[w] = "settling" => ctx[w].outcome \in Terminal
      /\ state \in [Jobs -> RowState] /\ attempts \in [Jobs -> Nat]
      /\ runs \in [Jobs -> Nat] /\ posts \in [Jobs -> Nat]
      /\ blind \in [Jobs -> Nat] /\ retries \in [Jobs -> Nat]
      /\ runs[j] = 0 /\ NoPolls(j) /\ MaxAttempts \in Nat \ {0}
  BY ContextType, ConstantsOK DEF TypeOK, WithWorker, Exists, Live, Gone
<1>b. /\ attempts[j] <= MaxAttempts /\ posts[j] <= 1 + retries[j] + blind[j]
      /\ IF wpc[w] \in BeforePost THEN posts[j] < 1 + retries[j] + blind[j] ELSE posts[j] > 0
      /\ wpc[w] \in {"claim", "claiming", "requeue"} => attempts[j] < MaxAttempts
      /\ wpc[w] = "claiming" => ctx[w].attempt = attempts[j] + 1
      /\ wpc[w] \in {"rendition", "starting", "publishing", "accepted", "failing"}
            => ctx[w].attempt = attempts[j]
  BY DEF WithWorker, TaskOK, Bounded, Licence, Decided, Live, Gone
\* The queues are left as they are: the job is put down, or kept in hand.
<1>p. ASSUME UNCHANGED queues, Finish(w), attempts'[j] <= MaxAttempts, posts'[j] = posts[j],
             retries'[j] = retries[j], blind'[j] \in {blind[j], blind[j] + 1},
             state'[j] \in Live \cup Terminal
      PROVE  Left(w, j)
  <2>1. ctx'[w].job # j /\ runs'[j] = 0 /\ NoPolls(j)'
    BY <1>0, <1>p DEF Finish, NoContext, queues, NoPolls
  <2>2. Bounded(j)'
    BY <1>0, <1>b, <1>p DEF Bounded, Licence, Decided, Live, Terminal, Gone
  <2> QED BY <2>1, <2>2 DEF Left
<1>k. ASSUME UNCHANGED queues, ctx'[w].job = j, attempts'[j] <= MaxAttempts,
             state'[j] \in Live, posts'[j] <= 1 + retries'[j] + blind'[j],
             IF wpc'[w] \in BeforePost THEN posts'[j] < 1 + retries'[j] + blind'[j]
                                       ELSE posts'[j] > 0,
             wpc'[w] \in {"claim", "claiming", "requeue"} => attempts'[j] < MaxAttempts,
             wpc'[w] = "claiming" => ctx'[w].attempt = attempts'[j] + 1,
             wpc'[w] \in {"rendition", "starting", "publishing", "accepted", "failing"}
               => ctx'[w].attempt = attempts'[j]
      PROVE  Left(w, j)
  <2>1. runs'[j] = 0 /\ NoPolls(j)'
    BY <1>0, <1>k DEF queues, NoPolls
  <2>2. Licence(j)' = 1 + retries'[j] + blind'[j]
    BY <1>k DEF Licence, Decided, Live, Gone
  <2>3. Bounded(j)' /\ TaskOK(w, j)'
    BY <1>k, <2>2 DEF Bounded, TaskOK
  <2> QED BY <1>k, <2>1, <2>3 DEF Left
<1> USE DEF rows, history, WriteIfExists, WriteState, Goto, BeforePost
<1>1. CASE ClaimRead(w)
  BY <1>0, <1>b, <1>k, <1>p, <1>1 DEF ClaimRead, Finish, Context, Live
<1>2. CASE ClaimCommit(w)
  BY <1>0, <1>b, <1>k, <1>p, <1>2 DEF ClaimCommit, Finish, Live, Terminal
<1>3. CASE EnsureRendition(w) \/ RenditionFails(w)
  BY <1>0, <1>b, <1>k, <1>p, <1>3 DEF EnsureRendition, RenditionFails, Fail, Context
<1>4. CASE SetUploading(w) \/ PlatformAccepts(w)
  BY <1>0, <1>b, <1>k, <1>p, <1>4 DEF SetUploading, PlatformAccepts, Live
<1>5. CASE \E outcome \in {"retryable", "fatal", "unexpected"} : PlatformRefuses(w, outcome)
  BY <1>0, <1>b, <1>k, <1>p, <1>5 DEF PlatformRefuses, Fail, Context
<1>6. CASE \E outcome \in {"retryable", "unexpected"} : AnswerLost(w, outcome)
  BY <1>0, <1>b, <1>k, <1>p, <1>6 DEF AnswerLost, Fail, Context
<1>7. CASE RecordStarted(w)
  BY <1>0, <1>b, <1>k, <1>p, <1>7 DEF RecordStarted, Live
<1>8. CASE EnqueuePoll(w)
  <2>0. 1 \in 1..MaxPolls
    BY ConstantsOK
  <2>1. OnePoll(j)'
    BY <1>0, <1>8, <2>0, FirstPoll DEF EnqueuePoll
  <2>2. /\ ctx'[w].job # j /\ runs'[j] = 0 /\ posts'[j] > 0 /\ state'[j] \in Live
        /\ Bounded(j)'
    BY <1>0, <1>b, <1>8 DEF EnqueuePoll, Finish, NoContext, Bounded, Licence, Decided
  <2> QED BY <2>1, <2>2 DEF Left
<1>9. CASE RecordFailure(w)
  BY <1>0, <1>b, <1>k, <1>p, <1>9 DEF RecordFailure, Live, Terminal
<1>10. CASE Requeue(w)
  <2>1. /\ ctx'[w].job # j /\ runs'[j] = 1 /\ NoPolls(j)' /\ state'[j] \in Live
        /\ Bounded(j)' /\ ToSpend(j)'
    BY <1>0, <1>b, <1>10
       DEF Requeue, Finish, NoContext, NoPolls, Bounded, ToSpend, Licence, Decided, Live, Gone
  <2> QED BY <2>1 DEF Left
<1>11. CASE PollRead(w)
  BY <1>0, <1>b, <1>k, <1>p, <1>11 DEF PollRead, Live, Terminal
<1>12. CASE \E outcome \in {"published", "failed"} : StatusFinal(w, outcome)
  BY <1>0, <1>b, <1>k, <1>12 DEF StatusFinal, Context
<1>13. CASE StatusPending(w) \/ StatusEscapes(w)
  BY <1>0, <1>b, <1>k, <1>p, <1>13 DEF StatusPending, StatusEscapes
<1>14. CASE Settle(w)
  BY <1>0, <1>b, <1>p, <1>14 DEF Settle
<1>15. CASE Repoll(w)
  <2>1. CASE ctx[w].poll >= MaxPolls
    BY <1>0, <1>b, <1>p, <1>15, <2>1 DEF Repoll, Terminal, queues
  <2>2. CASE ~(ctx[w].poll >= MaxPolls)
    <3>1. ctx[w].poll + 1 \in 1..MaxPolls
      BY <1>0, <2>2, ConstantsOK
    <3>2. OnePoll(j)'
      BY <1>0, <1>15, <2>2, <3>1, FirstPoll DEF Repoll
    <3>3. /\ ctx'[w].job # j /\ runs'[j] = 0 /\ posts'[j] > 0 /\ state'[j] \in Live
          /\ Bounded(j)'
      BY <1>0, <1>b, <1>15, <2>2 DEF Repoll, Finish, NoContext, Bounded, Licence, Decided
    <3> QED BY <3>2, <3>3 DEF Left
  <2> QED BY <2>1, <2>2
<1>16. CASE WorkerDies(w)
  BY <1>0, <1>b, <1>p, <1>16 DEF WorkerDies
<1> QED BY <1>1, <1>2, <1>3, <1>4, <1>5, <1>6, <1>7, <1>8, <1>9, <1>10, <1>11, <1>12, <1>13,
           <1>14, <1>15, <1>16 DEF RunStep, PollStep

LEMMA WorkerRequests ==
    ASSUME NEW w \in Workers, WorkerStep(w) \/ WorkerDies(w)
    PROVE  UNCHANGED req
  BY DEF WorkerStep, Take, TakeRun, TakePoll, RunStep, ClaimRead, ClaimCommit, EnsureRendition,
         RenditionFails, SetUploading, PlatformRefuses, PlatformAccepts, AnswerLost,
         RecordStarted, EnqueuePoll, RecordFailure, Requeue, PollStep, PollRead, StatusFinal,
         StatusPending, StatusEscapes, Settle, Repoll, WorkerDies

LEMMA OwnSerial ==
    ASSUME TypeOK, NEW w \in Workers, RunStep(w) \/ PollStep(w) \/ WorkerDies(w),
           NEW j \in Jobs, ctx[w].job = j, Serial(j)
    PROVE  Serial(j)'
<1>1. state[j] \in Live /\ Bounded(j) /\ WithWorker(w, j)
  BY DEF Serial, Placed, Resting, WithRequest, OnRunQueue, OnPollQueue, NoWorker, WithWorker
<1>2. Left(w, j)
  BY <1>1, OwnLeft
<1>3. /\ \A v \in Workers \ {w} : ctx'[v] = ctx[v] /\ wpc'[v] = wpc[v]
      /\ UNCHANGED req
  BY WorkerSpends, WorkerRequests DEF WorkerStep
<1>4. NoDispatch(j)'
  BY <1>1, <1>3 DEF WithWorker, NoDispatch, Dispatching
<1>5. \A v \in Workers : ctx'[v].job = j <=> v = w /\ ctx'[w].job = j
  BY <1>1, <1>3 DEF WithWorker
<1>6. Placed(j)'
  BY <1>2, <1>4, <1>5
     DEF Left, Placed, Resting, OnRunQueue, OnPollQueue, WithWorker, NoWorker
<1> QED BY <1>2, <1>6 DEF Left, Serial

LEMMA TakeSerial ==
    ASSUME TypeOK, NEW w \in Workers, Take(w), NEW j \in Jobs, Serial(j)
    PROVE  Serial(j)'
<1>0. /\ ctx \in [Workers -> Context] /\ wpc \in [Workers -> WorkerPC]
      /\ ctx[w].job = NoJob /\ NoJob # j
      /\ \A v \in Workers \ {w} : ctx'[v] = ctx[v] /\ wpc'[v] = wpc[v]
      /\ UNCHANGED <<rows, req, history>>
      /\ runs \in [Jobs -> Nat] /\ polls \in [Jobs -> [1..MaxPolls -> Nat]]
  BY WorkerSpends, ConstantsOK
     DEF WorkerStep, TypeOK, WorkerOK, Take, TakeRun, TakePoll
<1>1. /\ Bounded(j)' /\ (ToSpend(j)' <=> ToSpend(j)) /\ Licence(j)' = Licence(j)
      /\ state'[j] = state[j] /\ (NoDispatch(j)' <=> NoDispatch(j))
      /\ attempts'[j] = attempts[j] /\ posts'[j] = posts[j]
  BY <1>0 DEF Serial, Bounded, ToSpend, Licence, Decided, NoDispatch, Dispatching, rows, history
<1>2. ASSUME NEW k \in Jobs, TakeRun(w, k) PROVE Serial(j)'
  <2>1. CASE k = j
    <3>1. state[j] \in Live /\ OnRunQueue(j)
      BY <1>2, <2>1 DEF TakeRun, Serial, Placed, Resting, WithRequest, OnPollQueue, WithWorker
    <3>2. /\ ctx'[w].job = j /\ wpc'[w] = "claim" /\ runs'[j] = 0 /\ polls' = polls
      BY <1>0, <1>2, <2>1, <3>1 DEF TakeRun, NoContext, Goto, OnRunQueue
    <3>3. \A v \in Workers : ctx'[v].job = j <=> v = w
      BY <1>0, <3>1, <3>2 DEF OnRunQueue, NoWorker
    <3>4. NoPolls(j)' /\ NoDispatch(j)'
      BY <1>1, <3>1, <3>2 DEF OnRunQueue, NoPolls
    <3>5. TaskOK(w, j)'
      BY <1>1, <3>1, <3>2 DEF TaskOK, OnRunQueue, ToSpend, BeforePost
    <3> QED BY <1>1, <3>1, <3>2, <3>3, <3>4, <3>5 DEF Serial, Placed, WithWorker
  <2>2. CASE k # j
    <3>1. runs'[j] = runs[j] /\ polls' = polls /\ ctx'[w].job # j
      BY <1>0, <1>2, <2>2 DEF TakeRun, NoContext
    <3> QED BY <1>0, <3>1, Apart DEF SameFor, rows, history, Dispatching
  <2> QED BY <2>1, <2>2
<1>3. ASSUME NEW k \in Jobs, NEW n \in 1..MaxPolls, TakePoll(w, k, n) PROVE Serial(j)'
  <2>1. CASE k = j
    <3>1. state[j] \in Live /\ OnPollQueue(j)
      BY <1>3, <2>1
         DEF TakePoll, Serial, Placed, Resting, WithRequest, OnRunQueue, WithWorker, NoPolls
    <3>2. ctx'[w].job = j /\ wpc'[w] = "poll" /\ runs' = runs
      BY <1>0, <1>3, <2>1 DEF TakePoll, NoContext, Goto
    <3>3. \A v \in Workers : ctx'[v].job = j <=> v = w
      BY <1>0, <3>1, <3>2 DEF OnPollQueue, NoWorker
    <3>4. NoPolls(j)'
      <4>1. PICK m \in 1..MaxPolls : \A i \in 1..MaxPolls : polls[j][i] = IF i = m THEN 1 ELSE 0
        BY <3>1 DEF OnPollQueue, OnePoll
      <4>2. m = n /\ polls[j][n] = 1
        BY <1>3, <2>1, <4>1 DEF TakePoll
      <4>3. polls'[j] = [polls[j] EXCEPT ![n] = polls[j][n] - 1]
        BY <1>0, <1>3, <2>1 DEF TakePoll
      <4> DEFINE p == polls[j]
      <4>4. p \in [1..MaxPolls -> Nat] /\ \A i \in 1..MaxPolls : p[i] = IF i = n THEN 1 ELSE 0
        BY <1>0, <4>1, <4>2
      <4> HIDE DEF p
      <4>5. \A i \in 1..MaxPolls : [p EXCEPT ![n] = p[n] - 1][i] = 0
        BY <4>4
      <4> QED BY <4>3, <4>5 DEF p, NoPolls
    <3>5. TaskOK(w, j)' /\ NoDispatch(j)'
      BY <1>1, <3>1, <3>2 DEF TaskOK, OnPollQueue, BeforePost
    <3> QED BY <1>1, <3>1, <3>2, <3>3, <3>4, <3>5 DEF Serial, Placed, OnPollQueue, WithWorker
  <2>2. CASE k # j
    <3>1. runs' = runs /\ polls'[j] = polls[j] /\ ctx'[w].job # j
      BY <1>0, <1>3, <2>2 DEF TakePoll, NoContext
    <3> QED BY <1>0, <3>1, Apart DEF SameFor, rows, history, Dispatching
  <2> QED BY <2>1, <2>2
<1> QED BY <1>2, <1>3 DEF Take

\* A worker leaves the rows alone that are not live.
LEMMA RestingStays ==
    ASSUME TypeOK, NEW w \in Workers, WorkerStep(w) \/ WorkerDies(w),
           NEW j \in Jobs, Serial(j), state[j] \notin Live
    PROVE  state'[j] = state[j]
<1>1. ctx[w].job # j
  BY DEF Serial, Placed, Resting, NoWorker
<1>2. CASE Take(w)
  BY <1>2 DEF Take, TakeRun, TakePoll, rows
<1>3. CASE RunStep(w) \/ PollStep(w) \/ WorkerDies(w)
  BY <1>1, <1>3, OthersSame DEF SameFor
<1> QED BY <1>2, <1>3 DEF WorkerStep

LEMMA WorkerSerial ==
    ASSUME SerialInv, NEW w \in Workers, WorkerStep(w) \/ WorkerDies(w)
    PROVE  ReadsStand' /\ \A j \in Jobs : Serial(j)'
<1>0. TypeOK
  BY InvParts DEF SerialInv
<1>1. ASSUME NEW j \in Jobs PROVE Serial(j)'
  BY <1>0, OthersSame, Apart, OwnSerial, TakeSerial DEF WorkerStep, SerialInv
<1>2. ReadsStand'
  <2>1. UNCHANGED req
    BY WorkerRequests
  <2>2. \A j \in Jobs : state[j] \in {"scheduled", "failed"} => state'[j] = state[j]
    BY <1>0, RestingStays DEF SerialInv, Live
  <2>3. \A h \in Handlers : req[h].jobs \subseteq Jobs
    BY <1>0 DEF TypeOK, Request
  <2> QED BY <2>1, <2>2, <2>3 DEF ReadsStand, SerialInv
<1> QED BY <1>1, <1>2
-----------------------------------------------------------------------------
(***************************************************************************)
(* Steps of the request.                                                    *)
(***************************************************************************)

\* A job that is not live is at rest; before it left the backlog it was not tried.
LEMMA AtRest ==
    ASSUME SerialInv, NEW j \in Jobs, state[j] \notin Live
    PROVE  /\ Resting(j)
           /\ ~Moved(j) => attempts[j] = 0 /\ posts[j] = 0
<1>1. Resting(j)
  BY DEF SerialInv, Serial, Placed
<1>2. ~Moved(j) => attempts[j] = 0 /\ posts[j] = 0
  BY InvParts DEF SerialInv, CountedMoved, TypeOK
<1> QED BY <1>1, <1>2

\* A job at rest is decided on: it is with the request that will dispatch it.
LEMMA Decides ==
    ASSUME SerialInv, NEW h \in Handlers, NEW J, SetRequest(h, "dispatch", J),
           NEW j \in J, j \in Jobs, Resting(j), state'[j] \in Live,
           UNCHANGED <<queues, ctx, posts, blind>>, attempts'[j] = 0,
           retries'[j] \in Nat, posts[j] < 1 + retries'[j] + blind[j]
    PROVE  Serial(j)'
<1>1. j \in Dispatching(h)'
  BY InvParts DEF SerialInv, TypeOK, SetRequest, Dispatching
<1>2. Licence(j)' = 1 + retries'[j] + blind[j]
  BY DEF Licence, Decided, Live, Gone
<1>3. Bounded(j)' /\ ToSpend(j)'
  <2>1. /\ posts[j] \in Nat /\ blind[j] \in Nat /\ posts'[j] = posts[j] /\ MaxAttempts \in Nat \ {0}
    BY ConstantsOK, InvParts DEF SerialInv, TypeOK
  <2> QED BY <1>2, <2>1 DEF Bounded, ToSpend
<1>4. runs'[j] = 0 /\ NoPolls(j)' /\ NoWorker(j)'
  BY DEF Resting, NoPolls, NoWorker, queues
<1> QED BY <1>1, <1>3, <1>4 DEF Serial, Placed, WithRequest, NoDispatch

\* A request writes its own rows, or new ones, and no other request.
LEMMA OwnWrites ==
    ASSUME TypeOK, NEW h \in Handlers, HandlerStep(h) \/ RequestDies(h)
    PROVE  /\ \A g \in Handlers \ {h} : req'[g] = req[g]
           /\ \A j \in Jobs :
                 state'[j] # state[j] => state[j] = "none" \/ j \in req[h].jobs
<1> USE DEF TypeOK, rows, SetRequest, WriteState
<1>1. ASSUME NEW J \in SUBSET Jobs, Schedule(h, J) \/ Publish(h, J)
      PROVE  /\ \A g \in Handlers \ {h} : req'[g] = req[g]
             /\ \A j \in Jobs : state'[j] # state[j] => state[j] = "none"
  BY <1>1 DEF Schedule, Publish, Insertable
<1>2. ASSUME \/ \E A \in SUBSET Assets : ReleaseRead(h, A)
             \/ \E a \in Assets : UnscheduleRead(h, a)
             \/ \E k \in Jobs : RetryRead(h, k)
             \/ Background(h) \/ RequestDies(h)
      PROVE  /\ \A g \in Handlers \ {h} : req'[g] = req[g]
             /\ state' = state
  BY <1>2 DEF ReleaseRead, UnscheduleRead, RetryRead, Background, DispatchRead, Enqueue,
              RequestDies
<1>3. CASE Commit(h)
  BY <1>3 DEF Commit, ReleaseCommit, UnscheduleCommit, RetryCommit
<1> QED BY <1>1, <1>2, <1>3 DEF HandlerStep

LEMMA HandlerSerial ==
    ASSUME SerialInv, Undisputed, Undisputed',
           NEW h \in Handlers, HandlerStep(h) \/ RequestDies(h)
    PROVE  ReadsStand' /\ \A j \in Jobs : Serial(j)'
<1>0. /\ TypeOK /\ req \in [Handlers -> Request]
      /\ req[h].jobs \subseteq Jobs
      /\ retries \in [Jobs -> Nat] /\ blind \in [Jobs -> Nat]
      /\ attempts \in [Jobs -> Nat] /\ posts \in [Jobs -> Nat]
      /\ \A j \in Jobs : Serial(j)
      /\ req[h].pc \in {"release", "unschedule"} => \A j \in req[h].jobs : state[j] = "scheduled"
      /\ req[h].pc = "retry" => \A j \in req[h].jobs : state[j] = "failed"
  BY InvParts DEF SerialInv, TypeOK, Request, ReadsStand
\* The other requests: what they hold is not touched.
<1>o. ASSUME NEW g \in Handlers \ {h}
      PROVE  /\ req'[g] = req[g] /\ Dispatching(g)' = Dispatching(g)
             /\ req[g].jobs \subseteq Jobs /\ Dispatching(g) \subseteq req[g].jobs
             /\ \A j \in req[g].jobs : j \notin req[h].jobs
  BY <1>0, OwnWrites DEF Request, Dispatching, Undisputed
<1>a. \A g \in Handlers \ {h} :
         /\ req'[g].pc \in {"release", "unschedule"}
               => \A j \in req'[g].jobs : state'[j] = "scheduled"
         /\ req'[g].pc = "retry" => \A j \in req'[g].jobs : state'[j] = "failed"
  <2>1. ASSUME NEW g \in Handlers \ {h}, NEW j \in req[g].jobs, state[j] # "none"
        PROVE  state'[j] = state[j]
    BY <1>0, <1>o, <2>1, OwnWrites
  <2> QED BY <1>o, <2>1 DEF SerialInv, ReadsStand
<1> USE DEF rows, queues, history
\* The request goes on, and the jobs and what carries them stay.
<1>s. ASSUME NEW j \in Jobs, UNCHANGED <<queues, wpc, ctx, posts, blind>>,
             state'[j] = state[j], attempts'[j] = attempts[j], retries'[j] = retries[j],
             (j \in Dispatching(h))' <=> j \in Dispatching(h)
      PROVE  Serial(j)'
  <2>1. \A g \in Handlers : (j \in Dispatching(g))' <=> j \in Dispatching(g)
    BY <1>s, <1>o
  <2> QED BY <1>0, <1>s, <2>1, Apart DEF SameFor
<1>r. ASSUME NEW pc, NEW J, SetRequest(h, pc, J),
             pc \in {"release", "unschedule"} => \A j \in J : state'[j] = "scheduled",
             pc = "retry" => \A j \in J : state'[j] = "failed"
      PROVE  ReadsStand'
  <2>1. req'[h].pc = pc /\ req'[h].jobs = J
    BY <1>0, <1>r DEF SetRequest
  <2> QED BY <1>a, <1>r, <2>1 DEF ReadsStand
<1>1. ASSUME NEW J \in SUBSET Jobs, Schedule(h, J)
      PROVE  ReadsStand' /\ \A j \in Jobs : Serial(j)'
  <2>1. ReadsStand'
    <3>1. req[h].pc = "idle" /\ UNCHANGED req
      BY <1>1 DEF Schedule
    <3> QED BY <1>a, <3>1 DEF ReadsStand
  <2>2. ASSUME NEW j \in Jobs, j \in J PROVE Serial(j)'
    <3>1. state[j] = "none" /\ state'[j] = "scheduled"
      BY <1>1, <2>2 DEF Schedule, WriteState, Insertable
    <3>2. Resting(j)
      BY <3>1, AtRest DEF Live
    <3>3. Resting(j)'
      BY <1>1, <3>2 DEF Schedule, Resting, NoPolls, NoWorker, NoDispatch, Dispatching
    <3>4. Bounded(j)'
      BY <1>0, <1>1, <3>1 DEF Schedule, Serial, Bounded, Licence, Decided, Gone
    <3> QED BY <3>3, <3>4 DEF Serial, Placed
  <2>3. ASSUME NEW j \in Jobs, j \notin J PROVE Serial(j)'
    BY <1>1, <1>s, <2>3 DEF Schedule, WriteState, Dispatching
  <2> QED BY <2>1, <2>2, <2>3
<1>2. ASSUME NEW J \in SUBSET Jobs, Publish(h, J)
      PROVE  ReadsStand' /\ \A j \in Jobs : Serial(j)'
  <2>1. ReadsStand'
    BY <1>2, <1>r DEF Publish
  <2>2. ASSUME NEW j \in Jobs, j \in J PROVE Serial(j)'
    <3>1. state[j] = "none" /\ state'[j] = "pending"
      BY <1>2, <2>2 DEF Publish, WriteState, Insertable
    <3>2. Resting(j) /\ attempts[j] = 0 /\ posts[j] = 0
      BY <3>1, AtRest DEF Live, Moved
    <3>3. retries'[j] \in Nat /\ posts[j] < 1 + retries'[j] + blind[j]
      BY <1>0, <1>2, <3>2 DEF Publish
    <3> QED BY <1>2, <2>2, <3>1, <3>2, <3>3, Decides DEF Publish, Live
  <2>3. ASSUME NEW j \in Jobs, j \notin J PROVE Serial(j)'
    <3>1. state'[j] = state[j]
      BY <1>2, <2>3 DEF Publish, WriteState
    <3>2. Dispatching(h) = {} /\ Dispatching(h)' = J
      BY <1>0, <1>2 DEF Publish, SetRequest, Dispatching
    <3> QED BY <1>2, <1>s, <2>3, <3>1, <3>2 DEF Publish
  <2> QED BY <2>1, <2>2, <2>3
<1>3. ASSUME NEW pc \in {"release", "unschedule", "retry"}, NEW J, SetRequest(h, pc, J),
             req[h].pc = "idle", UNCHANGED <<rows, queues, wpc, ctx, history>>
      PROVE  \A j \in Jobs : Serial(j)'
  <2>1. Dispatching(h) = {} /\ Dispatching(h)' = {}
    BY <1>0, <1>3 DEF SetRequest, Dispatching
  <2> QED BY <1>3, <1>s, <2>1
<1>4. ASSUME NEW A \in SUBSET Assets, ReleaseRead(h, A)
      PROVE  ReadsStand' /\ \A j \in Jobs : Serial(j)'
  BY <1>3, <1>4, <1>r DEF ReleaseRead
<1>5. ASSUME NEW a \in Assets, UnscheduleRead(h, a)
      PROVE  ReadsStand' /\ \A j \in Jobs : Serial(j)'
  BY <1>3, <1>5, <1>r DEF UnscheduleRead
<1>6. ASSUME NEW k \in Jobs, RetryRead(h, k)
      PROVE  ReadsStand' /\ \A j \in Jobs : Serial(j)'
  BY <1>3, <1>6, <1>r DEF RetryRead
<1>7. CASE ReleaseCommit(h)
  <2> DEFINE J == req[h].jobs
  <2>1. /\ \A j \in J : state[j] = "scheduled" /\ Exists(j)
        /\ WriteState(J, "pending") /\ SetRequest(h, "dispatch", J)
    BY <1>0, <1>7 DEF ReleaseCommit, Exists, Gone
  <2>2. ReadsStand'
    BY <1>r, <2>1
  <2>3. ASSUME NEW j \in Jobs, j \in J PROVE Serial(j)'
    <3>1. state[j] = "scheduled" /\ state'[j] = "pending"
      BY <2>1, <2>3 DEF WriteState
    <3>2. Resting(j) /\ attempts[j] = 0 /\ posts[j] = 0
      BY <3>1, AtRest DEF Live, Moved
    <3>3. retries'[j] \in Nat /\ posts[j] < 1 + retries'[j] + blind[j]
      BY <1>0, <1>7, <3>2 DEF ReleaseCommit
    <3> QED BY <1>7, <2>1, <2>3, <3>1, <3>2, <3>3, Decides DEF ReleaseCommit, Live
  <2>4. ASSUME NEW j \in Jobs, j \notin J PROVE Serial(j)'
    <3>1. state'[j] = state[j]
      BY <2>1, <2>4 DEF WriteState
    <3>2. Dispatching(h) = {} /\ Dispatching(h)' = J
      BY <1>0, <1>7, <2>1 DEF ReleaseCommit, SetRequest, Dispatching
    <3> QED BY <1>7, <1>s, <2>4, <3>1, <3>2 DEF ReleaseCommit
  <2> QED BY <2>2, <2>3, <2>4
<1>8. CASE UnscheduleCommit(h)
  <2> DEFINE J == req[h].jobs
  <2>1. Dispatching(h) = {} /\ Dispatching(h)' = {}
    BY <1>0, <1>8 DEF UnscheduleCommit, SetRequest, Dispatching
  <2>2. ReadsStand'
    BY <1>8, <1>r DEF UnscheduleCommit
  <2>3. ASSUME NEW j \in Jobs, j \in J PROVE Serial(j)'
    <3>1. state[j] = "scheduled" /\ state'[j] = "deleted"
      BY <1>0, <1>8, <2>3 DEF UnscheduleCommit, WriteState
    <3>2. Resting(j)
      BY <3>1, AtRest DEF Live
    <3>3. NoDispatch(j)'
      <4>1. \A g \in Handlers \ {h} : j \notin Dispatching(g)'
        BY <1>o, <2>3
      <4> QED BY <2>1, <4>1 DEF NoDispatch
    <3>4. Resting(j)'
      BY <1>8, <3>2, <3>3 DEF UnscheduleCommit, Resting, NoPolls, NoWorker
    <3>5. Bounded(j)'
      BY <1>0, <1>8, <3>1 DEF UnscheduleCommit, Serial, Bounded, Licence, Decided, Gone
    <3> QED BY <3>4, <3>5 DEF Serial, Placed
  <2>4. ASSUME NEW j \in Jobs, j \notin J PROVE Serial(j)'
    <3>1. state'[j] = state[j]
      BY <1>8, <2>4 DEF UnscheduleCommit, WriteState
    <3> QED BY <1>8, <1>s, <2>1, <3>1 DEF UnscheduleCommit
  <2> QED BY <2>2, <2>3, <2>4
<1>9. CASE RetryCommit(h)
  <2> DEFINE J == req[h].jobs
  <2>1. /\ \A j \in J : state[j] = "failed" /\ Exists(j)
        /\ WriteState(J, "pending") /\ SetRequest(h, "dispatch", J)
        /\ attempts' = [j \in Jobs |-> IF j \in J THEN 0 ELSE attempts[j]]
        /\ retries' = [j \in Jobs |-> retries[j] + IF j \in J THEN 1 ELSE 0]
        /\ UNCHANGED <<queues, wpc, ctx, posts, blind>>
    BY <1>0, <1>9 DEF RetryCommit, Exists, Gone
  <2>2. ReadsStand'
    BY <1>r, <2>1
  <2>3. ASSUME NEW j \in Jobs, j \in J PROVE Serial(j)'
    <3>1. state[j] = "failed" /\ state'[j] = "pending" /\ attempts'[j] = 0
          /\ retries'[j] = retries[j] + 1
      BY <2>1, <2>3 DEF WriteState
    <3>2. Resting(j)
      BY <3>1, AtRest DEF Live
    <3>3. retries'[j] \in Nat /\ posts[j] < 1 + retries'[j] + blind[j]
      <4>1. posts[j] <= 1 + retries[j] + blind[j]
        BY <1>0, <3>1 DEF Serial, Bounded, Licence, Decided, Gone
      <4> QED BY <1>0, <3>1, <4>1
    <3> QED BY <2>1, <2>3, <3>1, <3>2, <3>3, Decides DEF Live
  <2>4. ASSUME NEW j \in Jobs, j \notin J PROVE Serial(j)'
    <3>1. state'[j] = state[j] /\ attempts'[j] = attempts[j] /\ retries'[j] = retries[j]
      BY <1>0, <2>1, <2>4 DEF WriteState
    <3>2. Dispatching(h) = {} /\ Dispatching(h)' = J
      BY <1>0, <1>9, <2>1 DEF RetryCommit, SetRequest, Dispatching
    <3> QED BY <1>s, <2>1, <2>4, <3>1, <3>2
  <2> QED BY <2>2, <2>3, <2>4
<1>10. CASE DispatchRead(h)
  <2> DEFINE found == {j \in req[h].jobs : Exists(j)}
  <2>1. /\ req[h].pc = "dispatch" /\ UNCHANGED <<rows, queues, wpc, ctx, history>>
        /\ SetRequest(h, IF found = {} THEN "idle" ELSE "enqueue", found)
    BY <1>10 DEF DispatchRead
  <2>2. ASSUME NEW j \in Jobs PROVE (j \in Dispatching(h))' <=> j \in Dispatching(h)
    <3>1. j \in Dispatching(h) => Exists(j)
      BY <1>0 DEF Serial, Placed, Resting, NoDispatch, Exists, Live, Gone
    <3>2. (j \in Dispatching(h))' <=> j \in found
      BY <1>0, <2>1 DEF SetRequest, Dispatching
    <3> QED BY <2>1, <3>1, <3>2 DEF Dispatching
  <2>3. ReadsStand'
    BY <1>r, <2>1
  <2> QED BY <1>s, <2>1, <2>2, <2>3
<1>11. ASSUME NEW k \in Jobs, Enqueue(h, k)
       PROVE  ReadsStand' /\ \A j \in Jobs : Serial(j)'
  <2> DEFINE left == req[h].jobs \ {k}
  <2>1. /\ req[h].pc = "enqueue" /\ k \in req[h].jobs
        /\ runs' = [runs EXCEPT ![k] = @ + 1]
        /\ SetRequest(h, IF left = {} THEN "idle" ELSE "enqueue", left)
        /\ UNCHANGED <<rows, polls, wpc, ctx, posts, blind, retries>>
    BY <1>11 DEF Enqueue
  <2>2. ReadsStand'
    BY <1>r, <2>1
  <2>3. Dispatching(h) = req[h].jobs /\ Dispatching(h)' = left
    BY <1>0, <2>1 DEF SetRequest, Dispatching
  <2>4. \A g \in Handlers \ {h} : k \notin Dispatching(g)'
    BY <1>o, <2>1
  <2>5. ASSUME NEW j \in Jobs, j = k PROVE Serial(j)'
    <3>1. state[j] \in Live /\ WithRequest(j)
      BY <1>0, <2>1, <2>3, <2>5
         DEF Serial, Placed, Resting, OnRunQueue, OnPollQueue, WithWorker, NoDispatch
    <3>2. runs'[j] = 1 /\ NoPolls(j)' /\ NoWorker(j)' /\ NoDispatch(j)'
      BY <1>0, <2>1, <2>3, <2>4, <2>5, <3>1
         DEF TypeOK, WithRequest, NoPolls, NoWorker, NoDispatch
    <3>3. ToSpend(j)' /\ Bounded(j)'
      BY <1>0, <2>1, <3>1 DEF WithRequest, Serial, ToSpend, Bounded, Licence, Decided
    <3> QED BY <2>1, <3>1, <3>2, <3>3 DEF Serial, Placed, OnRunQueue
  <2>6. ASSUME NEW j \in Jobs, j # k PROVE Serial(j)'
    <3>1. runs'[j] = runs[j]
      BY <1>0, <2>1, <2>6 DEF TypeOK
    <3>2. \A g \in Handlers : (j \in Dispatching(g))' <=> j \in Dispatching(g)
      BY <1>o, <2>3, <2>6
    <3> QED BY <1>0, <2>1, <3>1, <3>2, Apart DEF SameFor
  <2> QED BY <2>2, <2>5, <2>6
<1>12. CASE RequestDies(h)
  <2>1. ReadsStand'
    BY <1>12, <1>r DEF RequestDies
  <2>2. Dispatching(h)' = {}
    BY <1>0, <1>12 DEF RequestDies, SetRequest, Dispatching
  <2>3. ASSUME NEW j \in Jobs, j \in Dispatching(h) PROVE Serial(j)'
    <3>1. WithRequest(j)
      BY <1>0, <2>3
         DEF Serial, Placed, Resting, OnRunQueue, OnPollQueue, WithWorker, NoDispatch
    <3>2. NoDispatch(j)'
      <4>1. j \in req[h].jobs
        BY <2>3 DEF Dispatching
      <4>2. \A g \in Handlers \ {h} : j \notin Dispatching(g)'
        BY <1>o, <4>1
      <4> QED BY <2>2, <4>2 DEF NoDispatch
    <3>4. Resting(j)'
      BY <1>12, <3>1, <3>2 DEF RequestDies, WithRequest, Resting, NoPolls, NoWorker
    <3>3. Bounded(j)'
      BY <1>0, <1>12 DEF RequestDies, Serial, Bounded, Licence, Decided
    <3> QED BY <3>3, <3>4 DEF Serial, Placed
  <2>4. ASSUME NEW j \in Jobs, j \notin Dispatching(h) PROVE Serial(j)'
    BY <1>12, <1>s, <2>2, <2>4 DEF RequestDies
  <2> QED BY <2>1, <2>3, <2>4
<1> QED BY <1>1, <1>2, <1>4, <1>5, <1>6, <1>7, <1>8, <1>9, <1>10, <1>11, <1>12
        DEF HandlerStep, Commit, Background
-----------------------------------------------------------------------------
(***************************************************************************)
(* The invariant, and what follows from it.                                 *)
(***************************************************************************)
LEMMA SerialInit == Init => SerialInv
<1> SUFFICES ASSUME Init PROVE SerialInv
  OBVIOUS
<1>1. Inv
  BY InvInit
<1>2. ReadsStand
  BY DEF Init, ReadsStand, NoRequest
<1>3. ASSUME NEW j \in Jobs PROVE Serial(j)
  <2>1. Resting(j)
    BY ConstantsOK
       DEF Init, Resting, NoPolls, NoWorker, NoDispatch, Dispatching, NoRequest, NoContext
  <2>2. Bounded(j)
    BY ConstantsOK DEF Init, Bounded, Licence, Decided, Gone
  <2> QED BY <2>1, <2>2 DEF Serial, Placed
<1> QED BY <1>1, <1>2, <1>3 DEF SerialInv

LEMMA SerialNext ==
    ASSUME Undisputed, Undisputed', SerialInv, [Next]_vars
    PROVE  SerialInv'
<1>1. Inv'
  BY InvNext DEF SerialInv
<1>2. ASSUME NEW h \in Handlers, HandlerStep(h) \/ RequestDies(h)
      PROVE  ReadsStand' /\ \A j \in Jobs : Serial(j)'
  BY <1>2, HandlerSerial
<1>3. ASSUME NEW w \in Workers, WorkerStep(w) \/ WorkerDies(w)
      PROVE  ReadsStand' /\ \A j \in Jobs : Serial(j)'
  BY <1>3, WorkerSerial
<1>4. CASE UNCHANGED vars
  <2>1. \A j \in Jobs : SameFor(j)
    BY <1>4 DEF vars, rows, queues, history, SameFor, Dispatching
  <2>2. ReadsStand'
    BY <1>4 DEF SerialInv, ReadsStand, vars, rows
  <2> QED BY <1>1, <2>1, <2>2, Apart DEF SerialInv
<1> QED BY <1>1, <1>2, <1>3, <1>4 DEF Next, SerialInv

LEMMA SerialAlways == Spec /\ []Undisputed => []SerialInv
  BY SerialInit, SerialNext, PTL DEF Spec

\* The parts of Carriers that are empty, or single.
LEMMA CarrierParts ==
    ASSUME TypeOK, NEW j \in Jobs
    PROVE  /\ runs[j] = 0 => RunTasks(j) = {}
           /\ runs[j] = 1 => \A c, d \in RunTasks(j) : c = d
           /\ NoPolls(j) => PollTasks(j) = {}
           /\ OnePoll(j) => \A c, d \in PollTasks(j) : c = d
           /\ NoWorker(j) => InHand(j) = {}
           /\ NoDispatch(j) => InRequest(j) = {}
<1>1. runs[j] \in Nat /\ \A n \in 1..MaxPolls : polls[j][n] \in Nat
  BY DEF TypeOK
<1>2. /\ runs[j] = 0 => RunTasks(j) = {}
      /\ runs[j] = 1 => \A c, d \in RunTasks(j) : c = d
  BY <1>1 DEF RunTasks
<1>3. ASSUME NEW c \in PollTasks(j)
      PROVE  \E n \in 1..MaxPolls : \E i \in 1..polls[j][n] : c = <<"poll", n, i>>
  <2>1. PICK n \in 1..MaxPolls : c \in {<<"poll", n, i>> : i \in 1..polls[j][n]}
    BY <1>3 DEF PollTasks
  <2> QED BY <2>1
<1>4. NoPolls(j) => PollTasks(j) = {}
  BY <1>3 DEF NoPolls
<1>5. ASSUME OnePoll(j), NEW c \in PollTasks(j), NEW d \in PollTasks(j) PROVE c = d
  <2>1. PICK m \in 1..MaxPolls : \A n \in 1..MaxPolls : polls[j][n] = IF n = m THEN 1 ELSE 0
    BY <1>5 DEF OnePoll
  <2>2. \A n \in 1..MaxPolls : \A i \in 1..polls[j][n] : n = m /\ i = 1
    BY <2>1
  <2>3. PICK n \in 1..MaxPolls : \E i \in 1..polls[j][n] : c = <<"poll", n, i>>
    BY <1>3
  <2>4. PICK k \in 1..MaxPolls : \E l \in 1..polls[j][k] : d = <<"poll", k, l>>
    BY <1>3
  <2> QED BY <2>2, <2>3, <2>4
<1>6. /\ NoWorker(j) => InHand(j) = {}
      /\ NoDispatch(j) => InRequest(j) = {}
  BY DEF NoWorker, NoDispatch, InHand, InRequest
<1> QED BY <1>2, <1>4, <1>5, <1>6

LEMMA CarriedOnce ==
    ASSUME TypeOK, Undisputed, NEW j \in Jobs, Serial(j)
    PROVE  /\ \A c, d \in Carriers(j) : c = d
           /\ state[j] \notin Live => Carriers(j) = {}
<1>1. CASE Resting(j)
  BY <1>1, CarrierParts DEF Resting, Carriers
<1>2. CASE WithRequest(j)
  <2>1. RunTasks(j) = {} /\ PollTasks(j) = {} /\ InHand(j) = {}
    BY <1>2, CarrierParts DEF WithRequest
  <2>2. Carriers(j) = InRequest(j)
    BY <2>1 DEF Carriers
  <2>3. \A c, d \in InRequest(j) : c = d
    BY DEF InRequest, Dispatching, Undisputed
  <2>4. state[j] \notin Live => Resting(j)
    BY DEF Serial, Placed
  <2> QED BY <1>1, <2>2, <2>3, <2>4
<1>3. CASE OnRunQueue(j)
  <2>1. PollTasks(j) = {} /\ InHand(j) = {} /\ InRequest(j) = {}
    BY <1>3, CarrierParts DEF OnRunQueue
  <2>2. Carriers(j) = RunTasks(j)
    BY <2>1 DEF Carriers
  <2>3. \A c, d \in RunTasks(j) : c = d
    BY <1>3, CarrierParts DEF OnRunQueue
  <2>4. state[j] \notin Live => Resting(j)
    BY DEF Serial, Placed
  <2> QED BY <1>1, <2>2, <2>3, <2>4
<1>4. CASE OnPollQueue(j)
  <2>1. RunTasks(j) = {} /\ InHand(j) = {} /\ InRequest(j) = {}
    BY <1>4, CarrierParts DEF OnPollQueue
  <2>2. Carriers(j) = PollTasks(j)
    BY <2>1 DEF Carriers
  <2>3. \A c, d \in PollTasks(j) : c = d
    BY <1>4, CarrierParts DEF OnPollQueue
  <2>4. state[j] \notin Live => Resting(j)
    BY DEF Serial, Placed
  <2> QED BY <1>1, <2>2, <2>3, <2>4
<1>5. ASSUME NEW w \in Workers, WithWorker(w, j) PROVE \A c, d \in Carriers(j) : c = d
  <2>1. RunTasks(j) = {} /\ PollTasks(j) = {} /\ InRequest(j) = {}
    BY <1>5, CarrierParts DEF WithWorker
  <2>2. Carriers(j) = InHand(j)
    BY <2>1 DEF Carriers
  <2>3. \A c, d \in InHand(j) : c = d
    BY <1>5 DEF WithWorker, InHand
  <2> QED BY <2>2, <2>3
<1> QED BY <1>1, <1>2, <1>3, <1>4, <1>5 DEF Serial, Placed

\* The specification the run checks is the pipeline under that assumption.
THEOREM CalmIsUndisputed == CalmSpec => Spec /\ []Undisputed
<1>1. Init => Undisputed
  BY DEF Init, NoRequest, Undisputed
<1>2. Undisputed /\ [Next /\ Undisputed']_vars => Undisputed'
  BY DEF vars, Undisputed
<1> QED BY <1>1, <1>2, PTL DEF CalmSpec, Spec

\* While no two requests dispute a job no two tasks, workers or requests act on one job.
THEOREM CarriedByOne == Spec /\ []Undisputed => []OneCarrier
<1>1. Undisputed /\ SerialInv => OneCarrier
  BY CarriedOnce, InvParts DEF SerialInv, OneCarrier
<1> QED BY <1>1, SerialAlways, PTL

\* While no two requests dispute a job nothing is left that could touch a finished job.
THEOREM SettledStaysQuiet == Spec /\ []Undisputed => []SettledIsQuiet
<1>1. Undisputed /\ SerialInv => SettledIsQuiet
  BY CarriedOnce, InvParts DEF SerialInv, SettledIsQuiet, Terminal, Live
<1> QED BY <1>1, SerialAlways, PTL

\* While no two requests dispute a job MAX_ATTEMPTS bounds the attempts between two decisions.
THEOREM AttemptsWithinBudget == Spec /\ []Undisputed => []AttemptBudget
<1>1. SerialInv => AttemptBudget
  BY DEF SerialInv, Serial, Bounded, AttemptBudget
<1> QED BY <1>1, SerialAlways, PTL
-----------------------------------------------------------------------------
(***************************************************************************)
(* How far a job has come: its retries by the operator, the attempts counted *)
(* since, and its place in the attempt and the polls that follow it, read as *)
(* the digits of one number.                                                *)
(***************************************************************************)
Holders(j) == {w \in Workers : ctx[w].job = j}
Holder(j) == CHOOSE w \in Holders(j) : TRUE
QueuedPolls(j) == {n \in 1..MaxPolls : polls[j][n] > 0}
QueuedPoll(j) == CHOOSE n \in QueuedPolls(j) : TRUE

PollPlace(n) == 7 + 5 * n
Lap == PollPlace(MaxPolls + 1) + 1

\* An attempt begins when it is counted, so that its task is taken at the end of the
\* one before.
TaskPlace(pc, n) ==
    IF pc = "rendition" THEN 2
    ELSE IF pc = "starting" THEN 3
    ELSE IF pc = "publishing" THEN 4
    ELSE IF pc = "accepted" THEN 5
    ELSE IF pc = "failing" THEN 6
    ELSE IF pc = "requeue" THEN 7
    ELSE IF pc = "claim" THEN 9
    ELSE IF pc = "claiming" THEN 10
    ELSE IF pc = "startpoll" THEN 11
    ELSE IF pc = "poll" THEN PollPlace(n) + 1
    ELSE IF pc = "checking" THEN PollPlace(n) + 2
    ELSE IF pc = "settling" THEN PollPlace(n) + 3
    ELSE PollPlace(n) + 4

RestPlace(j) ==
    IF ~NoDispatch(j) THEN 1
    ELSE IF state[j] \in {"none", "scheduled"} THEN 0 ELSE Lap - 1

Place(j) ==
    IF Holders(j) # {} THEN TaskPlace(wpc[Holder(j)], ctx[Holder(j)].poll)
    ELSE IF runs[j] > 0 THEN 8
    ELSE IF QueuedPolls(j) # {} THEN PollPlace(QueuedPoll(j))
    ELSE RestPlace(j)

\* A number of two digits, of which the second is less than k.
Two(a, k, b) == a * k + b

Rank(j) == Two(Two(retries[j], MaxAttempts + 1, attempts[j]), Lap, Place(j))
Round == (MaxAttempts + 1) * Lap

\* The digits are in their ranges.
DigitsOK(j) ==
    /\ retries[j] \in Nat
    /\ attempts[j] \in 0..(MaxAttempts + 1) - 1
    /\ Place(j) \in 0..Lap - 1
DigitsInRange == \A j \in Jobs : DigitsOK(j)

LEMMA Digits ==
    ASSUME NEW a \in Nat, NEW c \in Nat, NEW k \in Nat \ {0}, NEW b \in 0..k - 1, NEW d \in 0..k - 1
    PROVE  /\ Two(a, k, b) \in Nat /\ c * k \in Nat
           /\ a < c => Two(a, k, b) < Two(c, k, d) /\ Two(a, k, b) < c * k
           /\ b < d => Two(a, k, b) < Two(a, k, d)
<1>1. a * k \in Nat /\ c * k \in Nat
  OBVIOUS
<1>2. ASSUME a < c PROVE a * k + k <= c * k
  <2>1. c - a \in Nat /\ c - a >= 1
    BY <1>2
  <2>2. (c - a) * k >= k
    BY <2>1
  <2>3. c * k = a * k + (c - a) * k
    BY <2>1
  <2> QED BY <1>1, <2>2, <2>3
<1> QED BY <1>1, <1>2 DEF Two

LEMMA Bounds == MaxAttempts + 1 \in Nat \ {0} /\ MaxPolls \in Nat \ {0} /\ Lap \in Nat \ {0}
  BY ConstantsOK DEF Lap, PollPlace

LEMMA RankBound ==
    ASSUME NEW j \in Jobs, DigitsOK(j)
    PROVE  Rank(j) \in Nat /\ Rank(j) < (retries[j] + 1) * Round
<1> DEFINE count == Two(retries[j], MaxAttempts + 1, attempts[j])
           limit == (retries[j] + 1) * (MaxAttempts + 1)
<1>1. count \in Nat /\ limit \in Nat /\ count < limit
  <2>1. /\ retries[j] \in Nat /\ retries[j] + 1 \in Nat /\ retries[j] < retries[j] + 1
        /\ attempts[j] \in 0..(MaxAttempts + 1) - 1
    BY DEF DigitsOK
  <2> QED BY <2>1, Bounds, Digits
<1> HIDE DEF count, limit
<1>2. Two(count, Lap, Place(j)) \in Nat /\ Two(count, Lap, Place(j)) < limit * Lap
  BY <1>1, Bounds, Digits DEF DigitsOK
<1>3. limit * Lap = (retries[j] + 1) * Round
  <2>1. retries[j] + 1 \in Nat
    BY DEF DigitsOK
  <2> HIDE DEF Lap
  <2> QED BY <2>1, Bounds DEF limit, Round
<1> QED BY <1>2, <1>3 DEF Rank, count

\* What a step does to the digits of a job.
Stays(j) == retries'[j] = retries[j] /\ attempts'[j] = attempts[j] /\ Place(j)' = Place(j)
Rises(j) ==
    \/ retries'[j] = retries[j] + 1
    \/ /\ retries'[j] = retries[j]
       /\ attempts'[j] = attempts[j] + 1 \/ (attempts'[j] = attempts[j] /\ Place(j) < Place(j)')

LEMMA RankRises ==
    ASSUME NEW j \in Jobs, DigitsOK(j), DigitsOK(j)'
    PROVE  /\ Rank(j) \in Nat /\ Rank(j)' \in Nat
           /\ Stays(j) => Rank(j)' = Rank(j)
           /\ Rises(j) => Rank(j)' > Rank(j)
<1> DEFINE c == Two(retries[j], MaxAttempts + 1, attempts[j])
           d == Two(retries'[j], MaxAttempts + 1, attempts'[j])
           p == Place(j)
           q == Place(j)'
<1>1. /\ retries'[j] \in Nat /\ attempts'[j] \in 0..(MaxAttempts + 1) - 1 /\ q \in 0..Lap - 1
      /\ retries[j] \in Nat /\ attempts[j] \in 0..(MaxAttempts + 1) - 1 /\ p \in 0..Lap - 1
  BY DEF DigitsOK, Lap, PollPlace
<1>2. Rank(j) = Two(c, Lap, p) /\ Rank(j)' = Two(d, Lap, q)
  BY DEF Rank, Lap, PollPlace, Two
<1>3. c \in Nat /\ d \in Nat
  BY <1>1, Bounds, Digits
<1>4. Stays(j) => d = c /\ p = q
  BY DEF Stays
<1>5. Rises(j) => c < d \/ (c = d /\ p < q)
  <2>1. retries[j] < retries'[j] => c < d
    BY <1>1, Bounds, Digits
  <2>2. retries'[j] = retries[j] /\ attempts[j] < attempts'[j] => c < d
    BY <1>1, Bounds, Digits
  <2>3. retries'[j] = retries[j] /\ attempts'[j] = attempts[j] => c = d
    OBVIOUS
  <2> HIDE DEF c, d
  <2> QED BY <1>1, <2>1, <2>2, <2>3 DEF Rises
<1> HIDE DEF c, d, p, q
<1>6. c < d => Two(c, Lap, p) < Two(d, Lap, q)
  BY <1>1, <1>3, Bounds, Digits
<1>7. p < q => Two(c, Lap, p) < Two(c, Lap, q)
  BY <1>1, <1>3, Bounds, Digits
<1>8. Two(c, Lap, p) \in Nat /\ Two(d, Lap, q) \in Nat
  BY <1>1, <1>3, Bounds, Digits
<1> QED BY <1>2, <1>4, <1>5, <1>6, <1>7, <1>8

\* The only poll queued is the n-th.
OnlyPoll(j, n) == \A m \in 1..MaxPolls : polls[j][m] = IF m = n THEN 1 ELSE 0

LEMMA PlaceOf ==
    ASSUME NEW j \in Jobs
    PROVE  /\ \A w \in Workers : (\A v \in Workers : ctx[v].job = j <=> v = w)
                                    => Place(j) = TaskPlace(wpc[w], ctx[w].poll)
           /\ NoWorker(j) /\ runs[j] = 1 => Place(j) = 8
           /\ NoWorker(j) /\ runs[j] = 0
                 => \A n \in 1..MaxPolls : OnlyPoll(j, n) => Place(j) = PollPlace(n)
           /\ NoWorker(j) /\ runs[j] = 0 /\ NoPolls(j) => Place(j) = RestPlace(j)
<1>1. ASSUME NEW w \in Workers, \A v \in Workers : ctx[v].job = j <=> v = w
      PROVE  Place(j) = TaskPlace(wpc[w], ctx[w].poll)
  <2>1. Holders(j) = {w}
    BY <1>1 DEF Holders
  <2>2. Holder(j) = w
    BY <2>1 DEF Holder
  <2> QED BY <2>1, <2>2 DEF Place
<1>2. NoWorker(j) => Holders(j) = {}
  BY DEF NoWorker, Holders
<1>3. ASSUME NEW n \in 1..MaxPolls, OnlyPoll(j, n) PROVE QueuedPolls(j) # {} /\ QueuedPoll(j) = n
  <2>1. QueuedPolls(j) = {n}
    BY <1>3 DEF QueuedPolls, OnlyPoll
  <2> QED BY <2>1 DEF QueuedPoll
<1>4. NoPolls(j) => QueuedPolls(j) = {}
  BY DEF NoPolls, QueuedPolls
<1> QED BY <1>1, <1>2, <1>3, <1>4 DEF Place

LEMMA PlaceNext ==
    ASSUME NEW j \in Jobs
    PROVE  /\ \A w \in Workers : (\A v \in Workers : ctx'[v].job = j <=> v = w)
                                    => Place(j)' = TaskPlace(wpc'[w], ctx'[w].poll)
           /\ NoWorker(j)' /\ runs'[j] = 1 => Place(j)' = 8
           /\ NoWorker(j)' /\ runs'[j] = 0
                 => \A n \in 1..MaxPolls : OnlyPoll(j, n)' => Place(j)' = PollPlace(n)
           /\ NoWorker(j)' /\ runs'[j] = 0 /\ NoPolls(j)' => Place(j)' = RestPlace(j)'
<1>1. ASSUME NEW w \in Workers, \A v \in Workers : ctx'[v].job = j <=> v = w
      PROVE  Place(j)' = TaskPlace(wpc'[w], ctx'[w].poll)
  <2>1. Holders(j)' = {w}
    BY <1>1 DEF Holders
  <2>2. Holder(j)' = w
    BY <2>1 DEF Holder
  <2> QED BY <2>1, <2>2 DEF Place, TaskPlace, PollPlace
<1>2. NoWorker(j)' => Holders(j)' = {}
  BY DEF NoWorker, Holders
<1>3. ASSUME NEW n \in 1..MaxPolls, OnlyPoll(j, n)' PROVE QueuedPolls(j)' # {} /\ QueuedPoll(j)' = n
  <2>1. QueuedPolls(j)' = {n}
    BY <1>3 DEF QueuedPolls, OnlyPoll
  <2> QED BY <2>1 DEF QueuedPoll
<1>4. NoPolls(j)' => QueuedPolls(j)' = {}
  BY DEF NoPolls, QueuedPolls
<1> QED BY <1>1, <1>2, <1>3, <1>4 DEF Place, PollPlace

LEMMA TaskPlaceType ==
    ASSUME NEW pc, NEW n, PollPlace(n) \in Nat, NEW l \in Nat, PollPlace(n) + 4 < l, 12 < l
    PROVE  TaskPlace(pc, n) \in Nat /\ TaskPlace(pc, n) < l
<1> DEFINE place == TaskPlace(pc, n)
           p == PollPlace(n)
<1>1. \/ place = 2 \/ place = 3 \/ place = 4 \/ place = 5 \/ place = 6 \/ place = 7
      \/ place = 9 \/ place = 10 \/ place = 11
      \/ place = p + 1 \/ place = p + 2 \/ place = p + 3 \/ place = p + 4
  BY Zenon DEF TaskPlace
<1> HIDE DEF place, p
<1>2. place \in Nat /\ place < l
  BY <1>1 DEF p
<1> QED BY <1>2 DEF place

LEMMA PlaceType ==
    ASSUME SerialInv, NEW j \in Jobs
    PROVE  DigitsOK(j)
<1>0. TypeOK /\ Serial(j)
  BY InvParts DEF SerialInv
<1>b. /\ Lap \in Nat /\ 12 < Lap
      /\ \A n \in 0..MaxPolls : PollPlace(n) \in Nat /\ PollPlace(n) + 5 < Lap
  BY Bounds DEF PollPlace, Lap
<1>1. Place(j) \in 0..Lap - 1
  <2>1. ASSUME NEW w \in Workers, WithWorker(w, j) PROVE Place(j) \in 0..Lap - 1
    <3>1. Place(j) = TaskPlace(wpc[w], ctx[w].poll) /\ ctx[w].poll \in 0..MaxPolls
      BY <1>0, <2>1, PlaceOf, ContextType DEF WithWorker
    <3>2. PollPlace(ctx[w].poll) \in Nat /\ PollPlace(ctx[w].poll) + 5 < Lap
      BY <1>b, <3>1
    <3>3. TaskPlace(wpc[w], ctx[w].poll) \in Nat /\ TaskPlace(wpc[w], ctx[w].poll) < Lap
      BY <1>b, <3>2, TaskPlaceType
    <3> QED BY <1>b, <3>1, <3>3
  <2>2. CASE OnRunQueue(j)
    BY <1>b, <2>2, PlaceOf DEF OnRunQueue
  <2>3. CASE OnPollQueue(j)
    <3>1. PICK n \in 1..MaxPolls : OnlyPoll(j, n)
      BY <2>3 DEF OnPollQueue, OnePoll, OnlyPoll
    <3>2. Place(j) = PollPlace(n) /\ n \in 0..MaxPolls
      BY <2>3, <3>1, PlaceOf, Bounds DEF OnPollQueue
    <3> QED BY <1>b, <3>2
  <2>4. CASE Resting(j) \/ WithRequest(j)
    <3>1. Place(j) = RestPlace(j)
      BY <2>4, PlaceOf DEF Resting, WithRequest
    <3> QED BY <1>b, <3>1 DEF RestPlace
  <2> QED BY <1>0, <2>1, <2>2, <2>3, <2>4 DEF Serial, Placed
<1>2. retries[j] \in Nat /\ attempts[j] \in 0..(MaxAttempts + 1) - 1
  BY <1>0, ConstantsOK DEF TypeOK, Serial, Bounded
<1> QED BY <1>1, <1>2 DEF DigitsOK
LEMMA NextPoll ==
    ASSUME TypeOK, NEW j \in Jobs, NEW n \in 1..MaxPolls, NoPolls(j),
           polls' = [polls EXCEPT ![j][n] = @ + 1]
    PROVE  OnlyPoll(j, n)'
<1> DEFINE q == polls[j]
<1>1. q \in [1..MaxPolls -> Nat] /\ \A m \in 1..MaxPolls : q[m] = 0
  BY DEF TypeOK, NoPolls
<1>2. polls'[j] = [q EXCEPT ![n] = q[n] + 1]
  BY DEF TypeOK
<1> HIDE DEF q
<1>3. \A m \in 1..MaxPolls : [q EXCEPT ![n] = q[n] + 1][m] = IF m = n THEN 1 ELSE 0
  BY <1>1
<1> QED BY <1>2, <1>3 DEF OnlyPoll

LEMMA TaskPlaces ==
    ASSUME NEW n
    PROVE  /\ TaskPlace("rendition", n) = 2 /\ TaskPlace("starting", n) = 3
           /\ TaskPlace("publishing", n) = 4 /\ TaskPlace("accepted", n) = 5
           /\ TaskPlace("failing", n) = 6 /\ TaskPlace("requeue", n) = 7
           /\ TaskPlace("claim", n) = 9 /\ TaskPlace("claiming", n) = 10
           /\ TaskPlace("startpoll", n) = 11
           /\ TaskPlace("poll", n) = PollPlace(n) + 1
           /\ TaskPlace("checking", n) = PollPlace(n) + 2
           /\ TaskPlace("settling", n) = PollPlace(n) + 3
           /\ TaskPlace("repoll", n) = PollPlace(n) + 4
<1>1. /\ TaskPlace("rendition", n) = 2 /\ TaskPlace("starting", n) = 3
      /\ TaskPlace("publishing", n) = 4 /\ TaskPlace("accepted", n) = 5
      /\ TaskPlace("failing", n) = 6 /\ TaskPlace("requeue", n) = 7
  BY DEF TaskPlace
<1>2. /\ TaskPlace("claim", n) = 9 /\ TaskPlace("claiming", n) = 10
      /\ TaskPlace("startpoll", n) = 11
  BY DEF TaskPlace
<1>3. /\ TaskPlace("poll", n) = PollPlace(n) + 1
      /\ TaskPlace("checking", n) = PollPlace(n) + 2
  BY Zenon DEF TaskPlace
<1>4. /\ TaskPlace("settling", n) = PollPlace(n) + 3
      /\ TaskPlace("repoll", n) = PollPlace(n) + 4
  BY Zenon DEF TaskPlace
<1> QED BY <1>1, <1>2, <1>3, <1>4

\* A step of its worker takes a job further.
LEMMA OwnRises ==
    ASSUME SerialInv, NEW w \in Workers, RunStep(w) \/ PollStep(w) \/ WorkerDies(w),
           NEW j \in Jobs, ctx[w].job = j
    PROVE  Rises(j)
<1>0. TypeOK /\ Serial(j)
  BY InvParts DEF SerialInv
<1>1. state[j] \in Live /\ WithWorker(w, j)
  BY <1>0 DEF Serial, Placed, Resting, WithRequest, OnRunQueue, OnPollQueue, NoWorker, WithWorker
<1>2. /\ NoJob # j /\ Exists(j)
      /\ ctx[w] \in Context /\ ctx \in [Workers -> Context] /\ wpc \in [Workers -> WorkerPC]
      /\ ctx[w].poll \in 0..MaxPolls
      /\ wpc[w] = "settling" => ctx[w].outcome \in Terminal
      /\ wpc[w] = "claiming" => ctx[w].attempt = attempts[j] + 1
      /\ state \in [Jobs -> RowState] /\ attempts \in [Jobs -> Nat] /\ runs \in [Jobs -> Nat]
      /\ polls \in [Jobs -> [1..MaxPolls -> Nat]]
      /\ runs[j] = 0 /\ NoPolls(j) /\ NoDispatch(j)
      /\ \A v \in Workers : ctx[v].job = j <=> v = w
  BY <1>0, <1>1, ContextType, ConstantsOK DEF TypeOK, WithWorker, TaskOK, Exists, Live, Gone
<1>3. /\ \A v \in Workers \ {w} : ctx'[v] = ctx[v] /\ wpc'[v] = wpc[v]
      /\ UNCHANGED req
  BY <1>0, WorkerSpends, WorkerRequests DEF WorkerStep
<1>4. NoDispatch(j)' /\ \A v \in Workers : ctx'[v].job = j <=> v = w /\ ctx'[w].job = j
  BY <1>2, <1>3 DEF NoDispatch, Dispatching
<1> DEFINE n == ctx[w].poll
           p == PollPlace(n)
<1>5. /\ p \in Nat /\ Lap \in Nat /\ p + 5 < Lap /\ 17 < Lap
      /\ PollPlace(n + 1) = p + 5 /\ PollPlace(1) = 12
  BY <1>2, Bounds DEF PollPlace, Lap
<1>6. /\ Place(j) = TaskPlace(wpc[w], n)
      /\ Place(j) \in Nat /\ Place(j) < Lap - 1
  <2>1. Place(j) = TaskPlace(wpc[w], n)
    BY <1>2, PlaceOf
  <2>2. Lap - 1 \in Nat /\ p + 4 < Lap - 1 /\ 12 < Lap - 1
    BY <1>5
  <2> HIDE DEF n
  <2>3. TaskPlace(wpc[w], n) \in Nat /\ TaskPlace(wpc[w], n) < Lap - 1
    BY <1>5, <2>2, TaskPlaceType
  <2> QED BY <2>1, <2>3
\* The job is kept in hand, put on a queue, or put down.
<1>k. ASSUME ctx'[w].job = j, attempts'[j] = attempts[j], retries'[j] = retries[j],
             TaskPlace(wpc[w], n) < TaskPlace(wpc'[w], ctx'[w].poll)
      PROVE  Rises(j)
  <2>1. Place(j)' = TaskPlace(wpc'[w], ctx'[w].poll)
    BY <1>4, <1>k, PlaceNext
  <2> QED BY <1>6, <1>k, <2>1 DEF Rises
<1>q. ASSUME Finish(w), attempts'[j] = attempts[j], retries'[j] = retries[j], runs'[j] = 0,
             NEW m \in 1..MaxPolls, OnlyPoll(j, m)', TaskPlace(wpc[w], n) < PollPlace(m)
      PROVE  Rises(j)
  <2>1. NoWorker(j)'
    BY <1>2, <1>4, <1>q DEF Finish, NoContext, NoWorker
  <2>2. Place(j)' = PollPlace(m)
    BY <1>q, <2>1, PlaceNext
  <2> QED BY <1>6, <1>q, <2>2 DEF Rises
<1>d. ASSUME Finish(w), UNCHANGED queues, attempts'[j] = attempts[j], retries'[j] = retries[j],
             state'[j] \in Live \cup Terminal
      PROVE  Rises(j)
  <2>1. NoWorker(j)' /\ runs'[j] = 0 /\ NoPolls(j)'
    BY <1>2, <1>4, <1>d DEF Finish, NoContext, NoWorker, NoPolls, queues
  <2>2. Place(j)' = RestPlace(j)'
    BY <2>1, PlaceNext
  <2>3. RestPlace(j)' = Lap' - 1
    BY <1>4, <1>d DEF RestPlace, Live, Terminal
  <2>4. Lap' = Lap
    BY DEF Lap, PollPlace
  <2> QED BY <1>6, <1>d, <2>2, <2>3, <2>4 DEF Rises
<1> HIDE DEF n, p
<1>t. /\ TaskPlace("rendition", n) = 2 /\ TaskPlace("starting", n) = 3
      /\ TaskPlace("publishing", n) = 4 /\ TaskPlace("accepted", n) = 5
      /\ TaskPlace("failing", n) = 6 /\ TaskPlace("requeue", n) = 7
      /\ TaskPlace("claim", n) = 9 /\ TaskPlace("claiming", n) = 10
      /\ TaskPlace("startpoll", n) = 11 /\ TaskPlace("poll", n) = p + 1
      /\ TaskPlace("checking", n) = p + 2 /\ TaskPlace("settling", n) = p + 3
      /\ TaskPlace("repoll", n) = p + 4
  BY TaskPlaces DEF p
<1> USE DEF rows, history, WriteIfExists, WriteState, Goto
<1>7. CASE ClaimRead(w)
  <2>1. CASE state[j] \in Live
    <3>1. /\ wpc[w] = "claim" /\ wpc'[w] = "claiming" /\ ctx'[w].job = j /\ ctx'[w].poll = n
          /\ attempts'[j] = attempts[j] /\ retries'[j] = retries[j]
      BY <1>2, <1>7, <2>1 DEF ClaimRead, Context, n
    <3> QED BY <1>k, <1>t, <3>1
  <2> QED BY <1>1, <2>1
<1>8. CASE ClaimCommit(w)
  <2>1. attempts'[j] = attempts[j] + 1 /\ retries'[j] = retries[j]
    BY <1>2, <1>8 DEF ClaimCommit
  <2> QED BY <2>1 DEF Rises
<1>9. CASE EnsureRendition(w)
  <2>1. /\ wpc[w] = "rendition" /\ wpc'[w] = "starting" /\ ctx'[w].job = j /\ ctx'[w].poll = n
        /\ attempts'[j] = attempts[j] /\ retries'[j] = retries[j]
    BY <1>2, <1>9 DEF EnsureRendition, n
  <2> QED BY <1>k, <1>t, <2>1
<1>10. ASSUME NEW outcome, Fail(w, outcome), wpc[w] \in {"rendition", "publishing", "accepted"},
              attempts'[j] = attempts[j], retries'[j] = retries[j]
       PROVE  Rises(j)
  <2>1. wpc'[w] = "failing" /\ ctx'[w].job = j /\ ctx'[w].poll = n
    BY <1>2, <1>10 DEF Fail, Context, n
  <2> QED BY <1>k, <1>t, <1>10, <2>1
<1>11. CASE RenditionFails(w)
  BY <1>10, <1>11 DEF RenditionFails
<1>12. CASE SetUploading(w) \/ PlatformAccepts(w) \/ RecordStarted(w)
  <2>1. /\ \/ wpc[w] = "starting" /\ wpc'[w] = "publishing"
           \/ wpc[w] = "publishing" /\ wpc'[w] = "accepted"
           \/ wpc[w] = "accepted" /\ wpc'[w] = "startpoll"
        /\ ctx'[w].job = j /\ ctx'[w].poll = n
        /\ attempts'[j] = attempts[j] /\ retries'[j] = retries[j]
    BY <1>2, <1>12 DEF SetUploading, PlatformAccepts, RecordStarted, n
  <2> QED BY <1>k, <1>t, <2>1
<1>13. CASE \E outcome \in {"retryable", "fatal", "unexpected"} : PlatformRefuses(w, outcome)
  BY <1>10, <1>13 DEF PlatformRefuses
<1>14. CASE \E outcome \in {"retryable", "unexpected"} : AnswerLost(w, outcome)
  BY <1>10, <1>14 DEF AnswerLost
<1>15. CASE EnqueuePoll(w)
  <2>1. 1 \in 1..MaxPolls
    BY ConstantsOK
  <2>2. OnlyPoll(j, 1)'
    BY <1>0, <1>2, <1>15, <2>1, NextPoll DEF EnqueuePoll
  <2>3. /\ wpc[w] = "startpoll" /\ Finish(w) /\ runs'[j] = 0
        /\ attempts'[j] = attempts[j] /\ retries'[j] = retries[j]
    BY <1>2, <1>15 DEF EnqueuePoll
  <2> QED BY <1>5, <1>q, <1>t, <2>1, <2>2, <2>3
<1>16. CASE RecordFailure(w)
  <2>1. /\ wpc[w] = "failing" /\ attempts'[j] = attempts[j] /\ retries'[j] = retries[j]
        /\ UNCHANGED queues /\ state'[j] \in Live \cup Terminal
        /\ Finish(w) \/ (wpc'[w] = "requeue" /\ ctx'[w].job = j /\ ctx'[w].poll = n)
    BY <1>2, <1>16 DEF RecordFailure, Live, Terminal, n
  <2> QED BY <1>d, <1>k, <1>t, <2>1
<1>17. CASE Requeue(w)
  <2>1. /\ wpc[w] = "requeue" /\ attempts'[j] = attempts[j] /\ retries'[j] = retries[j]
        /\ runs'[j] = 1 /\ Finish(w)
    BY <1>2, <1>17 DEF Requeue
  <2>2. NoWorker(j)'
    BY <1>2, <1>4, <2>1 DEF Finish, NoContext, NoWorker
  <2>3. Place(j)' = 8
    BY <2>1, <2>2, PlaceNext
  <2> QED BY <1>6, <1>t, <2>1, <2>3 DEF Rises
<1>18. CASE PollRead(w)
  <2>1. /\ wpc[w] = "poll" /\ attempts'[j] = attempts[j] /\ retries'[j] = retries[j]
        /\ UNCHANGED queues /\ state'[j] \in Live \cup Terminal
        /\ Finish(w) \/ (wpc'[w] = "checking" /\ ctx'[w].job = j /\ ctx'[w].poll = n)
    BY <1>1, <1>2, <1>18 DEF PollRead, Terminal, n
  <2> QED BY <1>5, <1>d, <1>k, <1>t, <2>1
<1>19. CASE \E outcome \in {"published", "failed"} : StatusFinal(w, outcome)
  <2>1. /\ wpc[w] = "checking" /\ wpc'[w] = "settling" /\ ctx'[w].job = j /\ ctx'[w].poll = n
        /\ attempts'[j] = attempts[j] /\ retries'[j] = retries[j]
    BY <1>2, <1>19 DEF StatusFinal, Context, n
  <2> QED BY <1>5, <1>k, <1>t, <2>1
<1>20. CASE StatusPending(w)
  <2>1. /\ wpc[w] = "checking" /\ wpc'[w] = "repoll" /\ ctx'[w].job = j /\ ctx'[w].poll = n
        /\ attempts'[j] = attempts[j] /\ retries'[j] = retries[j]
    BY <1>2, <1>20 DEF StatusPending, n
  <2> QED BY <1>5, <1>k, <1>t, <2>1
<1>21. CASE StatusEscapes(w) \/ WorkerDies(w)
  <2>1. /\ attempts'[j] = attempts[j] /\ retries'[j] = retries[j] /\ state'[j] = state[j]
        /\ UNCHANGED queues /\ Finish(w)
    BY <1>21 DEF StatusEscapes, WorkerDies
  <2> QED BY <1>1, <1>d, <2>1
<1>22. CASE Settle(w)
  <2>1. /\ attempts'[j] = attempts[j] /\ retries'[j] = retries[j] /\ state'[j] \in Terminal
        /\ UNCHANGED queues /\ Finish(w)
    BY <1>2, <1>22 DEF Settle
  <2> QED BY <1>d, <2>1
<1>23. CASE Repoll(w)
  <2>0. /\ wpc[w] = "repoll" /\ attempts'[j] = attempts[j] /\ retries'[j] = retries[j]
        /\ Finish(w) /\ UNCHANGED runs
    BY <1>23 DEF Repoll
  <2>1. CASE n >= MaxPolls
    <3>1. UNCHANGED queues /\ state'[j] \in Terminal
      BY <1>2, <1>23, <2>0, <2>1 DEF Repoll, Terminal, queues, n
    <3> QED BY <1>d, <2>0, <3>1
  <2>2. CASE ~(n >= MaxPolls)
    <3>1. PICK m \in 1..MaxPolls : m = n + 1
      BY <1>2, <2>2, ConstantsOK DEF n
    <3>2. polls' = [polls EXCEPT ![j][m] = @ + 1]
      BY <1>2, <1>23, <2>2, <3>1 DEF Repoll, n
    <3>3. OnlyPoll(j, m)'
      BY <1>0, <1>2, <3>2, NextPoll
    <3>4. TaskPlace(wpc[w], n) < PollPlace(m)
      BY <1>5, <1>t, <2>0, <3>1 DEF p
    <3> QED BY <1>2, <1>q, <2>0, <3>3, <3>4
  <2> QED BY <2>1, <2>2
<1> QED BY <1>7, <1>8, <1>9, <1>11, <1>12, <1>13, <1>14, <1>15, <1>16, <1>17, <1>18, <1>19,
           <1>20, <1>21, <1>22, <1>23 DEF RunStep, PollStep

LEMMA SameStays ==
    ASSUME NEW j \in Jobs, SameFor(j)
    PROVE  Stays(j)
<1>1. Holders(j)' = Holders(j)
  BY DEF SameFor, Holders
<1>2. Holder(j)' = Holder(j)
  BY <1>1 DEF Holder
<1>3. Holders(j) # {} => Holder(j) \in Workers /\ ctx[Holder(j)].job = j
  BY DEF Holder, Holders
<1>4. QueuedPolls(j)' = QueuedPolls(j) /\ QueuedPoll(j)' = QueuedPoll(j)
  BY DEF SameFor, QueuedPolls, QueuedPoll
<1>5. RestPlace(j)' = RestPlace(j)
  BY DEF SameFor, RestPlace, NoDispatch, Lap, PollPlace
<1>6. CASE Holders(j) # {}
  <2>1. wpc'[Holder(j)] = wpc[Holder(j)] /\ ctx'[Holder(j)] = ctx[Holder(j)]
    BY <1>3, <1>6 DEF SameFor
  <2>2. Place(j)' = TaskPlace(wpc[Holder(j)], ctx[Holder(j)].poll)
    BY <1>1, <1>2, <1>6, <2>1 DEF Place, TaskPlace, PollPlace
  <2> QED BY <1>6, <2>2 DEF SameFor, Stays, Place
<1>7. CASE Holders(j) = {}
  <2>1. Place(j)' = Place(j)
    BY <1>1, <1>4, <1>5, <1>7 DEF SameFor, Place, PollPlace
  <2> QED BY <2>1 DEF SameFor, Stays
<1> QED BY <1>6, <1>7

LEMMA TakeIdle ==
    ASSUME NEW w \in Workers, Take(w)
    PROVE  wpc[w] = "idle" /\ UNCHANGED <<rows, req, history>>
<1>1. PICK j \in Jobs : TakeRun(w, j) \/ \E n \in 1..MaxPolls : TakePoll(w, j, n)
  BY DEF Take
<1>2. CASE TakeRun(w, j)
  BY <1>2 DEF TakeRun
<1>3. CASE \E n \in 1..MaxPolls : TakePoll(w, j, n)
  BY <1>3 DEF TakePoll
<1> QED BY <1>1, <1>2, <1>3

\* A worker that takes a task takes its job further, and no other.
LEMMA TakeRises ==
    ASSUME SerialInv, NEW w \in Workers, Take(w), NEW j \in Jobs
    PROVE  IF ctx'[w].job = j THEN Rises(j) ELSE SameFor(j)
<1>0. TypeOK /\ Serial(j)
  BY InvParts DEF SerialInv
<1>1. /\ ctx \in [Workers -> Context] /\ wpc \in [Workers -> WorkerPC]
      /\ ctx[w].job = NoJob /\ NoJob # j
      /\ \A v \in Workers \ {w} : ctx'[v] = ctx[v] /\ wpc'[v] = wpc[v]
      /\ UNCHANGED <<rows, req, history>>
      /\ runs \in [Jobs -> Nat] /\ polls \in [Jobs -> [1..MaxPolls -> Nat]]
  <2>1. TypeOK /\ WorkerOK(w)
    BY <1>0 DEF TypeOK
  <2>2. wpc[w] = "idle" /\ UNCHANGED <<rows, req, history>>
    BY TakeIdle
  <2>3. \A v \in Workers \ {w} : ctx'[v] = ctx[v] /\ wpc'[v] = wpc[v]
    BY <2>1, WorkerSpends DEF WorkerStep
  <2> QED BY <2>1, <2>2, <2>3, ConstantsOK DEF TypeOK, WorkerOK
<1>2. ASSUME NEW k \in Jobs, TakeRun(w, k)
      PROVE  IF ctx'[w].job = j THEN Rises(j) ELSE SameFor(j)
  <2>0. ctx'[w].job = k /\ ctx'[w].poll = 0 /\ wpc'[w] = "claim"
    BY <1>1, <1>2 DEF TakeRun, NoContext, Goto
  <2>1. CASE k = j
    <3>1. OnRunQueue(j)
      BY <1>0, <1>2, <2>1 DEF TakeRun, Serial, Placed, Resting, WithRequest, OnPollQueue, WithWorker
    <3>2. Place(j) = 8
      BY <3>1, PlaceOf DEF OnRunQueue
    <3>3. \A v \in Workers : ctx'[v].job = j <=> v = w
      BY <1>1, <2>0, <2>1, <3>1 DEF OnRunQueue, NoWorker
    <3>4. Place(j)' = 9
      BY <2>0, <3>3, PlaceNext, TaskPlaces
    <3> QED BY <1>1, <2>0, <2>1, <3>2, <3>4 DEF Rises, rows, history
  <2>2. CASE k # j
    <3>1. runs'[j] = runs[j] /\ polls' = polls
      BY <1>1, <1>2, <2>2 DEF TakeRun
    <3> QED BY <1>1, <2>0, <2>2, <3>1 DEF SameFor, rows, history, Dispatching
  <2> QED BY <2>1, <2>2
<1>3. ASSUME NEW k \in Jobs, NEW n \in 1..MaxPolls, TakePoll(w, k, n)
      PROVE  IF ctx'[w].job = j THEN Rises(j) ELSE SameFor(j)
  <2>0. ctx'[w].job = k /\ ctx'[w].poll = n /\ wpc'[w] = "poll"
    BY <1>1, <1>3 DEF TakePoll, NoContext, Goto
  <2>1. CASE k = j
    <3>1. OnPollQueue(j)
      BY <1>0, <1>3, <2>1
         DEF TakePoll, Serial, Placed, Resting, WithRequest, OnRunQueue, WithWorker, NoPolls
    <3>2. OnlyPoll(j, n)
      <4>1. PICK m \in 1..MaxPolls : OnlyPoll(j, m)
        BY <3>1 DEF OnPollQueue, OnePoll, OnlyPoll
      <4>2. m = n
        BY <1>3, <2>1, <4>1 DEF TakePoll, OnlyPoll
      <4> QED BY <4>1, <4>2
    <3>3. Place(j) = PollPlace(n)
      BY <3>1, <3>2, PlaceOf DEF OnPollQueue
    <3>4. \A v \in Workers : ctx'[v].job = j <=> v = w
      BY <1>1, <2>0, <2>1, <3>1 DEF OnPollQueue, NoWorker
    <3>5. Place(j)' = PollPlace(n) + 1
      BY <2>0, <3>4, PlaceNext, TaskPlaces
    <3>6. PollPlace(n) \in Nat
      BY Bounds DEF PollPlace
    <3> QED BY <1>1, <2>0, <2>1, <3>3, <3>5, <3>6 DEF Rises, rows, history
  <2>2. CASE k # j
    <3>1. runs' = runs /\ polls'[j] = polls[j]
      BY <1>1, <1>3, <2>2 DEF TakePoll
    <3> QED BY <1>1, <2>0, <2>2, <3>1 DEF SameFor, rows, history, Dispatching
  <2> QED BY <2>1, <2>2
<1> QED BY <1>2, <1>3 DEF Take

\* A job no worker has, and that waits for none, is at 0 until it is decided on, at 1 with
\* the request that will dispatch it, and past every other place once it is settled.
LEMMA RestPlaces ==
    ASSUME NEW j \in Jobs
    PROVE  /\ Resting(j) /\ state[j] \in {"none", "scheduled"} => Place(j) = 0
           /\ Resting(j) /\ state[j] \notin {"none", "scheduled"} => Place(j) = Lap - 1
           /\ WithRequest(j) => Place(j) = 1
  BY PlaceOf DEF Resting, WithRequest, RestPlace

LEMMA RestPlacesNext ==
    ASSUME NEW j \in Jobs
    PROVE  /\ Resting(j)' /\ state'[j] \in {"none", "scheduled"} => Place(j)' = 0
           /\ Resting(j)' /\ state'[j] \notin {"none", "scheduled"} => Place(j)' = Lap - 1
           /\ WithRequest(j)' => Place(j)' = 1
<1>1. Lap' = Lap
  BY DEF Lap, PollPlace
<1> QED BY <1>1, PlaceNext DEF Resting, WithRequest, RestPlace

\* Where the job of a request is: nowhere else.
LEMMA OfRequest ==
    ASSUME NEW j \in Jobs, Serial(j), NEW h \in Handlers, j \in Dispatching(h)
    PROVE  WithRequest(j) /\ state[j] \in Live
  BY DEF Serial, Placed, Resting, OnRunQueue, OnPollQueue, WithWorker, NoDispatch

LEMMA OfRequestNext ==
    ASSUME NEW j \in Jobs, Serial(j)', NEW h \in Handlers, (j \in Dispatching(h))'
    PROVE  WithRequest(j)'
  BY DEF Serial, Placed, Resting, OnRunQueue, OnPollQueue, WithWorker, NoDispatch

\* A step of a request leaves a job where it is, or takes it further.
LEMMA HandlerRises ==
    ASSUME SerialInv, SerialInv', Undisputed, Undisputed',
           NEW h \in Handlers, HandlerStep(h) \/ RequestDies(h), NEW j \in Jobs
    PROVE  Stays(j) \/ Rises(j)
<1>0. /\ TypeOK /\ req \in [Handlers -> Request]
      /\ req[h].jobs \subseteq Jobs
      /\ runs \in [Jobs -> Nat] /\ retries \in [Jobs -> Nat] /\ attempts \in [Jobs -> Nat]
      /\ Serial(j) /\ Serial(j)'
      /\ req[h].pc \in {"release", "unschedule"} => \A k \in req[h].jobs : state[k] = "scheduled"
      /\ req[h].pc = "retry" => \A k \in req[h].jobs : state[k] = "failed"
  BY InvParts DEF SerialInv, TypeOK, Request, ReadsStand
<1>o. ASSUME NEW g \in Handlers \ {h}
      PROVE  /\ Dispatching(g)' = Dispatching(g)
             /\ Dispatching(g) \subseteq req[g].jobs
             /\ \A k \in req[g].jobs : k \notin req[h].jobs
  BY <1>0, OwnWrites DEF Request, Dispatching, Undisputed
<1> USE DEF rows, queues, history
\* The job is none of the request's business.
<1>s. ASSUME UNCHANGED <<queues, wpc, ctx, posts, blind>>,
             state'[j] = state[j], attempts'[j] = attempts[j], retries'[j] = retries[j],
             (j \in Dispatching(h))' <=> j \in Dispatching(h)
      PROVE  Stays(j)
  <2>1. \A g \in Handlers : (j \in Dispatching(g))' <=> j \in Dispatching(g)
    BY <1>s, <1>o
  <2> QED BY <1>s, <2>1, SameStays DEF SameFor
\* The request decides on jobs that are at rest, and has them to dispatch.
<1>d. ASSUME NEW J \in SUBSET Jobs, SetRequest(h, "dispatch", J), WriteState(J, "pending"),
             req[h].pc \notin {"dispatch", "enqueue"},
             \A k \in J : state[k] \in {"none", "scheduled"},
             UNCHANGED <<queues, wpc, ctx, posts, blind, attempts, retries>>
      PROVE  Stays(j) \/ Rises(j)
  <2>1. Dispatching(h) = {} /\ Dispatching(h)' = J
    BY <1>0, <1>d DEF SetRequest, Dispatching
  <2>2. CASE j \in J
    <3>1. Place(j) = 0
      BY <1>d, <2>2, AtRest, RestPlaces DEF Live
    <3>2. Place(j)' = 1
      BY <1>0, <2>1, <2>2, OfRequestNext, RestPlacesNext
    <3> QED BY <1>d, <3>1, <3>2 DEF Rises
  <2>3. CASE j \notin J
    BY <1>d, <1>s, <2>1, <2>3 DEF WriteState
  <2> QED BY <2>2, <2>3
<1>1. ASSUME NEW J \in SUBSET Jobs, Schedule(h, J) PROVE Stays(j) \/ Rises(j)
  <2>0. UNCHANGED <<attempts, queues, req, wpc, ctx, posts, blind, retries>>
    BY <1>1 DEF Schedule
  <2>1. CASE j \in J
    <3>1. state[j] = "none" /\ state'[j] = "scheduled"
      BY <1>1, <2>1 DEF Schedule, WriteState, Insertable
    <3>2. Resting(j)
      BY <3>1, AtRest DEF Live
    <3>3. Resting(j)'
      BY <2>0, <3>2 DEF Resting, NoPolls, NoWorker, NoDispatch, Dispatching
    <3>4. Place(j)' = Place(j)
      BY <3>1, <3>2, <3>3, RestPlaces, RestPlacesNext
    <3> QED BY <2>0, <3>4 DEF Stays
  <2>2. CASE j \notin J
    BY <1>1, <1>s, <2>0, <2>2 DEF Schedule, WriteState, Dispatching
  <2> QED BY <2>1, <2>2
<1>2. ASSUME NEW J \in SUBSET Jobs, Publish(h, J) PROVE Stays(j) \/ Rises(j)
  BY <1>d, <1>2 DEF Publish, Insertable
<1>3. ASSUME NEW pc \in {"release", "unschedule", "retry"}, NEW J, SetRequest(h, pc, J),
             req[h].pc = "idle", UNCHANGED <<rows, queues, wpc, ctx, history>>
      PROVE  Stays(j)
  <2>1. Dispatching(h) = {} /\ Dispatching(h)' = {}
    BY <1>0, <1>3 DEF SetRequest, Dispatching
  <2> QED BY <1>3, <1>s, <2>1
<1>4. ASSUME \/ \E A \in SUBSET Assets : ReleaseRead(h, A)
             \/ \E a \in Assets : UnscheduleRead(h, a)
             \/ \E k \in Jobs : RetryRead(h, k)
      PROVE  Stays(j)
  BY <1>3, <1>4 DEF ReleaseRead, UnscheduleRead, RetryRead
<1>5. CASE ReleaseCommit(h)
  <2>1. \A k \in req[h].jobs : state[k] = "scheduled" /\ Exists(k)
    BY <1>0, <1>5 DEF ReleaseCommit, Exists, Gone
  <2> QED BY <1>0, <1>d, <1>5, <2>1 DEF ReleaseCommit
<1>6. CASE UnscheduleCommit(h)
  <2>0. /\ \A k \in req[h].jobs : state[k] = "scheduled"
        /\ UNCHANGED <<attempts, queues, wpc, ctx, posts, blind, retries>>
    BY <1>0, <1>6 DEF UnscheduleCommit
  <2>1. Dispatching(h) = {} /\ Dispatching(h)' = {}
    BY <1>0, <1>6 DEF UnscheduleCommit, SetRequest, Dispatching
  <2>2. CASE j \in req[h].jobs
    <3>1. state[j] = "scheduled" /\ state'[j] = "deleted"
      BY <1>6, <2>0, <2>2 DEF UnscheduleCommit, WriteState
    <3>2. Resting(j)
      BY <3>1, AtRest DEF Live
    <3>3. Place(j) = 0
      BY <3>1, <3>2, RestPlaces
    <3>4. Resting(j)'
      BY <1>0, <3>1 DEF Serial, Placed, Live
    <3>5. Place(j)' = Lap - 1
      BY <3>1, <3>4, RestPlacesNext
    <3>6. 0 < Lap - 1
      BY Bounds DEF Lap, PollPlace
    <3> QED BY <2>0, <3>3, <3>5, <3>6 DEF Rises
  <2>3. CASE j \notin req[h].jobs
    <3>1. state'[j] = state[j]
      BY <1>6, <2>3 DEF UnscheduleCommit, WriteState
    <3> QED BY <1>s, <2>0, <2>1, <3>1
  <2> QED BY <2>2, <2>3
<1>7. CASE RetryCommit(h)
  <2>1. /\ \A k \in req[h].jobs : state[k] = "failed" /\ Exists(k)
        /\ WriteState(req[h].jobs, "pending") /\ SetRequest(h, "dispatch", req[h].jobs)
        /\ attempts' = [k \in Jobs |-> IF k \in req[h].jobs THEN 0 ELSE attempts[k]]
        /\ retries' = [k \in Jobs |-> retries[k] + IF k \in req[h].jobs THEN 1 ELSE 0]
        /\ UNCHANGED <<queues, wpc, ctx, posts, blind>>
    BY <1>0, <1>7 DEF RetryCommit, Exists, Gone
  <2>2. CASE j \in req[h].jobs
    BY <2>1, <2>2 DEF Rises
  <2>3. CASE j \notin req[h].jobs
    <3>1. state'[j] = state[j] /\ attempts'[j] = attempts[j] /\ retries'[j] = retries[j]
      BY <1>0, <2>1, <2>3 DEF WriteState
    <3>2. Dispatching(h) = {} /\ Dispatching(h)' = req[h].jobs
      BY <1>0, <1>7, <2>1 DEF RetryCommit, SetRequest, Dispatching
    <3> QED BY <1>s, <2>1, <2>3, <3>1, <3>2
  <2> QED BY <2>2, <2>3
<1>8. CASE DispatchRead(h)
  <2> DEFINE found == {k \in req[h].jobs : Exists(k)}
  <2>1. /\ req[h].pc = "dispatch" /\ UNCHANGED <<rows, queues, wpc, ctx, history>>
        /\ SetRequest(h, IF found = {} THEN "idle" ELSE "enqueue", found)
    BY <1>8 DEF DispatchRead
  <2>2. (j \in Dispatching(h))' <=> j \in Dispatching(h)
    <3>1. j \in Dispatching(h) => Exists(j)
      BY <1>0, OfRequest DEF Exists, Live, Gone
    <3>2. (j \in Dispatching(h))' <=> j \in found
      BY <1>0, <2>1 DEF SetRequest, Dispatching
    <3> QED BY <2>1, <3>1, <3>2 DEF Dispatching
  <2> QED BY <1>s, <2>1, <2>2
<1>9. ASSUME NEW k \in Jobs, Enqueue(h, k) PROVE Stays(j) \/ Rises(j)
  <2> DEFINE left == req[h].jobs \ {k}
  <2>1. /\ req[h].pc = "enqueue" /\ k \in req[h].jobs
        /\ runs' = [runs EXCEPT ![k] = @ + 1]
        /\ SetRequest(h, IF left = {} THEN "idle" ELSE "enqueue", left)
        /\ UNCHANGED <<rows, polls, wpc, ctx, posts, blind, retries>>
    BY <1>9 DEF Enqueue
  <2>2. Dispatching(h) = req[h].jobs /\ Dispatching(h)' = left
    BY <1>0, <2>1 DEF SetRequest, Dispatching
  <2>3. CASE j = k
    <3>1. WithRequest(j) /\ Place(j) = 1
      BY <1>0, <2>1, <2>2, <2>3, OfRequest, RestPlaces
    <3>2. runs'[j] = 1 /\ NoWorker(j)'
      BY <1>0, <2>1, <2>3, <3>1 DEF WithRequest, NoWorker
    <3>3. Place(j)' = 8
      BY <3>2, PlaceNext
    <3> QED BY <2>1, <3>1, <3>3 DEF Rises
  <2>4. CASE j # k
    <3>1. runs'[j] = runs[j]
      BY <1>0, <2>1, <2>4
    <3>2. \A g \in Handlers : (j \in Dispatching(g))' <=> j \in Dispatching(g)
      BY <1>o, <2>2, <2>4
    <3> QED BY <2>1, <3>1, <3>2, SameStays DEF SameFor
  <2> QED BY <2>3, <2>4
<1>10. CASE RequestDies(h)
  <2>1. UNCHANGED <<rows, queues, wpc, ctx, posts, blind, retries>> /\ Dispatching(h)' = {}
    BY <1>0, <1>10 DEF RequestDies, SetRequest, Dispatching
  <2>2. CASE j \in Dispatching(h)
    <3>1. WithRequest(j) /\ state[j] \in Live /\ Place(j) = 1
      BY <1>0, <2>2, OfRequest, RestPlaces
    <3>2. NoDispatch(j)'
      <4>1. j \in req[h].jobs
        BY <2>2 DEF Dispatching
      <4>2. \A g \in Handlers \ {h} : j \notin Dispatching(g)'
        BY <1>o, <4>1
      <4> QED BY <2>1, <4>2 DEF NoDispatch
    <3>3. Resting(j)'
      BY <2>1, <3>1, <3>2 DEF WithRequest, Resting, NoPolls, NoWorker
    <3>4. Place(j)' = Lap - 1
      BY <2>1, <3>1, <3>3, RestPlacesNext DEF Live
    <3>5. 1 < Lap - 1
      BY Bounds DEF Lap, PollPlace
    <3> QED BY <2>1, <3>1, <3>4, <3>5 DEF Rises
  <2>3. CASE j \notin Dispatching(h)
    BY <1>s, <2>1, <2>3
  <2> QED BY <2>2, <2>3
<1> QED BY <1>1, <1>2, <1>4, <1>5, <1>6, <1>7, <1>8, <1>9, <1>10
        DEF HandlerStep, Commit, Background

LEMMA HandlerWorkers ==
    ASSUME NEW h \in Handlers, HandlerStep(h) \/ RequestDies(h)
    PROVE  UNCHANGED wpc
  BY DEF HandlerStep, Schedule, Publish, ReleaseRead, UnscheduleRead, RetryRead, Commit,
         ReleaseCommit, UnscheduleCommit, RetryCommit, Background, DispatchRead, Enqueue,
         RequestDies

\* While no two requests dispute a job a worker never does a thing twice for it: each of
\* its steps raises the rank of the job it holds, no step of anyone lowers a rank, and
\* MAX_ATTEMPTS and MAX_POLLS bound it between two decisions of the operator.
THEOREM LoopsAreBounded ==
    Spec /\ []Undisputed
      => /\ [](\A j \in Jobs : Rank(j) \in Nat /\ Rank(j) < (retries[j] + 1) * Round)
         /\ [][\A j \in Jobs :
                 /\ Rank(j)' >= Rank(j)
                 /\ \A w \in Workers : wpc'[w] # wpc[w] /\ j \in {ctx[w].job, ctx'[w].job}
                                        => Rank(j)' > Rank(j)]_vars
<1>0. SerialInv => DigitsInRange
  BY PlaceType DEF DigitsInRange
<1>1. DigitsInRange => \A j \in Jobs : Rank(j) \in Nat /\ Rank(j) < (retries[j] + 1) * Round
  BY RankBound DEF DigitsInRange
<1>2. ASSUME DigitsInRange, DigitsInRange', SerialInv, SerialInv', Undisputed, Undisputed', Next, NEW j \in Jobs
      PROVE  /\ Rank(j)' >= Rank(j)
             /\ \A w \in Workers : wpc'[w] # wpc[w] /\ j \in {ctx[w].job, ctx'[w].job}
                                    => Rank(j)' > Rank(j)
  <2>0. TypeOK
    BY <1>2, InvParts DEF SerialInv
  <2>1. DigitsOK(j) /\ DigitsOK(j)'
    BY <1>2 DEF DigitsInRange
  <2>2. /\ Rank(j) \in Nat /\ Rank(j)' \in Nat
        /\ Stays(j) => Rank(j)' = Rank(j)
        /\ Rises(j) => Rank(j)' > Rank(j)
    BY <2>1, RankRises
  <2>3. ASSUME NEW h \in Handlers, HandlerStep(h) \/ RequestDies(h)
        PROVE  (Stays(j) \/ Rises(j)) /\ UNCHANGED wpc
    BY <1>2, <2>3, HandlerRises, HandlerWorkers
  <2>4. ASSUME NEW w \in Workers, WorkerStep(w) \/ WorkerDies(w)
        PROVE  /\ \A v \in Workers \ {w} : wpc'[v] = wpc[v]
               /\ IF j \in {ctx[w].job, ctx'[w].job} THEN Rises(j) ELSE Stays(j)
    <3>1. \A v \in Workers \ {w} : wpc'[v] = wpc[v]
      BY <2>0, <2>4, WorkerSpends DEF WorkerStep
    <3>2. CASE Take(w)
      <4>1. ctx[w].job # j
        BY <2>0, <3>2, ConstantsOK, TakeIdle DEF TypeOK, WorkerOK
      <4> QED BY <1>2, <3>1, <3>2, <4>1, TakeRises, SameStays
    <3>3. CASE RunStep(w) \/ PollStep(w) \/ WorkerDies(w)
      <4>1. CASE ctx[w].job = j
        BY <1>2, <3>1, <3>3, <4>1, OwnRises
      <4>2. CASE ctx[w].job # j
        <5>1. SameFor(j)
          BY <2>0, <3>3, <4>2, OthersSame
        <5> QED BY <3>1, <4>2, <5>1, SameStays DEF SameFor
      <4> QED BY <4>1, <4>2
    <3> QED BY <2>4, <3>2, <3>3 DEF WorkerStep
  <2>5. CASE \E h \in Handlers : HandlerStep(h) \/ RequestDies(h)
    BY <2>2, <2>3, <2>5
  <2>6. CASE \E w \in Workers : WorkerStep(w) \/ WorkerDies(w)
    <3>1. PICK w \in Workers : WorkerStep(w) \/ WorkerDies(w)
      BY <2>6
    <3>2. /\ \A v \in Workers \ {w} : wpc'[v] = wpc[v]
          /\ IF j \in {ctx[w].job, ctx'[w].job} THEN Rises(j) ELSE Stays(j)
      BY <2>4, <3>1
    <3> QED BY <2>2, <3>2
  <2> QED BY <1>2, <2>5, <2>6 DEF Next
<1>3. DigitsInRange /\ DigitsInRange' /\ SerialInv /\ SerialInv' /\ Undisputed /\ Undisputed' /\ [Next]_vars
        => [\A j \in Jobs :
              /\ Rank(j)' >= Rank(j)
              /\ \A w \in Workers : wpc'[w] # wpc[w] /\ j \in {ctx[w].job, ctx'[w].job}
                                     => Rank(j)' > Rank(j)]_vars
  BY <1>2
<1> QED BY <1>0, <1>1, <1>3, SerialAlways, PTL DEF Spec
-----------------------------------------------------------------------------
(***************************************************************************)
(* The refinement: what each step is in PublishLedger.                      *)
(***************************************************************************)
\* What PublishLedger sees of a job.
LEMMA StatusFacts ==
    ASSUME NEW j \in Jobs
    PROVE  /\ state[j] = "none" => StatusOf(j) = "none"
           /\ state[j] = "scheduled" => StatusOf(j) = "backlog"
           /\ state[j] = "deleted" => StatusOf(j) = "dropped"
           /\ state[j] \in Live => StatusOf(j) = "active"
           /\ state[j] \in Terminal => StatusOf(j) = state[j]
           /\ Decided(j) = IF state[j] \in {"none", "deleted", "scheduled"} THEN 0 ELSE 1
  BY DEF StatusOf, Decided, Live, Terminal, Gone

LEMMA StatusFactsNext ==
    ASSUME NEW j \in Jobs
    PROVE  /\ state'[j] = "none" => StatusOf(j)' = "none"
           /\ state'[j] = "scheduled" => StatusOf(j)' = "backlog"
           /\ state'[j] = "deleted" => StatusOf(j)' = "dropped"
           /\ state'[j] \in Live => StatusOf(j)' = "active"
           /\ state'[j] \in Terminal => StatusOf(j)' = state'[j]
           /\ Decided(j)' = IF state'[j] \in {"none", "deleted", "scheduled"} THEN 0 ELSE 1
  BY DEF StatusOf, Decided, Live, Terminal, Gone

LEMMA LicenceType ==
    ASSUME TypeOK, NEW j \in Jobs
    PROVE  Licence(j) \in Nat
<1>1. Decided(j) \in Nat /\ retries[j] \in Nat /\ blind[j] \in Nat
  BY DEF TypeOK, Decided
<1> QED BY <1>1 DEF Licence

SameStatus(j) == StatusOf(j)' = StatusOf(j)
SameLicence(j) == Licence(j)' = Licence(j)

LEMMA StatusStays ==
    ASSUME NEW j \in Jobs, state'[j] = state[j]
    PROVE  SameStatus(j) /\ Decided(j)' = Decided(j)
  BY DEF SameStatus, StatusOf, Decided

\* The abstract variables, from one job to all.
LEMMA MoveOf ==
    ASSUME NEW J \in SUBSET Jobs, NEW from, NEW to,
           \A j \in J : StatusOf(j) \in from /\ StatusOf(j)' = to,
           \A j \in Jobs \ J : SameStatus(j)
    PROVE  Ledger!Move(J, from, to)
  BY DEF Ledger!Move, SameStatus

LEMMA LicenseOf ==
    ASSUME NEW J \in SUBSET Jobs,
           \A j \in J : Licence(j)' = Licence(j) + 1,
           \A j \in Jobs \ J : SameLicence(j) /\ Licence(j) \in Nat
    PROVE  Ledger!License(J)
<1>1. \A j \in Jobs : Licence(j)' = Licence(j) + IF j \in J THEN 1 ELSE 0
  BY DEF SameLicence
<1> QED BY <1>1 DEF Ledger!License, Licence

LEMMA StatusSame ==
    ASSUME \A j \in Jobs : SameStatus(j)
    PROVE  [j \in Jobs |-> StatusOf(j)]' = [j \in Jobs |-> StatusOf(j)]
  BY DEF SameStatus

LEMMA LicenceSame ==
    ASSUME \A j \in Jobs : SameLicence(j)
    PROVE  [j \in Jobs |-> Decided(j) + retries[j] + blind[j]]'
             = [j \in Jobs |-> Decided(j) + retries[j] + blind[j]]
  BY DEF SameLicence, Licence

LEMMA Stutter ==
    ASSUME \A j \in Jobs : SameStatus(j) /\ SameLicence(j), UNCHANGED posts
    PROVE  UNCHANGED Ledger!vars
  BY StatusSame, LicenceSame DEF Ledger!vars

\* What a worker does to the job it has in hand, as the ledger sees it.
OwnEffect(j) ==
    \/ /\ state'[j] \in Live /\ posts' = posts /\ blind'[j] = blind[j]
    \/ /\ state'[j] \in Terminal /\ posts' = posts /\ blind'[j] = blind[j]
       /\ state'[j] = "published" => posts[j] > 0
    \/ /\ state'[j] \in Live /\ posts' = [posts EXCEPT ![j] = @ + 1] /\ blind'[j] = blind[j]
       /\ posts[j] < Licence(j)
    \/ /\ state'[j] \in Live /\ posts' = posts /\ blind'[j] = blind[j] + 1

LEMMA OwnEffects ==
    ASSUME TypeOK, NEW w \in Workers, NEW j \in Jobs, state[j] \in Live, WithWorker(w, j),
           RunStep(w) \/ PollStep(w) \/ WorkerDies(w)
    PROVE  OwnEffect(j) /\ retries' = retries
<1>0. /\ ctx[w].job = j /\ Exists(j)
      /\ state \in [Jobs -> RowState] /\ blind \in [Jobs -> Nat]
      /\ wpc[w] = "settling" => ctx[w].outcome \in Terminal
      /\ IF wpc[w] \in BeforePost THEN posts[j] < Licence(j) ELSE posts[j] > 0
  BY ContextType DEF TypeOK, WithWorker, TaskOK, Exists, Live, Gone
<1> USE DEF rows, queues, history, WriteIfExists, WriteState, BeforePost, OwnEffect, Live, Terminal
<1>1. CASE ClaimRead(w)
  BY <1>0, <1>1 DEF ClaimRead
<1>2. CASE ClaimCommit(w)
  BY <1>0, <1>2 DEF ClaimCommit
<1>3. CASE EnsureRendition(w) \/ RenditionFails(w) \/ SetUploading(w)
  BY <1>0, <1>3 DEF EnsureRendition, RenditionFails, SetUploading
<1>4. CASE \E outcome \in {"retryable", "fatal", "unexpected"} : PlatformRefuses(w, outcome)
  BY <1>0, <1>4 DEF PlatformRefuses
<1>5. CASE PlatformAccepts(w)
  BY <1>0, <1>5 DEF PlatformAccepts
<1>6. CASE \E outcome \in {"retryable", "unexpected"} : AnswerLost(w, outcome)
  BY <1>0, <1>6 DEF AnswerLost
<1>7. CASE RecordStarted(w) \/ EnqueuePoll(w)
  BY <1>0, <1>7 DEF RecordStarted, EnqueuePoll
<1>8. CASE RecordFailure(w) \/ Requeue(w)
  BY <1>0, <1>8 DEF RecordFailure, Requeue
<1>9. CASE PollRead(w) \/ StatusPending(w) \/ StatusEscapes(w)
  BY <1>0, <1>9 DEF PollRead, StatusPending, StatusEscapes
<1>10. CASE \E outcome \in {"published", "failed"} : StatusFinal(w, outcome)
  BY <1>0, <1>10 DEF StatusFinal
<1>11. CASE Settle(w)
  BY <1>0, <1>11 DEF Settle
<1>12. CASE Repoll(w)
  BY <1>0, <1>12 DEF Repoll
<1>13. CASE WorkerDies(w)
  BY <1>0, <1>13 DEF WorkerDies
<1> QED BY <1>1, <1>2, <1>3, <1>4, <1>5, <1>6, <1>7, <1>8, <1>9, <1>10, <1>11, <1>12, <1>13
        DEF RunStep, PollStep

LEMMA WorkerImplements ==
    ASSUME SerialInv, TypeOK', NEW w \in Workers, WorkerStep(w) \/ WorkerDies(w)
    PROVE  Ledger!Next \/ UNCHANGED Ledger!vars
<1>0. /\ TypeOK /\ \A j \in Jobs : Serial(j)
      /\ \A j \in Jobs : Licence(j) \in Nat
  BY InvParts, LicenceType DEF SerialInv
<1>1. CASE Take(w)
  <2>1. UNCHANGED <<rows, history>>
    BY <1>1 DEF Take, TakeRun, TakePoll
  <2> QED BY <2>1, Stutter DEF rows, history, SameStatus, SameLicence, StatusOf, Licence, Decided
<1>2. CASE RunStep(w) \/ PollStep(w) \/ WorkerDies(w)
  <2>1. wpc[w] # "idle"
    BY <1>2 DEF RunStep, ClaimRead, ClaimCommit, EnsureRendition, RenditionFails, SetUploading,
         PlatformRefuses, PlatformAccepts, AnswerLost, RecordStarted, EnqueuePoll, RecordFailure,
         Requeue, PollStep, PollRead, StatusFinal, StatusPending, StatusEscapes, Settle, Repoll,
         WorkerDies
  <2>2. PICK j \in Jobs : ctx[w].job = j
    BY <1>0, <2>1, ContextType
  <2>3. state[j] \in Live /\ WithWorker(w, j)
    BY <1>0, <2>2
       DEF Serial, Placed, Resting, WithRequest, OnRunQueue, OnPollQueue, NoWorker, WithWorker
  <2>4. OwnEffect(j) /\ retries' = retries
    BY <1>0, <1>2, <2>2, <2>3, OwnEffects
  <2>5. \A k \in Jobs \ {j} : SameStatus(k) /\ SameLicence(k)
    <3>1. \A k \in Jobs \ {j} : SameFor(k)
      BY <1>0, <1>2, <2>2, OthersSame
    <3> QED BY <3>1 DEF SameFor, SameStatus, SameLicence, StatusOf, Licence, Decided
  <2>6. \A k \in Jobs : retries[k] \in Nat /\ blind[k] \in Nat
    BY <1>0 DEF TypeOK
  <2>7. /\ StatusOf(j) = "active" /\ Decided(j) = 1
        /\ state'[j] \in Live => StatusOf(j)' = "active"
        /\ state'[j] \in Terminal => StatusOf(j)' = state'[j]
        /\ state'[j] \in Live \cup Terminal => Decided(j)' = 1
    BY <2>2, <2>3, StatusFacts, StatusFactsNext DEF Live, Terminal
  <2>8. CASE state'[j] \in Live /\ posts' = posts /\ blind'[j] = blind[j]
    <3>1. \A k \in Jobs : SameStatus(k) /\ SameLicence(k)
      BY <2>4, <2>5, <2>7, <2>8 DEF SameStatus, SameLicence, Licence
    <3> QED BY <2>8, <3>1, Stutter
  <2>9. CASE /\ state'[j] \in Terminal /\ posts' = posts /\ blind'[j] = blind[j]
             /\ state'[j] = "published" => posts[j] > 0
    <3>1. \A k \in Jobs : SameLicence(k)
      BY <2>4, <2>5, <2>7, <2>9 DEF SameLicence, Licence
    <3>2. Ledger!Move({j}, {"active"}, state'[j])
      <4>1. {j} \in SUBSET Jobs
        BY <2>2
      <4> QED BY <2>5, <2>7, <2>9, <4>1, MoveOf
    <3>3. Ledger!Settle(j)
      BY <2>9, <3>1, <3>2, LicenceSame DEF Ledger!Settle, Terminal
    <3> QED BY <2>2, <3>3 DEF Ledger!Next
  <2>10. CASE /\ state'[j] \in Live /\ posts' = [posts EXCEPT ![j] = @ + 1]
              /\ blind'[j] = blind[j] /\ posts[j] < Licence(j)
    <3>1. \A k \in Jobs : SameStatus(k) /\ SameLicence(k)
      BY <2>4, <2>5, <2>7, <2>10 DEF SameStatus, SameLicence, Licence
    <3>2. Ledger!Post(j)
      BY <2>2, <2>7, <2>10, <3>1, StatusSame, LicenceSame DEF Ledger!Post, Licence
    <3> QED BY <2>2, <3>2 DEF Ledger!Next
  <2>11. CASE state'[j] \in Live /\ posts' = posts /\ blind'[j] = blind[j] + 1
    <3>1. \A k \in Jobs : SameStatus(k)
      BY <2>5, <2>7, <2>11 DEF SameStatus
    <3>2. Licence(j)' = Licence(j) + 1
      BY <2>2, <2>4, <2>6, <2>7, <2>11 DEF Licence
    <3>3. Ledger!License({j})
      <4>1. {j} \in SUBSET Jobs
        BY <2>2
      <4> QED BY <1>0, <2>5, <3>2, <4>1, LicenseOf
    <3>4. Ledger!LoseAnswer(j)
      BY <2>2, <2>7, <2>11, <3>1, <3>3, StatusSame DEF Ledger!LoseAnswer
    <3> QED BY <2>2, <3>4 DEF Ledger!Next
  <2> QED BY <2>4, <2>8, <2>9, <2>10, <2>11 DEF OwnEffect
<1> QED BY <1>1, <1>2 DEF WorkerStep

LEMMA HandlerImplements ==
    ASSUME SerialInv, NEW h \in Handlers, HandlerStep(h) \/ RequestDies(h)
    PROVE  Ledger!Next \/ UNCHANGED Ledger!vars
<1>0. /\ TypeOK /\ req[h].jobs \in SUBSET Jobs
      /\ retries \in [Jobs -> Nat] /\ blind \in [Jobs -> Nat]
      /\ req[h].pc \in {"release", "unschedule"} => \A j \in req[h].jobs : state[j] = "scheduled"
      /\ req[h].pc = "retry" => \A j \in req[h].jobs : state[j] = "failed"
      /\ \A j \in Jobs : Licence(j) \in Nat
  BY InvParts, LicenceType DEF SerialInv, TypeOK, Request, ReadsStand
<1> USE DEF rows, queues, history
<1>s. ASSUME UNCHANGED <<state, posts, blind, retries>> PROVE UNCHANGED Ledger!vars
  BY <1>s, Stutter DEF SameStatus, SameLicence, StatusOf, Licence, Decided
<1>t. ASSUME NEW j \in Jobs, state'[j] = state[j], retries'[j] = retries[j], UNCHANGED blind
      PROVE  SameStatus(j) /\ SameLicence(j)
  BY <1>t, StatusStays DEF SameLicence, Licence
\* A decision to publish.
<1>d. ASSUME NEW J \in SUBSET Jobs, WriteState(J, "pending"), UNCHANGED <<posts, blind>>,
             \/ /\ \A j \in J : state[j] \in {"none", "scheduled"}
                /\ UNCHANGED retries
             \/ /\ \A j \in J : state[j] = "failed"
                /\ retries' = [j \in Jobs |-> retries[j] + IF j \in J THEN 1 ELSE 0]
      PROVE  Ledger!Next
  <2>1. ASSUME NEW j \in J
        PROVE  /\ StatusOf(j)' = "active" /\ Licence(j)' = Licence(j) + 1
               /\ state[j] \in {"none", "scheduled"} => StatusOf(j) \in {"none", "backlog"}
               /\ state[j] = "failed" => StatusOf(j) \in {"failed"}
    <3>1. j \in Jobs /\ state'[j] = "pending"
      BY <1>d DEF WriteState
    <3>2. /\ StatusOf(j)' = "active" /\ Decided(j)' = 1
          /\ state[j] \in {"none", "scheduled"} => StatusOf(j) \in {"none", "backlog"} /\ Decided(j) = 0
          /\ state[j] = "failed" => StatusOf(j) \in {"failed"} /\ Decided(j) = 1
      BY <3>1, StatusFacts, StatusFactsNext DEF Live, Terminal
    <3>3. retries[j] \in Nat /\ blind[j] \in Nat
      BY <1>0, <3>1
    <3>4. Licence(j)' = Licence(j) + 1
      BY <1>d, <3>1, <3>2, <3>3 DEF Licence
    <3> QED BY <3>2, <3>4
  <2>2. \A j \in Jobs \ J : SameStatus(j) /\ SameLicence(j)
    <3>1. \A j \in Jobs \ J : state'[j] = state[j] /\ retries'[j] = retries[j]
      BY <1>0, <1>d DEF WriteState
    <3> QED BY <1>d, <1>t, <3>1
  <2>3. Ledger!License(J)
    BY <1>0, <2>1, <2>2, LicenseOf
  <2>4. CASE \A j \in J : state[j] \in {"none", "scheduled"}
    <3>1. Ledger!Move(J, {"none", "backlog"}, "active")
      BY <2>1, <2>2, <2>4, MoveOf
    <3> QED BY <1>d, <2>3, <3>1 DEF Ledger!Next, Ledger!Decide
  <2>5. CASE \A j \in J : state[j] = "failed"
    <3>1. Ledger!Move(J, {"failed"}, "active")
      BY <2>1, <2>2, <2>5, MoveOf
    <3> QED BY <1>d, <2>3, <3>1 DEF Ledger!Next, Ledger!Decide
  <2> QED BY <1>d, <2>4, <2>5
\* Into the backlog, or out of it for good.
<1>b. ASSUME NEW J \in SUBSET Jobs, NEW from, NEW to, UNCHANGED <<posts, blind, retries>>,
             WriteState(J, to), \A j \in J : state[j] = from,
             <<from, to>> \in {<<"none", "scheduled">>, <<"scheduled", "deleted">>}
      PROVE  Ledger!Next
  <2>1. ASSUME NEW j \in J
        PROVE  /\ SameLicence(j)
               /\ from = "none" => StatusOf(j) \in {"none"} /\ StatusOf(j)' = "backlog"
               /\ from = "scheduled" => StatusOf(j) \in {"backlog"} /\ StatusOf(j)' = "dropped"
    <3>1. j \in Jobs /\ state'[j] = to /\ state[j] = from
      BY <1>b DEF WriteState
    <3>2. /\ Decided(j)' = 0 /\ Decided(j) = 0
          /\ from = "none" => StatusOf(j) \in {"none"} /\ StatusOf(j)' = "backlog"
          /\ from = "scheduled" => StatusOf(j) \in {"backlog"} /\ StatusOf(j)' = "dropped"
      BY <1>b, <3>1, StatusFacts, StatusFactsNext
    <3> QED BY <1>b, <3>2 DEF SameLicence, Licence
  <2>2. \A j \in Jobs \ J : SameStatus(j) /\ SameLicence(j)
    <3>1. \A j \in Jobs \ J : state'[j] = state[j] /\ retries'[j] = retries[j]
      BY <1>b DEF WriteState
    <3> QED BY <1>b, <1>t, <3>1
  <2>3. \A j \in Jobs : SameLicence(j)
    BY <2>1, <2>2
  <2>4. CASE from = "none"
    <3>1. Ledger!Move(J, {"none"}, "backlog")
      BY <2>1, <2>2, <2>4, MoveOf
    <3> QED BY <1>b, <2>3, <3>1, LicenceSame DEF Ledger!Next, Ledger!Shelve
  <2>5. CASE from = "scheduled"
    <3>1. Ledger!Move(J, {"backlog"}, "dropped")
      BY <2>1, <2>2, <2>5, MoveOf
    <3> QED BY <1>b, <2>3, <3>1, LicenceSame DEF Ledger!Next, Ledger!Drop
  <2> QED BY <1>b, <2>4, <2>5
<1>1. ASSUME NEW J \in SUBSET Jobs, Schedule(h, J) PROVE Ledger!Next
  BY <1>1, <1>b DEF Schedule, Insertable
<1>2. ASSUME NEW J \in SUBSET Jobs, Publish(h, J) PROVE Ledger!Next
  BY <1>2, <1>d DEF Publish, Insertable
<1>3. CASE \/ \E A \in SUBSET Assets : ReleaseRead(h, A)
           \/ \E a \in Assets : UnscheduleRead(h, a)
           \/ \E k \in Jobs : RetryRead(h, k)
  BY <1>3, <1>s DEF ReleaseRead, UnscheduleRead, RetryRead
<1>4. CASE Background(h) \/ RequestDies(h)
  BY <1>4, <1>s DEF Background, DispatchRead, Enqueue, RequestDies
<1>5. CASE ReleaseCommit(h)
  <2>1. \A j \in req[h].jobs : state[j] = "scheduled" /\ Exists(j)
    BY <1>0, <1>5 DEF ReleaseCommit, Exists, Gone
  <2> QED BY <1>0, <1>5, <1>d, <2>1 DEF ReleaseCommit
<1>6. CASE UnscheduleCommit(h)
  BY <1>0, <1>6, <1>b DEF UnscheduleCommit
<1>7. CASE RetryCommit(h)
  <2>1. \A j \in req[h].jobs : state[j] = "failed" /\ Exists(j)
    BY <1>0, <1>7 DEF RetryCommit, Exists, Gone
  <2> QED BY <1>0, <1>7, <1>d, <2>1 DEF RetryCommit
<1> QED BY <1>1, <1>2, <1>3, <1>4, <1>5, <1>6, <1>7 DEF HandlerStep, Commit

\* While no two requests dispute a job the pipeline implements PublishLedger: each of its
\* steps posts, settles or decides as the ledger allows, or changes nothing it sees.
THEOREM PipelineImplementsLedger == Spec /\ []Undisputed => ImplementsLedger
<1>1. Init => Ledger!Init
  <2> SUFFICES ASSUME Init PROVE Ledger!Init
    OBVIOUS
  <2>1. ASSUME NEW j \in Jobs
        PROVE  StatusOf(j) = "none" /\ Decided(j) + retries[j] + blind[j] = 0
    <3>1. state[j] = "none" /\ retries[j] = 0 /\ blind[j] = 0
      BY DEF Init
    <3>2. StatusOf(j) = "none" /\ Decided(j) = 0
      BY <3>1, StatusFacts
    <3> QED BY <3>1, <3>2
  <2>2. posts = [j \in Jobs |-> 0]
    BY DEF Init
  <2> QED BY <2>1, <2>2 DEF Ledger!Init
<1>2. Undisputed /\ Undisputed' /\ SerialInv /\ [Next]_vars => [Ledger!Next]_(Ledger!vars)
  <2> SUFFICES ASSUME Undisputed, Undisputed', SerialInv, [Next]_vars PROVE Ledger!Next \/ UNCHANGED Ledger!vars
    OBVIOUS
  <2>1. TypeOK'
    BY SerialNext, InvParts DEF SerialInv
  <2>2. ASSUME NEW h \in Handlers, HandlerStep(h) \/ RequestDies(h)
        PROVE  Ledger!Next \/ UNCHANGED Ledger!vars
    BY <2>2, HandlerImplements
  <2>3. ASSUME NEW w \in Workers, WorkerStep(w) \/ WorkerDies(w)
        PROVE  Ledger!Next \/ UNCHANGED Ledger!vars
    BY <2>1, <2>3, WorkerImplements
  <2>4. CASE UNCHANGED vars
    BY <2>4, Stutter
       DEF vars, rows, history, SameStatus, SameLicence, StatusOf, Licence, Decided
  <2> QED BY <2>2, <2>3, <2>4 DEF Next
<1> QED BY <1>1, <1>2, SerialAlways, PTL DEF Spec, ImplementsLedger, Ledger!Spec
=============================================================================
