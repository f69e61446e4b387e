# Verification of the Socials Auto Upload service

This directory holds TLA+ models of the service in `sau/`: how a video goes from the
operator's request, through the queues and the workers, to a post on TikTok or
Facebook, and what must stay true when requests race, processes die and answers are
lost. TLC checks the models on small instances; TLAPS proves their safety properties for
every value of the constants.

## 1. The system

```
 console / n8n ──HTTP──> FastAPI (sau/api) ──SQL──> Postgres <──SQL── workers (sau/queue/tasks)
                             │ after the commit                        │         │
                             └──dispatch──> Redis queues ──RQ──────────┘         ├─> object storage (R2)
                                            facebook, tiktok                     └─> TikTok, Graph API
```

| Component | State it keeps | Operations | What is hard | What makes it correct |
|---|---|---|---|---|
| publish pipeline (`api/main.py`, `queue/`) | `publish_jobs` rows, RQ tasks | publish, release, unschedule, retry, dispatch, `run_publish_job`, `poll_publish_job` | rows are read without a lock; the task is queued after the commit, outside it; workers and the API die; a post whose answer is lost | no job without a carrier; the backlog is inert; at most one post per decision; every job settles |
| prepared renditions (`renditions.py`) | `renditions` row, claim token, lease, objects | `prepare_rendition`, its claim, READY and FAILED updates, discarding | leases that run out under a live process; a crash between upload and commit | a READY row has its object and never changes; all callers get one key |
| release schedule (`schedule.py`, `api/scheduling.py`) | `schedule_slots`, SCHEDULED jobs | tick, replace_slots, rearm_slots, upcoming, order of the backlog | a tick reads slots without a lock, then the backlog once per slot; time zones, midnight | one release per slot and day; parts leave in order; an idle slot is not spent |
| platform adapters (`platforms/`, `http.py`) | a session at the platform, `uploaded_bytes` | `publish`, `check_status`, `with_retries`, `plan_chunks` | a request repeated after a lost answer; resuming; chunk arithmetic | no post lacks bytes; one post per session; an id to poll names a post; an end |
| tokens (`tokens.py`, `scripts/seed_tokens.py`) | `oauth_tokens` rows | `get_access_token`, `seed_from_settings` | the row lock is held over a call that rotates the refresh token; the answer may be lost; seeding takes no lock | a refresh token is sent once; a token outlives the request it is for; every call ends |
| series desk (`api/series.py`, `series.py`) | series, parts | register, renumber, delete, generate hooks, publish | a model call of seconds between read and write; numbers and copy that change after queueing | parts keep distinct numbers; nothing typed is lost; captions say what is there |
| captions (`captions/`) | none | render, fit, tidy, parse_hooks, complete | limits, the final part, fall-through of providers | within the limit; no promise of a part that never comes |
| transcoding (`transcode.py`) | none | probe, validate, transcode | external processes | validation of both ends |
| operator console (`console/`) | runs in the browser, what it last read | batches of episodes, single uploads, polling hooks | lost and late requests; answers sent before their commit; overlapping runs; a closed tab | an asset keeps its bytes; holes in a series are failures; a video goes out twice only over a lost answer |
| n8n workflow (`n8n/`) | none | one tick a minute | overlapping and repeated ticks | see the schedule |
| configuration, logging, scripts | none | read at start | – | – |

The components meet in the rows: a release by the tick (schedule) and one by the
operator (pipeline) are the same update; `run_publish_job` calls an adapter, whose
progress comes back through `_record_progress`; the order of the backlog reads the part
numbers that the series desk keeps; the adapters ask the token store before each request;
the console's uploads become the assets and parts that publishing starts from.

## 2. Modules

| Module | Models | Code |
|---|---|---|
| `PublishLedger` | what publishing promises about one job: the arrows between its states, and a licence for every post | abstract |
| `PublishPipeline` | jobs, requests, queues, workers; implements `PublishLedger` | `api/main.py`, `queue/tasks.py`, `queue/__init__.py`, `scripts/worker.py` |
| `RenditionCell` | what preparing a rendition promises: a cell that is written once | abstract |
| `RenditionLease` | one rendition and the processes that prepare it; implements `RenditionCell` | `renditions.py`, `storage.py` |
| `BacklogOrder` | the order of the backlog as operators on sets | `schedule.py` `order_groups` |
| `ReleaseSchedule` | slots, ticks, releases and edits over that order | `schedule.py`, `api/scheduling.py` |
| `ChunkPlan` | the arithmetic of TikTok's chunks | `platforms/tiktok/publisher.py` |
| `PublishAttempts` | what a call of `publish` promises the task that makes it | abstract |
| `MediaTransfer` | `publish` of each adapter, request by request, over the task's attempts; implements `PublishAttempts` | `platforms/`, `http.py`, `queue/tasks.py` |
| `SeriesDesk` | the requests on one series, and the captions of the jobs they queue | `api/series.py`, `captions/template.py`, `series.py`, `models.py` |
| `TokenStore` | the token row of one platform, its callers, the seeding, and the platform's rotation of pairs | `tokens.py`, `platforms/tiktok/client.py`, `scripts/seed_tokens.py`, `scripts/init_db.py` |
| `ConsoleUploads` | the browser's uploading runs against the API and the bucket | `console/src/hooks/useSeries.ts`, `usePublishFlow.ts`, `console/src/api/` |
| `MC*` | the instances TLC checks | – |
| `*_proofs` | theorems | – |

How state and actions correspond to the code:

- **PublishPipeline.** `state`, `attempts`, `external` are columns of `publish_jobs`;
  `runs` and `polls` count the queued RQ tasks of a job, since RQ delivers in any order
  over several workers. The grain is the transaction: a handler or task that decides
  from what it read is two steps, read and commit, because rows are read under READ
  COMMITTED without a lock, and SQLAlchemy writes by primary key only the columns that
  changed. `dispatch` is a step after the commit, so that the API can die in between.
  `Carriers` counts what may still act on a job: queued tasks, workers and requests.
  The platform's acceptance of a post and the recording of its answer are two steps.
  `posts`, `blind`, `dispatches`, `retries` and `lost` are history variables.
- **RenditionLease.** `row` is the `renditions` row, `objects` the bucket, `token`,
  `clock` and `pc` a process's locals. `_now()` is read before the row lock is obtained,
  and again before the UPDATE. Time is an explicit clock. A commit that took effect but
  raised is `RaiseStored`.
- **ReleaseSchedule.** `slots` and `edition` are `schedule_slots`; `req` is what each
  request has read and decided. A second query of the backlog by the same tick flushes,
  and so locks, what it has decided, as the session's autoflush does. A zone is a fixed
  offset from the service's clock.
- **MediaTransfer.** `attempt` and `uploaded` are columns of the job, `resume` is
  `PublishRequest.resume_offset`, `tries` is the loop variable of `with_retries`, `pc`
  the request to make next. A request is refused, answered, or not answered; a platform
  that does not answer may have acted. `held` and `live` are the platform's session.
  `PublishAttempts` is the contract between this module and `PublishPipeline`: an attempt
  posts at most once and hands over an id only of what it posted, which are the pipeline's
  `PlatformAccepts` and `RecordStarted`; it fails or is tried again with or without having
  posted, which are `AnswerLost` and `PlatformRefuses`. Two routes break the first half and the
  contract says so (`repeats`): what is handed over with one request is posted again when
  `with_retries` repeats it after a lost answer.
- **SeriesDesk.** `exists`, `title`, `declared` are columns of `series`, `parts` the
  `series_parts` rows by the object they were registered with, `jobs` the text of their
  `publish_jobs`. Every request is a `Begin` that reads and decides, and a commit that
  writes the columns the request changed, or rolls back on a unique constraint, a foreign
  key, or an UPDATE that finds no row. The model call of `generate_series_hooks` and the
  storage call of `register_part` lie between the two.
- **TokenStore.** `row` is the `oauth_tokens` row and `holder` its row lock, kept from the
  SELECT FOR UPDATE to the commit or rollback, over the request to the platform. A pair of
  tokens is its number in the order of issue. The platform acts on a request whether or not
  its answer arrives, and on a given-up request later (`late`). Seeding reads without the
  lock and writes the columns that differ from what it read (`Column`). Facebook's token has
  no refresh, which is the case `row.refresh = 0`.
- **ConsoleUploads.** `step`, `queue` and `key` are the suspended asynchronous functions of
  the browser. The API answers, and `get_session` commits afterwards (`open`): `Commit` and
  `CommitFails` come later than the browser's next step, if they come. A request given up,
  cancelled or left behind by a closed tab stays in `late` and may still take effect.

## 3. Runs

| Run | Instance | Shows |
|---|---|---|
| `publish_races` | 1 job, 2 requests at once, 2 workers on every queue, 2 attempts, 2 polls, 1 retry, all faults | `NoOrphan`, `BacklogInert`, `PollHasExternalId`, `PostPerDispatch` under every race |
| `publish_serial` | 2 jobs of 2 assets, 2 requests at once about different jobs (`CalmSpec`), 2 workers, all faults, fair | `OneCarrier`, `SettledIsQuiet`, `AttemptBudget`, `Settles`, and that the pipeline implements `PublishLedger` |
| `publish_gives_up` | 1 job, transport faults | refutes docs/N8N_INTEGRATION.md:70: a transport error ends the polling for good |
| `publish_unschedule_race` | 1 job, 2 requests | refutes the docstring of `unschedule_asset`: a released row can be deleted |
| `rendition_lease` | 3 processes, 3 claims, lease of 2 units, every fault | the lease excludes, a READY row has its object (but for `botched`), READY is final and only its holder ends a running claim (`RowIsFenced`), no litter, and that the whole is a write-once cell (`ImplementsCell`) |
| `release_schedule` | 2 parts and 1 other asset, 2 slots, day of 3 units, grace 1, 2 plans, 1 edit, 2 requests of which one at a time is a tick (`ApartSpec`) | one release per slot and day, parts shown together and released in order, no slot wasted, saved slots stay armed |
| `schedule_ticks_overlap` | the same, and ticks may overlap | refutes "safe to retry on timeout" (docs/HEROKU_PLAN.md:222) |
| `media_transfer` | 6 sizes, 6 routes, chunks of 2 to 4 units, 2 chunks at most, 2 tries per request, 3 attempts | posts are whole (but for `stale`), an id to poll is that of a post, an end (feed video: if the platform's windows move on), and that all the requests come to a call of `PublishAttempts` |
| `series_desk` | 2 objects, numbers 1 to 3, 1 platform, 4 requests, 2 at a time | distinct numbers, a caption with a next part has a later part, queued jobs stay, a request writes only the columns it was asked to change (`EditsAreAsked`) |
| `series_hook_overwritten` | the same | refutes "leaves hooks that already have text alone" (`schemas.py:220`) when the text is typed during the model call |
| `token_store` | 2 callers, lifetime and margin of 2 units, 3 pairs, 3 calls, 3 time units, fair | a refresh token is sent once (`SpentOnce`, but for `excused`), a token outlives its request as long as both fit into the margin, every call ends |
| `console_uploads` | 2 batches, 2 single uploads, 2 episodes, 1 clip, 3 keys | an asset's object never changes (`SourceStays`), `HolesAreFailures`, `TwiceOnlyUnanswered` |

Why the bounds are enough. Two requests are what a race needs: each handler takes one
decision from one snapshot, and a third can only repeat what one of the two did. Two
workers are the most that one job's duplicated tasks can occupy at once, as each further
dispatch needs a further request. Two attempts distinguish a first, a last and a counted
one; two polls a repeated and a last one. Three processes let one hold a lease, one take
it over and one arrive late. A day of three units with a grace of one has a firing time
whose grace stays within the day and one whose grace crosses midnight. The chunk sizes
reach each branch of `plan_chunks`: below the minimum, exact, with a remainder, widened,
and refused. Two parts numbered up to three have gaps at either end, and four requests
register a part or two and let two more race; the theorems about `SeriesDesk` cover any
number of each. For the token row, two callers meet at its lock and a third pair follows a
refresh of a refresh; a margin of the whole lifetime is the largest that the module admits,
and makes a token due one unit after it was stored. Two batches of two episodes overlap in every order, and two
runs with one clip are a submission and its repetition. Counters are bounded by constants that the modules name as bounds
(`MaxRetries`, `MaxTime`, `MaxEdits`, `MaxRequests`, `MaxPairs`, `MaxCalls`, `MaxKeys`); `CHECK_DEADLOCK FALSE` is set where the system may
really stop: all jobs settled, the clock at its bound, or the task ended.

Fairness. `FairSpec` and `CalmSpec` of `PublishPipeline` have weak fairness for each worker's steps (RQ
workers loop over their queues), for dispatching requests and for delayed tasks that
come due, and none for crashes, lost answers, or the operator. `Spec` of `MediaTransfer`
has weak fairness of the whole, since the client's timeouts (`DEFAULT_TIMEOUT`) end every
request. `FairSpec` of `TokenStore` has strong fairness of `Decides`, since Postgres
grants a row lock to its waiters in turn while others keep taking it, and weak fairness of
the exchange, which the client's timeouts end, and of the commit, which the connection
ends; none for the operator, the seeding or the clock. The other runs need no fairness.

Assumed of the environment, and not enforced by the code:

- *A feed video's windows move on.* `_chunked_publish` (`facebook/publisher.py:166-178`) takes
  both ends of the next range from the platform's answer and has no bound of its own. The
  model lets the platform choose the length of each window, up to `Window`, but not repeat
  one, go back or end early. For this route `TransferEnds`, `RequestsAreBounded` and
  `PostsAreWhole` hold only of such a platform.
- *A refresh and a request fit into the margin* (`Refreshing + Using <= Margin`). The margin is
  600 s (`tokens.py:25`). `DEFAULT_TIMEOUT` (`http.py:20`) bounds each operation, 10 s to connect,
  300 s to write, 300 s to read and 10 s for the pool, and not the request: the sum is above
  the margin, and a slow sender or reader may take longer still. The small requests that
  carry a token take seconds in practice. `TokenOutlivesRequest` and `TokensOutliveRequests`
  rest on this; `SpentOnce` and `CallsEnd` are about the order of steps, not how
  long they take.

What the properties except. Where the code itself lets something go wrong, a history variable
records it and the property excepts what is recorded, so that the rest can be stated:

| Excepted | By | What is still said |
|---|---|---|
| a job whose task or pending dispatch a crash, a transport error or Redis dropped (`lost`) | `NoOrphan`, `Settles` | no job is stranded without such a fault |
| a second post of a job that was dispatched twice (`dispatches`), or whose answer was lost (`blind`) | `PostPerDispatch` | one post at most for each of them |
| requests that dispute a job | `OneCarrier`, `SettledIsQuiet`, `AttemptBudget`, `Settles`, `ImplementsLedger`: run under `CalmSpec` | what tasks, requeues, retries and crashes do, with requests about other jobs beside them |
| the object of a publisher that raised after its commit (`botched`) | `ReadyHasObject`, `ImplementsCell` | nobody else takes a published object away |
| an attempt that began at the offset of an earlier session (`stale`) | `PostIsWhole` | every other post has all bytes |
| a repeated request that posts with one request (`repeats`) | `ImplementsCall` | a session posts once |
| a refresh token whose exchange failed, was not stored, or was seeded again (`excused`) | `SpentOnce` | no other is sent twice; that each call raises until the operator seeds anew counts as an end in `CallsEnd` |
| a title typed while a registration saw it blank, a hook typed while a draft is written | `EditsAreAsked` | no other column is written; the hook is refuted by its own run |
| a video whose POST /publish went unanswered (`unanswered`) | `TwiceOnlyUnanswered` | no other goes out twice |
| a part called the last while a number is missing before it | `TeaserHonest` | a caption with a next part has a later one |

`external` is stored or not, so that neither an id of another attempt nor an outcome that
overwrites another one's is told apart.

## 4. Findings

Each is a run that is expected to be violated, with the sentence that it refutes quoted
in `PROJECT.json`: polling ends silently on a transport error; an unschedule may delete a
job that was just released; overlapping ticks release twice for a slot; hooks drafted
without `overwrite` replace one that was typed meanwhile.

The models have the steps of further disagreements, which have no run of their own:

- The preview (`ordered_backlog`, "the exact order it will publish in") is not the order of
  release once a series and other assets are mixed: a series stands where its first-queued
  part does, so the release of that part moves the rest behind what was shown after it. With
  part 1 queued first, then another video, then part 2, the preview says 1, 2, video, and
  the slots release 1, video, 2. `OrderIsKept` proves that this is the only way in which the
  order shown changes; `SeriesTogether` and `SeriesInOrder` do not see it.
- A slot's grace ends at local midnight (`is_due`), although docs/SERIES.md:196 has a slot
  fire "up to 60 minutes late".
- `register_part` may name a series after a file over a title typed during its storage
  call, although its comment says that a typed title "is never overwritten by a filename".
- One bad file does not stop a batch (`useSeries.ts`), so that what is uploaded is not
  always the "contiguous run" that the hook's comments and console/README.md:64 speak of.
  `HolesAreFailures` states what is true: a hole is a file that failed.
- The Reel adapter's `_server_offset` falls back to the offset of an earlier session;
  `PostIsWhole` exempts the attempts that did so (`stale`), and nothing else.

## 5. Proofs

The theorems hold for every value of the constants that satisfies the modules' named
assumptions (`ConstantsOK`, `OrderConstantsOK`, `ChunkConstantsOK`, `TransferConstantsOK`,
`DeskConstantsOK`, `TokenConstantsOK`, `ConsoleConstantsOK`): any number of jobs, workers,
requests, processes, assets, slots, parts, pairs, attempts, uploads and keys.

- `PublishPipeline_proofs`: `TypeCorrect`. The type invariant is inductive as it stands
  because it ties a worker's locals to its place in the task (`WorkerOK`). The other four
  properties are not. `BacklogIsInert` and `PollsHaveExternalId`: `MovedInv` says that every
  carrier of a job (queued task, worker, request) knows that the row left SCHEDULED, and
  `KnownInv` that whoever polls found the external id stored; both survive because no step
  takes a row back to SCHEDULED or clears its id (`Forward`). `NoJobOrphaned`: a step that
  leaves a job live keeps one of its carriers, hands it to another, or is a fault
  (`AllKept`). `PostsWithinBudget`: `Budget` adds to the posts of a job the runs that are
  queued and the workers that may still post it, and bounds them all by its dispatches and
  lost answers; this needs the library's facts about the cardinality of finite sets (hence
  `IsFiniteSet(Workers)` in `ConstantsOK`).
  `PublishedJobsWerePosted` says of every race that a job shown as PROCESSING or PUBLISHED
  has its id and at least one post; `PostedInv` adds that an id is stored, and a worker has
  an answer to record, only after a post, and that who settles a job has seen its id stored.
- `PublishSerial_proofs`: while no two requests have one job in hand (`Undisputed`),
  `CarriedByOne`, `SettledStaysQuiet`, `AttemptsWithinBudget`, and
  `PipelineImplementsLedger`, that every step of the pipeline is a step of `PublishLedger` or a
  stutter. The invariant `SerialInv` says where each job is (at rest, with the request that
  will dispatch it, on the run queue, with one worker, on the poll queue), that it is live in
  the last four cases, and what is left there of its attempts and of its licence to post;
  `ReadsStand` adds that what the requests have read still holds. `Undisputed` is a hypothesis
  of each theorem, not a limit on how many requests there are: the code has no lock that would
  give it, but requests about different jobs meet it, and `CalmIsUndisputed` says that the
  specification the run checks does. Without it two releases dispatch a job twice, which is why
  `publish_races` checks other properties.
  `LoopsAreBounded` is what can be proved of `Settles`. The retries of a job by its operator,
  the attempts counted since, and its place between a decision and its end (`Place`: dispatch,
  queue, the worker's steps, each poll) are the digits of one number, its `Rank`. Every step of
  the worker that holds a job raises its rank, no step of anything lowers one, and between
  two decisions it stays below `Round`, which `MaxAttempts` and `MaxPolls` determine.
- `RenditionLease_proofs`: `Inv` adds to the properties that a token is held by one process
  (`TokensOK`, `OwnerOK`), what the row is while a process is at each place (`RowOK`,
  `ProgressOK`), and that a lease granted is the row's lease until it runs out (`LeasesOK`).
  From it `TypeCorrect`, `ReadyKeepsObject`, `CallersAgree`, `LeasesExclude`; and
  `RowStaysFenced` for its steps. `LeaseImplementsCell` maps every step to one of
  `RenditionCell`: the commit that stores READY publishes, and what is discarded afterwards is
  discarded by the process that published it and then raised (`PublisherOK`).
  `NothingIsLittered` adds that the object of a claim whose
  cleanup is done is gone or known to be left (`GoneOK`).
- `ReleaseSchedule_proofs`: `OrderInv` adds what a tick has in hand (`RequestOK`) and that
  it was taken in order (`TakenInOrder`); `DayInv` adds that the slots of a running tick
  have not fired on its day (`Unfired`), which needs that no two ticks overlap.
  `SlotsFireOncePerDay` assumes just that (`TicksApart`; `ApartTicks` says that the run's
  specification has it), and the run in which ticks overlap shows that it is needed.
  `SlotsAreNotWasted` and `SavedSlotsKeepArmed` are proved of every step.
  The rest is about the order itself: `Before` is a strict total order of the
  backlog (`BeforeOrders`), so that each of its places is taken by the asset with as many
  before it (`PlacesTaken`, by counting). Hence `BacklogIsSorted`, that what is shown is the
  sort of the backlog, and `SlotTakesTheFirst`, that a slot takes the first of what is shown.
  `SeriesShownTogether` follows as what is before a part and after another of the
  series is of the series (`TogetherIn`). `OrderIsKept` is about the steps: queueing puts an
  asset behind all others or into its series (`QueueingKeepsOrder`), and what leaves reorders
  the rest only if it held its series' place (`LeavingKeepsOrder`). These assume `IsFiniteSet(Assets)` and the
  distinct numbers of a series' parts (`OrderConstantsOK`, the constraint
  `uq_part_series_index`); that no two assets of the backlog have one `created` is proved of
  every step (`TurnsOK`), and so `OrderIsKept` needs no finite set.
- `MediaTransfer_proofs`: `PlansAreLegal` and `RangesTile` about the chunk plan, from the
  lemma that division rounds down; `TypeCorrect`, `PostsAreWhole`, `SessionsPostOnce` and
  `PolledPostsExist` from `Inv`. It says that a session is empty until its attempt sends
  (`FreshOK`), that the range to send next is one of `iter_ranges` (`RangeOK`), that all before
  the next range is held unless the offset was stale (`NothingSkipped`), and that each
  attempt accounts for at most one post (`PostsOK`). `TransferImplementsCall` maps every request
  to a step of `PublishAttempts`. `RequestsAreBounded` is what can be proved of `TransferEnds`:
  the attempt, the place in it, the offset and the tries made are the digits of a `Rank` that
  every step raises and that the size, the chunk limits, the tries and the attempts bound; for
  a feed video the offset rises because the platform's windows are assumed to move on.
- `SeriesDesk_proofs`: `TypeCorrect`, `PartsKeepTheirNumbers`, `TeasersAreHonest` from
  `Inv`, which adds that the captions a request is about to queue are honest like those
  that were queued. The lemma behind it counts: distinct numbers count the parts
  (`PartsCounted`), and a number below the count is not the largest (`NextIsKnown`).
  `JobsKeepTheirText` and `EditsKeepTheRest` are proved of every step.
- `TokenStore_proofs`: `TypeCorrect`, `RefreshTokensSpentOnce`, `TokensOutliveRequests`.
  `Inv` adds that only pairs that were issued are about (`IssuedOnly`), that the refresh
  token in the row was not sent but by the holder of the lock (`RowUnspent`), and that what
  the row says of the expiry is late by no more than a refresh takes (`ExpiriesOK`). The
  last is what `TokensOutliveRequests` needs, with the assumption (section 3) that the code's
  margin of 600 s covers a refresh and the way of a request, `Refreshing + Using <= Margin`.
  `RowAdvances` is proved of every step: a pair about to be stored is newer than the row
  (`Newer`), since the row cannot change under the lock.
- `ConsoleUploads_proofs`: `TypeCorrect`, `SourcesStay`, `HolesAreFailuresHolds`,
  `TwicePublished`, for any number of runs, files and keys. `Inv` says that all that still
  carries a key, and the object that has it, are of one file (`KeysOK`), which is what makes
  a late PUT harmless; that a batch has in its queue, by number, what its rows show as queued
  (`OrderOK`, from the order of `EpisodeOrder`, whose plans are surjective by counting); and
  that a video that is published, or answered and not yet committed, was seen queued unless
  its request was given up (`SeenOK`), after which `Submit` refuses it (`FlowOK`).

The invariants were checked by TLC before they were proved.

Only model-checked: that the steps are taken, which needs fairness and is out of the
prover's reach (`Settles`, `TransferEnds`, `CallsEnd`). `LoopsAreBounded` and
`RequestsAreBounded` prove for all constants that the first two have no endless run of steps.
Every other property of a passing run is the statement of a theorem. `CallersAgree` and
`SessionsPostOnce` are proved and in no run of their own; the runs check the abstract
specifications that say the same.

## 6. Not modelled

Of the captions only what they say of the next part is modelled, not `substitute`, `fit`,
`tidy`, the prompt or the providers. Transcoding is an outcome; DST is left out (zones are
fixed offsets); presigned URLs, CORS, bucket setup, logging and configuration have no
behaviour of interest. Of the console, what is displayed, the polling hooks, the slot editor
and drafts that are not saved are left out; so is the wait of a PUT, which has no timeout
and which the operator ends, and any PUT to a still valid URL but the console's own of that
file. The n8n export is run by another product. Two `replace_slots` at
once, and the row that `ensure_rendition` inserts, are listed as hazards without a property.

## 7. Plan

1. `ReleaseSchedule`: several edits at once. `PublishPipeline`: the row of
   `ensure_rendition`, and its composition with `RenditionLease`.
2. `JobRun`: the console's polling hooks against a service that changes underneath.
3. `CaptionText`: `fit`, `tidy` and the fall-through of the providers (`complete`).
