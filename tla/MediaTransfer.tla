---------------------------- MODULE MediaTransfer ----------------------------
(***************************************************************************)
(* Handing one rendition to a platform: `publish` of the TikTok, Reel and    *)
(* feed video adapters, request by request, over the attempts that           *)
(* run_publish_job makes.  with_retries repeats a request whose answer is a  *)
(* retryable error or is lost; the platform may have acted on it or not.     *)
(*                                                                         *)
(* The routes are the ways the adapters choose from the configuration:       *)
(* "pull" and "hosted" give the platform a URL and post with one request,    *)
(* "reel_url" gives a URL to an open session, the others send the bytes.     *)
(* The platform is external: it may accept or refuse any request, and takes  *)
(* a finish even if bytes are missing.  A session it opens starts empty.     *)
(*                                                                         *)
(* Assumed of the platform: in a feed video upload each window that it asks  *)
(* for begins where the last one ended and is not empty until it has the     *)
(* file.  _chunked_publish takes both ends from the answer and has no bound   *)
(* of its own, so that this route ends only if the platform moves on.        *)
(***************************************************************************)
EXTENDS ChunkPlan, FiniteSets

CONSTANTS
    Sizes,        \* sizes of the rendition
    Routes,       \* the routes the configuration allows
    Window,       \* the longest range the platform asks for in a feed upload
    Retries,      \* attempts of with_retries
    MaxAttempts   \* MAX_ATTEMPTS

AllRoutes == {"tiktok", "pull", "reel", "reel_url", "video", "hosted"}

ASSUME TransferConstantsOK ==
    /\ Sizes \subseteq Nat \ {0}
    /\ Routes \subseteq AllRoutes
    /\ Window \in Nat \ {0}
    /\ Retries \in Nat \ {0}
    /\ MaxAttempts \in Nat \ {0}

VARIABLES
    size,      \* request.size_bytes
    route,     \* how this publisher hands over the file
    attempt,   \* job.attempts
    uploaded,  \* job.uploaded_bytes
    resume,    \* request.resume_offset: uploaded when the attempt began
    pc,        \* the request to make next, or how the task ended
    tries,     \* failures of that request so far, in with_retries
    offset,    \* start of the range to send next
    end,       \* its end
    held,      \* the bytes the platform holds in this attempt's session
    live,      \* whether that session is posted
    posts,     \* history: posts made by all attempts
    short,     \* history: the attempts that posted less than the file
    stale      \* history: the attempts that began at an offset of an earlier session

file == <<size, route>>
cursor == <<offset, end>>
history == <<posts, short, stale>>
vars == <<file, attempt, uploaded, resume, pc, tries, cursor, held, live, history>>

OneRequest == {"pull", "hosted"}
Whole == 0..size - 1
Ended == {"processing", "failed"}

Least(a, b) == IF a < b THEN a ELSE b
Start(r) == IF r \in {"tiktok", "pull"} THEN "creator" ELSE "open"

TypeOK ==
    /\ size \in Sizes /\ route \in Routes
    /\ attempt \in 1..MaxAttempts
    /\ uploaded \in 0..size /\ resume \in 0..size
    /\ pc \in {"creator", "open", "ask", "send", "give", "finish"} \cup Ended
    /\ tries \in 0..Retries - 1
    /\ offset \in 0..size /\ end \in 0..size
    /\ held \subseteq Whole
    /\ live \in BOOLEAN
    /\ posts \in Nat
    /\ short \subseteq 1..MaxAttempts /\ stale \subseteq 1..MaxAttempts

Init ==
    /\ size \in Sizes /\ route \in Routes
    /\ attempt = 1 /\ uploaded = 0 /\ resume = 0
    /\ pc = Start(route) /\ tries = 0
    /\ offset = 0 /\ end = 0
    /\ held = {} /\ live = FALSE
    /\ posts = 0 /\ short = {} /\ stale = {}
-----------------------------------------------------------------------------
\* The platform acts on a request: the session comes to hold h, posted if l.
\* Each one-request post is a post of its own.
Acts(h, l) ==
    LET new == l /\ (~live \/ route \in OneRequest)
    IN /\ posts' = posts + (IF new THEN 1 ELSE 0)
       /\ short' = IF new /\ h # Whole THEN short \cup {attempt} ELSE short

Leaves(h, l) == held' = h /\ live' = l

\* Faulty: the attempt is not counted.
RequeueUncounted ==
    /\ resume' = uploaded
    /\ pc' = Start(route) /\ tries' = 0
    /\ offset' = 0 /\ end' = 0
    /\ Leaves({}, FALSE)
    /\ UNCHANGED attempt

Requeue ==
    /\ attempt' = attempt + 1
    /\ resume' = uploaded
    /\ pc' = Start(route) /\ tries' = 0
    /\ offset' = 0 /\ end' = 0
    /\ Leaves({}, FALSE)

Fail(h, l) ==
    /\ pc' = "failed"
    /\ Leaves(h, l)
    /\ UNCHANGED <<attempt, resume, tries, cursor>>

\* Faulty: queued again without a bound.
RaiseUnbounded(kind, h, l) ==
    \/ kind = "busy" /\ attempt <= MaxAttempts /\ Requeue
    \/ kind # "busy" /\ Fail(h, l)

\* The exception leaves publish: a retryable platform error has the task queued
\* again while attempts are left, any other fails the job.
Raise(kind, h, l) ==
    \/ kind = "busy" /\ attempt < MaxAttempts /\ Requeue
    \/ ~(kind = "busy" /\ attempt < MaxAttempts) /\ Fail(h, l)

Again(h, l) == Leaves(h, l) /\ UNCHANGED <<attempt, resume, pc, cursor>>

\* Faulty: the whole of publish is repeated, not the request.
FailsReopening(kind, h, l) ==
    \/ /\ tries + 1 < Retries
       /\ tries' = tries + 1 /\ pc' = "open" /\ offset' = 0 /\ end' = 0
       /\ Leaves({}, FALSE)
       /\ UNCHANGED <<attempt, resume>>
    \/ tries + 1 = Retries /\ Raise(kind, h, l)

\* A retryable error of a request in with_retries.
Fails(kind, h, l) ==
    \/ tries + 1 < Retries /\ tries' = tries + 1 /\ Again(h, l)
    \/ tries + 1 = Retries /\ Raise(kind, h, l)

\* The platform refuses, or get_access_token has no token to give.
Refused ==
    /\ Raise("refused", held, live)
    /\ UNCHANGED <<file, uploaded, history>>

\* A request in with_retries that would make the session hold h, posted if l, is
\* not answered, or with an error that is worth a retry.
Unanswered(h, l) ==
    /\ \E kind \in {"busy", "transport"} :
          \/ Acts(h, l) /\ Fails(kind, h, l)
          \/ UNCHANGED <<posts, short>> /\ Fails(kind, held, live)
    /\ UNCHANGED <<file, uploaded, stale>>

\* The request is answered: what comes next, and the range it is about.
Step(to, from, upto) == [pc |-> to, offset |-> from, end |-> upto]

Answered(h, l, next) ==
    /\ Acts(h, l)
    /\ Leaves(h, l)
    /\ pc' = next.pc /\ offset' = next.offset /\ end' = next.end
    /\ tries' = 0
    /\ UNCHANGED <<file, attempt, resume, stale>>

\* `on_progress`: kept with the job, and the resume offset of the next attempt.
Progress(bytes) == uploaded' = bytes
-----------------------------------------------------------------------------
\* query_creator_info: made once, outside with_retries.
QueryCreator ==
    /\ pc = "creator"
    /\ \/ Answered(held, live, Step("open", 0, 0))
       \/ /\ \E kind \in {"busy", "transport", "refused"} : Raise(kind, held, live)
          /\ UNCHANGED <<file, history>>
    /\ UNCHANGED uploaded

\* What an opened session is to get first.  The feed video's window is the
\* platform's choice.
Opening ==
    CASE route = "tiktok" -> {Step("send", 0, RangeEnd(size, 0))}
      [] route = "reel" -> {Step("ask", 0, 0)}
      [] route = "reel_url" -> {Step("give", 0, 0)}
      [] OTHER -> {Step("send", 0, e) : e \in 1..Least(Window, size)}

CannotPlan == route = "tiktok" /\ TooLarge(size)

OpenSession ==
    /\ pc = "open" /\ route \notin OneRequest
    /\ \/ Refused
       \/ /\ ~CannotPlan
          /\ \/ Unanswered(held, live)
             \/ \E next \in Opening : Answered(held, live, next) /\ UNCHANGED uploaded

PostByUrl ==
    /\ pc = "open" /\ route \in OneRequest
    /\ \/ Refused
       \/ Unanswered(Whole, TRUE)
       \/ Answered(Whole, TRUE, Step("processing", 0, 0)) /\ Progress(size)

\* Faulty: the session is never finished.
ReelStepUnfinished(from) ==
    IF from < size THEN Step("send", from, Least(from + Chunk, size))
    ELSE Step("processing", size, size)

\* Where a Reel's upload goes on.
ReelStep(from) ==
    IF from < size THEN Step("send", from, Least(from + Chunk, size))
    ELSE Step("finish", size, size)

\* `_server_offset`, outside with_retries: how many bytes the platform holds, or
\* resume_offset if it does not say or answers with an error.
AskOffset ==
    /\ pc = "ask"
    /\ \/ Answered(held, live, ReelStep(Cardinality(held)))
       \/ /\ pc' = ReelStep(resume).pc /\ tries' = 0
          /\ offset' = ReelStep(resume).offset /\ end' = ReelStep(resume).end
          /\ stale' = IF resume > 0 THEN stale \cup {attempt} ELSE stale
          /\ UNCHANGED <<file, attempt, resume, held, live, posts, short>>
       \/ /\ Raise("transport", held, live)
          /\ UNCHANGED <<file, history>>
    /\ UNCHANGED uploaded

\* Faulty: one window of a feed upload is sent, and no more.
AfterRangeStops ==
    CASE route = "tiktok" ->
            {IF end = size THEN Step("processing", size, size)
             ELSE Step("send", end, RangeEnd(size, end \div ChunkSize(size)))}
      [] route = "reel" -> {ReelStep(end)}
      [] OTHER -> {Step("finish", size, size)}

\* What follows a range that is sent.  A feed video's next window is the platform's
\* answer, which is assumed to move on.
AfterRange ==
    CASE route = "tiktok" ->
            {IF end = size THEN Step("processing", size, size)
             ELSE Step("send", end, RangeEnd(size, end \div ChunkSize(size)))}
      [] route = "reel" -> {ReelStep(end)}
      [] OTHER ->
            IF end = size THEN {Step("finish", size, size)}
            ELSE {Step("send", end, e) : e \in end + 1..Least(end + Window, size)}

\* upload_chunk, upload_reel_bytes, transfer_video_chunk.  TikTok posts the file
\* once it has all of it.  The range is read from storage, which may fail.
SendRange ==
    LET h == held \cup offset..end - 1
        l == live \/ (route = "tiktok" /\ h = Whole)
    IN /\ pc = "send"
       /\ \/ Refused
          \/ Raise("storage", held, live) /\ UNCHANGED <<file, uploaded, history>>
          \/ Unanswered(h, l)
          \/ \E next \in AfterRange : Answered(h, l, next) /\ Progress(end)

\* upload_reel_from_url.
GiveUrl ==
    /\ pc = "give"
    /\ \/ Refused
       \/ Unanswered(Whole, live)
       \/ Answered(Whole, live, Step("finish", size, size)) /\ Progress(size)

\* finish_reel, finish_video_session.
Finish ==
    /\ pc = "finish"
    /\ \/ Refused
       \/ Unanswered(held, TRUE)
       \/ Answered(held, TRUE, Step("processing", size, size)) /\ UNCHANGED uploaded

Next == QueryCreator \/ OpenSession \/ PostByUrl \/ AskOffset \/ SendRange \/ GiveUrl \/ Finish

\* Every request ends: the client's timeouts bound it.
Spec == Init /\ [][Next]_vars /\ WF_vars(Next)
-----------------------------------------------------------------------------
\* A post has the whole file, except where that fallback was taken.
PostIsWhole == short \subseteq stale

\* An attempt that goes through a session posts once at most, whatever with_retries
\* repeats and whichever answers are lost.
OnePostPerAttempt == route \notin OneRequest => posts <= attempt

StageNow ==
    CASE pc = "processing" -> "started"
      [] pc = "failed" -> "failed"
      [] OTHER -> IF live THEN "posted" ELSE "calling"

Call == INSTANCE PublishAttempts WITH
    stage <- StageNow,
    repeats <- route \in OneRequest

\* All the requests, retries, ranges and lost answers come to the call that
\* run_publish_job makes: an attempt posts once at most through a session, returns an id
\* only once it has posted, and is followed by another only while attempts are left.
ImplementsCall == Call!Spec

\* publish returns an id to poll only for a post that exists, with its progress
\* reported in full.
ReturnsLivePost == pc = "processing" => live /\ uploaded = size

\* The task comes to an end: retries and attempts are bounded and each session's
\* ranges move on, those of a feed video because the platform's windows do.
TransferEnds == <>(pc \in Ended)
=============================================================================
