------------------------- MODULE MediaTransfer_proofs -------------------------
(***************************************************************************)
(* Theorems about ChunkPlan and MediaTransfer, for files of every size, any*)
(* configuration of routes, any window and chunk, any number of attempts and*)
(* of retries.                                                             *)
(*                                                                         *)
(* The argument for the transfer: until an attempt sends, its session is   *)
(* empty and is not posted; everything before the range to send next is held,*)
(* unless the attempt began at a stale offset; TikTok's ranges are those of*)
(* iter_ranges, so the last one completes the file; and every earlier      *)
(* attempt, as well as this one once it is posted, accounts for one post.  *)
(***************************************************************************)
EXTENDS MediaTransfer, TLAPS, FiniteSetTheorems

(***************************************************************************)
(* plan_chunks gives TikTok a legal plan for every file it does not refuse,  *)
(* and iter_ranges cuts the file into adjacent ranges.                      *)
(***************************************************************************)
\* Division rounds down.
LEMMA Quotient ==
    ASSUME NEW n \in Nat, NEW c \in Nat \ {0}
    PROVE  /\ n \div c \in Nat
           /\ (n \div c) * c <= n
           /\ n < (n \div c) * c + c
  OBVIOUS

\* A file of at least one chunk has a quotient of at least 1.
LEMMA AtLeastOne ==
    ASSUME NEW n \in Nat, NEW c \in Nat \ {0}, c <= n
    PROVE  n \div c >= 1
<1>1. ~ (n \div c <= 0)
  <2>1. SUFFICES ASSUME n \div c = 0 PROVE FALSE
    BY Quotient
  <2>2. n < 0 * c + c
    BY <2>1, Quotient
  <2> QED BY <2>2
<1> QED BY <1>1, Quotient

LEMMA ChunkForType ==
    ASSUME NEW s \in Nat \ {0}, s >= MinChunk
    PROVE  /\ Clamped \in MinChunk..MaxChunk
           /\ Widened(s) \in Nat
           /\ ChunkFor(s) \in MinChunk..MaxChunk
<1> USE ChunkConstantsOK
<1>1. Clamped \in MinChunk..MaxChunk
  BY DEF Clamped
<1>2. Widened(s) \in Nat
  BY Quotient DEF Widened
<1>3. ASSUME s \div Clamped > MaxChunks PROVE MinChunk <= Widened(s)
  <2>1. s \div Clamped \in Nat /\ (s \div Clamped) * Clamped <= s
    BY <1>1, Quotient
  <2>2. (MaxChunks + 1) * Clamped <= (s \div Clamped) * Clamped
    BY <1>1, <1>3, <2>1
  <2>3. MaxChunks * Clamped < s
    BY <1>1, <2>1, <2>2
  <2>4. s + MaxChunks - 1 < Widened(s) * MaxChunks + MaxChunks
    BY Quotient DEF Widened
  <2>5. s <= Widened(s) * MaxChunks
    BY <1>2, <2>4
  <2>6. MaxChunks * Clamped < MaxChunks * Widened(s)
    BY <1>1, <1>2, <2>3, <2>5
  <2>7. Clamped < Widened(s)
    BY <1>1, <1>2, <2>6
  <2> QED BY <1>1, <1>2, <2>7
<1> QED BY <1>1, <1>2, <1>3 DEF ChunkFor

\* The number of chunks times their size, against the size of the file.
LEMMA TotalBounds ==
    ASSUME NEW s \in Nat \ {0}, ~TooLarge(s)
    PROVE  /\ ChunkSize(s) \in Nat \ {0}
           /\ ChunkSize(s) <= MaxChunk
           /\ s >= MinChunk => ChunkSize(s) >= MinChunk
           /\ Total(s) \in 1..MaxChunks
           /\ Total(s) = 1 \/ Total(s) * ChunkSize(s) <= s
           /\ s < Total(s) * ChunkSize(s) + ChunkSize(s)
<1> USE ChunkConstantsOK
<1>1. CASE s < MinChunk
  <2>1. ChunkSize(s) = s /\ Total(s) = 1
    BY <1>1 DEF ChunkSize, Total
  <2> QED BY <1>1, <2>1
<1>2. CASE s >= MinChunk
  <2> DEFINE c == ChunkFor(s)
  <2>1. c \in Nat \ {0} /\ c >= MinChunk /\ c <= MaxChunk /\ ChunkSize(s) = c
    BY <1>2, ChunkForType DEF ChunkSize
  <2> HIDE DEF c
  <2>2. CASE s < c
    <3>1. Total(s) = 1
      BY <2>2 DEF Total, c
    <3> QED BY <2>1, <2>2, <3>1
  <2>3. CASE c <= s
    <3>1. Total(s) = s \div c
      BY <1>2, <2>1, <2>3 DEF Total, c
    <3>2. s \div c <= MaxChunks
      BY <1>2, <2>1, Quotient DEF TooLarge, c
    <3>3. s \div c >= 1
      BY <2>1, <2>3, AtLeastOne
    <3>4. s \div c \in Nat /\ (s \div c) * c <= s /\ s < (s \div c) * c + c
      BY <2>1, Quotient
    <3> QED BY <2>1, <3>1, <3>2, <3>3, <3>4
  <2> QED BY <2>1, <2>2, <2>3
<1> QED BY <1>1, <1>2

\* A file that plan_chunks does not refuse is cut as TikTok asks: legal chunks,
\* not too many of them, and the remainder in the last one.
THEOREM PlansAreLegal ==
    ASSUME NEW s \in Nat \ {0}, ~TooLarge(s)
    PROVE  PlanLegal(s)
<1> DEFINE c == ChunkSize(s)
<1> DEFINE k == Total(s)
<1>1. /\ c \in Nat \ {0} /\ c <= MaxChunk /\ (s >= MinChunk => c >= MinChunk)
      /\ k \in 1..MaxChunks
      /\ k = 1 \/ k * c <= s
      /\ s < k * c + c
  BY TotalBounds
<1>2. RangeStart(s, k - 1) = (k - 1) * c
  BY DEF RangeStart
<1>3. MaxChunks \in Nat
  BY ChunkConstantsOK
<1> HIDE DEF c, k
<1>4. (k - 1) * c = k * c - c
  BY <1>1, <1>3
<1>5. k * c \in Nat /\ (k = 1 => k * c = c)
  BY <1>1, <1>3
<1>6. /\ RangeStart(s, k - 1) < s
      /\ s - RangeStart(s, k - 1) < 2 * c
      /\ k > 1 => s - RangeStart(s, k - 1) >= c
  BY <1>1, <1>2, <1>4, <1>5
<1> QED BY <1>1, <1>6 DEF PlanLegal, c, k

\* The ranges of iter_ranges are not empty, follow each other from the first byte
\* to the last, and so leave nothing out and send nothing twice.
THEOREM RangesTile ==
    ASSUME NEW s \in Nat \ {0}, ~TooLarge(s), NEW i \in 0..Total(s) - 1
    PROVE  /\ RangeStart(s, 0) = 0
           /\ RangeStart(s, i) \in 0..RangeEnd(s, i) - 1
           /\ RangeEnd(s, i) \in 1..s
           /\ IF i = Total(s) - 1 THEN RangeEnd(s, i) = s
              ELSE /\ RangeEnd(s, i) = RangeStart(s, i + 1)
                   /\ RangeEnd(s, i) \div ChunkSize(s) = i + 1
<1> DEFINE c == ChunkSize(s)
<1> DEFINE k == Total(s)
<1>1. /\ c \in Nat \ {0} /\ k \in 1..MaxChunks /\ MaxChunks \in Nat
      /\ k = 1 \/ k * c <= s
  BY TotalBounds, ChunkConstantsOK
<1>2. RangeStart(s, k - 1) < s
  BY PlansAreLegal DEF PlanLegal, k
<1>3. /\ RangeStart(s, 0) = 0 * c /\ RangeStart(s, i) = i * c /\ RangeStart(s, i + 1) = (i + 1) * c
      /\ RangeStart(s, k - 1) = (k - 1) * c
      /\ RangeEnd(s, i) = IF i = k - 1 THEN s ELSE (i + 1) * c
  BY DEF RangeStart, RangeEnd
<1>4. i \in 0..k - 1
  OBVIOUS
<1> HIDE DEF c, k
<1>5. i * c \in Nat /\ (i + 1) * c = i * c + c /\ 0 * c = 0
  BY <1>1, <1>4
<1>6. CASE i = k - 1
  BY <1>1, <1>2, <1>3, <1>5, <1>6 DEF c, k
<1>7. CASE i # k - 1
  <2>1. i + 1 <= k /\ k # 1
    BY <1>1, <1>4, <1>7
  <2>2. (i + 1) * c <= k * c
    BY <1>1, <1>4, <2>1
  <2>3. (i + 1) * c <= s
    BY <1>1, <1>4, <2>1, <2>2
  <2>4. ((i + 1) * c) \div c = i + 1
    BY <1>1, <1>4
  <2> QED BY <1>1, <1>3, <1>4, <1>5, <1>7, <2>3, <2>4 DEF c, k
<1> QED BY <1>6, <1>7
-----------------------------------------------------------------------------
(***************************************************************************)
(* The transfer.                                                           *)
(***************************************************************************)

\* Which route makes which requests.
PlaceOK ==
    /\ pc = "creator" => route \in {"tiktok", "pull"}
    /\ pc = "ask" => route = "reel"
    /\ pc = "give" => route = "reel_url"
    /\ pc = "send" => route \in {"tiktok", "reel", "video"}
    /\ pc = "finish" => route \in {"reel", "reel_url", "video"}
    /\ route # "reel" => stale = {}

\* A session is empty until something is sent, and so is what is reported of it.
FreshOK ==
    /\ pc = "creator" => held = {} /\ ~live
    /\ pc \in {"open", "ask"} /\ route \notin OneRequest => held = {} /\ ~live
    /\ pc \in {"creator", "open", "ask"} => uploaded = resume

\* The range to send next.
RangeOK ==
    /\ pc = "send" => offset < end
    /\ pc = "send" /\ route = "tiktok" =>
          /\ ~TooLarge(size)
          /\ \E i \in 0..Total(size) - 1 :
                offset = RangeStart(size, i) /\ end = RangeEnd(size, i)
    /\ pc = "finish" => offset = size /\ uploaded = size

\* No range is skipped: unless the upload began at an offset left by an earlier
\* session, everything before the next range is held by this attempt's session.
NothingSkipped ==
    pc \in {"send", "finish"} /\ attempt \notin stale => 0..offset - 1 \subseteq held

\* At most one post for each attempt before, and for this one if it is posted.
PostsOK == route \notin OneRequest => posts <= attempt - 1 + (IF live THEN 1 ELSE 0)

Inv ==
    /\ TypeOK
    /\ PlaceOK
    /\ FreshOK
    /\ RangeOK
    /\ NothingSkipped
    /\ PostsOK
    /\ PostIsWhole
    /\ ReturnsLivePost

\* What the constants and the types give of numbers.
LEMMA Numbers ==
    ASSUME TypeOK
    PROVE  /\ size \in Nat \ {0}
           /\ attempt \in Nat \ {0} /\ MaxAttempts \in Nat \ {0}
           /\ route \in AllRoutes
           /\ Window \in Nat \ {0} /\ Retries \in Nat \ {0} /\ Chunk \in Nat \ {0}
  BY TransferConstantsOK, ChunkConstantsOK DEF TypeOK

LEMMA InvInit == Init => Inv
<1> SUFFICES ASSUME Init PROVE Inv
  OBVIOUS
<1>1. TypeOK
  <2>1. /\ size \in Nat \ {0} /\ route \in Routes
        /\ 1 \in 1..MaxAttempts /\ 0 \in 0..Retries - 1 /\ 0 \in 0..size
    BY TransferConstantsOK DEF Init
  <2>2. pc \in {"creator", "open", "ask", "send", "give", "finish"} \cup Ended
    BY DEF Init, Start
  <2> QED BY <2>1, <2>2 DEF Init, TypeOK
<1>2. PlaceOK /\ FreshOK /\ RangeOK /\ NothingSkipped
  BY TransferConstantsOK DEF Init, PlaceOK, FreshOK, RangeOK, NothingSkipped, Start, AllRoutes
<1>3. PostsOK /\ PostIsWhole /\ ReturnsLivePost
  BY DEF Init, PostsOK, PostIsWhole, ReturnsLivePost, Start
<1> QED BY <1>1, <1>2, <1>3 DEF Inv
-----------------------------------------------------------------------------
\* What the history says after a request that leaves the session posted if l.
Counted(l) ==
    /\ posts' \in Nat
    /\ short' \subseteq 1..MaxAttempts
    /\ short' \subseteq stale
    /\ route \notin OneRequest => posts' <= attempt - 1 + (IF l THEN 1 ELSE 0)

LEMMA NotActedCounts ==
    ASSUME Inv, UNCHANGED <<posts, short>> PROVE Counted(live)
  BY DEF Inv, TypeOK, PostsOK, PostIsWhole, Counted

\* A request posts what is whole, or what began at a stale offset.
LEMMA ActsCounts ==
    ASSUME Inv, NEW h, NEW l \in BOOLEAN, live => l, Acts(h, l),
           l /\ (~live \/ route \in OneRequest) => h = Whole \/ attempt \in stale
    PROVE  Counted(l)
<1>1. /\ posts \in Nat /\ attempt \in 1..MaxAttempts /\ live \in BOOLEAN
      /\ short \subseteq 1..MaxAttempts /\ short \subseteq stale
      /\ route \notin OneRequest => posts <= attempt - 1 + (IF live THEN 1 ELSE 0)
  BY DEF Inv, TypeOK, PostsOK, PostIsWhole
<1>2. MaxAttempts \in Nat
  BY TransferConstantsOK
<1>3. short' \subseteq 1..MaxAttempts /\ short' \subseteq stale
  BY <1>1 DEF Acts
<1>4. posts' \in Nat /\ (route \notin OneRequest => posts' <= attempt - 1 + (IF l THEN 1 ELSE 0))
  BY <1>1, <1>2 DEF Acts
<1> QED BY <1>3, <1>4 DEF Counted

\* An exception that leaves publish: the job fails, or is queued again.
LEMMA RaiseKeeps ==
    ASSUME Inv, NEW kind, NEW h \in SUBSET Whole, NEW l \in BOOLEAN,
           Raise(kind, h, l), Counted(l), UNCHANGED <<file, uploaded, stale>>
    PROVE  Inv'
<1>1. CASE Fail(h, l)
  <2>1. TypeOK'
    BY <1>1, Numbers DEF Inv, TypeOK, Fail, Leaves, Counted, file, cursor, Whole, Ended
  <2>2. PlaceOK' /\ FreshOK' /\ RangeOK' /\ NothingSkipped' /\ ReturnsLivePost'
    BY <1>1 DEF Inv, Fail, file, PlaceOK, FreshOK, RangeOK, NothingSkipped, ReturnsLivePost
  <2>3. PostsOK' /\ PostIsWhole'
    BY <1>1 DEF Fail, Leaves, Counted, file, PostsOK, PostIsWhole
  <2> QED BY <2>1, <2>2, <2>3 DEF Inv
<1>2. CASE attempt < MaxAttempts /\ Requeue
  <2>1. /\ attempt + 1 \in 1..MaxAttempts /\ 0 \in 0..Retries - 1 /\ 0 \in 0..size
        /\ size' = size /\ route' = route
    BY <1>2, Numbers DEF Inv, TypeOK, file
  <2>2. pc' \in {"creator", "open", "ask", "send", "give", "finish"} \cup Ended
    BY <1>2 DEF Requeue, Start
  <2>3. TypeOK'
    BY <1>2, <2>1, <2>2 DEF Inv, TypeOK, Requeue, Leaves, Counted
  <2>4. PlaceOK' /\ FreshOK' /\ RangeOK' /\ NothingSkipped' /\ ReturnsLivePost'
    BY <1>2, Numbers DEF Inv, Requeue, Leaves, file, Start, AllRoutes, PlaceOK, FreshOK, RangeOK,
                NothingSkipped, ReturnsLivePost
  <2>5. PostsOK' /\ PostIsWhole'
    BY <1>2, Numbers DEF Inv, Requeue, Leaves, Counted, file, PostsOK, PostIsWhole
  <2> QED BY <2>3, <2>4, <2>5 DEF Inv
<1> QED BY <1>1, <1>2 DEF Raise

\* A request that is repeated: the session has more, but no less.
LEMMA AgainKeeps ==
    ASSUME Inv, NEW h \in SUBSET Whole, NEW l \in BOOLEAN, held \subseteq h,
           pc \notin Ended,
           pc = "creator" \/ (pc \in {"open", "ask"} /\ route \notin OneRequest) => h = {} /\ ~l,
           tries + 1 < Retries, tries' = tries + 1, Again(h, l),
           Counted(l), UNCHANGED <<file, uploaded, stale>>
    PROVE  Inv'
<1>1. TypeOK'
  BY Numbers DEF Inv, TypeOK, Again, Leaves, Counted, file, cursor, Whole
<1>2. PlaceOK' /\ FreshOK'
  BY DEF Inv, Again, Leaves, file, PlaceOK, FreshOK
<1>3. RangeOK'
  BY DEF Inv, Again, file, cursor, RangeOK
<1>4. NothingSkipped' /\ ReturnsLivePost'
  BY DEF Inv, Again, Leaves, cursor, NothingSkipped, ReturnsLivePost, Ended
<1>5. PostsOK' /\ PostIsWhole'
  BY DEF Again, Leaves, Counted, file, PostsOK, PostIsWhole
<1> QED BY <1>1, <1>2, <1>3, <1>4, <1>5 DEF Inv

LEMMA RefusedKeeps ==
    ASSUME Inv, Refused PROVE Inv'
<1>1. Counted(live)
  BY NotActedCounts DEF Refused, history
<1>2. held \in SUBSET Whole /\ live \in BOOLEAN
  BY DEF Inv, TypeOK
<1> QED BY <1>1, <1>2, RaiseKeeps DEF Refused, history

LEMMA UnansweredKeeps ==
    ASSUME Inv, NEW h \in SUBSET Whole, NEW l \in BOOLEAN, held \subseteq h, live => l,
           pc \notin Ended,
           pc = "creator" \/ (pc \in {"open", "ask"} /\ route \notin OneRequest) => h = {} /\ ~l,
           l /\ (~live \/ route \in OneRequest) => h = Whole \/ attempt \in stale,
           Unanswered(h, l)
    PROVE  Inv'
<1>1. UNCHANGED <<file, uploaded, stale>>
  BY DEF Unanswered
<1>2. PICK kind \in {"busy", "transport"} :
          \/ Acts(h, l) /\ Fails(kind, h, l)
          \/ UNCHANGED <<posts, short>> /\ Fails(kind, held, live)
  BY DEF Unanswered
<1>3. CASE Acts(h, l) /\ Fails(kind, h, l)
  <2>1. Counted(l)
    BY <1>3, ActsCounts
  <2>2. CASE tries + 1 < Retries /\ tries' = tries + 1 /\ Again(h, l)
    BY <1>1, <2>1, <2>2, AgainKeeps
  <2>3. CASE Raise(kind, h, l)
    BY <1>1, <2>1, <2>3, RaiseKeeps
  <2> QED BY <1>3, <2>2, <2>3 DEF Fails
<1>4. CASE UNCHANGED <<posts, short>> /\ Fails(kind, held, live)
  <2>1. Counted(live)
    BY <1>4, NotActedCounts
  <2>2. held \in SUBSET Whole /\ live \in BOOLEAN
    BY DEF Inv, TypeOK
  <2>3. pc = "creator" \/ (pc \in {"open", "ask"} /\ route \notin OneRequest) => held = {} /\ ~live
    BY DEF Inv, FreshOK
  <2>4. CASE tries + 1 < Retries /\ tries' = tries + 1 /\ Again(held, live)
    BY <1>1, <2>1, <2>2, <2>3, <2>4, AgainKeeps
  <2>5. CASE Raise(kind, held, live)
    BY <1>1, <2>1, <2>2, <2>5, RaiseKeeps
  <2> QED BY <1>4, <2>4, <2>5 DEF Fails
<1> QED BY <1>2, <1>3, <1>4
-----------------------------------------------------------------------------
Requests == {"creator", "open", "ask", "send", "give", "finish"}
Steps == [pc : Requests \cup Ended, offset : 0..size, end : 0..size]

\* What every answer keeps, whatever comes next.
LEMMA AnsweredKeeps ==
    ASSUME Inv, NEW h \in SUBSET Whole, NEW l \in BOOLEAN, live => l,
           l /\ (~live \/ route \in OneRequest) => h = Whole \/ attempt \in stale,
           NEW next \in Steps, Answered(h, l, next), uploaded' \in 0..size
    PROVE  TypeOK' /\ PostsOK' /\ PostIsWhole'
<1>1. Counted(l)
  BY ActsCounts DEF Answered
<1>2. TypeOK'
  <2>1. pc' \in Requests \cup Ended /\ offset' \in 0..size /\ end' \in 0..size
    BY DEF Answered, Steps
  <2>2. tries' \in 0..Retries - 1 /\ size' = size /\ route' = route
    BY TransferConstantsOK DEF Answered, file
  <2>3. held' \subseteq Whole' /\ live' \in BOOLEAN
    BY <2>2 DEF Answered, Leaves, Whole
  <2> QED
    BY <1>1, <2>1, <2>2, <2>3 DEF Inv, TypeOK, Answered, Counted, Requests
<1>3. PostsOK' /\ PostIsWhole'
  BY <1>1 DEF Answered, Leaves, Counted, file, PostsOK, PostIsWhole
<1> QED BY <1>2, <1>3

LEMMA QueryCreatorKeeps ==
    ASSUME Inv, QueryCreator PROVE Inv'
<1>1. held \in SUBSET Whole /\ live \in BOOLEAN /\ uploaded \in 0..size
  BY DEF Inv, TypeOK
<1>2. pc = "creator" /\ held = {} /\ ~live /\ uploaded = resume /\ UNCHANGED uploaded
  BY DEF QueryCreator, Inv, FreshOK
<1>3. CASE Answered(held, live, Step("open", 0, 0))
  <2>1. Step("open", 0, 0) \in Steps
    BY Numbers DEF Inv, Step, Steps, Requests
  <2>2. TypeOK' /\ PostsOK' /\ PostIsWhole'
    BY <1>1, <1>2, <1>3, <2>1, AnsweredKeeps
  <2>3. PlaceOK' /\ FreshOK' /\ RangeOK' /\ NothingSkipped' /\ ReturnsLivePost'
    BY <1>2, <1>3 DEF Inv, Answered, Leaves, Step, file, PlaceOK, FreshOK, RangeOK, NothingSkipped,
                      ReturnsLivePost
  <2> QED BY <2>2, <2>3 DEF Inv
<1>4. ASSUME NEW kind, Raise(kind, held, live), UNCHANGED <<file, history>> PROVE Inv'
  <2>1. Counted(live)
    BY <1>4, NotActedCounts DEF history
  <2> QED BY <1>1, <1>2, <1>4, <2>1, RaiseKeeps DEF history
<1> QED BY <1>3, <1>4 DEF QueryCreator

\* The first range of a session.
LEMMA OpeningStep ==
    ASSUME Inv, pc = "open", route \notin OneRequest, ~CannotPlan, NEW next \in Opening
    PROVE  /\ next \in Steps /\ next.offset = 0
           /\ \/ next.pc = "send" /\ route \in {"tiktok", "video"} /\ 0 < next.end
              \/ next.pc = "ask" /\ route = "reel"
              \/ next.pc = "give" /\ route = "reel_url"
           /\ route = "tiktok" => next.end = RangeEnd(size, 0) /\ ~TooLarge(size)
<1> USE Numbers DEF Inv
<1>1. CASE route = "tiktok"
  <2>1. ~TooLarge(size)
    BY <1>1 DEF CannotPlan
  <2>2. 0 \in 0..Total(size) - 1
    BY <2>1, TotalBounds, ChunkConstantsOK
  <2>3. RangeEnd(size, 0) \in 1..size
    BY <2>1, <2>2, RangesTile
  <2>4. next = Step("send", 0, RangeEnd(size, 0))
    BY <1>1 DEF Opening
  <2> QED BY <1>1, <2>1, <2>3, <2>4 DEF Step, Steps, Requests
<1>2. CASE route = "reel" \/ route = "reel_url"
  <2>1. \/ next = Step("ask", 0, 0) /\ route = "reel"
        \/ next = Step("give", 0, 0) /\ route = "reel_url"
    BY <1>2 DEF Opening
  <2> QED BY <1>2, <2>1 DEF Step, Steps, Requests
<1>3. CASE route = "video"
  <2>1. PICK e \in 1..Least(Window, size) : next = Step("send", 0, e)
    BY <1>3 DEF Opening
  <2>2. e \in 1..size
    BY <2>1 DEF Least
  <2> QED BY <1>3, <2>1, <2>2 DEF Step, Steps, Requests
<1> QED BY <1>1, <1>2, <1>3 DEF AllRoutes, OneRequest

\* A session that is opened and not yet sent to.
LEMMA FreshHere ==
    ASSUME Inv, pc \in {"open", "ask"}, route \notin OneRequest
    PROVE  /\ held = {} /\ ~live /\ live \in BOOLEAN /\ held \in SUBSET Whole
           /\ uploaded \in 0..size /\ uploaded = resume
  BY DEF Inv, TypeOK, FreshOK

LEMMA OpenSessionKeeps ==
    ASSUME Inv, OpenSession PROVE Inv'
<1>1. pc = "open" /\ route \notin OneRequest
  BY DEF OpenSession
<1>2. CASE Refused
  BY <1>2, RefusedKeeps
<1>3. CASE Unanswered(held, live)
  BY <1>1, <1>3, FreshHere, UnansweredKeeps DEF Ended
<1>4. ASSUME ~CannotPlan, NEW next \in Opening, Answered(held, live, next), UNCHANGED uploaded
      PROVE  Inv'
  <2>1. /\ next \in Steps /\ next.offset = 0
        /\ \/ next.pc = "send" /\ route \in {"tiktok", "video"} /\ 0 < next.end
           \/ next.pc = "ask" /\ route = "reel"
           \/ next.pc = "give" /\ route = "reel_url"
        /\ route = "tiktok" => next.end = RangeEnd(size, 0) /\ ~TooLarge(size)
    BY <1>1, <1>4, OpeningStep
  <2>2. TypeOK' /\ PostsOK' /\ PostIsWhole'
    BY <1>1, <1>4, <2>1, FreshHere, AnsweredKeeps
  <2>3. PlaceOK' /\ FreshOK' /\ NothingSkipped' /\ ReturnsLivePost'
    BY <1>1, <1>4, <2>1, FreshHere DEF Inv, Answered, Leaves, file, PlaceOK, FreshOK,
          NothingSkipped, ReturnsLivePost
  <2>4. ASSUME route = "tiktok" PROVE 0 \in 0..Total(size) - 1 /\ RangeStart(size, 0) = 0
    BY <2>1, <2>4, Numbers, TotalBounds, ChunkConstantsOK, RangesTile DEF Inv
  <2>5. RangeOK'
    BY <1>4, <2>1, <2>4 DEF Answered, file, RangeOK
  <2> QED BY <2>2, <2>3, <2>5 DEF Inv
<1> QED BY <1>2, <1>3, <1>4 DEF OpenSession

LEMMA PostByUrlKeeps ==
    ASSUME Inv, PostByUrl PROVE Inv'
<1>1. pc = "open" /\ route \in OneRequest /\ held \subseteq Whole /\ size \in Nat \ {0}
  BY Numbers DEF PostByUrl, Inv, TypeOK
<1>2. CASE Refused
  BY <1>2, RefusedKeeps
<1>3. CASE Unanswered(Whole, TRUE)
  BY <1>1, <1>3, UnansweredKeeps DEF Ended
<1>4. CASE Answered(Whole, TRUE, Step("processing", 0, 0)) /\ Progress(size)
  <2>1. Step("processing", 0, 0) \in Steps /\ uploaded' \in 0..size
    BY <1>1, <1>4 DEF Step, Steps, Ended, Progress
  <2>2. TypeOK' /\ PostsOK' /\ PostIsWhole'
    BY <1>4, <2>1, AnsweredKeeps
  <2>3. PlaceOK' /\ FreshOK' /\ RangeOK' /\ NothingSkipped' /\ ReturnsLivePost'
    BY <1>4 DEF Inv, Answered, Leaves, Step, Progress, file, PlaceOK, FreshOK, RangeOK,
          NothingSkipped, ReturnsLivePost
  <2> QED BY <2>2, <2>3 DEF Inv
<1> QED BY <1>2, <1>3, <1>4 DEF PostByUrl

\* Where a Reel goes on is within the file, and past its end only to the finish.
LEMMA ReelStepOK ==
    ASSUME size \in Nat \ {0}, Chunk \in Nat \ {0}, NEW from \in 0..size
    PROVE  /\ ReelStep(from) \in Steps /\ ReelStep(from).offset = from
           /\ \/ ReelStep(from).pc = "send" /\ from < ReelStep(from).end
              \/ ReelStep(from).pc = "finish" /\ from = size
<1>1. CASE from < size
  <2>1. Least(from + Chunk, size) \in from + 1..size
    BY <1>1 DEF Least
  <2>2. ReelStep(from) = Step("send", from, Least(from + Chunk, size))
    BY <1>1 DEF ReelStep
  <2> QED BY <2>1, <2>2 DEF Step, Steps, Requests
<1>2. CASE from = size
  BY <1>2 DEF ReelStep, Step, Steps, Requests
<1> QED BY <1>1, <1>2

LEMMA AskOffsetKeeps ==
    ASSUME Inv, AskOffset PROVE Inv'
<1>1. pc = "ask" /\ route = "reel" /\ route \notin OneRequest /\ UNCHANGED uploaded
  BY DEF AskOffset, Inv, PlaceOK, OneRequest
<1>2. /\ held = {} /\ ~live /\ live \in BOOLEAN /\ held \in SUBSET Whole
      /\ uploaded \in 0..size /\ uploaded = resume
  BY <1>1, FreshHere
<1>3. size \in Nat \ {0} /\ Chunk \in Nat \ {0}
  BY Numbers DEF Inv
<1>4. CASE Answered(held, live, ReelStep(Cardinality(held)))
  <2>1. Cardinality(held) = 0 /\ 0 \in 0..size
    BY <1>2, <1>3, FS_EmptySet
  <2>2. ReelStep(0) \in Steps /\ ReelStep(0).offset = 0 /\ ReelStep(0).pc = "send"
        /\ 0 < ReelStep(0).end
    BY <1>3, <2>1, ReelStepOK
  <2>3. Answered(held, live, ReelStep(0))
    BY <1>4, <2>1
  <2>4. TypeOK' /\ PostsOK' /\ PostIsWhole'
    BY <1>1, <1>2, <2>2, <2>3, AnsweredKeeps
  <2>5. PlaceOK' /\ FreshOK' /\ RangeOK' /\ NothingSkipped' /\ ReturnsLivePost'
    BY <1>1, <2>2, <2>3 DEF Inv, Answered, file, PlaceOK, FreshOK, RangeOK, NothingSkipped,
          ReturnsLivePost
  <2> QED BY <2>4, <2>5 DEF Inv
<1>5. CASE /\ pc' = ReelStep(resume).pc /\ tries' = 0
           /\ offset' = ReelStep(resume).offset /\ end' = ReelStep(resume).end
           /\ stale' = IF resume > 0 THEN stale \cup {attempt} ELSE stale
           /\ UNCHANGED <<file, attempt, resume, held, live, posts, short>>
  <2>1. /\ ReelStep(resume) \in Steps /\ ReelStep(resume).offset = resume
        /\ \/ ReelStep(resume).pc = "send" /\ resume < ReelStep(resume).end
           \/ ReelStep(resume).pc = "finish" /\ resume = size
    BY <1>2, <1>3, ReelStepOK
  <2>2. pc' \in Requests \cup Ended /\ offset' \in 0..size /\ end' \in 0..size
    BY <1>5, <2>1 DEF Steps
  <2>3. TypeOK'
    BY <1>1, <1>5, <2>2, Numbers DEF Inv, TypeOK, file, Whole, Requests
  <2>4. PlaceOK' /\ FreshOK' /\ RangeOK' /\ ReturnsLivePost'
    BY <1>1, <1>2, <1>5, <2>1 DEF Inv, file, PlaceOK, FreshOK, RangeOK, ReturnsLivePost
  <2>5. NothingSkipped'
    BY <1>2, <1>5, <2>1 DEF NothingSkipped
  <2>6. PostsOK' /\ PostIsWhole'
    BY <1>5 DEF Inv, file, PostsOK, PostIsWhole
  <2> QED BY <2>3, <2>4, <2>5, <2>6 DEF Inv
<1>6. CASE Raise("transport", held, live) /\ UNCHANGED <<file, history>>
  <2>1. Counted(live)
    BY <1>6, NotActedCounts DEF history
  <2> QED BY <1>1, <1>2, <1>6, <2>1, RaiseKeeps DEF history
<1> QED BY <1>4, <1>5, <1>6 DEF AskOffset

\* After a TikTok range comes the next one of iter_ranges, or the end of the file.
LEMMA NextRange ==
    ASSUME Inv, pc = "send", route = "tiktok", end # size
    PROVE  /\ ~TooLarge(size) /\ RangeEnd(size, end \div ChunkSize(size)) \in end + 1..size
           /\ \E i \in 0..Total(size) - 1 :
                 /\ end = RangeStart(size, i)
                 /\ RangeEnd(size, end \div ChunkSize(size)) = RangeEnd(size, i)
<1>1. size \in Nat \ {0} /\ ~TooLarge(size)
  BY Numbers DEF Inv, RangeOK
<1>2. PICK i \in 0..Total(size) - 1 : offset = RangeStart(size, i) /\ end = RangeEnd(size, i)
  BY DEF Inv, RangeOK
<1>3. Total(size) \in Nat
  BY <1>1, TotalBounds, ChunkConstantsOK
<1>4. end = RangeStart(size, i + 1) /\ end \div ChunkSize(size) = i + 1 /\ i # Total(size) - 1
  BY <1>1, <1>2, RangesTile
<1>5. i + 1 \in 0..Total(size) - 1
  BY <1>3, <1>4
<1>6. /\ RangeStart(size, i + 1) \in 0..RangeEnd(size, i + 1) - 1
      /\ RangeEnd(size, i + 1) \in 1..size
  BY <1>1, <1>5, RangesTile
<1>7. RangeEnd(size, i + 1) \in end + 1..size
  BY <1>1, <1>4, <1>6
<1> QED BY <1>1, <1>4, <1>5, <1>7

\* After a range: the one that begins where it ended, or the end of the file.
LEMMA AfterRangeStep ==
    ASSUME Inv, pc = "send", NEW next \in AfterRange
    PROVE  /\ next \in Steps /\ next.offset = end
           /\ \/ next.pc = "send" /\ end < next.end
              \/ next.pc = "processing" /\ route = "tiktok" /\ end = size
              \/ next.pc = "finish" /\ route \in {"reel", "video"} /\ end = size
           /\ next.pc = "send" /\ route = "tiktok" =>
                 /\ ~TooLarge(size)
                 /\ \E i \in 0..Total(size) - 1 :
                       end = RangeStart(size, i) /\ next.end = RangeEnd(size, i)
<1>1. /\ size \in Nat \ {0} /\ Chunk \in Nat \ {0} /\ Window \in Nat \ {0}
      /\ end \in 0..size /\ route \in {"tiktok", "reel", "video"}
  BY Numbers DEF Inv, TypeOK, PlaceOK
<1>2. CASE route = "tiktok" /\ end = size
  <2>1. next = Step("processing", size, size)
    BY <1>2 DEF AfterRange
  <2> QED BY <1>1, <1>2, <2>1 DEF Step, Steps, Ended
<1>3. CASE route = "tiktok" /\ end # size
  <2> DEFINE e == RangeEnd(size, end \div ChunkSize(size))
  <2>1. next = Step("send", end, e)
    BY <1>3 DEF AfterRange
  <2>2. /\ ~TooLarge(size) /\ e \in end + 1..size
        /\ \E i \in 0..Total(size) - 1 : end = RangeStart(size, i) /\ e = RangeEnd(size, i)
    BY <1>3, NextRange
  <2> HIDE DEF e
  <2>3. next.pc = "send" /\ next.offset = end /\ next.end = e /\ next \in Steps
    BY <1>1, <2>1, <2>2 DEF Step, Steps, Requests
  <2>4. end < e
    BY <1>1, <2>2
  <2> QED BY <2>2, <2>3, <2>4
<1>4. CASE route = "reel"
  <2>1. next = ReelStep(end)
    BY <1>4 DEF AfterRange
  <2> QED BY <1>1, <1>4, <2>1, ReelStepOK
<1>5. CASE route = "video"
  <2>1. CASE end = size
    <3>1. next = Step("finish", size, size)
      BY <1>5, <2>1 DEF AfterRange
    <3> QED BY <1>1, <1>5, <2>1, <3>1 DEF Step, Steps, Requests
  <2>2. CASE end # size
    <3>1. PICK e \in end + 1..Least(end + Window, size) : next = Step("send", end, e)
      BY <1>5, <2>2 DEF AfterRange
    <3>2. e \in end + 1..size
      BY <1>1, <3>1 DEF Least
    <3> QED BY <1>1, <1>5, <3>1, <3>2 DEF Step, Steps, Requests
  <2> QED BY <2>1, <2>2
<1> QED BY <1>1, <1>2, <1>3, <1>4, <1>5

LEMMA SendRangeKeeps ==
    ASSUME Inv, SendRange PROVE Inv'
<1> DEFINE h == held \cup offset..end - 1
<1> DEFINE l == live \/ (route = "tiktok" /\ h = Whole)
<1>1. /\ pc = "send" /\ route \in {"tiktok", "reel", "video"} /\ route \notin OneRequest
      /\ size \in Nat \ {0} /\ offset \in 0..size /\ end \in 0..size /\ offset < end
      /\ live \in BOOLEAN /\ held \in SUBSET Whole
  BY Numbers DEF SendRange, Inv, TypeOK, PlaceOK, RangeOK, OneRequest
<1>2. h \in SUBSET Whole /\ held \subseteq h /\ l \in BOOLEAN /\ (live => l)
  BY <1>1 DEF Whole
<1>3. l /\ (~live \/ route \in OneRequest) => h = Whole
  BY <1>1
<1>4. attempt \notin stale => 0..end - 1 \subseteq h
  BY <1>1 DEF Inv, NothingSkipped
<1>5. CASE Refused
  BY <1>5, RefusedKeeps
<1>6. CASE Raise("storage", held, live) /\ UNCHANGED <<file, uploaded, history>>
  <2>1. Counted(live)
    BY <1>6, NotActedCounts DEF history
  <2> QED BY <1>1, <1>6, <2>1, RaiseKeeps DEF history
<1>7. CASE Unanswered(h, l)
  <2> HIDE DEF h, l
  <2> QED BY <1>1, <1>2, <1>3, <1>7, UnansweredKeeps DEF Ended
<1>8. ASSUME NEW next \in AfterRange, Answered(h, l, next), Progress(end) PROVE Inv'
  <2>1. /\ next \in Steps /\ next.offset = end
        /\ \/ next.pc = "send" /\ end < next.end
           \/ next.pc = "processing" /\ route = "tiktok" /\ end = size
           \/ next.pc = "finish" /\ route \in {"reel", "video"} /\ end = size
        /\ next.pc = "send" /\ route = "tiktok" =>
              /\ ~TooLarge(size)
              /\ \E i \in 0..Total(size) - 1 :
                    end = RangeStart(size, i) /\ next.end = RangeEnd(size, i)
    BY <1>1, AfterRangeStep
  <2>2. uploaded' = end
    BY <1>8 DEF Progress
  <2>3. route = "tiktok" /\ end = size => l
    BY <1>1, <1>2, <1>4 DEF Inv, PlaceOK, Whole
  <2> HIDE DEF h, l
  <2>4. TypeOK' /\ PostsOK' /\ PostIsWhole'
    BY <1>1, <1>2, <1>3, <1>8, <2>1, <2>2, AnsweredKeeps
  <2>5. /\ pc' = next.pc /\ offset' = end /\ end' = next.end /\ held' = h /\ live' = l
        /\ size' = size /\ route' = route /\ attempt' = attempt /\ stale' = stale
    BY <1>8, <2>1 DEF Answered, Leaves, file
  <2>6. PlaceOK' /\ FreshOK' /\ NothingSkipped'
    BY <1>1, <1>4, <2>1, <2>5 DEF Inv, PlaceOK, FreshOK, NothingSkipped
  <2>7. RangeOK' /\ ReturnsLivePost'
    BY <2>1, <2>2, <2>3, <2>5 DEF RangeOK, ReturnsLivePost
  <2> QED BY <2>4, <2>6, <2>7 DEF Inv
<1> QED BY <1>5, <1>6, <1>7, <1>8 DEF SendRange

LEMMA GiveUrlKeeps ==
    ASSUME Inv, GiveUrl PROVE Inv'
<1>1. /\ pc = "give" /\ route = "reel_url" /\ route \notin OneRequest
      /\ live \in BOOLEAN /\ held \subseteq Whole /\ size \in Nat \ {0}
  BY Numbers DEF GiveUrl, Inv, TypeOK, PlaceOK, OneRequest
<1>2. CASE Refused
  BY <1>2, RefusedKeeps
<1>3. CASE Unanswered(Whole, live)
  BY <1>1, <1>3, UnansweredKeeps DEF Ended
<1>4. CASE Answered(Whole, live, Step("finish", size, size)) /\ Progress(size)
  <2>1. Step("finish", size, size) \in Steps /\ uploaded' \in 0..size
    BY <1>1, <1>4 DEF Step, Steps, Requests, Progress
  <2>2. TypeOK' /\ PostsOK' /\ PostIsWhole'
    BY <1>1, <1>4, <2>1, AnsweredKeeps
  <2>3. PlaceOK' /\ FreshOK' /\ RangeOK' /\ NothingSkipped' /\ ReturnsLivePost'
    BY <1>1, <1>4 DEF Inv, Answered, Leaves, Step, Progress, file, Whole, PlaceOK, FreshOK,
          RangeOK, NothingSkipped, ReturnsLivePost
  <2> QED BY <2>2, <2>3 DEF Inv
<1> QED BY <1>2, <1>3, <1>4 DEF GiveUrl

LEMMA FinishKeeps ==
    ASSUME Inv, Finish PROVE Inv'
<1>1. /\ pc = "finish" /\ route \in {"reel", "reel_url", "video"} /\ route \notin OneRequest
      /\ live \in BOOLEAN /\ held \in SUBSET Whole /\ size \in Nat \ {0}
      /\ offset = size /\ uploaded = size
  BY Numbers DEF Finish, Inv, TypeOK, PlaceOK, RangeOK, OneRequest
<1>2. held = Whole \/ attempt \in stale
  BY <1>1 DEF Inv, NothingSkipped, Whole
<1>3. CASE Refused
  BY <1>3, RefusedKeeps
<1>4. CASE Unanswered(held, TRUE)
  BY <1>1, <1>2, <1>4, UnansweredKeeps DEF Ended
<1>5. CASE Answered(held, TRUE, Step("processing", size, size)) /\ UNCHANGED uploaded
  <2>1. Step("processing", size, size) \in Steps /\ uploaded' \in 0..size
    BY <1>1, <1>5 DEF Step, Steps, Ended
  <2>2. TypeOK' /\ PostsOK' /\ PostIsWhole'
    BY <1>1, <1>2, <1>5, <2>1, AnsweredKeeps
  <2>3. PlaceOK' /\ FreshOK' /\ RangeOK' /\ NothingSkipped' /\ ReturnsLivePost'
    BY <1>1, <1>5 DEF Inv, Answered, Leaves, Step, file, PlaceOK, FreshOK, RangeOK,
          NothingSkipped, ReturnsLivePost
  <2> QED BY <2>2, <2>3 DEF Inv
<1> QED BY <1>3, <1>4, <1>5 DEF Finish
-----------------------------------------------------------------------------
LEMMA InvStep == Inv /\ [Next]_vars => Inv'
<1> SUFFICES ASSUME Inv, [Next]_vars PROVE Inv'
  OBVIOUS
<1>1. CASE UNCHANGED vars
  BY <1>1 DEF Inv, vars, file, cursor, history, TypeOK, PlaceOK, FreshOK, RangeOK, NothingSkipped,
              PostsOK, PostIsWhole, ReturnsLivePost, Whole
<1>2. CASE Next
  BY <1>2, QueryCreatorKeeps, OpenSessionKeeps, PostByUrlKeeps, AskOffsetKeeps, SendRangeKeeps,
     GiveUrlKeeps, FinishKeeps DEF Next
<1> QED BY <1>1, <1>2

LEMMA InvCorrect == Spec => []Inv
  BY InvInit, InvStep, PTL DEF Spec

\* The type invariant, for files of any size and any configuration: above all, no
\* offset or range leaves the file, and attempts and retries stay bounded.
THEOREM TypeCorrect == Spec => []TypeOK
<1>1. Inv => TypeOK
  BY DEF Inv
<1> QED BY <1>1, InvCorrect, PTL

\* Whatever is refused, repeated, lost or late, an attempt that posts less than the
\* file is one that began at the offset of an earlier session (`_server_offset`).
THEOREM PostsAreWhole == Spec => []PostIsWhole
<1>1. Inv => PostIsWhole
  BY DEF Inv
<1> QED BY <1>1, InvCorrect, PTL

\* Through a session no attempt posts twice, however often with_retries repeats a
\* request that the platform has acted on.
THEOREM SessionsPostOnce == Spec => []OnePostPerAttempt
<1>1. Inv => OnePostPerAttempt
  <2> SUFFICES ASSUME Inv, route \notin OneRequest PROVE posts <= attempt
    BY DEF OnePostPerAttempt
  <2>1. posts \in Nat /\ attempt \in Nat /\ posts <= attempt - 1 + (IF live THEN 1 ELSE 0)
    BY Numbers DEF Inv, TypeOK, PostsOK
  <2> QED BY <2>1
<1> QED BY <1>1, InvCorrect, PTL

\* An id that publish returns for polling is that of a post that exists, and the
\* progress recorded with it is the whole file.
THEOREM PolledPostsExist == Spec => []ReturnsLivePost
<1>1. Inv => ReturnsLivePost
  BY DEF Inv
<1> QED BY <1>1, InvCorrect, PTL
-----------------------------------------------------------------------------
(***************************************************************************)
(* What each request is in PublishAttempts.                                *)
(***************************************************************************)

\* What a request that leaves the session posted if l has posted.
Effect(l) ==
    \/ posts' = posts /\ l = live
    \/ posts' = posts + 1 /\ l = TRUE /\ (~live \/ route \in OneRequest)

LEMMA ActsEffect ==
    ASSUME Inv, NEW h, NEW l \in BOOLEAN, live => l, Acts(h, l) PROVE Effect(l)
<1>1. live \in BOOLEAN /\ posts \in Nat
  BY DEF Inv, TypeOK
<1> QED BY <1>1 DEF Acts, Effect

\* The call is not over, and what a request has posted shows.
LEMMA EffectCalls ==
    ASSUME Inv, pc \notin Ended, NEW l \in BOOLEAN, Effect(l), UNCHANGED file
    PROVE  /\ Call!Calls
           /\ Call!Posts \/ Call!PostsNot
           /\ Call!Posted <=> l
<1>1. live \in BOOLEAN /\ posts \in Nat
  BY DEF Inv, TypeOK
<1>2. StageNow = IF live THEN "posted" ELSE "calling"
  BY DEF StageNow, Ended
<1>3. Call!Calls
  BY <1>2 DEF Call!Calls, Call!Open, file
<1>4. Call!Posts \/ Call!PostsNot
  BY <1>1, <1>2 DEF Effect, Call!Posts, Call!PostsNot
<1>5. Call!Posted <=> l
  BY <1>1, <1>2 DEF Effect, Call!Posted
<1> QED BY <1>3, <1>4, <1>5

LEMMA RaiseIsCall ==
    ASSUME Inv, pc \notin Ended, NEW kind, NEW h, NEW l \in BOOLEAN, Raise(kind, h, l),
           Effect(l), UNCHANGED file
    PROVE  Call!Next
<1>1. CASE Fail(h, l)
  <2>1. StageNow' = "failed" /\ UNCHANGED attempt
    BY <1>1 DEF Fail, StageNow
  <2> QED BY <2>1, EffectCalls DEF Call!Next, Call!Fails
<1>2. CASE attempt < MaxAttempts /\ Requeue
  <2>1. StageNow' = "calling"
    BY <1>2 DEF Requeue, Leaves, Start, StageNow
  <2> QED BY <1>2, <2>1, EffectCalls DEF Requeue, Call!Next, Call!TriesAgain
<1> QED BY <1>1, <1>2 DEF Raise

\* The attempt goes on, with its session posted if l.
LEMMA GoesOnIsCall ==
    ASSUME Inv, pc \notin Ended, pc' \notin Ended, NEW l \in BOOLEAN, live' = l,
           Effect(l), UNCHANGED <<file, attempt>>
    PROVE  Call!Next
<1>1. StageNow' = IF l THEN "posted" ELSE "calling"
  BY DEF StageNow, Ended
<1>2. Call!GoesOn
  BY <1>1, EffectCalls DEF Call!GoesOn
<1> QED BY <1>2, EffectCalls DEF Call!Next

LEMMA FailsIsCall ==
    ASSUME Inv, pc \notin Ended, NEW kind, NEW h, NEW l \in BOOLEAN, Fails(kind, h, l),
           Effect(l), UNCHANGED file
    PROVE  Call!Next
<1>1. CASE Again(h, l)
  BY <1>1, GoesOnIsCall DEF Again, Leaves
<1>2. CASE Raise(kind, h, l)
  BY <1>2, RaiseIsCall
<1> QED BY <1>1, <1>2 DEF Fails

LEMMA UnansweredIsCall ==
    ASSUME Inv, pc \notin Ended, NEW h, NEW l \in BOOLEAN, live => l, Unanswered(h, l)
    PROVE  Call!Next
<1>1. live \in BOOLEAN /\ UNCHANGED file
  BY DEF Inv, TypeOK, Unanswered
<1>2. PICK kind \in {"busy", "transport"} :
          \/ Acts(h, l) /\ Fails(kind, h, l)
          \/ UNCHANGED <<posts, short>> /\ Fails(kind, held, live)
  BY DEF Unanswered
<1>3. CASE Acts(h, l) /\ Fails(kind, h, l)
  BY <1>1, <1>3, ActsEffect, FailsIsCall
<1>4. CASE UNCHANGED <<posts, short>> /\ Fails(kind, held, live)
  <2>1. Effect(live)
    BY <1>4 DEF Effect
  <2> QED BY <1>1, <1>4, <2>1, FailsIsCall
<1> QED BY <1>2, <1>3, <1>4

\* An exception after a request that has done nothing.
LEMMA FruitlessIsCall ==
    ASSUME Inv, pc \notin Ended, NEW kind, Raise(kind, held, live), UNCHANGED <<file, posts>>
    PROVE  Call!Next
<1>1. live \in BOOLEAN /\ Effect(live)
  BY DEF Inv, TypeOK, Effect
<1> QED BY <1>1, RaiseIsCall

\* An answer: the attempt goes on, or the id of a post that exists is returned.
LEMMA AnsweredIsCall ==
    ASSUME Inv, ReturnsLivePost', pc \notin Ended, NEW h, NEW l \in BOOLEAN, live => l, NEW next,
           Answered(h, l, next), next.pc # "failed"
    PROVE  Call!Next
<1>1. /\ Effect(l) /\ live' = l /\ pc' = next.pc
      /\ UNCHANGED <<file, attempt>>
  BY ActsEffect DEF Answered, Leaves
<1>2. CASE next.pc = "processing"
  <2>1. StageNow' = "started" /\ l = TRUE
    BY <1>1, <1>2 DEF StageNow, ReturnsLivePost
  <2> QED BY <1>1, <2>1, EffectCalls DEF Call!Next, Call!ReturnsId
<1>3. CASE next.pc # "processing"
  BY <1>1, <1>3, GoesOnIsCall DEF Ended
<1> QED BY <1>2, <1>3

LEMMA CallStep ==
    ASSUME Inv, Inv', Next PROVE Call!Next
<1>1. /\ live \in BOOLEAN /\ size \in Nat \ {0} /\ Chunk \in Nat \ {0}
      /\ resume \in 0..size /\ ReturnsLivePost'
  BY Numbers DEF Inv, TypeOK
<1>2. pc \notin Ended
  BY DEF Next, QueryCreator, OpenSession, PostByUrl, AskOffset, SendRange, GiveUrl, Finish, Ended
<1>3. ASSUME Refused PROVE Call!Next
  BY <1>2, <1>3, FruitlessIsCall DEF Refused, history
<1>4. CASE QueryCreator
  <2>1. CASE Answered(held, live, Step("open", 0, 0))
    BY <1>1, <1>2, <2>1, AnsweredIsCall DEF Step
  <2>2. ASSUME NEW kind, Raise(kind, held, live), UNCHANGED <<file, history>> PROVE Call!Next
    BY <1>2, <2>2, FruitlessIsCall DEF history
  <2> QED BY <1>4, <2>1, <2>2 DEF QueryCreator
<1>5. CASE OpenSession
  <2>1. CASE Unanswered(held, live)
    BY <1>1, <1>2, <2>1, UnansweredIsCall
  <2>2. ASSUME NEW next \in Opening, ~CannotPlan, Answered(held, live, next) PROVE Call!Next
    <3>1. next.pc # "failed"
      BY <1>5, <2>2, OpeningStep DEF OpenSession
    <3> QED BY <1>1, <1>2, <2>2, <3>1, AnsweredIsCall
  <2> QED BY <1>3, <1>5, <2>1, <2>2 DEF OpenSession
<1>6. CASE PostByUrl
  <2>1. CASE Unanswered(Whole, TRUE)
    BY <1>1, <1>2, <2>1, UnansweredIsCall
  <2>2. CASE Answered(Whole, TRUE, Step("processing", 0, 0))
    BY <1>1, <1>2, <2>2, AnsweredIsCall DEF Step
  <2> QED BY <1>3, <1>6, <2>1, <2>2 DEF PostByUrl
<1>7. CASE AskOffset
  <2>1. CASE Answered(held, live, ReelStep(Cardinality(held)))
    <3>1. ReelStep(Cardinality(held)).pc # "failed"
      BY DEF ReelStep, Step
    <3> QED BY <1>1, <1>2, <2>1, <3>1, AnsweredIsCall
  <2>2. CASE /\ pc' = ReelStep(resume).pc
             /\ UNCHANGED <<file, attempt, held, live, posts>>
    <3>1. pc' \notin Ended
      BY <1>1, <2>2, ReelStepOK DEF Ended
    <3>2. Effect(live)
      BY <2>2 DEF Effect
    <3> QED BY <1>1, <1>2, <2>2, <3>1, <3>2, GoesOnIsCall
  <2>3. CASE Raise("transport", held, live) /\ UNCHANGED <<file, history>>
    BY <1>2, <2>3, FruitlessIsCall DEF history
  <2> QED BY <1>7, <2>1, <2>2, <2>3 DEF AskOffset
<1>8. CASE SendRange
  <2> DEFINE h == held \cup offset..end - 1
  <2> DEFINE l == live \/ (route = "tiktok" /\ h = Whole)
  <2>1. l \in BOOLEAN /\ (live => l)
    BY <1>1
  <2>2. CASE Raise("storage", held, live) /\ UNCHANGED <<file, uploaded, history>>
    BY <1>2, <2>2, FruitlessIsCall DEF history
  <2>3. CASE Unanswered(h, l)
    <3> HIDE DEF h, l
    <3> QED BY <1>2, <2>1, <2>3, UnansweredIsCall
  <2>4. ASSUME NEW next \in AfterRange, Answered(h, l, next) PROVE Call!Next
    <3>1. next.pc # "failed"
      BY <1>8, AfterRangeStep DEF SendRange
    <3> HIDE DEF h, l
    <3> QED BY <1>1, <1>2, <2>1, <2>4, <3>1, AnsweredIsCall
  <2> QED BY <1>3, <1>8, <2>2, <2>3, <2>4 DEF SendRange
<1>9. CASE GiveUrl
  <2>1. CASE Unanswered(Whole, live)
    BY <1>1, <1>2, <2>1, UnansweredIsCall
  <2>2. CASE Answered(Whole, live, Step("finish", size, size))
    BY <1>1, <1>2, <2>2, AnsweredIsCall DEF Step
  <2> QED BY <1>3, <1>9, <2>1, <2>2 DEF GiveUrl
<1>10. CASE Finish
  <2>1. CASE Unanswered(held, TRUE)
    BY <1>1, <1>2, <2>1, UnansweredIsCall
  <2>2. CASE Answered(held, TRUE, Step("processing", size, size))
    BY <1>1, <1>2, <2>2, AnsweredIsCall DEF Step
  <2> QED BY <1>3, <1>10, <2>1, <2>2 DEF Finish
<1> QED BY <1>4, <1>5, <1>6, <1>7, <1>8, <1>9, <1>10 DEF Next

\* For files of any size, any configuration and any answers, a run of requests is a call
\* as run_publish_job makes it: it posts once an attempt, but for routes that post with a
\* single request, returns an id only of a post, and repeats while attempts are left.
THEOREM TransferImplementsCall == Spec => ImplementsCall
<1>1. Init => Call!Init
  <2> SUFFICES ASSUME Init PROVE Call!Init
    OBVIOUS
  <2>1. StageNow = "calling"
    BY DEF Init, Start, StageNow
  <2> QED BY <2>1 DEF Init, Call!Init
<1>2. Inv /\ Inv' /\ [Next]_vars => [Call!Next]_(Call!vars)
  <2>1. UNCHANGED vars => UNCHANGED Call!vars
    BY DEF vars, file, history, StageNow, Call!vars
  <2> QED BY <2>1, CallStep
<1> QED BY <1>1, <1>2, InvCorrect, PTL DEF Spec, ImplementsCall, Call!Spec
-----------------------------------------------------------------------------
(***************************************************************************)
(* How far the task has come: its attempt, the kind of its next request,    *)
(* where in the file that is, and how often it has failed, read as the       *)
(* digits of one number.                                                   *)
(***************************************************************************)
Phase ==
    CASE pc = "creator" -> 0
      [] pc = "open" -> 1
      [] pc = "ask" -> 2
      [] pc \in {"send", "give"} -> 3
      [] pc = "finish" -> 4
      [] OTHER -> 5

\* A number of two digits, of which the second is less than k.
Two(a, k, b) == a * k + b

Place == Two(attempt, 6, Phase)
Spots == size + 1
Spot == Two(Place, Spots, offset)
Rank == Two(Spot, Retries, tries)
MaxRank == (MaxAttempts + 1) * 6 * Spots * Retries

Later ==
    \/ attempt' > attempt
    \/ attempt' = attempt /\ Phase' > Phase
    \/ attempt' = attempt /\ Phase' = Phase /\ offset' > offset
    \/ attempt' = attempt /\ Phase' = Phase /\ offset' = offset /\ tries' > tries

LEMMA Digits ==
    ASSUME NEW a \in Nat, NEW c \in Nat, NEW k \in Nat \ {0}, NEW b \in 0..k - 1, NEW d \in 0..k - 1
    PROVE  /\ Two(a, k, b) \in Nat /\ c * k \in Nat
           /\ a < c => Two(a, k, b) < Two(c, k, d) /\ Two(a, k, b) < c * k
           /\ b < d => Two(a, k, b) < Two(a, k, d)
<1>1. a * k \in Nat /\ c * k \in Nat
  OBVIOUS
<1>2. ASSUME a < c PROVE a * k + k <= c * k
  <2>1. c - a \in Nat /\ c - a >= 1
    BY <1>2
  <2>2. (c - a) * k >= k
    BY <2>1
  <2>3. c * k = a * k + (c - a) * k
    BY <2>1
  <2> QED BY <1>1, <2>2, <2>3
<1> QED BY <1>1, <1>2 DEF Two

\* The digits are in their ranges.
LEMMA DigitTypes ==
    ASSUME TypeOK
    PROVE  /\ attempt \in Nat /\ attempt < MaxAttempts + 1 /\ MaxAttempts + 1 \in Nat
           /\ Phase \in 0..6 - 1 /\ 6 \in Nat \ {0}
           /\ Spots \in Nat \ {0} /\ offset \in 0..Spots - 1
           /\ Retries \in Nat \ {0} /\ tries \in 0..Retries - 1
  BY Numbers DEF TypeOK, Phase, Spots

LEMMA RankType == TypeOK => Rank \in Nat /\ Rank < MaxRank
<1> SUFFICES ASSUME TypeOK PROVE Rank \in Nat /\ Rank < MaxRank
  OBVIOUS
<1> DEFINE places == (MaxAttempts + 1) * 6
<1> DEFINE spots == places * Spots
<1>1. Place \in Nat /\ Place < places /\ places \in Nat
  BY DigitTypes, Digits DEF Place
<1> HIDE DEF places
<1>2. Spot \in Nat /\ Spot < spots /\ spots \in Nat
  BY <1>1, DigitTypes, Digits DEF Spot
<1> HIDE DEF spots
<1>3. Rank \in Nat /\ Rank < spots * Retries
  BY <1>2, DigitTypes, Digits DEF Rank
<1> QED BY <1>3 DEF MaxRank, places, spots

LEMMA LaterGrows ==
    ASSUME TypeOK, TypeOK', size' = size, Later PROVE Rank' > Rank
<1>1. /\ attempt' \in Nat /\ Phase' \in 0..6 - 1
      /\ Spots' = Spots /\ offset' \in 0..Spots - 1 /\ tries' \in 0..Retries - 1
  BY TransferConstantsOK DEF TypeOK, Phase, Spots
<1>2. Place \in Nat /\ Place' \in Nat
  BY <1>1, DigitTypes, Digits DEF Place
<1>3. Spot \in Nat /\ Spot' \in Nat
  BY <1>1, <1>2, DigitTypes, Digits DEF Spot
<1>4. Rank \in Nat /\ Rank' \in Nat
  BY <1>1, <1>3, DigitTypes, Digits DEF Rank
<1>5. \/ Place < Place'
      \/ Place' = Place /\ offset < offset'
      \/ Place' = Place /\ offset' = offset /\ tries < tries'
  <2>1. attempt < attempt' => Place < Place'
    BY <1>1, DigitTypes, Digits DEF Place
  <2>2. attempt' = attempt /\ Phase < Phase' => Place < Place'
    BY <1>1, DigitTypes, Digits DEF Place
  <2>3. attempt' = attempt /\ Phase' = Phase => Place' = Place
    BY DEF Place
  <2> QED BY <1>1, <2>1, <2>2, <2>3, DigitTypes DEF Later
<1>6. Spot < Spot' \/ (Spot' = Spot /\ tries < tries')
  <2>1. Place < Place' => Spot < Spot'
    BY <1>1, <1>2, DigitTypes, Digits DEF Spot
  <2>2. Place' = Place /\ offset < offset' => Spot < Spot'
    BY <1>1, <1>2, DigitTypes, Digits DEF Spot
  <2>3. Place' = Place /\ offset' = offset => Spot' = Spot
    BY <1>1 DEF Spot
  <2> QED BY <1>5, <2>1, <2>2, <2>3
<1>7. Rank < Rank'
  <2>1. Spot < Spot' => Rank < Rank'
    BY <1>1, <1>3, DigitTypes, Digits DEF Rank
  <2>2. Spot' = Spot /\ tries < tries' => Rank < Rank'
    BY <1>1, <1>3, DigitTypes, Digits DEF Rank
  <2> QED BY <1>6, <2>1, <2>2
<1> QED BY <1>4, <1>7

\* An attempt that ends.
LEMMA RaiseLater ==
    ASSUME Inv, pc \notin Ended, NEW kind, NEW h, NEW l, Raise(kind, h, l) PROVE Later
<1>1. CASE Fail(h, l)
  BY <1>1 DEF Fail, Inv, TypeOK, Phase, Later, Ended
<1>2. CASE Requeue
  BY <1>2, Numbers DEF Requeue, Inv, Later
<1> QED BY <1>1, <1>2 DEF Raise

LEMMA UnansweredLater ==
    ASSUME Inv, pc \notin Ended, NEW h, NEW l, Unanswered(h, l) PROVE Later
<1>1. PICK kind, g, m : Fails(kind, g, m)
  BY DEF Unanswered
<1>2. CASE tries' = tries + 1 /\ Again(g, m)
  BY <1>2, Numbers DEF Again, cursor, Inv, TypeOK, Phase, Later
<1>3. CASE Raise(kind, g, m)
  BY <1>3, RaiseLater
<1> QED BY <1>1, <1>2, <1>3 DEF Fails

LEMMA StepLater == ASSUME Inv, Next PROVE Later /\ size' = size
<1>0. size' = size
  BY DEF Next, QueryCreator, OpenSession, PostByUrl, AskOffset, SendRange, GiveUrl, Finish,
     Refused, Unanswered, Answered, file
<1> SUFFICES Later
  BY <1>0
<1>1. pc \notin Ended
  BY DEF Next, QueryCreator, OpenSession, PostByUrl, AskOffset, SendRange, GiveUrl, Finish, Ended
<1>2. ASSUME Refused PROVE Later
  BY <1>1, <1>2, RaiseLater DEF Refused
<1>3. CASE QueryCreator
  <2>1. CASE Answered(held, live, Step("open", 0, 0))
    BY <1>3, <2>1 DEF QueryCreator, Answered, Step, Phase, Later
  <2> QED BY <1>1, <1>3, <2>1, RaiseLater DEF QueryCreator
<1>4. CASE OpenSession
  <2>1. ASSUME NEW next \in Opening, ~CannotPlan, Answered(held, live, next) PROVE Later
    <3>1. next.pc \in {"send", "ask", "give"}
      BY <1>4, <2>1, OpeningStep DEF OpenSession
    <3> QED BY <1>4, <2>1, <3>1 DEF OpenSession, Answered, Phase, Later
  <2> QED BY <1>1, <1>2, <1>4, <2>1, UnansweredLater DEF OpenSession
<1>5. CASE PostByUrl
  <2>1. CASE Answered(Whole, TRUE, Step("processing", 0, 0))
    BY <1>5, <2>1 DEF PostByUrl, Answered, Step, Phase, Later
  <2> QED BY <1>1, <1>2, <1>5, <2>1, UnansweredLater DEF PostByUrl
<1>6. CASE AskOffset
  <2>1. ASSUME NEW from, pc' = ReelStep(from).pc, UNCHANGED attempt PROVE Later
    <3>1. pc' \in {"send", "finish"}
      BY <2>1 DEF ReelStep, Step
    <3> QED BY <1>6, <2>1, <3>1 DEF AskOffset, Phase, Later
  <2>2. CASE Raise("transport", held, live)
    BY <1>1, <2>2, RaiseLater
  <2> QED BY <1>6, <2>1, <2>2 DEF AskOffset, Answered
<1>7. CASE SendRange
  <2>1. ASSUME NEW h, NEW l, NEW next \in AfterRange, Answered(h, l, next) PROVE Later
    <3>1. pc = "send" /\ offset < end
      BY <1>7 DEF SendRange, Inv, RangeOK
    <3>2. next.offset = end /\ next.pc \in {"send", "processing", "finish"}
      BY <3>1, AfterRangeStep
    <3> QED BY <2>1, <3>1, <3>2, Numbers DEF Inv, TypeOK, Answered, Phase, Later
  <2> QED BY <1>1, <1>2, <1>7, <2>1, RaiseLater, UnansweredLater DEF SendRange
<1>8. CASE GiveUrl
  <2>1. CASE Answered(Whole, live, Step("finish", size, size))
    BY <1>8, <2>1 DEF GiveUrl, Answered, Step, Phase, Later
  <2> QED BY <1>1, <1>2, <1>8, <2>1, UnansweredLater DEF GiveUrl
<1>9. CASE Finish
  <2>1. CASE Answered(held, TRUE, Step("processing", size, size))
    BY <1>9, <2>1 DEF Finish, Answered, Step, Phase, Later
  <2> QED BY <1>1, <1>2, <1>9, <2>1, UnansweredLater DEF Finish
<1> QED BY <1>3, <1>4, <1>5, <1>6, <1>7, <1>8, <1>9 DEF Next

\* A task makes a bounded number of requests, whatever is refused, lost or repeated:
\* each is followed by one of a higher rank, and no rank is above a bound that depends on
\* the size of the file, MAX_ATTEMPTS and the attempts of with_retries only.  A feed
\* video's ranges rise because the platform is assumed to move its windows on (AfterRange).
THEOREM RequestsAreBounded ==
    Spec => [](Rank \in Nat /\ Rank < MaxRank) /\ [][Rank' > Rank /\ size' = size]_vars
<1>1. Inv => TypeOK
  BY DEF Inv
<1>2. Inv /\ Inv' /\ [Next]_vars => [Rank' > Rank /\ size' = size]_vars
  BY <1>1, StepLater, LaterGrows DEF Inv
<1> QED BY <1>1, <1>2, RankType, InvCorrect, PTL DEF Spec
=============================================================================
