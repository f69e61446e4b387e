--------------------------- MODULE SeriesDesk_proofs ---------------------------
(***************************************************************************)
(* Theorems about SeriesDesk, for any objects, platforms, request threads    *)
(* and part numbers.                                                        *)
(*                                                                         *)
(* The argument: the constraints keep the numbers distinct at every commit,  *)
(* so the parts are counted by their numbers; and a number below the count   *)
(* of distinct numbers is not the largest of them, which is why a caption    *)
(* rendered against the counted total points to a later part.                *)
(***************************************************************************)
EXTENDS SeriesDesk, FiniteSetTheorems, TLAPS

\* What the invariant adds: a request that writes one part names it, and the
\* captions it is about to queue are honest like those that were queued.
Sound(r) ==
    /\ r.kind \in {"register", "update"} => r.objs # {}
    /\ r.kind = "register" => r.hook # "keep"
    /\ \A q \in Pairs : Honest(r.queue[q])

RequestsSound == \A h \in Handlers : req[h] # Idle => Sound(req[h])

Inv == TypeOK /\ PartsStand /\ TeaserHonest /\ RequestsSound
-----------------------------------------------------------------------------
\* Distinct numbers count the parts.
LEMMA PartsCounted ==
    ASSUME TypeOK, PartsStand
    PROVE  /\ Indexes(parts) \subseteq Numbers
           /\ IsFiniteSet(Indexes(parts))
           /\ Cardinality(Present(parts)) = Cardinality(Indexes(parts))
           /\ Cardinality(Indexes(parts)) \in 0..Last
  <1>1. Indexes(parts) \subseteq Numbers
    BY DeskConstantsOK DEF TypeOK, Part, Indexes, Present, Numbers
  <1>2. /\ IsFiniteSet(Indexes(parts))
        /\ Cardinality(Indexes(parts)) \in 0..Last
    <2>1. IsFiniteSet(1..Last) /\ Cardinality(1..Last) = Last
      BY DeskConstantsOK, FS_Interval
    <2>2. /\ IsFiniteSet(Indexes(parts))
          /\ Cardinality(Indexes(parts)) <= Last
      BY <1>1, <2>1, FS_Subset DEF Numbers
    <2>3. Cardinality(Indexes(parts)) \in Nat
      BY <2>2, FS_CardinalityType
    <2> QED
      BY <2>2, <2>3, DeskConstantsOK
  <1>3. Cardinality(Present(parts)) = Cardinality(Indexes(parts))
    <2> DEFINE f == [o \in Present(parts) |-> parts[o].index]
    <2>1. f \in Injection(Present(parts), Indexes(parts))
      <3>1. f \in [Present(parts) -> Indexes(parts)]
        BY DEF Indexes
      <3>2. \A o, p \in Present(parts) : f[o] = f[p] => o = p
        BY DEF PartsStand
      <3> QED
        BY <3>1, <3>2 DEF Injection, IsInjective
    <2>2. f \in Surjection(Present(parts), Indexes(parts))
      BY DEF Surjection, Indexes
    <2> QED
      BY <1>2, <2>1, <2>2, FS_Injection
  <1> QED
    BY <1>1, <1>2, <1>3

\* A number below the count of a set of numbers is not the largest of them; and
\* without gaps below the largest, it is followed by its successor in the set.
LEMMA NextIsKnown ==
    ASSUME NEW S \in SUBSET Numbers, IsFiniteSet(S), NEW n \in S
    PROVE  /\ n < Cardinality(S) => \E m \in S : n < m
           /\ Missing(S) = {} => (n < Cardinality(S) <=> n + 1 \in S)
  <1> USE DeskConstantsOK DEF Numbers
  <1>0. Cardinality(S) \in Nat
    BY FS_CardinalityType
  <1>1. ASSUME n < Cardinality(S)
        PROVE  \E m \in S : n < m
    <2> SUFFICES ASSUME \A m \in S : ~(n < m)
                 PROVE  FALSE
      OBVIOUS
    <2>1. S \in SUBSET (1..n)
      OBVIOUS
    <2>2. IsFiniteSet(1..n) /\ Cardinality(1..n) = n
      BY FS_Interval
    <2>3. Cardinality(S) <= n
      BY <2>1, <2>2, FS_Subset
    <2> QED
      BY <1>0, <1>1, <2>3
  <1>2. ASSUME Missing(S) = {}, n < Cardinality(S)
        PROVE  n + 1 \in S
    <2>1. PICK m \in S : n < m
      BY <1>1, <1>2
    <2>2. CASE m = n + 1
      BY <2>2
    <2>3. CASE m # n + 1
      <3>1. n + 1 \in 1..Last /\ n + 1 < m
        BY <2>1, <2>3
      <3> QED
        BY <1>2, <3>1 DEF Missing
    <2> QED
      BY <2>2, <2>3
  <1>3. ASSUME Missing(S) = {}, n + 1 \in S
        PROVE  n < Cardinality(S)
    <2>1. 1..(n + 1) \in SUBSET S
      <3> SUFFICES ASSUME NEW k \in 1..(n + 1)
                   PROVE  k \in S
        OBVIOUS
      <3>1. k \in 1..Last /\ (k = n + 1 \/ k < n + 1)
        BY <1>3
      <3> QED
        BY <1>3, <3>1 DEF Missing
    <2>2. Cardinality(1..(n + 1)) = n + 1
      BY FS_Interval
    <2>3. Cardinality(1..(n + 1)) <= Cardinality(S)
      BY <2>1, FS_Subset
    <2> QED
      BY <1>0, <2>2, <2>3
  <1> QED
    BY <1>1, <1>2, <1>3

\* What publish_series renders for a part is a caption, and an honest one.
LEMMA RenderHonest ==
    ASSUME TypeOK, PartsStand, NEW o \in Present(parts)
    PROVE  Render(o) \in Caption /\ Honest(Render(o))
  <1> DEFINE S == Indexes(parts)
             n == parts[o].index
  <1>1. /\ S \in SUBSET Numbers /\ IsFiniteSet(S) /\ n \in S
        /\ Cardinality(Present(parts)) = Cardinality(S)
        /\ Cardinality(S) \in 0..Last
    BY PartsCounted DEF Indexes
  <1>2. n \in 1..Last /\ parts[o].hook \in Hooks /\ declared \in 0..Last
    BY <1>1 DEF Numbers, TypeOK, Part, Present, Totals
  <1>3. Total \in 0..Last /\ (declared = 0 => Total = Cardinality(S))
    BY <1>1, <1>2 DEF Total
  <1>4. NextOf(n) \in 0..Last /\ (NextOf(n) # 0 <=> n < Total)
    BY <1>2, <1>3, DeskConstantsOK DEF NextOf
  <1>5. Render(o) \in Caption
    BY <1>1, <1>2, <1>4 DEF Render, Caption, Numbers
  <1>6. Honest(Render(o))
    <2> SUFFICES ASSUME declared = 0
                 PROVE  /\ NextOf(n) # 0 => \E m \in S : n < m
                        /\ Missing(S) = {} => (NextOf(n) # 0 <=> n + 1 \in S)
      BY DEF Honest, Render
    <2> HIDE DEF S, n
    <2>1. NextOf(n) # 0 <=> n < Cardinality(S)
      BY <1>3, <1>4
    <2> QED
      BY <1>1, <2>1, NextIsKnown
  <1> QED
    BY <1>5, <1>6
-----------------------------------------------------------------------------
LEMMA InvInit == Init => Inv
  <1> SUFFICES ASSUME Init
               PROVE  Inv
    OBVIOUS
  <1>1. TypeOK
    <2>1. parts \in [Objects -> Part]
      BY DeskConstantsOK DEF Init, Part, NoPart, Hooks
    <2>2. title \in Titles /\ declared \in Totals /\ begun \in 0..MaxRequests
      BY DeskConstantsOK DEF Init, Titles, Totals
    <2>3. /\ jobs \in [Pairs -> Caption \cup {NoJob}]
          /\ req \in [Handlers -> Request \cup {Idle}]
          /\ assets \subseteq Objects /\ exists \in BOOLEAN
      BY DEF Init
    <2> QED
      BY <2>1, <2>2, <2>3 DEF TypeOK
  <1>2. PartsStand
    BY DEF Init, PartsStand, Present, NoPart
  <1>3. TeaserHonest /\ RequestsSound
    BY DEF Init, TeaserHonest, RequestsSound, Honest, Idle
  <1> QED
    BY <1>1, <1>2, <1>3 DEF Inv

\* A request that begins with what it may begin with keeps the invariant.
LEMMA BeginKeeps ==
    ASSUME Inv, NEW h \in Handlers, NEW r \in Request, Sound(r), Begin(h, r)
    PROVE  Inv'
  <1>1. TypeOK'
    BY DeskConstantsOK DEF Inv, TypeOK, Begin
  <1>2. PartsStand' /\ TeaserHonest'
    BY DEF Inv, PartsStand, TeaserHonest, Begin, Present
  <1>3. RequestsSound'
    BY DEF Inv, TypeOK, RequestsSound, Sound, Begin
  <1> QED
    BY <1>1, <1>2, <1>3 DEF Inv

\* A request that ends leaves the others as they were.
LEMMA EndsKeeps ==
    ASSUME Inv, NEW h \in Handlers, Ends(h)
    PROVE  /\ req' \in [Handlers -> Request \cup {Idle}]
           /\ begun' \in 0..MaxRequests
           /\ RequestsSound'
  BY DEF Inv, TypeOK, Ends, RequestsSound, Sound

\* Nothing is written by a request that is rolled back.
LEMMA RollsBackKeeps ==
    ASSUME Inv, NEW h \in Handlers, RollsBack(h)
    PROVE  Inv'
  <1>1. Ends(h) /\ UNCHANGED <<exists, title, declared, assets, parts, jobs>>
    BY DEF RollsBack
  <1>2. TypeOK'
    BY <1>1, EndsKeeps DEF Inv, TypeOK
  <1>3. PartsStand' /\ TeaserHonest'
    BY <1>1 DEF Inv, PartsStand, TeaserHonest, Present
  <1> QED
    BY <1>1, <1>2, <1>3, EndsKeeps DEF Inv

\* The arguments of a request that are not given are of their types.
LEMMA NothingTyped ==
    /\ Nothing \in Request
    /\ Nothing.kind = "delete" /\ Nothing.hook = "keep"
    /\ \A q \in Pairs : Honest(Nothing.queue[q])
  <1> DEFINE unread == [title |-> "blank", total |-> 0, part |-> NoPart]
             empty == [q \in Pairs |-> NoJob]
  <1>1. unread \in Row
    BY DeskConstantsOK DEF Row, Titles, Totals, Part, NoPart, Hooks
  <1>2. empty \in [Pairs -> Caption \cup {NoJob}] /\ \A q \in Pairs : Honest(empty[q])
    BY DEF Honest
  <1>3. Nothing = [kind |-> "delete", objs |-> {}, index |-> 0, hook |-> "keep",
                   overwrite |-> FALSE, total |-> 0, title |-> "blank",
                   seen |-> unread, queue |-> empty]
    BY DEF Nothing
  <1> HIDE DEF unread, empty
  <1> QED
    BY <1>1, <1>2, <1>3, DeskConstantsOK DEF Request, Kinds, Hooks, Titles, Totals

LEMMA InvNext == Inv /\ [Next]_vars => Inv'
  <1> SUFFICES ASSUME Inv, [Next]_vars
               PROVE  Inv'
    OBVIOUS
  <1>0. TypeOK /\ PartsStand /\ TeaserHonest /\ RequestsSound
    BY DEF Inv
  <1>1. ASSUME NEW h \in Handlers, NEW o \in Objects, NEW n \in Numbers,
               NEW k \in {"blank", "typed"}, BeginRegister(h, o, n, k)
        PROVE  Inv'
    <2> DEFINE r == [Nothing EXCEPT !.kind = "register", !.objs = {o}, !.index = n,
                                    !.hook = k, !.seen.title = title]
    <2>0. title \in Titles /\ k \in Hooks \cup {"keep"} /\ n \in 0..Last
      BY <1>0, DeskConstantsOK DEF TypeOK, Hooks, Numbers
    <2>1. r \in Request /\ Sound(r)
      <3>1. r \in Request
        BY <2>0, NothingTyped DEF Request, Kinds, Row
      <3>2. Sound(r)
        BY NothingTyped DEF Sound, Request
      <3> QED
        BY <3>1, <3>2
    <2> QED
      BY <1>1, <2>1, BeginKeeps DEF BeginRegister, r
  <1>2. ASSUME NEW h \in Handlers, NEW o \in Objects, NEW n \in 0..Last,
               NEW k \in {"blank", "typed", "keep"}, BeginUpdate(h, o, n, k)
        PROVE  Inv'
    <2> DEFINE r == [Nothing EXCEPT !.kind = "update", !.objs = {o}, !.index = n,
                                    !.hook = k, !.seen.part = parts[o]]
    <2>1. r \in Request /\ Sound(r)
      BY <1>0, NothingTyped
      DEF TypeOK, Request, Kinds, Hooks, Row, Sound
    <2> QED
      BY <1>2, <2>1, BeginKeeps DEF BeginUpdate, r
  <1>3. ASSUME NEW h \in Handlers, NEW o \in Objects, BeginRemove(h, o)
        PROVE  Inv'
    <2> DEFINE r == [Nothing EXCEPT !.kind = "remove", !.objs = {o}]
    <2>1. r \in Request /\ Sound(r)
      BY NothingTyped, DeskConstantsOK
      DEF Request, Kinds, Hooks, Titles, Totals, Sound
    <2> QED
      BY <1>3, <2>1, BeginKeeps DEF BeginRemove, r
  <1>4. ASSUME NEW h \in Handlers, BeginDelete(h)
        PROVE  Inv'
    <2>1. Nothing \in Request /\ Sound(Nothing)
      BY NothingTyped DEF Sound
    <2> QED
      BY <1>4, <2>1, BeginKeeps DEF BeginDelete
  <1>5. ASSUME NEW h \in Handlers, NEW n \in {0, Last}, NEW t \in {title, "blank", "typed"},
               BeginChange(h, n, t)
        PROVE  Inv'
    <2> DEFINE r == [Nothing EXCEPT !.kind = "change", !.total = n, !.title = t,
                                    !.seen.title = title, !.seen.total = declared]
    <2>0. title \in Titles /\ declared \in Totals /\ t \in Titles /\ n \in Totals
      BY <1>0, DeskConstantsOK DEF TypeOK, Titles, Totals
    <2>1. r \in Request /\ Sound(r)
      <3>1. r \in Request
        BY <2>0, NothingTyped DEF Request, Kinds, Row
      <3>2. Sound(r)
        BY NothingTyped DEF Sound, Request
      <3> QED
        BY <3>1, <3>2
    <2> QED
      BY <1>5, <2>1, BeginKeeps DEF BeginChange, r
  <1>6. ASSUME NEW h \in Handlers, NEW wanted \in Wanted, NEW overwrite \in BOOLEAN,
               BeginDraft(h, wanted, overwrite)
        PROVE  Inv'
    <2> DEFINE r == [Nothing EXCEPT !.kind = "draft", !.objs = Targeted(wanted, overwrite),
                                    !.overwrite = overwrite]
    <2>1. r \in Request /\ Sound(r)
      BY NothingTyped, DeskConstantsOK
      DEF Request, Kinds, Hooks, Titles, Totals, Sound, Targeted, Present
    <2> QED
      BY <1>6, <2>1, BeginKeeps DEF BeginDraft, r
  <1>7. ASSUME NEW h \in Handlers, NEW wanted \in Wanted, NEW targets \in SUBSET Platforms,
               BeginPublish(h, wanted, targets)
        PROVE  Inv'
    <2> DEFINE new == {q \in Pairs :
                         /\ q[1] \in Present(parts) /\ parts[q[1]].index \in wanted
                         /\ q[2] \in targets
                         /\ jobs[q] = NoJob}
               queue == [q \in Pairs |->
                           IF q \in new THEN Render(q[1]) ELSE NoJob]
               r == [Nothing EXCEPT !.kind = "publish", !.queue = queue]
    <2>1. \A q \in Pairs :
            /\ queue[q] \in Caption \cup {NoJob}
            /\ Honest(queue[q])
      <3> SUFFICES ASSUME NEW q \in Pairs
                   PROVE  queue[q] \in Caption \cup {NoJob} /\ Honest(queue[q])
        OBVIOUS
      <3>1. CASE q \in new
        BY <1>0, <3>1, RenderHonest
      <3>2. CASE q \notin new
        BY <3>2 DEF Honest
      <3> QED
        BY <3>1, <3>2
    <2> HIDE DEF queue
    <2>2. queue \in [Pairs -> Caption \cup {NoJob}]
      BY <2>1 DEF queue
    <2>3. r \in Request /\ Sound(r)
      BY <2>1, <2>2, NothingTyped DEF Request, Kinds, Sound, Nothing
    <2> QED
      BY <1>7, <2>3, BeginKeeps DEF BeginPublish, queue
  <1>8. ASSUME NEW h \in Handlers, Register(h)
        PROVE  Inv'
    <2> DEFINE r == req[h]
               o == CHOOSE x \in r.objs : TRUE
    <2>1. CASE RollsBack(h)
      BY <2>1, RollsBackKeeps
    <2>2. CASE ~RollsBack(h)
      <3>0. r \in Request /\ o \in Objects
        BY <1>0, <1>8 DEF Register, TypeOK, Request, RequestsSound, Sound
      <3>1. /\ exists /\ o \notin assets /\ Free(r.index, o)
            /\ assets' = assets \cup {o}
            /\ parts' = [parts EXCEPT ![o] = [index |-> r.index, hook |-> r.hook]]
            /\ title' \in {title, "named"}
            /\ Ends(h)
            /\ UNCHANGED <<exists, declared, jobs>>
        BY <1>8, <2>2 DEF Register
      <3>2. r.hook \in Hooks /\ r.index \in 0..Last
        BY <1>0, <1>8, <3>0 DEF Register, RequestsSound, Sound, Request
      <3>3. o \notin Present(parts)
        BY <1>0, <3>1 DEF PartsStand
      <3> HIDE DEF r, o
      <3>4. /\ parts' \in [Objects -> Part]
            /\ \A x \in Objects : x # o => parts'[x] = parts[x]
            /\ parts'[o].index = r.index
        BY <1>0, <3>0, <3>1, <3>2 DEF TypeOK, Part
      <3>5. TypeOK'
        BY <1>0, <3>0, <3>1, <3>4, EndsKeeps DEF TypeOK, Titles
      <3>6. PartsStand'
        BY <1>0, <3>0, <3>1, <3>3, <3>4 DEF PartsStand, Present, Free
      <3> QED
        BY <1>0, <3>1, <3>5, <3>6, EndsKeeps DEF Inv, TeaserHonest
    <2> QED
      BY <2>1, <2>2
  <1>9. ASSUME NEW h \in Handlers, Update(h)
        PROVE  Inv'
    <2> DEFINE r == req[h]
               o == CHOOSE x \in r.objs : TRUE
               moves == Changed(r.index, r.seen.part.index, 0)
               words == Changed(r.hook, r.seen.part.hook, "keep")
    <2>1. CASE RollsBack(h)
      BY <2>1, RollsBackKeeps
    <2>2. CASE ~RollsBack(h)
      <3>0. r \in Request
        BY <1>0, <1>9 DEF Update, TypeOK
      <3>1. /\ o \in Present(parts) /\ (moves => Free(r.index, o))
            /\ parts' = [parts EXCEPT ![o].index = IF moves THEN r.index ELSE @,
                                      ![o].hook = IF words THEN r.hook ELSE @]
            /\ Ends(h)
            /\ UNCHANGED <<exists, title, declared, assets, jobs>>
        BY <1>9, <2>2 DEF Update
      <3>2. /\ r.index \in 0..Last
            /\ words => r.hook \in Hooks
            /\ moves => r.index # 0
        BY <3>0 DEF Request, Changed
      <3> HIDE DEF r, o, moves, words
      <3>3. o \in Objects
        BY <3>1 DEF Present
      <3>4. /\ parts' \in [Objects -> Part]
            /\ \A x \in Objects : x # o => parts'[x] = parts[x]
            /\ parts'[o].index = IF moves THEN r.index ELSE parts[o].index
        BY <1>0, <3>1, <3>2, <3>3 DEF TypeOK, Part
      <3>5. TypeOK'
        BY <1>0, <3>1, <3>4, EndsKeeps DEF TypeOK
      <3>6. PartsStand'
        BY <1>0, <3>1, <3>3, <3>4 DEF PartsStand, Present, Free
      <3> QED
        BY <1>0, <3>1, <3>5, <3>6, EndsKeeps DEF Inv, TeaserHonest
    <2> QED
      BY <2>1, <2>2
  <1>10. ASSUME NEW h \in Handlers, Remove(h)
         PROVE  Inv'
    <2>1. /\ parts' = [o \in Objects |-> IF o \in req[h].objs THEN NoPart ELSE parts[o]]
          /\ Ends(h)
          /\ UNCHANGED <<exists, title, declared, assets, jobs>>
      BY <1>10 DEF Remove
    <2>2. parts' \in [Objects -> Part]
      BY <1>0, <2>1, DeskConstantsOK DEF TypeOK, Part, NoPart, Hooks
    <2>3. TypeOK'
      BY <1>0, <2>1, <2>2, EndsKeeps DEF TypeOK
    <2>4. PartsStand'
      BY <1>0, <2>1 DEF PartsStand, Present, NoPart
    <2> QED
      BY <1>0, <2>1, <2>3, <2>4, EndsKeeps DEF Inv, TeaserHonest
  <1>11. ASSUME NEW h \in Handlers, Delete(h)
         PROVE  Inv'
    <2>1. /\ exists' = FALSE
          /\ parts' = [o \in Objects |-> NoPart]
          /\ Ends(h)
          /\ UNCHANGED <<title, declared, assets, jobs>>
      BY <1>11 DEF Delete
    <2>2. parts' \in [Objects -> Part]
      BY <2>1, DeskConstantsOK DEF Part, NoPart, Hooks
    <2>3. TypeOK'
      BY <1>0, <2>1, <2>2, EndsKeeps DEF TypeOK
    <2>4. PartsStand'
      BY <2>1 DEF PartsStand, Present, NoPart
    <2> QED
      BY <1>0, <2>1, <2>3, <2>4, EndsKeeps DEF Inv, TeaserHonest
  <1>12. ASSUME NEW h \in Handlers, Change(h)
         PROVE  Inv'
    <2>1. CASE RollsBack(h)
      BY <2>1, RollsBackKeeps
    <2>2. CASE ~RollsBack(h)
      <3>1. /\ declared' \in {req[h].total, declared} /\ title' \in {req[h].title, title}
            /\ Ends(h)
            /\ UNCHANGED <<exists, assets, parts, jobs>>
        BY <1>12, <2>2 DEF Change
      <3>2. req[h].total \in Totals /\ req[h].title \in Titles
        BY <1>0, <1>12 DEF Change, TypeOK, Request
      <3>3. TypeOK'
        BY <1>0, <3>1, <3>2, EndsKeeps DEF TypeOK
      <3>4. PartsStand' /\ TeaserHonest'
        BY <1>0, <3>1 DEF PartsStand, TeaserHonest, Present
      <3> QED
        BY <3>1, <3>3, <3>4, EndsKeeps DEF Inv
    <2> QED
      BY <2>1, <2>2
  <1>13. ASSUME NEW h \in Handlers, Draft(h)
         PROVE  Inv'
    <2>1. CASE RollsBack(h)
      BY <2>1, RollsBackKeeps
    <2>2. CASE ~RollsBack(h)
      <3>1. PICK answered \in SUBSET req[h].objs :
              /\ parts' = [o \in Objects |->
                             IF o \in answered THEN [parts[o] EXCEPT !.hook = "drafted"]
                             ELSE parts[o]]
              /\ Ends(h)
              /\ UNCHANGED <<exists, title, declared, assets, jobs>>
        BY <1>13, <2>2 DEF Draft
      <3>2. /\ parts' \in [Objects -> Part]
            /\ \A o \in Objects : parts'[o].index = parts[o].index
        BY <1>0, <3>1 DEF TypeOK, Part, Hooks
      <3>3. TypeOK'
        BY <1>0, <3>1, <3>2, EndsKeeps DEF TypeOK
      <3>4. PartsStand'
        BY <1>0, <3>1, <3>2 DEF PartsStand, Present
      <3> QED
        BY <1>0, <3>1, <3>3, <3>4, EndsKeeps DEF Inv, TeaserHonest
    <2> QED
      BY <2>1, <2>2
  <1>14. ASSUME NEW h \in Handlers, Publish(h)
         PROVE  Inv'
    <2>1. CASE RollsBack(h)
      BY <2>1, RollsBackKeeps
    <2>2. CASE ~RollsBack(h)
      <3>1. /\ jobs' = [q \in Pairs |-> IF q \in Queued(h) THEN req[h].queue[q] ELSE jobs[q]]
            /\ Ends(h)
            /\ UNCHANGED <<exists, title, declared, assets, parts>>
        BY <1>14, <2>2 DEF Publish
      <3>2. /\ req[h].queue \in [Pairs -> Caption \cup {NoJob}]
            /\ \A q \in Pairs : Honest(req[h].queue[q])
        BY <1>0, <1>14 DEF Publish, TypeOK, Request, RequestsSound, Sound
      <3>3. jobs' \in [Pairs -> Caption \cup {NoJob}]
        BY <1>0, <3>1, <3>2 DEF TypeOK
      <3>4. TypeOK'
        BY <1>0, <3>1, <3>3, EndsKeeps DEF TypeOK
      <3>5. PartsStand'
        BY <1>0, <3>1 DEF PartsStand, Present
      <3>6. TeaserHonest'
        BY <1>0, <3>1, <3>2 DEF TeaserHonest
      <3> QED
        BY <3>1, <3>4, <3>5, <3>6, EndsKeeps DEF Inv
    <2> QED
      BY <2>1, <2>2
  <1>15. ASSUME NEW h \in Handlers, Dies(h)
         PROVE  Inv'
    BY <1>15, RollsBackKeeps DEF Dies
  <1>16. CASE UNCHANGED vars
    <2>1. TypeOK' /\ PartsStand' /\ TeaserHonest' /\ RequestsSound'
      BY <1>0, <1>16 DEF vars, TypeOK, PartsStand, Present, TeaserHonest, RequestsSound
    <2> QED
      BY <2>1 DEF Inv
  <1> QED
    BY <1>1, <1>2, <1>3, <1>4, <1>5, <1>6, <1>7, <1>8, <1>9, <1>10, <1>11, <1>12, <1>13,
       <1>14, <1>15, <1>16 DEF Next, Editing

LEMMA InvHolds == Spec => []Inv
  BY InvInit, InvNext, PTL DEF Spec
-----------------------------------------------------------------------------
\* Every variable of the desk keeps its type; in particular no caption points to
\* a part beyond the last number.
THEOREM TypeCorrect == Spec => []TypeOK
  BY InvHolds, PTL DEF Inv

\* Part numbers stay distinct, and parts have their assets and their series,
\* whatever requests overlap.
THEOREM PartsKeepTheirNumbers == Spec => []PartsStand
  BY InvHolds, PTL DEF Inv

\* A caption rendered against the counted total points to a later part, and
\* without gaps to the very next one, for any number of parts.
THEOREM TeasersAreHonest == Spec => []TeaserHonest
  BY InvHolds, PTL DEF Inv

\* A queued job never changes with the series.
THEOREM JobsKeepTheirText == Spec => JobsStay
  <1>1. [Next]_vars => [\A q \in Pairs : jobs[q] # NoJob => jobs'[q] = jobs[q]]_vars
    <2> SUFFICES ASSUME Next, NEW q \in Pairs, jobs[q] # NoJob
                 PROVE  jobs'[q] = jobs[q]
      OBVIOUS
    <2>1. CASE UNCHANGED jobs
      BY <2>1
    <2>2. CASE ~UNCHANGED jobs
      <3>1. PICK h \in Handlers : Publish(h) /\ ~RollsBack(h)
        BY <2>2 DEF Next, Editing, BeginRegister, BeginUpdate, BeginRemove, BeginDelete,
           BeginChange, BeginDraft, BeginPublish, Begin, Register, Update, Remove, Delete,
           Change, Draft, Publish, Dies, RollsBack
      <3>2. q \notin Queued(h)
        BY <3>1 DEF Publish
      <3> QED
        BY <3>1, <3>2 DEF Publish
    <2> QED
      BY <2>1, <2>2
  <1> QED
    BY <1>1, PTL DEF Spec, JobsStay

\* The steps by which a request ends.
Commits(h) == \/ Register(h) \/ Update(h) \/ Remove(h) \/ Delete(h) \/ Change(h)
              \/ Draft(h) \/ Publish(h) \/ Dies(h)

\* No request writes a column that it was not asked to change, whatever overlaps.
THEOREM EditsKeepTheRest == Spec => EditsAreAsked
  <1>1. ASSUME Inv, [Next]_vars, NEW h \in Handlers, req[h] # Idle, req'[h] = Idle
        PROVE  Asked(h)
    <2>0. TypeOK /\ PartsStand /\ RequestsSound
      BY <1>1 DEF Inv
    <2>1. PICK g \in Handlers : Commits(g) \/ Begin(g, req'[g])
      <3>1. Next
        BY <1>1 DEF vars
      <3>2. \A g \in Handlers : \A r : Begin(g, r) => r = req'[g]
        BY <2>0 DEF Begin, TypeOK
      <3> QED
        BY <3>1, <3>2 DEF Next, Editing, Commits, BeginRegister, BeginUpdate, BeginRemove,
           BeginDelete, BeginChange, BeginDraft, BeginPublish
    <2>2. g = h /\ Commits(h)
      <3>1. Commits(g) => Ends(g)
        BY DEF Commits, Register, Update, Remove, Delete, Change, Draft, Publish, Dies, RollsBack
      <3> QED
        BY <1>1, <2>0, <2>1, <3>1 DEF Begin, Ends, TypeOK
    <2>3. CASE UNCHANGED <<parts, declared, title>>
      BY <2>3 DEF Asked
    <2>4. CASE Register(h) /\ ~RollsBack(h)
      <3> DEFINE o == CHOOSE x \in req[h].objs : TRUE
      <3>1. /\ o \notin assets /\ declared' = declared
            /\ parts' = [parts EXCEPT ![o] = [index |-> req[h].index, hook |-> req[h].hook]]
            /\ title' # title => req[h].seen.title = "blank"
            /\ req[h].kind = "register"
        BY <2>4 DEF Register
      <3>2. o \notin Present(parts)
        BY <2>0, <3>1 DEF PartsStand
      <3> HIDE DEF o
      <3>3. \A x \in Present(parts) : parts'[x] = parts[x]
        BY <2>0, <3>1, <3>2 DEF TypeOK, Present
      <3> QED
        BY <3>1, <3>3 DEF Asked
    <2>5. CASE Update(h) /\ ~RollsBack(h)
      <3> DEFINE o == CHOOSE x \in req[h].objs : TRUE
                 moves == Changed(req[h].index, req[h].seen.part.index, 0)
                 words == Changed(req[h].hook, req[h].seen.part.hook, "keep")
      <3>1. /\ parts' = [parts EXCEPT ![o].index = IF moves THEN req[h].index ELSE @,
                                      ![o].hook = IF words THEN req[h].hook ELSE @]
            /\ UNCHANGED <<declared, title>>
            /\ req[h].kind = "update"
        BY <2>5 DEF Update
      <3>2. o \in req[h].objs
        BY <1>1, <2>0, <3>1 DEF RequestsSound, Sound
      <3> HIDE DEF o, moves, words
      <3>3. /\ \A x \in Objects : x # o => parts'[x] = parts[x]
            /\ o \in Objects => /\ parts'[o].index \in {req[h].index, parts[o].index}
                               /\ parts'[o].hook \in {req[h].hook, parts[o].hook}
        BY <2>0, <3>1 DEF TypeOK, Part
      <3> QED
        BY <3>1, <3>2, <3>3 DEF Asked, Present
    <2>6. CASE Remove(h) \/ Delete(h)
      <3>1. /\ \A x \in Objects : parts'[x] \in {NoPart, parts[x]}
            /\ UNCHANGED <<declared, title>>
        BY <2>6 DEF Remove, Delete
      <3> QED
        BY <3>1 DEF Asked, Present, NoPart
    <2>7. CASE Change(h) /\ ~RollsBack(h)
      BY <2>7 DEF Asked, Change
    <2>8. CASE Draft(h) /\ ~RollsBack(h)
      <3>1. PICK answered \in SUBSET req[h].objs :
              /\ parts' = [o \in Objects |->
                             IF o \in answered THEN [parts[o] EXCEPT !.hook = "drafted"]
                             ELSE parts[o]]
              /\ UNCHANGED <<declared, title>>
              /\ req[h].kind = "draft"
        BY <2>8 DEF Draft
      <3>2. \A x \in Objects : /\ parts'[x].index = parts[x].index
                               /\ x \notin answered => parts'[x] = parts[x]
        BY <2>0, <3>1 DEF TypeOK, Part
      <3> QED
        BY <3>1, <3>2 DEF Asked, Present
    <2> QED
      BY <2>2, <2>3, <2>4, <2>5, <2>6, <2>7, <2>8 DEF Commits, RollsBack, Publish, Dies
  <1>2. Inv /\ [Next]_vars =>
          [\A h \in Handlers : req[h] # Idle /\ req'[h] = Idle => Asked(h)]_vars
    BY <1>1
  <1> QED
    BY <1>2, InvHolds, PTL DEF Spec, EditsAreAsked
=============================================================================
