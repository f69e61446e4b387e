------------------------------ MODULE SeriesDesk ------------------------------
(***************************************************************************)
(* One series and the requests that edit it: parts are registered,          *)
(* renumbered, given hooks and removed, hooks are drafted by a model, the    *)
(* parts are queued, and the series is changed and deleted.                  *)
(*                                                                         *)
(* A request is one transaction: it reads the series, its parts and their    *)
(* jobs without a lock, decides, and commits.  What it read may have changed  *)
(* by then, since a model call or a storage call may lie in between; the     *)
(* database's constraints then refuse the commit, and so does an UPDATE of a  *)
(* row that is gone.  Only columns that were changed are written.            *)
(* A part is known by the object it was registered with: asset rows are      *)
(* never deleted, so an object is registered once.                          *)
(***************************************************************************)
EXTENDS Naturals, FiniteSets

CONSTANTS
    Objects,    \* uploaded objects
    Last,       \* part numbers are 1..Last
    Platforms,
    Handlers,   \* API request threads
    MaxRequests \* bound: how many requests are made

ASSUME DeskConstantsOK ==
    /\ Last \in Nat \ {0}
    /\ IsFiniteSet(Objects)
    /\ MaxRequests \in Nat

Numbers == 1..Last
Totals == 0..Last    \* 0: total_parts is not declared
Hooks == {"blank", "typed", "drafted"}
Titles == {"blank", "named", "typed"}    \* none, a filename's label, the operator's

\* A series_parts row; number 0 where there is none.
Part == [index : 0..Last, hook : Hooks]
NoPart == [index |-> 0, hook |-> "blank"]

\* What a job's text says, and history: the numbers that were registered when it
\* was rendered, and whether the total was declared.
Caption == [part : Numbers, hook : Hooks, next : 0..Last,
            declared : BOOLEAN, known : SUBSET Numbers]
NoJob == [part |-> 0]
Pairs == Objects \X Platforms    \* a job's asset and platform

VARIABLES
    exists,    \* whether the series row is there
    title,     \* title_local
    declared,  \* total_parts
    assets,    \* objects with an asset row
    parts,     \* series_parts
    jobs,      \* publish_jobs of the parts, by what they were rendered from
    req,       \* what each request has read and decided
    begun      \* requests made, up to MaxRequests

vars == <<exists, title, declared, assets, parts, jobs, req, begun>>

Present(ps) == {o \in Objects : ps[o].index # 0}
Indexes(ps) == {ps[o].index : o \in Present(ps)}

Kinds == {"register", "update", "remove", "delete", "change", "draft", "publish"}
Row == [title : Titles, total : Totals, part : Part]    \* what a request goes back to
Request == [kind : Kinds, objs : SUBSET Objects, index : 0..Last, hook : Hooks \cup {"keep"},
            overwrite : BOOLEAN, total : Totals, title : Titles, seen : Row,
            queue : [Pairs -> Caption \cup {NoJob}]]
Idle == [kind |-> "idle"]

TypeOK ==
    /\ exists \in BOOLEAN
    /\ title \in Titles
    /\ declared \in Totals
    /\ assets \subseteq Objects
    /\ parts \in [Objects -> Part]
    /\ jobs \in [Pairs -> Caption \cup {NoJob}]
    /\ req \in [Handlers -> Request \cup {Idle}]
    /\ begun \in 0..MaxRequests

\* A series as create_series leaves it, named or not, with its total declared or not.
Init ==
    /\ exists = TRUE
    /\ title \in {"blank", "typed"}
    /\ declared \in {0, Last}
    /\ assets = {}
    /\ parts = [o \in Objects |-> NoPart]
    /\ jobs = [q \in Pairs |-> NoJob]
    /\ req = [h \in Handlers |-> Idle]
    /\ begun = 0
-----------------------------------------------------------------------------
\* A request reads and decides; the arguments that it does not have are empty.
Nothing == [kind |-> "delete", objs |-> {}, index |-> 0, hook |-> "keep",
            overwrite |-> FALSE, total |-> 0, title |-> "blank",
            seen |-> [title |-> "blank", total |-> 0, part |-> NoPart],
            queue |-> [q \in Pairs |-> NoJob]]

Begin(h, r) ==
    /\ exists
    /\ req[h] = Idle
    /\ begun < MaxRequests
    /\ begun' = begun + 1
    /\ req' = [req EXCEPT ![h] = r]
    /\ UNCHANGED <<exists, title, declared, assets, parts, jobs>>

Ends(h) == req' = [req EXCEPT ![h] = Idle] /\ UNCHANGED begun

\* The transaction is rolled back.
RollsBack(h) == Ends(h) /\ UNCHANGED <<exists, title, declared, assets, parts, jobs>>

\* A call in between fails, or the process dies.
Dies(h) == req[h] # Idle /\ RollsBack(h)

\* Faulty: no unique constraint.
FreeAlways(n, o) == TRUE

\* uq_part_series_index.
Free(n, o) == \A p \in Present(parts) \ {o} : parts[p].index # n
-----------------------------------------------------------------------------
BeginRegister(h, o, n, k) ==
    /\ n \notin Indexes(parts)
    /\ Begin(h, [Nothing EXCEPT !.kind = "register", !.objs = {o}, !.index = n, !.hook = k,
                              !.seen.title = title])

\* The rows of the asset and the part; a blank title takes the filename's label,
\* if it has one.
Register(h) ==
    LET r == req[h]
        o == CHOOSE x \in r.objs : TRUE
    IN /\ r # Idle /\ r.kind = "register"
       /\ IF exists /\ o \notin assets /\ Free(r.index, o)
          THEN /\ assets' = assets \cup {o}
               /\ parts' = [parts EXCEPT ![o] = [index |-> r.index, hook |-> r.hook]]
               /\ title' \in IF r.seen.title = "blank" THEN {title, "named"} ELSE {title}
               /\ Ends(h)
               /\ UNCHANGED <<exists, declared, jobs>>
          ELSE RollsBack(h)

BeginUpdate(h, o, n, k) ==
    /\ o \in Present(parts)
    /\ n = 0 \/ n = parts[o].index \/ n \notin Indexes(parts)
    /\ Begin(h, [Nothing EXCEPT !.kind = "update", !.objs = {o}, !.index = n, !.hook = k,
                              !.seen.part = parts[o]])

Changed(new, old, none) == new \notin {none, old}

\* Faulty: both columns are written, changed or not.
UpdateRow(h) ==
    LET r == req[h]
        o == CHOOSE x \in r.objs : TRUE
        n == IF r.index = 0 THEN r.seen.part.index ELSE r.index
        k == IF r.hook = "keep" THEN r.seen.part.hook ELSE r.hook
    IN /\ r # Idle /\ r.kind = "update"
       /\ IF o \in Present(parts) /\ Free(n, o)
          THEN /\ parts' = [parts EXCEPT ![o] = [index |-> n, hook |-> k]]
               /\ Ends(h)
               /\ UNCHANGED <<exists, title, declared, assets, jobs>>
          ELSE RollsBack(h)

Update(h) ==
    LET r == req[h]
        o == CHOOSE x \in r.objs : TRUE
        moves == Changed(r.index, r.seen.part.index, 0)
        words == Changed(r.hook, r.seen.part.hook, "keep")
    IN /\ r # Idle /\ r.kind = "update"
       /\ IF (moves \/ words) /\ o \in Present(parts) /\ (moves => Free(r.index, o))
          THEN /\ parts' = [parts EXCEPT ![o].index = IF moves THEN r.index ELSE @,
                                         ![o].hook = IF words THEN r.hook ELSE @]
               /\ Ends(h)
               /\ UNCHANGED <<exists, title, declared, assets, jobs>>
          ELSE RollsBack(h)

BeginRemove(h, o) ==
    /\ o \in Present(parts)
    /\ Begin(h, [Nothing EXCEPT !.kind = "remove", !.objs = {o}])

\* A DELETE of a row that is gone deletes nothing.
Remove(h) ==
    LET r == req[h]
    IN /\ r # Idle /\ r.kind = "remove"
       /\ parts' = [o \in Objects |-> IF o \in r.objs THEN NoPart ELSE parts[o]]
       /\ Ends(h)
       /\ UNCHANGED <<exists, title, declared, assets, jobs>>

\* delete_series: the parts go with the series, the assets and jobs stay.
BeginDelete(h) == Begin(h, Nothing)

Delete(h) ==
    /\ req[h] # Idle /\ req[h].kind = "delete"
    /\ exists' = FALSE
    /\ parts' = [o \in Objects |-> NoPart]
    /\ Ends(h)
    /\ UNCHANGED <<title, declared, assets, jobs>>

\* update_series: a total, or none, and the title.
BeginChange(h, n, t) ==
    Begin(h, [Nothing EXCEPT !.kind = "change", !.total = n, !.title = t,
                             !.seen.title = title, !.seen.total = declared])

Change(h) ==
    LET r == req[h]
    IN /\ r # Idle /\ r.kind = "change"
       /\ IF exists
          THEN /\ declared' = IF r.total # r.seen.total THEN r.total ELSE declared
               /\ title' = IF r.title # r.seen.title THEN r.title ELSE title
               /\ Ends(h)
               /\ UNCHANGED <<exists, assets, parts, jobs>>
          ELSE RollsBack(h)
-----------------------------------------------------------------------------
\* Faulty: settled hooks are written too.
TargetedAll(wanted, overwrite) == {o \in Present(parts) : parts[o].index \in wanted}

Targeted(wanted, overwrite) ==
    {o \in Present(parts) :
        /\ parts[o].index \in wanted
        /\ overwrite \/ parts[o].hook = "blank"}

BeginDraft(h, wanted, overwrite) ==
    /\ Targeted(wanted, overwrite) # {}
    /\ Begin(h, [Nothing EXCEPT !.kind = "draft", !.objs = Targeted(wanted, overwrite),
                              !.overwrite = overwrite])

\* The model has drafted hooks for some of the parts; every row written must
\* still be there.
Draft(h) ==
    LET r == req[h]
    IN /\ r # Idle /\ r.kind = "draft"
       /\ \E answered \in SUBSET r.objs :
             IF answered \subseteq Present(parts)
             THEN /\ parts' = [o \in Objects |->
                                 IF o \in answered THEN [parts[o] EXCEPT !.hook = "drafted"]
                                 ELSE parts[o]]
                  /\ Ends(h)
                  /\ UNCHANGED <<exists, title, declared, assets, jobs>>
             ELSE RollsBack(h)
-----------------------------------------------------------------------------
\* `_effective_total`.
Total == IF declared # 0 THEN declared ELSE Cardinality(Present(parts))

\* Faulty: the last part is followed by one more.
NextOfLast(n) == IF n <= Total THEN n + 1 ELSE 0

\* `next_part`, empty on the last part.
NextOf(n) == IF n < Total THEN n + 1 ELSE 0

Render(o) == [part |-> parts[o].index, hook |-> parts[o].hook, next |-> NextOf(parts[o].index),
              declared |-> declared # 0, known |-> Indexes(parts)]

\* Parts that have a job for a platform already are skipped.
BeginPublish(h, wanted, targets) ==
    LET new == {q \in Pairs :
                  /\ q[1] \in Present(parts) /\ parts[q[1]].index \in wanted
                  /\ q[2] \in targets
                  /\ jobs[q] = NoJob}
    IN /\ new # {}
       /\ Begin(h, [Nothing EXCEPT !.kind = "publish",
                      !.queue = [q \in Pairs |->
                                   IF q \in new THEN Render(q[1]) ELSE NoJob]])

Queued(h) == {q \in Pairs : req[h].queue[q] # NoJob}

\* Faulty: no unique constraint.
PublishAnyway(h) ==
    /\ req[h] # Idle /\ req[h].kind = "publish"
    /\ jobs' = [q \in Pairs |->
                  IF q \in Queued(h) THEN req[h].queue[q] ELSE jobs[q]]
    /\ Ends(h)
    /\ UNCHANGED <<exists, title, declared, assets, parts>>

\* uq_job_asset_platform: all of them or none.
Publish(h) ==
    /\ req[h] # Idle /\ req[h].kind = "publish"
    /\ IF \A q \in Queued(h) : jobs[q] = NoJob
       THEN /\ jobs' = [q \in Pairs |->
                          IF q \in Queued(h) THEN req[h].queue[q] ELSE jobs[q]]
            /\ Ends(h)
            /\ UNCHANGED <<exists, title, declared, assets, parts>>
       ELSE RollsBack(h)
-----------------------------------------------------------------------------
\* `parts` of a request: all of them, or one.
Wanted == {Numbers} \cup {{n} : n \in Numbers}

Editing(h) ==
    \/ \E o \in Objects, n \in Numbers, k \in {"blank", "typed"} : BeginRegister(h, o, n, k)
    \/ \E o \in Objects, n \in 0..Last, k \in {"blank", "typed", "keep"} : BeginUpdate(h, o, n, k)
    \/ \E o \in Objects : BeginRemove(h, o)
    \/ Register(h) \/ Update(h) \/ Remove(h)

Next ==
    \E h \in Handlers :
        \/ Editing(h)
        \/ BeginDelete(h) \/ Delete(h)
        \/ \E n \in {0, Last}, t \in {title, "blank", "typed"} : BeginChange(h, n, t)
        \/ Change(h)
        \/ \E wanted \in Wanted, overwrite \in BOOLEAN : BeginDraft(h, wanted, overwrite)
        \/ Draft(h)
        \/ \E wanted \in Wanted, targets \in (SUBSET Platforms) \ {{}} :
              BeginPublish(h, wanted, targets)
        \/ Publish(h)
        \/ Dies(h)

Spec == Init /\ [][Next]_vars
-----------------------------------------------------------------------------
\* `missing_parts`: the gaps below the highest number.
Missing(ns) == {n \in Numbers : n \notin ns /\ \E m \in ns : n < m}

\* Whatever requests overlap, no two parts of a series have the same number, each
\* part has its asset row, and none outlives its series (uq_part_series_index and
\* the foreign keys of SeriesPart).
PartsStand ==
    /\ \A o, p \in Present(parts) : parts[o].index = parts[p].index => o = p
    /\ Present(parts) \subseteq assets
    /\ ~exists => Present(parts) = {}

\* What a caption says of the next part, while the total is counted: that there is
\* one only if a later part was registered, and, if no number was missing, just
\* when the next number was.
Honest(c) ==
    c # NoJob /\ ~c.declared =>
       /\ c.next # 0 => \E n \in c.known : c.part < n
       /\ Missing(c.known) = {} => (c.next # 0 <=> c.part + 1 \in c.known)

\* While the total is counted rather than declared, a caption that points to a
\* next part was rendered when a later one was registered; and if no number was
\* missing, it points to a next part just when that part was registered (`has_next`
\* in captions/template.py over `_effective_total`).
TeaserHonest == \A q \in Pairs : Honest(jobs[q])

\* Queueing a series again, twice at once, or after parts were renumbered, removed
\* or redrafted leaves every job that was queued before as it was (the `existing`
\* jobs of publish_series, and uq_job_asset_platform).
JobsStay ==
    [][\A q \in Pairs : jobs[q] # NoJob => jobs'[q] = jobs[q]]_vars

\* The step of request h changes only what h was asked to change.
Asked(h) ==
    LET r == req[h]
    IN /\ \A o \in Present(parts) \cap Present(parts') :
             /\ parts'[o].index # parts[o].index =>
                   /\ r.kind = "update" /\ o \in r.objs
                   /\ r.index = parts'[o].index
             /\ parts'[o].hook # parts[o].hook =>
                   /\ o \in r.objs
                   /\ r.kind = "draft" \/ (r.kind = "update" /\ r.hook = parts'[o].hook)
       /\ declared' # declared => r.kind = "change" /\ r.total # r.seen.total
       /\ title' # title => \/ r.kind = "change" /\ r.title # r.seen.title
                            \/ r.kind = "register" /\ r.seen.title = "blank"

\* A request that overlaps others writes no column that it was not asked to change: a
\* number changes to what an update asked for, a hook to what an update asked for or by
\* a draft of that part, the total and the title by an edit of just them, or the title
\* by a registration that saw it blank (update_part, update_series, register_part and
\* generate_series_hooks write the columns they set, not rows).  What was typed since
\* into a column that it does write is replaced: a title by a registration, a hook by
\* a draft (TypedHooksStay).
EditsAreAsked ==
    [][\A h \in Handlers : req[h] # Idle /\ req'[h] = Idle => Asked(h)]_vars

\* What the request's schema promises: without overwrite, drafting "leaves hooks
\* that already have text alone" (GenerateHooksRequest).
TypedHooksStay ==
    [][\A h \in Handlers, o \in Objects :
          /\ req[h] # Idle /\ req'[h] = Idle
          /\ req[h].kind = "draft" /\ ~req[h].overwrite
          /\ parts[o].hook = "typed"
          => parts'[o].hook = "typed"]_vars
=============================================================================
