---------------------------- MODULE ConsoleUploads ----------------------------
(***************************************************************************)
(* How files get from the console into the service: the batches of episodes   *)
(* that useSeries.addFiles uploads and the single video that usePublishFlow   *)
(* uploads and publishes.  Each is an asynchronous run in the browser: sign a  *)
(* URL, PUT the bytes to R2, register, and for a single video publish.         *)
(*                                                                         *)
(* A request may be refused, never arrive, or arrive after its run gave it up, *)
(* since the operator cancelled it, the tab was closed or the answer was lost. *)
(* The API commits what it answered after the answer: get_session ends its     *)
(* transaction when the response is sent.  R2 stores an object at once when it  *)
(* has all of its bytes.                                                      *)
(***************************************************************************)
EXTENDS Naturals, Sequences, FiniteSets, SequencesExt

CONSTANTS
    Batches,    \* runs of addFiles
    Flows,      \* runs of usePublishFlow
    Episodes,   \* files dropped on a series
    Clips,      \* files of single videos
    NumberOf(_),\* the number parsed from an episode's name, 0 if it has none
    MaxKeys     \* bound: URLs signed, after which nothing is begun

Runs == Batches \cup Flows
Files == Episodes \cup Clips
Keys == 1..MaxKeys
NoFile == "none"

ASSUME ConsoleConstantsOK ==
    /\ Batches \cap Flows = {}
    /\ IsFiniteSet(Episodes) /\ \A f \in Episodes : NumberOf(f) \in Nat
    /\ NoFile \notin Files
    /\ MaxKeys \in Nat

VARIABLES
    minted,     \* API: keys signed so far
    objects,    \* R2: the object of each key
    assets,     \* API: keys of the asset rows
    parts,      \* API: the series' parts, each with its asset's key
    published,  \* API: keys of the assets that have jobs
    open,       \* API: requests answered with success that are not committed
    late,       \* requests that were given up and may still arrive
    step,       \* browser: the request each run waits for
    queue,      \* browser: the files each run still has to upload, the current one first
    key,        \* browser: the key it has for that
    rows,       \* browser: what became of each file of a batch
    seen,       \* clips that the operator saw queued
    unanswered  \* history: keys whose POST /publish was given up

server == <<objects, assets, parts, published>>
browser == <<step, queue, key, rows, seen>>
vars == <<minted, server, open, late, browser, unanswered>>

\* "publish": the jobs are committed before the answer, or in the backlog after it.
Ops == {"put", "part", "asset", "publish"}
Running == Ops \cup {"sign"}
Part == [number : Nat \ {0}, key : Keys]
Request == [op : Ops, key : Keys, file : Files]

TypeOK ==
    /\ minted \in 0..MaxKeys
    /\ objects \in [Keys -> Files \cup {NoFile}]
    /\ assets \subseteq {k \in Keys : objects[k] # NoFile}
    /\ published \subseteq assets
    /\ parts \subseteq Part /\ \A p \in parts : p.key \in assets
    /\ late \subseteq Request /\ open \subseteq Request
    /\ step \in [Runs -> Running \cup {"idle", "ended"}]
    /\ \A r \in Runs :
          /\ queue[r] \in Seq(IF r \in Batches THEN Episodes ELSE Clips)
          /\ step[r] \in Running => queue[r] # <<>>
          /\ step[r] \in Ops => key[r] \in 1..minted
    /\ key \in [Runs -> 0..MaxKeys]
    /\ rows \in [Batches -> [Episodes -> {"none", "queued", "done", "error"}]]
    /\ seen \subseteq Clips
    /\ unanswered \subseteq Keys

Init ==
    /\ minted = 0
    /\ objects = [k \in Keys |-> NoFile]
    /\ assets = {} /\ parts = {} /\ published = {}
    /\ open = {} /\ late = {}
    /\ step = [r \in Runs |-> "idle"]
    /\ queue = [r \in Runs |-> <<>>]
    /\ key = [r \in Runs |-> 0]
    /\ rows = [b \in Batches |-> [f \in Episodes |-> "none"]]
    /\ seen = {} /\ unanswered = {}
-----------------------------------------------------------------------------
\* Faulty: in the order in which they were dropped, here any.
AnyOrder(files) == SetToSeqs(files)

\* `planned`: in episode order, the files without a number last.
EpisodeOrder(files) ==
    {s \in SetToSeqs(files) : \A i, j \in 1..Len(s) :
        i < j => NumberOf(s[j]) = 0 \/ NumberOf(s[i]) \in 1..NumberOf(s[j])}

\* Files are dropped on the series.  The zone is not disabled while others upload.
DropFiles(b, files) ==
    /\ step[b] = "idle" /\ minted < MaxKeys
    /\ \E plan \in EpisodeOrder(files) : queue' = [queue EXCEPT ![b] = plan]
    /\ rows' = [rows EXCEPT ![b] = [f \in Episodes |-> IF f \in files THEN "queued" ELSE "none"]]
    /\ step' = [step EXCEPT ![b] = "sign"]
    /\ UNCHANGED <<minted, server, open, late, key, seen, unanswered>>

\* Faulty: the button is not disabled while an upload runs.
SubmitAgain(c, f) ==
    /\ step[c] = "idle" /\ minted < MaxKeys
    /\ f \notin seen
    /\ queue' = [queue EXCEPT ![c] = <<f>>]
    /\ step' = [step EXCEPT ![c] = "sign"]
    /\ UNCHANGED <<minted, server, open, late, key, rows, seen, unanswered>>

\* "Upload & publish": again with a file only until it was seen queued.
Submit(c, f) ==
    /\ step[c] = "idle" /\ minted < MaxKeys /\ \A d \in Flows : step[d] \notin Running
    /\ f \notin seen
    /\ queue' = [queue EXCEPT ![c] = <<f>>]
    /\ step' = [step EXCEPT ![c] = "sign"]
    /\ UNCHANGED <<minted, server, open, late, key, rows, seen, unanswered>>
-----------------------------------------------------------------------------
RequestOf(r) == [op |-> step[r], key |-> key[r], file |-> Head(queue[r])]

\* register_asset_row: HEAD finds the object.
Readable(q) == objects[q.key] # NoFile

\* register_part: the name has a number that is free, and the constraint does not
\* have the INSERT wait for another one.
AcceptsPart(q) ==
    /\ NumberOf(q.file) # 0
    /\ \A p \in parts : p.number # NumberOf(q.file)
    /\ \A o \in open : o.op = "part" => NumberOf(o.file) # NumberOf(q.file)
    /\ Readable(q)

\* Faulty: the asset is not looked up.
AcceptsUnknown(q) == q.key \notin published

\* publish: an asset that has no jobs.
AcceptsPublish(q) ==
    /\ q.key \in assets \ published
    /\ \A o \in open : o.op = "publish" => o.key # q.key

Accepts(q) ==
    CASE q.op = "put" -> TRUE
      [] q.op = "part" -> AcceptsPart(q)
      [] q.op = "asset" -> Readable(q)
      [] q.op = "publish" -> AcceptsPublish(q)

\* The object is stored, over one that was there; the part and its asset, the
\* asset, or its jobs are committed.
Effect(q) ==
    /\ objects' = IF q.op = "put" THEN [objects EXCEPT ![q.key] = q.file] ELSE objects
    /\ assets' = assets \cup {k \in {q.key} : q.op \in {"part", "asset"}}
    /\ parts' = parts \cup {p \in {[number |-> NumberOf(q.file), key |-> q.key]} : q.op = "part"}
    /\ published' = published \cup {k \in {q.key} : q.op = "publish"}

\* get_session ends after the answer; that commit may fail.
Commit(q) == q \in open /\ open' = open \ {q} /\ Effect(q) /\ UNCHANGED <<minted, late, browser, unanswered>>
CommitFails(q) == q \in open /\ open' = open \ {q} /\ UNCHANGED <<minted, server, late, browser, unanswered>>

\* A request that was given up arrives.
Arrive(q) ==
    /\ q \in late /\ Accepts(q)
    /\ late' = late \ {q}
    /\ Effect(q)
    /\ UNCHANGED <<minted, open, browser, unanswered>>

\* The part goes, the asset stays.
RemovePart(p) ==
    /\ p \in parts
    /\ parts' = parts \ {p}
    /\ UNCHANGED <<minted, objects, assets, published, open, late, browser, unanswered>>
-----------------------------------------------------------------------------
\* The file is through; a batch goes on with the next one whatever became of it.
Through(r, outcome) ==
    /\ queue' = [queue EXCEPT ![r] = Tail(@)] /\ key' = [key EXCEPT ![r] = 0]
    /\ step' = [step EXCEPT ![r] = IF Len(queue[r]) > 1 THEN "sign" ELSE "ended"]
    /\ rows' = IF r \in Batches THEN [rows EXCEPT ![r][Head(queue[r])] = outcome] ELSE rows

\* Faulty: the uuid is drawn once, when the module is loaded.
KeyOfModule == 1

\* create_upload_url: a new key for every URL.
NewKey == minted + 1

Sign(r) ==
    /\ step[r] = "sign" /\ minted < MaxKeys
    /\ minted' = minted + 1
    /\ key' = [key EXCEPT ![r] = NewKey]
    /\ step' = [step EXCEPT ![r] = "put"]
    /\ UNCHANGED <<server, open, late, queue, rows, seen, unanswered>>

\* What a run does once its request was answered with success.
Continue(r) ==
    \/ /\ step[r] \in {"put", "asset"}
       /\ step' = [step EXCEPT ![r] =
             IF @ = "asset" THEN "publish" ELSE IF r \in Batches THEN "part" ELSE "asset"]
       /\ UNCHANGED <<queue, key, rows, seen>>
    \/ /\ step[r] = "part" /\ Through(r, "done") /\ UNCHANGED seen
    \/ /\ step[r] = "publish" /\ Through(r, "done") /\ seen' = seen \cup {Head(queue[r])}

Answered(r) ==
    /\ step[r] \in Ops
    /\ Accepts(RequestOf(r))
    /\ \/ Effect(RequestOf(r)) /\ UNCHANGED open
       \/ step[r] # "put" /\ open' = open \cup {RequestOf(r)} /\ UNCHANGED server
    /\ Continue(r)
    /\ UNCHANGED <<minted, late, unanswered>>

\* An error is answered; a server error may be one that GiveUp stands for.
Refused(r) ==
    /\ step[r] = "sign" \/ (step[r] \in Ops /\ ~Accepts(RequestOf(r)))
    /\ Through(r, "error")
    /\ UNCHANGED <<minted, server, open, late, seen, unanswered>>

\* The requests of these runs were sent, and may arrive.
LeftBehind(runs) ==
    /\ late' = late \cup {RequestOf(r) : r \in {s \in runs : step[s] \in Ops}}
    /\ unanswered' = unanswered \cup {key[r] : r \in {s \in runs : step[s] = "publish"}}

\* No answer, or the operator's cancel in the transfer.
GiveUp(r) ==
    /\ step[r] \in Ops
    /\ LeftBehind({r})
    /\ Through(r, "error")
    /\ UNCHANGED <<minted, server, open, seen>>

\* The tab is closed or reloaded: all of its runs end where they are.
Reload ==
    /\ \E r \in Runs : step[r] \in Running
    /\ LeftBehind(Runs)
    /\ step' = [r \in Runs |-> IF step[r] \in Running THEN "ended" ELSE step[r]]
    /\ queue' = [r \in Runs |-> <<>>] /\ key' = [r \in Runs |-> 0]
    /\ UNCHANGED <<minted, server, open, rows, seen>>

Next ==
    \/ \E b \in Batches, files \in (SUBSET Episodes) \ {{}} : DropFiles(b, files)
    \/ \E c \in Flows, f \in Clips : Submit(c, f)
    \/ \E r \in Runs : Sign(r) \/ Answered(r) \/ Refused(r) \/ GiveUp(r)
    \/ \E q \in open : Commit(q) \/ CommitFails(q)
    \/ \E q \in late : Arrive(q)
    \/ \E p \in parts : RemovePart(p)
    \/ Reload

Spec == Init /\ [][Next]_vars
-----------------------------------------------------------------------------
\* What an asset names never changes: a file that is dropped again, or whose PUT
\* reaches R2 after the console gave it up, does not end up under an object that
\* is registered, and may be published, as another (create_upload_url's keys).
SourceStays == [][\A k \in assets : objects'[k] = objects[k]]_vars

\* An episode is entered with its own file, and a batch leaves a hole before it only
\* where the earlier file failed or was refused, also when the tab is closed half-way
\* or batches overlap ("a partial upload still leaves a contiguous run").
HolesAreFailures ==
    /\ \A p \in parts : NumberOf(objects[p.key]) = p.number
    /\ \A b \in Batches, e, f \in Episodes :
          rows[b][e] = "queued" /\ NumberOf(e) \in 1..NumberOf(f) - 1 => rows[b][f] # "done"

\* A video is published twice only if the console never had the answer of one of
\* the two POST /publish, however often the operator submits it.
TwiceOnlyUnanswered ==
    \A k, l \in published \ unanswered : objects[k] = objects[l] => k = l
=============================================================================
