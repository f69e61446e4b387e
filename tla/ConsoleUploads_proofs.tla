------------------------ MODULE ConsoleUploads_proofs ------------------------
(***************************************************************************)
(* The uploads of the console, for any number of runs, files and keys, any   *)
(* names of episodes, and whatever is lost, late or left behind.            *)
(*                                                                         *)
(* The argument: a key is signed for one file, so all that still carries it, *)
(* and the object that has it, agree; a batch has still to upload what its   *)
(* rows show as queued, in the order of the numbers; and whatever video is   *)
(* published or about to be, unless its request was given up, was seen       *)
(* queued, after which it is not submitted.                                 *)
(***************************************************************************)
EXTENDS ConsoleUploads, TLAPS, FiniteSetTheorems

\* The files that go, or went, under a key: all that may still arrive, is to be
\* committed, is in a run's hands, or is stored.
Names(k) ==
    {q.file : q \in {o \in late \cup open : o.key = k}}
    \cup {Head(queue[r]) : r \in {s \in Runs : step[s] \in Ops /\ key[s] = k}}
    \cup ({objects[k]} \ {NoFile})

KeysOK ==
    \A k \in Keys : /\ \A f, g \in Names(k) : f = g
                    /\ k > minted => Names(k) = {}

\* Who makes which request, and what the API checked before it answered.
RequestsOK ==
    /\ \A r \in Runs :
          /\ step[r] = "part" => r \in Batches
          /\ step[r] \in {"asset", "publish"} => r \in Flows
    /\ \A q \in late \cup open : q.op = "part" => q.file \in Episodes
    /\ \A q \in open :
          /\ q.op # "put"
          /\ objects[q.key] # NoFile
          /\ q.op = "part" => NumberOf(q.file) # 0
          /\ q.op = "publish" => q.key \in assets /\ q.file \in seen
    /\ \A q \in late : q.op = "publish" => q.key \in unanswered

\* A part is entered with its own file.
NumbersOK == \A p \in parts : NumberOf(objects[p.key]) = p.number

\* A batch goes by the numbers, and still has in its queue what it shows as queued.
OrderOK ==
    \A b \in Batches : step[b] \in Running =>
        /\ \A i, j \in 1..Len(queue[b]) :
              i < j => \/ NumberOf(queue[b][j]) = 0
                       \/ NumberOf(queue[b][i]) \in 1..NumberOf(queue[b][j])
        /\ \A e \in Episodes :
              rows[b][e] = "queued" => \E i \in 1..Len(queue[b]) : queue[b][i] = e

HolesOK ==
    \A b \in Batches, e, f \in Episodes :
        rows[b][e] = "queued" /\ NumberOf(e) \in 1..NumberOf(f) - 1 => rows[b][f] # "done"

\* One single video at a time, which was not seen queued.
FlowOK ==
    /\ \A c, d \in Flows : step[c] \in Running /\ step[d] \in Running => c = d
    /\ \A c \in Flows : step[c] \in Running => Len(queue[c]) = 1 /\ Head(queue[c]) \notin seen

\* What is published or will be, as far as the operator was told.
Settled == (published \ unanswered) \cup {q.key : q \in {o \in open : o.op = "publish"}}

SeenOK ==
    /\ \A k \in Settled : objects[k] \in seen
    /\ \A k, l \in Settled : objects[k] = objects[l] => k = l

\* TypeOK, by parts.
ServerOK ==
    /\ objects \in [Keys -> Files \cup {NoFile}]
    /\ assets \subseteq {k \in Keys : objects[k] # NoFile}
    /\ published \subseteq assets
    /\ parts \subseteq Part /\ \A p \in parts : p.key \in assets

BrowserOK ==
    /\ step \in [Runs -> Running \cup {"idle", "ended"}]
    /\ \A r \in Runs :
          /\ queue[r] \in Seq(IF r \in Batches THEN Episodes ELSE Clips)
          /\ step[r] \in Running => queue[r] # <<>>
          /\ step[r] \in Ops => key[r] \in 1..minted
    /\ key \in [Runs -> 0..MaxKeys]
    /\ rows \in [Batches -> [Episodes -> {"none", "queued", "done", "error"}]]
    /\ seen \subseteq Clips

RestOK ==
    /\ minted \in 0..MaxKeys
    /\ late \subseteq Request /\ open \subseteq Request
    /\ unanswered \subseteq Keys
    /\ queue \in [Runs -> Seq(Files)]

Inv ==
    /\ ServerOK /\ BrowserOK /\ RestOK
    /\ KeysOK /\ RequestsOK /\ NumbersOK
    /\ OrderOK /\ HolesOK
    /\ FlowOK /\ SeenOK
-----------------------------------------------------------------------------
LEMMA TypeByParts == ServerOK /\ BrowserOK /\ RestOK => TypeOK
  BY DEF ServerOK, BrowserOK, RestOK, TypeOK

LEMMA InitInv == Init => Inv
<1> SUFFICES ASSUME Init PROVE Inv
  OBVIOUS
<1> USE ConsoleConstantsOK DEF Init, Running, Ops
<1>1. ServerOK /\ BrowserOK /\ RestOK
  <2>1. \A r \in Runs : step[r] = "idle" /\ queue[r] = <<>> /\ queue[r] \in Seq(Files)
    OBVIOUS
  <2>2. \A r \in Runs : queue[r] \in Seq(IF r \in Batches THEN Episodes ELSE Clips)
    BY <2>1
  <2>3. queue \in [Runs -> Seq(Files)]
    BY <2>1
  <2>4. BrowserOK
    BY <2>1, <2>2 DEF BrowserOK
  <2>5. ServerOK
    BY DEF ServerOK
  <2>6. RestOK
    BY <2>3 DEF RestOK
  <2> QED BY <2>4, <2>5, <2>6
<1>2. KeysOK /\ RequestsOK /\ NumbersOK
  BY DEF KeysOK, RequestsOK, NumbersOK, Names, Runs
<1>3. OrderOK /\ HolesOK /\ FlowOK /\ SeenOK
  BY DEF OrderOK, HolesOK, FlowOK, SeenOK, Settled, Runs
<1> QED BY <1>1, <1>2, <1>3 DEF Inv

\* A request names the file of its key.
LEMMA RequestNames ==
    ASSUME Inv
    PROVE  /\ \A q \in late \cup open : q \in Request /\ q.file \in Names(q.key)
           /\ \A r \in Runs : step[r] \in Ops =>
                 /\ RequestOf(r) \in Request
                 /\ RequestOf(r).file \in Names(key[r])
                 /\ Head(queue[r]) \in IF r \in Batches THEN Episodes ELSE Clips
           /\ \A k \in Keys : objects[k] # NoFile => objects[k] \in Names(k)
<1>1. \A q \in late \cup open : q \in Request /\ q.file \in Names(q.key)
  BY DEF Inv, RestOK, Names
<1>2. ASSUME NEW r \in Runs, step[r] \in Ops
      PROVE  /\ RequestOf(r) \in Request
             /\ RequestOf(r).file \in Names(key[r])
             /\ Head(queue[r]) \in IF r \in Batches THEN Episodes ELSE Clips
  <2>1. queue[r] \in Seq(IF r \in Batches THEN Episodes ELSE Clips) /\ queue[r] # <<>>
    BY <1>2 DEF Inv, BrowserOK, Running
  <2>2. Head(queue[r]) \in IF r \in Batches THEN Episodes ELSE Clips
    BY <2>1
  <2>3. key[r] \in Keys
    BY <1>2 DEF Inv, BrowserOK, RestOK, Keys
  <2>4. Head(queue[r]) \in Names(key[r])
    BY <1>2 DEF Names
  <2> QED BY <1>2, <2>2, <2>3, <2>4 DEF RequestOf, Request, Files
<1>3. \A k \in Keys : objects[k] # NoFile => objects[k] \in Names(k)
  BY DEF Names
<1> QED BY <1>1, <1>2, <1>3

\* Nothing new is named.
LEMMA KeysStay ==
    ASSUME Inv, minted' = minted,
           \A k \in Keys : objects'[k] = objects[k] \/ objects'[k] \in Names(k),
           \A q \in late' \cup open' : q \in late \cup open \/ q.file \in Names(q.key),
           \A r \in Runs : step'[r] \in Ops => Head(queue'[r]) \in Names(key'[r])
    PROVE  KeysOK'
<1>1. ASSUME NEW k \in Keys PROVE Names(k)' \subseteq Names(k)
  <2> SUFFICES ASSUME NEW f \in Names(k)' PROVE f \in Names(k)
    OBVIOUS
  <2>1. CASE \E q \in late' \cup open' : q.key = k /\ f = q.file
    BY <2>1 DEF Names
  <2>2. CASE \E r \in Runs : step'[r] \in Ops /\ key'[r] = k /\ f = Head(queue'[r])
    BY <2>2
  <2>3. CASE f = objects'[k] /\ f # NoFile
    BY <2>3 DEF Names
  <2> QED BY <2>1, <2>2, <2>3 DEF Names
<1> QED BY <1>1 DEF Inv, KeysOK

\* What the API and the bucket make of a request that they accepted.
Good(q) ==
    /\ q \in Request /\ q.file \in Names(q.key)
    /\ q.op # "put" => objects[q.key] # NoFile
    /\ q.op = "part" => q.file \in Episodes /\ NumberOf(q.file) # 0
    /\ q.op = "publish" => q.key \in assets

LEMMA EffectFacts ==
    ASSUME Inv, NEW q, Good(q), Effect(q)
    PROVE  /\ ServerOK' /\ NumbersOK'
           /\ \A k \in Keys : objects'[k] = objects[k] \/ objects'[k] \in Names(k)
           /\ \A k \in Keys : objects[k] # NoFile => objects'[k] = objects[k]
           /\ assets \subseteq assets'
           /\ published' = published \cup {k \in {q.key} : q.op = "publish"}
<1> USE DEF Good
<1>0. q.key \in Keys /\ q.file \in Files /\ q.file # NoFile
  BY ConsoleConstantsOK DEF Request
<1>1. /\ objects \in [Keys -> Files \cup {NoFile}]
      /\ objects' \in [Keys -> Files \cup {NoFile}]
      /\ \A k \in Keys : objects'[k] = objects[k] \/ (q.op = "put" /\ k = q.key /\ objects'[k] = q.file)
  BY <1>0 DEF Inv, ServerOK, Effect
<1>2. \A k \in Keys : objects[k] # NoFile => objects'[k] = objects[k]
  <2>1. ASSUME NEW k \in Keys, objects[k] # NoFile, k = q.key PROVE objects[k] = q.file
    BY <2>1, RequestNames DEF Inv, KeysOK
  <2> QED BY <1>1, <2>1
<1>3. assets' \subseteq {k \in Keys : objects'[k] # NoFile} /\ assets \subseteq assets'
  BY <1>0, <1>1, <1>2 DEF Inv, ServerOK, Effect
<1>4. published' \subseteq assets'
  BY <1>3 DEF Inv, ServerOK, Effect
<1>5. ASSUME NEW p \in parts'
      PROVE  p \in Part /\ p.key \in assets' /\ NumberOf(objects'[p.key]) = p.number
  <2>1. CASE p \in parts
    <3>1. p \in Part /\ p.key \in assets /\ p.key \in Keys /\ objects[p.key] # NoFile
      BY <2>1 DEF Inv, ServerOK
    <3> QED BY <1>2, <1>3, <2>1, <3>1 DEF Inv, NumbersOK
  <2>2. CASE q.op = "part" /\ p = [number |-> NumberOf(q.file), key |-> q.key]
    <3>1. objects[q.key] = q.file
      BY <1>0, <2>2, RequestNames DEF Inv, KeysOK
    <3>2. objects'[q.key] = q.file
      BY <1>0, <1>2, <2>2, <3>1
    <3>3. p \in Part
      BY <1>0, <2>2, ConsoleConstantsOK DEF Part
    <3>4. q.key \in assets'
      BY <2>2 DEF Effect
    <3> QED BY <2>2, <3>2, <3>3, <3>4
  <2> QED BY <1>5, <2>1, <2>2 DEF Effect
<1>6. \A k \in Keys : objects'[k] = objects[k] \/ objects'[k] \in Names(k)
  BY <1>1
<1> QED BY <1>1, <1>2, <1>3, <1>4, <1>5, <1>6 DEF ServerOK, NumbersOK, Effect

\* A request that is waiting for its commit was accepted.
LEMMA OpenGood == ASSUME Inv, NEW q \in open PROVE Good(q)
  BY RequestNames DEF Inv, RequestsOK, Good

\* One that the API accepts now is good.
LEMMA AcceptedGood ==
    ASSUME Inv, NEW q \in Request, q.file \in Names(q.key), Accepts(q),
           q.op = "part" => q.file \in Episodes
    PROVE  Good(q)
<1>1. q.op \in {"put", "part", "asset", "publish"}
  BY DEF Request, Ops
<1>2. CASE q.op = "publish"
  <2>1. q.key \in assets /\ objects[q.key] # NoFile
    BY <1>2 DEF Accepts, AcceptsPublish, Inv, ServerOK
  <2> QED BY <1>2, <2>1 DEF Good
<1>3. CASE q.op \in {"part", "asset"}
  BY <1>3 DEF Accepts, AcceptsPart, Readable, Good
<1>4. CASE q.op = "put"
  BY <1>4 DEF Good
<1> QED BY <1>1, <1>2, <1>3, <1>4
-----------------------------------------------------------------------------
(* The steps that leave the browser alone.                                  *)

LEMMA BrowserStays ==
    ASSUME Inv, UNCHANGED <<minted, browser>>
    PROVE  BrowserOK' /\ OrderOK' /\ HolesOK' /\ FlowOK'
<1> USE DEF browser
<1>1. BrowserOK'
  BY DEF Inv, BrowserOK
<1>2. OrderOK' /\ HolesOK' /\ FlowOK'
  BY DEF Inv, OrderOK, HolesOK, FlowOK
<1> QED BY <1>1, <1>2

LEMMA CommitKeeps == ASSUME Inv, NEW q \in open, Commit(q) PROVE Inv'
<1> USE DEF Commit, browser
<1>1. Good(q)
  BY OpenGood
<1>2. BrowserOK' /\ OrderOK' /\ HolesOK' /\ FlowOK'
  BY BrowserStays
<1>3. /\ ServerOK' /\ NumbersOK'
      /\ \A k \in Keys : objects'[k] = objects[k] \/ objects'[k] \in Names(k)
      /\ \A k \in Keys : objects[k] # NoFile => objects'[k] = objects[k]
      /\ assets \subseteq assets'
      /\ published' = published \cup {k \in {q.key} : q.op = "publish"}
  BY <1>1, EffectFacts
<1>4. RestOK'
  BY DEF Inv, RestOK
<1>5. KeysOK'
  BY <1>3, KeysStay, RequestNames DEF RequestOf
<1>6. RequestsOK'
  <2>1. \A o \in open' : o \in open /\ o.key \in Keys
    BY DEF Inv, RestOK, Request
  <2> QED BY <1>3, <2>1 DEF Inv, RequestsOK
<1>7. SeenOK'
  <2>1. Settled' \subseteq Settled
    BY <1>3 DEF Settled
  <2>2. \A k \in Settled : k \in Keys /\ objects[k] # NoFile
    BY DEF Settled, Inv, ServerOK, RequestsOK
  <2> QED BY <1>3, <2>1, <2>2 DEF Inv, SeenOK
<1> QED BY <1>2, <1>3, <1>4, <1>5, <1>6, <1>7 DEF Inv

LEMMA CommitFailsKeeps == ASSUME Inv, NEW q \in open, CommitFails(q) PROVE Inv'
<1> USE DEF CommitFails, browser, server
<1>1. BrowserOK' /\ OrderOK' /\ HolesOK' /\ FlowOK'
  BY BrowserStays
<1>2. ServerOK' /\ NumbersOK' /\ RestOK' /\ RequestsOK'
  BY DEF Inv, ServerOK, NumbersOK, RestOK, RequestsOK
<1>3. KeysOK'
  BY KeysStay, RequestNames DEF RequestOf
<1>4. SeenOK'
  <2>1. Settled' \subseteq Settled
    BY DEF Settled
  <2> QED BY <2>1 DEF Inv, SeenOK
<1> QED BY <1>1, <1>2, <1>3, <1>4 DEF Inv

LEMMA ArriveKeeps == ASSUME Inv, NEW q \in late, Arrive(q) PROVE Inv'
<1> USE DEF Arrive, browser
<1>1. Good(q)
  BY RequestNames, AcceptedGood DEF Inv, RequestsOK
<1>2. BrowserOK' /\ OrderOK' /\ HolesOK' /\ FlowOK'
  BY BrowserStays
<1>3. /\ ServerOK' /\ NumbersOK'
      /\ \A k \in Keys : objects'[k] = objects[k] \/ objects'[k] \in Names(k)
      /\ \A k \in Keys : objects[k] # NoFile => objects'[k] = objects[k]
      /\ assets \subseteq assets'
      /\ published' = published \cup {k \in {q.key} : q.op = "publish"}
  BY <1>1, EffectFacts
<1>4. RestOK'
  BY DEF Inv, RestOK
<1>5. KeysOK'
  BY <1>3, KeysStay, RequestNames DEF RequestOf
<1>6. RequestsOK'
  <2>1. \A o \in open : o.key \in Keys
    BY DEF Inv, RestOK, Request
  <2> QED BY <1>3, <2>1 DEF Inv, RequestsOK
<1>7. SeenOK'
  <2>1. Settled' \subseteq Settled
    BY <1>3 DEF Settled, Inv, RequestsOK
  <2>2. \A k \in Settled : k \in Keys /\ objects[k] # NoFile
    BY DEF Settled, Inv, ServerOK, RequestsOK
  <2> QED BY <1>3, <2>1, <2>2 DEF Inv, SeenOK
<1> QED BY <1>2, <1>3, <1>4, <1>5, <1>6, <1>7 DEF Inv

LEMMA RemovePartKeeps == ASSUME Inv, NEW p \in parts, RemovePart(p) PROVE Inv'
<1> USE DEF RemovePart, browser
<1>1. BrowserOK' /\ OrderOK' /\ HolesOK' /\ FlowOK'
  BY BrowserStays
<1>2. ServerOK' /\ NumbersOK' /\ RestOK' /\ RequestsOK'
  BY DEF Inv, ServerOK, NumbersOK, RestOK, RequestsOK
<1>3. KeysOK'
  BY KeysStay, RequestNames DEF RequestOf
<1>4. SeenOK'
  BY DEF Inv, SeenOK, Settled
<1> QED BY <1>1, <1>2, <1>3, <1>4 DEF Inv
-----------------------------------------------------------------------------
(* The steps of the browser.                                                *)

\* What a run that goes on with its file leaves as it was.
GoesOn(s) == step[s] \in Ops /\ queue'[s] = queue[s] /\ key'[s] = key[s]

\* What a step of a run must show for the browser's part of the invariant.
BrowserKept ==
    /\ BrowserOK' /\ queue' \in [Runs -> Seq(Files)]
    /\ OrderOK' /\ HolesOK' /\ FlowOK'
    /\ \A s \in Runs :
          /\ step'[s] \in Ops => GoesOn(s)
          /\ step'[s] = "part" => s \in Batches
          /\ step'[s] \in {"asset", "publish"} => s \in Flows
    /\ seen \subseteq seen'

LEMMA EmptyLen == Len(<<>>) = 0
  OBVIOUS

LEMMA TailLeft == ASSUME NEW S, NEW q \in Seq(S), Len(q) > 1 PROVE Tail(q) # <<>>
<1>1. q # <<>>
  BY EmptyLen
<1>2. Len(q) \in Nat /\ Len(q) # 0 /\ Len(q) # 1
  OBVIOUS
<1>3. Tail(q) \in Seq(S) /\ Len(Tail(q)) = Len(q) - 1
  BY <1>1
<1>4. Len(Tail(q)) # 0
  BY <1>2, <1>3
<1> QED BY <1>4, EmptyLen, Zenon

LEMMA OneLeft == ASSUME NEW n, n = 1 PROVE (IF n > 1 THEN "sign" ELSE "ended") = "ended"
  OBVIOUS

LEMMA ThroughKeeps ==
    ASSUME Inv, NEW r \in Runs, step[r] \in Running, NEW outcome \in {"done", "error"},
           Through(r, outcome), minted' = minted,
           \/ seen' = seen
           \/ step[r] = "publish" /\ seen' = seen \cup {Head(queue[r])}
    PROVE  BrowserKept
<1> USE DEF Through
<1>0. /\ queue[r] \in Seq(IF r \in Batches THEN Episodes ELSE Clips) /\ queue[r] # <<>>
      /\ step \in [Runs -> Running \cup {"idle", "ended"}] /\ key \in [Runs -> 0..MaxKeys]
      /\ queue \in [Runs -> Seq(Files)]
      /\ rows \in [Batches -> [Episodes -> {"none", "queued", "done", "error"}]]
      /\ seen \subseteq Clips
  BY DEF Inv, BrowserOK, RestOK
<1>1. /\ Tail(queue[r]) \in Seq(IF r \in Batches THEN Episodes ELSE Clips)
      /\ Tail(queue[r]) \in Seq(Files)
      /\ Len(queue[r]) \in Nat \ {0} /\ Len(Tail(queue[r])) = Len(queue[r]) - 1
      /\ \A i \in 1..Len(queue[r]) - 1 : Tail(queue[r])[i] = queue[r][i + 1]
      /\ Head(queue[r]) = queue[r][1]
      /\ Head(queue[r]) \in IF r \in Batches THEN Episodes ELSE Clips
  BY <1>0 DEF Files
<1>2. /\ step'[r] = IF Len(queue[r]) > 1 THEN "sign" ELSE "ended"
      /\ queue'[r] = Tail(queue[r]) /\ key'[r] = 0
      /\ \A s \in Runs \ {r} : step'[s] = step[s] /\ queue'[s] = queue[s] /\ key'[s] = key[s]
  BY <1>0
<1>3. step'[r] \notin Ops
  BY <1>2 DEF Ops
<1>4. /\ step' \in [Runs -> Running \cup {"idle", "ended"}] /\ key' \in [Runs -> 0..MaxKeys]
      /\ queue' \in [Runs -> Seq(Files)]
  BY <1>0, <1>1, ConsoleConstantsOK DEF Running
<1>5. rows' \in [Batches -> [Episodes -> {"none", "queued", "done", "error"}]]
  BY <1>0
<1>6. seen \subseteq seen' /\ seen' \subseteq Clips
  <2>1. CASE seen' = seen
    BY <1>0, <2>1
  <2>2. CASE step[r] = "publish" /\ seen' = seen \cup {Head(queue[r])}
    <3>1. r \in Flows /\ r \notin Batches
      BY <2>2, ConsoleConstantsOK DEF Inv, RequestsOK
    <3> QED BY <1>0, <1>1, <2>2, <3>1
  <2> QED BY <2>1, <2>2
<1>7. BrowserOK'
  <2>1. Len(queue[r]) > 1 => Tail(queue[r]) # <<>>
    <3> HIDE DEF Through
    <3> QED BY <1>0, TailLeft
  <2>2. ASSUME NEW s \in Runs
        PROVE  /\ queue'[s] \in Seq(IF s \in Batches THEN Episodes ELSE Clips)
               /\ step'[s] \in Running => queue'[s] # <<>>
               /\ step'[s] \in Ops => key'[s] \in 1..minted'
    <3>1. CASE s = r
      BY <1>1, <1>2, <1>3, <2>1, <3>1 DEF Running, Ops
    <3>2. CASE s # r
      BY <1>2, <3>2 DEF Inv, BrowserOK
    <3> QED BY <3>1, <3>2
  <2> QED BY <1>4, <1>5, <1>6, <2>2 DEF BrowserOK
<1>8. OrderOK'
  <2> SUFFICES ASSUME NEW b \in Batches, step'[b] \in Running
               PROVE  /\ \A i, j \in 1..Len(queue'[b]) :
                            i < j => \/ NumberOf(queue'[b][j]) = 0
                                     \/ NumberOf(queue'[b][i]) \in 1..NumberOf(queue'[b][j])
                      /\ \A e \in Episodes : rows'[b][e] = "queued" =>
                            \E i \in 1..Len(queue'[b]) : queue'[b][i] = e
    BY DEF OrderOK
  <2>0. b \in Runs
    BY DEF Runs
  <2>1. CASE b # r
    <3>1. rows'[b] = rows[b]
      BY <1>0, <2>1
    <3> QED BY <1>2, <2>0, <2>1, <3>1 DEF Inv, OrderOK
  <2>2. CASE b = r
    <3>1. /\ \A i, j \in 1..Len(queue[r]) :
                i < j => \/ NumberOf(queue[r][j]) = 0
                         \/ NumberOf(queue[r][i]) \in 1..NumberOf(queue[r][j])
          /\ \A e \in Episodes :
                rows[r][e] = "queued" => \E i \in 1..Len(queue[r]) : queue[r][i] = e
      BY <2>2 DEF Inv, OrderOK
    <3>2. ASSUME NEW i \in 1..Len(queue'[r]), NEW j \in 1..Len(queue'[r]), i < j
          PROVE  \/ NumberOf(queue'[r][j]) = 0
                 \/ NumberOf(queue'[r][i]) \in 1..NumberOf(queue'[r][j])
      <4>1. /\ i \in 1..Len(queue[r]) - 1 /\ j \in 1..Len(queue[r]) - 1
            /\ queue'[r] = Tail(queue[r])
        BY <1>1, <1>2
      <4>2. queue'[r][i] = queue[r][i + 1] /\ queue'[r][j] = queue[r][j + 1]
        BY <1>1, <4>1
      <4>3. i + 1 \in 1..Len(queue[r]) /\ j + 1 \in 1..Len(queue[r]) /\ i + 1 < j + 1
        BY <1>1, <3>2, <4>1
      <4> QED BY <3>1, <4>2, <4>3
    <3>3. ASSUME NEW e \in Episodes, rows'[r][e] = "queued"
          PROVE  \E i \in 1..Len(queue'[r]) : queue'[r][i] = e
      <4>1. rows[r][e] = "queued" /\ e # Head(queue[r])
        BY <1>0, <1>1, <2>2, <3>3
      <4>2. PICK i \in 1..Len(queue[r]) : queue[r][i] = e
        BY <3>1, <4>1
      <4>3. i - 1 \in 1..Len(queue[r]) - 1
        BY <1>1, <4>1, <4>2
      <4> QED BY <1>1, <1>2, <4>2, <4>3
    <3> QED BY <2>2, <3>2, <3>3
  <2> QED BY <2>1, <2>2
<1>9. HolesOK'
  <2> SUFFICES ASSUME NEW b \in Batches, NEW e \in Episodes, NEW f \in Episodes,
                      rows'[b][e] = "queued", NumberOf(e) \in 1..NumberOf(f) - 1,
                      rows'[b][f] = "done"
               PROVE  FALSE
    BY DEF HolesOK
  <2>1. rows[b][e] = "queued"
    BY <1>0
  <2>2. rows[b][f] # "done"
    BY <2>1 DEF Inv, HolesOK
  <2>3. b = r /\ f = Head(queue[r]) /\ e # f
    <3>1. b = r /\ rows'[b] = [rows[b] EXCEPT ![Head(queue[r])] = outcome]
      BY <1>0, <2>2
    <3>2. f = Head(queue[r])
      BY <1>0, <2>2, <3>1
    <3>3. rows'[b][e] # rows'[b][f]
      OBVIOUS
    <3> QED BY <3>1, <3>2, <3>3
  <2>4. PICK i \in 1..Len(queue[r]) : queue[r][i] = e
    BY <2>1, <2>3 DEF Inv, OrderOK
  <2>5. i > 1
    BY <1>1, <2>3, <2>4
  <2>6. NumberOf(e) = 0 \/ NumberOf(f) \in 1..NumberOf(e)
    BY <1>1, <2>3, <2>4, <2>5 DEF Inv, OrderOK
  <2>7. NumberOf(e) \in Nat /\ NumberOf(f) \in Nat
    BY ConsoleConstantsOK
  <2> QED BY <2>6, <2>7
<1>10. FlowOK'
  <2>1. r \in Flows => step'[r] \notin Running
    <3>1. r \in Flows => Len(queue[r]) = 1
      BY DEF Inv, FlowOK
    <3>2. r \in Flows => step'[r] = "ended"
      BY <1>2, <3>1, OneLeft, Zenon
    <3> QED BY <3>2 DEF Running, Ops
  <2>2. \A c \in Flows : step'[c] \in Running => c # r /\ step[c] \in Running
    BY <1>2, <2>1 DEF Runs
  <2>3. \A c \in Flows : step'[c] \in Running => seen' = seen
    <3> SUFFICES ASSUME NEW c \in Flows, step'[c] \in Running, step[r] = "publish" PROVE FALSE
      OBVIOUS
    <3>1. r \in Flows
      BY DEF Inv, RequestsOK
    <3> QED BY <2>2, <3>1 DEF Inv, FlowOK
  <2> QED BY <1>2, <2>2, <2>3 DEF Inv, FlowOK, Runs
<1>11. \A s \in Runs :
          /\ step'[s] \in Ops => GoesOn(s)
          /\ step'[s] = "part" => s \in Batches
          /\ step'[s] \in {"asset", "publish"} => s \in Flows
  BY <1>2, <1>3 DEF GoesOn, Inv, RequestsOK, Ops
<1> QED BY <1>4, <1>6, <1>7, <1>8, <1>9, <1>10, <1>11 DEF BrowserKept

LEMMA ContinueKeeps ==
    ASSUME Inv, NEW r \in Runs, step[r] \in Ops, Continue(r), minted' = minted
    PROVE  BrowserKept /\ (step[r] = "publish" => Head(queue[r]) \in seen')
<1>0. step[r] \in Running /\ step \in [Runs -> Running \cup {"idle", "ended"}]
  BY DEF Running, Inv, BrowserOK
<1>1. CASE step[r] = "part" /\ Through(r, "done") /\ UNCHANGED seen
  BY <1>0, <1>1, ThroughKeeps
<1>2. CASE step[r] = "publish" /\ Through(r, "done") /\ seen' = seen \cup {Head(queue[r])}
  BY <1>0, <1>2, ThroughKeeps
<1>3. CASE /\ step[r] \in {"put", "asset"}
           /\ step' = [step EXCEPT ![r] =
                 IF @ = "asset" THEN "publish" ELSE IF r \in Batches THEN "part" ELSE "asset"]
           /\ UNCHANGED <<queue, key, rows, seen>>
  <2>1. /\ step'[r] \in Ops /\ step'[r] \in Running /\ \A s \in Runs \ {r} : step'[s] = step[s]
        /\ step'[r] = "part" => r \in Batches
        /\ step'[r] \in {"asset", "publish"} => r \in Flows
    BY <1>0, <1>3 DEF Running, Ops, Inv, RequestsOK, Runs
  <2>2. \A s \in Runs : (step'[s] \in Ops => step[s] \in Ops) /\ (step'[s] \in Running <=> step[s] \in Running)
    BY <1>0, <2>1
  <2>3. BrowserOK' /\ queue' \in [Runs -> Seq(Files)]
    <3>1. step' \in [Runs -> Running \cup {"idle", "ended"}]
      BY <1>0, <1>3, <2>1
    <3> QED BY <1>3, <2>2, <3>1 DEF Inv, BrowserOK, RestOK
  <2>4. OrderOK' /\ HolesOK' /\ FlowOK'
    BY <1>3, <2>2 DEF Inv, OrderOK, HolesOK, FlowOK, Runs
  <2>5. \A s \in Runs :
          /\ step'[s] \in Ops => GoesOn(s)
          /\ step'[s] = "part" => s \in Batches
          /\ step'[s] \in {"asset", "publish"} => s \in Flows
    BY <1>3, <2>1, <2>2 DEF GoesOn, Inv, RequestsOK
  <2> QED BY <1>3, <2>3, <2>4, <2>5 DEF BrowserKept
<1> QED BY <1>1, <1>2, <1>3 DEF Continue

\* What a plan of a batch is: all of its files, in the order of the numbers.
LEMMA PlanFacts ==
    ASSUME NEW files \in SUBSET Episodes, files # {}, NEW plan \in EpisodeOrder(files)
    PROVE  /\ plan \in Seq(Episodes) /\ plan # <<>>
           /\ \A e \in files : \E i \in 1..Len(plan) : plan[i] = e
           /\ \A i, j \in 1..Len(plan) :
                 i < j => NumberOf(plan[j]) = 0 \/ NumberOf(plan[i]) \in 1..NumberOf(plan[j])
<1> DEFINE n == Cardinality(files)
<1>1. IsFiniteSet(files) /\ n \in Nat
  BY FS_Subset, FS_CardinalityType, ConsoleConstantsOK
<1>2. plan \in SetToSeqs(files)
  BY DEF EpisodeOrder
<1>3. plan \in [1..n -> files] /\ \A i, j \in 1..n : i # j => plan[i] # plan[j]
  BY <1>2 DEF SetToSeqs
<1>4. IsFiniteSet(1..n) /\ Cardinality(1..n) = n
  BY <1>1, FS_Interval
<1>5. plan \in Injection(1..n, files)
  <2>1. DOMAIN plan = 1..n
    BY <1>3
  <2>2. \A i, j \in DOMAIN plan : plan[i] = plan[j] => i = j
    BY <1>3, <2>1
  <2> QED BY <1>3, <2>2 DEF Injection, IsInjective
<1>6. plan \in Surjection(1..n, files)
  BY <1>1, <1>4, <1>5, FS_Injection
<1>7. \A e \in files : \E i \in 1..n : plan[i] = e
  BY <1>6 DEF Surjection
<1> HIDE DEF n
<1>8. plan \in Seq(Episodes) /\ Len(plan) = n
  BY <1>1, <1>3
<1>9. plan # <<>>
  <2>1. PICK e \in files : TRUE
    OBVIOUS
  <2>2. n # 0
    BY <1>7, <2>1
  <2> QED BY <1>8, <2>2, EmptyLen
<1> QED BY <1>7, <1>8, <1>9 DEF EpisodeOrder

LEMMA DropFilesKeeps ==
    ASSUME Inv, NEW b \in Batches, NEW files \in (SUBSET Episodes) \ {{}}, DropFiles(b, files)
    PROVE  BrowserKept /\ server' = server
<1> USE DEF DropFiles
<1>0. /\ b \in Runs /\ b \notin Flows /\ files \in SUBSET Episodes /\ files # {}
      /\ step \in [Runs -> Running \cup {"idle", "ended"}] /\ queue \in [Runs -> Seq(Files)]
      /\ rows \in [Batches -> [Episodes -> {"none", "queued", "done", "error"}]]
  BY ConsoleConstantsOK DEF Runs, Inv, BrowserOK, RestOK
<1>1. PICK plan \in EpisodeOrder(files) : queue' = [queue EXCEPT ![b] = plan]
  OBVIOUS
<1>2. /\ plan \in Seq(Episodes) /\ plan # <<>>
      /\ \A e \in files : \E i \in 1..Len(plan) : plan[i] = e
      /\ \A i, j \in 1..Len(plan) :
            i < j => NumberOf(plan[j]) = 0 \/ NumberOf(plan[i]) \in 1..NumberOf(plan[j])
  BY <1>0, <1>1, PlanFacts
<1>3. /\ step'[b] = "sign" /\ queue'[b] = plan
      /\ rows'[b] = [f \in Episodes |-> IF f \in files THEN "queued" ELSE "none"]
      /\ \A s \in Runs \ {b} : step'[s] = step[s] /\ queue'[s] = queue[s]
      /\ \A s \in Batches \ {b} : rows'[s] = rows[s]
  BY <1>0, <1>1
<1>4. BrowserOK' /\ queue' \in [Runs -> Seq(Files)]
  <2>1. step' \in [Runs -> Running \cup {"idle", "ended"}]
    BY <1>0 DEF Running
  <2>2. plan \in Seq(Files)
    BY <1>2 DEF Files
  <2>3. queue' \in [Runs -> Seq(Files)]
    BY <1>0, <1>1, <2>2
  <2>4. rows' \in [Batches -> [Episodes -> {"none", "queued", "done", "error"}]]
    BY <1>0
  <2>5. ASSUME NEW s \in Runs
        PROVE  /\ queue'[s] \in Seq(IF s \in Batches THEN Episodes ELSE Clips)
               /\ step'[s] \in Running => queue'[s] # <<>>
               /\ step'[s] \in Ops => key'[s] \in 1..minted'
    <3>1. CASE s = b
      BY <1>2, <1>3, <3>1 DEF Ops
    <3>2. CASE s # b
      BY <1>3, <3>2 DEF Inv, BrowserOK
    <3> QED BY <3>1, <3>2
  <2> QED BY <2>1, <2>3, <2>4, <2>5 DEF BrowserOK, Inv
<1>5. OrderOK'
  <2> SUFFICES ASSUME NEW d \in Batches, step'[d] \in Running
               PROVE  /\ \A i, j \in 1..Len(queue'[d]) :
                            i < j => \/ NumberOf(queue'[d][j]) = 0
                                     \/ NumberOf(queue'[d][i]) \in 1..NumberOf(queue'[d][j])
                      /\ \A e \in Episodes : rows'[d][e] = "queued" =>
                            \E i \in 1..Len(queue'[d]) : queue'[d][i] = e
    BY DEF OrderOK
  <2>1. CASE d = b
    BY <1>2, <1>3, <2>1
  <2>2. CASE d # b
    BY <1>3, <2>2 DEF Inv, OrderOK, Runs
  <2> QED BY <2>1, <2>2
<1>6. HolesOK'
  <2>1. \A f \in Episodes : rows'[b][f] # "done"
    BY <1>3
  <2> QED BY <1>3, <2>1 DEF Inv, HolesOK
<1>7. FlowOK'
  BY <1>0, <1>3 DEF Inv, FlowOK, Runs
<1>8. \A s \in Runs :
          /\ step'[s] \in Ops => GoesOn(s)
          /\ step'[s] = "part" => s \in Batches
          /\ step'[s] \in {"asset", "publish"} => s \in Flows
  BY <1>3 DEF GoesOn, Inv, RequestsOK, Ops
<1> QED BY <1>4, <1>5, <1>6, <1>7, <1>8 DEF BrowserKept

LEMMA SubmitKeeps ==
    ASSUME Inv, NEW c \in Flows, NEW f \in Clips, Submit(c, f)
    PROVE  BrowserKept /\ server' = server
<1> USE DEF Submit
<1>0. /\ c \in Runs /\ c \notin Batches
      /\ step \in [Runs -> Running \cup {"idle", "ended"}] /\ queue \in [Runs -> Seq(Files)]
  BY ConsoleConstantsOK DEF Runs, Inv, BrowserOK, RestOK
<1>1. /\ <<f>> \in Seq(Clips) /\ <<f>> \in Seq(Files)
      /\ Len(<<f>>) = 1 /\ Head(<<f>>) = f
  BY DEF Files
<1>2. <<f>> # <<>>
  BY <1>1, EmptyLen
<1>3. /\ step'[c] = "sign" /\ queue'[c] = <<f>>
      /\ \A s \in Runs \ {c} : step'[s] = step[s] /\ queue'[s] = queue[s]
  BY <1>0
<1>4. BrowserOK' /\ queue' \in [Runs -> Seq(Files)]
  <2>1. step' \in [Runs -> Running \cup {"idle", "ended"}]
    BY <1>0 DEF Running
  <2>2. queue' \in [Runs -> Seq(Files)]
    BY <1>0, <1>1
  <2>3. ASSUME NEW s \in Runs
        PROVE  /\ queue'[s] \in Seq(IF s \in Batches THEN Episodes ELSE Clips)
               /\ step'[s] \in Running => queue'[s] # <<>>
               /\ step'[s] \in Ops => key'[s] \in 1..minted'
    <3>1. CASE s = c
      BY <1>0, <1>1, <1>2, <1>3, <3>1 DEF Ops
    <3>2. CASE s # c
      BY <1>3, <3>2 DEF Inv, BrowserOK
    <3> QED BY <3>1, <3>2
  <2> QED BY <2>1, <2>2, <2>3 DEF BrowserOK, Inv
<1>5. OrderOK' /\ HolesOK'
  BY <1>0, <1>3 DEF Inv, OrderOK, HolesOK, Runs
<1>6. FlowOK'
  BY <1>1, <1>3 DEF Inv, FlowOK, Runs
<1>7. \A s \in Runs :
          /\ step'[s] \in Ops => GoesOn(s)
          /\ step'[s] = "part" => s \in Batches
          /\ step'[s] \in {"asset", "publish"} => s \in Flows
  BY <1>3 DEF GoesOn, Inv, RequestsOK, Ops
<1> QED BY <1>4, <1>5, <1>6, <1>7 DEF BrowserKept

LEMMA ReloadKeeps == ASSUME Inv, Reload PROVE BrowserKept
<1> USE DEF Reload
<1>1. \A s \in Runs : step'[s] \notin Running /\ queue'[s] = <<>>
  BY DEF Running, Ops
<1>2. step' \in [Runs -> Running \cup {"idle", "ended"}]
  BY DEF Inv, BrowserOK
<1>3. /\ \A s \in Runs : queue'[s] \in Seq(IF s \in Batches THEN Episodes ELSE Clips)
      /\ queue' \in [Runs -> Seq(Files)]
      /\ key' \in [Runs -> 0..MaxKeys]
  BY <1>1, ConsoleConstantsOK
<1>4. BrowserOK'
  BY <1>1, <1>2, <1>3 DEF Inv, BrowserOK, Running
<1>5. \A s \in Batches \cup Flows : step'[s] \notin Running
  BY <1>1 DEF Runs
<1>6. rows' = rows
  OBVIOUS
<1> HIDE DEF Reload
<1>7. OrderOK' /\ FlowOK'
  BY <1>5 DEF OrderOK, FlowOK
<1>8. HolesOK'
  BY <1>6 DEF Inv, HolesOK
<1>9. seen' = seen /\ \A s \in Runs : step'[s] \notin Ops /\ step'[s] \notin {"part", "asset", "publish"}
  BY <1>1 DEF Reload, Running, Ops
<1> QED BY <1>1, <1>3, <1>4, <1>7, <1>8, <1>9 DEF BrowserKept

\* A run that begins, fails or is given up leaves the service as it is, and at most
\* its request behind.
LEMMA RunKeeps ==
    ASSUME Inv, BrowserKept, UNCHANGED <<minted, server, open>>,
           \A q \in late' : \/ q \in late
                            \/ \E s \in Runs : step[s] \in Ops /\ q = RequestOf(s),
           \A q \in late' : q.op = "publish" => q \in late \/ q.key \in unanswered',
           unanswered \subseteq unanswered', unanswered' \subseteq Keys
    PROVE  Inv'
<1> USE DEF server
<1>1. /\ BrowserOK' /\ OrderOK' /\ HolesOK' /\ FlowOK'
      /\ queue' \in [Runs -> Seq(Files)] /\ seen \subseteq seen'
  BY DEF BrowserKept
<1>2. ServerOK' /\ NumbersOK'
  BY DEF Inv, ServerOK, NumbersOK
<1>3. \A q \in late' \cup open' : q \in Request /\ q.file \in Names(q.key)
  <2> SUFFICES ASSUME NEW s \in Runs, step[s] \in Ops
               PROVE  RequestOf(s) \in Request /\ RequestOf(s).file \in Names(RequestOf(s).key)
    BY RequestNames
  <2>1. RequestOf(s).key = key[s]
    BY DEF RequestOf
  <2> QED BY <2>1, RequestNames
<1>4. RestOK'
  BY <1>1, <1>3 DEF Inv, RestOK
<1>5. KeysOK'
  <2>1. \A s \in Runs : step'[s] \in Ops => Head(queue'[s]) \in Names(key'[s])
    <3> SUFFICES ASSUME NEW s \in Runs, step'[s] \in Ops
                 PROVE  Head(queue'[s]) \in Names(key'[s])
      OBVIOUS
    <3>1. GoesOn(s)
      BY DEF BrowserKept
    <3>2. RequestOf(s).file \in Names(key[s]) /\ RequestOf(s).file = Head(queue[s])
      BY <3>1, RequestNames DEF GoesOn, RequestOf
    <3> QED BY <3>1, <3>2 DEF GoesOn
  <2> QED BY <1>3, <2>1, KeysStay
<1>6. RequestsOK'
  <2>1. ASSUME NEW q \in late' \cup open', q.op = "part" PROVE q.file \in Episodes
    <3>1. CASE q \in late \cup open
      BY <2>1, <3>1 DEF Inv, RequestsOK
    <3>2. CASE \E s \in Runs : step[s] \in Ops /\ q = RequestOf(s)
      <4>1. PICK s \in Runs : step[s] \in Ops /\ q = RequestOf(s)
        BY <3>2
      <4>2. s \in Batches
        BY <2>1, <4>1 DEF RequestOf, Inv, RequestsOK
      <4> QED BY <4>1, <4>2, RequestNames DEF RequestOf
    <3> QED BY <3>1, <3>2
  <2>2. \A q \in open' :
          /\ q.op # "put"
          /\ objects'[q.key] # NoFile
          /\ q.op = "part" => NumberOf(q.file) # 0
          /\ q.op = "publish" => q.key \in assets' /\ q.file \in seen'
    BY <1>1 DEF Inv, RequestsOK
  <2>3. \A q \in late' : q.op = "publish" => q.key \in unanswered'
    BY DEF Inv, RequestsOK
  <2> QED BY <2>1, <2>2, <2>3 DEF BrowserKept, RequestsOK
<1>7. SeenOK'
  <2>1. Settled' \subseteq Settled
    BY DEF Settled
  <2> QED BY <1>1, <2>1 DEF Inv, SeenOK
<1> QED BY <1>1, <1>2, <1>4, <1>5, <1>6, <1>7 DEF Inv

LEMMA BegunKeeps ==
    ASSUME Inv, BrowserKept, UNCHANGED <<minted, server, open, late, unanswered>>
    PROVE  Inv'
<1>1. \A q \in late' : q \in late
  OBVIOUS
<1>2. unanswered' \subseteq Keys
  BY DEF Inv, RestOK
<1> QED BY <1>1, <1>2, RunKeeps

LEMMA RefusedKeeps == ASSUME Inv, NEW r \in Runs, Refused(r) PROVE Inv'
<1>1. step[r] \in Running /\ Through(r, "error")
  BY DEF Refused, Running
<1>2. UNCHANGED <<minted, server, open, late, unanswered, seen>>
  BY DEF Refused
<1>3. BrowserKept
  BY <1>1, <1>2, ThroughKeeps
<1> QED BY <1>2, <1>3, BegunKeeps

\* What is left behind, and that the POST /publish among it is known to be.
LEMMA LeftFacts ==
    ASSUME Inv, NEW runs \in SUBSET Runs, LeftBehind(runs)
    PROVE  /\ \A q \in late' : \/ q \in late
                              \/ \E s \in Runs : step[s] \in Ops /\ q = RequestOf(s)
           /\ \A q \in late' : q.op = "publish" => q \in late \/ q.key \in unanswered'
           /\ unanswered \subseteq unanswered' /\ unanswered' \subseteq Keys
<1>1. ASSUME NEW q \in late', q \notin late
      PROVE  /\ \E s \in Runs : step[s] \in Ops /\ q = RequestOf(s)
             /\ q.op = "publish" => q.key \in unanswered'
  <2>1. PICK s \in runs : step[s] \in Ops /\ q = RequestOf(s)
    BY <1>1 DEF LeftBehind
  <2>2. q.op = step[s] /\ q.key = key[s]
    BY <2>1 DEF RequestOf
  <2>3. q.op = "publish" => q.key \in unanswered'
    BY <2>2 DEF LeftBehind
  <2> QED BY <2>1, <2>3
<1>2. \A s \in Runs : step[s] = "publish" => key[s] \in Keys
  BY DEF Ops, Keys, Inv, BrowserOK, RestOK
<1>3. unanswered \subseteq unanswered' /\ unanswered' \subseteq Keys
  BY <1>2 DEF LeftBehind, Inv, RestOK
<1> QED BY <1>1, <1>3

LEMMA GiveUpKeeps == ASSUME Inv, NEW r \in Runs, GiveUp(r) PROVE Inv'
<1>1. step[r] \in Running /\ Through(r, "error") /\ LeftBehind({r})
  BY DEF GiveUp, Running
<1>2. UNCHANGED <<minted, server, open, seen>>
  BY DEF GiveUp
<1>3. BrowserKept
  BY <1>1, <1>2, ThroughKeeps
<1>4. {r} \in SUBSET Runs
  OBVIOUS
<1> QED BY <1>1, <1>2, <1>3, <1>4, LeftFacts, RunKeeps

LEMMA ReloadedKeeps == ASSUME Inv, Reload PROVE Inv'
<1>1. LeftBehind(Runs) /\ UNCHANGED <<minted, server, open>>
  BY DEF Reload
<1> QED BY <1>1, ReloadKeeps, LeftFacts, RunKeeps

\* A new key has named nothing yet.
LEMMA SignKeeps == ASSUME Inv, NEW r \in Runs, Sign(r) PROVE Inv'
<1> USE DEF Sign, server, NewKey
<1>0. /\ minted \in 0..MaxKeys /\ minted < MaxKeys /\ minted + 1 \in Keys /\ MaxKeys \in Nat
      /\ step \in [Runs -> Running \cup {"idle", "ended"}] /\ key \in [Runs -> 0..MaxKeys]
  BY ConsoleConstantsOK DEF Inv, RestOK, BrowserOK, Keys
<1>1. /\ step'[r] = "put" /\ key'[r] = minted + 1 /\ step[r] = "sign"
      /\ \A s \in Runs \ {r} : step'[s] = step[s] /\ key'[s] = key[s]
  BY <1>0
<1>2. \A s \in Runs : step'[s] \in Running <=> step[s] \in Running
  BY <1>1 DEF Running, Ops
<1>3. BrowserOK'
  <2>1. step' \in [Runs -> Running \cup {"idle", "ended"}] /\ key' \in [Runs -> 0..MaxKeys]
    BY <1>0, <1>1 DEF Running, Ops, Keys
  <2>2. \A s \in Runs : step'[s] \in Ops => key'[s] \in 1..minted'
    BY <1>0, <1>1 DEF Inv, BrowserOK
  <2> QED BY <1>2, <2>1, <2>2 DEF Inv, BrowserOK
<1>4. ServerOK' /\ NumbersOK'
  BY DEF Inv, ServerOK, NumbersOK
<1>5. RestOK'
  BY <1>0 DEF Inv, RestOK, Keys
<1>6. OrderOK' /\ HolesOK' /\ FlowOK'
  BY <1>2 DEF Inv, OrderOK, HolesOK, FlowOK, Runs
<1>7. RequestsOK'
  BY <1>1 DEF Inv, RequestsOK
<1>8. SeenOK'
  BY DEF Inv, SeenOK, Settled
<1>9. KeysOK'
  <2>1. ASSUME NEW k \in Keys, k # minted + 1 PROVE Names(k)' \subseteq Names(k)
    <3> SUFFICES ASSUME NEW f \in Names(k)' PROVE f \in Names(k)
      OBVIOUS
    <3>1. CASE \E q \in late \cup open : q.key = k /\ f = q.file
      BY <3>1 DEF Names
    <3>2. CASE \E s \in Runs : step'[s] \in Ops /\ key'[s] = k /\ f = Head(queue'[s])
      <4>1. PICK s \in Runs : step'[s] \in Ops /\ key'[s] = k /\ f = Head(queue'[s])
        BY <3>2
      <4>2. s # r
        BY <1>1, <2>1, <4>1
      <4> QED BY <1>1, <4>1, <4>2 DEF Names
    <3>3. CASE f = objects[k] /\ f # NoFile
      BY <3>3 DEF Names
    <3> QED BY <3>1, <3>2, <3>3 DEF Names
  <2>2. ASSUME NEW k \in Keys, k = minted + 1, NEW f \in Names(k)' PROVE f = Head(queue[r])
    <3>0. Names(k) = {}
      BY <1>0, <2>2 DEF Inv, KeysOK
    <3>1. ASSUME NEW q \in late \cup open, q.key = k PROVE FALSE
      <4>1. q.file \in Names(k)
        BY <3>1 DEF Names
      <4> QED BY <3>0, <4>1
    <3>2. ASSUME NEW s \in Runs, step'[s] \in Ops, key'[s] = k PROVE s = r
      <4> SUFFICES ASSUME s # r PROVE FALSE
        OBVIOUS
      <4>1. Head(queue[s]) \in Names(k)
        BY <1>1, <3>2 DEF Names
      <4> QED BY <3>0, <4>1
    <3>3. objects[k] = NoFile
      <4> SUFFICES ASSUME objects[k] # NoFile PROVE FALSE
        OBVIOUS
      <4>1. objects[k] \in Names(k)
        BY DEF Names
      <4> QED BY <3>0, <4>1
    <3> HIDE DEF Sign
    <3>4. late' = late /\ open' = open /\ objects' = objects /\ queue' = queue
      BY DEF Sign
    <3> QED BY <3>1, <3>2, <3>3, <3>4 DEF Names
  <2>3. \A k \in Keys : k > minted + 1 => k > minted /\ k # minted + 1
    BY <1>0 DEF Keys
  <2> QED BY <1>0, <2>1, <2>2, <2>3 DEF Inv, KeysOK
<1> QED BY <1>3, <1>4, <1>5, <1>6, <1>7, <1>8, <1>9 DEF Inv

\* An accepted POST /publish settles a video that was not seen queued before.
LEMMA PublishSettles ==
    ASSUME Inv, NEW r \in Runs, step[r] = "publish", Accepts(RequestOf(r))
    PROVE  /\ key[r] \in Keys /\ objects[key[r]] = Head(queue[r])
           /\ \A k \in Settled : objects[k] # objects[key[r]]
<1>1. step[r] \in Ops /\ step[r] \in Running
  BY DEF Ops, Running
<1>2. /\ RequestOf(r).op = "publish" /\ RequestOf(r).key = key[r]
      /\ RequestOf(r).file = Head(queue[r])
  BY DEF RequestOf
<1>3. RequestOf(r) \in Request /\ Head(queue[r]) \in Names(key[r])
  BY <1>1, <1>2, RequestNames
<1>4. key[r] \in Keys
  BY <1>2, <1>3 DEF Request
<1>5. key[r] \in assets
  BY <1>2 DEF Accepts, AcceptsPublish
<1>6. objects[key[r]] # NoFile
  BY <1>5 DEF Inv, ServerOK
<1>7. objects[key[r]] = Head(queue[r])
  BY <1>3, <1>4, <1>6, RequestNames DEF Inv, KeysOK
<1>8. Head(queue[r]) \notin seen
  BY <1>1 DEF Inv, RequestsOK, FlowOK
<1> QED BY <1>4, <1>7, <1>8 DEF Inv, SeenOK

\* The answered request takes effect at once.
LEMMA AnsweredEffects ==
    ASSUME Inv, NEW r \in Runs, step[r] \in Ops, Good(RequestOf(r)), Accepts(RequestOf(r)),
           Effect(RequestOf(r)), UNCHANGED <<minted, open, late, unanswered>>,
           BrowserKept, step[r] = "publish" => Head(queue[r]) \in seen'
    PROVE  Inv'
<1> DEFINE q == RequestOf(r)
<1>0. q.op = step[r] /\ q.key = key[r] /\ q.file = Head(queue[r])
  BY DEF RequestOf
<1>1. /\ ServerOK' /\ NumbersOK'
      /\ \A k \in Keys : objects'[k] = objects[k] \/ objects'[k] \in Names(k)
      /\ \A k \in Keys : objects[k] # NoFile => objects'[k] = objects[k]
      /\ assets \subseteq assets'
      /\ published' = published \cup {k \in {q.key} : q.op = "publish"}
  BY EffectFacts
<1> HIDE DEF q
<1>2. BrowserOK' /\ OrderOK' /\ HolesOK' /\ FlowOK' /\ RestOK' /\ seen \subseteq seen'
  BY DEF BrowserKept, Inv, RestOK
<1>3. KeysOK'
  <2>1. \A s \in Runs : step'[s] \in Ops => Head(queue'[s]) \in Names(key'[s])
    <3> SUFFICES ASSUME NEW s \in Runs, step'[s] \in Ops
                 PROVE  Head(queue'[s]) \in Names(key'[s])
      OBVIOUS
    <3>1. GoesOn(s)
      BY DEF BrowserKept
    <3>2. RequestOf(s).file \in Names(key[s]) /\ RequestOf(s).file = Head(queue[s])
      BY <3>1, RequestNames DEF GoesOn, RequestOf
    <3> QED BY <3>1, <3>2 DEF GoesOn
  <2> QED BY <1>1, <2>1, KeysStay, RequestNames
<1>4. RequestsOK'
  <2>1. \A o \in open : o.key \in Keys
    BY DEF Inv, RestOK, Request
  <2> QED BY <1>1, <1>2, <2>1 DEF Inv, RequestsOK, BrowserKept
<1>5. SeenOK'
  <2>1. \A k \in Settled : k \in Keys /\ objects[k] # NoFile
    BY DEF Settled, Inv, ServerOK, RequestsOK
  <2>2. CASE step[r] = "publish"
    <3>1. /\ key[r] \in Keys /\ objects[key[r]] = Head(queue[r])
          /\ \A k \in Settled : objects[k] # objects[key[r]]
      BY <2>2, PublishSettles
    <3>2. objects[key[r]] # NoFile
      BY <1>0, <2>2 DEF q, Good
    <3>3. Settled' \subseteq Settled \cup {key[r]}
      BY <1>0, <1>1 DEF Settled
    <3>4. \A k \in Settled \cup {key[r]} : objects'[k] = objects[k]
      BY <1>1, <2>1, <3>1, <3>2
    <3> QED BY <1>2, <2>2, <3>1, <3>3, <3>4 DEF Inv, SeenOK
  <2>3. CASE step[r] # "publish"
    <3>1. Settled' \subseteq Settled
      BY <1>0, <1>1, <2>3 DEF Settled
    <3> QED BY <1>1, <1>2, <2>1, <3>1 DEF Inv, SeenOK
  <2> QED BY <2>2, <2>3
<1> QED BY <1>1, <1>2, <1>3, <1>4, <1>5 DEF Inv

\* It is answered before its commit.
LEMMA AnsweredOpens ==
    ASSUME Inv, NEW r \in Runs, step[r] \in Ops \ {"put"}, Good(RequestOf(r)),
           Accepts(RequestOf(r)), open' = open \cup {RequestOf(r)},
           UNCHANGED <<minted, server, late, unanswered>>,
           BrowserKept, step[r] = "publish" => Head(queue[r]) \in seen'
    PROVE  Inv'
<1> DEFINE q == RequestOf(r)
<1> USE DEF server
<1>0. q.op = step[r] /\ q.key = key[r] /\ q.file = Head(queue[r]) /\ q \in Request
  BY DEF RequestOf, Good
<1>1. ServerOK' /\ NumbersOK'
  BY DEF Inv, ServerOK, NumbersOK
<1>2. /\ BrowserOK' /\ OrderOK' /\ HolesOK' /\ FlowOK' /\ seen \subseteq seen'
      /\ RestOK'
  BY <1>0 DEF BrowserKept, Inv, RestOK
<1>3. KeysOK'
  <2>1. \A s \in Runs : step'[s] \in Ops => Head(queue'[s]) \in Names(key'[s])
    <3> SUFFICES ASSUME NEW s \in Runs, step'[s] \in Ops
                 PROVE  Head(queue'[s]) \in Names(key'[s])
      OBVIOUS
    <3>1. GoesOn(s)
      BY DEF BrowserKept
    <3>2. RequestOf(s).file \in Names(key[s]) /\ RequestOf(s).file = Head(queue[s])
      BY <3>1, RequestNames DEF GoesOn, RequestOf
    <3> QED BY <3>1, <3>2 DEF GoesOn
  <2>2. \A o \in late' \cup open' : o \in late \cup open \/ o.file \in Names(o.key)
    BY DEF Good
  <2> QED BY <2>1, <2>2, KeysStay
<1>4. RequestsOK'
  <2>1. /\ q.op # "put" /\ objects[q.key] # NoFile
        /\ q.op = "part" => q.file \in Episodes /\ NumberOf(q.file) # 0
        /\ q.op = "publish" => q.key \in assets /\ q.file \in seen'
    BY <1>0 DEF Good
  <2> HIDE DEF q
  <2>2. open' = open \cup {q}
    BY DEF q
  <2> QED BY <1>2, <2>1, <2>2 DEF Inv, RequestsOK, BrowserKept
<1>5. SeenOK'
  <2>1. CASE step[r] = "publish"
    <3>1. /\ objects[key[r]] = Head(queue[r])
          /\ \A k \in Settled : objects[k] # objects[key[r]]
      BY <2>1, PublishSettles
    <3>2. Settled' \subseteq Settled \cup {key[r]}
      BY <1>0 DEF Settled
    <3> QED BY <1>2, <2>1, <3>1, <3>2 DEF Inv, SeenOK
  <2>2. CASE step[r] # "publish"
    <3>1. Settled' \subseteq Settled
      BY <1>0, <2>2 DEF Settled
    <3> QED BY <1>2, <3>1 DEF Inv, SeenOK
  <2> QED BY <2>1, <2>2
<1> QED BY <1>1, <1>2, <1>3, <1>4, <1>5 DEF Inv

\* The API accepts only what is good.
LEMMA AnsweredGood ==
    ASSUME Inv, NEW r \in Runs, step[r] \in Ops, Accepts(RequestOf(r))
    PROVE  Good(RequestOf(r))
<1>1. /\ RequestOf(r) \in Request
      /\ RequestOf(r).file \in Names(RequestOf(r).key)
      /\ RequestOf(r).op = "part" => RequestOf(r).file \in Episodes
  <2>1. RequestOf(r).op = step[r] /\ RequestOf(r).key = key[r] /\ RequestOf(r).file = Head(queue[r])
    BY DEF RequestOf
  <2>2. step[r] = "part" => r \in Batches
    BY DEF Inv, RequestsOK
  <2> QED BY <2>1, <2>2, RequestNames
<1> QED BY <1>1, AcceptedGood

LEMMA AnsweredKeeps == ASSUME Inv, NEW r \in Runs, Answered(r) PROVE Inv'
<1>1. /\ step[r] \in Ops /\ Accepts(RequestOf(r)) /\ Continue(r)
      /\ UNCHANGED <<minted, late, unanswered>>
  BY DEF Answered
<1>2. Good(RequestOf(r))
  BY <1>1, AnsweredGood
<1>3. BrowserKept /\ (step[r] = "publish" => Head(queue[r]) \in seen')
  BY <1>1, ContinueKeeps
<1>4. CASE Effect(RequestOf(r)) /\ UNCHANGED open
  BY <1>1, <1>2, <1>3, <1>4, AnsweredEffects
<1>5. CASE step[r] # "put" /\ open' = open \cup {RequestOf(r)} /\ UNCHANGED server
  BY <1>1, <1>2, <1>3, <1>5, AnsweredOpens
<1> QED BY <1>4, <1>5 DEF Answered
-----------------------------------------------------------------------------
LEMMA StepInv == Inv /\ [Next]_vars => Inv'
<1> SUFFICES ASSUME Inv, [Next]_vars PROVE Inv'
  OBVIOUS
<1>1. ASSUME NEW b \in Batches, NEW files \in (SUBSET Episodes) \ {{}}, DropFiles(b, files)
      PROVE  Inv'
  <2>1. UNCHANGED <<minted, server, open, late, unanswered>>
    BY <1>1 DEF DropFiles
  <2> QED BY <1>1, <2>1, DropFilesKeeps, BegunKeeps
<1>2. ASSUME NEW c \in Flows, NEW f \in Clips, Submit(c, f) PROVE Inv'
  <2>1. UNCHANGED <<minted, server, open, late, unanswered>>
    BY <1>2 DEF Submit
  <2> QED BY <1>2, <2>1, SubmitKeeps, BegunKeeps
<1>3. ASSUME NEW r \in Runs, Sign(r) \/ Answered(r) \/ Refused(r) \/ GiveUp(r) PROVE Inv'
  BY <1>3, SignKeeps, AnsweredKeeps, RefusedKeeps, GiveUpKeeps
<1>4. ASSUME NEW q \in open, Commit(q) \/ CommitFails(q) PROVE Inv'
  BY <1>4, CommitKeeps, CommitFailsKeeps
<1>5. ASSUME NEW q \in late, Arrive(q) PROVE Inv'
  BY <1>5, ArriveKeeps
<1>6. ASSUME NEW p \in parts, RemovePart(p) PROVE Inv'
  BY <1>6, RemovePartKeeps
<1>7. ASSUME Reload PROVE Inv'
  BY <1>7, ReloadedKeeps
<1>8. ASSUME UNCHANGED vars PROVE Inv'
  <2>1. UNCHANGED <<minted, objects, assets, parts, published, open, late,
                    step, queue, key, rows, seen, unanswered>>
    BY <1>8 DEF vars, server, browser
  <2>2. ServerOK' /\ BrowserOK' /\ RestOK' /\ RequestsOK' /\ NumbersOK'
    BY <2>1 DEF Inv, ServerOK, BrowserOK, RestOK, RequestsOK, NumbersOK
  <2>3. KeysOK' /\ SeenOK'
    <3>1. KeysOK'
      BY <2>1, KeysStay, RequestNames DEF RequestOf
    <3>2. Settled' = Settled
      BY <2>1 DEF Settled
    <3> QED BY <2>1, <3>1, <3>2 DEF Inv, SeenOK
  <2>4. OrderOK' /\ HolesOK' /\ FlowOK'
    BY <2>1 DEF Inv, OrderOK, HolesOK, FlowOK
  <2> QED BY <2>2, <2>3, <2>4 DEF Inv
<1> QED BY <1>1, <1>2, <1>3, <1>4, <1>5, <1>6, <1>7, <1>8 DEF Next

LEMMA InvHolds == Spec => []Inv
BY InitInv, StepInv, PTL DEF Spec

\* The variables keep their types; what is registered was stored, what is published
\* was registered, and a run that waits has a file and a key (useSeries.ts, App.tsx).
THEOREM TypeCorrect == Spec => []TypeOK
<1>1. Inv => TypeOK
  BY TypeByParts DEF Inv
<1> QED BY <1>1, InvHolds, PTL

\* A part has its own file, and no batch registers a part before one with a smaller
\* number that it has not tried yet (addFiles' order, however it ends).
THEOREM HolesAreFailuresHolds == Spec => []HolesAreFailures
<1>1. Inv => HolesAreFailures
  BY DEF Inv, NumbersOK, HolesOK, HolesAreFailures
<1> QED BY <1>1, InvHolds, PTL

\* Of two published uploads of one video, one's POST /publish went unanswered
\* (usePublishFlow's phase, and publish's check of the asset's jobs).
THEOREM TwicePublished == Spec => []TwiceOnlyUnanswered
<1>1. Inv => TwiceOnlyUnanswered
  BY DEF Inv, SeenOK, Settled, TwiceOnlyUnanswered
<1> QED BY <1>1, InvHolds, PTL

\* The object of a registered asset is never replaced (create_upload_url's keys).
THEOREM SourcesStay == Spec => SourceStays
<1>1. ASSUME Inv, [Next]_vars, NEW k \in assets PROVE objects'[k] = objects[k]
  <2>0. k \in Keys /\ objects[k] # NoFile
    BY <1>1 DEF Inv, ServerOK
  <2>1. ASSUME NEW q, Good(q), Effect(q) PROVE objects'[k] = objects[k]
    BY <1>1, <2>0, <2>1, EffectFacts
  <2>2. CASE \E r \in Runs : Answered(r)
    <3>1. PICK r \in Runs : Answered(r)
      BY <2>2
    <3>2. step[r] \in Ops /\ Accepts(RequestOf(r))
      BY <3>1 DEF Answered
    <3>3. Good(RequestOf(r))
      BY <1>1, <3>2, AnsweredGood
    <3> QED BY <2>1, <3>1, <3>3 DEF Answered, server
  <2>3. CASE \E q \in open : Commit(q)
    BY <1>1, <2>1, <2>3, OpenGood DEF Commit
  <2>4. CASE \E q \in late : Arrive(q)
    <3>1. PICK q \in late : Arrive(q)
      BY <2>4
    <3>2. Good(q)
      BY <1>1, <3>1, RequestNames, AcceptedGood DEF Arrive, Inv, RequestsOK
    <3> QED BY <2>1, <3>1, <3>2 DEF Arrive
  <2>5. CASE objects' = objects
    BY <2>5
  <2>6. \/ objects' = objects
        \/ \E r \in Runs : Answered(r)
        \/ \E q \in open : Commit(q)
        \/ \E q \in late : Arrive(q)
    <3>1. CASE Next
      <4>1. \A b \in Batches, files \in (SUBSET Episodes) \ {{}} :
                DropFiles(b, files) => objects' = objects
        BY DEF DropFiles, server
      <4>2. \A c \in Flows, f \in Clips : Submit(c, f) => objects' = objects
        BY DEF Submit, server
      <4>3. \A r \in Runs : Sign(r) \/ Refused(r) \/ GiveUp(r) => objects' = objects
        BY DEF Sign, Refused, GiveUp, server
      <4>4. \A q \in open : CommitFails(q) => objects' = objects
        BY DEF CommitFails, server
      <4>5. \A p \in parts : RemovePart(p) => objects' = objects
        BY DEF RemovePart
      <4>6. Reload => objects' = objects
        BY DEF Reload, server
      <4> QED BY <3>1, <4>1, <4>2, <4>3, <4>4, <4>5, <4>6 DEF Next
    <3>2. CASE UNCHANGED vars
      BY <3>2 DEF vars, server
    <3> QED BY <1>1, <3>1, <3>2
  <2> QED BY <2>2, <2>3, <2>4, <2>5, <2>6
<1>2. Inv /\ [Next]_vars => [\A k \in assets : objects'[k] = objects[k]]_vars
  BY <1>1
<1> QED BY <1>2, InvHolds, PTL DEF Spec, SourceStays
=============================================================================
