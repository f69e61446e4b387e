---------------------------- MODULE RenditionLease ----------------------------
(***************************************************************************)
(* One rendition: the `renditions` row of an asset, a platform and a        *)
(* profile, the objects prepared for it, and the processes that run         *)
(* `prepare_rendition` on it at the same time.                              *)
(*                                                                         *)
(* A claim token is also the name of the object its claimer uploads, so the *)
(* key of an object is its token.  A transaction that holds the row lock, or *)
(* is one conditional UPDATE, is one step; the clock it compares with was    *)
(* read before it, in a step of its own, because it may wait for the lock.   *)
(***************************************************************************)
EXTENDS Naturals

CONSTANTS
    Workers,   \* processes that call prepare_rendition
    Tokens,    \* claim tokens, each drawn at most once
    NoToken,   \* a claim token of None
    Lease,     \* RENDITION_LEASE
    MaxTime,   \* bound of the model: the clock stops here
    Faults     \* what may go wrong: "crash", "storage", "database", "late"

ASSUME ConstantsOK ==
    /\ NoToken \notin Tokens
    /\ Lease \in Nat \ {0}
    /\ MaxTime \in Nat
    /\ Faults \subseteq {"crash", "storage", "database", "late"}

VARIABLES
    now,       \* the wall clock
    row,       \* the Rendition row
    objects,   \* keys that exist in the bucket
    pc,        \* where each process is in prepare_rendition
    token,     \* its claim token
    clock,     \* what its last _now() returned
    drawn,     \* tokens drawn so far
    granted,   \* history: when the lease that a process was granted ends
    returned,  \* history: keys that callers were given
    litter,    \* history: keys whose claimer died, or failed to delete them
    botched    \* history: keys whose claimer raised after its READY had committed

history == <<returned, litter, botched>>
vars == <<now, row, objects, pc, token, clock, drawn, granted, history>>

RenditionState == {"absent", "processing", "ready", "failed"}
Row == [state : RenditionState, token : Tokens \cup {NoToken}, expires : Nat,
        key : Tokens \cup {NoToken}]
NoRow == [state |-> "absent", token |-> NoToken, expires |-> 0, key |-> NoToken]

PC == {"idle", "claiming", "inserting", "reading", "working", "uploading", "uploaded",
       "marking", "stored", "stale", "failing", "discarded", "reporting"}

\* A process has a claim token from the claim on.
Claimed == PC \ {"idle", "claiming", "inserting", "reading"}

TypeOK ==
    /\ now \in Nat
    /\ row \in Row
    /\ objects \subseteq Tokens
    /\ pc \in [Workers -> PC]
    /\ token \in [Workers -> Tokens \cup {NoToken}]
    /\ clock \in [Workers -> Nat]
    /\ drawn \subseteq Tokens
    /\ granted \in [Workers -> Nat]
    /\ returned \subseteq Tokens
    /\ litter \subseteq Tokens
    /\ botched \subseteq Tokens
    /\ \A w \in Workers : token[w] # NoToken <=> pc[w] \in Claimed

Init ==
    /\ now = 0
    /\ row = NoRow
    /\ objects = {}
    /\ pc = [w \in Workers |-> "idle"]
    /\ token = [w \in Workers |-> NoToken]
    /\ clock = [w \in Workers |-> 0]
    /\ drawn = {}
    /\ granted = [w \in Workers |-> 0]
    /\ returned = {}
    /\ litter = {}
    /\ botched = {}
-----------------------------------------------------------------------------
Goto(w, p) == pc' = [pc EXCEPT ![w] = p]
ReadsClock(w) == clock' = [clock EXCEPT ![w] = now]

\* The end of the call, with a result or an exception.
Return(w) ==
    /\ Goto(w, "idle")
    /\ token' = [token EXCEPT ![w] = NoToken]
    /\ granted' = [granted EXCEPT ![w] = 0]

\* Another claim is running, by the clock this process has read.
Busy(w) == row.state = "processing" /\ row.expires > clock[w]

\* The WHERE clause of both conditional updates.
HoldsClaim(w) ==
    row.token = token[w] /\ row.state = "processing" /\ row.expires > clock[w]

TakeClaim(w, t) ==
    /\ t \notin drawn
    /\ drawn' = drawn \cup {t}
    /\ row' = [state |-> "processing", token |-> t, expires |-> clock[w] + Lease, key |-> t]
    /\ token' = [token EXCEPT ![w] = t]
    /\ granted' = [granted EXCEPT ![w] = clock[w] + Lease]
    /\ Goto(w, "working")
    /\ UNCHANGED <<now, objects, clock, history>>

Remove(w) == objects' = objects \ {token[w]}
-----------------------------------------------------------------------------
(* Faulty variants of the actions below, each with one plausible mistake in *)
(* it; no part of the specification.                                        *)

\* The lease is not looked at.
ClaimAnyway(w, t) ==
    /\ pc[w] = "claiming"
    /\ row.state \notin {"absent", "ready"}
    /\ TakeClaim(w, t)

\* A row that is READY is prepared again.
ClaimReady(w, t) ==
    /\ pc[w] = "claiming"
    /\ row.state # "absent"
    /\ ~Busy(w)
    /\ TakeClaim(w, t)

\* A stale claim is reported and its object left behind.
DiscardForgotten(w) ==
    /\ pc[w] \in {"stale", "failing"}
    /\ IF pc[w] = "stale" THEN Return(w) ELSE Goto(w, "discarded") /\ UNCHANGED <<token, granted>>
    /\ UNCHANGED <<now, row, objects, clock, drawn, history>>

\* The failure is recorded without asking whose claim it is.
MarkFailedAnyway(w) ==
    /\ pc[w] = "reporting"
    /\ row' = [row EXCEPT !.state = "failed", !.token = NoToken, !.expires = 0]
    /\ Return(w)
    /\ UNCHANGED <<now, objects, clock, drawn, history>>

\* A caller that found the row READY goes on as if it had claimed it.
FindReadyWorks(w) ==
    /\ pc[w] = "claiming"
    /\ row.state = "ready"
    /\ Goto(w, "working")
    /\ UNCHANGED <<now, row, objects, token, clock, drawn, granted, history>>

\* The failed claim's cleanup deletes the object the row points to.
DiscardRowKey(w) ==
    /\ pc[w] \in {"stale", "failing"}
    /\ objects' = objects \ {row.key}
    /\ IF pc[w] = "stale" THEN Return(w) ELSE Goto(w, "discarded") /\ UNCHANGED <<token, granted>>
    /\ UNCHANGED <<now, row, clock, drawn, history>>
-----------------------------------------------------------------------------
Tick ==
    /\ now < MaxTime
    /\ now' = now + 1
    /\ UNCHANGED <<row, objects, pc, token, clock, drawn, granted, history>>

Begin(w) ==
    /\ pc[w] = "idle"
    /\ Goto(w, "claiming")
    /\ ReadsClock(w)
    /\ UNCHANGED <<now, row, objects, token, drawn, granted, history>>

\* SELECT ... FOR UPDATE of the row, and what follows in its transaction.
FindNone(w) ==
    /\ pc[w] = "claiming"
    /\ row.state = "absent"
    /\ Goto(w, "inserting")
    /\ UNCHANGED <<now, row, objects, token, clock, drawn, granted, history>>

FindReady(w) ==
    /\ pc[w] = "claiming"
    /\ row.state = "ready"
    /\ Goto(w, "reading")
    /\ UNCHANGED <<now, row, objects, token, clock, drawn, granted, history>>

FindBusy(w) ==
    /\ pc[w] = "claiming"
    /\ Busy(w)
    /\ Return(w)
    /\ UNCHANGED <<now, row, objects, clock, drawn, history>>

Claim(w, t) ==
    /\ pc[w] = "claiming"
    /\ row.state \notin {"absent", "ready"}
    /\ ~Busy(w)
    /\ TakeClaim(w, t)

\* There was no row to lock: insert one, unless another process has.  The
\* IntegrityError of its unique key leads back to the locked read, with the
\* clock as it was.
Insert(w, t) ==
    /\ pc[w] = "inserting"
    /\ row.state = "absent"
    /\ TakeClaim(w, t)

InsertRaced(w) ==
    /\ pc[w] = "inserting"
    /\ row.state # "absent"
    /\ Goto(w, "claiming")
    /\ UNCHANGED <<now, row, objects, token, clock, drawn, granted, history>>

\* The second transaction of a caller that found the row READY.
ReadReady(w) ==
    /\ pc[w] = "reading"
    /\ returned' = returned \cup {row.key}
    /\ Return(w)
    /\ UNCHANGED <<now, row, objects, clock, drawn, litter, botched>>

\* Download, probe, validate, transcode, probe and validate again.
Prepare(w) ==
    /\ pc[w] = "working"
    /\ Goto(w, "uploading")
    /\ UNCHANGED <<now, row, objects, token, clock, drawn, granted, history>>

PrepareFails(w) ==
    /\ pc[w] = "working"
    /\ Goto(w, "failing")
    /\ UNCHANGED <<now, row, objects, token, clock, drawn, granted, history>>

Upload(w) ==
    /\ pc[w] = "uploading"
    /\ objects' = objects \cup {token[w]}
    /\ Goto(w, "uploaded")
    /\ UNCHANGED <<now, row, token, clock, drawn, granted, history>>

\* An upload that raises may have stored the object.
UploadFails(w) ==
    /\ "storage" \in Faults
    /\ pc[w] = "uploading"
    /\ objects' \in {objects, objects \cup {token[w]}}
    /\ Goto(w, "failing")
    /\ UNCHANGED <<now, row, token, clock, drawn, granted, history>>

\* Both conditional updates compare with a clock read before they are sent.
ReadClock(w) ==
    /\ \/ pc[w] = "uploaded" /\ Goto(w, "marking")
       \/ pc[w] = "discarded" /\ Goto(w, "reporting")
    /\ ReadsClock(w)
    /\ UNCHANGED <<now, row, objects, token, drawn, granted, history>>

MarkReady(w) ==
    /\ pc[w] = "marking"
    /\ IF HoldsClaim(w)
       THEN /\ row' = [state |-> "ready", token |-> NoToken, expires |-> 0,
                       key |-> token[w]]
            /\ Goto(w, "stored")
       ELSE UNCHANGED row /\ Goto(w, "stale")
    /\ UNCHANGED <<now, objects, token, clock, drawn, granted, history>>

\* The transaction raises and rolls back.
MarkReadyFails(w) ==
    /\ "database" \in Faults
    /\ pc[w] = "marking"
    /\ Goto(w, "failing")
    /\ UNCHANGED <<now, row, objects, token, clock, drawn, granted, history>>

ReturnStored(w) ==
    /\ pc[w] = "stored"
    /\ returned' = returned \cup {token[w]}
    /\ Return(w)
    /\ UNCHANGED <<now, row, objects, clock, drawn, litter, botched>>

\* The commit took effect and its answer was lost, or removing the temporary
\* directory raised: the handlers cannot tell this from a failed preparation.
RaiseStored(w) ==
    /\ "late" \in Faults
    /\ pc[w] = "stored"
    /\ botched' = botched \cup {token[w]}
    /\ Goto(w, "failing")
    /\ UNCHANGED <<now, row, objects, token, clock, drawn, granted, returned, litter>>

\* Every handler first discards the object of its claim; a PreparationError then
\* leaves the call, any other failure is recorded.
Discard(w) ==
    /\ pc[w] \in {"stale", "failing"}
    /\ \/ Remove(w) /\ UNCHANGED litter
       \/ /\ "storage" \in Faults
          /\ litter' = litter \cup {token[w]}
          /\ UNCHANGED objects
    /\ IF pc[w] = "stale" THEN Return(w) ELSE Goto(w, "discarded") /\ UNCHANGED <<token, granted>>
    /\ UNCHANGED <<now, row, clock, drawn, returned, botched>>

MarkFailed(w) ==
    /\ pc[w] = "reporting"
    /\ row' = IF HoldsClaim(w)
              THEN [row EXCEPT !.state = "failed", !.token = NoToken, !.expires = 0]
              ELSE row
    /\ Return(w)
    /\ UNCHANGED <<now, objects, clock, drawn, history>>

\* The process is killed, wherever it is.
Crash(w) ==
    /\ "crash" \in Faults
    /\ pc[w] # "idle"
    /\ litter' = litter \cup ({token[w]} \ {NoToken})
    /\ Return(w)
    /\ UNCHANGED <<now, row, objects, clock, drawn, returned, botched>>
-----------------------------------------------------------------------------
Finding(w) ==
    FindNone(w) \/ FindReady(w) \/ FindBusy(w) \/ InsertRaced(w) \/ ReadReady(w)
Preparing(w) ==
    Prepare(w) \/ PrepareFails(w) \/ Upload(w) \/ UploadFails(w) \/ ReadClock(w)
Finishing(w) ==
    \/ MarkReady(w) \/ MarkReadyFails(w) \/ ReturnStored(w) \/ RaiseStored(w)
    \/ Discard(w) \/ MarkFailed(w)

Next ==
    \/ Tick
    \/ \E w \in Workers :
        \/ Begin(w) \/ Finding(w) \/ Preparing(w) \/ Finishing(w) \/ Crash(w)
        \/ \E t \in Tokens : Claim(w, t) \/ Insert(w, t)

Spec == Init /\ [][Next]_vars
-----------------------------------------------------------------------------
\* A READY row points to an object that is there, whatever workers whose lease ran
\* out, or whose preparation failed, still upload and delete; unless its own
\* claimer raised after the commit and so discarded what it had published.  This
\* is what claim-scoped keys are for in prepare_rendition.
ReadyHasObject ==
    row.state = "ready" => row.key \in objects \/ row.key \in botched

\* Every caller of prepare_rendition is given the same key, and it is the key of
\* the READY row: neither a superseded claim nor a later one is ever handed out.
OneRendition == returned # {} => row.state = "ready" /\ returned = {row.key}

Cell == INSTANCE RenditionCell WITH
    Keys <- Tokens,
    NoKey <- NoToken,
    key <- IF row.state = "ready" THEN row.key ELSE NoToken,
    there <- row.state = "ready" /\ row.key \in objects,
    given <- returned,
    raised <- row.state = "ready" /\ row.key \in botched

\* All that leases, claims, uploads, discards and crashes come to is RenditionCell: one
\* key is published, with its object, it is the only one that callers are given, and
\* nothing but its own publisher's late failure takes the object away.
ImplementsCell == Cell!Spec

\* No two processes work under leases that both still run, even though the clock a
\* claim compares with, and counts its lease from, was read before the row lock.
LeaseExclusive ==
    \A v, w \in Workers :
        /\ pc[v] \in Claimed /\ granted[v] > now
        /\ pc[w] \in Claimed /\ granted[w] > now
        => v = w

\* An object belongs to the READY row or to a process that will still publish or
\* discard it; only a crash or a failed delete leaves one behind.
NoLitter ==
    \A k \in objects :
        \/ row.state = "ready" /\ row.key = k
        \/ \E w \in Workers : token[w] = k
        \/ k \in litter

\* A READY row never changes again, and while a lease runs only the process that
\* holds it ends the claim: not a late claim, a superseded one or a stale failure.
RowIsFenced ==
    [][row' # row =>
         \/ row.state \in {"absent", "failed"}
         \/ row.state = "processing" /\ row.expires <= now
         \/ /\ row.state = "processing" /\ row'.state \in {"ready", "failed"}
            /\ \E w \in Workers : token[w] = row.token /\ pc[w] # pc'[w]]_vars
=============================================================================
