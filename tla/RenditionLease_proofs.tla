------------------------- MODULE RenditionLease_proofs -------------------------
(***************************************************************************)
(* Theorems about RenditionLease, for any number of processes and claims,   *)
(* any lease and any faults.                                                *)
(*                                                                         *)
(* The argument: a token is drawn once, so an object has one claimer; while  *)
(* a claimer's lease runs the row is still its own, because a claim needs a  *)
(* row that is not busy by a clock read earlier; and once a row is READY its *)
(* key is the token of a process that has stored it and does not discard it. *)
(***************************************************************************)
EXTENDS RenditionLease, TLAPS

\* A token names one claim: it is drawn before anything carries it, and no two
\* processes have the same.
TokensOK ==
    /\ objects \subseteq drawn
    /\ returned \subseteq drawn
    /\ row.key \in drawn \cup {NoToken}
    /\ \A w \in Workers : token[w] \in drawn \cup {NoToken}
    /\ \A v, w \in Workers : token[v] = token[w] /\ token[v] # NoToken => v = w

\* The row names its claim by token and by key while the claim runs.
RowOK ==
    /\ row.state = "processing" => row.key = row.token
    /\ row.state \in {"processing", "ready"} => row.key # NoToken
    /\ row.state # "processing" => row.token = NoToken

\* What a process has already seen to.
ProgressOK ==
    \A w \in Workers :
        /\ pc[w] \in {"uploaded", "marking", "stored"} => token[w] \in objects
        /\ pc[w] = "stored" => row.state = "ready" /\ row.key = token[w]
        /\ pc[w] = "reading" => row.state = "ready"

\* The claimer of a READY row still has to return its key, unless it raised.
OwnerOK ==
    row.state = "ready" =>
        \A w \in Workers : token[w] = row.key => pc[w] = "stored" \/ row.key \in botched

\* While a granted lease runs, the row is its holder's.
LeasesOK ==
    \A w \in Workers :
        /\ clock[w] <= now
        /\ pc[w] \in Claimed /\ granted[w] > now =>
            /\ row.state \in {"processing", "ready"}
            /\ row.key = token[w]
            /\ row.state = "processing" => row.expires = granted[w]

Inv ==
    /\ TypeOK
    /\ TokensOK
    /\ RowOK
    /\ ProgressOK
    /\ OwnerOK
    /\ LeasesOK
    /\ ReadyHasObject
    /\ OneRendition

LEMMA InvInit == Init => Inv
  BY ConstantsOK DEF Init, Inv, TypeOK, TokensOK, RowOK, ProgressOK, OwnerOK, LeasesOK,
     ReadyHasObject, OneRendition, NoRow, Row, RenditionState, PC, Claimed

\* What is left alone stays as it was.
LEMMA Frame ==
    ASSUME Inv
    PROVE  /\ UNCHANGED <<objects, returned, drawn, row, token>> => TokensOK'
           /\ UNCHANGED row => RowOK'
           /\ UNCHANGED <<row, objects, botched>> => ReadyHasObject'
           /\ UNCHANGED <<row, returned>> => OneRendition'
  BY DEF Inv, TokensOK, RowOK, ReadyHasObject, OneRendition

\* The token of a process that has claimed, and the key of a READY row.
LEMMA Drawn ==
    ASSUME Inv
    PROVE  /\ \A w \in Workers : pc[w] \in Claimed => token[w] \in drawn \cap Tokens
           /\ row.state = "ready" => row.key \in drawn \cap Tokens
  BY ConstantsOK DEF Inv, TypeOK, TokensOK, RowOK, Row

\* A process that only moves on, perhaps reading the clock.
Moves(w, p) ==
    /\ Goto(w, p)
    /\ clock' = clock \/ ReadsClock(w)
    /\ UNCHANGED <<now, row, objects, token, drawn, granted, history>>

LEMMA MovesInv ==
    ASSUME Inv, NEW w \in Workers, NEW p \in PC \ {"stored"}, Moves(w, p),
           pc[w] # "stored", p \in Claimed <=> pc[w] \in Claimed,
           p \in {"uploaded", "marking"} => pc[w] \in {"uploaded", "marking"},
           p = "reading" => row.state = "ready"
    PROVE  Inv'
<1> USE DEF Inv, Moves, Goto, ReadsClock, history
<1>1. TypeOK'
  BY DEF TypeOK
<1>2. ProgressOK'
  BY DEF TypeOK, ProgressOK
<1>3. OwnerOK'
  BY DEF TypeOK, OwnerOK
<1>4. LeasesOK'
  BY DEF TypeOK, LeasesOK
<1> QED
  BY <1>1, <1>2, <1>3, <1>4, Frame

(***************************************************************************)
(* Every step of a process keeps the invariant.                            *)
(***************************************************************************)
LEMMA StepInv ==
    ASSUME Inv, NEW w \in Workers,
           \/ Begin(w) \/ Finding(w) \/ Preparing(w) \/ Finishing(w) \/ Crash(w)
           \/ \E t \in Tokens : Claim(w, t) \/ Insert(w, t)
    PROVE  Inv'
<1> USE ConstantsOK DEF Inv, Goto, Return, history
<1>1. CASE FindNone(w)
  <2>1. Moves(w, "inserting")
    BY <1>1 DEF FindNone, Moves
  <2> QED
    BY <1>1, <2>1, MovesInv DEF FindNone, PC, Claimed
<1>2. CASE FindReady(w)
  <2>1. Moves(w, "reading")
    BY <1>2 DEF FindReady, Moves
  <2> QED
    BY <1>2, <2>1, MovesInv DEF FindReady, PC, Claimed
<1>3. CASE InsertRaced(w)
  <2>1. Moves(w, "claiming")
    BY <1>3 DEF InsertRaced, Moves
  <2> QED
    BY <1>3, <2>1, MovesInv DEF InsertRaced, PC, Claimed
<1>4. CASE Prepare(w)
  <2>1. Moves(w, "uploading")
    BY <1>4 DEF Prepare, Moves
  <2> QED
    BY <1>4, <2>1, MovesInv DEF Prepare, PC, Claimed
<1>5. CASE PrepareFails(w)
  <2>1. Moves(w, "failing")
    BY <1>5 DEF PrepareFails, Moves
  <2> QED
    BY <1>5, <2>1, MovesInv DEF PrepareFails, PC, Claimed
<1>6. CASE ReadClock(w)
  <2>1. CASE pc[w] = "uploaded"
    <3>1. Moves(w, "marking")
      BY <1>6, <2>1 DEF ReadClock, Moves
    <3> QED
      BY <2>1, <3>1, MovesInv DEF PC, Claimed
  <2>2. CASE pc[w] = "discarded"
    <3>1. Moves(w, "reporting")
      BY <1>6, <2>2 DEF ReadClock, Moves
    <3> QED
      BY <2>2, <3>1, MovesInv DEF PC, Claimed
  <2> QED
    BY <1>6, <2>1, <2>2 DEF ReadClock
<1>7. CASE MarkReadyFails(w)
  <2>1. Moves(w, "failing")
    BY <1>7 DEF MarkReadyFails, Moves
  <2> QED
    BY <1>7, <2>1, MovesInv DEF MarkReadyFails, PC, Claimed
<1>8. CASE Begin(w)
  <2>1. Moves(w, "claiming")
    BY <1>8 DEF Begin, Moves
  <2> QED
    BY <1>8, <2>1, MovesInv DEF Begin, PC, Claimed
<1>9. CASE FindBusy(w)
  <2>1. TypeOK'
    BY <1>9 DEF FindBusy, Busy, TypeOK, Row, RenditionState, PC, Claimed
  <2>2. TokensOK'
    BY <1>9 DEF FindBusy, Busy, TypeOK, TokensOK, Claimed, PC, Row
  <2>3. ProgressOK'
    BY <1>9 DEF FindBusy, Busy, TypeOK, ProgressOK, RowOK, TokensOK, OwnerOK, Claimed, PC, Row
  <2>4. OwnerOK'
    BY <1>9 DEF FindBusy, Busy, TypeOK, OwnerOK, ProgressOK, TokensOK, RowOK, Claimed, PC, Row
  <2>5. LeasesOK'
    BY <1>9 DEF FindBusy, Busy, TypeOK, LeasesOK, TokensOK, RowOK, Claimed, PC, Row
  <2> QED
    BY <1>9, <2>1, <2>2, <2>3, <2>4, <2>5, Frame DEF FindBusy
<1>10. CASE ReadReady(w)
  <2>1. TypeOK'
    BY <1>10, Drawn DEF ReadReady, ProgressOK, TypeOK, Row, RenditionState, PC, Claimed
  <2>2. TokensOK'
    BY <1>10, Drawn DEF ReadReady, ProgressOK, TypeOK, TokensOK, Claimed, PC, Row
  <2>3. ProgressOK'
    BY <1>10 DEF ReadReady, TypeOK, ProgressOK, RowOK, TokensOK, OwnerOK, Claimed, PC, Row
  <2>4. OwnerOK'
    BY <1>10 DEF ReadReady, TypeOK, OwnerOK, ProgressOK, TokensOK, RowOK, Claimed, PC, Row
  <2>5. LeasesOK'
    BY <1>10 DEF ReadReady, TypeOK, LeasesOK, TokensOK, RowOK, Claimed, PC, Row
  <2>6. OneRendition'
    BY <1>10 DEF ReadReady, TypeOK, OneRendition, RowOK, ProgressOK, OwnerOK
  <2> QED
    BY <1>10, <2>1, <2>2, <2>3, <2>4, <2>5, <2>6, Frame DEF ReadReady
<1>11. CASE Upload(w)
  <2>1. TypeOK'
    BY <1>11, Drawn DEF Upload, TypeOK, Row, RenditionState, PC, Claimed
  <2>2. TokensOK'
    BY <1>11, Drawn DEF Upload, TypeOK, TokensOK, Claimed, PC, Row
  <2>3. ProgressOK'
    BY <1>11 DEF Upload, TypeOK, ProgressOK, RowOK, TokensOK, OwnerOK, Claimed, PC, Row
  <2>4. OwnerOK'
    BY <1>11 DEF Upload, TypeOK, OwnerOK, ProgressOK, TokensOK, RowOK, Claimed, PC, Row
  <2>5. LeasesOK'
    BY <1>11 DEF Upload, TypeOK, LeasesOK, TokensOK, RowOK, Claimed, PC, Row
  <2>6. ReadyHasObject'
    BY <1>11 DEF Upload, TypeOK, ReadyHasObject, ProgressOK, OwnerOK, Claimed, PC
  <2> QED
    BY <1>11, <2>1, <2>2, <2>3, <2>4, <2>5, <2>6, Frame DEF Upload
<1>12. CASE UploadFails(w)
  <2>1. TypeOK'
    BY <1>12, Drawn DEF UploadFails, TypeOK, Row, RenditionState, PC, Claimed
  <2>2. TokensOK'
    BY <1>12, Drawn DEF UploadFails, TypeOK, TokensOK, Claimed, PC, Row
  <2>3. ProgressOK'
    BY <1>12 DEF UploadFails, TypeOK, ProgressOK, RowOK, TokensOK, OwnerOK, Claimed, PC, Row
  <2>4. OwnerOK'
    BY <1>12 DEF UploadFails, TypeOK, OwnerOK, ProgressOK, TokensOK, RowOK, Claimed, PC, Row
  <2>5. LeasesOK'
    BY <1>12 DEF UploadFails, TypeOK, LeasesOK, TokensOK, RowOK, Claimed, PC, Row
  <2>6. ReadyHasObject'
    BY <1>12 DEF UploadFails, TypeOK, ReadyHasObject, ProgressOK, OwnerOK, Claimed, PC
  <2> QED
    BY <1>12, <2>1, <2>2, <2>3, <2>4, <2>5, <2>6, Frame DEF UploadFails
<1>13. CASE MarkReady(w)
  <2>1. TypeOK'
    BY <1>13 DEF MarkReady, HoldsClaim, TypeOK, Row, RenditionState, PC, Claimed
  <2>2. TokensOK'
    BY <1>13 DEF MarkReady, HoldsClaim, TypeOK, TokensOK, Claimed, PC, Row
  <2>3. RowOK'
    BY <1>13 DEF MarkReady, HoldsClaim, TypeOK, RowOK, TokensOK, Row
  <2>4. ProgressOK'
    BY <1>13 DEF MarkReady, HoldsClaim, TypeOK, ProgressOK, RowOK, TokensOK, OwnerOK, Claimed, PC, Row
  <2>5. OwnerOK'
    BY <1>13 DEF MarkReady, HoldsClaim, TypeOK, OwnerOK, ProgressOK, TokensOK, RowOK, Claimed, PC, Row
  <2>6. LeasesOK'
    BY <1>13 DEF MarkReady, HoldsClaim, TypeOK, LeasesOK, TokensOK, RowOK, Claimed, PC, Row
  <2>7. ReadyHasObject'
    BY <1>13 DEF MarkReady, HoldsClaim, TypeOK, ReadyHasObject, ProgressOK, OwnerOK, Claimed, PC
  <2>8. OneRendition'
    BY <1>13 DEF MarkReady, HoldsClaim, TypeOK, OneRendition, RowOK, ProgressOK, OwnerOK
  <2> QED
    BY <2>1, <2>2, <2>3, <2>4, <2>5, <2>6, <2>7, <2>8
<1>14. CASE ReturnStored(w)
  <2>1. TypeOK'
    BY <1>14, Drawn DEF ReturnStored, TypeOK, Row, RenditionState, PC, Claimed
  <2>2. TokensOK'
    BY <1>14, Drawn DEF ReturnStored, TypeOK, TokensOK, Claimed, PC, Row
  <2>3. ProgressOK'
    BY <1>14 DEF ReturnStored, TypeOK, ProgressOK, RowOK, TokensOK, OwnerOK, Claimed, PC, Row
  <2>4. OwnerOK'
    BY <1>14 DEF ReturnStored, TypeOK, OwnerOK, ProgressOK, TokensOK, RowOK, Claimed, PC, Row
  <2>5. LeasesOK'
    BY <1>14 DEF ReturnStored, TypeOK, LeasesOK, TokensOK, RowOK, Claimed, PC, Row
  <2>6. OneRendition'
    BY <1>14 DEF ReturnStored, TypeOK, OneRendition, RowOK, ProgressOK, OwnerOK
  <2> QED
    BY <1>14, <2>1, <2>2, <2>3, <2>4, <2>5, <2>6, Frame DEF ReturnStored
<1>15. CASE RaiseStored(w)
  <2>1. TypeOK'
    BY <1>15, Drawn DEF RaiseStored, TypeOK, Row, RenditionState, PC, Claimed
  <2>2. ProgressOK'
    BY <1>15 DEF RaiseStored, TypeOK, ProgressOK, RowOK, TokensOK, OwnerOK, Claimed, PC, Row
  <2>3. OwnerOK'
    BY <1>15 DEF RaiseStored, TypeOK, OwnerOK, ProgressOK, TokensOK, RowOK, Claimed, PC, Row
  <2>4. LeasesOK'
    BY <1>15 DEF RaiseStored, TypeOK, LeasesOK, TokensOK, RowOK, Claimed, PC, Row
  <2>5. ReadyHasObject'
    BY <1>15 DEF RaiseStored, TypeOK, ReadyHasObject, ProgressOK, OwnerOK, Claimed, PC
  <2> QED
    BY <1>15, <2>1, <2>2, <2>3, <2>4, <2>5, Frame DEF RaiseStored
<1>16. CASE Discard(w)
  <2>1. TypeOK'
    BY <1>16 DEF Discard, Remove, TypeOK, Row, RenditionState, PC, Claimed
  <2>2. TokensOK'
    BY <1>16 DEF Discard, Remove, TypeOK, TokensOK, Claimed, PC, Row
  <2>3. ProgressOK'
    BY <1>16 DEF Discard, Remove, TypeOK, ProgressOK, RowOK, TokensOK, OwnerOK, Claimed, PC, Row
  <2>4. OwnerOK'
    BY <1>16 DEF Discard, Remove, TypeOK, OwnerOK, ProgressOK, TokensOK, RowOK, Claimed, PC, Row
  <2>5. LeasesOK'
    BY <1>16 DEF Discard, Remove, TypeOK, LeasesOK, TokensOK, RowOK, Claimed, PC, Row
  <2>6. ReadyHasObject'
    BY <1>16 DEF Discard, Remove, TypeOK, ReadyHasObject, ProgressOK, OwnerOK, Claimed, PC
  <2> QED
    BY <1>16, <2>1, <2>2, <2>3, <2>4, <2>5, <2>6, Frame DEF Discard
<1>17. CASE MarkFailed(w)
  <2>1. TypeOK'
    BY <1>17 DEF MarkFailed, HoldsClaim, TypeOK, Row, RenditionState, PC, Claimed
  <2>2. TokensOK'
    BY <1>17 DEF MarkFailed, HoldsClaim, TypeOK, TokensOK, Claimed, PC, Row
  <2>3. RowOK'
    BY <1>17 DEF MarkFailed, HoldsClaim, TypeOK, RowOK, TokensOK, Row
  <2>4. ProgressOK'
    BY <1>17 DEF MarkFailed, HoldsClaim, TypeOK, ProgressOK, RowOK, TokensOK, OwnerOK, Claimed, PC, Row
  <2>5. OwnerOK'
    BY <1>17 DEF MarkFailed, HoldsClaim, TypeOK, OwnerOK, ProgressOK, TokensOK, RowOK, Claimed, PC, Row
  <2>6. LeasesOK'
    BY <1>17 DEF MarkFailed, HoldsClaim, TypeOK, LeasesOK, TokensOK, RowOK, Claimed, PC, Row
  <2>7. ReadyHasObject'
    BY <1>17 DEF MarkFailed, HoldsClaim, TypeOK, ReadyHasObject, ProgressOK, OwnerOK, Claimed, PC
  <2>8. OneRendition'
    BY <1>17 DEF MarkFailed, HoldsClaim, TypeOK, OneRendition, RowOK, ProgressOK, OwnerOK
  <2> QED
    BY <2>1, <2>2, <2>3, <2>4, <2>5, <2>6, <2>7, <2>8
<1>18. CASE Crash(w)
  <2>1. TypeOK'
    BY <1>18, Drawn DEF Crash, TypeOK, Row, RenditionState, PC, Claimed
  <2>2. TokensOK'
    BY <1>18, Drawn DEF Crash, TypeOK, TokensOK, Claimed, PC, Row
  <2>3. ProgressOK'
    BY <1>18 DEF Crash, TypeOK, ProgressOK, RowOK, TokensOK, OwnerOK, Claimed, PC, Row
  <2>4. OwnerOK'
    BY <1>18 DEF Crash, TypeOK, OwnerOK, ProgressOK, TokensOK, RowOK, Claimed, PC, Row
  <2>5. LeasesOK'
    BY <1>18 DEF Crash, TypeOK, LeasesOK, TokensOK, RowOK, Claimed, PC, Row
  <2> QED
    BY <1>18, <2>1, <2>2, <2>3, <2>4, <2>5, Frame DEF Crash
<1>19. ASSUME NEW t \in Tokens, Claim(w, t) PROVE Inv'
  <2>1. TypeOK'
    BY <1>19 DEF Claim, TakeClaim, Busy, TypeOK, Row, RenditionState, PC, Claimed
  <2>2. TokensOK'
    BY <1>19 DEF Claim, TakeClaim, Busy, TypeOK, TokensOK, Claimed, PC, Row
  <2>3. RowOK'
    BY <1>19 DEF Claim, TakeClaim, Busy, TypeOK, RowOK, TokensOK, Row
  <2>4. ProgressOK'
    BY <1>19 DEF Claim, TakeClaim, Busy, TypeOK, ProgressOK, RowOK, TokensOK, OwnerOK, Claimed, PC, Row
  <2>5. OwnerOK'
    BY <1>19 DEF Claim, TakeClaim, Busy, TypeOK, OwnerOK, ProgressOK, TokensOK, RowOK, Claimed, PC, Row
  <2>6. LeasesOK'
    BY <1>19 DEF Claim, TakeClaim, Busy, TypeOK, LeasesOK, TokensOK, RowOK, Claimed, PC, Row
  <2>7. ReadyHasObject'
    BY <1>19 DEF Claim, TakeClaim, Busy, TypeOK, ReadyHasObject, ProgressOK, OwnerOK, Claimed, PC
  <2>8. OneRendition'
    BY <1>19 DEF Claim, TakeClaim, Busy, TypeOK, OneRendition, RowOK, ProgressOK, OwnerOK
  <2> QED
    BY <2>1, <2>2, <2>3, <2>4, <2>5, <2>6, <2>7, <2>8
<1>20. ASSUME NEW t \in Tokens, Insert(w, t) PROVE Inv'
  <2>1. TypeOK'
    BY <1>20 DEF Insert, TakeClaim, Busy, TypeOK, Row, RenditionState, PC, Claimed
  <2>2. TokensOK'
    BY <1>20 DEF Insert, TakeClaim, Busy, TypeOK, TokensOK, Claimed, PC, Row
  <2>3. RowOK'
    BY <1>20 DEF Insert, TakeClaim, Busy, TypeOK, RowOK, TokensOK, Row
  <2>4. ProgressOK'
    BY <1>20 DEF Insert, TakeClaim, Busy, TypeOK, ProgressOK, RowOK, TokensOK, OwnerOK, Claimed, PC, Row
  <2>5. OwnerOK'
    BY <1>20 DEF Insert, TakeClaim, Busy, TypeOK, OwnerOK, ProgressOK, TokensOK, RowOK, Claimed, PC, Row
  <2>6. LeasesOK'
    BY <1>20 DEF Insert, TakeClaim, Busy, TypeOK, LeasesOK, TokensOK, RowOK, Claimed, PC, Row
  <2>7. ReadyHasObject'
    BY <1>20 DEF Insert, TakeClaim, Busy, TypeOK, ReadyHasObject, ProgressOK, OwnerOK, Claimed, PC
  <2>8. OneRendition'
    BY <1>20 DEF Insert, TakeClaim, Busy, TypeOK, OneRendition, RowOK, ProgressOK, OwnerOK
  <2> QED
    BY <2>1, <2>2, <2>3, <2>4, <2>5, <2>6, <2>7, <2>8
<1> QED
  BY <1>1, <1>2, <1>3, <1>4, <1>5, <1>6, <1>7, <1>8, <1>9, <1>10, <1>11, <1>12, <1>13, <1>14, <1>15, <1>16, <1>17, <1>18, <1>19, <1>20
     DEF Finding, Preparing, Finishing

LEMMA TickInv ==
    ASSUME Inv, Tick
    PROVE  Inv'
<1> USE DEF Inv, Tick, history
<1>1. TypeOK'
  BY DEF TypeOK
<1>2. ProgressOK' /\ OwnerOK'
  BY DEF ProgressOK, OwnerOK
<1>3. LeasesOK'
  BY DEF TypeOK, LeasesOK
<1> QED
  BY <1>1, <1>2, <1>3, Frame

LEMMA InvNext == Inv /\ [Next]_vars => Inv'
<1> SUFFICES ASSUME Inv, [Next]_vars PROVE Inv'
  OBVIOUS
<1>1. CASE UNCHANGED vars
  <2> USE <1>1 DEF Inv, vars, history
  <2>1. TypeOK'
    BY DEF TypeOK
  <2>2. ProgressOK' /\ OwnerOK' /\ LeasesOK'
    BY DEF ProgressOK, OwnerOK, LeasesOK
  <2> QED
    BY <2>1, <2>2, Frame
<1> QED
  BY <1>1, TickInv, StepInv DEF Next

\* The object of a claim whose cleanup is done is gone, or is known to be left.
GoneOK ==
    \A w \in Workers : pc[w] \in {"discarded", "reporting"} =>
        token[w] \notin objects \/ token[w] \in litter

LitterInv == NoLitter /\ GoneOK

\* A process that ends, or begins, or only moves on, has left nothing behind; and a
\* READY row stays READY.
LEMMA LitterKept ==
    ASSUME Inv, LitterInv, NEW w \in Workers,
           objects' \subseteq objects \cup ({token[w]} \ {NoToken}), litter \subseteq litter',
           \A v \in Workers \ {w} : pc'[v] = pc[v] /\ token'[v] = token[v],
           row.state = "ready" => row' = row,
           \/ token'[w] = token[w]
           \/ token[w] = NoToken
           \/ token[w] \notin objects' \/ token[w] \in litter'
           \/ row'.state = "ready" /\ row'.key = token[w],
           pc'[w] \in {"discarded", "reporting"} =>
               token'[w] \notin objects' \/ token'[w] \in litter'
    PROVE  LitterInv'
<1>1. NoLitter'
  <2> SUFFICES ASSUME NEW k \in objects'
               PROVE  \/ row'.state = "ready" /\ row'.key = k
                      \/ \E v \in Workers : token'[v] = k
                      \/ k \in litter'
    BY DEF NoLitter
  <2>1. CASE k = token[w] /\ k # NoToken
    BY <2>1
  <2>2. CASE k \in objects /\ k # token[w]
    <3>1. \/ row.state = "ready" /\ row.key = k
          \/ \E v \in Workers \ {w} : token[v] = k
          \/ k \in litter
      BY <2>2 DEF LitterInv, NoLitter
    <3> QED
      BY <3>1
  <2>3. NoToken \notin objects
    BY ConstantsOK DEF Inv, TypeOK
  <2> QED
    BY <2>1, <2>2, <2>3
<1>2. GoneOK'
  <2> SUFFICES ASSUME NEW v \in Workers, v # w, pc[v] \in {"discarded", "reporting"}
               PROVE  token[v] \notin objects' \/ token[v] \in litter'
    BY DEF GoneOK
  <2>1. token[v] \notin objects \/ token[v] \in litter
    BY DEF LitterInv, GoneOK
  <2>2. token[v] # token[w] \/ token[w] = NoToken
    BY DEF Inv, TokensOK
  <2> QED
    BY <2>1, <2>2
<1> QED
  BY <1>1, <1>2 DEF LitterInv

(***************************************************************************)
(* The theorems.                                                           *)
(***************************************************************************)
THEOREM InvCorrect == Spec => []Inv
<1> QED
  BY InvInit, InvNext, PTL DEF Spec

\* The types of the row, the objects and the processes hold always; in particular a
\* process has a claim token exactly between its claim and the end of its call.
THEOREM TypeCorrect == Spec => []TypeOK
<1>1. Inv => TypeOK
  BY DEF Inv
<1> QED
  BY <1>1, InvCorrect, PTL

\* With any number of processes and claims, a READY row points to an object that is
\* there, unless its own claimer raised after the commit.
THEOREM ReadyKeepsObject == Spec => []ReadyHasObject
<1>1. Inv => ReadyHasObject
  BY DEF Inv
<1> QED
  BY <1>1, InvCorrect, PTL

\* With any number of processes and claims, all callers are given the key of the
\* READY row.
THEOREM CallersAgree == Spec => []OneRendition
<1>1. Inv => OneRendition
  BY DEF Inv
<1> QED
  BY <1>1, InvCorrect, PTL

\* For any lease, no two processes hold claims whose leases both still run.
THEOREM LeasesExclude == Spec => []LeaseExclusive
<1>1. Inv => LeaseExclusive
  <2> SUFFICES ASSUME Inv,
                      NEW v \in Workers, pc[v] \in Claimed, granted[v] > now,
                      NEW w \in Workers, pc[w] \in Claimed, granted[w] > now
               PROVE  v = w
    BY DEF LeaseExclusive
  <2>1. row.key = token[v] /\ row.key = token[w]
    BY DEF Inv, LeasesOK
  <2>2. token[v] # NoToken
    BY DEF Inv, TypeOK
  <2> QED
    BY <2>1, <2>2 DEF Inv, TokensOK
<1> QED
  BY <1>1, InvCorrect, PTL

\* With any number of processes and claims, an object that is neither the READY row's
\* nor in the hands of a process was left by one that died or could not delete it.
THEOREM NothingIsLittered == Spec => []NoLitter
<1>1. Init => LitterInv
  BY DEF Init, LitterInv, NoLitter, GoneOK
<1>2. Inv /\ LitterInv /\ [Next]_vars => LitterInv'
  <2> SUFFICES ASSUME Inv, LitterInv, [Next]_vars PROVE LitterInv'
    OBVIOUS
  <2> USE DEF history
  <2>1. CASE Tick \/ UNCHANGED vars
    BY <2>1 DEF Tick, vars, LitterInv, NoLitter, GoneOK
  <2>2. ASSUME NEW w \in Workers,
               \/ Begin(w) \/ Finding(w) \/ Preparing(w) \/ Finishing(w) \/ Crash(w)
               \/ \E t \in Tokens : Claim(w, t) \/ Insert(w, t)
        PROVE  LitterInv'
    <3> pc \in [Workers -> PC] /\ token \in [Workers -> Tokens \cup {NoToken}]
      BY DEF Inv, TypeOK
    <3> token[w] # NoToken <=> pc[w] \in Claimed
      BY DEF Inv, TypeOK
    <3>1. CASE Begin(w) \/ Finding(w)
      BY <3>1, LitterKept DEF Begin, Finding, FindNone, FindReady, FindBusy, InsertRaced,
         ReadReady, Goto, Return, Claimed
    <3>2. CASE Preparing(w)
      <4>1. pc[w] \in {"discarded", "reporting"} => token[w] \notin objects \/ token[w] \in litter
        BY DEF LitterInv, GoneOK
      <4> QED
        BY <3>2, <4>1, LitterKept DEF Preparing, Prepare, PrepareFails, Upload, UploadFails,
           ReadClock, Goto, Claimed
    <3>3. CASE Crash(w)
      BY <3>3, LitterKept DEF Crash, Goto, Return
    <3>4. ASSUME NEW t \in Tokens, Claim(w, t) \/ Insert(w, t) PROVE LitterInv'
      BY <3>4, LitterKept DEF Claim, Insert, TakeClaim, Goto, Claimed
    <3>5. CASE MarkReady(w)
      BY <3>5, LitterKept DEF MarkReady, HoldsClaim, Goto
    <3>6. CASE MarkReadyFails(w) \/ RaiseStored(w)
      BY <3>6, LitterKept DEF MarkReadyFails, RaiseStored, Goto
    <3>7. CASE ReturnStored(w)
      <4>1. row.state = "ready" /\ row.key = token[w]
        BY <3>7 DEF Inv, ProgressOK, ReturnStored
      <4> QED
        BY <3>7, <4>1, LitterKept DEF ReturnStored, Goto, Return
    <3>8. CASE Discard(w)
      BY <3>8, LitterKept DEF Discard, Remove, Goto, Return
    <3>9. CASE MarkFailed(w)
      <4>1. token[w] \notin objects \/ token[w] \in litter
        BY <3>9 DEF LitterInv, GoneOK, MarkFailed
      <4> QED
        BY <3>9, <4>1, LitterKept DEF MarkFailed, HoldsClaim, Goto, Return
    <3> QED
      BY <2>2, <3>1, <3>2, <3>3, <3>4, <3>5, <3>6, <3>7, <3>8, <3>9 DEF Finishing
  <2> QED
    BY <2>1, <2>2 DEF Next
<1>3. LitterInv => NoLitter
  BY DEF LitterInv
<1> QED
  BY <1>1, <1>2, <1>3, InvCorrect, PTL DEF Spec

\* A key whose publisher raised is the READY row's, and its publisher is past every
\* upload.
PublisherOK ==
    /\ \A k \in botched : row.state = "ready" /\ row.key = k
    /\ row.state = "ready" =>
          \A w \in Workers : token[w] = row.key =>
             pc[w] \in {"stored", "failing", "discarded", "reporting"}

LEMMA PublisherStep == Inv /\ PublisherOK /\ [Next]_vars => PublisherOK'
<1> SUFFICES ASSUME Inv, PublisherOK, [Next]_vars PROVE PublisherOK'
  OBVIOUS
<1> USE ConstantsOK DEF PublisherOK, history
<1>1. CASE Tick \/ UNCHANGED vars
  BY <1>1 DEF Tick, vars
<1>2. ASSUME NEW w \in Workers,
             \/ Begin(w) \/ Finding(w) \/ Preparing(w) \/ Crash(w)
             \/ MarkReadyFails(w) \/ ReturnStored(w) \/ RaiseStored(w) \/ Discard(w)
      PROVE  PublisherOK'
  <2>1. row' = row
    BY <1>2 DEF Begin, Finding, Preparing, Crash, FindNone, FindReady, FindBusy, InsertRaced,
       ReadReady, Prepare, PrepareFails, Upload, UploadFails, ReadClock, MarkReadyFails,
       ReturnStored, RaiseStored, Discard
  <2>2. \A k \in botched' : row.state = "ready" /\ row.key = k
    <3>1. botched' = botched \/ RaiseStored(w)
      BY <1>2 DEF Begin, Finding, Preparing, Crash, FindNone, FindReady, FindBusy, InsertRaced,
         ReadReady, Prepare, PrepareFails, Upload, UploadFails, ReadClock, MarkReadyFails,
         ReturnStored, Discard
    <3> QED
      BY <3>1 DEF Inv, ProgressOK, RaiseStored
  <2>3. ASSUME row.state = "ready", NEW v \in Workers, token'[v] = row.key
        PROVE  pc'[v] \in {"stored", "failing", "discarded", "reporting"}
    <3>1. row.key # NoToken
      BY <2>3 DEF Inv, RowOK
    <3>2. v # w => token'[v] = token[v] /\ pc'[v] = pc[v]
      BY <1>2 DEF Inv, TypeOK, Begin, Finding, Preparing, Crash, FindNone, FindReady, FindBusy,
         InsertRaced, ReadReady, Prepare, PrepareFails, Upload, UploadFails, ReadClock,
         MarkReadyFails, ReturnStored, RaiseStored, Discard, Goto, Return
    <3>3. ASSUME v = w PROVE pc'[v] \in {"stored", "failing", "discarded", "reporting"}
      <4>1. token[w] = row.key
        BY <1>2, <2>3, <3>1, <3>3 DEF Inv, TypeOK, Begin, Finding, Preparing, Crash, FindNone,
           FindReady, FindBusy, InsertRaced, ReadReady, Prepare, PrepareFails, Upload,
           UploadFails, ReadClock, MarkReadyFails, ReturnStored, RaiseStored, Discard, Goto,
           Return
      <4>2. pc[w] \in {"stored", "failing", "discarded", "reporting"}
        BY <2>3, <4>1
      <4> QED
        BY <1>2, <2>3, <3>1, <3>3, <4>1, <4>2 DEF Inv, TypeOK, Begin, Finding, Preparing, Crash,
           FindNone, FindReady, FindBusy, InsertRaced, ReadReady, Prepare, PrepareFails, Upload,
           UploadFails, ReadClock, MarkReadyFails, ReturnStored, RaiseStored, Discard, Goto,
           Return
    <3> QED
      BY <2>3, <3>2, <3>3
  <2> QED
    BY <2>1, <2>2, <2>3
<1>3. ASSUME NEW w \in Workers, MarkReady(w) PROVE PublisherOK'
  <2>1. CASE HoldsClaim(w)
    <3>1. token[w] # NoToken /\ row.state = "processing"
      BY <1>3, <2>1 DEF MarkReady, HoldsClaim, Inv, TypeOK, Claimed, PC
    <3> QED
      BY <1>3, <2>1, <3>1 DEF MarkReady, Goto, Inv, TypeOK, TokensOK
  <2>2. CASE ~HoldsClaim(w)
    <3>1. row.state = "ready" => token[w] # row.key
      BY <1>3 DEF MarkReady
    <3> QED
      BY <1>3, <2>2, <3>1 DEF MarkReady, Goto, Inv, TypeOK
  <2> QED
    BY <2>1, <2>2
<1>4. ASSUME NEW w \in Workers, MarkFailed(w) PROVE PublisherOK'
  <2>1. HoldsClaim(w) => row.state = "processing"
    BY DEF HoldsClaim
  <2>2. row.state = "ready" => row' = row /\ row.key # NoToken
    BY <1>4, <2>1 DEF MarkFailed, Inv, RowOK
  <2>3. row'.state = "ready" => row.state = "ready"
    BY <1>4 DEF MarkFailed, Inv, TypeOK, Row
  <2> QED
    BY <1>4, <2>2, <2>3, <2>1 DEF MarkFailed, Goto, Return, Inv, TypeOK
<1>5. ASSUME NEW w \in Workers, NEW t \in Tokens, Claim(w, t) \/ Insert(w, t)
      PROVE  PublisherOK'
  BY <1>5 DEF Claim, Insert, TakeClaim
<1> QED
  BY <1>1, <1>2, <1>3, <1>4, <1>5 DEF Next, Finishing

\* What each step is to the callers.
LEMMA CellStep ==
    ASSUME Inv, PublisherOK, [Next]_vars
    PROVE  Cell!Next \/ UNCHANGED Cell!vars
<1> USE DEF history
<1> DEFINE Same == UNCHANGED <<row, objects, returned, botched>>
<1>1. ASSUME Same PROVE UNCHANGED Cell!vars
  BY <1>1 DEF Cell!vars
<1>2. CASE Tick \/ UNCHANGED vars
  BY <1>1, <1>2 DEF Tick, vars
<1>3. ASSUME NEW w \in Workers, Begin(w) \/ Crash(w) PROVE Same
  BY <1>3 DEF Begin, Crash
<1>4. ASSUME NEW w \in Workers, Finding(w) PROVE Same \/ Cell!Give
  <2>1. CASE ReadReady(w)
    <3>1. row.state = "ready" /\ row.key # NoToken
      BY <2>1 DEF ReadReady, Inv, ProgressOK, RowOK
    <3> QED
      BY <2>1, <3>1 DEF ReadReady, Cell!Give
  <2> QED
    BY <1>4, <2>1 DEF Finding, FindNone, FindReady, FindBusy, InsertRaced
<1>5. ASSUME NEW w \in Workers, Preparing(w) PROVE UNCHANGED Cell!vars
  <2>1. UNCHANGED <<row, returned, botched>>
    BY <1>5 DEF Preparing, Prepare, PrepareFails, Upload, UploadFails, ReadClock
  <2>2. objects' = objects \/ (pc[w] = "uploading" /\ objects' = objects \cup {token[w]})
    BY <1>5 DEF Preparing, Prepare, PrepareFails, Upload, UploadFails, ReadClock
  <2>3. row.state = "ready" => (row.key \in objects' <=> row.key \in objects)
    BY <2>2 DEF PublisherOK
  <2> QED
    BY <2>1, <2>3 DEF Cell!vars
<1>6. ASSUME NEW w \in Workers, MarkReady(w)
      PROVE  UNCHANGED Cell!vars \/ \E k \in Tokens : Cell!Publish(k)
  <2>1. CASE HoldsClaim(w)
    <3>1. /\ token[w] \in Tokens /\ token[w] \in objects
          /\ row.state = "processing" /\ botched = {}
      BY <1>6, <2>1, Drawn DEF MarkReady, HoldsClaim, Inv, ProgressOK, PublisherOK, Claimed, PC
    <3>2. row'.state = "ready" /\ row'.key = token[w] /\ UNCHANGED <<objects, returned, botched>>
      BY <1>6, <2>1 DEF MarkReady
    <3>3. Cell!Publish(token[w])
      BY <3>1, <3>2 DEF Cell!Publish
    <3> QED
      BY <3>1, <3>3
  <2> QED
    BY <1>1, <1>6, <2>1 DEF MarkReady
<1>7. ASSUME NEW w \in Workers, MarkReadyFails(w) PROVE Same
  BY <1>7 DEF MarkReadyFails
<1>8. ASSUME NEW w \in Workers, ReturnStored(w) PROVE Cell!Give
  <2>1. row.state = "ready" /\ row.key = token[w] /\ row.key # NoToken
    BY <1>8 DEF ReturnStored, Inv, ProgressOK, RowOK
  <2> QED
    BY <1>8, <2>1 DEF ReturnStored, Cell!Give
<1>9. ASSUME NEW w \in Workers, RaiseStored(w) PROVE Cell!PublisherRaises
  <2>1. row.state = "ready" /\ row.key = token[w] /\ row.key # NoToken
    BY <1>9 DEF RaiseStored, Inv, ProgressOK, RowOK
  <2> QED
    BY <1>9, <2>1 DEF RaiseStored, Cell!PublisherRaises
<1>10. ASSUME NEW w \in Workers, Discard(w) PROVE UNCHANGED Cell!vars \/ Cell!LoseObject
  <2>1. UNCHANGED <<row, returned, botched>>
    BY <1>10 DEF Discard
  <2>2. objects' = objects \/ objects' = objects \ {token[w]}
    BY <1>10 DEF Discard, Remove
  <2>3. CASE row.state = "ready" /\ token[w] = row.key
    <3>1. row.key \in botched
      BY <1>10, <2>3 DEF Discard, Inv, OwnerOK
    <3>2. row.key \in objects' => objects' = objects
      BY <2>2, <2>3
    <3> QED
      BY <1>1, <2>1, <2>3, <3>1, <3>2 DEF Cell!LoseObject
  <2>4. CASE ~(row.state = "ready" /\ token[w] = row.key)
    BY <2>1, <2>2, <2>4 DEF Cell!vars
  <2> QED
    BY <2>3, <2>4
<1>11. ASSUME NEW w \in Workers, MarkFailed(w) PROVE UNCHANGED Cell!vars
  <2>1. row' = row \/ (row.state = "processing" /\ row'.state = "failed")
    BY <1>11 DEF MarkFailed, HoldsClaim, Inv, TypeOK, Row
  <2>2. UNCHANGED <<objects, returned, botched>>
    BY <1>11 DEF MarkFailed
  <2> QED
    BY <2>1, <2>2 DEF Cell!vars
<1>12. ASSUME NEW w \in Workers, NEW t \in Tokens, Claim(w, t) \/ Insert(w, t)
       PROVE  UNCHANGED Cell!vars
  <2>1. /\ row.state # "ready" /\ row'.state = "processing"
        /\ UNCHANGED <<objects, returned, botched>>
    BY <1>12 DEF Claim, Insert, TakeClaim
  <2> QED
    BY <2>1 DEF Cell!vars
<1> HIDE DEF Same
<1> QED
  BY <1>1, <1>2, <1>3, <1>4, <1>5, <1>6, <1>7, <1>8, <1>9, <1>10, <1>11, <1>12
     DEF Next, Finishing, Cell!Next

\* With any number of processes and claims, and whatever fails, callers see a cell that is
\* written once: each step publishes the key of an object that is there, gives the
\* published key to a caller, or loses its object after its publisher raised.
THEOREM LeaseImplementsCell == Spec => ImplementsCell
<1>1. Init => Cell!Init
  BY DEF Init, NoRow, Cell!Init
<1>2. Inv /\ PublisherOK /\ [Next]_vars => [Cell!Next]_(Cell!vars)
  BY CellStep
<1>3. Init => PublisherOK
  BY DEF Init, NoRow, PublisherOK
<1> QED
  BY <1>1, <1>2, <1>3, PublisherStep, InvInit, InvNext, PTL DEF Spec, ImplementsCell, Cell!Spec

\* What a step that changes the row starts from, as RowIsFenced states it.
Fenced ==
    \/ row.state \in {"absent", "failed"}
    \/ row.state = "processing" /\ row.expires <= now
    \/ /\ row.state = "processing" /\ row'.state \in {"ready", "failed"}
       /\ \E w \in Workers : token[w] = row.token /\ pc[w] # pc'[w]

\* No step of any process changes a READY row, so what a publisher was told to
\* publish from is what every later caller is told; nor does one but the holder's
\* end a claim whose lease runs.
THEOREM RowStaysFenced == Spec => RowIsFenced
<1>1. ASSUME Inv, [Next]_vars, row' # row PROVE Fenced
  <2> USE DEF Inv
  <2>1. ASSUME NEW w \in Workers, Begin(w) \/ Finding(w) \/ Preparing(w) \/ Crash(w)
        PROVE  row' = row
    BY <2>1 DEF Begin, Finding, Preparing, Crash, FindNone, FindReady, FindBusy, InsertRaced,
                ReadReady, Prepare, PrepareFails, Upload, UploadFails, ReadClock
  <2>2. ASSUME NEW w \in Workers, Finishing(w) PROVE Fenced
    <3>1. MarkReady(w) \/ MarkFailed(w)
      BY <1>1, <2>2 DEF Finishing, MarkReadyFails, ReturnStored, RaiseStored, Discard
    <3>2. HoldsClaim(w)
      BY <1>1, <3>1 DEF MarkReady, MarkFailed
    <3>3. row'.state \in {"ready", "failed"}
      <4>1. CASE MarkReady(w)
        BY <3>2, <4>1 DEF MarkReady
      <4>2. CASE MarkFailed(w)
        BY <1>1, <3>2, <4>2 DEF MarkFailed, TypeOK, Row
      <4> QED
        BY <3>1, <4>1, <4>2
    <3>4. pc[w] # pc'[w]
      BY <1>1, <3>1, <3>2 DEF MarkReady, MarkFailed, Goto, Return, TypeOK
    <3> QED
      BY <3>2, <3>3, <3>4 DEF HoldsClaim, Fenced
  <2>3. ASSUME NEW w \in Workers, NEW t \in Tokens, Claim(w, t) \/ Insert(w, t)
        PROVE  Fenced
    <3>1. \/ row.state \in {"absent", "failed"}
          \/ row.state = "processing" /\ row.expires <= clock[w]
      BY <1>1, <2>3 DEF Claim, Insert, Busy, TypeOK, Row, RenditionState
    <3>2. clock[w] <= now /\ clock[w] \in Nat /\ now \in Nat /\ row.expires \in Nat
      BY <1>1 DEF LeasesOK, TypeOK, Row
    <3> QED
      BY <3>1, <3>2 DEF Fenced
  <2>4. CASE Tick \/ UNCHANGED vars
    BY <1>1, <2>4 DEF Tick, vars
  <2> QED
    BY <1>1, <2>1, <2>2, <2>3, <2>4 DEF Next
<1>2. Inv /\ [Next]_vars => [row' # row => Fenced]_vars
  BY <1>1
<1> QED
  BY <1>2, InvCorrect, PTL DEF Spec, RowIsFenced, Fenced
=============================================================================
