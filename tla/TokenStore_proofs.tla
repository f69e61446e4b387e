--------------------------- MODULE TokenStore_proofs ---------------------------
(***************************************************************************)
(* Theorems about TokenStore, for any callers, lifetimes and margins.        *)
(*                                                                         *)
(* The argument: a refresh token is sent only under the lock, and the row     *)
(* that is unlocked holds a token that was never sent, or one whose exchange  *)
(* was not stored.  An expiry that is stored is past, or at most the length  *)
(* of a refresh later than the platform's, which the margin covers.          *)
(***************************************************************************)
EXTENDS TokenStore, TLAPS

\* Only what was issued is stored or worked with, and nothing else was sent.
IssuedOnly ==
    /\ row.access \in 0..issued /\ row.refresh \in 0..issued
    /\ env.access \in 1..issued /\ env.refresh \in 0..issued
    /\ seed # NoSeed =>
          /\ seed.tokens.access \in 1..issued /\ seed.tokens.refresh \in 0..issued
          /\ seed.seen.access \in 0..issued /\ seed.seen.refresh \in 0..issued
    /\ \A g \in Pairs : g > issued => presented[g] = 0

\* While the row is unlocked its refresh token was not sent, or may be sent again;
\* under the lock there is one, and the pair to be stored is new.
RowUnspent ==
    /\ holder = {} /\ row.refresh # 0 =>
          presented[row.refresh] = 0 \/ row.refresh \in excused
    /\ \A w \in Callers :
          /\ pc[w] \in Locked => row.refresh # 0
          /\ pc[w] = "store" => presented[pair[w]] = 0

\* The stored expiry against the platform's, and each caller's against its clock.
ExpiriesOK ==
    /\ row.access # 0 => row.expires <= now \/ row.expires <= until[row.access] + Refreshing
    /\ \A w \in Callers :
          /\ pc[w] \in Locked => since[w] <= now /\ now <= since[w] + Refreshing
          /\ pc[w] = "store" => since[w] + Lifetime <= until[pair[w]]
          /\ pc[w] = "use" => now <= since[w] + Using /\ since[w] + Using <= until[pair[w]]

Inv == TypeOK /\ IssuedOnly /\ SpentOnce /\ RowUnspent /\ ExpiriesOK

LEMMA InitInv == Init => Inv
  BY TokenConstantsOK, SMTT(30)
  DEF Init, Inv, TypeOK, IssuedOnly, SpentOnce, RowUnspent, ExpiriesOK, Row, NoRow, NoSeed,
      Tokens, Pairs, MaybePair, Times, Locked
-----------------------------------------------------------------------------
\* The numbers of the state are natural.
LEMMA Numbers ==
    ASSUME TypeOK
    PROVE  /\ issued \in Nat /\ 1 <= issued /\ issued <= MaxPairs /\ MaxPairs \in Nat
           /\ now \in Nat /\ Margin \in Nat /\ Lifetime \in Nat /\ Using \in Nat /\ Refreshing \in Nat
           /\ \A g \in 1..issued : g \in Nat /\ g \in Pairs
           /\ 0 \in MaybePair
  BY TokenConstantsOK DEF TypeOK, Pairs, MaybePair

\* Later pairs leave earlier ones issued.
LEMMA IssuedOnlyKept ==
    ASSUME TypeOK, IssuedOnly, issued <= issued', issued' \in Pairs, UNCHANGED <<row, presented>>,
           seed' \in {seed, NoSeed}, env'.access \in 1..issued', env'.refresh \in 0..issued'
    PROVE  IssuedOnly'
  <1>1. issued \in Nat /\ issued' \in Nat
    BY Numbers, TokenConstantsOK DEF Pairs
  <1>2. row'.access \in 0..issued' /\ row'.refresh \in 0..issued'
    BY <1>1 DEF IssuedOnly
  <1>3. seed' # NoSeed =>
          /\ seed'.tokens.access \in 1..issued' /\ seed'.tokens.refresh \in 0..issued'
          /\ seed'.seen.access \in 0..issued' /\ seed'.seen.refresh \in 0..issued'
    BY <1>1 DEF IssuedOnly
  <1>4. \A g \in Pairs : g > issued' => presented'[g] = 0
    BY <1>1, Numbers DEF IssuedOnly, Pairs
  <1> QED
    BY <1>2, <1>3, <1>4 DEF IssuedOnly

\* What the platform issues is new, and its expiries never move back.
LEMMA IssueFacts ==
    ASSUME TypeOK, Issue
    PROVE  /\ issued' = issued + 1 /\ issued' \in Pairs /\ issued \in Pairs /\ good' \in MaybePair
           /\ until' \in [Pairs -> Times]
           /\ \A g \in 1..issued : until'[g] = until[g]
           /\ until'[issued'] = now + Lifetime
  BY TokenConstantsOK DEF TypeOK, Issue, Pairs, MaybePair, Times

LEMMA RefuseFacts ==
    ASSUME TypeOK, NEW g \in Pairs, Refuse(g)
    PROVE  good' \in MaybePair /\ issued' = issued /\ until' = until
  BY TokenConstantsOK DEF TypeOK, Refuse, platform, MaybePair

\* A column of the row that is seeded holds what was issued.
LEMMA SeededFacts ==
    ASSUME TypeOK, IssuedOnly, seed # NoSeed
    PROVE  /\ Seeded \in Row /\ Seeded.expires = 0
           /\ Seeded.access \in 0..issued /\ Seeded.refresh \in 0..issued
  <1>1. seed.tokens \in Tokens /\ seed.seen \in Row /\ row \in Row
    BY DEF TypeOK, Seeding
  <1>2. /\ Seeded.access \in {seed.tokens.access, row.access}
        /\ Seeded.refresh \in {seed.tokens.refresh, seed.seen.refresh, row.refresh}
        /\ Seeded.expires = 0
    BY DEF Seeded, Column, KeptRefresh
  <1>3. Seeded.access \in MaybePair /\ Seeded.refresh \in MaybePair /\ 0 \in Times
    BY <1>1, <1>2, TokenConstantsOK DEF Tokens, Row, Times
  <1> QED
    BY <1>1, <1>2, <1>3 DEF IssuedOnly, Row, Seeded
-----------------------------------------------------------------------------
\* Steps that leave the tokens alone.
LEMMA CallKeeps == ASSUME Inv, NEW w \in Callers, Call(w) PROVE Inv'
  BY TokenConstantsOK, SMTT(60) DEF Inv, TypeOK, IssuedOnly, SpentOnce, RowUnspent, ExpiriesOK, Call, Becomes,
      Locked, platform, history, MaybePair

LEMMA MissingKeeps == ASSUME Inv, NEW w \in Callers, Missing(w) PROVE Inv'
  BY TokenConstantsOK, SMTT(60) DEF Inv, TypeOK, IssuedOnly, SpentOnce, RowUnspent, ExpiriesOK, Missing,
      Becomes, Locked, platform, history, MaybePair

LEMMA UnrefreshableKeeps == ASSUME Inv, NEW w \in Callers, Unrefreshable(w) PROVE Inv'
  BY TokenConstantsOK, SMTT(60) DEF Inv, TypeOK, IssuedOnly, SpentOnce, RowUnspent, ExpiriesOK,
      Unrefreshable, Obtain, Becomes, Locked, platform, history, MaybePair

LEMMA UsedKeeps == ASSUME Inv, NEW w \in Callers, Used(w) PROVE Inv'
  BY TokenConstantsOK, SMTT(60) DEF Inv, TypeOK, IssuedOnly, SpentOnce, RowUnspent, ExpiriesOK, Used,
      Becomes, Locked, platform, history, MaybePair

LEMMA ReturnKeeps == ASSUME Inv, NEW w \in Callers, Return(w) PROVE Inv'
  <1>1. /\ row.access \in 1..issued /\ row.access \in Pairs /\ now + Margin <= row.expires
        /\ row.access \in MaybePair /\ row.expires \in Nat
    <2>1. row.access \in MaybePair /\ row.expires \in Times /\ row.access \in 0..issued /\ row.access # 0
      BY DEF Inv, TypeOK, IssuedOnly, Return, Obtain, Row
    <2>2. row.expires \in Nat /\ now \in Nat /\ Margin \in Nat /\ ~(row.expires < now + Margin)
      BY <2>1, TokenConstantsOK DEF Inv, TypeOK, Return, Due, Times
    <2> QED
      BY <2>1, <2>2, Numbers DEF Inv
  <1>2. now + Using <= until[row.access]
    BY <1>1, TokenConstantsOK DEF Inv, TypeOK, ExpiriesOK, Times
  <1>3. TypeOK'
    BY <1>1 DEF Inv, TypeOK, Return, Obtain, Becomes, Locked, platform, history
  <1>4. IssuedOnly' /\ SpentOnce' /\ RowUnspent'
    BY DEF Inv, TypeOK, IssuedOnly, SpentOnce, RowUnspent, Return, Obtain, Becomes, Locked, platform, history
  <1>5. ExpiriesOK'
    BY <1>1, <1>2, TokenConstantsOK DEF Inv, TypeOK, ExpiriesOK, Return, Obtain, Becomes, Locked, platform, history
  <1> QED
    BY <1>3, <1>4, <1>5 DEF Inv

LEMMA TickKeeps == ASSUME Inv, Tick PROVE Inv'
  BY TokenConstantsOK, SMTT(60) DEF Inv, TypeOK, IssuedOnly, SpentOnce, RowUnspent, ExpiriesOK, Tick,
      Locked, platform, caller, history, Row, MaybePair, Times

LEMMA BeginSeedKeeps == ASSUME Inv, BeginSeed PROVE Inv'
  BY TokenConstantsOK, SMTT(60) DEF Inv, TypeOK, IssuedOnly, SpentOnce, RowUnspent, ExpiriesOK, BeginSeed,
      Locked, platform, caller, history, Seeding, NoSeed

LEMMA SeedFailsKeeps == ASSUME Inv, SeedFails PROVE Inv'
  BY TokenConstantsOK, SMTT(60) DEF Inv, TypeOK, IssuedOnly, SpentOnce, RowUnspent, ExpiriesOK, SeedFails,
      Locked, platform, caller, history, NoSeed
-----------------------------------------------------------------------------
\* Steps that send, exchange or store a token.
LEMMA RefreshKeeps == ASSUME Inv, NEW w \in Callers, Refresh(w) PROVE Inv'
  <1>1. row.refresh \in 1..issued /\ row.refresh \in Pairs /\ row.refresh \in MaybePair
    BY TokenConstantsOK DEF Inv, TypeOK, IssuedOnly, Refresh, Row, Pairs, MaybePair
  <1>2. presented[row.refresh] = 0 \/ row.refresh \in excused
    BY DEF Inv, RowUnspent, Refresh, Obtain
  <1>3. \A v \in Callers : pc[v] \notin Locked
    BY DEF Inv, TypeOK, Refresh, Obtain
  <1>4. TypeOK'
    BY <1>1, <1>3 DEF Inv, TypeOK, Refresh, Becomes, Locked, platform, Pairs
  <1>5. IssuedOnly'
    BY <1>1 DEF Inv, TypeOK, IssuedOnly, Refresh, Pairs, platform
  <1>6. SpentOnce'
    BY <1>1, <1>2 DEF Inv, TypeOK, SpentOnce, Refresh, Pairs
  <1>7. RowUnspent'
    BY <1>1, <1>3 DEF Inv, TypeOK, RowUnspent, Refresh, Becomes, Locked
  <1>8. ExpiriesOK'
    BY <1>1, <1>3, TokenConstantsOK DEF Inv, TypeOK, ExpiriesOK, Refresh, Becomes, Locked, platform
  <1> QED
    BY <1>4, <1>5, <1>6, <1>7, <1>8 DEF Inv

\* The pair to be stored has not been presented, and outlives the refresh.
LEMMA GrantedKeeps == ASSUME Inv, NEW w \in Callers, Granted(w) PROVE Inv'
  <1>1. Issue /\ holder = {w} /\ w \in holder
    BY DEF Inv, TypeOK, Granted, Locked
  <1>2. \A v \in Callers : v # w => pc[v] \notin Locked
    BY <1>1 DEF Inv, TypeOK
  <1>3. /\ issued' = issued + 1 /\ issued' \in Pairs /\ issued \in Pairs /\ good' \in MaybePair
        /\ until' \in [Pairs -> Times]
        /\ \A g \in 1..issued : until'[g] = until[g]
        /\ until'[issued'] = now + Lifetime
    BY <1>1, IssueFacts DEF Inv
  <1>4. TypeOK'
    <2>1. issued' \in MaybePair /\ issued' \in 1..issued' /\ \A g \in 1..issued : g \in 1..issued'
      BY <1>3 DEF Pairs, MaybePair
    <2>2. \A v \in Callers : (pc'[v] \in Locked <=> v \in holder') /\ (pc'[v] \in Locked \cup {"use"} => pair'[v] \in 1..issued')
      BY <1>1, <1>2, <1>3, <2>1 DEF Inv, TypeOK, Granted, Locked
    <2> QED
      BY <1>3, <2>1, <2>2 DEF Inv, TypeOK, Granted, history
  <1>5. IssuedOnly'
    <2>1. env.access \in 1..issued' /\ env.refresh \in 0..issued' /\ issued <= issued'
      BY <1>3, Numbers DEF Inv, IssuedOnly
    <2> QED
      BY <1>3, <2>1, IssuedOnlyKept DEF Inv, Granted, history
  <1>6. SpentOnce'
    BY DEF Inv, SpentOnce, Granted, history
  <1>7. RowUnspent'
    BY <1>1, <1>2, <1>3 DEF Inv, TypeOK, IssuedOnly, RowUnspent, Granted, Locked, history, Pairs
  <1>8. ExpiriesOK'
    <2>1. row'.access # 0 => row'.expires <= now' \/ row'.expires <= until'[row'.access] + Refreshing
      BY <1>3 DEF Inv, TypeOK, IssuedOnly, ExpiriesOK, Granted, Row, MaybePair
    <2>2. ASSUME NEW v \in Callers
          PROVE  /\ pc'[v] \in Locked => since'[v] <= now' /\ now' <= since'[v] + Refreshing
                 /\ pc'[v] = "store" => since'[v] + Lifetime <= until'[pair'[v]]
                 /\ pc'[v] = "use" => now' <= since'[v] + Using /\ since'[v] + Using <= until'[pair'[v]]
      <3>1. CASE v = w
        BY <1>3, <3>1, TokenConstantsOK DEF Inv, TypeOK, ExpiriesOK, Granted, Locked, Pairs
      <3>2. CASE v # w
        BY <1>2, <1>3, <3>2 DEF Inv, TypeOK, ExpiriesOK, Granted, Locked, Pairs
      <3> QED
        BY <3>1, <3>2
    <2> QED
      BY <2>1, <2>2 DEF ExpiriesOK
  <1> QED
    BY <1>4, <1>5, <1>6, <1>7, <1>8 DEF Inv

LEMMA StoreKeeps == ASSUME Inv, NEW w \in Callers, Store(w) PROVE Inv'
  <1>1. /\ w \in holder /\ holder' = {} /\ pair[w] \in 1..issued /\ pair[w] \in Pairs
        /\ pair[w] \in MaybePair /\ issued \in Pairs
    BY TokenConstantsOK DEF Inv, TypeOK, Store, Locked, Pairs, MaybePair
  <1>2. \A v \in Callers : v # w => pc[v] \notin Locked
    BY <1>1 DEF Inv, TypeOK
  <1>3. /\ row' = [access |-> pair[w], refresh |-> pair[w], expires |-> now + Lifetime]
        /\ row' \in Row
    BY <1>1, TokenConstantsOK DEF Inv, TypeOK, Store, Row, Times
  <1>4. /\ since[w] <= now /\ now <= since[w] + Refreshing
        /\ since[w] + Lifetime <= until[pair[w]] /\ presented[pair[w]] = 0
    BY <1>1 DEF Inv, RowUnspent, ExpiriesOK, Store, Locked
  <1>5. now + Using <= until[pair[w]]
    BY <1>1, <1>4, TokenConstantsOK DEF Inv, TypeOK, Times
  <1>6. TypeOK'
    <2>1. /\ pc' \in [Callers -> {"idle", "wait", "exchange", "store", "use"}]
          /\ pair' \in [Callers -> MaybePair] /\ since' \in [Callers -> 0..MaxTime]
      BY <1>1, TokenConstantsOK DEF Inv, TypeOK, Store, Becomes, MaybePair
    <2>2. \A v \in Callers : pc'[v] \notin Locked /\ (pc'[v] = "use" => pair'[v] \in 1..issued)
      BY <1>1, <1>2 DEF Inv, TypeOK, Store, Becomes, Locked
    <2> QED
      BY <1>1, <1>3, <2>1, <2>2 DEF Inv, TypeOK, Store, platform, history, Locked
  <1>7. IssuedOnly' /\ SpentOnce'
    BY <1>1, <1>3 DEF Inv, TypeOK, IssuedOnly, SpentOnce, Store, platform, history, Pairs
  <1>8. RowUnspent'
    BY <1>1, <1>2, <1>3, <1>4 DEF Inv, TypeOK, RowUnspent, Store, Becomes, Locked, history
  <1>9. ExpiriesOK'
    <2>1. row'.expires <= until'[row'.access] + Refreshing
      BY <1>1, <1>3, <1>4, TokenConstantsOK DEF Inv, TypeOK, Store, platform, Times
    <2> QED
      BY <1>1, <1>2, <1>5, <2>1, TokenConstantsOK DEF Inv, TypeOK, ExpiriesOK, Store, Becomes, Locked, platform
  <1> QED
    BY <1>6, <1>7, <1>8, <1>9 DEF Inv

\* Rolling back unlocks a row whose token is excused, whatever the platform did.
LEMMA RollsBackKeeps ==
    ASSUME Inv, NEW w \in Callers, pc[w] \in Locked, RollsBack(w),
           issued <= issued', issued' \in Pairs, good' \in MaybePair, until' \in [Pairs -> Times],
           \A g \in 1..issued : until'[g] = until[g], late' \in [Pairs -> Nat]
    PROVE  Inv'
  <1>1. /\ w \in holder /\ holder' = {} /\ issued \in Pairs
        /\ row.refresh \in Pairs /\ 0 \in MaybePair
    BY TokenConstantsOK DEF Inv, TypeOK, RowUnspent, RollsBack, Locked, Row, Pairs, MaybePair
  <1>2. \A v \in Callers : v # w => pc[v] \notin Locked
    BY <1>1 DEF Inv, TypeOK
  <1>3. \A v \in Callers : pc'[v] \notin Locked /\ (pc'[v] = "use" => v # w /\ pc[v] = "use")
    BY <1>2 DEF Inv, TypeOK, RollsBack, Becomes, Locked
  <1>4. \A v \in Callers : v # w => pair'[v] = pair[v] /\ since'[v] = since[v]
    BY DEF Inv, TypeOK, RollsBack, Becomes
  <1>5. TypeOK'
    <2>1. \A v \in Callers : pc'[v] \in Locked \cup {"use"} => pair'[v] \in 1..issued'
      BY <1>1, <1>3, <1>4 DEF Inv, TypeOK, Pairs
    <2>2. /\ pc' \in [Callers -> {"idle", "wait", "exchange", "store", "use"}]
          /\ pair' \in [Callers -> MaybePair] /\ since' \in [Callers -> 0..MaxTime]
          /\ excused' \subseteq Pairs
      BY <1>1, TokenConstantsOK DEF Inv, TypeOK, RollsBack, Becomes
    <2> QED
      BY <1>1, <1>3, <2>1, <2>2 DEF Inv, TypeOK, RollsBack
  <1>6. IssuedOnly'
    <2>1. env.access \in 1..issued' /\ env.refresh \in 0..issued'
      <3>1. issued \in Nat /\ issued' \in Nat
        BY Numbers, TokenConstantsOK DEF Inv, Pairs
      <3>2. env.access \in 1..issued /\ env.refresh \in 0..issued
        BY DEF Inv, IssuedOnly
      <3> QED
        BY <3>1, <3>2
    <2> QED
      BY <2>1, IssuedOnlyKept DEF Inv, RollsBack
  <1>7. SpentOnce' /\ RowUnspent'
    BY <1>1, <1>3 DEF Inv, TypeOK, SpentOnce, RowUnspent, RollsBack, Locked
  <1>8. ExpiriesOK'
    <2>1. row.access # 0 => row.access \in 1..issued
      BY DEF Inv, IssuedOnly, TypeOK, Row, MaybePair
    <2>2. \A v \in Callers : pc[v] = "use" => pair[v] \in 1..issued
      BY DEF Inv, TypeOK
    <2>3. \A v \in Callers : pc'[v] = "use" => now' <= since'[v] + Using /\ since'[v] + Using <= until'[pair'[v]]
      BY <1>3, <1>4, <2>2 DEF Inv, ExpiriesOK, RollsBack
    <2> QED
      BY <1>3, <2>1, <2>3 DEF Inv, ExpiriesOK, RollsBack, Locked
  <1> QED
    BY <1>5, <1>6, <1>7, <1>8 DEF Inv

LEMMA NotGrantedKeeps == ASSUME Inv, NEW w \in Callers, NotGranted(w) PROVE Inv'
  <1>1. /\ pc[w] \in Locked /\ RollsBack(w) /\ pair[w] \in Pairs /\ TypeOK
        /\ issued \in Nat /\ issued \in Pairs /\ good \in MaybePair /\ until \in [Pairs -> Times]
        /\ late \in [Pairs -> Nat]
    BY Numbers DEF Inv, TypeOK, NotGranted, Locked
  <1>2. CASE UNCHANGED late /\ Issue
    <2>1. /\ issued <= issued' /\ issued' \in Pairs /\ good' \in MaybePair
          /\ until' \in [Pairs -> Times] /\ \A g \in 1..issued : until'[g] = until[g]
      BY <1>1, <1>2, IssueFacts
    <2> QED
      BY <1>1, <1>2, <2>1, RollsBackKeeps
  <1>3. CASE UNCHANGED late /\ Refuse(pair[w])
    <2>1. good' \in MaybePair /\ issued' = issued /\ until' = until
      BY <1>1, <1>3, RefuseFacts
    <2> QED
      BY <1>1, <1>3, <2>1, RollsBackKeeps
  <1>4. CASE late' = [late EXCEPT ![pair[w]] = @ + 1] /\ UNCHANGED platform
    <2>1. late \in [Pairs -> Nat] /\ pair[w] \in Pairs
      BY <1>1
    <2>2. late' \in [Pairs -> Nat]
      BY <1>4, <2>1
    <2> QED
      BY <1>1, <1>4, <2>2, RollsBackKeeps DEF platform
  <1> QED
    BY <1>2, <1>3, <1>4 DEF NotGranted

LEMMA DiesKeeps == ASSUME Inv, NEW w \in Callers, Dies(w) PROVE Inv'
  <1>1. /\ issued \in Nat /\ issued \in Pairs /\ good \in MaybePair /\ until \in [Pairs -> Times]
        /\ late \in [Pairs -> Nat]
    BY Numbers DEF Inv, TypeOK
  <1> QED
    BY <1>1, RollsBackKeeps DEF Dies, platform

\* What is seeded has not been presented, or is excused by it.
LEMMA SeedKeeps == ASSUME Inv, Seed PROVE Inv'
  <1>1. /\ Seeded \in Row /\ Seeded.expires = 0
        /\ Seeded.access \in 0..issued /\ Seeded.refresh \in 0..issued
    BY SeededFacts DEF Inv, Seed
  <1>2. /\ row' = Seeded /\ holder = {} /\ holder' = {} /\ seed' = NoSeed
        /\ issued \in Pairs /\ now \in Nat
    BY DEF Inv, TypeOK, Seed
  <1>3. \A v \in Callers : pc[v] \notin Locked
    BY <1>2 DEF Inv, TypeOK
  <1>4. /\ excused \subseteq excused' /\ excused' \subseteq Pairs
        /\ Seeded.refresh # 0 => presented[Seeded.refresh] = 0 \/ Seeded.refresh \in excused'
    <2>1. Seeded.refresh # 0 => Seeded.refresh \in Pairs
      BY <1>1, <1>2, TokenConstantsOK DEF Pairs
    <2>2. Seeded.refresh # 0 /\ Seeded.refresh = row.refresh =>
             presented[Seeded.refresh] = 0 \/ Seeded.refresh \in excused
      BY <1>2 DEF Inv, RowUnspent
    <2>3. Seeded.refresh # 0 => presented[Seeded.refresh] \in Nat
      BY <2>1 DEF Inv, TypeOK
    <2> QED
      BY <2>1, <2>2, <2>3 DEF Inv, TypeOK, Seed
  <1>5. TypeOK'
    BY <1>1, <1>2, <1>4 DEF Inv, TypeOK, Seed, platform, caller
  <1>6. IssuedOnly' /\ SpentOnce'
    BY <1>1, <1>2, <1>4 DEF Inv, IssuedOnly, SpentOnce, Seed, platform, caller
  <1>7. RowUnspent'
    BY <1>2, <1>3, <1>4 DEF Inv, RowUnspent, Seed, caller, Locked
  <1>8. ExpiriesOK'
    BY <1>1, <1>2, <1>3 DEF Inv, ExpiriesOK, Seed, platform, caller
  <1> QED
    BY <1>5, <1>6, <1>7, <1>8 DEF Inv

\* Steps of the platform that no caller waits for.
LEMMA PlatformKeeps ==
    ASSUME Inv, UNCHANGED <<row, holder, seed, now, calls, caller, history>>,
           issued <= issued', issued' \in Pairs, good' \in MaybePair, until' \in [Pairs -> Times],
           \A g \in 1..issued : until'[g] = until[g], late' \in [Pairs -> Nat],
           env' \in Tokens, env'.access \in 1..issued', env'.refresh \in 0..issued'
    PROVE  Inv'
  <1>1. issued \in Pairs
    BY DEF Inv, TypeOK
  <1>2. TypeOK'
    <2>1. \A v \in Callers : pc[v] \in Locked \cup {"use"} => pair[v] \in 1..issued'
      BY <1>1 DEF Inv, TypeOK, Pairs
    <2> QED
      BY <2>1 DEF Inv, TypeOK, caller, history
  <1>3. IssuedOnly'
    BY IssuedOnlyKept DEF Inv, history
  <1>4. SpentOnce' /\ RowUnspent'
    BY DEF Inv, SpentOnce, RowUnspent, caller, history
  <1>5. ExpiriesOK'
    <2>1. row.access # 0 => row.access \in 1..issued
      BY DEF Inv, IssuedOnly, TypeOK, Row, MaybePair
    <2>2. \A v \in Callers : pc[v] \in {"store", "use"} => pair[v] \in 1..issued
      BY DEF Inv, TypeOK, Locked
    <2> QED
      BY <2>1, <2>2 DEF Inv, ExpiriesOK, caller
  <1> QED
    BY <1>2, <1>3, <1>4, <1>5 DEF Inv

LEMMA AuthoriseKeeps == ASSUME Inv, Authorise PROVE Inv'
  <1>1. Issue /\ TypeOK
    BY DEF Inv, Authorise
  <1>2. /\ issued' = issued + 1 /\ issued' \in Pairs /\ issued \in Pairs /\ good' \in MaybePair
        /\ until' \in [Pairs -> Times]
        /\ \A g \in 1..issued : until'[g] = until[g]
    BY <1>1, IssueFacts
  <1>3. env' \in Tokens /\ env'.access \in 1..issued' /\ env'.refresh \in 0..issued'
    BY <1>2, TokenConstantsOK DEF Authorise, Tokens, Pairs, MaybePair
  <1> QED
    BY <1>1, <1>2, <1>3, PlatformKeeps DEF Authorise, TypeOK, Pairs

LEMMA ArriveKeeps == ASSUME Inv, NEW g \in Pairs, Arrive(g) PROVE Inv'
  <1>1. /\ issued <= issued' /\ issued \in Pairs /\ issued' \in Pairs /\ good' \in MaybePair
        /\ until' \in [Pairs -> Times] /\ \A h \in 1..issued : until'[h] = until[h]
    <2>1. CASE Issue
      BY <2>1, IssueFacts DEF Inv, Pairs
    <2>2. CASE Refuse(g)
      BY <2>2, RefuseFacts, Numbers DEF Inv, TypeOK
    <2> QED
      BY <2>1, <2>2 DEF Arrive
  <1>2. late' \in [Pairs -> Nat]
    BY DEF Inv, TypeOK, Arrive
  <1>3. env' \in Tokens /\ env'.access \in 1..issued' /\ env'.refresh \in 0..issued'
    BY <1>1 DEF Inv, TypeOK, IssuedOnly, Arrive, Pairs
  <1> QED
    BY <1>1, <1>2, <1>3, PlatformKeeps DEF Arrive
-----------------------------------------------------------------------------
LEMMA StepInv == Inv /\ [Next]_vars => Inv'
  <1> SUFFICES ASSUME Inv, [Next]_vars PROVE Inv'
    OBVIOUS
  <1>1. ASSUME NEW w \in Callers,
               Call(w) \/ Decides(w) \/ Exchanges(w) \/ Store(w) \/ Dies(w) \/ Used(w)
        PROVE  Inv'
    BY <1>1, CallKeeps, MissingKeeps, ReturnKeeps, UnrefreshableKeeps, RefreshKeeps, GrantedKeeps,
       NotGrantedKeeps, StoreKeeps, DiesKeeps, UsedKeeps DEF Decides, Exchanges
  <1>2. ASSUME NEW g \in Pairs, Arrive(g) PROVE Inv'
    BY <1>2, ArriveKeeps
  <1>3. CASE Authorise \/ BeginSeed \/ SeedFails \/ Seed \/ Tick
    BY <1>3, AuthoriseKeeps, BeginSeedKeeps, SeedFailsKeeps, SeedKeeps, TickKeeps
  <1>4. CASE UNCHANGED vars
    BY <1>4 DEF Inv, TypeOK, IssuedOnly, SpentOnce, RowUnspent, ExpiriesOK, vars, platform, caller, history
  <1> QED
    BY <1>1, <1>2, <1>3, <1>4 DEF Next

LEMMA Invariance == Spec => []Inv
  BY InitInv, StepInv, PTL DEF Spec

\* The lock, the callers' places and the pairs they work with agree in every
\* state (the type invariant).
THEOREM TypeCorrect == Spec => []TypeOK
  <1>1. Inv => TypeOK
    BY DEF Inv
  <1> QED
    BY <1>1, Invariance, PTL

\* However many workers find the token due at once, a refresh token is sent once,
\* unless its exchange was not stored or the seeding put it back (get_access_token).
THEOREM RefreshTokensSpentOnce == Spec => []SpentOnce
  <1>1. Inv => SpentOnce
    BY DEF Inv
  <1> QED
    BY <1>1, Invariance, PTL

\* With the margin at least the longest refresh and the longest request together, a
\* token that get_access_token returned is good when its request arrives.
THEOREM TokensOutliveRequests == Spec => []TokenOutlivesRequest
  <1>1. Inv => TokenOutlivesRequest
    <2> SUFFICES ASSUME Inv, NEW w \in Callers, pc[w] = "use" PROVE now <= until[pair[w]]
      BY DEF TokenOutlivesRequest
    <2>1. pair[w] \in Pairs /\ issued \in Pairs
      BY TokenConstantsOK DEF Inv, TypeOK, Pairs
    <2> QED
      BY <2>1, TokenConstantsOK DEF Inv, TypeOK, ExpiriesOK, Times
  <1> QED
    BY <1>1, Invariance, PTL
-----------------------------------------------------------------------------
\* The pair that is about to be stored is newer than what the row holds.
Newer == \A w \in Callers : pc[w] = "store" => pair[w] > row.access /\ pair[w] > row.refresh

LEMMA NewerInit == Init => Newer
  BY DEF Init, Newer

LEMMA NewerNext ==
    ASSUME Inv, Newer, [Next]_vars
    PROVE  Newer'
  <1>0. /\ TypeOK /\ row.access \in 0..issued /\ row.refresh \in 0..issued
        /\ issued \in Nat /\ pc \in [Callers -> {"idle", "wait", "exchange", "store", "use"}]
        /\ pair \in [Callers -> MaybePair]
        /\ \A v \in Callers : pc[v] \in Locked <=> v \in holder
        /\ \A v, w \in holder : v = w
    BY Numbers DEF Inv, TypeOK, IssuedOnly
  <1>1. CASE UNCHANGED row /\ \A v \in Callers : pc'[v] = "store" => pc[v] = "store" /\ pair'[v] = pair[v]
    BY <1>1 DEF Newer
  <1>2. ASSUME NEW w \in Callers, Granted(w) PROVE Newer'
    <2>1. /\ pair'[w] = issued + 1 /\ UNCHANGED row
          /\ \A v \in Callers \ {w} : pc'[v] = pc[v] /\ pair'[v] = pair[v]
      BY <1>0, <1>2 DEF Granted
    <2>2. pair'[w] > row.access /\ pair'[w] > row.refresh
      BY <1>0, <2>1
    <2> QED
      BY <2>1, <2>2 DEF Newer
  <1>3. ASSUME NEW w \in Callers, Store(w) PROVE Newer'
    <2>1. \A v \in Callers : pc[v] = "store" => v = w
      BY <1>0, <1>3 DEF Store, Locked
    <2>2. \A v \in Callers : pc'[v] # "store"
      BY <1>0, <1>3, <2>1 DEF Store, Becomes
    <2> QED
      BY <2>2 DEF Newer
  <1>4. CASE Seed
    BY <1>0, <1>4 DEF Seed, Newer, Locked, caller
  <1>5. ASSUME NEW w \in Callers,
               Call(w) \/ Decides(w) \/ NotGranted(w) \/ Dies(w) \/ Used(w)
        PROVE  UNCHANGED row /\ \A v \in Callers : pc'[v] = "store" => pc[v] = "store" /\ pair'[v] = pair[v]
    BY <1>0, <1>5 DEF Call, Decides, Missing, Return, Unrefreshable, Refresh, NotGranted, Dies, RollsBack, Used,
        Becomes
  <1>6. CASE (\E g \in Pairs : Arrive(g)) \/ Authorise \/ BeginSeed \/ SeedFails \/ Tick \/ UNCHANGED vars
    BY <1>1, <1>6 DEF Arrive, Authorise, BeginSeed, SeedFails, Tick, caller, vars
  <1> QED
    BY <1>1, <1>2, <1>3, <1>4, <1>5, <1>6 DEF Next, Exchanges

\* The row never falls back to tokens it has replaced: of all that calls, workers that
\* die and answers that come late can do, only re-running the seeding writes older ones
\* (get_access_token stores under the lock it read the row with).
THEOREM RowAdvances ==
    Spec => [][\/ UNCHANGED row \/ Seed
               \/ row'.access > row.access /\ row'.refresh > row.refresh]_vars
  <1>1. ASSUME Newer, Next
        PROVE  UNCHANGED row \/ Seed \/ (row'.access > row.access /\ row'.refresh > row.refresh)
    <2>1. ASSUME NEW w \in Callers,
                 Call(w) \/ Decides(w) \/ Exchanges(w) \/ Dies(w) \/ Used(w)
          PROVE  UNCHANGED row
      BY <2>1 DEF Call, Decides, Missing, Return, Unrefreshable, Refresh, Exchanges, Granted, NotGranted, Dies,
          RollsBack, Used
    <2>2. ASSUME NEW w \in Callers, Store(w)
          PROVE  row'.access > row.access /\ row'.refresh > row.refresh
      BY <1>1, <2>2 DEF Store, Newer
    <2>3. CASE (\E g \in Pairs : Arrive(g)) \/ Authorise \/ BeginSeed \/ SeedFails \/ Tick
      BY <2>3 DEF Arrive, Authorise, BeginSeed, SeedFails, Tick
    <2> QED
      BY <1>1, <2>1, <2>2, <2>3 DEF Next
  <1>2. Newer /\ [Next]_vars
          => [\/ UNCHANGED row \/ Seed
              \/ row'.access > row.access /\ row'.refresh > row.refresh]_vars
    BY <1>1
  <1>3. Inv /\ Newer /\ [Next]_vars => Newer'
    BY NewerNext
  <1> QED
    BY <1>2, <1>3, NewerInit, Invariance, PTL DEF Spec
=============================================================================
