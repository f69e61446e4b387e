------------------------ MODULE ReleaseSchedule_proofs ------------------------
(***************************************************************************)
(* ReleaseSchedule for every number of assets, series, slots, plans,        *)
(* requests and every length of day: types, series that stay in order        *)
(* however ticks, releases and edits interleave, slots that are not spent on *)
(* nothing, and one release a day as long as ticks do not overlap.          *)
(***************************************************************************)
EXTENDS ReleaseSchedule, TLAPS, FiniteSetTheorems

(* A local date counts from 1, so it is never mistaken for Never.           *)
LEMMA DateType == ASSUME NEW s \in Slot, NEW t \in Nat
                  PROVE  LocalDate(s, t) \in Nat /\ LocalDate(s, t) # Never
<1> DEFINE n == t + s.offset
<1>1. n \in Nat  BY DEF Slot
<1>2. DayLength \in Nat \ {0}  BY ConstantsOK
<1> HIDE DEF n
<1>3. n \div DayLength \in Int  BY <1>1, <1>2
<1>4. n \div DayLength >= 0  BY <1>1, <1>2
<1>5. LocalDate(s, t) = 1 + n \div DayLength  BY DEF LocalDate, LocalTime, n
<1> QED  BY <1>3, <1>4, <1>5 DEF Never
-----------------------------------------------------------------------------
(* Types.                                                                   *)

LEMMA NoRequestType == NoRequest \in Request
BY DEF NoRequest, Request

LEMMA ArmedType == ASSUME NEW plan \in Plans PROVE Armed(plan) \in [Slots -> Slot]
<1>1. plan \in [Slots -> [at : 0..DayLength - 1, offset : Nat, enabled : BOOLEAN]]
      BY ConstantsOK
<1>2. ASSUME NEW s \in Slots
      PROVE  [at |-> plan[s].at, offset |-> plan[s].offset,
              enabled |-> plan[s].enabled, last |-> Never] \in Slot
      BY <1>1 DEF Slot, Never
<1> QED  BY <1>2 DEF Armed

LEMMA StampedType == ASSUME TypeOK, NEW h \in Handlers PROVE Stamped(h) \in [Slots -> Slot]
<1>1. ASSUME NEW s \in Slots PROVE [slots[s] EXCEPT !.last = LocalDate(slots[s], req[h].at)] \in Slot
  <2>1. slots[s] \in Slot /\ req[h].at \in Nat  BY DEF TypeOK, Request
  <2>2. LocalDate(slots[s], req[h].at) \in Nat  BY <2>1, DateType
  <2> QED  BY <2>1, <2>2 DEF Slot
<1> QED  BY <1>1 DEF Stamped, TypeOK

LEMMA InitType == Init => TypeOK
<1> SUFFICES ASSUME Init PROVE TypeOK  OBVIOUS
<1>1. slots \in [Slots -> Slot]  BY ArmedType DEF Init
<1>2. req \in [Handlers -> Request]  BY NoRequestType DEF Init
<1>3. state \in [Assets -> AssetState]  BY DEF Init, AssetState
<1> QED  BY <1>1, <1>2, <1>3 DEF Init, TypeOK

(* An action that gives one request a new, well-typed and busy record, and   *)
(* writes nothing to the database.                                          *)
LEMMA RequestType ==
    ASSUME TypeOK, NEW h \in Handlers, NEW r \in Request, r.pc # "idle",
           req' = [req EXCEPT ![h] = r],
           UNCHANGED <<now, slots, edition, edits, state, turn, created, history>>
    PROVE  TypeOK'
BY DEF TypeOK, history

LEMMA TypeStep == TypeOK /\ [Next]_vars => TypeOK'
<1> SUFFICES ASSUME TypeOK, [Next]_vars PROVE TypeOK'  OBVIOUS
<1>1. CASE Clock  BY <1>1 DEF Clock, TypeOK, history
<1>2. ASSUME NEW a \in Assets, Queue(a) PROVE TypeOK'
      BY <1>2 DEF Queue, TypeOK, AssetState, history
<1>3. ASSUME NEW a \in Assets, Unschedule(a) PROVE TypeOK'
      BY <1>3 DEF Unschedule, TypeOK, AssetState, history
<1>4. ASSUME NEW plan \in Plans, ReplaceSlots(plan) PROVE TypeOK'
      BY <1>4, ArmedType DEF ReplaceSlots, TypeOK
<1>5. CASE RearmSlots
  <2>1. ASSUME NEW s \in Slots PROVE [slots[s] EXCEPT !.last = Never] \in Slot
        BY DEF TypeOK, Slot, Never
  <2> QED  BY <1>5, <2>1 DEF RearmSlots, TypeOK
<1>6. ASSUME NEW h \in Handlers, TickBegin(h) PROVE TypeOK'
  <2> DEFINE r == [NoRequest EXCEPT !.pc = "tick", !.at = now, !.edition = edition,
                                    !.asOf = turn, !.todo = {s \in Slots : IsDue(slots[s], now)}]
  <2>1. r \in Request /\ r.pc # "idle"  BY DEF TypeOK, NoRequest, Request
  <2>2. req' = [req EXCEPT ![h] = r]  BY <1>6 DEF TickBegin
  <2>3. UNCHANGED <<now, slots, edition, edits, state, turn, created, history>>
        BY <1>6 DEF TickBegin
  <2> QED  BY <2>1, <2>2, <2>3, RequestType
<1>7. ASSUME NEW h \in Handlers, NEW s \in Slots, TickSlot(h, s) PROVE TypeOK'
  <2> DEFINE left == Backlog \ req[h].taken
             r == [req[h] EXCEPT !.todo = @ \ {s}, !.locked = Written(h)]
             r1(a) == [r EXCEPT !.taken = @ \cup {a}, !.stamped = @ \cup {<<s, a>>}]
  <2>1. req[h] \in Request /\ req[h].pc = "tick"  BY <1>7 DEF TypeOK, TickSlot
  <2>2. Written(h) \subseteq Assets \cup Slots  BY <2>1 DEF Written, SlotsOf, Request
  <2>3. r \in Request /\ r.pc # "idle"  BY <2>1, <2>2 DEF Request
  <2>4. UNCHANGED <<now, slots, edition, edits, state, turn, created, history>>
        BY <1>7 DEF TickSlot
  <2>5. CASE req' = [req EXCEPT ![h] = r]
    <3> HIDE DEF r
    <3> QED  BY <2>3, <2>4, <2>5, RequestType
  <2>6. ASSUME NEW a \in left, req' = [req EXCEPT ![h] = r1(a)] PROVE TypeOK'
    <3>1. a \in Assets  BY DEF Backlog
    <3> HIDE DEF r
    <3>2. /\ r.taken \cup {a} \in SUBSET Assets
          /\ r.stamped \cup {<<s, a>>} \in SUBSET (Slots \X Assets)
          BY <2>3, <3>1 DEF Request
    <3>3. r1(a) \in Request /\ r1(a).pc # "idle"  BY <2>3, <3>2 DEF Request
    <3> HIDE DEF r1
    <3> QED  BY <3>3, <2>4, <2>6, RequestType
  <2> QED  BY <1>7, <2>5, <2>6 DEF TickSlot
<1>8. ASSUME NEW h \in Handlers, NEW a \in Assets, ReleaseRead(h, a) PROVE TypeOK'
  <2> DEFINE r == [NoRequest EXCEPT !.pc = "release", !.taken = {a}]
  <2>1. r \in Request /\ r.pc # "idle"  BY DEF NoRequest, Request
  <2>2. req' = [req EXCEPT ![h] = r]  BY <1>8 DEF ReleaseRead
  <2>3. UNCHANGED <<now, slots, edition, edits, state, turn, created, history>>
        BY <1>8 DEF ReleaseRead
  <2> QED  BY <2>1, <2>2, <2>3, RequestType
<1>9. ASSUME NEW h \in Handlers, Commit(h) PROVE TypeOK'
  <2>1. req' \in [Handlers -> Request]
        /\ \A g \in Handlers : req'[g].pc = "idle" => req'[g] = NoRequest
        BY <1>9, NoRequestType DEF Commit, Reply, TypeOK
  <2>2. UNCHANGED <<now, edition, edits, turn, created>>  BY <1>9 DEF Commit
  <2>3. CASE Intact(h)
    <3>1. state' \in [Assets -> AssetState]  BY <1>9, <2>3 DEF Commit, TypeOK, AssetState
    <3>2. slots' \in [Slots -> Slot]  BY <1>9, <2>3, StampedType DEF Commit
    <3>3. ASSUME NEW s \in Slots
          PROVE  {p[2] : p \in {q \in req[h].stamped : q[1] = s}} \subseteq Assets
          BY DEF TypeOK, Request
    <3>4. gone' \in [Slots -> SUBSET Assets]
          BY <1>9, <2>3, <3>3 DEF Commit, TypeOK
    <3>5. asOf' \in [Assets -> Nat]  BY <1>9, <2>3 DEF Commit, TypeOK, Request
    <3> QED  BY <2>1, <2>2, <3>1, <3>2, <3>4, <3>5 DEF TypeOK
  <2>4. CASE ~Intact(h)
        BY <1>9, <2>1, <2>2, <2>4 DEF Commit, TypeOK, history
  <2> QED  BY <2>3, <2>4
<1>10. CASE UNCHANGED vars  BY <1>10 DEF vars, history, TypeOK
<1> QED  BY <1>1, <1>2, <1>3, <1>4, <1>5, <1>6, <1>7, <1>8, <1>9, <1>10 DEF Next

(* The types of the schedule's rows and of what requests remember, and that  *)
(* a request that has replied holds nothing.                                *)
THEOREM TypeCorrect == Spec => []TypeOK
BY InitType, TypeStep, PTL DEF Spec
-----------------------------------------------------------------------------
(* Series stay in order.                                                    *)

\* What a request has in hand: only a tick stamps slots, each once, and each with
\* an asset it takes.
RequestOK(h) ==
    /\ req[h].pc # "tick" => req[h].stamped = {}
    /\ \A p \in req[h].stamped : p[2] \in req[h].taken /\ p[1] \notin req[h].todo
    /\ \A p, q \in req[h].stamped : p[1] = q[1] => p[2] = q[2]
    /\ req[h].asOf <= turn

\* What a tick has taken, it took in order: it took every earlier part that was
\* queued when it began and is queued still.
TakenInOrder(h) ==
    req[h].pc = "tick" =>
        \A b \in req[h].taken : \A a \in Assets :
            /\ SameSeries(a, b) /\ IndexOf[a] < IndexOf[b]
            /\ state[a] = "scheduled"
            /\ created[a] <= req[h].asOf
            => a \in req[h].taken

AsOfOK == \A a \in Assets : asOf[a] <= turn /\ (asOf[a] > 0 => state[a] = "released")

OrderInv ==
    /\ TypeOK
    /\ AsOfOK
    /\ \A h \in Handlers : RequestOK(h) /\ TakenInOrder(h)
    /\ SeriesInOrder
-----------------------------------------------------------------------------
(* One release a day.                                                       *)

\* The slots a tick handles, if they are still those it read, have not fired on the
\* day of the tick.
Unfired(h) ==
    req[h].pc = "tick" =>
        /\ req[h].edition <= edition
        /\ req[h].edition = edition =>
            \A s \in req[h].todo \cup SlotsOf(h) :
                slots[s].last # LocalDate(slots[s], req[h].at)

DayInv == OrderInv /\ (\A h \in Handlers : Unfired(h)) /\ OncePerDay
-----------------------------------------------------------------------------
LEMMA InitInv == Init => DayInv
<1> SUFFICES ASSUME Init PROVE DayInv  OBVIOUS
<1>1. TypeOK  BY InitType
<1>2. AsOfOK /\ SeriesInOrder /\ OncePerDay
      BY DEF Init, AsOfOK, SeriesInOrder, OncePerDay
<1>3. ASSUME NEW h \in Handlers PROVE RequestOK(h) /\ TakenInOrder(h) /\ Unfired(h)
      BY DEF Init, NoRequest, RequestOK, TakenInOrder, Unfired
<1> QED  BY <1>1, <1>2, <1>3 DEF DayInv, OrderInv

(* The parts of one series are one unit, so neither of two is Older: they go *)
(* by their numbers.                                                        *)
LEMMA HeadOfSeries ==
    ASSUME NEW B \in SUBSET Assets, NEW by \in [Assets -> Nat], NEW a \in B, NEW b \in B,
           IsHead(B, by, b), SameSeries(a, b), a # b
    PROVE  IndexOf[b] < IndexOf[a]
<1>1. Before(B, by, b, a)  BY DEF IsHead
<1>2. Unit(B, a) = Unit(B, b)  BY DEF Unit, SameSeries
<1>3. ~Older(B, by, b, a)
  <2>1. \A x \in Unit(B, b) : x \in Unit(B, a) /\ x \in Assets  BY <1>2 DEF Unit
  <2> QED  BY <2>1 DEF Older
<1> QED  BY <1>1, <1>3 DEF Before

(* A request's own part of the invariant is kept by a step that leaves it    *)
(* alone, and in which no asset is queued in the past.                      *)
LEMMA Untouched ==
    ASSUME OrderInv, TypeOK', NEW h \in Handlers, req'[h] = req[h], turn <= turn',
           \A a \in Assets : state'[a] = "scheduled" =>
               \/ state[a] = "scheduled" /\ created'[a] = created[a]
               \/ created'[a] > turn
    PROVE  RequestOK(h)' /\ TakenInOrder(h)'
<1>1. RequestOK(h) /\ TakenInOrder(h) /\ TypeOK  BY DEF OrderInv
<1>2. req[h].asOf \in Nat /\ turn \in Nat /\ turn' \in Nat
      BY <1>1 DEF TypeOK, Request
<1>3. RequestOK(h)'  BY <1>1, <1>2 DEF RequestOK
<1>4. TakenInOrder(h)'
  <2> SUFFICES ASSUME req[h].pc = "tick", NEW b \in req[h].taken, NEW a \in Assets,
                      SameSeries(a, b), IndexOf[a] < IndexOf[b],
                      state'[a] = "scheduled", created'[a] <= req[h].asOf
               PROVE  a \in req[h].taken
      BY DEF TakenInOrder
  <2>1. created'[a] \in Nat  BY DEF TypeOK
  <2>2. created'[a] <= turn  BY <1>1, <1>2, <2>1 DEF RequestOK
  <2>3. state[a] = "scheduled" /\ created'[a] = created[a]  BY <1>2, <2>1, <2>2
  <2> QED  BY <1>1, <2>3 DEF TakenInOrder
<1> QED  BY <1>3, <1>4

LEMMA OrderStep == OrderInv /\ [Next]_vars => OrderInv'
<1> SUFFICES ASSUME OrderInv, [Next]_vars PROVE OrderInv'  OBVIOUS
<1>0. TypeOK /\ TypeOK'  BY TypeStep DEF OrderInv
<1>1. AsOfOK /\ SeriesInOrder /\ \A h \in Handlers : RequestOK(h) /\ TakenInOrder(h)
      BY DEF OrderInv
<1>t. turn \in Nat /\ turn' \in Nat  BY <1>0 DEF TypeOK
(* Steps that change neither the assets nor the history. *)
<1>a. ASSUME UNCHANGED <<state, turn, created, asOf>>
      PROVE  AsOfOK' /\ SeriesInOrder'
      BY <1>a, <1>1 DEF AsOfOK, SeriesInOrder
<1>b. ASSUME UNCHANGED <<state, turn, created, asOf, req>> PROVE OrderInv'
  <2>1. ASSUME NEW h \in Handlers PROVE RequestOK(h)' /\ TakenInOrder(h)'
        BY <1>b, <1>0, <1>t, Untouched
  <2> QED  BY <1>0, <1>a, <1>b, <2>1 DEF OrderInv
<1>c. ASSUME UNCHANGED <<state, turn, created, asOf>>, NEW h \in Handlers, NEW r,
             req' = [req EXCEPT ![h] = r], RequestOK(h)', TakenInOrder(h)'
      PROVE  OrderInv'
  <2>1. ASSUME NEW g \in Handlers, g # h PROVE RequestOK(g)' /\ TakenInOrder(g)'
    <3>1. req'[g] = req[g]  BY <1>c, <1>0, <2>1 DEF TypeOK
    <3> QED  BY <1>c, <1>0, <1>t, <3>1, Untouched
  <2> QED  BY <1>0, <1>a, <1>c, <2>1 DEF OrderInv
<1>2. CASE Clock  BY <1>2, <1>b DEF Clock, history
<1>3. ASSUME NEW a \in Assets, Queue(a) PROVE OrderInv'
  <2>1. /\ state' = [state EXCEPT ![a] = "scheduled"] /\ state[a] = "none"
        /\ turn' = turn + 1 /\ created' = [created EXCEPT ![a] = turn + 1]
        /\ req' = req /\ asOf' = asOf
        BY <1>3 DEF Queue, history
  <2>2. \A b \in Assets : state'[b] = "scheduled" =>
            \/ state[b] = "scheduled" /\ created'[b] = created[b]
            \/ created'[b] > turn
        BY <1>0, <1>t, <2>1 DEF TypeOK
  <2>3. ASSUME NEW h \in Handlers PROVE RequestOK(h)' /\ TakenInOrder(h)'
        BY <1>0, <1>t, <2>1, <2>2, Untouched
  <2>4. AsOfOK'
    <3>1. \A b \in Assets : asOf[b] \in Nat  BY <1>0 DEF TypeOK
    <3> QED  BY <1>0, <1>1, <1>t, <2>1, <3>1 DEF AsOfOK, TypeOK
  <2>5. SeriesInOrder'
    <3> SUFFICES ASSUME NEW c \in Assets, NEW b \in Assets,
                        SameSeries(c, b), IndexOf[c] < IndexOf[b],
                        state'[b] = "released", asOf[b] > 0, state'[c] = "scheduled"
                 PROVE  created'[c] > asOf[b]
        BY <2>1 DEF SeriesInOrder
    <3>1. state[b] = "released"  BY <1>0, <2>1 DEF TypeOK
    <3>2. asOf[b] \in Nat /\ asOf[b] <= turn /\ created[c] \in Nat
          BY <1>0, <1>1 DEF TypeOK, AsOfOK
    <3>3. CASE c = a  BY <1>0, <1>t, <2>1, <3>2, <3>3 DEF TypeOK
    <3>4. CASE c # a
      <4>1. state[c] = "scheduled" /\ created'[c] = created[c]
            BY <1>0, <2>1, <3>4 DEF TypeOK
      <4> QED  BY <1>1, <3>1, <4>1 DEF SeriesInOrder
    <3> QED  BY <3>3, <3>4
  <2> QED  BY <1>0, <2>3, <2>4, <2>5 DEF OrderInv
<1>4. ASSUME NEW a \in Assets, Unschedule(a) PROVE OrderInv'
  <2>1. /\ state' = [state EXCEPT ![a] = "dropped"] /\ state[a] = "scheduled"
        /\ turn' = turn /\ created' = created /\ req' = req /\ asOf' = asOf
        BY <1>4 DEF Unschedule, history
  <2>2. \A b \in Assets : /\ state'[b] = "scheduled" => state[b] = "scheduled"
                          /\ state'[b] = "released" <=> state[b] = "released"
        BY <1>0, <2>1 DEF TypeOK
  <2>3. ASSUME NEW h \in Handlers PROVE RequestOK(h)' /\ TakenInOrder(h)'
        BY <1>0, <1>t, <2>1, <2>2, Untouched
  <2>4. AsOfOK'  BY <1>1, <2>1, <2>2 DEF AsOfOK
  <2>5. SeriesInOrder'  BY <1>1, <2>1, <2>2 DEF SeriesInOrder
  <2> QED  BY <1>0, <2>3, <2>4, <2>5 DEF OrderInv
<1>5. ASSUME NEW plan \in Plans, ReplaceSlots(plan) PROVE OrderInv'
      BY <1>5, <1>b DEF ReplaceSlots
<1>6. CASE RearmSlots  BY <1>6, <1>b DEF RearmSlots
<1>7. ASSUME NEW h \in Handlers, TickBegin(h) PROVE OrderInv'
  <2> DEFINE r == [NoRequest EXCEPT !.pc = "tick", !.at = now, !.edition = edition,
                                    !.asOf = turn, !.todo = {s \in Slots : IsDue(slots[s], now)}]
  <2>1. req' = [req EXCEPT ![h] = r]
        /\ UNCHANGED <<state, turn, created, asOf>>
        BY <1>7 DEF TickBegin, history
  <2>2. req'[h] = r  BY <1>0, <2>1 DEF TypeOK
  <2>r. r.pc = "tick" /\ r.stamped = {} /\ r.asOf = turn  BY DEF NoRequest
  <2>4. TakenInOrder(h)'  BY <2>2 DEF TakenInOrder, NoRequest
  <2> HIDE DEF r
  <2>3. RequestOK(h)'  BY <1>t, <2>1, <2>2, <2>r DEF RequestOK
  <2> QED  BY <1>c, <2>1, <2>3, <2>4
<1>8. ASSUME NEW h \in Handlers, NEW s \in Slots, TickSlot(h, s) PROVE OrderInv'
  <2> DEFINE left == Backlog \ req[h].taken
             r == [req[h] EXCEPT !.todo = @ \ {s}, !.locked = Written(h)]
             r1(a) == [r EXCEPT !.taken = @ \cup {a}, !.stamped = @ \cup {<<s, a>>}]
  <2>1. req[h] \in Request /\ req[h].pc = "tick" /\ s \in req[h].todo
        /\ UNCHANGED <<state, turn, created, asOf>>
        BY <1>0, <1>8 DEF TypeOK, TickSlot, history
  <2>2. RequestOK(h) /\ TakenInOrder(h)  BY <1>1
  <2>r. /\ r.pc = "tick" /\ r.asOf = req[h].asOf /\ r.taken = req[h].taken
        /\ r.stamped = req[h].stamped /\ r.todo = req[h].todo \ {s}
        BY <2>1 DEF Request
  <2>w. Written(h) \subseteq Assets \cup Slots  BY <2>1 DEF Written, SlotsOf, Request
  <2>t. r \in Request  BY <2>1, <2>w DEF Request
  <2>3. CASE req' = [req EXCEPT ![h] = r]
    <3>1. req'[h] = r  BY <1>0, <2>3 DEF TypeOK
    <3> HIDE DEF r
    <3>2. RequestOK(h)'  BY <2>1, <2>2, <2>r, <3>1 DEF RequestOK
    <3>3. TakenInOrder(h)'  BY <2>1, <2>2, <2>r, <3>1 DEF TakenInOrder
    <3> QED  BY <1>c, <2>1, <2>3, <3>2, <3>3
  <2>4. ASSUME NEW a \in left, IsHead(left, created, a), req' = [req EXCEPT ![h] = r1(a)]
        PROVE  OrderInv'
    <3>1. req'[h] = r1(a)  BY <1>0, <2>4 DEF TypeOK
    <3>2. a \in Assets /\ a \notin req[h].taken  BY DEF Backlog
    <3> HIDE DEF r
    <3>r. /\ r1(a).pc = "tick" /\ r1(a).asOf = req[h].asOf
          /\ r1(a).taken = req[h].taken \cup {a}
          /\ r1(a).stamped = req[h].stamped \cup {<<s, a>>}
          /\ r1(a).todo = req[h].todo \ {s}
          BY <2>r, <2>t DEF Request
    <3> HIDE DEF r1
    <3>3. RequestOK(h)'
      <4>1. \A p \in req[h].stamped :
                p[1] # s /\ p[2] \in req[h].taken /\ p[1] \notin req[h].todo
            BY <2>1, <2>2 DEF RequestOK
      <4>2. <<s, a>>[1] = s /\ <<s, a>>[2] = a  OBVIOUS
      <4>3. \A p \in r1(a).stamped : p[2] \in r1(a).taken /\ p[1] \notin r1(a).todo
            BY <3>r, <4>1, <4>2
      <4>4. \A p, q \in r1(a).stamped : p[1] = q[1] => p[2] = q[2]
            BY <2>2, <3>r, <4>1, <4>2 DEF RequestOK
      <4> QED  BY <2>1, <2>2, <3>1, <3>r, <4>3, <4>4 DEF RequestOK
    <3>4. TakenInOrder(h)'
      <4> SUFFICES ASSUME NEW b \in req[h].taken \cup {a}, NEW c \in Assets,
                          SameSeries(c, b), IndexOf[c] < IndexOf[b],
                          state[c] = "scheduled", created[c] <= req[h].asOf,
                          c \notin req[h].taken
                   PROVE  c = a
          BY <2>1, <3>1, <3>r DEF TakenInOrder
      <4>1. CASE b \in req[h].taken  BY <2>1, <2>2, <4>1 DEF TakenInOrder
      <4>2. CASE b = a /\ c # a
        <5>1. c \in left /\ left \in SUBSET Assets  BY DEF Backlog
        <5>2. created \in [Assets -> Nat]  BY <1>0 DEF TypeOK
        <5>3. IndexOf[a] < IndexOf[c]  BY <2>4, <4>2, <5>1, <5>2, HeadOfSeries
        <5> QED  BY <3>2, <4>2, <5>3, OrderConstantsOK
      <4> QED  BY <4>1, <4>2
    <3> QED  BY <1>c, <2>1, <2>4, <3>3, <3>4
  <2> QED  BY <1>8, <2>3, <2>4 DEF TickSlot
<1>9. ASSUME NEW h \in Handlers, NEW a \in Assets, ReleaseRead(h, a) PROVE OrderInv'
  <2> DEFINE r == [NoRequest EXCEPT !.pc = "release", !.taken = {a}]
  <2>1. req' = [req EXCEPT ![h] = r] /\ UNCHANGED <<state, turn, created, asOf>>
        BY <1>9 DEF ReleaseRead, history
  <2>2. req'[h] = r  BY <1>0, <2>1 DEF TypeOK
  <2>r. r.pc = "release" /\ r.stamped = {} /\ r.asOf = 0  BY DEF NoRequest
  <2>4. TakenInOrder(h)'  BY <2>2 DEF TakenInOrder, NoRequest
  <2> HIDE DEF r
  <2>3. RequestOK(h)'  BY <1>t, <2>1, <2>2, <2>r DEF RequestOK
  <2> QED  BY <1>c, <2>1, <2>3, <2>4
<1>10. ASSUME NEW h \in Handlers, Commit(h) PROVE OrderInv'
  <2>1. req' = [req EXCEPT ![h] = NoRequest] /\ UNCHANGED <<turn, created>>
        BY <1>10 DEF Commit, Reply
  <2>2. req'[h] = NoRequest  BY <1>0, <2>1 DEF TypeOK
  <2>3. RequestOK(h)' /\ TakenInOrder(h)'
        BY <1>t, <2>1, <2>2 DEF RequestOK, TakenInOrder, NoRequest
  <2>4. CASE ~Intact(h)
        BY <1>10, <2>1, <2>3, <2>4, <1>c DEF Commit, history
  <2>5. CASE Intact(h)
    <3>1. /\ state' = [a \in Assets |-> IF a \in req[h].taken THEN "released" ELSE state[a]]
          /\ asOf' = [a \in Assets |-> IF a \in req[h].taken /\ req[h].pc = "tick"
                                       THEN req[h].asOf ELSE asOf[a]]
          BY <1>10, <2>5 DEF Commit
    <3>2. req[h] \in Request /\ RequestOK(h) /\ TakenInOrder(h)
          BY <1>0, <1>1 DEF TypeOK
    <3>3. ASSUME NEW g \in Handlers PROVE RequestOK(g)' /\ TakenInOrder(g)'
      <4>1. CASE g = h  BY <2>3, <4>1
      <4>2. CASE g # h
        <5>1. req'[g] = req[g]  BY <1>0, <2>1, <4>2 DEF TypeOK
        <5> QED  BY <1>0, <1>t, <2>1, <3>1, <5>1, Untouched
      <4> QED  BY <4>1, <4>2
    <3>4. AsOfOK'
      <4>1. req[h].asOf <= turn  BY <3>2 DEF RequestOK
      <4> QED  BY <1>1, <2>1, <3>1, <4>1 DEF AsOfOK
    <3>5. SeriesInOrder'
      <4> SUFFICES ASSUME NEW c \in Assets, NEW b \in Assets,
                          SameSeries(c, b), IndexOf[c] < IndexOf[b],
                          state'[b] = "released", asOf'[b] > 0, state'[c] = "scheduled"
                   PROVE  created[c] > asOf'[b]
          BY <2>1 DEF SeriesInOrder
      <4>1. state[c] = "scheduled" /\ c \notin req[h].taken  BY <3>1
      <4>2. created[c] \in Nat /\ asOf[b] \in Nat /\ req[h].asOf \in Nat
            BY <1>0, <3>2 DEF TypeOK, Request
      <4>3. CASE b \in req[h].taken /\ req[h].pc = "tick"
        <5>1. asOf'[b] = req[h].asOf  BY <3>1, <4>3
        <5>2. ~(created[c] <= req[h].asOf)  BY <3>2, <4>1, <4>3 DEF TakenInOrder
        <5> QED  BY <4>2, <5>1, <5>2
      <4>4. CASE ~(b \in req[h].taken /\ req[h].pc = "tick")
        <5>1. asOf'[b] = asOf[b]  BY <3>1, <4>4
        <5>2. state[b] = "released"  BY <1>1, <5>1 DEF AsOfOK
        <5> QED  BY <1>1, <4>1, <5>1, <5>2 DEF SeriesInOrder
      <4> QED  BY <4>3, <4>4
    <3> QED  BY <1>0, <3>3, <3>4, <3>5 DEF OrderInv
  <2> QED  BY <2>4, <2>5
<1>11. CASE UNCHANGED vars  BY <1>11, <1>b DEF vars, history
<1> QED  BY <1>2, <1>3, <1>4, <1>5, <1>6, <1>7, <1>8, <1>9, <1>10, <1>11 DEF Next

(* A series goes out in order by the ticks, whatever is queued, dropped,     *)
(* released and edited while they run, and however many run at a time.      *)
THEOREM SeriesStaysInOrder == Spec => []SeriesInOrder
<1>1. Init => OrderInv  BY InitInv DEF DayInv
<1>2. OrderInv => SeriesInOrder  BY DEF OrderInv
<1> QED  BY <1>1, <1>2, OrderStep, PTL DEF Spec
-----------------------------------------------------------------------------
LEMMA DayStep == DayInv /\ TicksApart /\ [Next]_vars => DayInv'
<1> SUFFICES ASSUME DayInv, TicksApart, [Next]_vars PROVE DayInv'  OBVIOUS
<1>0. TypeOK /\ OrderInv /\ OrderInv' /\ TypeOK'  BY OrderStep DEF DayInv, OrderInv
<1>1. OncePerDay /\ \A h \in Handlers : Unfired(h) /\ RequestOK(h)
      BY <1>0 DEF DayInv, OrderInv
<1>e. edition \in Nat /\ edition' \in Nat  BY <1>0 DEF TypeOK
<1>a. ASSUME UNCHANGED <<slots, edition, gone, req>> PROVE DayInv'
  <2>1. OncePerDay'  BY <1>1, <1>a DEF OncePerDay
  <2>2. ASSUME NEW h \in Handlers PROVE Unfired(h)'
        BY <1>1, <1>a DEF Unfired, SlotsOf, LocalDate, LocalTime
  <2> QED  BY <1>0, <2>1, <2>2 DEF DayInv
<1>b. ASSUME UNCHANGED <<slots, edition, gone>>, NEW h \in Handlers, NEW r,
             req' = [req EXCEPT ![h] = r], Unfired(h)'
      PROVE  DayInv'
  <2>1. OncePerDay'  BY <1>1, <1>b DEF OncePerDay
  <2>2. ASSUME NEW g \in Handlers, g # h PROVE Unfired(g)'
    <3>1. req'[g] = req[g]  BY <1>b, <1>0, <2>2 DEF TypeOK
    <3> QED  BY <1>1, <1>b, <3>1 DEF Unfired, SlotsOf, LocalDate, LocalTime
  <2> QED  BY <1>0, <1>b, <2>1, <2>2 DEF DayInv
<1>2. CASE Clock  BY <1>2, <1>a DEF Clock, history
<1>3. ASSUME NEW a \in Assets, Queue(a) PROVE DayInv'
      BY <1>3, <1>a DEF Queue, history
<1>4. ASSUME NEW a \in Assets, Unschedule(a) PROVE DayInv'
      BY <1>4, <1>a DEF Unschedule, history
<1>5. ASSUME NEW plan \in Plans, ReplaceSlots(plan) PROVE DayInv'
  <2>1. edition' = edition + 1 /\ req' = req /\ gone' = [s \in Slots |-> {}]
        BY <1>5 DEF ReplaceSlots
  <2>2. OncePerDay'  BY <2>1 DEF OncePerDay
  <2>3. ASSUME NEW h \in Handlers, req[h].pc = "tick" PROVE Unfired(h)'
    <3>1. req[h].edition \in Nat /\ req[h].edition <= edition
          BY <1>0, <1>1, <2>3 DEF TypeOK, Request, Unfired
    <3> QED  BY <1>e, <2>1, <3>1 DEF Unfired
  <2>4. ASSUME NEW h \in Handlers PROVE Unfired(h)'  BY <2>1, <2>3 DEF Unfired
  <2> QED  BY <1>0, <2>2, <2>4 DEF DayInv
<1>6. CASE RearmSlots
  <2>1. /\ slots' = [s \in Slots |-> [slots[s] EXCEPT !.last = Never]]
        /\ edition' = edition /\ req' = req /\ gone' = [s \in Slots |-> {}]
        BY <1>6 DEF RearmSlots
  <2>2. OncePerDay'  BY <2>1 DEF OncePerDay
  <2>3. ASSUME NEW h \in Handlers, NEW s \in Slots
        PROVE  slots'[s].last # LocalDate(slots'[s], req[h].at)
    <3>1. slots'[s] \in Slot /\ req[h].at \in Nat  BY <1>0 DEF TypeOK, Request
    <3>2. slots'[s].last = Never  BY <1>0, <2>1 DEF TypeOK, Slot
    <3> QED  BY <3>1, <3>2, DateType
  <2>4. ASSUME NEW h \in Handlers PROVE req[h].todo \cup SlotsOf(h) \subseteq Slots
        BY <1>0 DEF TypeOK, Request, SlotsOf
  <2>5. ASSUME NEW h \in Handlers PROVE Unfired(h)'
        BY <1>1, <2>1, <2>3, <2>4 DEF Unfired, SlotsOf
  <2> QED  BY <1>0, <2>2, <2>5 DEF DayInv
<1>7. ASSUME NEW h \in Handlers, TickBegin(h) PROVE DayInv'
  <2> DEFINE r == [NoRequest EXCEPT !.pc = "tick", !.at = now, !.edition = edition,
                                    !.asOf = turn, !.todo = {s \in Slots : IsDue(slots[s], now)}]
  <2>1. req' = [req EXCEPT ![h] = r] /\ UNCHANGED <<slots, edition, gone>>
        BY <1>7 DEF TickBegin, history
  <2>2. req'[h] = r  BY <1>0, <2>1 DEF TypeOK
  <2>3. /\ r.at = now /\ r.edition = edition /\ r.stamped = {}
        /\ r.todo = {s \in Slots : IsDue(slots[s], now)}
        BY DEF NoRequest
  <2> HIDE DEF r
  <2>4. ASSUME NEW s \in r.todo PROVE slots[s].last # LocalDate(slots[s], now)
        BY <2>3 DEF IsDue
  <2>5. SlotsOf(h)' = {}  BY <2>2, <2>3 DEF SlotsOf
  <2>6. Unfired(h)'  BY <1>e, <2>1, <2>2, <2>3, <2>4, <2>5 DEF Unfired, LocalDate, LocalTime
  <2> QED  BY <1>b, <2>1, <2>6
<1>8. ASSUME NEW h \in Handlers, NEW s \in Slots, TickSlot(h, s) PROVE DayInv'
  <2> DEFINE left == Backlog \ req[h].taken
             r == [req[h] EXCEPT !.todo = @ \ {s}, !.locked = Written(h)]
             r1(a) == [r EXCEPT !.taken = @ \cup {a}, !.stamped = @ \cup {<<s, a>>}]
  <2>1. /\ req[h] \in Request /\ req[h].pc = "tick" /\ s \in req[h].todo
        /\ UNCHANGED <<slots, edition, gone>>
        BY <1>0, <1>8 DEF TypeOK, TickSlot, history
  <2>r. /\ r.pc = "tick" /\ r.at = req[h].at /\ r.edition = req[h].edition
        /\ r.stamped = req[h].stamped /\ r.todo = req[h].todo \ {s}
        BY <2>1 DEF Request
  <2>w. Written(h) \subseteq Assets \cup Slots  BY <2>1 DEF Written, SlotsOf, Request
  <2>t. r \in Request  BY <2>1, <2>w DEF Request
  (* The slot only moves from those to do to those stamped. *)
  <2>2. ASSUME NEW q, req' = [req EXCEPT ![h] = q],
               q.at = req[h].at, q.edition = req[h].edition, q.todo = req[h].todo \ {s},
               q.stamped = req[h].stamped \/ \E a : q.stamped = req[h].stamped \cup {<<s, a>>}
        PROVE  DayInv'
    <3>1. req'[h] = q  BY <1>0, <2>2 DEF TypeOK
    <3>2. \A a : <<s, a>>[1] = s  OBVIOUS
    <3>3. SlotsOf(h)' \subseteq SlotsOf(h) \cup {s}  BY <2>2, <3>1, <3>2 DEF SlotsOf
    <3>4. (req[h].todo \ {s}) \cup SlotsOf(h)' \subseteq req[h].todo \cup SlotsOf(h)
          BY <2>1, <3>3
    <3>5. Unfired(h)'
          BY <1>1, <2>1, <2>2, <3>1, <3>4 DEF Unfired, LocalDate, LocalTime
    <3> QED  BY <1>b, <2>1, <2>2, <3>5
  <2>3. CASE req' = [req EXCEPT ![h] = r]
    <3> HIDE DEF r
    <3> QED  BY <2>2, <2>3, <2>r
  <2>4. ASSUME NEW a \in left, req' = [req EXCEPT ![h] = r1(a)] PROVE DayInv'
    <3> HIDE DEF r
    <3>1. /\ r1(a).at = req[h].at /\ r1(a).edition = req[h].edition
          /\ r1(a).todo = req[h].todo \ {s}
          /\ r1(a).stamped = req[h].stamped \cup {<<s, a>>}
          BY <2>r, <2>t DEF Request
    <3> HIDE DEF r1
    <3> QED  BY <2>2, <2>4, <3>1
  <2> QED  BY <1>8, <2>3, <2>4 DEF TickSlot
<1>9. ASSUME NEW h \in Handlers, NEW a \in Assets, ReleaseRead(h, a) PROVE DayInv'
  <2> DEFINE r == [NoRequest EXCEPT !.pc = "release", !.taken = {a}]
  <2>1. req' = [req EXCEPT ![h] = r] /\ UNCHANGED <<slots, edition, gone>>
        BY <1>9 DEF ReleaseRead, history
  <2>2. req'[h] = r  BY <1>0, <2>1 DEF TypeOK
  <2>3. r.pc = "release"  BY DEF NoRequest
  <2> HIDE DEF r
  <2>4. Unfired(h)'  BY <2>2, <2>3 DEF Unfired
  <2> QED  BY <1>b, <2>1, <2>4
<1>10. ASSUME NEW h \in Handlers, Commit(h) PROVE DayInv'
  <2>1. req' = [req EXCEPT ![h] = NoRequest] /\ edition' = edition
        BY <1>10 DEF Commit, Reply
  <2>2. req'[h] = NoRequest  BY <1>0, <2>1 DEF TypeOK
  <2>3. Unfired(h)'  BY <2>2 DEF Unfired, NoRequest
  <2>4. CASE ~Intact(h)
        BY <1>10, <2>1, <2>3, <2>4, <1>b DEF Commit, history
  <2>5. CASE Intact(h)
    <3> DEFINE date(s) == LocalDate(slots[s], req[h].at)
    <3>1. /\ slots' = Stamped(h)
          /\ gone' = [s \in Slots |->
                         {p[2] : p \in {q \in req[h].stamped : q[1] = s}}
                         \cup IF slots[s].last = Stamped(h)[s].last THEN gone[s] ELSE {}]
          BY <1>10, <2>5 DEF Commit
    <3>2. RequestOK(h) /\ Unfired(h) /\ req[h] \in Request
          BY <1>0, <1>1 DEF TypeOK
    <3>3. ASSUME NEW s \in Slots, s \notin SlotsOf(h)
          PROVE  slots'[s] = slots[s] /\ gone'[s] = gone[s]
      <4>1. Stamped(h)[s] = slots[s]  BY <3>3 DEF Stamped
      <4>2. {p[2] : p \in {q \in req[h].stamped : q[1] = s}} = {}  BY <3>3 DEF SlotsOf
      <4> QED  BY <3>1, <4>1, <4>2
    <3>4. ASSUME NEW s \in SlotsOf(h)
          PROVE  gone'[s] = {p[2] : p \in {q \in req[h].stamped : q[1] = s}}
      <4>1. s \in Slots /\ req[h].pc = "tick"
            BY <3>2 DEF SlotsOf, RequestOK, Request
      <4>2. req[h].edition = edition  BY <2>5 DEF Intact, SlotsOf
      <4>3. slots[s].last # date(s)  BY <3>2, <4>1, <4>2 DEF Unfired
      <4>4. slots[s] \in Slot  BY <1>0, <4>1 DEF TypeOK
      <4>5. Stamped(h)[s].last = date(s)  BY <4>1, <4>4 DEF Stamped, Slot
      <4> QED  BY <3>1, <4>1, <4>3, <4>5
    <3>5. OncePerDay'
      <4> SUFFICES ASSUME NEW s \in Slots, NEW a \in gone'[s], NEW b \in gone'[s] PROVE a = b
          BY DEF OncePerDay
      <4>1. CASE s \in SlotsOf(h)
        <5>1. PICK p \in req[h].stamped, q \in req[h].stamped :
                  p[1] = s /\ q[1] = s /\ p[2] = a /\ q[2] = b
              BY <3>4, <4>1
        <5> QED  BY <3>2, <5>1 DEF RequestOK
      <4>2. CASE s \notin SlotsOf(h)  BY <1>1, <3>3, <4>2 DEF OncePerDay
      <4> QED  BY <4>1, <4>2
    (* Only one request is in a tick. *)
    <3>6. ASSUME NEW g \in Handlers, g # h, req[g].pc = "tick" PROVE Unfired(g)'
      <4>1. req'[g] = req[g]  BY <1>0, <2>1, <3>6 DEF TypeOK
      <4>2. req[h].pc # "tick"  BY <3>6 DEF TicksApart
      <4>3. SlotsOf(h) = {}  BY <3>2, <4>2 DEF RequestOK, SlotsOf
      <4>4. \A s \in Slots : slots'[s] = slots[s]  BY <3>3, <4>3
      <4>5. slots' = slots  BY <1>0, <4>4 DEF TypeOK
      <4> QED  BY <1>1, <2>1, <4>1, <4>5 DEF Unfired, SlotsOf, LocalDate, LocalTime
    <3>7. ASSUME NEW g \in Handlers PROVE Unfired(g)'
      <4>1. CASE g = h  BY <2>3, <4>1
      <4>2. CASE g # h
        <5>1. req'[g] = req[g]  BY <1>0, <2>1, <4>2 DEF TypeOK
        <5> QED  BY <3>6, <4>2, <5>1 DEF Unfired
      <4> QED  BY <4>1, <4>2
    <3> QED  BY <1>0, <3>5, <3>7 DEF DayInv
  <2> QED  BY <2>4, <2>5
<1>11. CASE UNCHANGED vars  BY <1>11, <1>a DEF vars, history
<1> QED  BY <1>2, <1>3, <1>4, <1>5, <1>6, <1>7, <1>8, <1>9, <1>10, <1>11 DEF Next

(* If ticks do not overlap, a slot releases at most one asset on its local   *)
(* day, wherever its midnight falls and however the slots are edited.        *)
THEOREM SlotsFireOncePerDay == Spec /\ []TicksApart => []OncePerDay
<1>1. Init => DayInv  BY InitInv
<1>2. DayInv => OncePerDay  BY DEF DayInv
<1>3. DayInv /\ TicksApart /\ [Next]_vars => DayInv'  BY DayStep
<1> QED  BY <1>1, <1>2, <1>3, PTL DEF Spec

(* The specification the run checks is the schedule under that assumption.   *)
THEOREM ApartTicks == ApartSpec => Spec /\ []TicksApart
<1>1. Init => TicksApart  BY DEF Init, NoRequest, TicksApart
<1>2. TicksApart /\ [Next /\ TicksApart']_vars => TicksApart'  BY DEF vars, TicksApart
<1> QED  BY <1>1, <1>2, PTL DEF ApartSpec, Spec
-----------------------------------------------------------------------------
(* A slot is spent only on an asset that is released by the same step.       *)
THEOREM SlotsAreNotWasted == Spec => SlotNotWasted
<1> DEFINE A == \A s \in Slots :
                    slots'[s].last \notin {slots[s].last, Never}
                    => \E a \in gone'[s] : state'[a] = "released"
<1>1. Init => OrderInv  BY InitInv DEF DayInv
<1>2. ASSUME OrderInv, [Next]_vars PROVE [A]_vars
  <2>0. TypeOK  BY <1>2 DEF OrderInv
  <2>1. CASE UNCHANGED slots  BY <2>1
  <2>2. ASSUME NEW plan \in Plans, ReplaceSlots(plan) PROVE A
    <3>1. ASSUME NEW s \in Slots PROVE slots'[s].last = Never
          BY <2>2 DEF ReplaceSlots, Armed
    <3> QED  BY <3>1
  <2>3. CASE RearmSlots
    <3>1. ASSUME NEW s \in Slots PROVE slots'[s].last = Never
          BY <2>0, <2>3 DEF RearmSlots, TypeOK, Slot
    <3> QED  BY <3>1
  <2>4. ASSUME NEW h \in Handlers, Commit(h), Intact(h) PROVE A
    <3> SUFFICES ASSUME NEW s \in Slots, slots'[s].last # slots[s].last
                 PROVE  \E a \in gone'[s] : state'[a] = "released"
        OBVIOUS
    <3>1. s \in SlotsOf(h)  BY <2>4 DEF Commit, Stamped
    <3>2. PICK p \in req[h].stamped : p[1] = s  BY <3>1 DEF SlotsOf
    <3>3. p[2] \in req[h].taken  BY <1>2 DEF OrderInv, RequestOK
    <3>4. p[2] \in Assets  BY <2>0, <3>3 DEF TypeOK, Request
    <3>5. state'[p[2]] = "released"  BY <2>4, <3>3, <3>4 DEF Commit
    <3>6. p[2] \in gone'[s]  BY <2>4, <3>2 DEF Commit
    <3> QED  BY <3>5, <3>6
  <2> QED
      BY <1>2, <2>1, <2>2, <2>3, <2>4
      DEF Next, Clock, Queue, Unschedule, TickBegin, TickSlot, ReleaseRead, Commit, vars
<1> QED  BY <1>1, <1>2, OrderStep, PTL DEF Spec, SlotNotWasted

(* A tick that read the slots before they were saved never stamps the new.   *)
THEOREM SavedSlotsKeepArmed == Spec => SavedSlotsStayArmed
<1> DEFINE A == \A h \in Handlers, s \in Slots :
                    /\ s \in SlotsOf(h)
                    /\ req[h].edition # edition
                    => slots'[s].last = slots[s].last \/ req'[h] = req[h]
<1>1. ASSUME TypeOK, [Next]_vars PROVE [A]_vars
  <2> SUFFICES ASSUME NEW h \in Handlers, NEW s \in Slots,
                      s \in SlotsOf(h), req[h].edition # edition
               PROVE  slots'[s].last = slots[s].last \/ req'[h] = req[h]
      OBVIOUS
  <2>1. ~Intact(h)  BY DEF Intact, SlotsOf
  <2>2. CASE UNCHANGED slots \/ UNCHANGED req  BY <2>2
  <2>3. ASSUME NEW g \in Handlers, Commit(g), Intact(g) PROVE req'[h] = req[h]
        BY <1>1, <2>1, <2>3 DEF Commit, Reply, TypeOK
  <2> QED
      BY <1>1, <2>2, <2>3
      DEF Next, Clock, Queue, Unschedule, ReplaceSlots, RearmSlots, TickBegin, TickSlot,
          ReleaseRead, Commit, vars
<1> QED  BY <1>1, TypeCorrect, PTL DEF Spec, SavedSlotsStayArmed
-----------------------------------------------------------------------------
(* Series are shown together.  On a backlog whose assets were queued at       *)
(* different times, Before is a strict total order, so the number of assets   *)
(* before one is its place, and each place is taken.                        *)

\* An initial segment of the numbers stands for the number that ends it.
LEMMA Least ==
    ASSUME NEW T \in SUBSET Nat, T # {}
    PROVE  \E x \in T : \A y \in T : x <= y
<1> DEFINE Sets == {1..x : x \in T}
<1>1. Sets \subseteq FiniteSubsetsOf(Nat) /\ Sets # {}
  <2>1. ASSUME NEW x \in T PROVE 1..x \in FiniteSubsetsOf(Nat)
    <3>1. IsFiniteSet(1..x)  BY FS_Interval
    <3> QED  BY <3>1 DEF FiniteSubsetsOf
  <2> QED  BY <2>1
<1>2. \E X \in Sets : \A Y \in Sets : <<Y, X>> \notin StrictSubsetOrdering(Nat)
      BY <1>1, FS_StrictSubsetOrderingWellFounded, WFMin, Zenon
<1>3. PICK x \in T : \A y \in T : <<1..y, 1..x>> \notin StrictSubsetOrdering(Nat)
      BY <1>2
<1> SUFFICES ASSUME NEW y \in T, y < x PROVE FALSE  OBVIOUS
<1>4. 1..y \in SUBSET Nat /\ 1..x \in SUBSET Nat /\ 1..y \subseteq 1..x  OBVIOUS
<1>5. x \in 1..x /\ x \notin 1..y  OBVIOUS
<1>6. 1..y # 1..x  BY <1>5, Zenon
<1> QED  BY <1>3, <1>4, <1>6 DEF StrictSubsetOrdering

\* The assets of B were queued at different times.
Distinct(B, by) == \A a, b \in B : by[a] = by[b] => a = b

\* The first of a unit.
LEMMA Earliest ==
    ASSUME NEW B \in SUBSET Assets, NEW by \in [Assets -> Nat], NEW a \in B
    PROVE  \E x \in Unit(B, a) : \A y \in Unit(B, a) : by[x] <= by[y]
<1> DEFINE T == {by[x] : x \in Unit(B, a)}
<1>1. a \in Unit(B, a) /\ Unit(B, a) \subseteq Assets  BY DEF Unit
<1>2. T \in SUBSET Nat /\ T # {}  BY <1>1
<1>3. \E m \in T : \A n \in T : m <= n  BY <1>2, Least, Zenon
<1> QED  BY <1>3

LEMMA UnitsAgree ==
    ASSUME NEW B \in SUBSET Assets, NEW a \in B, NEW b \in B, SameSeries(a, b)
    PROVE  Unit(B, a) = Unit(B, b)
BY DEF Unit, SameSeries

\* Of two units the older is not the younger, and ages compose.
LEMMA OlderOrders ==
    ASSUME NEW B \in SUBSET Assets, NEW by \in [Assets -> Nat],
           NEW a \in B, NEW b \in B, NEW c \in B
    PROVE  /\ ~Older(B, by, a, a)
           /\ ~(Older(B, by, a, b) /\ Older(B, by, b, a))
           /\ Older(B, by, a, b) /\ Older(B, by, b, c) => Older(B, by, a, c)
           /\ SameSeries(a, b) => (Older(B, by, a, c) <=> Older(B, by, b, c))
           /\ SameSeries(b, c) => (Older(B, by, a, b) <=> Older(B, by, a, c))
<1>1. \A x \in Unit(B, a) \cup Unit(B, b) \cup Unit(B, c) : by[x] \in Nat  BY DEF Unit
<1>2. ~Older(B, by, a, a)  BY <1>1 DEF Older
<1>3. ~(Older(B, by, a, b) /\ Older(B, by, b, a))
  <2> SUFFICES ASSUME NEW x \in Unit(B, a), \A y \in Unit(B, b) : by[x] < by[y],
                      NEW y \in Unit(B, b), \A z \in Unit(B, a) : by[y] < by[z]
               PROVE  FALSE
      BY DEF Older
  <2>1. by[x] < by[y] /\ by[y] < by[x]  OBVIOUS
  <2> QED  BY <1>1, <2>1
<1>4. Older(B, by, a, b) /\ Older(B, by, b, c) => Older(B, by, a, c)
  <2> SUFFICES ASSUME NEW x \in Unit(B, a), \A y \in Unit(B, b) : by[x] < by[y],
                      NEW y \in Unit(B, b), \A z \in Unit(B, c) : by[y] < by[z]
               PROVE  \A z \in Unit(B, c) : by[x] < by[z]
      BY DEF Older
  <2>1. by[x] < by[y]  OBVIOUS
  <2> QED  BY <1>1, <2>1
<1>5. SameSeries(a, b) => (Older(B, by, a, c) <=> Older(B, by, b, c))
      BY UnitsAgree DEF Older
<1>6. SameSeries(b, c) => (Older(B, by, a, b) <=> Older(B, by, a, c))
      BY UnitsAgree DEF Older
<1> QED  BY <1>2, <1>3, <1>4, <1>5, <1>6

\* Of two assets that are no parts of one series one's unit is older.
LEMMA OneIsOlder ==
    ASSUME NEW B \in SUBSET Assets, NEW by \in [Assets -> Nat], Distinct(B, by),
           NEW a \in B, NEW b \in B, a # b, ~SameSeries(a, b)
    PROVE  Older(B, by, a, b) \/ Older(B, by, b, a)
<1>1. PICK x \in Unit(B, a) : \A z \in Unit(B, a) : by[x] <= by[z]  BY Earliest
<1>2. PICK y \in Unit(B, b) : \A z \in Unit(B, b) : by[y] <= by[z]  BY Earliest
<1>3. x \in B /\ y \in B /\ x # y  BY DEF Unit, SameSeries
<1>4. by[x] # by[y]  BY <1>3 DEF Distinct
<1>5. by[x] \in Nat /\ by[y] \in Nat /\ \A z \in Unit(B, a) \cup Unit(B, b) : by[z] \in Nat
      BY <1>3 DEF Unit
<1>6. CASE by[x] < by[y]
  <2>1. \A z \in Unit(B, b) : by[x] < by[z]  BY <1>2, <1>5, <1>6
  <2> QED  BY <2>1 DEF Older
<1>7. CASE by[y] < by[x]
  <2>1. \A z \in Unit(B, a) : by[y] < by[z]  BY <1>1, <1>5, <1>7
  <2> QED  BY <2>1 DEF Older
<1> QED  BY <1>4, <1>5, <1>6, <1>7

LEMMA BeforeOrders ==
    ASSUME NEW B \in SUBSET Assets, NEW by \in [Assets -> Nat], Distinct(B, by)
    PROVE  /\ \A a \in B : ~Before(B, by, a, a)
           /\ \A a, b \in B : a # b => Before(B, by, a, b) \/ Before(B, by, b, a)
           /\ \A a, b, c \in B :
                 Before(B, by, a, b) /\ Before(B, by, b, c) => Before(B, by, a, c)
<1>0. \A a \in B : IndexOf[a] \in Nat  BY OrderConstantsOK
<1>1. ASSUME NEW a \in B PROVE ~Before(B, by, a, a)
      BY <1>0, OlderOrders DEF Before
<1>2. ASSUME NEW a \in B, NEW b \in B, a # b
      PROVE  Before(B, by, a, b) \/ Before(B, by, b, a)
  <2>1. CASE SameSeries(a, b)
    <3>1. IndexOf[a] # IndexOf[b] /\ SameSeries(b, a)
          BY <1>2, <2>1, OrderConstantsOK DEF SameSeries
    <3> QED  BY <1>0, <2>1, <3>1 DEF Before
  <2> QED  BY <1>2, <2>1, OneIsOlder DEF Before
<1>3. ASSUME NEW a \in B, NEW b \in B, NEW c \in B,
             Before(B, by, a, b), Before(B, by, b, c)
      PROVE  Before(B, by, a, c)
  <2>1. CASE Older(B, by, a, b) \/ Older(B, by, b, c)
    <3>1. \/ Older(B, by, a, b) /\ (Older(B, by, b, c) \/ SameSeries(b, c))
          \/ SameSeries(a, b) /\ Older(B, by, b, c)
          BY <1>3, <2>1 DEF Before
    <3>2. Older(B, by, a, c)  BY <3>1, OlderOrders
    <3> QED  BY <3>2 DEF Before
  <2>2. CASE ~Older(B, by, a, b) /\ ~Older(B, by, b, c)
    <3>1. SameSeries(a, c)  BY <1>3, <2>2 DEF Before, SameSeries
    <3>2. IndexOf[a] < IndexOf[b] /\ IndexOf[b] < IndexOf[c]  BY <1>3, <2>2 DEF Before
    <3> QED  BY <1>0, <3>1, <3>2 DEF Before
  <2> QED  BY <2>1, <2>2
<1> QED  BY <1>1, <1>2, <1>3

\* The assets before a, whose number is its place.
Ahead(B, by, a) == {b \in B : Before(B, by, b, a)}

LEMMA PlacesOrder ==
    ASSUME NEW B \in SUBSET Assets, IsFiniteSet(B), NEW by \in [Assets -> Nat],
           Distinct(B, by), NEW a \in B
    PROVE  /\ Cardinality(Ahead(B, by, a)) \in 0..Cardinality(B) - 1
           /\ \A b \in B : Before(B, by, a, b) =>
                 Cardinality(Ahead(B, by, a)) < Cardinality(Ahead(B, by, b))
<1>1. a \notin Ahead(B, by, a) /\ Ahead(B, by, a) \in SUBSET B
      BY BeforeOrders DEF Ahead
<1>2. Cardinality(B) \in Nat /\ Cardinality(Ahead(B, by, a)) \in Nat
      BY <1>1, FS_Subset, FS_CardinalityType
<1>3. Cardinality(Ahead(B, by, a)) <= Cardinality(B)  BY <1>1, FS_Subset
<1>4. Cardinality(Ahead(B, by, a)) # Cardinality(B)  BY <1>1, FS_Subset
<1>5. ASSUME NEW b \in B, Before(B, by, a, b)
      PROVE  Cardinality(Ahead(B, by, a)) < Cardinality(Ahead(B, by, b))
  <2>1. IsFiniteSet(Ahead(B, by, b)) /\ Cardinality(Ahead(B, by, b)) \in Nat
    <3>1. Ahead(B, by, b) \in SUBSET B  BY DEF Ahead
    <3> QED  BY <3>1, FS_Subset, FS_CardinalityType
  <2>2. Ahead(B, by, a) \in SUBSET Ahead(B, by, b)  BY <1>5, BeforeOrders DEF Ahead
  <2>3. a \in Ahead(B, by, b)  BY <1>5 DEF Ahead
  <2>4. Cardinality(Ahead(B, by, a)) <= Cardinality(Ahead(B, by, b))
        BY <2>1, <2>2, FS_Subset
  <2>5. Cardinality(Ahead(B, by, a)) # Cardinality(Ahead(B, by, b))
        BY <1>1, <2>1, <2>2, <2>3, FS_Subset
  <2> QED  BY <1>2, <2>1, <2>4, <2>5
<1> QED  BY <1>2, <1>3, <1>4, <1>5

\* Each place of the order is taken, by the asset with as many before it.
LEMMA PlacesTaken ==
    ASSUME NEW B \in SUBSET Assets, IsFiniteSet(B), NEW by \in [Assets -> Nat],
           Distinct(B, by), NEW i \in 1..Cardinality(B)
    PROVE  /\ ReleaseOrder(B, by)[i] \in B
           /\ Cardinality(Ahead(B, by, ReleaseOrder(B, by)[i])) = i - 1
<1> DEFINE n == Cardinality(B)
           place == [a \in B |-> Cardinality(Ahead(B, by, a)) + 1]
<1>1. n \in Nat  BY FS_CardinalityType
<1>2. \A a \in B : Cardinality(Ahead(B, by, a)) \in 0..n - 1  BY PlacesOrder
<1>3. place \in [B -> 1..n]  BY <1>1, <1>2
<1>4. ASSUME NEW a \in B, NEW b \in B, place[a] = place[b] PROVE a = b
  <2>1. Cardinality(Ahead(B, by, a)) = Cardinality(Ahead(B, by, b))  BY <1>2, <1>4
  <2>2. ~Before(B, by, a, b) /\ ~Before(B, by, b, a)
        BY <1>2, <2>1, PlacesOrder
  <2> QED  BY <2>2, BeforeOrders
<1>5. place \in Injection(B, 1..n)
  <2>1. \A a, b \in DOMAIN place : place[a] = place[b] => a = b  BY <1>3, <1>4
  <2> QED  BY <1>3, <2>1 DEF Injection, IsInjective
<1>6. IsFiniteSet(1..n) /\ Cardinality(1..n) = n  BY <1>1, FS_Interval
<1>7. place \in Surjection(B, 1..n)  BY <1>5, <1>6, FS_Injection
<1>8. PICK a \in B : place[a] = i  BY <1>7 DEF Surjection
<1>9. Cardinality(Ahead(B, by, a)) = i - 1  BY <1>1, <1>2, <1>8
<1>10. ReleaseOrder(B, by)[i] = CHOOSE c \in B : Cardinality(Ahead(B, by, c)) = i - 1
       BY DEF ReleaseOrder, Ahead
<1> HIDE DEF n, place
<1> QED  BY <1>9, <1>10

\* The order in which the backlog is shown is a sort of it by Before: each asset has
\* one place, and of two places the earlier goes first (order_groups).
THEOREM BacklogIsSorted ==
    ASSUME NEW B \in SUBSET Assets, IsFiniteSet(B), NEW by \in [Assets -> Nat], Distinct(B, by)
    PROVE  /\ ReleaseOrder(B, by) \in [1..Cardinality(B) -> B]
           /\ \A a \in B : \E i \in 1..Cardinality(B) : ReleaseOrder(B, by)[i] = a
           /\ \A i, j \in 1..Cardinality(B) :
                 i < j => Before(B, by, ReleaseOrder(B, by)[i], ReleaseOrder(B, by)[j])
<1> DEFINE n == Cardinality(B)
           order == ReleaseOrder(B, by)
           ahead(a) == Cardinality(Ahead(B, by, a))
           place(i) == CHOOSE a \in B : Cardinality({b \in B : Before(B, by, b, a)}) = i - 1
<1>1. n \in Nat /\ order = [i \in 1..n |-> order[i]]
  <2>1. order = [i \in 1..n |-> place(i)]  BY DEF ReleaseOrder
  <2> HIDE DEF order, place
  <2>2. order = [i \in 1..n |-> order[i]]  BY <2>1
  <2> QED  BY <2>2, FS_CardinalityType
<1>2. ASSUME NEW i \in 1..n PROVE order[i] \in B /\ ahead(order[i]) = i - 1
      BY <1>2, PlacesTaken
<1>3. ASSUME NEW a \in B, NEW b \in B, ahead(a) <= ahead(b), a # b
      PROVE  Before(B, by, a, b)
  <2>1. ahead(a) \in Nat /\ ahead(b) \in Nat  BY PlacesOrder, <1>1
  <2>2. Before(B, by, b, a) => ahead(b) < ahead(a)  BY PlacesOrder
  <2>3. Before(B, by, a, b) \/ Before(B, by, b, a)  BY <1>3, BeforeOrders
  <2> HIDE DEF ahead
  <2> QED  BY <1>3, <2>1, <2>2, <2>3
<1>4. ASSUME NEW a \in B PROVE \E i \in 1..n : order[i] = a
  <2>1. ahead(a) \in 0..n - 1  BY PlacesOrder
  <2>2. ahead(a) + 1 \in 1..n  BY <1>1, <2>1
  <2>3. order[ahead(a) + 1] \in B /\ ahead(order[ahead(a) + 1]) = ahead(a)
        BY <1>1, <1>2, <2>1, <2>2
  <2> DEFINE b == order[ahead(a) + 1]
  <2>4. b = a
    <3>1. ahead(a) <= ahead(b) /\ ahead(b) <= ahead(a)  BY <1>1, <2>1, <2>3
    <3>2. ~(Before(B, by, a, b) /\ Before(B, by, b, a))  BY <2>3, BeforeOrders
    <3> HIDE DEF b, ahead
    <3> QED  BY <1>3, <2>3, <3>1, <3>2 DEF b
  <2> QED  BY <2>2, <2>4
<1>5. ASSUME NEW i \in 1..n, NEW j \in 1..n, i < j PROVE Before(B, by, order[i], order[j])
  <2>1. /\ order[i] \in B /\ ahead(order[i]) = i - 1
        /\ order[j] \in B /\ ahead(order[j]) = j - 1
        BY <1>2
  <2>2. ahead(order[i]) <= ahead(order[j]) /\ order[i] # order[j]
        BY <1>5, <2>1
  <2> HIDE DEF order, ahead
  <2> QED  BY <1>3, <2>1, <2>2
<1> HIDE DEF n, order
<1>6. order \in [1..n -> B]  BY <1>1, <1>2
<1> QED  BY <1>4, <1>5, <1>6 DEF n, order

\* What a slot takes is what the backlog shows first.
THEOREM SlotTakesTheFirst ==
    ASSUME NEW B \in SUBSET Assets, IsFiniteSet(B), NEW by \in [Assets -> Nat], Distinct(B, by),
           NEW a
    PROVE  IsHead(B, by, a) <=> B # {} /\ a = ReleaseOrder(B, by)[1]
<1> DEFINE n == Cardinality(B)
           first == ReleaseOrder(B, by)[1]
<1>1. n \in Nat /\ (B # {} => n # 0)  BY FS_CardinalityType, FS_EmptySet
<1>2. ASSUME B # {} PROVE first \in B /\ \A b \in B \ {first} : Before(B, by, first, b)
  <2>1. 1 \in 1..n  BY <1>1, <1>2
  <2>2. first \in B  BY <2>1, BacklogIsSorted
  <2>3. ASSUME NEW b \in B \ {first} PROVE Before(B, by, first, b)
    <3>1. PICK i \in 1..n : ReleaseOrder(B, by)[i] = b  BY BacklogIsSorted
    <3>2. i # 1  BY <3>1
    <3>3. 1 < i  BY <1>1, <3>2
    <3> QED  BY <2>1, <3>1, <3>3, BacklogIsSorted
  <2> QED  BY <2>2, <2>3
<1>3. ASSUME IsHead(B, by, a) PROVE B # {} /\ a = first
  <2>1. a \in B /\ \A b \in B \ {a} : Before(B, by, a, b)  BY <1>3 DEF IsHead
  <2>2. first \in B /\ \A b \in B \ {first} : Before(B, by, first, b)  BY <1>2, <2>1
  <2>3. a # first => Before(B, by, a, first) /\ Before(B, by, first, a)  BY <2>1, <2>2
  <2>4. ~(Before(B, by, a, first) /\ Before(B, by, first, a))  BY <2>1, <2>2, BeforeOrders
  <2> QED  BY <2>1, <2>3, <2>4
<1> HIDE DEF first
<1>4. ASSUME B # {}, a = first PROVE IsHead(B, by, a)
      BY <1>2, <1>4 DEF IsHead
<1> QED  BY <1>3, <1>4 DEF first

\* Between two parts of a series there are only parts of it.
LEMMA TogetherIn ==
    ASSUME NEW B \in SUBSET Assets, NEW by \in [Assets -> Nat], Distinct(B, by),
           NEW a \in B, NEW b \in B, NEW c \in B,
           Before(B, by, a, b), Before(B, by, b, c), SameSeries(a, c)
    PROVE  SameSeries(a, b) /\ IndexOf[a] < IndexOf[c]
<1>1. SameSeries(c, a)  BY DEF SameSeries
<1>2. ~Older(B, by, a, c)  BY <1>1, OlderOrders
<1>3. IndexOf[a] < IndexOf[c]  BY <1>2, BeforeOrders DEF Before
<1>4. SameSeries(a, b)
  <2> SUFFICES ASSUME ~SameSeries(a, b) PROVE FALSE  OBVIOUS
  <2>1. ~SameSeries(b, c)  BY DEF SameSeries
  <2>2. Older(B, by, a, b) /\ Older(B, by, b, c)  BY <2>1 DEF Before
  <2> QED  BY <1>2, <2>2, OlderOrders
<1> QED  BY <1>3, <1>4

TurnsOK ==
    /\ Distinct(Backlog, created)
    /\ \A a \in Assets : created[a] <= turn

LEMMA TurnsStep == TypeOK /\ TurnsOK /\ [Next]_vars => TurnsOK'
<1> SUFFICES ASSUME TypeOK, TurnsOK, [Next]_vars PROVE TurnsOK'  OBVIOUS
<1> USE DEF TurnsOK, Distinct, Backlog
<1>1. ASSUME UNCHANGED <<created, turn>>,
             \A a \in Assets : state'[a] = "scheduled" => state[a] = "scheduled"
      PROVE  TurnsOK'
      BY <1>1
<1>2. ASSUME NEW a \in Assets, Queue(a) PROVE TurnsOK'
      BY <1>2 DEF Queue, TypeOK
<1>3. ASSUME NEW a \in Assets, Unschedule(a) PROVE TurnsOK'
      BY <1>1, <1>3 DEF Unschedule, TypeOK
<1>4. ASSUME NEW h \in Handlers, Commit(h) PROVE TurnsOK'
      BY <1>1, <1>4 DEF Commit
<1>5. CASE \/ Clock \/ RearmSlots \/ UNCHANGED vars
           \/ \E plan \in Plans : ReplaceSlots(plan)
      BY <1>1, <1>5 DEF Clock, RearmSlots, ReplaceSlots, vars
<1>6. ASSUME NEW h \in Handlers,
             \/ TickBegin(h)
             \/ \E s \in Slots : TickSlot(h, s)
             \/ \E a \in Assets : ReleaseRead(h, a)
      PROVE  TurnsOK'
      BY <1>1, <1>6 DEF TickBegin, TickSlot, ReleaseRead
<1> QED  BY <1>2, <1>3, <1>4, <1>5, <1>6 DEF Next

\* Whatever was queued, released and dropped, and whenever its parts were uploaded,
\* the backlog shows a series in one piece and in the order of its numbers.
THEOREM SeriesShownTogether ==
    ASSUME IsFiniteSet(Assets)
    PROVE  Spec => []SeriesTogether
<1>1. Init => TurnsOK
      BY DEF Init, TurnsOK, Distinct, Backlog
<1>2. TypeOK /\ TurnsOK => SeriesTogether
  <2> SUFFICES ASSUME TypeOK, TurnsOK PROVE SeriesTogether  OBVIOUS
  <2> DEFINE order == ReleaseOrder(Backlog, created)
  <2>1. /\ Backlog \in SUBSET Assets /\ IsFiniteSet(Backlog)
        /\ created \in [Assets -> Nat] /\ Distinct(Backlog, created)
    <3>1. Backlog \in SUBSET Assets  BY DEF Backlog
    <3>2. IsFiniteSet(Backlog)  BY <3>1, FS_Subset
    <3> QED  BY <3>1, <3>2 DEF TypeOK, TurnsOK
  <2>2. DOMAIN order = 1..Cardinality(Backlog)  BY DEF ReleaseOrder
  <2> SUFFICES ASSUME NEW i \in 1..Cardinality(Backlog), NEW j \in 1..Cardinality(Backlog),
                      NEW k \in 1..Cardinality(Backlog), i < j, j < k,
                      SameSeries(order[i], order[k])
               PROVE  SameSeries(order[i], order[j]) /\ IndexOf[order[i]] < IndexOf[order[k]]
      BY <2>2 DEF SeriesTogether
  <2>3. /\ order \in [1..Cardinality(Backlog) -> Backlog]
        /\ \A l, m \in 1..Cardinality(Backlog) :
              l < m => Before(Backlog, created, order[l], order[m])
        BY <2>1, BacklogIsSorted
  <2> HIDE DEF order
  <2>4. /\ order[i] \in Backlog /\ order[j] \in Backlog /\ order[k] \in Backlog
        /\ Before(Backlog, created, order[i], order[j])
        /\ Before(Backlog, created, order[j], order[k])
        BY <2>3
  <2> QED  BY <2>1, <2>4, TogetherIn
<1> QED  BY <1>1, <1>2, TurnsStep, TypeCorrect, PTL DEF Spec
-----------------------------------------------------------------------------
(* The order shown stays what it was, but for what comes and goes.            *)

\* x was queued first of a's series.
Anchors(B, by, a, x) == x \in Unit(B, a) /\ \A y \in Unit(B, a) : by[x] <= by[y]

\* What leaves the backlog does not reorder the rest, if a's series keeps its first.
LEMMA LeavingKeepsOrder ==
    ASSUME NEW B \in SUBSET Assets, NEW C \in SUBSET B, NEW by \in [Assets -> Nat],
           NEW a \in C, NEW b \in C, Before(B, by, a, b),
           \A x \in B : Anchors(B, by, a, x) => x \in C
    PROVE  Before(C, by, a, b)
<1>1. CASE SameSeries(a, b) /\ IndexOf[a] < IndexOf[b]
      BY <1>1 DEF Before
<1>2. CASE Older(B, by, a, b)
  <2>1. PICK x \in Unit(B, a) : \A y \in Unit(B, b) : by[x] < by[y]
        BY <1>2 DEF Older
  <2>2. PICK f \in Unit(B, a) : \A y \in Unit(B, a) : by[f] <= by[y]
        BY Earliest
  <2>3. f \in B /\ Anchors(B, by, a, f)  BY <2>2 DEF Unit, Anchors
  <2>4. f \in Unit(C, a)  BY <2>2, <2>3 DEF Unit
  <2>5. ASSUME NEW y \in Unit(C, b) PROVE by[f] < by[y]
    <3>1. y \in Unit(B, b) /\ y \in Assets /\ x \in Assets /\ f \in Assets  BY <2>3, <2>5 DEF Unit
    <3>2. by[f] \in Nat /\ by[x] \in Nat /\ by[y] \in Nat  BY <3>1
    <3>3. by[f] <= by[x] /\ by[x] < by[y]  BY <2>1, <2>2, <3>1
    <3> QED  BY <3>2, <3>3
  <2> QED  BY <2>4, <2>5 DEF Older, Before
<1> QED  BY <1>1, <1>2 DEF Before

\* What is queued later goes nowhere but behind, or into its own series.
LEMMA QueueingKeepsOrder ==
    ASSUME NEW B \in SUBSET Assets, NEW c \in Assets, c \notin B,
           NEW by \in [Assets -> Nat], NEW later \in [Assets -> Nat],
           \A x \in B : later[x] = by[x] /\ by[x] < later[c],
           NEW a \in B, NEW b \in B, Before(B, by, a, b)
    PROVE  Before(B \cup {c}, later, a, b)
<1>1. CASE SameSeries(a, b) /\ IndexOf[a] < IndexOf[b]
      BY <1>1 DEF Before
<1>2. CASE Older(B, by, a, b)
  <2>1. PICK x \in Unit(B, a) : \A y \in Unit(B, b) : by[x] < by[y]
        BY <1>2 DEF Older
  <2>2. x \in B /\ x \in Unit(B \cup {c}, a)  BY DEF Unit
  <2>3. ASSUME NEW y \in Unit(B \cup {c}, b) PROVE later[x] < later[y]
    <3>1. y = c \/ y \in Unit(B, b)  BY DEF Unit
    <3>2. y \in Unit(B, b) => y \in B  BY DEF Unit
    <3> QED  BY <2>1, <2>2, <3>1, <3>2
  <2> QED  BY <2>2, <2>3 DEF Older, Before
<1> QED  BY <1>1, <1>2 DEF Before

\* What the operator was shown stays true: of two assets that stay in the backlog the
\* one shown first is still first after any step, queueing and ticks included, unless
\* the step takes the first-queued part of its series, which is what holds its place.
THEOREM OrderIsKept ==
    Spec => [][\A a, b \in Backlog \cap Backlog' :
                  /\ Before(Backlog, created, a, b)
                  /\ \A x \in Backlog : Anchors(Backlog, created, a, x) => x \in Backlog'
                  => Before(Backlog', created', a, b)]_vars
<1>1. ASSUME TypeOK, TypeOK', TurnsOK, Next,
             NEW a \in Backlog \cap Backlog', NEW b \in Backlog \cap Backlog',
             Before(Backlog, created, a, b),
             \A x \in Backlog : Anchors(Backlog, created, a, x) => x \in Backlog'
      PROVE  Before(Backlog', created', a, b)
  <2>0. /\ Backlog \in SUBSET Assets /\ created \in [Assets -> Nat] /\ created' \in [Assets -> Nat]
        /\ \A x \in Assets : created[x] <= turn
        /\ turn \in Nat /\ state \in [Assets -> {"none", "scheduled", "released", "dropped"}]
        BY <1>1 DEF TypeOK, AssetState, TurnsOK, Backlog
  <2>1. CASE created' = created /\ Backlog' \subseteq Backlog
    <3> DEFINE B == Backlog
               C == Backlog'
    <3>1. B \in SUBSET Assets /\ C \in SUBSET B /\ a \in C /\ b \in C
          BY <2>0, <2>1
    <3> QED  BY <1>1, <2>0, <2>1, <3>1, LeavingKeepsOrder
  <2>2. ASSUME NEW c \in Assets, Queue(c) PROVE Before(Backlog', created', a, b)
    <3>1. /\ c \notin Backlog /\ Backlog' = Backlog \cup {c}
          /\ created' = [created EXCEPT ![c] = turn + 1]
          BY <2>0, <2>2 DEF Queue, Backlog
    <3>2. \A x \in Backlog : created'[x] = created[x] /\ created[x] < created'[c]
          BY <2>0, <3>1
    <3>3. Before(Backlog \cup {c}, created', a, b)
          BY <1>1, <2>0, <3>1, <3>2, QueueingKeepsOrder
    <3> QED  BY <3>1, <3>3
  <2>3. ASSUME \/ \E c \in Assets : Unschedule(c)
               \/ \E h \in Handlers : Commit(h)
        PROVE  created' = created /\ Backlog' \subseteq Backlog
        BY <2>0, <2>3 DEF Unschedule, Commit, Backlog
  <2>4. ASSUME \/ Clock \/ RearmSlots \/ \E plan \in Plans : ReplaceSlots(plan)
               \/ \E h \in Handlers :
                    \/ TickBegin(h)
                    \/ \E s \in Slots : TickSlot(h, s)
                    \/ \E c \in Assets : ReleaseRead(h, c)
        PROVE  created' = created /\ Backlog' \subseteq Backlog
        BY <2>4 DEF Clock, RearmSlots, ReplaceSlots, TickBegin, TickSlot, ReleaseRead, Backlog
  <2>5. \/ \E c \in Assets : Queue(c)
        \/ created' = created /\ Backlog' \subseteq Backlog
        BY <1>1, <2>3, <2>4, Zenon DEF Next
  <2> QED  BY <2>1, <2>2, <2>5
<1>2. TypeOK /\ TypeOK' /\ TurnsOK /\ [Next]_vars
        => [\A a, b \in Backlog \cap Backlog' :
              /\ Before(Backlog, created, a, b)
              /\ \A x \in Backlog : Anchors(Backlog, created, a, x) => x \in Backlog'
              => Before(Backlog', created', a, b)]_vars
      BY <1>1
<1>3. Init => TurnsOK  BY DEF Init, TurnsOK, Distinct, Backlog
<1> QED  BY <1>2, <1>3, TurnsStep, TypeCorrect, PTL DEF Spec
=============================================================================
