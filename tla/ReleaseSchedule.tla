--------------------------- MODULE ReleaseSchedule ---------------------------
(***************************************************************************)
(* Draining the backlog: the slots, the tick that n8n sends, the operator    *)
(* who edits the slots, queues, drops and releases assets meanwhile.        *)
(*                                                                         *)
(* A tick is one transaction that reads the slots, then the backlog once per *)
(* due slot, and commits; other transactions commit in between.  Reading the *)
(* backlog again flushes what the tick has decided so far, which locks those *)
(* rows until it commits.  Time is counted in units of which a day has       *)
(* DayLength; a slot's zone is a fixed offset from the service's clock.      *)
(***************************************************************************)
EXTENDS BacklogOrder

CONSTANTS
    Slots,      \* ids of schedule_slots rows
    Plans,      \* what an operator may save: slot definitions by id
    DayLength,  \* units in a day
    Grace,      \* grace_minutes
    Handlers,   \* API request threads
    MaxTime,    \* bound of the model: the clock stops here
    MaxEdits    \* bound of the model: saves and re-arms of the slots

ASSUME ConstantsOK ==
    /\ DayLength \in Nat \ {0}
    /\ Grace \in Nat
    /\ MaxTime \in Nat
    /\ MaxEdits \in Nat
    /\ Plans # {}
    /\ Plans \subseteq [Slots -> [at : 0..DayLength - 1, offset : Nat, enabled : BOOLEAN]]
    /\ Assets \cap Slots = {}

VARIABLES
    now,      \* the clock
    slots,    \* the schedule_slots rows
    edition,  \* which save of the slots they are from
    edits,    \* saves and re-arms so far
    state,    \* where each asset's scheduled jobs are
    turn,     \* how many assets have been queued
    created,  \* when each asset was queued: 0, or its turn
    req,      \* what each request has read and decided
    gone,     \* history: what each slot has released on the day it is stamped with
    asOf      \* history: how many assets had been queued when the tick that
              \* released an asset began

history == <<gone, asOf>>
vars == <<now, slots, edition, edits, state, turn, created, req, history>>

Never == 0    \* last_fired_on is None; dates count from 1

Slot == [at : 0..DayLength - 1, offset : Nat, enabled : BOOLEAN, last : Nat]
AssetState == {"none", "scheduled", "released", "dropped"}

Request == [pc : {"idle", "tick", "release"}, at : Nat, edition : Nat, asOf : Nat,
            todo : SUBSET Slots, taken : SUBSET Assets, stamped : SUBSET (Slots \X Assets),
            locked : SUBSET (Assets \cup Slots)]
NoRequest == [pc |-> "idle", at |-> 0, edition |-> 0, asOf |-> 0, todo |-> {}, taken |-> {},
              stamped |-> {}, locked |-> {}]

TypeOK ==
    /\ now \in Nat
    /\ slots \in [Slots -> Slot]
    /\ edition \in Nat
    /\ edits \in Nat
    /\ state \in [Assets -> AssetState]
    /\ turn \in Nat
    /\ created \in [Assets -> Nat]
    /\ req \in [Handlers -> Request]
    /\ \A h \in Handlers : req[h].pc = "idle" => req[h] = NoRequest
    /\ gone \in [Slots -> SUBSET Assets]
    /\ asOf \in [Assets -> Nat]

\* Slots as they are saved: not fired on any day.
Armed(plan) ==
    [s \in Slots |-> [at |-> plan[s].at, offset |-> plan[s].offset,
                      enabled |-> plan[s].enabled, last |-> Never]]

Init ==
    /\ now = 0
    /\ slots \in {Armed(plan) : plan \in Plans}
    /\ edition = 0
    /\ edits = 0
    /\ state = [a \in Assets |-> "none"]
    /\ turn = 0
    /\ created = [a \in Assets |-> 0]
    /\ req = [h \in Handlers |-> NoRequest]
    /\ gone = [s \in Slots |-> {}]
    /\ asOf = [a \in Assets |-> 0]
-----------------------------------------------------------------------------
LocalTime(s, t) == t + s.offset
LocalDate(s, t) == 1 + LocalTime(s, t) \div DayLength
TimeOfDay(s, t) == LocalTime(s, t) % DayLength

\* `is_due`: today's firing time is reached, and not longer ago than the grace.
IsDue(s, t) ==
    /\ s.enabled
    /\ s.last # LocalDate(s, t)
    /\ TimeOfDay(s, t) >= s.at
    /\ TimeOfDay(s, t) - s.at <= Grace

Backlog == {a \in Assets : state[a] = "scheduled"}

\* A row that another transaction has written and not committed.
Locks(h) == UNION {req[g].locked : g \in Handlers \ {h}}
Held == UNION {req[g].locked : g \in Handlers}

\* What a request has decided to write, and may write now.
SlotsOf(h) == {p[1] : p \in req[h].stamped}
Written(h) == req[h].taken \cup SlotsOf(h)
CanWrite(h) == Written(h) \cap Locks(h) = {}

-----------------------------------------------------------------------------
(* Faulty variants of the definitions below, each with one plausible mistake *)
(* in it; no part of the specification.                                     *)

\* The date is the service's, not the slot's.
StampServiceDate(h) ==
    [s \in Slots |-> IF s \in SlotsOf(h)
                     THEN [slots[s] EXCEPT !.last = 1 + req[h].at \div DayLength]
                     ELSE slots[s]]

\* The slot is stamped when it comes due, whether or not there was anything to take.
TickSlotIdle(h, s) ==
    LET left == Backlog \ req[h].taken
        r == [req[h] EXCEPT !.todo = @ \ {s}, !.locked = Written(h)]
    IN /\ req[h].pc = "tick"
       /\ s \in req[h].todo
       /\ CanWrite(h)
       /\ \/ left = {} /\ req' = [req EXCEPT ![h] = [r EXCEPT
                                !.stamped = @ \cup {<<s, CHOOSE a \in Assets : TRUE>>}]]
          \/ \E a \in left :
                /\ IsHead(left, created, a)
                /\ req' = [req EXCEPT ![h] = [r EXCEPT !.taken = @ \cup {a},
                                                    !.stamped = @ \cup {<<s, a>>}]]
       /\ UNCHANGED <<now, slots, edition, edits, state, turn, created, history>>

\* The reply leaves the transaction open.
ReplyHolding(h) == req' = [req EXCEPT ![h].pc = "idle"]

\* The tick releases what it took even if a slot it stamps is gone.
IntactAnyway(h) == \A a \in req[h].taken : state[a] \notin {"none", "dropped"}
-----------------------------------------------------------------------------
Clock ==
    /\ now < MaxTime
    /\ now' = now + 1
    /\ UNCHANGED <<slots, edition, edits, state, turn, created, req, history>>

\* POST /publish with schedule=true.
Queue(a) ==
    /\ state[a] = "none"
    /\ state' = [state EXCEPT ![a] = "scheduled"]
    /\ turn' = turn + 1
    /\ created' = [created EXCEPT ![a] = turn + 1]
    /\ UNCHANGED <<now, slots, edition, edits, req, history>>

\* DELETE /assets/{id}/schedule; its own race is modelled in PublishPipeline.
Unschedule(a) ==
    /\ state[a] = "scheduled"
    /\ a \notin Held
    /\ state' = [state EXCEPT ![a] = "dropped"]
    /\ UNCHANGED <<now, slots, edition, edits, turn, created, req, history>>

\* PUT /schedule/slots: the old rows go, new ones come, none of them fired.
ReplaceSlots(plan) ==
    /\ edits < MaxEdits
    /\ Held \cap Slots = {}
    /\ slots' = Armed(plan)
    /\ edition' = edition + 1
    /\ edits' = edits + 1
    /\ gone' = [s \in Slots |-> {}]
    /\ UNCHANGED <<now, state, turn, created, req, asOf>>

\* POST /schedule/slots/reset.
RearmSlots ==
    /\ edits < MaxEdits
    /\ Held \cap Slots = {}
    /\ slots' = [s \in Slots |-> [slots[s] EXCEPT !.last = Never]]
    /\ edits' = edits + 1
    /\ gone' = [s \in Slots |-> {}]
    /\ UNCHANGED <<now, edition, state, turn, created, req, asOf>>

\* POST /schedule/tick: what is due, by one reading of the clock and the slots.
TickBegin(h) ==
    LET ready == {s \in Slots : IsDue(slots[s], now)}
    IN /\ req[h].pc = "idle"
       /\ ready # {}
       /\ req' = [req EXCEPT ![h] = [NoRequest EXCEPT
                      !.pc = "tick", !.at = now, !.edition = edition, !.asOf = turn,
                      !.todo = ready]]
       /\ UNCHANGED <<now, slots, edition, edits, state, turn, created, history>>

\* The rows the request writes are still there: if not, the flush raises and the
\* transaction rolls back.
Intact(h) ==
    /\ \A a \in req[h].taken : state[a] \notin {"none", "dropped"}
    /\ req[h].stamped # {} => req[h].edition = edition

\* The next due slot, earliest in the day first, takes the head of the backlog as
\* it is now; one that finds nothing stays armed.
TickSlot(h, s) ==
    LET left == Backlog \ req[h].taken
        r == [req[h] EXCEPT !.todo = @ \ {s}, !.locked = Written(h)]
    IN /\ req[h].pc = "tick"
       /\ s \in req[h].todo
       /\ \A z \in req[h].todo : slots[s].at <= slots[z].at
       /\ CanWrite(h)
       /\ Intact(h)
       /\ \/ left = {} /\ req' = [req EXCEPT ![h] = r]
          \/ \E a \in left :
                /\ IsHead(left, created, a)
                /\ req' = [req EXCEPT ![h] = [r EXCEPT !.taken = @ \cup {a},
                                                    !.stamped = @ \cup {<<s, a>>}]]
       /\ UNCHANGED <<now, slots, edition, edits, state, turn, created, history>>

Stamped(h) ==
    [s \in Slots |-> IF s \in SlotsOf(h)
                     THEN [slots[s] EXCEPT !.last = LocalDate(slots[s], req[h].at)]
                     ELSE slots[s]]

Reply(h) == req' = [req EXCEPT ![h] = NoRequest]

\* Commit of a tick, or of POST /assets/{id}/release, and the dispatch after it.
Commit(h) ==
    /\ req[h].pc # "idle"
    /\ req[h].todo = {} \/ ~Intact(h)
    /\ CanWrite(h)
    /\ IF Intact(h)
       THEN /\ state' = [a \in Assets |-> IF a \in req[h].taken THEN "released" ELSE state[a]]
            /\ slots' = Stamped(h)
            /\ gone' = [s \in Slots |->
                           {p[2] : p \in {q \in req[h].stamped : q[1] = s}}
                           \cup IF slots[s].last = Stamped(h)[s].last THEN gone[s] ELSE {}]
            /\ asOf' = [a \in Assets |-> IF a \in req[h].taken /\ req[h].pc = "tick"
                                         THEN req[h].asOf ELSE asOf[a]]
       ELSE UNCHANGED <<state, slots, history>>
    /\ Reply(h)
    /\ UNCHANGED <<now, edition, edits, turn, created>>

ReleaseRead(h, a) ==
    /\ req[h].pc = "idle"
    /\ state[a] = "scheduled"
    /\ req' = [req EXCEPT ![h] = [NoRequest EXCEPT !.pc = "release", !.taken = {a}]]
    /\ UNCHANGED <<now, slots, edition, edits, state, turn, created, history>>
-----------------------------------------------------------------------------
Next ==
    \/ Clock
    \/ \E a \in Assets : Queue(a) \/ Unschedule(a)
    \/ \E plan \in Plans : ReplaceSlots(plan)
    \/ RearmSlots
    \/ \E h \in Handlers :
        \/ TickBegin(h)
        \/ \E s \in Slots : TickSlot(h, s)
        \/ \E a \in Assets : ReleaseRead(h, a)
        \/ Commit(h)

Spec == Init /\ [][Next]_vars

\* A tick is not sent again before the last one has committed.
TicksApart == \A g, h \in Handlers : req[g].pc = "tick" /\ req[h].pc = "tick" => g = h

ApartSpec == Init /\ [][Next /\ TicksApart']_vars
-----------------------------------------------------------------------------
\* If ticks do not overlap a slot releases at most one asset on its local day, unless
\* it is re-armed: `last_fired_on` is in the slot's zone, like the firing time.
OncePerDay == \A s \in Slots : \A a, b \in gone[s] : a = b

\* A later part of a series never goes out by a tick while an earlier one, queued
\* before that tick began, stays behind; whatever is queued, dropped and released
\* while the tick runs, and even if ticks overlap.
SeriesInOrder ==
    \A a, b \in Assets :
        /\ SameSeries(a, b) /\ IndexOf[a] < IndexOf[b]
        /\ state[b] = "released" /\ asOf[b] > 0
        /\ state[a] = "scheduled"
        => created[a] > asOf[b]

\* Nothing is shown between two parts of a series, whenever they were queued.
SeriesTogether ==
    LET order == ReleaseOrder(Backlog, created)
    IN \A i, j, k \in DOMAIN order :
           i < j /\ j < k /\ SameSeries(order[i], order[k])
           => /\ SameSeries(order[i], order[j])
              /\ IndexOf[order[i]] < IndexOf[order[k]]

\* A slot is spent only by a step that releases something: one that came due with
\* an empty backlog stays armed, and one whose release rolls back too.
SlotNotWasted ==
    [][\A s \in Slots :
            slots'[s].last \notin {slots[s].last, Never}
            => \E a \in gone'[s] : state'[a] = "released"]_vars

\* Saving the slots re-arms them, and a tick that read the old ones cannot stamp
\* the new ones: a new slot stays armed until a tick that has seen it fires it.
SavedSlotsStayArmed ==
    [][\A h \in Handlers, s \in Slots :
            /\ s \in SlotsOf(h)
            /\ req[h].edition # edition
            => slots'[s].last = slots[s].last \/ req'[h] = req[h]]_vars
=============================================================================
