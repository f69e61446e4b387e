------------------------------ MODULE TokenStore ------------------------------
(***************************************************************************)
(* The stored credentials of one platform, and the workers that ask for its  *)
(* access token: get_access_token, which refreshes a token that is about to  *)
(* expire while it holds the row's lock, and seed_token, which writes the     *)
(* environment's tokens over the row without having locked it.               *)
(*                                                                         *)
(* The platform is external.  It rotates the refresh token: each exchange     *)
(* gives a new pair, and only the newest refresh token is good.  A pair is    *)
(* known by its number, in the order of issue.  Presented an old one, it may  *)
(* withdraw the newest too.                                                  *)
(*                                                                         *)
(* Facebook's token has no refresh: its calls return the row as it stands.   *)
(*                                                                         *)
(* Assumed of the environment: a refresh and a request together fit into the  *)
(* margin (Refreshing + Using <= Margin).  The code does not enforce it: the   *)
(* margin is 600 s, and DEFAULT_TIMEOUT bounds each operation of a request,    *)
(* up to 300 s to write and 300 s to read, not the request as a whole.        *)
(***************************************************************************)
EXTENDS Naturals

CONSTANTS
    Callers,    \* workers' requests to the platform
    Lifetime,   \* expires_in
    Margin,     \* REFRESH_MARGIN_SECONDS
    Refreshing, \* the longest a refresh takes, from its request to its commit
    Using,      \* the longest a request takes to reach the platform
    MaxPairs,   \* bound: pairs the platform issues
    MaxCalls,   \* bound: calls of get_access_token
    MaxTime     \* bound: the clock

ASSUME TokenConstantsOK ==
    /\ Lifetime \in Nat /\ Margin \in 1..Lifetime
    /\ Refreshing \in Nat /\ Using \in Nat /\ Refreshing + Using <= Margin
    /\ MaxPairs \in Nat \ {0} /\ MaxCalls \in Nat /\ MaxTime \in Nat

Pairs == 1..MaxPairs
MaybePair == 0..MaxPairs    \* 0: none
Times == 0..MaxTime + Lifetime

VARIABLES
    row,       \* the oauth_tokens row; no row while its access token is 0
    holder,    \* who has its lock: at most one caller
    env,       \* the tokens in the environment
    seed,      \* a run of seed_tokens.py or init_db.py, and what it has read
    good,      \* platform: the refresh token it will exchange
    issued,    \* platform: pairs issued so far
    until,     \* platform: until when it accepts each access token
    late,      \* refresh requests given up by their callers that may still arrive
    now,       \* the clock
    calls,     \* calls so far, up to MaxCalls
    pc,        \* where each caller is
    pair,      \* the pair it works with
    since,     \* when it began that
    presented, \* history: how often each refresh token was sent to the platform
    excused    \* history: refresh tokens whose exchange was not stored, or put back

platform == <<good, issued, until>>
caller == <<pc, pair, since>>
history == <<presented, excused>>
vars == <<row, holder, env, seed, platform, late, now, calls, caller, history>>

Tokens == [access : MaybePair, refresh : MaybePair]
Row == [access : MaybePair, refresh : MaybePair, expires : Times]
NoRow == [access |-> 0, refresh |-> 0, expires |-> 0]
NoSeed == [running |-> FALSE]
Seeding == [running : {TRUE}, tokens : Tokens, seen : Row]

Locked == {"exchange", "store"}    \* places where a caller has the row's lock

TypeOK ==
    /\ row \in Row
    /\ env \in Tokens
    /\ seed \in Seeding \cup {NoSeed}
    /\ good \in MaybePair /\ issued \in Pairs
    /\ until \in [Pairs -> Times]
    /\ late \in [Pairs -> Nat]
    /\ now \in 0..MaxTime /\ calls \in 0..MaxCalls
    /\ pc \in [Callers -> {"idle", "wait", "exchange", "store", "use"}]
    /\ pair \in [Callers -> MaybePair]
    /\ since \in [Callers -> 0..MaxTime]
    /\ presented \in [Pairs -> Nat]
    /\ excused \subseteq Pairs
    /\ holder \subseteq Callers
    /\ \A v, w \in holder : v = w
    /\ \A w \in Callers :
          /\ pc[w] \in Locked <=> w \in holder
          /\ pc[w] \in Locked \cup {"use"} => pair[w] \in 1..issued

\* The operator has authorised the service, which gave the first pair, and put it
\* into the environment, with or without the refresh token.  Nothing is stored.
Init ==
    /\ row = NoRow
    /\ holder = {}
    /\ env \in [access : {1}, refresh : {0, 1}]
    /\ seed = NoSeed
    /\ good = 1 /\ issued = 1
    /\ until = [g \in Pairs |-> IF g = 1 THEN Lifetime ELSE 0]
    /\ late = [g \in Pairs |-> 0]
    /\ now = 0 /\ calls = 0
    /\ pc = [w \in Callers |-> "idle"]
    /\ pair = [w \in Callers |-> 0]
    /\ since = [w \in Callers |-> 0]
    /\ presented = [g \in Pairs |-> 0]
    /\ excused = {}
-----------------------------------------------------------------------------
\* The platform issues a pair, whose access token it accepts for a lifetime.
Issue ==
    /\ issued < MaxPairs
    /\ issued' = issued + 1
    /\ good' = issued + 1
    /\ until' = [until EXCEPT ![issued + 1] = now + Lifetime]

\* It is presented a refresh token that it does not exchange, an old one perhaps.
Refuse(g) ==
    \/ UNCHANGED platform
    \/ g # good /\ good' = 0 /\ UNCHANGED <<issued, until>>

\* The operator authorises the service again and edits the environment.
Authorise ==
    /\ Issue
    /\ env' \in [access : {issued + 1}, refresh : {0, issued + 1}]
    /\ UNCHANGED <<row, holder, seed, late, now, calls, caller, history>>

\* A request that its caller has given up arrives.
Arrive(g) ==
    /\ late[g] > 0
    /\ late' = [late EXCEPT ![g] = @ - 1]
    /\ \/ g = good /\ Issue
       \/ Refuse(g)
    /\ UNCHANGED <<row, holder, env, seed, now, calls, caller, history>>
-----------------------------------------------------------------------------
Becomes(w, place, g) ==
    /\ pc' = [pc EXCEPT ![w] = place]
    /\ pair' = [pair EXCEPT ![w] = g]
    /\ since' = [since EXCEPT ![w] = IF place \in {"idle", "wait"} THEN 0 ELSE now]

\* A request to the platform needs the token.
Call(w) ==
    /\ pc[w] = "idle" /\ calls < MaxCalls
    /\ calls' = calls + 1
    /\ Becomes(w, "wait", 0)
    /\ UNCHANGED <<row, holder, env, seed, platform, late, now, history>>

\* Faulty: without the margin.
DueWhenExpired == row.expires <= now

\* `expires_within`.
Due == row.expires < now + Margin

\* Faulty: SELECT without FOR UPDATE.
ObtainUnlocked(w) == pc[w] = "wait" /\ row.access # 0

\* SELECT ... FOR UPDATE: the row as it is once its lock is free.
Obtain(w) == pc[w] = "wait" /\ holder = {} /\ row.access # 0

\* No row: AuthError.
Missing(w) ==
    /\ pc[w] = "wait" /\ row.access = 0
    /\ Becomes(w, "idle", 0)
    /\ UNCHANGED <<row, holder, env, seed, platform, late, now, calls, history>>

\* The stored token will do.
Return(w) ==
    /\ Obtain(w) /\ ~Due
    /\ Becomes(w, "use", row.access)
    /\ UNCHANGED <<row, holder, env, seed, platform, late, now, calls, history>>

\* It is due and there is no refresh token: AuthError.
Unrefreshable(w) ==
    /\ Obtain(w) /\ Due /\ row.refresh = 0
    /\ Becomes(w, "idle", 0)
    /\ UNCHANGED <<row, holder, env, seed, platform, late, now, calls, history>>

\* Faulty: whether there is a refresh token is not looked at.
RefreshAnything(w) ==
    /\ Obtain(w) /\ Due
    /\ Becomes(w, "exchange", row.refresh)
    /\ holder' = {w}
    /\ presented' = [g \in Pairs |-> presented[g] + (IF g = row.refresh THEN 1 ELSE 0)]
    /\ UNCHANGED <<row, env, seed, platform, late, now, calls, excused>>

\* It is due: the refresh token is sent while the row stays locked.
Refresh(w) ==
    /\ Obtain(w) /\ Due /\ row.refresh # 0
    /\ Becomes(w, "exchange", row.refresh)
    /\ holder' = {w}
    /\ presented' = [presented EXCEPT ![row.refresh] = @ + 1]
    /\ UNCHANGED <<row, env, seed, platform, late, now, calls, excused>>

\* Faulty: the transaction is left open.
LeavesOpen(w) ==
    /\ Becomes(w, "idle", 0)
    /\ excused' = excused \cup {row.refresh}
    /\ UNCHANGED <<row, holder, env, seed, now, calls, presented>>

\* The exception leaves session_scope: the row keeps the token that was presented.
RollsBack(w) ==
    /\ Becomes(w, "idle", 0)
    /\ holder' = {}
    /\ excused' = excused \cup {row.refresh}
    /\ UNCHANGED <<row, env, seed, now, calls, presented>>

\* The platform exchanges the token, and the answer arrives.
Granted(w) ==
    /\ pc[w] = "exchange" /\ pair[w] = good
    /\ Issue
    /\ pc' = [pc EXCEPT ![w] = "store"]
    /\ pair' = [pair EXCEPT ![w] = issued + 1]
    /\ UNCHANGED <<row, holder, env, seed, late, now, calls, since, history>>

\* The request or its answer is lost, or the platform refuses, or is too late.
NotGranted(w) ==
    /\ pc[w] = "exchange"
    /\ RollsBack(w)
    /\ \/ UNCHANGED late /\ pair[w] = good /\ Issue
       \/ UNCHANGED late /\ Refuse(pair[w])
       \/ late' = [late EXCEPT ![pair[w]] = @ + 1] /\ UNCHANGED platform

\* The new pair is stored with its expiry counted from the clock, and committed;
\* the commit's own answer may be lost.
Store(w) ==
    /\ pc[w] = "store"
    /\ row' = [access |-> pair[w], refresh |-> pair[w], expires |-> now + Lifetime]
    /\ holder' = {}
    /\ Becomes(w, "use", pair[w]) \/ Becomes(w, "idle", 0)
    /\ UNCHANGED <<env, seed, platform, late, now, calls, history>>

\* The commit fails, or the worker dies; the server rolls back.
Dies(w) ==
    /\ pc[w] \in Locked
    /\ RollsBack(w)
    /\ UNCHANGED <<platform, late>>

\* The request has reached the platform, or was not made.
Used(w) ==
    /\ pc[w] = "use"
    /\ Becomes(w, "idle", 0)
    /\ UNCHANGED <<row, holder, env, seed, platform, late, now, calls, history>>
-----------------------------------------------------------------------------
\* seed_from_settings: the tokens are due at once.  The row is read without a lock.
BeginSeed ==
    /\ seed = NoSeed
    /\ seed' = [running |-> TRUE, tokens |-> env, seen |-> row]
    /\ UNCHANGED <<row, holder, env, platform, late, now, calls, caller, history>>

SeedFails ==
    /\ seed # NoSeed
    /\ seed' = NoSeed
    /\ UNCHANGED <<row, holder, env, platform, late, now, calls, caller, history>>

\* A column is written if it differs from what was read.
Column(new, seen, old) == IF new # seen THEN new ELSE old

\* `refresh_token or row.refresh_token`.
KeptRefresh == IF seed.tokens.refresh # 0 THEN seed.tokens.refresh ELSE seed.seen.refresh

\* An expiry that has passed is due for ever: all of them are 0.
Seeded ==
    [access |-> Column(seed.tokens.access, seed.seen.access, row.access),
     refresh |-> Column(KeptRefresh, seed.seen.refresh, row.refresh),
     expires |-> 0]

\* The UPDATE waits for the row's lock.  An INSERT fails if another was first, as
\* here the row would have been there: there is one run of the script at a time.
Seed ==
    /\ seed # NoSeed /\ holder = {}
    /\ row' = Seeded
    /\ excused' = excused \cup {g \in {Seeded.refresh} \ {0, row.refresh} : presented[g] > 0}
    /\ seed' = NoSeed
    /\ UNCHANGED <<holder, env, platform, late, now, calls, caller, presented>>

\* The clock.  How long a refresh and a request take is bounded by assumption; the
\* client's timeouts are of single operations and allow more than the margin.
Tick ==
    /\ now < MaxTime
    /\ \A w \in Callers :
          /\ pc[w] \in Locked => now < since[w] + Refreshing
          /\ pc[w] = "use" => now < since[w] + Using
    /\ now' = now + 1
    /\ UNCHANGED <<row, holder, env, seed, platform, late, calls, caller, history>>
-----------------------------------------------------------------------------
Decides(w) == Missing(w) \/ Return(w) \/ Unrefreshable(w) \/ Refresh(w)
Exchanges(w) == Granted(w) \/ NotGranted(w)

Next ==
    \/ \E w \in Callers :
          Call(w) \/ Decides(w) \/ Exchanges(w) \/ Store(w) \/ Dies(w) \/ Used(w)
    \/ \E g \in Pairs : Arrive(g)
    \/ Authorise \/ BeginSeed \/ SeedFails \/ Seed \/ Tick

Spec == Init /\ [][Next]_vars

\* Postgres grants a row lock to its waiters in turn; a refresh is ended by the
\* client's timeouts, and a commit by the connection.
FairSpec ==
    /\ Spec
    /\ \A w \in Callers :
          SF_vars(Decides(w)) /\ WF_vars(Exchanges(w)) /\ WF_vars(Store(w) \/ Dies(w))
-----------------------------------------------------------------------------
\* Workers that find the token due at once do not burn a refresh token twice: each
\* is sent to the platform once, unless its exchange failed or was not stored, or
\* a re-run of the seeding put it back (the row lock of get_access_token).
SpentOnce == \A g \in Pairs : presented[g] <= 1 \/ g \in excused

\* "An in-flight upload never straddles" the expiry: the token has not expired at
\* the platform when the request that was given it arrives, although the expiry is
\* stored as counted from a later clock than the platform's, and the row may have
\* been seeded or refreshed by another worker while the caller waited.  It rests on
\* the assumption that a refresh and a request fit into the margin.
TokenOutlivesRequest == \A w \in Callers : pc[w] = "use" => now <= until[pair[w]]

\* Every call returns a token or raises, however others fail while they hold the
\* lock it waits for.
CallsEnd == \A w \in Callers : pc[w] \in Locked \cup {"wait"} ~> pc[w] \in {"use", "idle"}
=============================================================================
