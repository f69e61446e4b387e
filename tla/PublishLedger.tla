---------------------------- MODULE PublishLedger ----------------------------
(***************************************************************************)
(* What publishing promises about one job, whatever the queues, the workers *)
(* and the platform do: a decision to publish (an immediate publish, a      *)
(* release from the backlog, a retry after a failure) licenses one post on  *)
(* the platform; an answer that was lost licenses another, since nobody can *)
(* tell whether the first arrived; and a job leaves the backlog, settles    *)
(* and is reopened only along the arrows below.                             *)
(*                                                                         *)
(*     none -> backlog -> active -> published                               *)
(*       \________|________/   \--> failed --> active                       *)
(*                \-> dropped                                               *)
(***************************************************************************)
EXTENDS Naturals

CONSTANT Jobs

VARIABLES
    status,   \* where a job stands
    licence,  \* how many posts it may have on the platform so far
    posts     \* how many it has

vars == <<status, licence, posts>>

Status == {"none", "backlog", "active", "published", "failed", "dropped"}

Init ==
    /\ status = [j \in Jobs |-> "none"]
    /\ licence = [j \in Jobs |-> 0]
    /\ posts = [j \in Jobs |-> 0]

Move(J, from, to) ==
    /\ \A j \in J : status[j] \in from
    /\ status' = [j \in Jobs |-> IF j \in J THEN to ELSE status[j]]

License(J) == licence' = [j \in Jobs |-> licence[j] + IF j \in J THEN 1 ELSE 0]

\* Into the backlog, or out of it for good.
Shelve(J) == Move(J, {"none"}, "backlog") /\ UNCHANGED <<licence, posts>>
Drop(J) == Move(J, {"backlog"}, "dropped") /\ UNCHANGED <<licence, posts>>

\* A decision to publish.
Decide(J) ==
    /\ Move(J, {"none", "backlog"}, "active") \/ Move(J, {"failed"}, "active")
    /\ License(J)
    /\ UNCHANGED posts

Post(j) ==
    /\ status[j] = "active"
    /\ posts[j] < licence[j]
    /\ posts' = [posts EXCEPT ![j] = @ + 1]
    /\ UNCHANGED <<status, licence>>

LoseAnswer(j) ==
    /\ status[j] = "active"
    /\ License({j})
    /\ UNCHANGED <<status, posts>>

\* Nothing is reported as published that the platform never had.
Settle(j) ==
    /\ \/ posts[j] > 0 /\ Move({j}, {"active"}, "published")
       \/ Move({j}, {"active"}, "failed")
    /\ UNCHANGED <<licence, posts>>

Next ==
    \/ \E J \in SUBSET Jobs : Shelve(J) \/ Drop(J) \/ Decide(J)
    \/ \E j \in Jobs : Post(j) \/ LoseAnswer(j) \/ Settle(j)

Spec == Init /\ [][Next]_vars
=============================================================================
