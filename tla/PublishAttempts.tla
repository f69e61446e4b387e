---------------------------- MODULE PublishAttempts ----------------------------
(***************************************************************************)
(* What `Publisher.publish` does for one job over the attempts that          *)
(* run_publish_job makes, as the pipeline sees it: an attempt posts once at  *)
(* most; it ends with the post's id only if it has posted, or it is tried    *)
(* again, or it fails, and neither end of the latter two tells whether it    *)
(* has posted.  A platform that is given the file with a single request      *)
(* cannot tell that it is repeated, and may post each time.                  *)
(***************************************************************************)
EXTENDS Naturals

CONSTANT MaxAttempts

VARIABLES
    attempt,   \* which attempt it is
    stage,     \* of the attempt: nothing posted yet, posted, or how it ended
    posts,     \* posts that all attempts have made
    repeats    \* whether a repeated request posts again

vars == <<attempt, stage, posts, repeats>>

Open == {"calling", "posted"}

Init ==
    /\ attempt = 1
    /\ stage = "calling"
    /\ posts = 0
    /\ repeats \in BOOLEAN

Calls == stage \in Open /\ UNCHANGED repeats

Posts == (stage = "calling" \/ repeats) /\ posts' = posts + 1
PostsNot == UNCHANGED posts

\* Posted by now.
Posted == stage = "posted" \/ posts' # posts

\* A request that may post, and what becomes of the attempt.
GoesOn == (stage' = IF Posted THEN "posted" ELSE "calling") /\ UNCHANGED attempt
ReturnsId == Posted /\ stage' = "started" /\ UNCHANGED attempt
Fails == stage' = "failed" /\ UNCHANGED attempt
TriesAgain == attempt < MaxAttempts /\ attempt' = attempt + 1 /\ stage' = "calling"

Next ==
    /\ Calls
    /\ Posts \/ PostsNot
    /\ GoesOn \/ ReturnsId \/ Fails \/ TriesAgain

Spec == Init /\ [][Next]_vars
=============================================================================
