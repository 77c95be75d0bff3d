---------------------------- MODULE MCSourceLease ----------------------------
(***************************************************************************)
(* SourceLease for TLC: where a recovery client is on its way, the studies *)
(* are short: one frame, no retry, no change announced, no restart.        *)
(***************************************************************************)
EXTENDS SourceLease

OneStory ==
    \/ observed = 0
    \/ /\ feed <= 1 /\ study.frame <= 1 /\ study.tries = 0
       /\ beat.pending = 0
       /\ restarts = 0
=============================================================================
