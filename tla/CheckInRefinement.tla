------------------------- MODULE CheckInRefinement --------------------------
(***************************************************************************)
(* CheckIn implements DeadMansSwitch: what the database holds is what the  *)
(* switch takes a heartbeat for, whatever the sessions have pending.       *)
(***************************************************************************)
EXTENDS CheckIn

Thresholds == {DefaultConfig.threshold} \cup
              {body.change["threshold"] :
                  body \in {x \in Bodies : "threshold" \in DOMAIN x.change}}

Switch == INSTANCE DeadMansSwitch WITH
    owner  <- [b \in Beats |-> db.log[b].user],
    stage  <- [b \in Beats |-> db.log[b].status],
    judged <- counted,
    told   <- mailed

\* README.md:8-11: every interleaving of the jobs and the requests is a
\* behaviour of the switch.  Stages are skipped by no commit, a heartbeat is
\* judged only after its warning, and recipients hear of nobody who has not been
\* silent often enough, even from a pass that is rolled back afterwards.
ImplementsSwitch == Switch!Spec

=============================================================================
