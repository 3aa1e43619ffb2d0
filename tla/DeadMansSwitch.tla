--------------------------- MODULE DeadMansSwitch ---------------------------
(***************************************************************************)
(* What the service promises (README.md:8-11), without its jobs, sessions  *)
(* and requests: heartbeats go through their stages in an order in which   *)
(* the user is always warned in time, and the recipients hear of a user    *)
(* only after enough of the user's heartbeats went unanswered.             *)
(***************************************************************************)
EXTENDS Integers, FiniteSets

CONSTANTS Users, Recipients, RecipientsOf, Beats, Nobody,
          Thresholds    \* numbers of misses that may fire the trigger

VARIABLES
    owner,     \* whose heartbeat it is, once it is sent
    stage,     \* what the service takes each heartbeat for
    warned,    \* heartbeats whose escalation email was sent
    judged,    \* heartbeats that were found unanswered
    told       \* how many emails each recipient received

switch == <<owner, stage, warned, judged, told>>

Init == /\ owner = [b \in Beats |-> Nobody]
        /\ stage = [b \in Beats |-> "none"]
        /\ warned = {} /\ judged = {}
        /\ told = [r \in Recipients |-> 0]

\* The stages that may come next.  An answer is final only against the job
\* that did not know of it: a job that loaded the heartbeat before may still
\* overrule it, as an answer that was late overrules the job.
Follows(b, next) ==
    \/ stage[b] = "none" /\ next = "sent"
    \/ stage[b] \in {"sent", "escalated", "missed"} /\ next = "responded"
    \/ stage[b] \in {"sent", "responded"} /\ next = "escalated" /\ b \in warned
    \/ stage[b] \in {"escalated", "responded"} /\ next = "missed" /\ b \in judged
    \/ stage[b] \in {"responded", "missed"} /\ next = "deleted"

\* One commit moves any number of heartbeats on.
Advance ==
    /\ stage' # stage
    /\ \A b \in Beats : /\ stage'[b] = stage[b] \/ Follows(b, stage'[b])
                        /\ owner'[b] = owner[b] \/ stage[b] = "none"
    /\ UNCHANGED <<warned, judged, told>>

Warn(b) == /\ stage[b] # "none"
           /\ warned' = warned \cup {b}
           /\ UNCHANGED <<owner, stage, judged, told>>

Judge(b) == /\ b \in warned
            /\ judged' = judged \cup {b}
            /\ UNCHANGED <<owner, stage, warned, told>>

Tell(u, r) ==
    /\ r \in RecipientsOf[u]
    /\ \E n \in Thresholds : Cardinality({b \in judged : owner[b] = u}) >= n
    /\ told' = [told EXCEPT ![r] = @ + 1]
    /\ UNCHANGED <<owner, stage, warned, judged>>

Next == \/ Advance
        \/ \E b \in Beats : Warn(b) \/ Judge(b)
        \/ \E u \in Users, r \in Recipients : Tell(u, r)

Spec == Init /\ [][Next]_switch

=============================================================================
