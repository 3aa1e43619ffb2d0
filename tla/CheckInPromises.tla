-------------------------- MODULE CheckInPromises ---------------------------
(***************************************************************************)
(* What the documentation, the comments and the tests of the repository    *)
(* say of CheckIn, and the code does not do.                               *)
(***************************************************************************)
EXTENDS CheckIn

\* app/i18n/lang_en.py:223, "You have already responded to this heartbeat. All
\* good!": a confirmed heartbeat stays confirmed.
ConfirmationIsFinal ==
    [][\A b \in Beats : db.log[b].status = "responded" =>
           db'.log[b].status \in {"responded", "deleted"}]_vars

\* app/services/trigger.py:88, "Deactivate heartbeat after trigger", and
\* app/i18n/lang_en.py:54, "Heartbeat is paused": the trigger does not fire for
\* a user who is paused, or for whom it has fired already.
OnlyActiveUsersTrigger ==
    [][\A j \in Jobs : ~ Firing(j) /\ Firing(j)' =>
           db.users[task[j].who].active]_vars

=============================================================================
