----------------------------- MODULE MCCheckIn ------------------------------
(* Instances of CheckIn for TLC.                                           *)
EXTENDS CheckInPromises, CheckInRefinement, TLC

CONSTANTS u1, u2, a1, a2, r1

\* A day of six hours, of which the user is active in the first five.
Every(interval, threshold) ==
    [interval |-> interval, window |-> 1, threshold |-> threshold,
     start |-> 0, end |-> 5]

Hourly     == Every(1, 1)
TwoMisses  == Every(1, 2)
Spaced     == Every(5, 1)

Recipients1 == (u1 :> {a1})
Recipients2 == (u1 :> {a1, a2} @@ u2 :> {})

Pause   == [active |-> "off", change |-> <<>>]
Resume  == [active |-> "on", change |-> <<>>]

Change  == [active |-> "keep",
            change |-> [interval |-> 3, window |-> 2, start |-> 1]]

NoBodies    == {}
PauseResume == {Pause, Resume}
PauseChange == {Pause, Change}

=============================================================================
