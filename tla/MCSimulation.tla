---------------------------- MODULE MCSimulation -----------------------------
(* Instances of Simulation for TLC, and what the documentation says of it   *)
(* and the code does not do.                                                *)
EXTENDS Simulation, TLC

CONSTANTS q1, q2

Alike == Permutations(Requests)

\* README.md:39, "Simulation data is fully isolated: [it] doesn't affect your
\* consecutive miss counter", and app/api/simulate.py:3, "does not modify
\* user.consecutive_misses": neither a step of the rehearsal nor the answer to
\* one of its heartbeats changes the counter.
FullyIsolated ==
    [][\A q \in Requests :
           task'[q] # task[q] /\ task[q].beat # 0 /\ db.beats[task[q].beat].sim
               => db'.misses = db.misses]_vars

=============================================================================
