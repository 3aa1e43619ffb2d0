----------------------------- MODULE Simulation ------------------------------
(***************************************************************************)
(* The rehearsal of a trigger, app/api/simulate.py, next to the real       *)
(* switch of the same user: steps 1 to 3 and the reset on heartbeats with  *)
(* a sim- token, the confirmation of a link (app/api/heartbeat.py), and    *)
(* what the dashboard shows (app/api/web.py).  The deliveries of step 4    *)
(* are in Vault, here it only logs them; the passes of the two jobs are in *)
(* CheckIn, here each heartbeat they send or judge is one step, and how    *)
(* much time has passed is left open.                                      *)
(*                                                                         *)
(* Sessions are as in CheckIn: a step is what runs between two awaits, a   *)
(* SELECT flushes what its session has pending, one session at a time      *)
(* holds uncommitted writes and the others read what is committed.         *)
(***************************************************************************)
EXTENDS Integers, FiniteSets

CONSTANTS
    Requests,         \* HTTP requests that may be in progress at a time
    Nobody,
    Threshold,        \* missed_threshold of the user
    PageSize,         \* heartbeats the dashboard lists: 10 in the code
    MaxBeats,         \* bound on the heartbeats, real or simulated
    MaxFirings        \* bound on the triggers, real or simulated

Beats == 1 .. MaxBeats      \* in the order of their sent_at

ASSUME SimulationAssumption ==
    /\ Nobody \notin Requests
    /\ Threshold \in Nat \ {0} /\ PageSize \in Nat
    /\ MaxBeats \in Nat /\ MaxFirings \in Nat

-----------------------------------------------------------------------------
(* The database.                                                           *)

Status == {"none", "sent", "escalated", "missed", "responded", "deleted"}

BeatRow    == [sim: BOOLEAN, status: Status]         \* has it a sim- token?
TriggerLog == [sim: BOOLEAN, id: 1 .. MaxFirings]    \* is it [SIMULATION]?

Database == [beats: [Beats -> BeatRow], misses: 0 .. MaxBeats,
             log: SUBSET TriggerLog]

Steps == {"idle", "push", "email", "count", "fire", "forget", "forget log",
          "reply", "open", "confirm"}

Task == [pc: Steps, beat: Beats \cup {0}, change: Status,
         misses: 0 .. MaxBeats, forget: SUBSET Beats, log: SUBSET TriggerLog,
         resets: BOOLEAN]

Idle == [pc |-> "idle", beat |-> 0, change |-> "none", misses |-> 0,
         forget |-> {}, log |-> {}, resets |-> FALSE]

VARIABLES
    db,        \* the committed database
    wal,       \* the database as the session holding the write lock sees it
    writer,    \* the session holding SQLite's write lock
    task,      \* what each request is doing
    issued,    \* how many heartbeats were inserted
    fired,     \* how many triggers were fired
    known      \* heartbeats whose link the user has received

store == <<db, wal, writer>>
vars  == <<db, wal, writer, task, issued, fired, known>>

TypeOK ==
    /\ db \in Database /\ wal \in Database
    /\ writer \in Requests \cup {Nobody}
    /\ task \in [Requests -> Task]
    /\ issued \in 0 .. MaxBeats /\ fired \in 0 .. MaxFirings
    /\ known \in SUBSET Beats

Init ==
    /\ db = [beats  |-> [b \in Beats |-> [sim |-> FALSE, status |-> "none"]],
             misses |-> 0, log |-> {}]
    /\ wal = db
    /\ writer = Nobody
    /\ task = [q \in Requests |-> Idle]
    /\ issued = 0 /\ fired = 0
    /\ known = {}

Seen(q) == IF writer = q THEN wal ELSE db

LockFree(q) == writer \in {Nobody, q}

Goto(q, t) == task' = [task EXCEPT ![q] = t]

\* q writes d and keeps the lock until it commits.
Flush(q, d) == /\ LockFree(q)
               /\ wal' = d /\ writer' = q
               /\ UNCHANGED db

\* A session writes d and commits at once.
Save(d) == /\ writer = Nobody
           /\ db' = d /\ wal' = d
           /\ UNCHANGED writer

-----------------------------------------------------------------------------
(* Queries.                                                                *)

Stored(row) == row.status \notin {"none", "deleted"}
Open(row)   == row.status \in {"sent", "escalated"}

\* Mutant: a new heartbeat has a status that no query asks for.
NewBeat_Pending(sim) == [sim |-> sim, status |-> "pending"]

NewBeat(sim) == [sim |-> sim, status |-> "sent"]

Simulated(beats) == {b \in Beats : beats[b].sim /\ Stored(beats[b])}

\* The simulated heartbeat, if any, that a step goes on with.
Latest(beats, among) ==
    LET found == {b \in Simulated(beats) : beats[b].status \in among}
    IN  {b \in found : \A c \in found : c <= b}

CountSimMisses(d) ==
    Cardinality({b \in Simulated(d.beats) : d.beats[b].status = "missed"})

\* Mutant: the checker takes simulated heartbeats for real ones.
Outstanding_AnyToken(beats) == {b \in Beats : Open(beats[b])}

\* The heartbeats that the jobs escalate and judge.
Outstanding(beats) == {b \in Beats : Open(beats[b]) /\ ~ beats[b].sim}

LatestOf(S) == {b \in S : Cardinality({c \in S : c > b}) < PageSize}

\* Mutant: a page of the newest heartbeats is cut before the filter.
Recent_FilteredLast(beats) ==
    {b \in LatestOf({c \in Beats : Stored(beats[c])}) : ~ beats[b].sim}

\* The heartbeats on the dashboard and in the history.
Recent(beats) == LatestOf({b \in Beats : Stored(beats[b]) /\ ~ beats[b].sim})

TriggersFired(log) == Cardinality({l \in log : ~ l.sim})

Dashboard(d) == [recent   |-> [b \in Recent(d.beats) |-> d.beats[b].status],
                 misses   |-> d.misses,
                 triggers |-> TriggersFired(d.log)]

-----------------------------------------------------------------------------
(* The steps of the rehearsal.                                             *)

\* Step 1 inserts a heartbeat, and holds the lock while it is sent out.
SendSimulated(q) ==
    LET b == issued + 1 IN
    /\ task[q].pc = "idle" /\ issued < MaxBeats
    /\ Flush(q, [db EXCEPT !.beats[b] = NewBeat(TRUE)])
    /\ issued' = b
    /\ Goto(q, [Idle EXCEPT !.pc = "push", !.beat = b])
    /\ UNCHANGED <<fired, known>>

\* Mutant: the session commits before the heartbeat is sent out.
Push_Committed(q, accepted) ==
    /\ task[q].pc = "push"
    /\ db' = wal /\ writer' = Nobody
    /\ known' = IF accepted THEN known \cup {task[q].beat} ELSE known
    /\ Goto(q, [task[q] EXCEPT !.pc = "email"])
    /\ UNCHANGED <<wal, issued, fired>>

\* The push goes out first; it is not accepted when the user has no topic.
Push(q, accepted) ==
    /\ task[q].pc = "push"
    /\ known' = IF accepted THEN known \cup {task[q].beat} ELSE known
    /\ Goto(q, [task[q] EXCEPT !.pc = "email"])
    /\ UNCHANGED <<store, issued, fired>>

\* Steps 2 and 3 take the latest simulated heartbeat that they apply to.  Step
\* 2 sends its email before it writes.
OpenStep(q, change) ==
    LET among == IF change = "escalated" THEN {"sent"}
                                         ELSE {"sent", "escalated"} IN
    /\ task[q].pc = "idle"
    /\ \E b \in Latest(db.beats, among) :
           Goto(q, [Idle EXCEPT !.beat = b, !.change = change,
                                !.pc = IF change = "escalated" THEN "email"
                                                               ELSE "count"])
    /\ UNCHANGED <<store, issued, fired, known>>

Email(q, accepted) ==
    /\ task[q].pc = "email"
    /\ known' = IF accepted THEN known \cup {task[q].beat} ELSE known
    /\ Goto(q, [task[q] EXCEPT !.pc = "count"])
    /\ UNCHANGED <<store, issued, fired>>

\* An UPDATE of a row that is gone raises StaleDataError.
Writable(q) == Seen(q).beats[task[q].beat].status # "deleted"

\* The new status is flushed before the misses are counted.
Count(q) ==
    LET changed == task[q].change # "none"
        d       == IF changed
                   THEN [Seen(q) EXCEPT
                            !.beats[task[q].beat].status = task[q].change]
                   ELSE Seen(q)
    IN  /\ task[q].pc = "count"
        /\ IF changed THEN Writable(q) /\ Flush(q, d) ELSE UNCHANGED store
        /\ Goto(q, [Idle EXCEPT !.pc = "reply", !.misses = CountSimMisses(d)])
        /\ UNCHANGED <<issued, fired, known>>

\* Step 4: the emails go out, accepted or not, and are logged.
FireSimulated(q) ==
    /\ task[q].pc = "idle" /\ fired < MaxFirings
    /\ fired' = fired + 1
    /\ Goto(q, [Idle EXCEPT !.pc = "fire",
                            !.log = {[sim |-> TRUE, id |-> fired + 1]}])
    /\ UNCHANGED <<store, issued, known>>

LogSimulated(q) ==
    /\ task[q].pc = "fire"
    /\ Flush(q, [Seen(q) EXCEPT !.log = @ \cup task[q].log])
    /\ Goto(q, [Idle EXCEPT !.pc = "count"])
    /\ UNCHANGED <<issued, fired, known>>

OpenReset(q) ==
    /\ task[q].pc = "idle"
    /\ Goto(q, [Idle EXCEPT !.pc = "forget", !.resets = TRUE,
                            !.forget = Simulated(db.beats)])
    /\ UNCHANGED <<store, issued, fired, known>>

Without(d, S) ==
    [d EXCEPT !.beats = [b \in Beats |->
        IF b \in S THEN [d.beats[b] EXCEPT !.status = "deleted"]
                   ELSE d.beats[b]]]

\* The heartbeats are deleted, whatever has become of them, by the SELECT of
\* the log entries.
ForgetBeats(q) ==
    LET d == Without(Seen(q), task[q].forget) IN
    /\ task[q].pc = "forget"
    /\ IF task[q].forget = {} THEN UNCHANGED store ELSE Flush(q, d)
    /\ Goto(q, [task[q] EXCEPT !.pc = "forget log",
                               !.log = {l \in d.log : l.sim}])
    /\ UNCHANGED <<issued, fired, known>>

ForgetLog(q) ==
    /\ task[q].pc = "forget log"
    /\ IF task[q].log = {} THEN UNCHANGED store
       ELSE Flush(q, [Seen(q) EXCEPT !.log = @ \ task[q].log])
    /\ Goto(q, [task[q] EXCEPT !.pc = "reply"])
    /\ UNCHANGED <<issued, fired, known>>

\* The session is committed, and the reply tells how many misses there are.
Reply(q) ==
    /\ task[q].pc = "reply"
    /\ IF writer = q THEN db' = wal /\ writer' = Nobody /\ UNCHANGED wal
                     ELSE UNCHANGED store
    /\ Goto(q, Idle)
    /\ UNCHANGED <<issued, fired, known>>

-----------------------------------------------------------------------------
(* A tapped link, and the jobs.                                            *)

OpenLink(q) ==
    /\ task[q].pc = "idle"
    /\ \E b \in known : /\ Open(db.beats[b])
                        /\ Goto(q, [Idle EXCEPT !.pc = "open", !.beat = b])
    /\ UNCHANGED <<store, issued, fired, known>>

FindUser(q) ==
    /\ task[q].pc = "open"
    /\ Goto(q, [task[q] EXCEPT !.pc = "confirm", !.misses = db.misses])
    /\ UNCHANGED <<store, issued, fired, known>>

\* A counter loaded as 0 is not written.
Confirm(q) ==
    /\ task[q].pc = "confirm" /\ Writable(q)
    /\ Save([db EXCEPT !.beats[task[q].beat].status = "responded",
                       !.misses = IF task[q].misses = 0 THEN @ ELSE 0])
    /\ Goto(q, Idle)
    /\ UNCHANGED <<issued, fired, known>>

\* The dispatcher sends a heartbeat.
SendReal ==
    /\ issued < MaxBeats
    /\ Save([db EXCEPT !.beats[issued + 1] = NewBeat(FALSE)])
    /\ issued' = issued + 1
    /\ known' = known \cup {issued'}
    /\ UNCHANGED <<task, fired>>

\* The checker escalates a heartbeat ...
EscalateReal ==
    \E b \in Outstanding(db.beats) :
        /\ db.beats[b].status = "sent"
        /\ Save([db EXCEPT !.beats[b].status = "escalated"])
        /\ UNCHANGED <<task, issued, fired, known>>

\* ... or counts a miss, and fires the trigger if it was one too many.
JudgeReal ==
    \E b \in Outstanding(db.beats) :
        LET fires == db.misses + 1 >= Threshold
            entry == [sim |-> FALSE, id |-> fired + 1]
        IN  /\ db.beats[b].status = "escalated"
            /\ fires => fired < MaxFirings
            /\ fired' = IF fires THEN fired + 1 ELSE fired
            /\ Save([db EXCEPT !.beats[b].status = "missed",
                               !.misses = @ + 1,
                               !.log = IF fires THEN @ \cup {entry} ELSE @])
            /\ UNCHANGED <<task, issued, known>>

Writes(q) == \/ task[q].pc \in {"fire", "confirm"}
             \/ task[q].pc = "count" /\ task[q].change # "none"
             \/ task[q].pc = "forget" /\ task[q].forget # {}
             \/ task[q].pc = "forget log" /\ task[q].log # {}

\* Waiting too long for the lock, or finding the row gone, ends a request.
Abort(q) ==
    /\ Writes(q)
    /\ ~ LockFree(q) \/ (task[q].beat # 0 /\ ~ Writable(q))
    /\ Goto(q, Idle)
    /\ UNCHANGED <<store, issued, fired, known>>

-----------------------------------------------------------------------------

Rehearse(q) ==
    \/ SendSimulated(q) \/ FireSimulated(q) \/ OpenReset(q)
    \/ \E change \in {"escalated", "missed"} : OpenStep(q, change)
    \/ \E accepted \in BOOLEAN : Push(q, accepted) \/ Email(q, accepted)
    \/ Count(q) \/ LogSimulated(q)
    \/ ForgetBeats(q) \/ ForgetLog(q) \/ Reply(q)

Answer(q) == OpenLink(q) \/ FindUser(q) \/ Confirm(q)

Next == \/ \E q \in Requests : Rehearse(q) \/ Answer(q) \/ Abort(q)
        \/ SendReal \/ EscalateReal \/ JudgeReal

Spec == Init /\ [][Next]_vars

-----------------------------------------------------------------------------
(* Properties.                                                             *)

Rehearsing(q) == task[q].pc \notin {"idle", "open", "confirm"}

\* README.md:39, "it doesn't appear on the dashboard": no step of a rehearsal,
\* whatever it is interleaved with, changes what the dashboard shows of the
\* heartbeats, the misses and the triggers of the real switch.
RehearsalIsInvisible ==
    [][\A q \in Requests : Rehearsing(q) /\ task'[q] # task[q] =>
           Dashboard(db') = Dashboard(db)]_vars

\* README.md:36, "simulation-only counter, not your real miss count": every
\* miss counted for the user is that of a real heartbeat the checker was done
\* with, even if a late link has overwritten its status since.
OnlyRealSilenceCounts ==
    db.misses <= Cardinality({b \in Beats :
                                 /\ ~ db.beats[b].sim
                                 /\ db.beats[b].status \in {"missed", "responded"}})

\* The number of misses in the reply to a step is the number of simulated
\* heartbeats that are missed once that step is committed, although it was
\* counted before: no other step commits in between (_count_sim_misses).
ReplyIsExact ==
    [][\A q \in Requests :
           task[q].pc = "reply" /\ task'[q].pc = "idle" /\ ~ task[q].resets =>
               task[q].misses =
                   Cardinality({b \in Beats : /\ db'.beats[b].sim
                                              /\ db'.beats[b].status = "missed"})
      ]_vars

=============================================================================
