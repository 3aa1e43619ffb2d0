------------------------------ MODULE CheckIn -------------------------------
(***************************************************************************)
(* The dead-man's switch at run time: the two periodic jobs of             *)
(* app/services/scheduler.py (heartbeat_dispatcher, check_escalations),    *)
(* the trigger they fire (app/services/trigger.py), the log clean-up, and  *)
(* the request handlers of app/api/heartbeat.py that race with them.       *)
(*                                                                         *)
(* Everything runs in one asyncio process: a step is what runs between two *)
(* awaits.  Each job pass and each request works in an SQLAlchemy session  *)
(* of its own.  A session keeps the rows it has loaded (they are not read  *)
(* again: expire_on_commit=False, and a SELECT does not refresh a loaded   *)
(* object), and a flush writes the columns whose value differs from the    *)
(* one loaded.  SQLite lets one session at a time hold uncommitted writes; *)
(* the others read what is committed, and fail when they wait too long to  *)
(* write.                                                                  *)
(*                                                                         *)
(* Time is counted in hours.  A pass or a request takes less than one.     *)
(***************************************************************************)
EXTENDS Integers, FiniteSets

CONSTANTS
    Users,
    Recipients,
    RecipientsOf,     \* [Users -> SUBSET Recipients], each with a secret
    Requests,         \* HTTP requests that may be in progress at a time
    Nobody,
    HoursPerDay,      \* 24 in the code
    Horizon,          \* how far back check_escalations looks: 24 in the code
    Retention,        \* age at which settled logs are removed: 90 days
    DefaultConfig,    \* the settings of a new user
    Bodies,           \* bodies of PUT /api/heartbeat/settings
    TimestampsAware,  \* does the database driver return aware datetimes?
    MaxTime,          \* bound on the clock
    MaxBeats,         \* bound on the scheduled heartbeats
    MaxTests,         \* bound on the test heartbeats
    MaxCrashes        \* bound on the crashes

Jobs     == {"dispatcher", "checker"}
Sessions == Jobs \cup Requests

Fields == {"interval", "window", "threshold", "start", "end"}
Config == [Fields -> Nat]

Never == -1

Beats     == 1 .. MaxBeats + MaxTests
Scheduled == 1 .. MaxBeats               \* the others have test- tokens

ASSUME CheckInAssumption ==
    /\ IsFiniteSet(Users) /\ IsFiniteSet(Recipients)
    /\ RecipientsOf \in [Users -> SUBSET Recipients]
    /\ Requests \cap Jobs = {}
    /\ Nobody \notin Users \cup Sessions
    /\ HoursPerDay \in Nat \ {0}
    /\ Horizon \in Nat /\ Retention \in Nat
    /\ DefaultConfig \in Config
    \* a body gives some fields a value and may pause or resume the user
    /\ \A body \in Bodies : /\ body.active \in {"keep", "on", "off"}
                            /\ DOMAIN body.change \subseteq Fields
                            /\ \A f \in DOMAIN body.change :
                                   body.change[f] \in Nat
    /\ TimestampsAware \in BOOLEAN
    /\ MaxTime \in Nat /\ MaxBeats \in Nat /\ MaxTests \in Nat
    /\ MaxCrashes \in Nat

-----------------------------------------------------------------------------
(* The database.                                                           *)

Status == {"none", "sent", "escalated", "missed", "responded", "deleted"}

UserRow == [active: BOOLEAN, misses: Nat, last: Int, next: Int,
            config: Config]
BeatRow == [user: Users \cup {Nobody}, status: Status, sentAt: Int,
            escAt: Int]

Cache    == [users: [Users -> UserRow], log: [Beats -> BeatRow]]
Database == [users: [Users -> UserRow], log: [Beats -> BeatRow],
             audit: [Recipients -> Nat]]

\* The row of a user that a session has not loaded.
Unloaded == [active |-> TRUE, misses |-> 0, last |-> Never, next |-> Never,
             config |-> DefaultConfig]
NoBeat  == [user |-> Nobody, status |-> "none", sentAt |-> Never,
            escAt |-> Never]
Empty   == [users |-> [u \in Users |-> Unloaded],
            log   |-> [b \in Beats |-> NoBeat]]

Steps == {"idle", "scan", "check", "mail", "trigger", "deactivate", "commit",
          "notify", "open", "confirm", "settings", "test"}

Task == [pc: Steps, queue: SUBSET Users, loaded: SUBSET Users,
         who: Users \cup {Nobody}, rest: SUBSET Beats, beat: Beats \cup {0},
         todo: SUBSET Recipients, pend: SUBSET Beats]

Idle == [pc |-> "idle", queue |-> {}, loaded |-> {}, who |-> Nobody,
         rest |-> {}, beat |-> 0, todo |-> {}, pend |-> {}]

VARIABLES
    now,       \* the clock
    up,        \* is the process running?
    ran,       \* the jobs that have completed a pass since the last tick
    db,        \* the committed database
    wal,       \* the database as the session holding the write lock sees it
    writer,    \* the session holding SQLite's write lock
    task,      \* what each session is doing
    mine,      \* the rows each session has loaded, with its changes
    base,      \* the values those rows had when loaded or last flushed
    issued,    \* how many scheduled and test heartbeats were inserted
    crashes,
    \* what the outside world has seen
    known,     \* heartbeats whose link has been mailed or pushed to the user
    warned,    \* heartbeats whose escalation email was attempted
    counted,   \* heartbeats that some pass has counted as a miss
    mailed,    \* how many emails to each recipient were accepted
    acked      \* how many of these the service was told of in time

store == <<db, wal, writer>>
world == <<known, warned, counted, mailed, acked>>
clock == <<now, up, ran, crashes>>
vars  == <<now, up, ran, db, wal, writer, task, mine, base, issued, crashes,
           known, warned, counted, mailed, acked>>

TypeOK ==
    /\ now \in 0 .. MaxTime
    /\ up \in BOOLEAN
    /\ ran \in SUBSET Jobs
    /\ db \in Database
    /\ wal \in Database
    /\ writer \in Sessions \cup {Nobody}
    /\ task \in [Sessions -> Task]
    /\ mine \in [Sessions -> Cache]
    /\ base \in [Sessions -> Cache]
    /\ issued \in [real: 0 .. MaxBeats, test: 0 .. MaxTests]
    /\ crashes \in 0 .. MaxCrashes
    /\ known \in SUBSET Beats
    /\ warned \in SUBSET Beats
    /\ counted \in SUBSET Beats
    /\ mailed \in [Recipients -> Nat]
    /\ acked \in [Recipients -> Nat]

-----------------------------------------------------------------------------
(* Sessions.                                                               *)

\* What a SELECT of session s reads: the uncommitted rows only if they are its
\* own.
Seen(s) == IF writer = s THEN wal ELSE db

\* An UPDATE sets a column to the session's value if that value was changed
\* since it was loaded, and leaves the row's value otherwise.
Column(row, loaded, current) == IF current = loaded THEN row ELSE current

MergeUser(row, b, m) ==
    [active |-> Column(row.active, b.active, m.active),
     misses |-> Column(row.misses, b.misses, m.misses),
     last   |-> Column(row.last, b.last, m.last),
     next   |-> Column(row.next, b.next, m.next),
     config |-> [f \in Fields |->
                    Column(row.config[f], b.config[f], m.config[f])]]

MergeBeat(row, b, m) ==
    [row EXCEPT !.status = Column(@, b.status, m.status),
                !.escAt  = Column(@, b.escAt, m.escAt)]

\* The database s sees once the changes that lead to the cache m are flushed.
Merged(s, m) ==
    [users |-> [u \in Users |-> MergeUser(Seen(s).users[u],
                                          base[s].users[u], m.users[u])],
     log   |-> [b \in Beats |-> MergeBeat(Seen(s).log[b],
                                         base[s].log[b], m.log[b])],
     audit |-> Seen(s).audit]

LockFree(s) == writer \in {Nobody, s}

\* A flush fails when another session holds the lock for longer than
\* busy_timeout, or when a row to update has been deleted (StaleDataError).
MayWrite(s, m) ==
    /\ LockFree(s)
    /\ \A b \in Beats : m.log[b] # base[s].log[b] =>
                            Seen(s).log[b].status # "deleted"

\* session.flush() when the session holds m; without changes it does nothing.
Flush(s, m) ==
    IF m = base[s]
    THEN UNCHANGED store
    ELSE /\ MayWrite(s, m)
         /\ wal' = Merged(s, m)
         /\ writer' = s
         /\ UNCHANGED db

\* Mutant: nothing is committed unless something is left to flush.
Commit_IfDirty(s, m) ==
    IF m = base[s]
    THEN UNCHANGED store
    ELSE /\ MayWrite(s, m)
         /\ db' = Merged(s, m)
         /\ wal' = Merged(s, m)
         /\ writer' = Nobody

\* session.commit() when the session holds m.
Commit(s, m) ==
    IF m = base[s] /\ writer # s
    THEN UNCHANGED store
    ELSE /\ MayWrite(s, m)
         /\ db' = Merged(s, m)
         /\ wal' = Merged(s, m)
         /\ writer' = Nobody

\* The session holds the rows m, which were b when loaded or last flushed.
Hold(s, m, b) == /\ mine' = [mine EXCEPT ![s] = m]
                 /\ base' = [base EXCEPT ![s] = b]

GoOn(s, t)  == task' = [task EXCEPT ![s] = t]
Goto(s, pc) == GoOn(s, [task[s] EXCEPT !.pc = pc])

\* The session is closed and the pass or the request is over.
Close(s) == /\ Hold(s, Empty, Empty)
            /\ GoOn(s, Idle)

Rollback(s) == /\ UNCHANGED db
               /\ IF writer = s THEN wal' = db /\ writer' = Nobody
                                ELSE UNCHANGED <<wal, writer>>

-----------------------------------------------------------------------------
(* The schedule of a user, with the hour as the unit of time.              *)

Window == INSTANCE ActiveWindow WITH MinutesPerHour <- 1

ComputeNext(config) ==
    Window!ComputeNextHeartbeat(Window!FixedZone(0), now, config.interval,
                                config.start, config.end)

InActiveHours(config) ==
    Window!HourInActiveWindow(Window!HourOf(now), config.start, config.end)

\* Active users without a next heartbeat get one.
Scheduling(users, S) ==
    [u \in Users |-> IF u \in S
                     THEN [users[u] EXCEPT !.next = ComputeNext(users[u].config)]
                     ELSE users[u]]

\* register: the first heartbeat of a new user is scheduled at once.
NewUser == [Unloaded EXCEPT !.next = ComputeNext(DefaultConfig)]

Init ==
    /\ now = 0
    /\ up = TRUE
    /\ ran = {}
    /\ db = [users |-> [u \in Users |-> NewUser], log |-> Empty.log,
             audit |-> [r \in Recipients |-> 0]]
    /\ wal = db
    /\ writer = Nobody
    /\ task = [s \in Sessions |-> Idle]
    /\ mine = [s \in Sessions |-> Empty]
    /\ base = [s \in Sessions |-> Empty]
    /\ issued = [real |-> 0, test |-> 0]
    /\ crashes = 0
    /\ known = {} /\ warned = {} /\ counted = {}
    /\ mailed = [r \in Recipients |-> 0]
    /\ acked = [r \in Recipients |-> 0]

-----------------------------------------------------------------------------
(* heartbeat_dispatcher and check_escalations: one pass over some users.   *)

Open(row) == row.status \in {"sent", "escalated"}

\* Mutant: a user is due only after the hour of the next heartbeat.
Due_Strictly ==
    {u \in Users : LET row == db.users[u]
                   IN  row.active /\ row.next # Never /\ row.next < now}

\* The dispatcher's users: active, and due.
Due == {u \in Users : LET row == db.users[u]
                      IN  row.active /\ row.next # Never /\ row.next <= now}

\* Mutant: an escalated heartbeat is no longer outstanding.
Outstanding_Sent ==
    {u \in Users : \E b \in Beats : /\ db.log[b].user = u
                                    /\ db.log[b].status = "sent"
                                    /\ db.log[b].sentAt > now - Horizon}

\* Mutant: the checker only looks at active users.
Outstanding_Active ==
    {u \in Users : /\ db.users[u].active
                   /\ \E b \in Beats : /\ db.log[b].user = u
                                       /\ Open(db.log[b])
                                       /\ db.log[b].sentAt > now - Horizon}

\* The checker's users: those with a heartbeat, of any kind, sent less than
\* Horizon hours ago and unanswered.  They need not be active.
Outstanding ==
    {u \in Users : \E b \in Beats : /\ db.log[b].user = u
                                    /\ Open(db.log[b])
                                    /\ db.log[b].sentAt > now - Horizon}

\* The model has no heartbeats left for a pass of the dispatcher.
Exhausted == issued.real + Cardinality(Due) > MaxBeats

StartPass(j) ==
    LET selected == IF j = "dispatcher" THEN Due ELSE Outstanding
        loaded   == [Empty EXCEPT !.users =
                        [u \in Users |-> IF u \in selected THEN db.users[u]
                                                           ELSE Unloaded]]
    IN  /\ up
        /\ task[j].pc = "idle"
        /\ j = "dispatcher" => ~ Exhausted
        /\ GoOn(j, [task[j] EXCEPT !.pc = "scan", !.queue = selected,
                                   !.loaded = selected])
        /\ Hold(j, loaded, loaded)
        /\ UNCHANGED <<clock, store, issued, world>>

\* _prepare_heartbeat outside the active hours: only the next time changes.
Reschedule(j, u) ==
    /\ task[j].pc = "scan" /\ u \in task[j].queue
    /\ j = "dispatcher" /\ ~ InActiveHours(mine[j].users[u].config)
    /\ mine' = [mine EXCEPT ![j].users = Scheduling(@, {u})]
    /\ GoOn(j, [task[j] EXCEPT !.queue = @ \ {u}])
    /\ UNCHANGED <<clock, store, base, issued, world>>

\* The heartbeats that _check_outstanding_heartbeats selects.
Expired(log, u, window) ==
    {b \in Scheduled : /\ log[b].user = u
                       /\ Open(log[b])
                       /\ log[b].sentAt < now - window}

\* The SELECT flushes what is pending first.
SelectExpired(j, u) ==
    LET seen    == Merged(j, mine[j]).log
        found   == Expired(seen, u, mine[j].users[u].config.window)
        loaded  == [users |-> mine[j].users,
                    log   |-> [b \in Beats |-> IF b \in found THEN seen[b]
                                                              ELSE NoBeat]]
    IN  /\ task[j].pc = "scan" /\ u \in task[j].queue
        /\ j = "dispatcher" => InActiveHours(mine[j].users[u].config)
        /\ Flush(j, mine[j])
        /\ Hold(j, loaded, loaded)
        /\ GoOn(j, [task[j] EXCEPT !.pc = "check", !.who = u, !.rest = found,
                                   !.queue = @ \ {u}])
        /\ UNCHANGED <<clock, issued, world>>

\* The next expired heartbeat, b, of the user that j is checking.
Checking(j, b) == task[j].pc = "check" /\ b \in task[j].rest

NeedsEscalation(row) == row.status = "sent" /\ row.escAt = Never

\* Mutant: any unanswered heartbeat may be judged.
NeedsVerdict_Open(row) == Open(row)

NeedsVerdict(row) == row.status = "escalated" /\ row.escAt # Never

\* The rows j holds once it has marked b escalated.
Escalated(j, b) ==
    [mine[j] EXCEPT !.log[b] = [@ EXCEPT !.status = "escalated",
                                         !.escAt = now]]

\* The email goes out before the new status is flushed.
Escalate(j, b) ==
    /\ Checking(j, b) /\ NeedsEscalation(mine[j].log[b])
    /\ mine' = [mine EXCEPT ![j] = Escalated(j, b)]
    /\ GoOn(j, [task[j] EXCEPT !.pc = "mail", !.rest = @ \ {b}])
    /\ known' = known \cup {b}
    /\ warned' = warned \cup {b}
    /\ UNCHANGED <<clock, store, base, issued, counted, mailed, acked>>

FlushEscalation(j) ==
    /\ task[j].pc = "mail"
    /\ Flush(j, mine[j])
    /\ Hold(j, mine[j], mine[j])
    /\ Goto(j, "check")
    /\ UNCHANGED <<clock, issued, world>>

\* The escalation time came back from the database without a time zone, and
\* comparing it with the clock raises TypeError; the pass goes on to the next
\* user.
RaiseTypeError(j, b) ==
    /\ Checking(j, b) /\ NeedsVerdict(mine[j].log[b])
    /\ ~ TimestampsAware
    /\ GoOn(j, [task[j] EXCEPT !.pc = "scan", !.who = Nobody, !.rest = {}])
    /\ UNCHANGED <<clock, store, mine, base, issued, world>>

WindowOf(j) == mine[j].users[task[j].who].config.window

\* Mutant: the second window is counted from the sending.
Lapsed_SinceSent(j, b) == now > mine[j].log[b].sentAt + WindowOf(j)

\* The response window has passed a second time, since the escalation.
Lapsed(j, b) == now > mine[j].log[b].escAt + WindowOf(j)

\* Nothing is due for this heartbeat yet.
Leave(j, b) ==
    /\ Checking(j, b) /\ ~ NeedsEscalation(mine[j].log[b])
    /\ NeedsVerdict(mine[j].log[b]) => TimestampsAware /\ ~ Lapsed(j, b)
    /\ GoOn(j, [task[j] EXCEPT !.rest = @ \ {b}])
    /\ UNCHANGED <<clock, store, mine, base, issued, world>>

Missable(j, b) == /\ Checking(j, b) /\ NeedsVerdict(mine[j].log[b])
                  /\ TimestampsAware /\ Lapsed(j, b)

\* The rows j holds once it has marked b missed.
Missed(j, b) ==
    [mine[j] EXCEPT !.log[b].status = "missed",
                    !.users[task[j].who].misses = @ + 1]

\* Mutant: one miss short of the threshold is enough.
AtThreshold_OneShort(user) == user.misses + 1 >= user.config.threshold

AtThreshold(user) == user.misses >= user.config.threshold

\* The miss is flushed, and the trigger starts if it was one too many; without
\* recipients the trigger does nothing.
Miss(j, b) ==
    LET u     == task[j].who
        fires == AtThreshold(Missed(j, b).users[u]) /\ RecipientsOf[u] # {}
    IN  /\ Missable(j, b)
        /\ Flush(j, Missed(j, b))
        /\ Hold(j, Missed(j, b), Missed(j, b))
        /\ counted' = counted \cup {b}
        /\ GoOn(j, [task[j] EXCEPT
                        !.rest = @ \ {b},
                        !.pc   = IF fires THEN "trigger" ELSE @,
                        !.todo = IF fires THEN RecipientsOf[u] ELSE {}])
        /\ UNCHANGED <<clock, issued, known, warned, mailed, acked>>

\* What comes of an email: the mail service refuses it, accepts it and says
\* so, or accepts it and the answer is lost or comes after the timeout.
Outcomes == {"refused", "accepted", "unanswered"}

\* Mutant: the delivery is logged whether or not the email was accepted.
LogsDelivery_Always(outcome) == TRUE

LogsDelivery(outcome) == outcome = "accepted"

\* execute_trigger, for one recipient: a TriggerLog row is added only when the
\* email is known to be accepted, and nothing is retried.
Deliver(j, r, outcome) ==
    /\ task[j].pc = "trigger" /\ r \in task[j].todo
    /\ GoOn(j, [task[j] EXCEPT !.todo = @ \ {r}])
    /\ wal' = IF LogsDelivery(outcome) THEN [wal EXCEPT !.audit[r] = @ + 1]
              ELSE wal
    /\ mailed' = IF outcome # "refused" THEN [mailed EXCEPT ![r] = @ + 1]
                 ELSE mailed
    /\ acked' = IF outcome = "accepted" THEN [acked EXCEPT ![r] = @ + 1]
                ELSE acked
    /\ UNCHANGED <<clock, db, writer, mine, base, issued, known, warned,
                   counted>>

\* The first commit of execute_trigger commits all the pass has done so far.
CommitTrigger(j) ==
    /\ task[j].pc = "trigger" /\ task[j].todo = {}
    /\ Commit(j, mine[j])
    /\ Hold(j, mine[j], mine[j])
    /\ Goto(j, "deactivate")
    /\ UNCHANGED <<clock, issued, world>>

Deactivated(j) ==
    [mine[j] EXCEPT !.users[task[j].who] = [@ EXCEPT !.active = FALSE,
                                                     !.next = Never]]

\* The second one deactivates the user; the loop over the expired heartbeats
\* goes on.
Deactivate(j) ==
    /\ task[j].pc = "deactivate"
    /\ Commit(j, Deactivated(j))
    /\ Hold(j, Deactivated(j), Deactivated(j))
    /\ Goto(j, "check")
    /\ UNCHANGED <<clock, issued, world>>

Checked(j) == task[j].pc = "check" /\ task[j].rest = {}

\* The dispatcher goes on to send the user a heartbeat.
Sends(j) == /\ Checked(j) /\ j = "dispatcher"
            /\ mine[j].users[task[j].who].active

\* Mutant: a user with an expired heartbeat left is looked at again.
NextUser_UntilSettled(j) ==
    LET u    == task[j].who
        left == Expired(mine[j].log, u, mine[j].users[u].config.window)
    IN  /\ Checked(j) /\ ~ Sends(j)
        /\ GoOn(j, [task[j] EXCEPT !.pc = "scan", !.who = Nobody,
                                   !.queue = IF left = {} THEN @ ELSE @ \cup {u}])
        /\ UNCHANGED <<clock, store, mine, base, issued, world>>

NextUser(j) ==
    /\ Checked(j) /\ ~ Sends(j)
    /\ GoOn(j, [task[j] EXCEPT !.pc = "scan", !.who = Nobody])
    /\ UNCHANGED <<clock, store, mine, base, issued, world>>

NewBeat(u) == [user |-> u, status |-> "sent", sentAt |-> now,
               escAt |-> Never]

\* The heartbeat is inserted and flushed; the user's next time is set after.
CreateBeat(j) ==
    LET u == task[j].who
        b == issued.real + 1
    IN  /\ Sends(j)
        /\ MayWrite(j, mine[j])
        /\ wal' = [Merged(j, mine[j]) EXCEPT !.log[b] = NewBeat(u)]
        /\ writer' = j
        /\ Hold(j, [mine[j] EXCEPT !.users = Scheduling(@, {u})], mine[j])
        /\ issued' = [issued EXCEPT !.real = b]
        /\ GoOn(j, [task[j] EXCEPT !.pc = "scan", !.who = Nobody,
                                   !.pend = @ \cup {b}])
        /\ UNCHANGED <<clock, db, world>>

\* After the last user, the dispatcher also schedules the active users that
\* have no next heartbeat; the checker has nothing more to do.
FinishScan(j) ==
    LET seen    == Merged(j, mine[j]).users
        found   == IF j = "dispatcher"
                   THEN {u \in Users : seen[u].active /\ seen[u].next = Never}
                   ELSE {}
        loaded  == [mine[j] EXCEPT !.users =
                        [u \in Users |->
                            IF u \in found \ task[j].loaded THEN seen[u]
                                                            ELSE @[u]]]
    IN  /\ task[j].pc = "scan" /\ task[j].queue = {}
        /\ Flush(j, mine[j])
        /\ Hold(j, [loaded EXCEPT !.users = Scheduling(@, found)], loaded)
        /\ Goto(j, "commit")
        /\ UNCHANGED <<clock, issued, world>>

\* The notifications are sent when the pass has been committed.
FinishPass(j) ==
    /\ task[j].pc = "commit"
    /\ Commit(j, mine[j])
    /\ Hold(j, Empty, Empty)
    /\ GoOn(j, IF task[j].pend = {} THEN Idle
               ELSE [Idle EXCEPT !.pc = "notify", !.pend = task[j].pend])
    /\ ran' = ran \cup {j}
    /\ UNCHANGED <<now, up, crashes, issued, world>>

Notify(j, b) ==
    /\ task[j].pc = "notify" /\ b \in task[j].pend
    /\ known' = known \cup {b}
    /\ GoOn(j, IF task[j].pend = {b} THEN Idle
               ELSE [task[j] EXCEPT !.pend = @ \ {b}])
    /\ UNCHANGED <<clock, store, mine, base, issued, warned, counted, mailed,
                   acked>>

-----------------------------------------------------------------------------
(* The requests of app/api/heartbeat.py.                                   *)

Starts(r) == up /\ task[r].pc = "idle"

\* respond_to_heartbeat: the row is looked up by the token in the link.  An
\* unknown, an answered and a missed heartbeat only get a page.
OpenLink(r, b) ==
    LET loaded == [Empty EXCEPT !.log[b] = db.log[b]]
    IN  /\ Starts(r) /\ b \in known /\ Open(db.log[b])
        /\ GoOn(r, [task[r] EXCEPT !.pc = "open", !.beat = b])
        /\ Hold(r, loaded, loaded)
        /\ UNCHANGED <<clock, store, issued, world>>

FindUser(r) ==
    LET u      == mine[r].log[task[r].beat].user
        loaded == [mine[r] EXCEPT !.users[u] = db.users[u]]
    IN  /\ task[r].pc = "open"
        /\ GoOn(r, [task[r] EXCEPT !.pc = "confirm", !.who = u])
        /\ Hold(r, loaded, loaded)
        /\ UNCHANGED <<clock, store, issued, world>>

\* Mutant: a confirmation takes one miss back instead of all of them.
Responded_TakesOneBack(r) ==
    [mine[r] EXCEPT
        !.log[task[r].beat].status = "responded",
        !.users[task[r].who] = [@ EXCEPT !.misses = @ - 1, !.last = now]]

\* The rows r holds once it has marked the heartbeat responded.
Responded(r) ==
    [mine[r] EXCEPT
        !.log[task[r].beat].status = "responded",
        !.users[task[r].who] = [@ EXCEPT !.misses = 0, !.last = now]]

Confirm(r) ==
    /\ task[r].pc = "confirm"
    /\ Commit(r, Responded(r))
    /\ Close(r)
    /\ UNCHANGED <<clock, issued, world>>

OpenSettings(r, u) ==
    LET loaded == [Empty EXCEPT !.users[u] = db.users[u]]
    IN  /\ Starts(r) /\ Bodies # {}
        /\ GoOn(r, [task[r] EXCEPT !.pc = "settings", !.who = u])
        /\ Hold(r, loaded, loaded)
        /\ UNCHANGED <<clock, store, issued, world>>

Reschedules(body) ==
    DOMAIN body.change \cap {"interval", "start", "end"} # {}
        \/ body.active = "on"

\* update_heartbeat_settings, applied to the row of a user.
Applied(user, body) ==
    LET config == [f \in Fields |-> IF f \in DOMAIN body.change
                                    THEN body.change[f] ELSE user.config[f]]
        active == IF body.active = "keep" THEN user.active
                                          ELSE body.active = "on"
    IN  [user EXCEPT
            !.config = config,
            !.active = active,
            !.misses = IF body.active = "on" THEN 0 ELSE @,
            !.next   = IF Reschedules(body) /\ active THEN ComputeNext(config)
                       ELSE IF body.active = "off" THEN Never ELSE @]

Updated(r, body) == [mine[r] EXCEPT !.users[task[r].who] = Applied(@, body)]

SaveSettings(r, body) ==
    /\ task[r].pc = "settings"
    /\ Commit(r, Updated(r, body))
    /\ Close(r)
    /\ UNCHANGED <<clock, issued, world>>

\* test_heartbeat: the row is flushed, and the link goes out before the commit.
SendTest(r, u) ==
    LET b == MaxBeats + issued.test + 1
    IN  /\ Starts(r) /\ issued.test < MaxTests /\ LockFree(r)
        /\ wal' = [db EXCEPT !.log[b] = NewBeat(u)]
        /\ writer' = r
        /\ issued' = [issued EXCEPT !.test = @ + 1]
        /\ known' = known \cup {b}
        /\ Goto(r, "test")
        /\ UNCHANGED <<clock, db, mine, base, warned, counted, mailed, acked>>

FinishTest(r) ==
    /\ task[r].pc = "test"
    /\ Commit(r, mine[r])
    /\ Close(r)
    /\ UNCHANGED <<clock, issued, world>>

-----------------------------------------------------------------------------
(* Failures, the clean-up and the clock.                                   *)

\* Mutant: an update of a deleted row is tried again and again.
Fails_LockOnly(s, m) == m # base[s] /\ ~ LockFree(s)

\* Session s cannot flush the rows m.
Fails(s, m) == m # base[s] /\ ~ MayWrite(s, m)

\* What s is about to flush fails.
WriteFails(s) ==
    \/ task[s].pc \in {"scan", "mail", "commit"} /\ Fails(s, mine[s])
    \/ \E b \in task[s].rest : Missable(s, b) /\ Fails(s, Missed(s, b))
    \/ task[s].pc = "deactivate" /\ Fails(s, Deactivated(s))
    \/ task[s].pc = "confirm" /\ Fails(s, Responded(s))
    \/ task[s].pc = "settings" /\ \E body \in Bodies : Fails(s, Updated(s, body))
    \/ s \in Jobs /\ Sends(s) /\ ~ LockFree(s)

\* A failed flush ends the pass, or the request with a 500: the session is
\* rolled back, with everything the pass has not committed yet.
Abort(s) ==
    /\ WriteFails(s)
    /\ Rollback(s)
    /\ Close(s)
    /\ UNCHANGED <<clock, issued, world>>

\* cleanup_old_logs
Old(row) == /\ row.sentAt < now - Retention
            /\ row.status \in {"responded", "missed"}

Cleanup ==
    /\ up /\ writer = Nobody
    /\ \E b \in Beats : Old(db.log[b])
    /\ db' = [db EXCEPT !.log =
                 [b \in Beats |-> IF Old(@[b])
                                  THEN [@[b] EXCEPT !.status = "deleted"]
                                  ELSE @[b]]]
    /\ wal' = db'
    /\ UNCHANGED <<clock, writer, task, mine, base, issued, world>>

\* The process dies: the sessions are lost, and what they had not committed.
Crash ==
    /\ up /\ crashes < MaxCrashes
    /\ up' = FALSE
    /\ crashes' = crashes + 1
    /\ wal' = db /\ writer' = Nobody
    /\ task' = [s \in Sessions |-> Idle]
    /\ mine' = [s \in Sessions |-> Empty]
    /\ base' = [s \in Sessions |-> Empty]
    /\ UNCHANGED <<now, ran, db, issued, world>>

\* start_scheduler, before any request or job: active users without a next
\* heartbeat get one.
Restart ==
    /\ ~ up
    /\ up' = TRUE
    /\ db' = [db EXCEPT !.users =
                 Scheduling(@, {u \in Users : @[u].active /\ @[u].next = Never})]
    /\ wal' = db'
    /\ UNCHANGED <<now, ran, crashes, writer, task, mine, base, issued, world>>

\* An hour passes.  While the process runs, each job completes several passes
\* an hour, and a pass or a request does not last beyond it.
Tick ==
    /\ now < MaxTime
    /\ \A s \in Sessions : task[s].pc = "idle"
    /\ up => /\ "checker" \in ran
             /\ "dispatcher" \in ran \/ Exhausted
    /\ now' = now + 1
    /\ ran' = {}
    /\ UNCHANGED <<up, crashes, store, task, mine, base, issued, world>>

-----------------------------------------------------------------------------

Pass(j) ==
    \/ \E u \in Users : Reschedule(j, u) \/ SelectExpired(j, u)
    \/ \E b \in Beats : \/ Escalate(j, b) \/ RaiseTypeError(j, b)
                        \/ Leave(j, b) \/ Miss(j, b) \/ Notify(j, b)
    \/ \E r \in Recipients, outcome \in Outcomes : Deliver(j, r, outcome)
    \/ FlushEscalation(j) \/ CommitTrigger(j) \/ Deactivate(j)
    \/ NextUser(j) \/ CreateBeat(j) \/ FinishScan(j) \/ FinishPass(j)
    \/ Abort(j)

NewRequest(r) ==
    \/ \E b \in Beats : OpenLink(r, b)
    \/ \E u \in Users : OpenSettings(r, u) \/ SendTest(r, u)

Handle(r) ==
    \/ FindUser(r) \/ Confirm(r) \/ FinishTest(r)
    \/ \E body \in Bodies : SaveSettings(r, body)
    \/ Abort(r)

Next ==
    \/ \E j \in Jobs : StartPass(j) \/ Pass(j)
    \/ \E r \in Requests : NewRequest(r) \/ Handle(r)
    \/ Cleanup \/ Crash \/ Restart \/ Tick

Spec == Init /\ [][Next]_vars

\* asyncio runs every coroutine that can go on; a database call that waits for
\* the lock returns or fails.
Fairness == /\ \A j \in Jobs : WF_vars(Pass(j))
            /\ \A r \in Requests : WF_vars(Handle(r))

FairSpec == Spec /\ Fairness

-----------------------------------------------------------------------------
(* Safety.                                                                 *)

\* README.md:26: a heartbeat is only counted as missed after the user has been
\* warned by an escalation email, whatever passes were aborted, repeated after
\* a crash or overtaken by one another on the way.
EscalationBeforeMiss ==
    \A b \in Beats : db.log[b].status = "missed" => b \in warned

Windows == {DefaultConfig.window} \cup
           {body.change["window"] :
               body \in {x \in Bodies : "window" \in DOMAIN x.change}}

\* The user had one response window before the escalation and another one after
\* it: a pass that was rolled back, or that worked on rows loaded before,
\* never shortens either (_check_outstanding_heartbeats).
MissTakesTwoWindows ==
    \A b \in Beats :
        LET row == db.log[b]
        IN  row.status = "missed" =>
                /\ \E w \in Windows : row.escAt > row.sentAt + w
                /\ \E w \in Windows : now > row.escAt + w

CountedOf(u) == {b \in counted : db.log[b].user = u}

Firing(j) == task[j].pc \in {"trigger", "deactivate"}

\* The trigger fires only when at least missed_threshold different heartbeats
\* were missed: two passes that find the same heartbeat lapsed do not count
\* it twice.
TriggerIsEarned ==
    \A j \in Jobs : Firing(j) =>
        Cardinality(CountedOf(task[j].who))
            >= mine[j].users[task[j].who].config.threshold

\* A link that the dispatcher or an escalation sends works: its heartbeat is
\* committed before anyone can tap it (the two phases of heartbeat_dispatcher).
LinkIsLive == \A b \in known \cap Scheduled : db.log[b].status # "none"

AllIdle == \A s \in Sessions : task[s].pc = "idle"

\* The trigger log never claims a delivery that did not happen; and while the
\* process stays up it has every delivery that the mail service confirmed in
\* time, even when the rest of the pass that fired the trigger is rolled back.
\* (trigger.py:67-86; send_email, notify.py:119-141, answers False on a timeout.)
AuditMatchesMail ==
    \A r \in Recipients :
        /\ db.audit[r] <= mailed[r]
        /\ AllIdle /\ crashes = 0 => db.audit[r] = acked[r]

\* While the process runs, an unanswered heartbeat is settled in time: at most
\* one window until the escalation, one until the verdict, and the hours in
\* which the passes that find them lapsed run.  (README.md:10, "If you miss
\* multiple check-ins -- the system triggers"; check_escalations.)
VerdictInTime ==
    crashes = 0 =>
        \A b \in Scheduled : Open(db.log[b]) =>
            \E w \in Windows : now <= db.log[b].sentAt + 2 * (w + 1)

\* While the process runs, an unanswered heartbeat is escalated in time, for
\* a paused user as well.
EscalatedInTime ==
    crashes = 0 =>
        \A b \in Scheduled : db.log[b].status = "sent" =>
            \E w \in Windows : now <= db.log[b].sentAt + w + 1

\* The model has heartbeats left for every user, as the code always has.
HasRoom == issued.real + Cardinality(Users) <= MaxBeats

\* The next time of an active user is not in the past.
OnSchedule(u) == LET row == db.users[u]
                 IN  row.active /\ row.next # Never => row.next >= now

\* While the process runs, a due user is served within the hour.  (README.md:8,
\* "The system sends you heartbeat check-ins [...] on a configurable schedule";
\* heartbeat_dispatcher.)
NeverOverdue ==
    crashes = 0 /\ HasRoom => \A u \in Users : OnSchedule(u)

\* The user has not answered a heartbeat that was escalated, or has answered a
\* moment ago.
Unanswered(u) ==
    \/ db.users[u].last >= now - 1
    \/ \E b \in warned : db.log[b].user = u /\ Open(db.log[b])

\* Whatever the driver makes of datetimes, the TypeError of one user costs no
\* other user a heartbeat, and the user gets the next one soon after answering
\* (heartbeat_dispatcher, the try inside the loop).
OnlyUnansweredWait ==
    crashes = 0 /\ HasRoom =>
        \A u \in Users : OnSchedule(u) \/ (~ TimestampsAware /\ Unanswered(u))

(* Liveness. *)

\* Every pass and every request ends, whoever holds the write lock meanwhile
\* and whatever the emails do.
PassTerminates ==
    \A s \in Sessions : task[s].pc # "idle" ~> task[s].pc = "idle"

=============================================================================
