---------------------------- MODULE CheckInProofs ---------------------------
(***************************************************************************)
(* Type correctness of CheckIn, and that nobody is judged before being     *)
(* warned, for all values of its constants.                                *)
(***************************************************************************)
EXTENDS CheckIn, FiniteSetTheorems, TLAPS

-----------------------------------------------------------------------------
(* The schedule.                                                           *)

\* The next heartbeat of a user is a time.
LEMMA ComputeNextType ==
    ASSUME NEW config \in Config, now \in Int
    PROVE  ComputeNext(config) \in Int
<1>1. HoursPerDay \in Nat \ {0}
    BY CheckInAssumption
<1>2. /\ config.interval \in Nat /\ config.start \in Nat /\ config.end \in Nat
    BY DEF Config, Fields
<1>3. Window!MinutesPerDay \in Nat \ {0}
    BY <1>1 DEF Window!MinutesPerDay
<1>4. \A w \in Int : w % Window!MinutesPerDay \in Int
    BY <1>3
<1> QED
    BY <1>1, <1>2, <1>3, <1>4
    DEF ComputeNext, Window!ComputeNextHeartbeat, Window!FixedZone,
        Window!ToLocal, Window!ToUtc, Window!NextWindowStart, Window!NextDay,
        Window!AtHour, Window!Later, Window!Earlier

LEMMA SchedulingType ==
    ASSUME NEW users \in [Users -> UserRow], NEW S, now \in Int
    PROVE  Scheduling(users, S) \in [Users -> UserRow]
<1>1. \A u \in Users : ComputeNext(users[u].config) \in Int
    BY ComputeNextType DEF UserRow
<1> QED
    BY <1>1 DEF Scheduling, UserRow

-----------------------------------------------------------------------------
(* Sessions.                                                               *)

LEMMA MergeUserType ==
    ASSUME NEW row \in UserRow, NEW b \in UserRow, NEW m \in UserRow
    PROVE  MergeUser(row, b, m) \in UserRow
BY DEF MergeUser, Column, UserRow, Config

LEMMA MergeBeatType ==
    ASSUME NEW row \in BeatRow, NEW b \in BeatRow, NEW m \in BeatRow
    PROVE  MergeBeat(row, b, m) \in BeatRow
BY DEF MergeBeat, Column, BeatRow

LEMMA MergedType ==
    ASSUME TypeOK, NEW s \in Sessions, NEW m \in Cache
    PROVE  Merged(s, m) \in Database
<1>1. Seen(s) \in Database /\ base[s] \in Cache
    BY DEF TypeOK, Seen
<1>2. \A u \in Users : MergeUser(Seen(s).users[u], base[s].users[u],
                                 m.users[u]) \in UserRow
    BY <1>1, MergeUserType DEF Database, Cache
<1>3. \A b \in Beats : MergeBeat(Seen(s).log[b], base[s].log[b],
                                 m.log[b]) \in BeatRow
    BY <1>1, MergeBeatType DEF Database, Cache
<1> QED
    BY <1>1, <1>2, <1>3 DEF Merged, Database

StoreType == /\ db \in Database
             /\ wal \in Database
             /\ writer \in Sessions \cup {Nobody}

LEMMA FlushType ==
    ASSUME TypeOK, NEW s \in Sessions, NEW m \in Cache, Flush(s, m)
    PROVE  StoreType'
BY MergedType DEF Flush, StoreType, TypeOK, store

LEMMA CommitType ==
    ASSUME TypeOK, NEW s \in Sessions, NEW m \in Cache, Commit(s, m)
    PROVE  StoreType'
BY MergedType DEF Commit, StoreType, TypeOK, store

LEMMA RollbackType ==
    ASSUME TypeOK, NEW s \in Sessions, Rollback(s)
    PROVE  StoreType'
BY DEF Rollback, StoreType, TypeOK

CacheType == mine \in [Sessions -> Cache] /\ base \in [Sessions -> Cache]

LEMMA HoldType ==
    ASSUME TypeOK, NEW s \in Sessions, NEW m \in Cache, NEW b \in Cache,
           Hold(s, m, b)
    PROVE  CacheType'
BY DEF Hold, CacheType, TypeOK

LEMMA EmptyType == Empty \in Cache
<1>1. Unloaded \in UserRow
    BY CheckInAssumption DEF Unloaded, UserRow, Never
<1>2. NoBeat \in BeatRow
    BY DEF NoBeat, BeatRow, Never, Status
<1> QED
    BY <1>1, <1>2 DEF Empty, Cache

-----------------------------------------------------------------------------
(* What a pass and a request are working on.                               *)

\* The steps of a pass that deal with one user.
OneUser == {"check", "mail", "trigger", "deactivate"}

\* Work that deals with one user knows which one, and no longer has it in the
\* queue; a request that confirms a heartbeat knows which one.
Sound(t) == /\ t.pc \in OneUser => t.who \in Users \ t.queue
            /\ t.pc = "open" => t.beat \in Beats

OnTask == \A s \in Sessions : Sound(task[s])

\* The users that the work t may yet send a heartbeat.
Owed(t) == {u \in Users : u \in t.queue \/ (t.pc \in OneUser /\ t.who = u)}

\* There are heartbeats left for all the users of the dispatcher's pass.
Budget == issued.real + Cardinality(Owed(task["dispatcher"])) <= MaxBeats

LEMMA OwedFinite ==
    ASSUME NEW t
    PROVE  IsFiniteSet(Owed(t)) /\ Owed(t) \subseteq Users
BY CheckInAssumption, FS_Subset DEF Owed

TaskType == task \in [Sessions -> Task]

LEMMA TaskUpdate ==
    ASSUME TypeOK, NEW s \in Sessions, NEW t \in Task, GoOn(s, t)
    PROVE  TaskType'
BY DEF GoOn, TypeOK, TaskType

LEMMA CacheUpdate ==
    ASSUME TypeOK, NEW s \in Sessions, NEW m \in Cache,
           mine' = [mine EXCEPT ![s] = m]
    PROVE  mine' \in [Sessions -> Cache]
BY DEF TypeOK

\* A row of a cache may be replaced.
LEMMA BeatUpdate ==
    ASSUME NEW m \in Cache, NEW b, NEW row,
           b \in Beats => row \in BeatRow
    PROVE  [m EXCEPT !.log[b] = row] \in Cache
BY DEF Cache

LEMMA UserUpdate ==
    ASSUME NEW m \in Cache, NEW u, NEW row,
           u \in Users => row \in UserRow
    PROVE  [m EXCEPT !.users[u] = row] \in Cache
BY DEF Cache

LEMMA StatusUpdate ==
    ASSUME NEW m \in Cache, NEW b, NEW status \in Status
    PROVE  [m EXCEPT !.log[b].status = status] \in Cache
<1>1. b \in Beats => [m.log[b] EXCEPT !.status = status] \in BeatRow
    BY DEF Cache, BeatRow
<1> QED
    BY <1>1, BeatUpdate

LEMMA ActiveUpdate ==
    ASSUME NEW row \in UserRow, NEW active \in BOOLEAN, NEW next \in Int
    PROVE  [row EXCEPT !.active = active, !.next = next] \in UserRow
BY DEF UserRow

LEMMA MissedType ==
    ASSUME NEW s \in Sessions, mine[s] \in Cache, NEW b
    PROVE  Missed(s, b) \in Cache
<1> DEFINE u == task[s].who
<1>1. [mine[s] EXCEPT !.log[b].status = "missed"] \in Cache
    BY StatusUpdate DEF Status
<1>2. u \in Users => [mine[s].users[u] EXCEPT !.misses = @ + 1] \in UserRow
    BY DEF Cache, UserRow
<1> QED
    BY <1>1, <1>2, UserUpdate DEF Missed, Cache

LEMMA DeactivatedType ==
    ASSUME NEW s \in Sessions, mine[s] \in Cache
    PROVE  Deactivated(s) \in Cache
<1> DEFINE u == task[s].who
<1>1. Never \in Int
    BY DEF Never
<1>2. u \in Users => mine[s].users[u] \in UserRow
    BY DEF Cache
<1>3. u \in Users => [mine[s].users[u] EXCEPT !.active = FALSE, !.next = Never]
                         \in UserRow
    BY <1>1, <1>2, ActiveUpdate
<1> QED
    BY <1>3, UserUpdate DEF Deactivated

LEMMA RespondedType ==
    ASSUME NEW s \in Sessions, mine[s] \in Cache, now \in Int
    PROVE  Responded(s) \in Cache
<1> DEFINE u == task[s].who
<1>1. [mine[s] EXCEPT !.log[task[s].beat].status = "responded"] \in Cache
    BY StatusUpdate DEF Status
<1>2. u \in Users => [mine[s].users[u] EXCEPT !.misses = 0, !.last = now]
                         \in UserRow
    BY DEF Cache, UserRow
<1> QED
    BY <1>1, <1>2, UserUpdate DEF Responded, Cache

\* The settings endpoint leaves a row of the right type.
LEMMA AppliedType ==
    ASSUME NEW user \in UserRow, NEW body \in Bodies, now \in Int
    PROVE  Applied(user, body) \in UserRow
<1> DEFINE config == [f \in Fields |-> IF f \in DOMAIN body.change
                                       THEN body.change[f] ELSE user.config[f]]
           active == IF body.active = "keep" THEN user.active
                                             ELSE body.active = "on"
           next   == IF Reschedules(body) /\ active THEN ComputeNext(config)
                     ELSE IF body.active = "off" THEN Never ELSE user.next
           misses == IF body.active = "on" THEN 0 ELSE user.misses
<1>1. config \in Config
    BY CheckInAssumption DEF Config, UserRow
<1>2. active \in BOOLEAN
    BY DEF UserRow
<1>3. next \in Int
    BY <1>1, ComputeNextType DEF UserRow, Never
<1>4. misses \in Nat
    BY DEF UserRow
<1> HIDE DEF config, active, next, misses
<1>5. [user EXCEPT !.config = config, !.active = active, !.misses = misses,
                   !.next = next] \in UserRow
    BY <1>1, <1>2, <1>3, <1>4 DEF UserRow
<1> QED
    BY <1>5 DEF Applied, config, active, next, misses

LEMMA UpdatedType ==
    ASSUME NEW s \in Sessions, mine[s] \in Cache, now \in Int,
           NEW body \in Bodies
    PROVE  Updated(s, body) \in Cache
<1>1. task[s].who \in Users =>
          Applied(mine[s].users[task[s].who], body) \in UserRow
    BY AppliedType DEF Cache
<1> QED
    BY <1>1, UserUpdate DEF Updated

LEMMA IdleType == Idle \in Task
BY DEF Idle, Task, Steps

LEMMA InitType == Init => TypeOK /\ OnTask /\ Budget
<1> SUFFICES ASSUME Init PROVE TypeOK /\ OnTask /\ Budget
    OBVIOUS
<1>1. Empty \in Cache
    BY EmptyType
<1>2. Idle \in Task
    BY DEF Idle, Task, Steps
<1>3. db \in Database
  <2>1. ComputeNext(DefaultConfig) \in Int
    <3>1. now \in Int
      BY DEF Init
    <3> QED
      BY <3>1, ComputeNextType, CheckInAssumption
  <2>2. NewUser \in UserRow
    <3>1. Unloaded \in UserRow
      BY CheckInAssumption DEF Unloaded, UserRow, Never
    <3> QED
      BY <2>1, <3>1 DEF NewUser, UserRow
  <2> QED
    BY <1>1, <2>2 DEF Init, Database, Cache, Empty
<1>4. TypeOK
    BY <1>1, <1>2, <1>3, CheckInAssumption DEF Init, TypeOK
<1>5. OnTask
    BY DEF Init, OnTask, Sound, OneUser, Idle
<1>6. Owed(task["dispatcher"]) = {}
    BY DEF Init, Owed, OneUser, Idle, Sessions, Jobs
<1>7. Cardinality(Owed(task["dispatcher"])) = 0
    BY <1>6, FS_EmptySet
<1>8. Budget
    BY <1>7, CheckInAssumption DEF Init, Budget
<1> QED
    BY <1>4, <1>5, <1>8


-----------------------------------------------------------------------------
(* Type correctness.                                                       *)

LEMMA PassType ==
    ASSUME TypeOK, OnTask, Budget, NEW j \in Jobs, StartPass(j) \/ Pass(j)
    PROVE  TypeOK'
<1> DEFINE t == task[j]
<1> USE DEF Sessions
<1>0. /\ t \in Task /\ mine[j] \in Cache /\ base[j] \in Cache
      /\ now \in Int /\ now \in 0 .. MaxTime
    BY CheckInAssumption DEF TypeOK
<1>1. CASE StartPass(j)
  <2> DEFINE selected == IF j = "dispatcher" THEN Due ELSE Outstanding
             loaded   == [Empty EXCEPT !.users =
                            [u \in Users |-> IF u \in selected
                                             THEN db.users[u] ELSE Unloaded]]
  <2>1. selected \in SUBSET Users
    BY DEF Due, Outstanding
  <2>2. loaded \in Cache
    BY EmptyType DEF TypeOK, Cache, Database, Empty
  <2>3. CacheType'
    BY <1>1, <2>2, HoldType DEF StartPass
  <2>4. [t EXCEPT !.pc = "scan", !.queue = selected, !.loaded = selected]
            \in Task
    BY <1>0, <2>1 DEF Task, Steps
  <2>5. TaskType'
    BY <1>1, <2>4, TaskUpdate DEF StartPass
  <2> QED
    BY <1>1, <2>3, <2>5
    DEF StartPass, TypeOK, TaskType, CacheType, clock, store, world
<1>2. CASE \E u \in Users : Reschedule(j, u)
  <2> PICK u \in Users : Reschedule(j, u)
    BY <1>2
  <2>1. Scheduling(mine[j].users, {u}) \in [Users -> UserRow]
    BY <1>0, SchedulingType DEF Cache
  <2>2. [mine[j] EXCEPT !.users = Scheduling(@, {u})] \in Cache
    BY <1>0, <2>1 DEF Cache
  <2>3. mine' \in [Sessions -> Cache]
    BY <2>2 DEF Reschedule, TypeOK
  <2>4. TaskType'
    <3>1. [t EXCEPT !.queue = @ \ {u}] \in Task
      BY <1>0 DEF Task
    <3> QED
      BY <3>1, TaskUpdate DEF Reschedule
  <2>5. UNCHANGED <<clock, store, base, issued, world>>
    BY DEF Reschedule
  <2> QED
    BY <2>3, <2>4, <2>5 DEF TypeOK, TaskType, clock, store, world
<1>3. CASE \E u \in Users : SelectExpired(j, u)
  <2> PICK u \in Users : SelectExpired(j, u)
    BY <1>3
  <2> DEFINE seen   == Merged(j, mine[j]).log
             found  == Expired(seen, u, mine[j].users[u].config.window)
             loaded == [users |-> mine[j].users,
                        log   |-> [b \in Beats |-> IF b \in found
                                                   THEN seen[b] ELSE NoBeat]]
  <2>1. found \in SUBSET Beats
    BY CheckInAssumption DEF Expired, Scheduled, Beats
  <2>2. loaded \in Cache
    BY <1>0, MergedType, EmptyType DEF Cache, Database, Empty
  <2>3. CacheType'
    BY <2>2, HoldType DEF SelectExpired
  <2>4. StoreType'
    BY <1>0, FlushType DEF SelectExpired
  <2>5. [t EXCEPT !.pc = "check", !.who = u, !.rest = found,
                  !.queue = @ \ {u}] \in Task
    BY <1>0, <2>1 DEF Task, Steps
  <2>6. TaskType'
    BY <2>5, TaskUpdate DEF SelectExpired
  <2> QED
    BY <2>3, <2>4, <2>6
    DEF SelectExpired, TypeOK, TaskType, CacheType, StoreType, clock, world
<1>4. CASE \E b \in Beats : Escalate(j, b)
  <2> PICK b \in Beats : Escalate(j, b)
    BY <1>4
  <2>1. [mine[j].log[b] EXCEPT !.status = "escalated", !.escAt = now]
            \in BeatRow
    BY <1>0 DEF Cache, BeatRow, Status
  <2>2. Escalated(j, b) \in Cache
    BY <1>0, <2>1, BeatUpdate DEF Escalated
  <2>3. mine' \in [Sessions -> Cache]
    BY <2>2, CacheUpdate DEF Escalate
  <2>4. [t EXCEPT !.pc = "mail", !.rest = @ \ {b}] \in Task
    BY <1>0 DEF Task, Steps
  <2>5. TaskType'
    BY <2>4, TaskUpdate DEF Escalate
  <2> QED
    BY <2>3, <2>5 DEF Escalate, TypeOK, TaskType, clock, store
<1>5. CASE \E b \in Beats : RaiseTypeError(j, b) \/ Leave(j, b)
  <2> PICK b \in Beats : RaiseTypeError(j, b) \/ Leave(j, b)
    BY <1>5
  <2>1. [t EXCEPT !.pc = "scan", !.who = Nobody, !.rest = {}] \in Task
    BY <1>0 DEF Task, Steps
  <2>2. [t EXCEPT !.rest = @ \ {b}] \in Task
    BY <1>0 DEF Task
  <2>3. TaskType'
    BY <2>1, <2>2, TaskUpdate DEF RaiseTypeError, Leave
  <2> QED
    BY <2>3
    DEF RaiseTypeError, Leave, TypeOK, TaskType, clock, store, world
<1>6. CASE \E b \in Beats : Miss(j, b)
  <2> PICK b \in Beats : Miss(j, b)
    BY <1>6
  <2>1. Missed(j, b) \in Cache
    BY <1>0, MissedType
  <2>2. CacheType'
    BY <2>1, HoldType DEF Miss
  <2>3. StoreType'
    BY <2>1, FlushType DEF Miss
  <2>4. RecipientsOf[t.who] \in SUBSET Recipients
    BY CheckInAssumption DEF Miss, Missable, Checking, OnTask, Sound, OneUser
  <2> DEFINE fires == AtThreshold(Missed(j, b).users[t.who])
                          /\ RecipientsOf[t.who] # {}
  <2>5. [t EXCEPT !.rest = @ \ {b},
                  !.pc   = IF fires THEN "trigger" ELSE @,
                  !.todo = IF fires THEN RecipientsOf[t.who] ELSE {}] \in Task
    BY <1>0, <2>4 DEF Task, Steps
  <2>6. TaskType'
    BY <2>5, TaskUpdate DEF Miss
  <2> QED
    BY <2>2, <2>3, <2>6
    DEF Miss, TypeOK, TaskType, CacheType, StoreType, clock
<1>7. CASE \E b \in Beats : Notify(j, b)
  <2> PICK b \in Beats : Notify(j, b)
    BY <1>7
  <2>1. [t EXCEPT !.pend = @ \ {b}] \in Task
    BY <1>0 DEF Task
  <2>2. TaskType'
    BY <2>1, IdleType, TaskUpdate DEF Notify
  <2> QED
    BY <2>2 DEF Notify, TypeOK, TaskType, clock, store
<1>8. CASE \E r \in Recipients, outcome \in Outcomes : Deliver(j, r, outcome)
  <2> PICK r \in Recipients, outcome \in Outcomes : Deliver(j, r, outcome)
    BY <1>8
  <2>1. TaskType'
    BY DEF Deliver, GoOn, TaskType, TypeOK, Task
  <2>2. wal' \in Database
    BY DEF Deliver, TypeOK, Database
  <2>3. mailed' \in [Recipients -> Nat] /\ acked' \in [Recipients -> Nat]
    BY DEF Deliver, TypeOK
  <2> QED
    BY <2>1, <2>2, <2>3 DEF Deliver, TypeOK, TaskType, clock
<1>9. CASE FlushEscalation(j)
  <2>1. CacheType' /\ StoreType'
    BY <1>0, <1>9, HoldType, FlushType DEF FlushEscalation
  <2>2. TaskType'
    BY <1>9 DEF FlushEscalation, Goto, GoOn, TaskType, TypeOK, Task, Steps
  <2> QED
    BY <1>9, <2>1, <2>2
    DEF FlushEscalation, TypeOK, TaskType, CacheType, StoreType, clock, world
<1>10. CASE CommitTrigger(j)
  <2>1. CacheType' /\ StoreType'
    BY <1>0, <1>10, HoldType, CommitType DEF CommitTrigger
  <2>2. TaskType'
    BY <1>10 DEF CommitTrigger, Goto, GoOn, TaskType, TypeOK, Task, Steps
  <2> QED
    BY <1>10, <2>1, <2>2
    DEF CommitTrigger, TypeOK, TaskType, CacheType, StoreType, clock, world
<1>11. CASE Deactivate(j)
  <2>1. Deactivated(j) \in Cache
    BY <1>0, DeactivatedType
  <2>2. CacheType' /\ StoreType'
    BY <1>11, <2>1, HoldType, CommitType DEF Deactivate
  <2>3. TaskType'
    BY <1>11 DEF Deactivate, Goto, GoOn, TaskType, TypeOK, Task, Steps
  <2> QED
    BY <1>11, <2>2, <2>3
    DEF Deactivate, TypeOK, TaskType, CacheType, StoreType, clock, world
<1>12. CASE NextUser(j)
  <2>1. [t EXCEPT !.pc = "scan", !.who = Nobody] \in Task
    BY <1>0 DEF Task, Steps
  <2>2. TaskType'
    BY <1>12, <2>1, TaskUpdate DEF NextUser
  <2> QED
    BY <1>12, <2>2 DEF NextUser, TypeOK, TaskType, clock, store, world
<1>13. CASE CreateBeat(j)
  <2> DEFINE u == t.who
             b == issued.real + 1
  <2>1. j = "dispatcher" /\ t.pc = "check" /\ u \in Users
    BY <1>13 DEF CreateBeat, Sends, Checked, OnTask, Sound, OneUser
  <2>2. b \in Scheduled /\ b \in Beats
    <3>1. u \in Owed(t)
      BY <2>1 DEF Owed, OneUser
    <3>2. IsFiniteSet(Owed(t))
      BY OwedFinite
    <3>3. Cardinality(Owed(t)) >= 1
      BY <3>1, <3>2, FS_EmptySet, FS_CardinalityType
    <3> QED
      BY <2>1, <3>2, <3>3, CheckInAssumption, FS_CardinalityType
      DEF Budget, TypeOK, Scheduled, Beats
  <2>3. NewBeat(u) \in BeatRow
    BY <1>0, <2>1 DEF NewBeat, BeatRow, Status, Never
  <2>4. wal' \in Database
    BY <1>0, <1>13, <2>3, MergedType DEF CreateBeat, Database
  <2>5. Scheduling(mine[j].users, {u}) \in [Users -> UserRow]
    BY <1>0, SchedulingType DEF Cache
  <2>6. [mine[j] EXCEPT !.users = Scheduling(@, {u})] \in Cache
    BY <1>0, <2>5 DEF Cache
  <2>7. CacheType'
    BY <1>0, <1>13, <2>6, HoldType DEF CreateBeat
  <2>8. TaskType'
    <3>1. [t EXCEPT !.pc = "scan", !.who = Nobody, !.pend = @ \cup {b}]
              \in Task
      BY <1>0, <2>2 DEF Task, Steps
    <3> QED
      BY <1>13, <3>1, TaskUpdate DEF CreateBeat
  <2>9. issued' \in [real: 0 .. MaxBeats, test: 0 .. MaxTests]
    BY <1>13, <2>2 DEF CreateBeat, TypeOK, Scheduled
  <2> QED
    BY <1>13, <2>4, <2>7, <2>8, <2>9
    DEF CreateBeat, TypeOK, TaskType, CacheType, clock, world
<1>14. CASE FinishScan(j)
  <2> DEFINE seen   == Merged(j, mine[j]).users
             found  == IF j = "dispatcher"
                       THEN {u \in Users : seen[u].active
                                              /\ seen[u].next = Never}
                       ELSE {}
             loaded == [mine[j] EXCEPT !.users =
                           [u \in Users |-> IF u \in found \ t.loaded
                                            THEN seen[u] ELSE @[u]]]
             held   == [loaded EXCEPT !.users = Scheduling(@, found)]
  <2>1. seen \in [Users -> UserRow]
    BY <1>0, MergedType DEF Database
  <2>2. loaded \in Cache
    BY <1>0, <2>1 DEF Cache
  <2>3. Scheduling(loaded.users, found) \in [Users -> UserRow]
    BY <1>0, <2>2, SchedulingType DEF Cache
  <2>4. held \in Cache
    BY <2>2, <2>3 DEF Cache
  <2>5. CacheType'
    BY <1>14, <2>2, <2>4, HoldType DEF FinishScan
  <2>6. StoreType'
    BY <1>0, <1>14, FlushType DEF FinishScan
  <2>7. TaskType'
    BY <1>14 DEF FinishScan, Goto, GoOn, TaskType, TypeOK, Task, Steps
  <2> QED
    BY <1>14, <2>5, <2>6, <2>7
    DEF FinishScan, TypeOK, TaskType, CacheType, StoreType, clock, world
<1>15. CASE FinishPass(j)
  <2>1. CacheType' /\ StoreType'
    BY <1>0, <1>15, EmptyType, HoldType, CommitType DEF FinishPass
  <2>2. TaskType'
    BY <1>15 DEF FinishPass, GoOn, TaskType, TypeOK, Task, Steps, Idle
  <2> QED
    BY <1>15, <2>1, <2>2
    DEF FinishPass, TypeOK, TaskType, CacheType, StoreType, world
<1>16. CASE Abort(j)
  <2>1. CacheType' /\ StoreType'
    BY <1>16, EmptyType, HoldType, RollbackType DEF Abort, Close
  <2>2. TaskType'
    BY <1>16 DEF Abort, Close, GoOn, TaskType, TypeOK, Task, Steps, Idle
  <2> QED
    BY <1>16, <2>1, <2>2
    DEF Abort, TypeOK, TaskType, CacheType, StoreType, clock, world
<1> QED
  BY <1>1, <1>2, <1>3, <1>4, <1>5, <1>6, <1>7, <1>8, <1>9, <1>10, <1>11,
     <1>12, <1>13, <1>14, <1>15, <1>16 DEF Pass

LEMMA RequestType ==
    ASSUME TypeOK, OnTask, NEW r \in Requests, NewRequest(r) \/ Handle(r)
    PROVE  TypeOK'
<1> DEFINE t == task[r]
<1> USE DEF Sessions
<1>0. /\ t \in Task /\ mine[r] \in Cache /\ base[r] \in Cache
      /\ now \in Int /\ now \in 0 .. MaxTime
    BY CheckInAssumption DEF TypeOK
<1>1. CASE \E b \in Beats : OpenLink(r, b)
  <2> PICK b \in Beats : OpenLink(r, b)
    BY <1>1
  <2> DEFINE loaded == [Empty EXCEPT !.log[b] = db.log[b]]
  <2>1. loaded \in Cache
    BY EmptyType, BeatUpdate DEF TypeOK, Database
  <2>2. CacheType'
    BY <2>1, HoldType DEF OpenLink
  <2>3. [t EXCEPT !.pc = "open", !.beat = b] \in Task
    BY <1>0 DEF Task, Steps
  <2>4. TaskType'
    BY <2>3, TaskUpdate DEF OpenLink
  <2> QED
    BY <2>2, <2>4 DEF OpenLink, TypeOK, TaskType, CacheType, clock, store, world
<1>2. CASE FindUser(r)
  <2> DEFINE u      == mine[r].log[t.beat].user
             loaded == [mine[r] EXCEPT !.users[u] = db.users[u]]
  <2>1. t.beat \in Beats
    BY <1>2 DEF FindUser, OnTask, Sound
  <2>2. u \in Users \cup {Nobody}
    BY <1>0, <2>1 DEF Cache, BeatRow
  <2>3. loaded \in Cache
    BY <1>0, UserUpdate DEF TypeOK, Database
  <2>4. CacheType'
    BY <1>2, <2>3, HoldType DEF FindUser
  <2>5. [t EXCEPT !.pc = "confirm", !.who = u] \in Task
    BY <1>0, <2>2 DEF Task, Steps
  <2>6. TaskType'
    BY <1>2, <2>5, TaskUpdate DEF FindUser
  <2> QED
    BY <1>2, <2>4, <2>6
    DEF FindUser, TypeOK, TaskType, CacheType, clock, store, world
<1>3. CASE Confirm(r)
  <2>1. Responded(r) \in Cache
    BY <1>0, RespondedType
  <2>2. CacheType' /\ StoreType'
    BY <1>3, <2>1, EmptyType, HoldType, CommitType DEF Confirm, Close
  <2>3. TaskType'
    BY <1>3, IdleType, TaskUpdate DEF Confirm, Close
  <2> QED
    BY <1>3, <2>2, <2>3
    DEF Confirm, TypeOK, TaskType, CacheType, StoreType, clock, world
<1>4. CASE \E u \in Users : OpenSettings(r, u)
  <2> PICK u \in Users : OpenSettings(r, u)
    BY <1>4
  <2> DEFINE loaded == [Empty EXCEPT !.users[u] = db.users[u]]
  <2>1. loaded \in Cache
    BY EmptyType, UserUpdate DEF TypeOK, Database
  <2>2. CacheType'
    BY <2>1, HoldType DEF OpenSettings
  <2>3. [t EXCEPT !.pc = "settings", !.who = u] \in Task
    BY <1>0 DEF Task, Steps
  <2>4. TaskType'
    BY <2>3, TaskUpdate DEF OpenSettings
  <2> QED
    BY <2>2, <2>4
    DEF OpenSettings, TypeOK, TaskType, CacheType, clock, store, world
<1>5. CASE \E body \in Bodies : SaveSettings(r, body)
  <2> PICK body \in Bodies : SaveSettings(r, body)
    BY <1>5
  <2>2. Updated(r, body) \in Cache
    BY <1>0, UpdatedType
  <2>3. CacheType' /\ StoreType'
    BY <2>2, EmptyType, HoldType, CommitType DEF SaveSettings, Close
  <2>4. TaskType'
    BY IdleType, TaskUpdate DEF SaveSettings, Close
  <2> QED
    BY <2>3, <2>4
    DEF SaveSettings, TypeOK, TaskType, CacheType, StoreType, clock, world
<1>6. CASE \E u \in Users : SendTest(r, u)
  <2> PICK u \in Users : SendTest(r, u)
    BY <1>6
  <2> DEFINE b == MaxBeats + issued.test + 1
  <2>1. b \in Beats /\ issued.test + 1 \in 0 .. MaxTests
    BY CheckInAssumption DEF SendTest, TypeOK, Beats
  <2>2. NewBeat(u) \in BeatRow
    BY <1>0 DEF NewBeat, BeatRow, Status, Never
  <2>3. wal' \in Database
    BY <2>2 DEF SendTest, TypeOK, Database
  <2>4. [t EXCEPT !.pc = "test"] \in Task
    BY <1>0 DEF Task, Steps
  <2>5. TaskType'
    BY <2>4, TaskUpdate DEF SendTest, Goto
  <2>6. issued' \in [real: 0 .. MaxBeats, test: 0 .. MaxTests]
    BY <2>1 DEF SendTest, TypeOK
  <2> QED
    BY <2>1, <2>3, <2>5, <2>6 DEF SendTest, TypeOK, TaskType, clock
<1>7. CASE FinishTest(r)
  <2>1. CacheType' /\ StoreType'
    BY <1>0, <1>7, EmptyType, HoldType, CommitType DEF FinishTest, Close
  <2>2. TaskType'
    BY <1>7, IdleType, TaskUpdate DEF FinishTest, Close
  <2> QED
    BY <1>7, <2>1, <2>2
    DEF FinishTest, TypeOK, TaskType, CacheType, StoreType, clock, world
<1>8. CASE Abort(r)
  <2>1. CacheType' /\ StoreType'
    BY <1>8, EmptyType, HoldType, RollbackType DEF Abort, Close
  <2>2. TaskType'
    BY <1>8, IdleType, TaskUpdate DEF Abort, Close
  <2> QED
    BY <1>8, <2>1, <2>2
    DEF Abort, TypeOK, TaskType, CacheType, StoreType, clock, world
<1> QED
    BY <1>1, <1>2, <1>3, <1>4, <1>5, <1>6, <1>7, <1>8 DEF NewRequest, Handle

LEMMA OtherType ==
    ASSUME TypeOK, Cleanup \/ Crash \/ Restart \/ Tick
    PROVE  TypeOK'
<1>1. CASE Cleanup
  <2>1. \A b \in Beats : [db.log[b] EXCEPT !.status = "deleted"] \in BeatRow
    BY DEF TypeOK, Database, BeatRow, Status
  <2>2. db' \in Database
    BY <1>1, <2>1 DEF Cleanup, TypeOK, Database
  <2> QED
    BY <1>1, <2>2 DEF Cleanup, TypeOK, clock, world
<1>2. CASE Crash
  <2>1. crashes' \in 0 .. MaxCrashes
    BY <1>2, CheckInAssumption DEF Crash, TypeOK
  <2> QED
    BY <1>2, <2>1, EmptyType, IdleType DEF Crash, TypeOK, world
<1>3. CASE Restart
  <2>1. \A S : Scheduling(db.users, S) \in [Users -> UserRow]
    BY CheckInAssumption, SchedulingType DEF TypeOK, Database
  <2>2. db' \in Database
    BY <1>3, <2>1 DEF Restart, TypeOK, Database
  <2> QED
    BY <1>3, <2>2 DEF Restart, TypeOK, world
<1>4. CASE Tick
  <2>1. now' \in 0 .. MaxTime
    BY <1>4, CheckInAssumption DEF Tick, TypeOK
  <2> QED
    BY <1>4, <2>1 DEF Tick, TypeOK, store, world
<1> QED
    BY <1>1, <1>2, <1>3, <1>4


-----------------------------------------------------------------------------
(* The bookkeeping of passes and requests.                                 *)

LEMMA TaskStep ==
    ASSUME TypeOK, OnTask, Budget, NEW s \in Sessions, NEW t, GoOn(s, t),
           Sound(t), issued'.real = issued.real,
           s = "dispatcher" => Owed(t) \subseteq Owed(task[s])
    PROVE  OnTask' /\ Budget'
<1>1. /\ task'[s] = t
      /\ \A o \in Sessions \ {s} : task'[o] = task[o]
    BY DEF GoOn, TypeOK
<1>2. OnTask'
    BY <1>1 DEF OnTask, Sound
<1>3. "dispatcher" \in Sessions
    BY DEF Sessions, Jobs
<1>4. Owed(task'["dispatcher"]) \subseteq Owed(task["dispatcher"])
    BY <1>1, <1>3
<1>5. Cardinality(Owed(task'["dispatcher"]))
          <= Cardinality(Owed(task["dispatcher"]))
    BY <1>4, OwedFinite, FS_Subset
<1>6. /\ Cardinality(Owed(task'["dispatcher"])) \in Nat
      /\ Cardinality(Owed(task["dispatcher"])) \in Nat
    BY OwedFinite, FS_CardinalityType
<1>7. Budget'
    BY <1>5, <1>6, CheckInAssumption DEF Budget, TypeOK, Owed
<1> QED
    BY <1>2, <1>7

LEMMA IdleSound ==
    /\ Sound(Idle)
    /\ \A t : Owed(Idle) \subseteq Owed(t)
BY DEF Sound, Owed, Idle, OneUser

LEMMA PassTask ==
    ASSUME TypeOK, OnTask, Budget, NEW j \in Jobs, StartPass(j) \/ Pass(j)
    PROVE  OnTask' /\ Budget'
<1> DEFINE t == task[j]
<1> USE DEF Sessions
<1>0. /\ t \in Task /\ Sound(t)
    BY DEF TypeOK, OnTask
<1>1. CASE StartPass(j)
  <2> DEFINE selected == IF j = "dispatcher" THEN Due ELSE Outstanding
             n == [t EXCEPT !.pc = "scan", !.queue = selected,
                            !.loaded = selected]
  <2>1. GoOn(j, n) /\ n.pc = "scan" /\ n.queue = selected
    BY <1>0, <1>1 DEF StartPass, Task
  <2>2. Sound(n)
    BY <2>1 DEF Sound, OneUser
  <2>3. /\ task'[j] = n
        /\ \A o \in Sessions \ {j} : task'[o] = task[o]
    BY <2>1 DEF GoOn, TypeOK
  <2>4. OnTask'
    BY <2>2, <2>3 DEF OnTask, Sound
  <2>5. issued' = issued
    BY <1>1 DEF StartPass
  <2>6. CASE j = "dispatcher"
    <3>1. Owed(task'["dispatcher"]) = Due
      <4>1. /\ task'["dispatcher"].queue = Due
            /\ task'["dispatcher"].pc = "scan"
        BY <2>1, <2>3, <2>6
      <4>2. Due \subseteq Users
        BY DEF Due
      <4> QED
        BY <4>1, <4>2 DEF Owed, OneUser
    <3>2. issued.real + Cardinality(Due) <= MaxBeats
      <4>1. IsFiniteSet(Due)
        BY CheckInAssumption, FS_Subset DEF Due
      <4> QED
        BY <1>1, <2>6, <4>1, CheckInAssumption, FS_CardinalityType
        DEF StartPass, Exhausted, TypeOK
    <3> QED
      <4>1. Cardinality(Owed(task'["dispatcher"])) = Cardinality(Due)
        BY <3>1
      <4> QED
        BY <2>4, <2>5, <3>2, <4>1 DEF Budget, Owed
  <2>7. CASE j # "dispatcher"
    <3>1. task'["dispatcher"] = task["dispatcher"]
      BY <2>3, <2>7 DEF Jobs
    <3> QED
      BY <2>4, <2>5, <3>1 DEF Budget, Owed
  <2> QED
    BY <2>6, <2>7
<1>2. CASE \E u \in Users : Reschedule(j, u)
  <2> PICK u \in Users : Reschedule(j, u)
    BY <1>2
  <2> DEFINE n == [t EXCEPT !.queue = @ \ {u}]
  <2>1. Sound(n) /\ Owed(n) \subseteq Owed(t)
    BY <1>0 DEF Sound, Owed, Task
  <2> QED
    BY <2>1, TaskStep DEF Reschedule
<1>3. CASE \E u \in Users : SelectExpired(j, u)
  <2> PICK u \in Users : SelectExpired(j, u)
    BY <1>3
  <2>0. PICK found : GoOn(j, [t EXCEPT !.pc = "check", !.who = u,
                                       !.rest = found, !.queue = @ \ {u}])
    BY DEF SelectExpired
  <2> DEFINE n == [t EXCEPT !.pc = "check", !.who = u, !.rest = found,
                            !.queue = @ \ {u}]
  <2>1. u \in t.queue /\ t.pc = "scan"
    BY DEF SelectExpired
  <2>2. Sound(n) /\ Owed(n) \subseteq Owed(t)
    BY <1>0, <2>1 DEF Sound, Owed, Task, OneUser
  <2> QED
    BY <2>0, <2>2, TaskStep DEF SelectExpired
<1>4. CASE \E b \in Beats : Escalate(j, b)
  <2> PICK b \in Beats : Escalate(j, b)
    BY <1>4
  <2> DEFINE n == [t EXCEPT !.pc = "mail", !.rest = @ \ {b}]
  <2>1. Sound(n) /\ Owed(n) \subseteq Owed(t)
    BY <1>0 DEF Escalate, Checking, Sound, Owed, Task, OneUser
  <2> QED
    BY <2>1, TaskStep DEF Escalate
<1>5. CASE \E b \in Beats : RaiseTypeError(j, b)
  <2> DEFINE n == [t EXCEPT !.pc = "scan", !.who = Nobody, !.rest = {}]
  <2>1. Sound(n) /\ Owed(n) \subseteq Owed(t)
    BY <1>0 DEF Sound, Owed, Task, OneUser
  <2> QED
    BY <1>5, <2>1, TaskStep DEF RaiseTypeError
<1>6. CASE \E b \in Beats : Leave(j, b)
  <2> PICK b \in Beats : Leave(j, b)
    BY <1>6
  <2> DEFINE n == [t EXCEPT !.rest = @ \ {b}]
  <2>1. Sound(n) /\ Owed(n) \subseteq Owed(t)
    BY <1>0 DEF Sound, Owed, Task
  <2> QED
    BY <2>1, TaskStep DEF Leave
<1>7. CASE \E b \in Beats : Miss(j, b)
  <2> PICK b \in Beats : Miss(j, b)
    BY <1>7
  <2> DEFINE fires == AtThreshold(Missed(j, b).users[t.who])
                          /\ RecipientsOf[t.who] # {}
             n == [t EXCEPT
                      !.rest = @ \ {b},
                      !.pc   = IF fires THEN "trigger" ELSE @,
                      !.todo = IF fires THEN RecipientsOf[t.who] ELSE {}]
  <2>1. Sound(n) /\ Owed(n) \subseteq Owed(t)
    BY <1>0 DEF Miss, Missable, Checking, Sound, Owed, Task, OneUser
  <2> QED
    BY <2>1, TaskStep DEF Miss
<1>8. CASE \E b \in Beats : Notify(j, b)
  <2> PICK b \in Beats : Notify(j, b)
    BY <1>8
  <2> DEFINE n == [t EXCEPT !.pend = @ \ {b}]
  <2>1. Sound(n) /\ Owed(n) \subseteq Owed(t)
    BY <1>0 DEF Sound, Owed, Task
  <2> QED
    BY <2>1, IdleSound, TaskStep DEF Notify
<1>9. CASE \E r \in Recipients, outcome \in Outcomes : Deliver(j, r, outcome)
  <2> PICK r \in Recipients, outcome \in Outcomes : Deliver(j, r, outcome)
    BY <1>9
  <2> DEFINE n == [t EXCEPT !.todo = @ \ {r}]
  <2>1. Sound(n) /\ Owed(n) \subseteq Owed(t)
    BY <1>0 DEF Sound, Owed, Task
  <2> QED
    BY <2>1, TaskStep DEF Deliver
<1>10. CASE FlushEscalation(j) \/ Deactivate(j)
  <2> DEFINE n == [t EXCEPT !.pc = "check"]
  <2>1. t.pc \in OneUser
    BY <1>10 DEF FlushEscalation, Deactivate, OneUser
  <2>2. Sound(n) /\ Owed(n) \subseteq Owed(t)
    BY <1>0, <2>1 DEF Sound, Owed, Task, OneUser
  <2> QED
    BY <1>10, <2>2, TaskStep DEF FlushEscalation, Deactivate, Goto
<1>11. CASE CommitTrigger(j)
  <2> DEFINE n == [t EXCEPT !.pc = "deactivate"]
  <2>1. Sound(n) /\ Owed(n) \subseteq Owed(t)
    BY <1>0, <1>11 DEF CommitTrigger, Sound, Owed, Task, OneUser
  <2> QED
    BY <1>11, <2>1, TaskStep DEF CommitTrigger, Goto
<1>12. CASE NextUser(j)
  <2> DEFINE n == [t EXCEPT !.pc = "scan", !.who = Nobody]
  <2>1. Sound(n) /\ Owed(n) \subseteq Owed(t)
    BY <1>0 DEF Sound, Owed, Task, OneUser
  <2> QED
    BY <1>12, <2>1, TaskStep DEF NextUser
<1>13. CASE CreateBeat(j)
  <2> DEFINE n == [t EXCEPT !.pc = "scan", !.who = Nobody,
                            !.pend = @ \cup {issued.real + 1}]
  <2>1. GoOn(j, n) /\ n.pc = "scan" /\ n.queue = t.queue
    BY <1>0, <1>13 DEF CreateBeat, Task
  <2>2. Sound(n)
    BY <2>1 DEF Sound, OneUser
  <2>3. /\ task'[j] = n
        /\ \A o \in Sessions \ {j} : task'[o] = task[o]
    BY <2>1 DEF GoOn, TypeOK
  <2>4. OnTask'
    BY <2>2, <2>3 DEF OnTask, Sound
  <2>5. /\ j = "dispatcher" /\ t.pc = "check"
        /\ t.who \in Users \ t.queue
    BY <1>0, <1>13 DEF CreateBeat, Sends, Checked, Sound, OneUser
  <2>6. Owed(t) \ {t.who} = Owed(n) /\ t.who \in Owed(t)
    BY <2>1, <2>5 DEF Owed, OneUser
  <2>7. Cardinality(Owed(n)) = Cardinality(Owed(t)) - 1
    BY <2>6, OwedFinite, FS_RemoveElement
  <2>8. issued'.real = issued.real + 1
    BY <1>13 DEF CreateBeat, TypeOK
  <2>9. Cardinality(Owed(t)) \in Nat
    BY OwedFinite, FS_CardinalityType
  <2>10. issued.real \in Int /\ MaxBeats \in Int
    BY CheckInAssumption DEF TypeOK
  <2>11. Cardinality(Owed(task'["dispatcher"])) = Cardinality(Owed(t)) - 1
    BY <2>3, <2>5, <2>7
  <2>12. Budget'
    BY <2>5, <2>8, <2>9, <2>10, <2>11 DEF Budget, Owed
  <2> QED
    BY <2>4, <2>12
<1>14. CASE FinishScan(j)
  <2> DEFINE n == [t EXCEPT !.pc = "commit"]
  <2>1. Sound(n) /\ Owed(n) \subseteq Owed(t)
    BY <1>0 DEF Sound, Owed, Task, OneUser
  <2> QED
    BY <1>14, <2>1, TaskStep DEF FinishScan, Goto
<1>15. CASE FinishPass(j)
  <2> DEFINE n == [Idle EXCEPT !.pc = "notify", !.pend = t.pend]
  <2>1. Sound(n) /\ Owed(n) \subseteq Owed(t)
    BY DEF Sound, Owed, Idle, OneUser
  <2> QED
    BY <1>15, <2>1, IdleSound, TaskStep DEF FinishPass
<1>16. CASE Abort(j)
  <2> QED
    BY <1>16, IdleSound, TaskStep DEF Abort, Close
<1> QED
  BY <1>1, <1>2, <1>3, <1>4, <1>5, <1>6, <1>7, <1>8, <1>9, <1>10, <1>11,
     <1>12, <1>13, <1>14, <1>15, <1>16 DEF Pass


LEMMA RequestTask ==
    ASSUME TypeOK, OnTask, Budget, NEW r \in Requests,
           NewRequest(r) \/ Handle(r)
    PROVE  OnTask' /\ Budget'
<1> DEFINE t == task[r]
<1> USE DEF Sessions
<1>0. /\ t \in Task /\ Sound(t)
      /\ r # "dispatcher" /\ r \in Sessions
    BY CheckInAssumption DEF TypeOK, OnTask, Jobs
<1>1. CASE \E b \in Beats : OpenLink(r, b)
  <2> PICK b \in Beats : OpenLink(r, b)
    BY <1>1
  <2>1. Sound([t EXCEPT !.pc = "open", !.beat = b])
    BY <1>0 DEF Sound, Task, OneUser
  <2> QED
    BY <1>0, <2>1, TaskStep DEF OpenLink
<1>2. CASE FindUser(r)
  <2> DEFINE u == mine[r].log[t.beat].user
  <2>1. Sound([t EXCEPT !.pc = "confirm", !.who = u])
    BY <1>0 DEF Sound, Task, OneUser
  <2> QED
    BY <1>0, <1>2, <2>1, TaskStep DEF FindUser
<1>3. CASE Confirm(r)
    BY <1>0, <1>3, IdleSound, TaskStep DEF Confirm, Close
<1>4. CASE \E u \in Users : OpenSettings(r, u)
  <2> PICK u \in Users : OpenSettings(r, u)
    BY <1>4
  <2>1. Sound([t EXCEPT !.pc = "settings", !.who = u])
    BY <1>0 DEF Sound, Task, OneUser
  <2> QED
    BY <1>0, <2>1, TaskStep DEF OpenSettings
<1>5. CASE \E body \in Bodies : SaveSettings(r, body)
    BY <1>0, <1>5, IdleSound, TaskStep DEF SaveSettings, Close
<1>6. CASE \E u \in Users : SendTest(r, u)
  <2>1. Sound([t EXCEPT !.pc = "test"])
    BY <1>0 DEF Sound, Task, OneUser
  <2>2. issued'.real = issued.real
    BY <1>6 DEF SendTest, TypeOK
  <2> QED
    BY <1>0, <1>6, <2>1, <2>2, TaskStep DEF SendTest, Goto
<1>7. CASE FinishTest(r)
    BY <1>0, <1>7, IdleSound, TaskStep DEF FinishTest, Close
<1>8. CASE Abort(r)
    BY <1>0, <1>8, IdleSound, TaskStep DEF Abort, Close
<1> QED
    BY <1>1, <1>2, <1>3, <1>4, <1>5, <1>6, <1>7, <1>8 DEF NewRequest, Handle

LEMMA OtherTask ==
    ASSUME TypeOK, OnTask, Budget, Cleanup \/ Crash \/ Restart \/ Tick
    PROVE  OnTask' /\ Budget'
<1>1. CASE Cleanup \/ Restart \/ Tick
    BY <1>1 DEF Cleanup, Restart, Tick, OnTask, Sound, Budget, Owed
<1>2. CASE Crash
  <2>1. \A s \in Sessions : task'[s] = Idle
    BY <1>2 DEF Crash
  <2>2. OnTask'
    BY <2>1, IdleSound DEF OnTask, Sound
  <2>3. Owed(task'["dispatcher"]) = {}
    BY <2>1 DEF Owed, Idle, OneUser, Sessions, Jobs
  <2>4. Cardinality(Owed(task'["dispatcher"])) = 0
    BY <2>3, FS_EmptySet
  <2>5. issued' = issued
    BY <1>2 DEF Crash
  <2>6. Budget'
    BY <2>4, <2>5, CheckInAssumption DEF Budget, Owed, TypeOK
  <2> QED
    BY <2>2, <2>6
<1> QED
    BY <1>1, <1>2

Inv == TypeOK /\ OnTask /\ Budget

LEMMA InvStep == Inv /\ [Next]_vars => Inv'
<1> SUFFICES ASSUME Inv, [Next]_vars PROVE Inv'
    OBVIOUS
<1>1. ASSUME NEW j \in Jobs, StartPass(j) \/ Pass(j)
      PROVE  Inv'
    BY <1>1, PassType, PassTask DEF Inv
<1>2. ASSUME NEW r \in Requests, NewRequest(r) \/ Handle(r)
      PROVE  Inv'
    BY <1>2, RequestType, RequestTask DEF Inv
<1>3. CASE Cleanup \/ Crash \/ Restart \/ Tick
    BY <1>3, OtherType, OtherTask DEF Inv
<1>4. CASE UNCHANGED vars
    BY <1>4 DEF Inv, vars, TypeOK, OnTask, Sound, Budget, Owed
<1> QED
    BY <1>1, <1>2, <1>3, <1>4 DEF Next

\* Every variable keeps its type: the passes never create a heartbeat they
\* have no room for, and never take the user they work on for nobody.
THEOREM TypeCorrect == Spec => []TypeOK
<1>1. Init => Inv
    BY InitType DEF Inv
<1>2. Spec => []Inv
    BY <1>1, InvStep, PTL DEF Spec
<1> QED
    BY <1>2, PTL DEF Inv

-----------------------------------------------------------------------------
(* What a flush writes into a heartbeat row.                               *)

LEMMA MergedBeat ==
    ASSUME TypeOK, NEW s \in Sessions, NEW m, NEW b \in Beats
    PROVE  LET row == Seen(s).log[b]
               new == Merged(s, m).log[b]
           IN  /\ new.user = row.user /\ new.sentAt = row.sentAt
               /\ new.status = Column(row.status, base[s].log[b].status,
                                      m.log[b].status)
               /\ new.escAt = Column(row.escAt, base[s].log[b].escAt,
                                     m.log[b].escAt)
<1>1. Seen(s).log[b] \in BeatRow
    BY DEF Seen, TypeOK, Database
<1>2. Merged(s, m).log[b] =
          MergeBeat(Seen(s).log[b], base[s].log[b], m.log[b])
    BY DEF Merged
<1> QED
    BY <1>1, <1>2 DEF MergeBeat, BeatRow

-----------------------------------------------------------------------------
(* A heartbeat is not missed before the user has been warned.  The         *)
(* inductive invariant says it of every copy of the row: the committed     *)
(* one, the one under the write lock, and those the sessions have loaded.  *)

Warned(log) ==
    \A b \in Beats : log[b].status \in {"escalated", "missed"} => b \in warned

WarnedInv == /\ Warned(db.log) /\ Warned(wal.log)
             /\ \A s \in Sessions : Warned(mine[s].log)

\* A flushed row has the status that it had in the database, or the session's.
LEMMA MergedWarned ==
    ASSUME TypeOK, WarnedInv, NEW s \in Sessions, NEW m \in Cache,
           Warned(m.log)
    PROVE  Warned(Merged(s, m).log)
<1> SUFFICES ASSUME NEW b \in Beats,
                    Merged(s, m).log[b].status \in {"escalated", "missed"}
             PROVE  b \in warned
    BY DEF Warned
<1>1. Merged(s, m).log[b].status \in {Seen(s).log[b].status, m.log[b].status}
    BY MergedBeat DEF Column
<1> QED
    BY <1>1 DEF Seen, WarnedInv, Warned

LEMMA FlushWarned ==
    ASSUME TypeOK, WarnedInv, NEW s \in Sessions, NEW m \in Cache,
           Warned(m.log), Flush(s, m) \/ Commit(s, m)
    PROVE  Warned(db'.log) /\ Warned(wal'.log)
BY MergedWarned DEF Flush, Commit, WarnedInv, store

LEMMA EmptyWarned == Warned(Empty.log)
BY DEF Warned, Empty, NoBeat

\* What is left of the invariant to prove when the warnings only grow.
LEMMA WarnedStep ==
    ASSUME WarnedInv, warned \subseteq warned',
           Warned(db'.log), Warned(wal'.log),
           \/ mine' = mine
           \/ \E s \in Sessions : \E m : /\ mine' = [mine EXCEPT ![s] = m]
                                         /\ Warned(m.log),
           TypeOK
    PROVE  WarnedInv'
BY DEF WarnedInv, Warned, TypeOK

LEMMA PassWarned ==
    ASSUME TypeOK, WarnedInv, NEW j \in Jobs, StartPass(j) \/ Pass(j)
    PROVE  WarnedInv'
<1> USE DEF Sessions
<1>0. /\ mine[j] \in Cache /\ Warned(mine[j].log)
      /\ Warned(db.log) /\ Warned(wal.log)
    BY DEF TypeOK, WarnedInv
<1>1. CASE StartPass(j)
  <2>1. \A m : m.log = Empty.log => Warned(m.log)
    BY EmptyWarned
  <2> QED
    BY <1>0, <1>1, <2>1, WarnedStep DEF StartPass, Hold, Empty, store, world
<1>2. CASE \E u \in Users : Reschedule(j, u)
  <2> PICK u \in Users : Reschedule(j, u)
    BY <1>2
  <2> DEFINE m == [mine[j] EXCEPT !.users = Scheduling(@, {u})]
  <2>1. mine' = [mine EXCEPT ![j] = m] /\ m.log = mine[j].log
    BY <1>0 DEF Reschedule, Cache, TypeOK
  <2>2. Warned(m.log)
    BY <1>0, <2>1
  <2>3. UNCHANGED <<db, wal, warned>>
    BY DEF Reschedule, store, world
  <2> HIDE DEF m
  <2> QED
    BY <1>0, <2>1, <2>2, <2>3, WarnedStep
<1>3. CASE \E u \in Users : SelectExpired(j, u)
  <2> PICK u \in Users : SelectExpired(j, u)
    BY <1>3
  <2>1. Warned(Merged(j, mine[j]).log)
    BY <1>0, MergedWarned
  <2>2. PICK m : Hold(j, m, m) /\ Warned(m.log)
    BY <2>1 DEF SelectExpired, Warned, NoBeat
  <2>3. Warned(db'.log) /\ Warned(wal'.log)
    BY <1>0, FlushWarned DEF SelectExpired
  <2> QED
    BY <2>2, <2>3, WarnedStep DEF SelectExpired, Hold, world
<1>4. CASE \E b \in Beats : Escalate(j, b)
  <2> PICK b \in Beats : Escalate(j, b)
    BY <1>4
  <2>1. \A c \in Beats \ {b} : Escalated(j, b).log[c] = mine[j].log[c]
    BY <1>0 DEF Escalated, Cache
  <2>2. \A c \in Beats : Escalated(j, b).log[c].status
                             \in {"escalated", "missed"} => c \in warned'
    BY <1>0, <2>1 DEF Escalate, Warned
  <2>3. \A s \in Sessions : mine'[s] = IF s = j THEN Escalated(j, b)
                                               ELSE mine[s]
    BY DEF Escalate, TypeOK
  <2>4. UNCHANGED <<db, wal>> /\ warned \subseteq warned'
    BY DEF Escalate, store
  <2> QED
    BY <2>2, <2>3, <2>4 DEF WarnedInv, Warned
<1>5. CASE \E b \in Beats : RaiseTypeError(j, b) \/ Leave(j, b) \/ Notify(j, b)
    BY <1>5 DEF RaiseTypeError, Leave, Notify, WarnedInv, Warned, store, world
<1>6. CASE \E b \in Beats : Miss(j, b)
  <2> PICK b \in Beats : Miss(j, b)
    BY <1>6
  <2>1. b \in warned
    BY <1>0 DEF Miss, Missable, NeedsVerdict, Warned
  <2>2. \A c \in Beats \ {b} : Missed(j, b).log[c] = mine[j].log[c]
    BY <1>0 DEF Missed, Cache
  <2>3. Warned(Missed(j, b).log)
    BY <1>0, <2>1, <2>2 DEF Warned
  <2>4. Missed(j, b) \in Cache
    BY <1>0, MissedType
  <2>5. Warned(db'.log) /\ Warned(wal'.log)
    BY <2>3, <2>4, FlushWarned DEF Miss
  <2> QED
    BY <2>3, <2>5, WarnedStep DEF Miss, Hold
<1>7. CASE \E r \in Recipients, outcome \in Outcomes : Deliver(j, r, outcome)
  <2>1. wal'.log = wal.log
    BY <1>7 DEF Deliver, TypeOK, Database
  <2> QED
    BY <1>7, <2>1 DEF Deliver, WarnedInv, Warned
<1>8. CASE FlushEscalation(j) \/ CommitTrigger(j)
  <2>1. Warned(db'.log) /\ Warned(wal'.log)
    BY <1>0, <1>8, FlushWarned DEF FlushEscalation, CommitTrigger
  <2> QED
    BY <1>0, <1>8, <2>1, WarnedStep
    DEF FlushEscalation, CommitTrigger, Hold, world
<1>9. CASE Deactivate(j)
  <2>1. Deactivated(j) \in Cache
    BY <1>0, DeactivatedType
  <2>2. Deactivated(j).log = mine[j].log
    BY <1>0 DEF Deactivated, Cache
  <2>3. Warned(db'.log) /\ Warned(wal'.log)
    BY <1>0, <1>9, <2>1, <2>2, FlushWarned DEF Deactivate
  <2> QED
    BY <1>0, <1>9, <2>2, <2>3, WarnedStep DEF Deactivate, Hold, world
<1>10. CASE NextUser(j)
    BY <1>10 DEF NextUser, WarnedInv, Warned, store, world
<1>11. CASE CreateBeat(j)
  <2> DEFINE u == task[j].who
             b == issued.real + 1
             m == [mine[j] EXCEPT !.users = Scheduling(@, {u})]
  <2>1. Warned(Merged(j, mine[j]).log)
    BY <1>0, MergedWarned
  <2>2. wal' = [Merged(j, mine[j]) EXCEPT !.log[b] = NewBeat(u)]
    BY <1>11 DEF CreateBeat
  <2>3. Merged(j, mine[j]) \in Database
    BY <1>0, MergedType
  <2>4. \A c \in Beats : wal'.log[c] \in {Merged(j, mine[j]).log[c], NewBeat(u)}
    BY <2>2, <2>3 DEF Database
  <2>5. Warned(wal'.log)
    BY <2>1, <2>4 DEF Warned, NewBeat
  <2>6. Hold(j, m, mine[j]) /\ m.log = mine[j].log
    BY <1>0, <1>11 DEF CreateBeat, Cache
  <2> HIDE DEF m
  <2> QED
    BY <1>0, <1>11, <2>5, <2>6, WarnedStep DEF CreateBeat, Hold, world
<1>12. CASE FinishScan(j)
  <2>1. Warned(db'.log) /\ Warned(wal'.log)
    BY <1>0, <1>12, FlushWarned DEF FinishScan
  <2> DEFINE seen   == Merged(j, mine[j]).users
             found  == IF j = "dispatcher"
                       THEN {u \in Users : seen[u].active
                                              /\ seen[u].next = Never}
                       ELSE {}
             loaded == [mine[j] EXCEPT !.users =
                           [u \in Users |-> IF u \in found \ task[j].loaded
                                            THEN seen[u] ELSE @[u]]]
             m      == [loaded EXCEPT !.users = Scheduling(@, found)]
  <2>2. Hold(j, m, loaded) /\ m.log = mine[j].log
    BY <1>0, <1>12 DEF FinishScan, Cache
  <2> HIDE DEF m
  <2> QED
    BY <1>0, <1>12, <2>1, <2>2, WarnedStep DEF FinishScan, Hold, world
<1>13. CASE FinishPass(j)
  <2>1. Warned(db'.log) /\ Warned(wal'.log)
    BY <1>0, <1>13, FlushWarned DEF FinishPass
  <2> QED
    BY <1>13, <2>1, EmptyWarned, WarnedStep DEF FinishPass, Hold, world
<1>14. CASE Abort(j)
    BY <1>0, <1>14, EmptyWarned, WarnedStep
    DEF Abort, Rollback, Close, Hold, world
<1> QED
    BY <1>1, <1>2, <1>3, <1>4, <1>5, <1>6, <1>7, <1>8, <1>9, <1>10, <1>11,
       <1>12, <1>13, <1>14 DEF Pass

LEMMA RequestWarned ==
    ASSUME TypeOK, WarnedInv, NEW r \in Requests, NewRequest(r) \/ Handle(r)
    PROVE  WarnedInv'
<1> USE DEF Sessions
<1>0. /\ mine[r] \in Cache /\ Warned(mine[r].log)
      /\ Warned(db.log) /\ Warned(wal.log)
      /\ now \in Int
    BY CheckInAssumption DEF TypeOK, WarnedInv
<1>1. CASE \E b \in Beats : OpenLink(r, b)
  <2> PICK b \in Beats : OpenLink(r, b)
    BY <1>1
  <2> DEFINE m == [Empty EXCEPT !.log[b] = db.log[b]]
  <2>1. Warned(m.log)
    BY <1>0, EmptyWarned DEF Warned, Empty
  <2> QED
    BY <1>0, <2>1, WarnedStep DEF OpenLink, Hold, store, world
<1>2. CASE FindUser(r)
  <2> DEFINE u == mine[r].log[task[r].beat].user
             m == [mine[r] EXCEPT !.users[u] = db.users[u]]
  <2>1. m.log = mine[r].log
    BY <1>0 DEF Cache
  <2> QED
    BY <1>0, <1>2, <2>1, WarnedStep DEF FindUser, Hold, store, world
<1>3. CASE Confirm(r)
  <2>1. Responded(r) \in Cache
    BY <1>0, RespondedType
  <2>2. \A c \in Beats : Responded(r).log[c].status \in
                             {mine[r].log[c].status, "responded"}
    BY <1>0 DEF Responded, Cache, BeatRow
  <2>3. Warned(Responded(r).log)
    BY <1>0, <2>2 DEF Warned
  <2>4. Warned(db'.log) /\ Warned(wal'.log)
    BY <1>3, <2>1, <2>3, FlushWarned DEF Confirm
  <2> QED
    BY <1>3, <2>4, EmptyWarned, WarnedStep DEF Confirm, Close, Hold, world
<1>4. CASE \E u \in Users : OpenSettings(r, u)
  <2> PICK u \in Users : OpenSettings(r, u)
    BY <1>4
  <2> DEFINE m == [Empty EXCEPT !.users[u] = db.users[u]]
  <2>1. Warned(m.log)
    BY EmptyWarned DEF Empty
  <2> QED
    BY <1>0, <2>1, WarnedStep DEF OpenSettings, Hold, store, world
<1>5. CASE \E body \in Bodies : SaveSettings(r, body)
  <2> PICK body \in Bodies : SaveSettings(r, body)
    BY <1>5
  <2>1. Updated(r, body) \in Cache
    BY <1>0, UpdatedType
  <2>2. Updated(r, body).log = mine[r].log
    BY <1>0 DEF Updated, Cache
  <2>3. Warned(db'.log) /\ Warned(wal'.log)
    BY <1>0, <2>1, <2>2, FlushWarned DEF SaveSettings
  <2> QED
    BY <2>3, EmptyWarned, WarnedStep DEF SaveSettings, Close, Hold, world
<1>6. CASE \E u \in Users : SendTest(r, u)
  <2> PICK u \in Users : SendTest(r, u)
    BY <1>6
  <2>1. \A c \in Beats : wal'.log[c] \in {db.log[c], NewBeat(u)}
    BY DEF SendTest, TypeOK, Database
  <2>2. Warned(wal'.log)
    BY <1>0, <2>1 DEF Warned, NewBeat
  <2> QED
    BY <1>0, <2>2, WarnedStep DEF SendTest
<1>7. CASE FinishTest(r)
  <2>1. Warned(db'.log) /\ Warned(wal'.log)
    BY <1>0, <1>7, FlushWarned DEF FinishTest
  <2> QED
    BY <1>7, <2>1, EmptyWarned, WarnedStep DEF FinishTest, Close, Hold, world
<1>8. CASE Abort(r)
    BY <1>0, <1>8, EmptyWarned, WarnedStep
    DEF Abort, Rollback, Close, Hold, world
<1> QED
    BY <1>1, <1>2, <1>3, <1>4, <1>5, <1>6, <1>7, <1>8 DEF NewRequest, Handle

LEMMA OtherWarned ==
    ASSUME TypeOK, WarnedInv, Cleanup \/ Crash \/ Restart \/ Tick
    PROVE  WarnedInv'
<1>1. CASE Cleanup
  <2>1. \A b \in Beats : \/ db'.log[b] = db.log[b]
                         \/ db'.log[b].status = "deleted"
    BY <1>1 DEF Cleanup, TypeOK, Database, BeatRow
  <2>2. Warned(db'.log)
    BY <2>1 DEF WarnedInv, Warned
  <2> QED
    BY <1>1, <2>2, WarnedStep DEF Cleanup, world
<1>2. CASE Crash
    BY <1>2, EmptyWarned DEF Crash, WarnedInv, Warned, world
<1>3. CASE Restart
  <2>1. db'.log = db.log
    BY <1>3 DEF Restart, TypeOK, Database
  <2> QED
    BY <1>3, <2>1, WarnedStep DEF Restart, WarnedInv, world
<1>4. CASE Tick
    BY <1>4 DEF Tick, WarnedInv, Warned, store, world
<1> QED
    BY <1>1, <1>2, <1>3, <1>4

LEMMA WarningsComeFirst == Spec => []WarnedInv
<1>1. Init => WarnedInv
    BY DEF Init, WarnedInv, Warned, Empty, NoBeat
<1>2. TypeOK /\ WarnedInv /\ [Next]_vars => WarnedInv'
  <2> SUFFICES ASSUME TypeOK, WarnedInv, [Next]_vars PROVE WarnedInv'
    OBVIOUS
  <2>1. CASE UNCHANGED vars
    BY <2>1 DEF vars, WarnedInv, Warned
  <2>2. CASE Next
    BY <2>2, PassWarned, RequestWarned, OtherWarned DEF Next
  <2> QED
    BY <2>1, <2>2
<1> QED
    BY <1>1, <1>2, TypeCorrect, PTL DEF Spec

\* README.md:26, for any number of users, heartbeats, passes, requests and
\* crashes: no heartbeat is committed as missed before its escalation email
\* was attempted.
THEOREM EscalationComesFirst == Spec => []EscalationBeforeMiss
<1>1. WarnedInv => EscalationBeforeMiss
    BY DEF WarnedInv, Warned, EscalationBeforeMiss
<1> QED
    BY <1>1, WarningsComeFirst, PTL

=============================================================================
