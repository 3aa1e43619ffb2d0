-------------------------- MODULE CheckInRowProofs ---------------------------
(***************************************************************************)
(* What the copies of a heartbeat have in common: the committed row, the   *)
(* one under the write lock and those that the sessions have loaded.  From *)
(* this follow the safety of the links and of the response windows, for    *)
(* all values of the constants.                                            *)
(***************************************************************************)
EXTENDS CheckInProofs

-----------------------------------------------------------------------------
(* Every setting of a user, in every copy of the user's row, is one that   *)
(* the user was given or chose.                                            *)

Choices(f) ==
    {DefaultConfig[f]} \cup
    {body.change[f] : body \in {x \in Bodies : f \in DOMAIN x.change}}

Chosen(users) ==
    \A u \in Users, f \in Fields : users[u].config[f] \in Choices(f)

ConfigInv == /\ Chosen(db.users) /\ Chosen(wal.users)
             /\ \A s \in Sessions : Chosen(mine[s].users)

LEMMA ChoicesType ==
    ASSUME NEW f \in Fields
    PROVE  Choices(f) \subseteq Nat
BY CheckInAssumption DEF Choices, Config

LEMMA WindowsChosen ==
    /\ \A users : Chosen(users) =>
           \A u \in Users : users[u].config.window \in Windows
    /\ Windows \subseteq Nat
<1>1. "window" \in Fields
    BY DEF Fields
<1>2. Windows = Choices("window")
    BY <1>1, CheckInAssumption DEF Windows, Choices, Config
<1> QED
    BY <1>1, <1>2, ChoicesType DEF Chosen

\* Two tables with the same settings.
SameConfigs(old, new) == \A u \in Users : new[u].config = old[u].config

LEMMA SameChosen ==
    ASSUME NEW old, NEW new, SameConfigs(old, new), Chosen(old)
    PROVE  Chosen(new)
BY DEF SameConfigs, Chosen

LEMMA EmptyChosen == Chosen(Empty.users)
BY DEF Chosen, Choices, Empty, Unloaded

LEMMA SchedulingConfigs ==
    ASSUME NEW users \in [Users -> UserRow], NEW S
    PROVE  SameConfigs(users, Scheduling(users, S))
BY DEF SameConfigs, Scheduling, UserRow

\* A flushed row has the settings that it had in the database, or the
\* session's.
LEMMA MergedChosen ==
    ASSUME TypeOK, ConfigInv, NEW s \in Sessions, NEW m \in Cache,
           Chosen(m.users)
    PROVE  Chosen(Merged(s, m).users)
<1> SUFFICES ASSUME NEW u \in Users, NEW f \in Fields
             PROVE  Merged(s, m).users[u].config[f] \in Choices(f)
    BY DEF Chosen
<1>1. Merged(s, m).users[u].config[f]
          \in {Seen(s).users[u].config[f], m.users[u].config[f]}
    BY DEF Merged, MergeUser, Column
<1> QED
    BY <1>1 DEF Seen, ConfigInv, Chosen

LEMMA FlushChosen ==
    ASSUME TypeOK, ConfigInv, NEW s \in Sessions, NEW m \in Cache,
           Chosen(m.users), Flush(s, m) \/ Commit(s, m)
    PROVE  Chosen(db'.users) /\ Chosen(wal'.users)
BY MergedChosen DEF Flush, Commit, ConfigInv, store

LEMMA ConfigStep ==
    ASSUME TypeOK, ConfigInv, Chosen(db'.users), Chosen(wal'.users),
           \/ mine' = mine
           \/ \E s \in Sessions : \E m : /\ mine' = [mine EXCEPT ![s] = m]
                                         /\ Chosen(m.users)
    PROVE  ConfigInv'
BY DEF ConfigInv, TypeOK

\* What the sessions make of a loaded user leaves the settings alone.
LEMMA ChangesConfigs ==
    ASSUME NEW s \in Sessions, mine[s] \in Cache, now \in Int
    PROVE  /\ \A b \in Beats :
                  /\ SameConfigs(mine[s].users, Escalated(s, b).users)
                  /\ SameConfigs(mine[s].users, Missed(s, b).users)
           /\ SameConfigs(mine[s].users, Deactivated(s).users)
           /\ SameConfigs(mine[s].users, Responded(s).users)
<1>1. \A u \in Users : mine[s].users[u] \in UserRow
    BY DEF Cache
<1> QED
    BY <1>1 DEF SameConfigs, Escalated, Missed, Deactivated, Responded, Cache,
                UserRow

LEMMA UpdatedChosen ==
    ASSUME NEW s \in Sessions, mine[s] \in Cache, Chosen(mine[s].users),
           NEW body \in Bodies
    PROVE  Chosen(Updated(s, body).users)
<1> SUFFICES ASSUME NEW u \in Users, NEW f \in Fields
             PROVE  Updated(s, body).users[u].config[f] \in Choices(f)
    BY DEF Chosen
<1>1. \A v \in Users : mine[s].users[v].config[f] \in Choices(f)
    BY DEF Chosen
<1>2. CASE u # task[s].who
    BY <1>1, <1>2 DEF Updated, Cache
<1>3. CASE u = task[s].who
  <2>1. Updated(s, body).users[u] = Applied(mine[s].users[u], body)
    BY <1>3 DEF Updated, Cache
  <2>2. mine[s].users[u] \in UserRow
    BY DEF Cache
  <2>3. Applied(mine[s].users[u], body).config[f]
            = IF f \in DOMAIN body.change THEN body.change[f]
                                          ELSE mine[s].users[u].config[f]
    BY <2>2 DEF Applied, UserRow
  <2> QED
    BY <1>1, <2>1, <2>3 DEF Choices
<1> QED
    BY <1>2, <1>3

LEMMA PassConfig ==
    ASSUME TypeOK, ConfigInv, NEW j \in Jobs, StartPass(j) \/ Pass(j)
    PROVE  ConfigInv'
<1> USE DEF Sessions
<1>0. /\ mine[j] \in Cache /\ Chosen(mine[j].users)
      /\ mine[j].users \in [Users -> UserRow]
      /\ Chosen(db.users) /\ Chosen(wal.users)
      /\ now \in Int
    BY CheckInAssumption DEF TypeOK, ConfigInv, Cache
<1>1. CASE StartPass(j)
  <2>1. PICK m : Hold(j, m, m) /\ Chosen(m.users)
    BY <1>0, <1>1, EmptyChosen DEF StartPass, Chosen, Empty
  <2> QED
    BY <1>0, <1>1, <2>1, ConfigStep DEF StartPass, Hold, store
<1>2. CASE \E u \in Users : Reschedule(j, u)
  <2> PICK u \in Users : Reschedule(j, u)
    BY <1>2
  <2> DEFINE m == [mine[j] EXCEPT !.users = Scheduling(@, {u})]
  <2>1. m.users = Scheduling(mine[j].users, {u})
    BY <1>0 DEF Cache
  <2>2. Chosen(m.users)
    BY <1>0, <2>1, SchedulingConfigs, SameChosen
  <2>3. mine' = [mine EXCEPT ![j] = m]
    BY DEF Reschedule
  <2> HIDE DEF m
  <2> QED
    BY <1>0, <2>2, <2>3, ConfigStep DEF Reschedule, store
<1>3. CASE \E u \in Users : SelectExpired(j, u)
  <2> PICK u \in Users : SelectExpired(j, u)
    BY <1>3
  <2>1. PICK m : Hold(j, m, m) /\ m.users = mine[j].users
    BY DEF SelectExpired
  <2>2. Chosen(db'.users) /\ Chosen(wal'.users)
    BY <1>0, FlushChosen DEF SelectExpired
  <2> QED
    BY <1>0, <2>1, <2>2, ConfigStep DEF Hold
<1>4. CASE \E b \in Beats : Escalate(j, b)
  <2> PICK b \in Beats : Escalate(j, b)
    BY <1>4
  <2>1. Chosen(Escalated(j, b).users)
    BY <1>0, ChangesConfigs, SameChosen
  <2> QED
    BY <1>0, <2>1, ConfigStep DEF Escalate, store
<1>5. CASE \E b \in Beats : RaiseTypeError(j, b) \/ Leave(j, b) \/ Notify(j, b)
    BY <1>0, <1>5, ConfigStep DEF RaiseTypeError, Leave, Notify, store
<1>6. CASE \E b \in Beats : Miss(j, b)
  <2> PICK b \in Beats : Miss(j, b)
    BY <1>6
  <2>1. Missed(j, b) \in Cache /\ Chosen(Missed(j, b).users)
    BY <1>0, MissedType, ChangesConfigs, SameChosen
  <2>2. Chosen(db'.users) /\ Chosen(wal'.users)
    BY <2>1, FlushChosen DEF Miss
  <2> QED
    BY <2>1, <2>2, ConfigStep DEF Miss, Hold
<1>7. CASE \E r \in Recipients, outcome \in Outcomes : Deliver(j, r, outcome)
  <2>1. wal'.users = wal.users /\ db' = db /\ mine' = mine
    BY <1>7 DEF Deliver, TypeOK, Database
  <2> QED
    BY <1>0, <2>1, ConfigStep
<1>8. CASE FlushEscalation(j) \/ CommitTrigger(j)
  <2>1. Chosen(db'.users) /\ Chosen(wal'.users)
    BY <1>0, <1>8, FlushChosen DEF FlushEscalation, CommitTrigger
  <2> QED
    BY <1>0, <1>8, <2>1, ConfigStep DEF FlushEscalation, CommitTrigger, Hold
<1>9. CASE Deactivate(j)
  <2>1. Deactivated(j) \in Cache /\ Chosen(Deactivated(j).users)
    BY <1>0, DeactivatedType, ChangesConfigs, SameChosen
  <2>2. Chosen(db'.users) /\ Chosen(wal'.users)
    BY <1>9, <2>1, FlushChosen DEF Deactivate
  <2> QED
    BY <1>9, <2>1, <2>2, ConfigStep DEF Deactivate, Hold
<1>10. CASE NextUser(j)
    BY <1>0, <1>10, ConfigStep DEF NextUser, store
<1>11. CASE CreateBeat(j)
  <2> DEFINE m == [mine[j] EXCEPT !.users = Scheduling(@, {task[j].who})]
  <2>1. Chosen(Merged(j, mine[j]).users)
    BY <1>0, MergedChosen
  <2>2. Merged(j, mine[j]) \in Database
    BY <1>0, MergedType
  <2>3. wal'.users = Merged(j, mine[j]).users /\ db' = db
    BY <1>11, <2>2 DEF CreateBeat, Database
  <2>4. m.users = Scheduling(mine[j].users, {task[j].who})
    BY <1>0 DEF Cache
  <2>5. Chosen(m.users)
    BY <1>0, <2>4, SchedulingConfigs, SameChosen
  <2>6. mine' = [mine EXCEPT ![j] = m]
    BY <1>11 DEF CreateBeat, Hold
  <2> HIDE DEF m
  <2> QED
    BY <1>0, <2>1, <2>3, <2>5, <2>6, ConfigStep
<1>12. CASE FinishScan(j)
  <2>1. Chosen(db'.users) /\ Chosen(wal'.users)
    BY <1>0, <1>12, FlushChosen DEF FinishScan
  <2> DEFINE seen   == Merged(j, mine[j]).users
             found  == IF j = "dispatcher"
                       THEN {u \in Users : seen[u].active
                                              /\ seen[u].next = Never}
                       ELSE {}
             rows   == [u \in Users |-> IF u \in found \ task[j].loaded
                                        THEN seen[u] ELSE mine[j].users[u]]
             loaded == [mine[j] EXCEPT !.users = rows]
             m      == [loaded EXCEPT !.users = Scheduling(@, found)]
  <2>2. seen \in [Users -> UserRow] /\ Chosen(seen)
    BY <1>0, MergedType, MergedChosen DEF Database
  <2>3. rows \in [Users -> UserRow] /\ Chosen(rows)
    BY <1>0, <2>2 DEF Chosen
  <2>4. m.users = Scheduling(rows, found)
    BY <1>0 DEF Cache
  <2>5. mine' = [mine EXCEPT ![j] = m]
    BY <1>0, <1>12 DEF FinishScan, Hold, Cache
  <2> HIDE DEF m, rows, found
  <2>6. Chosen(m.users)
    BY <2>3, <2>4, SchedulingConfigs, SameChosen
  <2> QED
    BY <2>1, <2>5, <2>6, ConfigStep
<1>13. CASE FinishPass(j)
  <2>1. Chosen(db'.users) /\ Chosen(wal'.users)
    BY <1>0, <1>13, FlushChosen DEF FinishPass
  <2> QED
    BY <1>13, <2>1, EmptyChosen, ConfigStep DEF FinishPass, Hold
<1>14. CASE Abort(j)
    BY <1>0, <1>14, EmptyChosen, ConfigStep DEF Abort, Rollback, Close, Hold
<1> QED
    BY <1>1, <1>2, <1>3, <1>4, <1>5, <1>6, <1>7, <1>8, <1>9, <1>10, <1>11,
       <1>12, <1>13, <1>14 DEF Pass

LEMMA RequestConfig ==
    ASSUME TypeOK, ConfigInv, NEW r \in Requests, NewRequest(r) \/ Handle(r)
    PROVE  ConfigInv'
<1> USE DEF Sessions
<1>0. /\ mine[r] \in Cache /\ Chosen(mine[r].users)
      /\ mine[r].users \in [Users -> UserRow]
      /\ Chosen(db.users) /\ Chosen(wal.users)
      /\ now \in Int
    BY CheckInAssumption DEF TypeOK, ConfigInv, Cache
<1>1. CASE \E b \in Beats : OpenLink(r, b)
  <2>1. PICK m : Hold(r, m, m) /\ m.users = Empty.users
    BY <1>1 DEF OpenLink, Empty
  <2> QED
    BY <1>0, <1>1, <2>1, EmptyChosen, ConfigStep DEF OpenLink, Hold, store
<1>2. CASE FindUser(r)
  <2> DEFINE v == mine[r].log[task[r].beat].user
             m == [mine[r] EXCEPT !.users[v] = db.users[v]]
  <2>1. Chosen(m.users)
    BY <1>0 DEF Chosen, Cache
  <2>2. mine' = [mine EXCEPT ![r] = m]
    BY <1>2 DEF FindUser, Hold
  <2> HIDE DEF m
  <2> QED
    BY <1>0, <1>2, <2>1, <2>2, ConfigStep DEF FindUser, store
<1>3. CASE Confirm(r)
  <2>1. Responded(r) \in Cache /\ Chosen(Responded(r).users)
    BY <1>0, RespondedType, ChangesConfigs, SameChosen
  <2>2. Chosen(db'.users) /\ Chosen(wal'.users)
    BY <1>3, <2>1, FlushChosen DEF Confirm
  <2> QED
    BY <1>3, <2>2, EmptyChosen, ConfigStep DEF Confirm, Close, Hold
<1>4. CASE \E u \in Users : OpenSettings(r, u)
  <2> PICK u \in Users : OpenSettings(r, u)
    BY <1>4
  <2> DEFINE m == [Empty EXCEPT !.users[u] = db.users[u]]
  <2>1. Chosen(m.users)
    BY <1>0, EmptyChosen DEF Chosen, Empty
  <2>2. mine' = [mine EXCEPT ![r] = m]
    BY DEF OpenSettings, Hold
  <2> HIDE DEF m
  <2> QED
    BY <1>0, <2>1, <2>2, ConfigStep DEF OpenSettings, store
<1>5. CASE \E body \in Bodies : SaveSettings(r, body)
  <2> PICK body \in Bodies : SaveSettings(r, body)
    BY <1>5
  <2>1. Updated(r, body) \in Cache /\ Chosen(Updated(r, body).users)
    BY <1>0, UpdatedType, UpdatedChosen
  <2>2. Chosen(db'.users) /\ Chosen(wal'.users)
    BY <2>1, FlushChosen DEF SaveSettings
  <2> QED
    BY <2>2, EmptyChosen, ConfigStep DEF SaveSettings, Close, Hold
<1>6. CASE \E u \in Users : SendTest(r, u)
  <2>1. db' = db /\ wal'.users = db.users /\ mine' = mine
    BY <1>6 DEF SendTest, TypeOK, Database
  <2> QED
    BY <1>0, <2>1, ConfigStep
<1>7. CASE FinishTest(r)
  <2>1. Chosen(db'.users) /\ Chosen(wal'.users)
    BY <1>0, <1>7, FlushChosen DEF FinishTest
  <2> QED
    BY <1>7, <2>1, EmptyChosen, ConfigStep DEF FinishTest, Close, Hold
<1>8. CASE Abort(r)
    BY <1>0, <1>8, EmptyChosen, ConfigStep DEF Abort, Rollback, Close, Hold
<1> QED
    BY <1>1, <1>2, <1>3, <1>4, <1>5, <1>6, <1>7, <1>8 DEF NewRequest, Handle

LEMMA OtherConfig ==
    ASSUME TypeOK, ConfigInv, Cleanup \/ Crash \/ Restart \/ Tick
    PROVE  ConfigInv'
<1>0. Chosen(db.users) /\ Chosen(wal.users)
    BY DEF ConfigInv
<1>1. CASE Cleanup
  <2>1. db'.users = db.users /\ wal' = db' /\ mine' = mine
    BY <1>1 DEF Cleanup, TypeOK, Database
  <2> QED
    BY <1>0, <2>1, ConfigStep
<1>2. CASE Crash
    BY <1>0, <1>2, EmptyChosen DEF Crash, ConfigInv
<1>3. CASE Restart
  <2>1. Chosen(db'.users)
    BY <1>0, <1>3, SchedulingConfigs, SameChosen DEF Restart, TypeOK, Database
  <2> QED
    BY <1>3, <2>1, ConfigStep DEF Restart
<1>4. CASE Tick
    BY <1>0, <1>4, ConfigStep DEF Tick, store
<1> QED
    BY <1>1, <1>2, <1>3, <1>4

LEMMA ConfigsAreChosen == Spec => []ConfigInv
<1>1. Init => ConfigInv
    BY EmptyChosen DEF Init, ConfigInv, Chosen, Choices, NewUser, Unloaded
<1>2. TypeOK /\ ConfigInv /\ [Next]_vars => ConfigInv'
  <2> SUFFICES ASSUME TypeOK, ConfigInv, [Next]_vars PROVE ConfigInv'
    OBVIOUS
  <2>1. CASE UNCHANGED vars
    BY <2>1 DEF vars, ConfigInv, Chosen
  <2>2. CASE Next
    BY <2>2, PassConfig, RequestConfig, OtherConfig DEF Next
  <2> QED
    BY <2>1, <2>2
<1> QED
    BY <1>1, <1>2, TypeCorrect, PTL DEF Spec

-----------------------------------------------------------------------------
(* One row, at the time t.                                                 *)

\* What every stored heartbeat keeps to: it is escalated more than one response
\* window after it was sent, and missed more than one after that.
Timely(t, row) ==
    /\ row.status = "none" => row = NoBeat
    /\ row.status = "sent" => row.escAt = Never
    /\ row.status \in {"escalated", "missed"} => row.escAt # Never
    /\ row.escAt # Never => /\ row.escAt <= t
                            /\ \E w \in Windows : row.escAt > row.sentAt + w
    /\ row.status = "missed" => \E w \in Windows : t > row.escAt + w

\* The row y is x, or what has become of it since some session loaded x: it
\* may have been escalated, but only in this hour.
Later(t, x, y) ==
    x.status # "none" =>
        /\ y.status # "none"
        /\ y.user = x.user /\ y.sentAt = x.sentAt
        /\ y.escAt = x.escAt \/ (x.escAt = Never /\ y.escAt = t)

\* What a session may make of a row x that it has loaded.
Written(t, x, y) ==
    \/ y = x
    \/ /\ x.status = "sent"
       /\ y = [x EXCEPT !.status = "escalated", !.escAt = t]
       /\ \E w \in Windows : t > x.sentAt + w
    \/ /\ x.status = "escalated"
       /\ y = [x EXCEPT !.status = "missed"]
       /\ \E w \in Windows : t > x.escAt + w
    \/ /\ Open(x)
       /\ y = [x EXCEPT !.status = "responded"]

LEMMA LaterOrder ==
    ASSUME NEW t, NEW x
    PROVE  /\ Later(t, x, x)
           /\ \A y, z : Later(t, x, y) /\ Later(t, y, z) => Later(t, x, z)
BY DEF Later

LEMMA WrittenIsTimely ==
    ASSUME NEW t \in Nat, NEW x \in BeatRow, NEW y,
           Timely(t, x), Written(t, x, y)
    PROVE  Timely(t, y)
<1>0. Windows \subseteq Nat /\ x.escAt \in Int /\ x.sentAt \in Int
    BY WindowsChosen DEF BeatRow
<1>1. CASE y = x
    BY <1>1
<1>2. CASE /\ x.status = "sent"
           /\ y = [x EXCEPT !.status = "escalated", !.escAt = t]
           /\ \E w \in Windows : t > x.sentAt + w
  <2>1. y.status = "escalated" /\ y.escAt = t /\ y.sentAt = x.sentAt
    BY <1>2 DEF BeatRow
  <2> QED
    BY <1>0, <1>2, <2>1 DEF Timely, Never
<1>3. CASE /\ x.status = "escalated"
           /\ y = [x EXCEPT !.status = "missed"]
           /\ \E w \in Windows : t > x.escAt + w
  <2>1. y.status = "missed" /\ y.escAt = x.escAt /\ y.sentAt = x.sentAt
    BY <1>3 DEF BeatRow
  <2> QED
    BY <1>0, <1>3, <2>1 DEF Timely
<1>4. CASE Open(x) /\ y = [x EXCEPT !.status = "responded"]
  <2>1. y.status = "responded" /\ y.escAt = x.escAt /\ y.sentAt = x.sentAt
    BY <1>4 DEF BeatRow
  <2> QED
    BY <1>0, <1>4, <2>1 DEF Timely
<1> QED
    BY <1>1, <1>2, <1>3, <1>4 DEF Written

\* A flush writes the two columns one by one, into a row that has moved on; the
\* result is still timely, and it is a later version of the row and of the
\* session's copy.  A row that was settled before is not opened again.
LEMMA MergedRow ==
    ASSUME NEW t \in Nat, NEW row \in BeatRow, NEW x \in BeatRow,
           NEW y \in BeatRow, x.status # "none",
           Timely(t, row), Timely(t, x), Later(t, x, row), Written(t, x, y)
    PROVE  LET new == MergeBeat(row, x, y)
           IN  /\ Timely(t, new)
               /\ Later(t, row, new) /\ Later(t, y, new)
               /\ ~ Open(row) /\ row.escAt \notin {Never, t} => ~ Open(new)
<1> DEFINE new == MergeBeat(row, x, y)
<1>0. /\ Windows \subseteq Nat /\ row.status # "none"
      /\ row.user = x.user /\ row.sentAt = x.sentAt
      /\ row.escAt = x.escAt \/ (x.escAt = Never /\ row.escAt = t)
      /\ t # Never
    BY WindowsChosen DEF Later, Never
<1>1. new = [row EXCEPT !.status = Column(row.status, x.status, y.status),
                        !.escAt = Column(row.escAt, x.escAt, y.escAt)]
    BY DEF MergeBeat
<1> HIDE DEF new
<1>2. CASE y = x
  <2>1. new = row
    BY <1>1, <1>2 DEF Column, BeatRow
  <2> QED
    BY <1>0, <1>2, <2>1 DEF Later, new
<1>3. CASE /\ x.status = "sent"
           /\ y = [x EXCEPT !.status = "escalated", !.escAt = t]
           /\ \E w \in Windows : t > x.sentAt + w
  <2>1. x.escAt = Never /\ row.escAt \in {Never, t}
    BY <1>0, <1>3 DEF Timely
  <2>2. new = [row EXCEPT !.status = "escalated", !.escAt = t]
    BY <1>0, <1>1, <1>3, <2>1 DEF Column, BeatRow
  <2>3. /\ new.status = "escalated" /\ new.escAt = t
        /\ new.user = row.user /\ new.sentAt = row.sentAt
    BY <2>2 DEF BeatRow
  <2>4. y.user = x.user /\ y.sentAt = x.sentAt /\ y.escAt = t
    BY <1>3 DEF BeatRow
  <2> QED
    BY <1>0, <1>3, <2>1, <2>3, <2>4 DEF Timely, Later, Open, new, BeatRow
<1>4. CASE /\ x.status = "escalated"
           /\ y = [x EXCEPT !.status = "missed"]
           /\ \E w \in Windows : t > x.escAt + w
  <2>1. x.escAt # Never /\ row.escAt = x.escAt
    BY <1>0, <1>4 DEF Timely
  <2>2. /\ new.status = "missed" /\ new.escAt = row.escAt
        /\ new.user = row.user /\ new.sentAt = row.sentAt
    BY <1>1, <1>4 DEF Column, BeatRow
  <2>3. y.user = x.user /\ y.sentAt = x.sentAt /\ y.escAt = x.escAt
    BY <1>4 DEF BeatRow
  <2> QED
    BY <1>0, <1>4, <2>1, <2>2, <2>3 DEF Timely, Later, Open, new, BeatRow
<1>5. CASE Open(x) /\ y = [x EXCEPT !.status = "responded"]
  <2>1. /\ new.status = "responded" /\ new.escAt = row.escAt
        /\ new.user = row.user /\ new.sentAt = row.sentAt
    BY <1>1, <1>5 DEF Column, BeatRow, Open
  <2>2. y.user = x.user /\ y.sentAt = x.sentAt /\ y.escAt = x.escAt
    BY <1>5 DEF BeatRow
  <2> QED
    BY <1>0, <1>5, <2>1, <2>2 DEF Timely, Later, Open, new
<1> QED
    BY <1>2, <1>3, <1>4, <1>5 DEF Written

-----------------------------------------------------------------------------
(* The invariant that links the copies of a heartbeat.                     *)

\* A session holds y, which it loaded as x; it sees the row `seen`, and `stored`
\* is committed.
Copied(t, x, y, seen, stored) ==
    \/ x = NoBeat /\ y = NoBeat
    \/ /\ x.status # "none" /\ stored.status # "none"
       /\ Timely(t, x) /\ Later(t, x, seen) /\ Written(t, x, y)

Held(t, x, y, seen, stored) ==
    \A b \in Beats : Copied(t, x[b], y[b], seen[b], stored[b])

\* What work w makes of the rows m, loaded as x: the heartbeats that a pass has
\* yet to look at are those of its user that had expired when it selected them.
OnRows(t, w, m, x) ==
    /\ w.pc \in {"idle", "notify", "test"} => m = Empty /\ x = Empty
    /\ w.pc # "mail" => m.log = x.log
    /\ w.pc \in {"open", "confirm"} =>
           w.beat \in Beats /\ Open(m.log[w.beat])
    /\ w.pc \in OneUser => \A b \in w.rest :
           /\ b \in Scheduled
           /\ m.log[b].user = w.who /\ m.log[b].status # "none"
           /\ m.log[b].sentAt < t - m.users[w.who].config.window

SessionInv(s) ==
    /\ Held(now, base[s].log, mine[s].log, Seen(s).log, db.log)
    /\ OnRows(now, task[s], mine[s], base[s])
    /\ \A b \in task[s].pend : Seen(s).log[b].status # "none"
    /\ task[s].pc \in {"idle", "notify"} => writer # s
    /\ task[s].pc = "trigger" => writer = s
    /\ up \/ task[s].pc = "idle"

\* A row under the write lock is a later version of the committed one; one
\* that is not committed yet was inserted in this hour.
Stored(t, row, new) ==
    /\ Timely(t, row) /\ Timely(t, new) /\ Later(t, row, new)
    /\ row.status = "none" => \/ new = NoBeat
                              \/ new.status = "sent" /\ new.sentAt = t

StoreInv ==
    /\ \A b \in Beats : Stored(now, db.log[b], wal.log[b])
    /\ \A b \in Scheduled : b > issued.real => wal.log[b].status = "none"
    /\ \A b \in Beats \ Scheduled :
           b > MaxBeats + issued.test => wal.log[b].status = "none"
    /\ writer = Nobody => wal = db

KnownInv == \A b \in known \cap Scheduled : db.log[b].status # "none"

RowInv == /\ StoreInv
          /\ \A s \in Sessions : SessionInv(s)
          /\ KnownInv

LEMMA RowTypes ==
    ASSUME TypeOK
    PROVE  /\ now \in Nat
           /\ \A b \in Beats : db.log[b] \in BeatRow /\ wal.log[b] \in BeatRow
           /\ \A s \in Sessions, b \in Beats :
                  /\ Seen(s).log[b] \in BeatRow
                  /\ mine[s].log[b] \in BeatRow /\ base[s].log[b] \in BeatRow
           /\ Scheduled \subseteq Beats
           /\ NoBeat \in BeatRow
<1>1. Scheduled \subseteq Beats
    BY CheckInAssumption DEF Scheduled, Beats
<1>2. NoBeat \in BeatRow
    BY DEF NoBeat, BeatRow, Never, Status
<1> QED
    BY <1>1, <1>2, CheckInAssumption DEF TypeOK, Database, Cache, Seen

\* Whoever may write sees what is under the write lock.
LEMMA LockShowsWal ==
    ASSUME StoreInv, NEW s \in Sessions, LockFree(s)
    PROVE  Seen(s) = wal
BY DEF StoreInv, LockFree, Seen

\* What a flush makes of each row.
LEMMA MergedRows ==
    ASSUME TypeOK, StoreInv, NEW s \in Sessions, NEW m \in Cache,
           Held(now, base[s].log, m.log, Seen(s).log, db.log),
           NEW b \in Beats
    PROVE  LET row == Seen(s).log[b]
               new == Merged(s, m).log[b]
           IN  /\ Timely(now, new)
               /\ Later(now, row, new) /\ Later(now, m.log[b], new)
               /\ ~ Open(row) /\ row.escAt \notin {Never, now} => ~ Open(new)
               /\ m.log[b] = base[s].log[b] => new = row
<1> DEFINE row == Seen(s).log[b]
           x   == base[s].log[b]
           y   == m.log[b]
           new == Merged(s, m).log[b]
<1>0. /\ row \in BeatRow /\ x \in BeatRow /\ y \in BeatRow /\ now \in Nat
    BY RowTypes DEF Cache
<1>1. new = MergeBeat(row, x, y)
    BY DEF Merged
<1>2. Timely(now, row)
    BY DEF StoreInv, Stored, Seen
<1>3. y = x => new = row
    BY <1>0, <1>1 DEF MergeBeat, Column, BeatRow
<1>4. Copied(now, x, y, row, db.log[b])
    BY DEF Held
<1> HIDE DEF row, x, y, new
<1>5. CASE x = NoBeat /\ y = NoBeat
    BY <1>2, <1>3, <1>5, LaterOrder DEF Later, NoBeat, row, x, y, new
<1>6. CASE /\ x.status # "none" /\ db.log[b].status # "none"
           /\ Timely(now, x) /\ Later(now, x, row) /\ Written(now, x, y)
  <2>1. /\ Timely(now, new)
        /\ Later(now, row, new) /\ Later(now, y, new)
        /\ ~ Open(row) /\ row.escAt \notin {Never, now} => ~ Open(new)
    BY <1>0, <1>1, <1>2, <1>6, MergedRow
  <2> QED
    BY <1>3, <2>1 DEF row, x, y, new
<1> QED
    BY <1>4, <1>5, <1>6 DEF Copied

\* A step of the sessions S only brings the others later versions of the rows.
Grown(S) ==
    /\ \A b \in Beats : Later(now, db.log[b], db'.log[b])
    /\ \A o \in Sessions \ S :
           /\ \A b \in Beats : Later(now, Seen(o).log[b], Seen(o)'.log[b])
           /\ writer = o <=> writer' = o

LEMMA StoreStays ==
    ASSUME UNCHANGED store, NEW s \in Sessions
    PROVE  /\ Grown({s}) /\ Seen(s)' = Seen(s)
           /\ StoreInv /\ UNCHANGED <<now, issued>> => StoreInv'
BY LaterOrder DEF store, Grown, Seen, StoreInv

\* What the owner of the write lock would make of the database.
LEMMA MergedStored ==
    ASSUME TypeOK, StoreInv, NEW s \in Sessions, NEW m \in Cache,
           Held(now, base[s].log, m.log, Seen(s).log, db.log), LockFree(s),
           NEW b \in Beats
    PROVE  LET new == Merged(s, m).log[b]
           IN  /\ Stored(now, db.log[b], new)
               /\ Later(now, db.log[b], new)
               /\ wal.log[b].status = "none" => new.status = "none"
<1> DEFINE new == Merged(s, m).log[b]
<1>1. Seen(s) = wal
    BY LockShowsWal
<1>2. /\ Timely(now, new) /\ Later(now, wal.log[b], new)
      /\ m.log[b] = base[s].log[b] => new = wal.log[b]
    BY <1>1, MergedRows
<1>3. Stored(now, db.log[b], wal.log[b])
    BY DEF StoreInv
<1>4. /\ db.log[b].status = "none" => m.log[b] = base[s].log[b]
      /\ wal.log[b].status = "none" => m.log[b] = base[s].log[b]
    BY <1>1 DEF Held, Copied, Later
<1>5. Later(now, db.log[b], new)
    BY <1>2, <1>3, LaterOrder DEF Stored
<1> QED
    BY <1>2, <1>3, <1>4, <1>5 DEF Stored

\* The session sees its own changes.
LEMMA MergedHeld ==
    ASSUME TypeOK, StoreInv, NEW s \in Sessions, NEW m \in Cache,
           Held(now, base[s].log, m.log, Seen(s).log, db.log)
    PROVE  Held(now, m.log, m.log, Merged(s, m).log, db.log)
<1> SUFFICES ASSUME NEW b \in Beats, m.log[b] # NoBeat
             PROVE  Copied(now, m.log[b], m.log[b], Merged(s, m).log[b],
                           db.log[b])
    BY DEF Held, Copied
<1> DEFINE x == base[s].log[b]
<1>1. /\ x.status # "none" /\ db.log[b].status # "none"
      /\ Timely(now, x) /\ Written(now, x, m.log[b])
    BY DEF Held, Copied
<1>2. x \in BeatRow /\ now \in Nat
    BY RowTypes
<1>3. Timely(now, m.log[b])
    BY <1>1, <1>2, WrittenIsTimely
<1>4. m.log[b].status # "none"
    BY <1>1, <1>2 DEF Written, BeatRow
<1> QED
    BY <1>1, <1>3, <1>4, MergedRows DEF Copied, Written

\* A flush or a commit of the rows m.
LEMMA WriteStep ==
    ASSUME TypeOK, StoreInv, NEW s \in Sessions, NEW m \in Cache,
           Held(now, base[s].log, m.log, Seen(s).log, db.log),
           Flush(s, m) \/ Commit(s, m), UNCHANGED <<now, issued>>
    PROVE  /\ StoreInv' /\ Grown({s})
           /\ \A b \in Beats : /\ Seen(s)'.log[b] = Merged(s, m).log[b]
                               /\ Later(now, Seen(s).log[b], Seen(s)'.log[b])
           /\ Held(now, m.log, m.log, Seen(s)'.log, db'.log)
           /\ Commit(s, m) => writer' # s
<1> DEFINE new == Merged(s, m)
<1>0. s # Nobody /\ Nobody \notin Sessions
    BY CheckInAssumption
<1>1. Held(now, m.log, m.log, new.log, db.log)
    BY MergedHeld
<1>2. \A b \in Beats :
          /\ Timely(now, new.log[b])
          /\ Later(now, Seen(s).log[b], new.log[b])
          /\ m.log[b] = base[s].log[b] => new.log[b] = Seen(s).log[b]
    BY MergedRows
<1>3. \/ UNCHANGED store /\ m = base[s]
      \/ /\ LockFree(s) /\ wal' = new
         /\ \/ db' = db /\ writer' = s
            \/ db' = new /\ writer' = Nobody
    BY DEF Flush, Commit, MayWrite
<1>4. Commit(s, m) => writer' # s
    BY <1>0 DEF Commit, store
<1>5. CASE UNCHANGED store /\ m = base[s]
  <2>1. Held(now, m.log, m.log, Seen(s).log, db.log)
    BY <1>1, <1>2, <1>5 DEF Held
  <2>2. db' = db
    BY <1>5 DEF store
  <2> QED
    BY <1>2, <1>4, <1>5, <2>1, <2>2, StoreStays
<1>6. CASE /\ LockFree(s) /\ wal' = new
           /\ \/ db' = db /\ writer' = s
              \/ db' = new /\ writer' = Nobody
  <2>1. writer \in {Nobody, s}
    BY <1>6 DEF LockFree
  <2>2. \A b \in Beats : /\ Stored(now, db.log[b], new.log[b])
                         /\ Later(now, db.log[b], new.log[b])
                         /\ wal.log[b].status = "none" =>
                                new.log[b].status = "none"
    BY <1>6, MergedStored
  <2>3. \A b \in Beats : Later(now, db.log[b], db'.log[b])
    BY <1>6, <2>2, LaterOrder
  <2>4. \A b \in Beats : Stored(now, db'.log[b], wal'.log[b])
    <3>1. CASE db' = db
      BY <1>6, <2>2, <3>1
    <3>2. CASE db' = new
      BY <1>2, <1>6, <3>2, LaterOrder DEF Stored, Timely
    <3> QED
      BY <1>6, <3>1, <3>2
  <2>5. StoreInv'
    BY <1>0, <1>6, <2>2, <2>4, RowTypes DEF StoreInv
  <2>6. /\ \A o \in Sessions \ {s} : Seen(o) = db /\ Seen(o)' = db'
        /\ Seen(s)' = new
    BY <1>0, <1>6, <2>1 DEF Seen
  <2>7. Grown({s})
    BY <1>0, <1>6, <2>1, <2>3, <2>6 DEF Grown
  <2>8. Held(now, m.log, m.log, Seen(s)'.log, db'.log)
    BY <1>1, <2>3, <2>6 DEF Held, Copied, Later
  <2> QED
    BY <1>2, <1>4, <2>5, <2>6, <2>7, <2>8
<1> QED
    BY <1>3, <1>5, <1>6

\* The sessions that do not take part in a step.
LEMMA OthersStay ==
    ASSUME TypeOK, RowInv, NEW S, UNCHANGED <<now, up>>, Grown(S),
           NEW o \in Sessions \ S,
           task'[o] = task[o] /\ mine'[o] = mine[o] /\ base'[o] = base[o]
    PROVE  SessionInv(o)'
<1>1. SessionInv(o)
    BY DEF RowInv
<1>2. \A b \in Beats : Later(now, db.log[b], db'.log[b])
    BY DEF Grown
<1>3. /\ \A b \in Beats : Later(now, Seen(o).log[b], Seen(o)'.log[b])
      /\ writer = o <=> writer' = o
    BY DEF Grown
<1>4. Held(now, base[o].log, mine[o].log, Seen(o)'.log, db'.log)
  <2> SUFFICES ASSUME NEW b \in Beats
               PROVE  Copied(now, base[o].log[b], mine[o].log[b],
                             Seen(o)'.log[b], db'.log[b])
    BY DEF Held
  <2>1. Copied(now, base[o].log[b], mine[o].log[b], Seen(o).log[b],
               db.log[b])
    BY <1>1 DEF SessionInv, Held
  <2>2. Later(now, base[o].log[b], Seen(o).log[b]) =>
            Later(now, base[o].log[b], Seen(o)'.log[b])
    BY <1>3, LaterOrder
  <2>3. db.log[b].status # "none" => db'.log[b].status # "none"
    BY <1>2 DEF Later
  <2> QED
    BY <2>1, <2>2, <2>3 DEF Copied
<1>5. \A b \in task[o].pend : Seen(o)'.log[b].status # "none"
  <2>1. task[o].pend \subseteq Beats
    BY DEF TypeOK, Task
  <2> QED
    BY <1>1, <1>3, <2>1 DEF SessionInv, Later
<1> QED
    BY <1>1, <1>3, <1>4, <1>5 DEF SessionInv

\* A link that goes out works, and goes on working.
LEMMA KnownStep ==
    ASSUME TypeOK, RowInv, NEW S, Grown(S),
           \A b \in known' \cap Scheduled :
               b \in known \/ db.log[b].status # "none"
    PROVE  KnownInv'
BY RowTypes DEF RowInv, KnownInv, Grown, Later

\* What is left to prove of a step of s that takes it to w.
LEMMA RowStep ==
    ASSUME TypeOK, RowInv, NEW s \in Sessions, NEW w, NEW m, NEW x,
           GoOn(s, w), Hold(s, m, x), UNCHANGED <<now, up>>,
           up \/ task[s].pc # "idle",
           StoreInv', Grown({s}), KnownInv',
           Held(now, x.log, m.log, Seen(s)'.log, db'.log),
           OnRows(now, w, m, x),
           \A b \in w.pend : Seen(s)'.log[b].status # "none",
           w.pc \in {"idle", "notify"} => writer' # s,
           w.pc = "trigger" => writer' = s
    PROVE  RowInv'
<1>1. /\ task'[s] = w /\ mine'[s] = m /\ base'[s] = x
      /\ \A o \in Sessions \ {s} : /\ task'[o] = task[o]
                                   /\ mine'[o] = mine[o]
                                   /\ base'[o] = base[o]
    BY DEF GoOn, Hold, TypeOK
<1>2. up
    BY DEF RowInv, SessionInv
<1>3. SessionInv(s)'
    BY <1>1, <1>2 DEF SessionInv
<1>4. \A o \in Sessions \ {s} : SessionInv(o)'
    BY <1>1, OthersStay
<1> QED
    BY <1>3, <1>4 DEF RowInv

LEMMA EmptyRows ==
    /\ \A t, seen, stored : Held(t, Empty.log, Empty.log, seen, stored)
    /\ \A t : OnRows(t, Idle, Empty, Empty)
    /\ Idle.pend = {} /\ Idle.pc = "idle"
BY DEF Held, Copied, Empty, OnRows, Idle, OneUser

\* The end of a pass or a request.
LEMMA CloseStep ==
    ASSUME TypeOK, RowInv, NEW s \in Sessions, Close(s),
           UNCHANGED <<now, up, known>>, task[s].pc # "idle",
           StoreInv', Grown({s}), writer' # s
    PROVE  RowInv'
<1>1. KnownInv'
    BY KnownStep
<1> QED
    BY <1>1, EmptyRows, RowStep DEF Close

LEMMA AbortStep ==
    ASSUME TypeOK, RowInv, NEW s \in Sessions, Abort(s)
    PROVE  RowInv'
<1>1. task[s].pc # "idle"
    BY DEF Abort, WriteFails, Missable, Checking, Sends, Checked
<1>2. Nobody \notin Sessions
    BY CheckInAssumption
<1>3. StoreInv /\ UNCHANGED <<now, issued>>
    BY DEF RowInv, Abort, clock
<1>4. Grown({s})
    BY <1>2, LaterOrder DEF Abort, Rollback, Grown, Seen
<1>5. StoreInv'
  <2>1. CASE writer # s
    BY <2>1, <1>3 DEF Abort, Rollback, StoreInv
  <2>2. CASE writer = s
    <3>1. \A b \in Beats : Stored(now, db.log[b], db.log[b])
      BY <1>3, LaterOrder DEF StoreInv, Stored, Timely
    <3>2. \A b \in Beats : wal.log[b].status = "none" =>
                               db.log[b].status = "none"
      BY <1>3 DEF StoreInv, Stored, Later
    <3>3. db' = db /\ wal' = db
      BY <2>2 DEF Abort, Rollback
    <3> QED
      BY <1>3, <3>1, <3>2, <3>3, RowTypes DEF Abort, StoreInv
  <2> QED
    BY <2>1, <2>2
<1>6. writer' # s
    BY <1>2 DEF Abort, Rollback
<1> QED
    BY <1>1, <1>4, <1>5, <1>6, CloseStep DEF Abort, clock, world

LEMMA SameHold ==
    ASSUME TypeOK, NEW s \in Sessions
    PROVE  /\ UNCHANGED <<mine, base>> => Hold(s, mine[s], base[s])
           /\ \A m : mine' = [mine EXCEPT ![s] = m] /\ base' = base =>
                         Hold(s, m, base[s])
BY DEF Hold, TypeOK

\* A step that leaves the database alone.
LEMMA QuietStep ==
    ASSUME TypeOK, RowInv, NEW s \in Sessions, NEW w, NEW m, NEW x,
           GoOn(s, w), Hold(s, m, x), UNCHANGED <<now, up, store, issued>>,
           \A b \in known' \cap Scheduled :
               b \in known \/ db.log[b].status # "none",
           up \/ task[s].pc # "idle",
           Held(now, x.log, m.log, Seen(s).log, db.log),
           OnRows(now, w, m, x),
           w.pend \subseteq task[s].pend,
           w.pc \in {"idle", "notify"} => writer # s,
           w.pc = "trigger" => writer = s
    PROVE  RowInv'
<1>1. /\ Grown({s}) /\ Seen(s)' = Seen(s) /\ StoreInv'
      /\ UNCHANGED <<db, writer>>
    BY StoreStays DEF RowInv, store
<1>2. KnownInv'
    BY <1>1, KnownStep
<1>3. \A b \in w.pend : Seen(s)'.log[b].status # "none"
    BY <1>1 DEF RowInv, SessionInv
<1> QED
    BY <1>1, <1>2, <1>3, RowStep

\* A step that flushes or commits the rows m.
LEMMA FlushStep ==
    ASSUME TypeOK, RowInv, NEW s \in Sessions, NEW m \in Cache,
           Held(now, base[s].log, m.log, Seen(s).log, db.log),
           Flush(s, m) \/ Commit(s, m),
           NEW w, NEW h, NEW x, GoOn(s, w), Hold(s, h, x),
           UNCHANGED <<now, up, known, issued>>, task[s].pc # "idle",
           h.log = x.log, x.log \in {m.log, Empty.log},
           OnRows(now, w, h, x),
           w.pend \subseteq task[s].pend,
           w.pc \in {"idle", "notify"} => Commit(s, m),
           w.pc = "trigger" => writer' = s
    PROVE  RowInv'
<1>1. /\ StoreInv' /\ Grown({s})
      /\ \A b \in Beats : Later(now, Seen(s).log[b], Seen(s)'.log[b])
      /\ Held(now, m.log, m.log, Seen(s)'.log, db'.log)
      /\ Commit(s, m) => writer' # s
    BY WriteStep DEF RowInv
<1>2. KnownInv'
    BY <1>1, KnownStep
<1>3. Held(now, x.log, h.log, Seen(s)'.log, db'.log)
    BY <1>1, EmptyRows
<1>4. \A b \in w.pend : Seen(s)'.log[b].status # "none"
  <2>1. w.pend \subseteq Beats
    BY DEF TypeOK, Task
  <2> QED
    BY <1>1, <2>1 DEF RowInv, SessionInv, Later
<1> QED
    BY <1>1, <1>2, <1>3, <1>4, RowStep

\* What a session in progress knows.
LEMMA OwnRows ==
    ASSUME TypeOK, RowInv, NEW s \in Sessions
    PROVE  /\ task[s] \in Task /\ mine[s] \in Cache /\ base[s] \in Cache
           /\ now \in Nat /\ StoreInv
           /\ Held(now, base[s].log, mine[s].log, Seen(s).log, db.log)
           /\ OnRows(now, task[s], mine[s], base[s])
           /\ task[s].pc \in {"idle", "notify"} => writer # s
           /\ task[s].pc = "trigger" => writer = s
BY RowTypes DEF RowInv, SessionInv, TypeOK

LEMMA ScanRows ==
    ASSUME TypeOK, RowInv, NEW j \in Jobs,
           \/ StartPass(j) \/ \E u \in Users : Reschedule(j, u)
           \/ FinishScan(j) \/ FinishPass(j)
    PROVE  RowInv'
<1> USE DEF Sessions
<1> DEFINE t == task[j]
<1>0. /\ t \in Task /\ mine[j] \in Cache /\ base[j] \in Cache /\ now \in Nat
      /\ Held(now, base[j].log, mine[j].log, Seen(j).log, db.log)
      /\ OnRows(now, t, mine[j], base[j])
      /\ t.pc = "idle" => writer # j
    BY OwnRows
<1>1. CASE StartPass(j)
  <2> DEFINE S == IF j = "dispatcher" THEN Due ELSE Outstanding
             w == [t EXCEPT !.pc = "scan", !.queue = S, !.loaded = S]
             m == [Empty EXCEPT !.users = [u \in Users |->
                       IF u \in S THEN db.users[u] ELSE Unloaded]]
  <2>1. GoOn(j, w) /\ Hold(j, m, m) /\ m.log = Empty.log
    BY <1>1 DEF StartPass, Empty
  <2>2. w.pc = "scan" /\ w.pend = t.pend
    BY <1>0 DEF Task
  <2> HIDE DEF w, m
  <2>3. OnRows(now, w, m, m)
    BY <2>2 DEF OnRows, OneUser
  <2>4. Held(now, m.log, m.log, Seen(j).log, db.log)
    BY <2>1, EmptyRows
  <2>5. up /\ UNCHANGED <<now, up, store, issued, known>>
    BY <1>1 DEF StartPass, clock, world
  <2> QED
    BY <2>1, <2>2, <2>3, <2>4, <2>5, QuietStep
<1>2. CASE \E u \in Users : Reschedule(j, u)
  <2> PICK u \in Users : Reschedule(j, u)
    BY <1>2
  <2> DEFINE w == [t EXCEPT !.queue = @ \ {u}]
  <2> DEFINE m == [mine[j] EXCEPT !.users = Scheduling(@, {u})]
  <2>1. mine' = [mine EXCEPT ![j] = m] /\ m.log = mine[j].log
    BY <1>0 DEF Reschedule, Cache
  <2>2. Hold(j, m, base[j])
    BY <2>1, SameHold DEF Reschedule
  <2> HIDE DEF m
  <2>3. t.pc = "scan" /\ w.pc = "scan" /\ w.pend = t.pend
    BY <1>0 DEF Reschedule, Task
  <2>4. OnRows(now, w, m, base[j])
    BY <1>0, <2>1, <2>3 DEF OnRows, OneUser
  <2>5. UNCHANGED <<now, up, store, issued, known>> /\ GoOn(j, w)
    BY DEF Reschedule, clock, world
  <2> QED
    BY <1>0, <2>1, <2>2, <2>3, <2>4, <2>5, QuietStep
<1>3. CASE FinishScan(j)
  <2> DEFINE w == [t EXCEPT !.pc = "commit"]
  <2> DEFINE seen  == Merged(j, mine[j]).users
             found == IF j = "dispatcher"
                      THEN {u \in Users : seen[u].active
                                             /\ seen[u].next = Never}
                      ELSE {}
             x     == [mine[j] EXCEPT !.users = [u \in Users |->
                          IF u \in found \ t.loaded THEN seen[u] ELSE @[u]]]
             m     == [x EXCEPT !.users = Scheduling(@, found)]
  <2>1. Hold(j, m, x) /\ m.log = mine[j].log /\ x.log = mine[j].log
    BY <1>0, <1>3 DEF FinishScan, Cache
  <2> HIDE DEF m, x
  <2>2. t.pc = "scan" /\ w.pc = "commit" /\ w.pend = t.pend
    BY <1>0, <1>3 DEF FinishScan, Task
  <2>3. OnRows(now, w, m, x)
    BY <2>1, <2>2 DEF OnRows, OneUser
  <2>4. UNCHANGED <<now, up, known, issued>> /\ GoOn(j, w) /\ Flush(j, mine[j])
    BY <1>3 DEF FinishScan, clock, world, Goto
  <2> QED
    BY <1>0, <2>1, <2>2, <2>3, <2>4, FlushStep
<1>4. CASE FinishPass(j)
  <2> DEFINE w == IF t.pend = {} THEN Idle
                  ELSE [Idle EXCEPT !.pc = "notify", !.pend = t.pend]
  <2>1. w.pc \in {"idle", "notify"} /\ w.pend = t.pend
    BY DEF Idle
  <2>2. OnRows(now, w, Empty, Empty)
    BY <2>1 DEF OnRows, OneUser
  <2>3. /\ UNCHANGED <<now, up, known, issued>> /\ GoOn(j, w)
        /\ Commit(j, mine[j]) /\ Hold(j, Empty, Empty) /\ t.pc = "commit"
    BY <1>4 DEF FinishPass, world
  <2> QED
    BY <1>0, <2>1, <2>2, <2>3, FlushStep
<1> QED
    BY <1>1, <1>2, <1>3, <1>4

\* The rows that a pass selects have been there for longer than an hour.
LEMMA SelectRows ==
    ASSUME TypeOK, RowInv, NEW j \in Jobs, NEW u \in Users,
           SelectExpired(j, u)
    PROVE  RowInv'
<1> USE DEF Sessions
<1> DEFINE t      == task[j]
           seen   == Merged(j, mine[j]).log
           window == mine[j].users[u].config.window
           found  == Expired(seen, u, window)
           m      == [users |-> mine[j].users,
                      log   |-> [b \in Beats |-> IF b \in found THEN seen[b]
                                                                ELSE NoBeat]]
           w      == [t EXCEPT !.pc = "check", !.who = u, !.rest = found,
                               !.queue = @ \ {u}]
<1>0. /\ t \in Task /\ mine[j] \in Cache /\ now \in Nat
      /\ Held(now, base[j].log, mine[j].log, Seen(j).log, db.log)
      /\ StoreInv /\ t.pc = "scan"
    BY OwnRows DEF SelectExpired
<1>1. window \in Nat
    BY <1>0 DEF Cache, UserRow, Config, Fields
<1>2. /\ Flush(j, mine[j]) /\ Hold(j, m, m) /\ GoOn(j, w)
      /\ UNCHANGED <<now, up, known, issued>>
    BY DEF SelectExpired, clock, world
<1>3. /\ w.pc = "check" /\ w.who = u /\ w.rest = found /\ w.pend = t.pend
    BY <1>0 DEF Task
<1>4. /\ StoreInv' /\ Grown({j})
      /\ \A b \in Beats : /\ Seen(j)'.log[b] = seen[b]
                          /\ Later(now, Seen(j).log[b], Seen(j)'.log[b])
    BY <1>0, <1>2, WriteStep
<1>5. /\ m.users = mine[j].users
      /\ \A b \in Beats : m.log[b] = IF b \in found THEN seen[b] ELSE NoBeat
    OBVIOUS
<1>6. \A b \in found : /\ b \in Beats /\ b \in Scheduled
                       /\ seen[b].user = u /\ Open(seen[b])
                       /\ seen[b].sentAt < now - window
    BY RowTypes DEF Expired
<1> HIDE DEF m, w, seen, found
<1>7. Held(now, m.log, m.log, Seen(j)'.log, db'.log)
  <2> SUFFICES ASSUME NEW b \in found
               PROVE  Copied(now, seen[b], seen[b], seen[b], db'.log[b])
    BY <1>4, <1>5, <1>6 DEF Held, Copied
  <2>1. seen[b] \in {db'.log[b], wal'.log[b]}
    BY <1>4, <1>6 DEF Seen
  <2>2. Stored(now, db'.log[b], wal'.log[b])
    BY <1>2, <1>4, <1>6 DEF StoreInv
  <2>3. Timely(now, seen[b]) /\ seen[b].status # "none"
    BY <1>6, <2>1, <2>2 DEF Stored, Open
  <2>4. db'.log[b].status # "none"
    <3>1. seen[b].sentAt < now
      <4>1. seen[b].sentAt \in Int
        BY <1>0, <1>6, MergedType DEF Database, BeatRow, seen
      <4> QED
        BY <1>0, <1>1, <1>6, <4>1
    <3> QED
      BY <1>0, <2>1, <2>2, <2>3, <3>1 DEF Stored, Timely, NoBeat
  <2> QED
    BY <2>3, <2>4, LaterOrder DEF Copied, Written
<1>8. OnRows(now, w, m, m)
    BY <1>3, <1>5, <1>6 DEF OnRows, Open, OneUser
<1>9. \A b \in w.pend : Seen(j)'.log[b].status # "none"
  <2>1. w.pend \subseteq Beats
    BY <1>0, <1>3 DEF Task
  <2> QED
    BY <1>3, <1>4, <2>1 DEF RowInv, SessionInv, Later
<1>10. KnownInv'
    BY <1>2, <1>4, KnownStep
<1> QED
    BY <1>0, <1>2, <1>3, <1>4, <1>7, <1>8, <1>9, <1>10, RowStep

\* A heartbeat that a pass is about to look at was sent more than one window
\* ago, and is committed.
LEMMA RestRows ==
    ASSUME TypeOK, RowInv, ConfigInv, OnTask, NEW j \in Jobs, NEW b \in Beats,
           Checking(j, b)
    PROVE  LET row == mine[j].log[b]
           IN  /\ b \in Scheduled /\ row \in BeatRow /\ row = base[j].log[b]
               /\ row.status # "none" /\ db.log[b].status # "none"
               /\ Timely(now, row) /\ Later(now, row, Seen(j).log[b])
               /\ row.user = task[j].who /\ task[j].who \in Users
               /\ row.sentAt < now - WindowOf(j)
               /\ WindowOf(j) \in Windows /\ WindowOf(j) \in Nat
<1> DEFINE row == mine[j].log[b]
<1> USE DEF Sessions
<1>1. task[j].who \in Users
    BY DEF Checking, OnTask, Sound, OneUser
<1>2. WindowOf(j) \in Windows /\ Windows \subseteq Nat
    BY <1>1, WindowsChosen DEF WindowOf, ConfigInv
<1>3. /\ b \in Scheduled /\ row.user = task[j].who /\ row.status # "none"
      /\ row.sentAt < now - WindowOf(j)
      /\ mine[j].log = base[j].log
    BY OwnRows DEF Checking, OnRows, OneUser, WindowOf
<1>4. Copied(now, row, row, Seen(j).log[b], db.log[b])
    BY <1>3, OwnRows DEF Held
<1>5. /\ db.log[b].status # "none"
      /\ Timely(now, row) /\ Later(now, row, Seen(j).log[b])
    BY <1>3, <1>4 DEF Copied, NoBeat
<1>6. row \in BeatRow
    BY RowTypes
<1> HIDE DEF row
<1> QED
    BY <1>1, <1>2, <1>3, <1>5, <1>6 DEF row

\* The row of b in the cache m replaced, as by Escalate and Miss.
LEMMA ReplacedHeld ==
    ASSUME TypeOK, RowInv, NEW s \in Sessions, NEW m \in Cache,
           mine[s].log = base[s].log, NEW b \in Beats, 
           \A c \in Beats \ {b} : m.log[c] = mine[s].log[c],
           mine[s].log[b].status # "none",
           Written(now, mine[s].log[b], m.log[b])
    PROVE  Held(now, base[s].log, m.log, Seen(s).log, db.log)
<1>1. \A c \in Beats : Copied(now, mine[s].log[c], mine[s].log[c],
                              Seen(s).log[c], db.log[c])
    BY OwnRows DEF Held
<1> QED
    BY <1>1 DEF Held, Copied, NoBeat

LEMMA EscalateRows ==
    ASSUME TypeOK, RowInv, ConfigInv, OnTask, NEW j \in Jobs, NEW b \in Beats,
           Escalate(j, b)
    PROVE  RowInv'
<1> USE DEF Sessions
<1> DEFINE t   == task[j]
           row == mine[j].log[b]
           m   == Escalated(j, b)
           w   == [t EXCEPT !.pc = "mail", !.rest = @ \ {b}]
<1>0. /\ t \in Task /\ mine[j] \in Cache /\ now \in Nat
      /\ OnRows(now, t, mine[j], base[j])
    BY OwnRows
<1>1. /\ b \in Scheduled /\ row \in BeatRow /\ row.status = "sent"
      /\ db.log[b].status # "none" /\ row.sentAt < now - WindowOf(j)
      /\ WindowOf(j) \in Windows /\ WindowOf(j) \in Nat
    BY RestRows DEF Escalate, NeedsEscalation
<1>2. /\ t.pc = "check" /\ mine[j].log = base[j].log
      /\ GoOn(j, w) /\ mine' = [mine EXCEPT ![j] = m] /\ base' = base
      /\ UNCHANGED <<now, up, store, issued>> /\ known' = known \cup {b}
    BY <1>0 DEF Escalate, Checking, OnRows, clock
<1>3. /\ w.pc = "mail" /\ w.who = t.who /\ w.rest = t.rest \ {b}
      /\ w.pend = t.pend
    BY <1>0 DEF Task
<1>4. /\ m.users = mine[j].users
      /\ m.log[b] = [row EXCEPT !.status = "escalated", !.escAt = now]
      /\ \A c \in Beats \ {b} : m.log[c] = mine[j].log[c]
    BY <1>0 DEF Escalated, Cache
<1>5. m \in Cache
  <2>1. [row EXCEPT !.status = "escalated", !.escAt = now] \in BeatRow
    <3>1. "escalated" \in Status /\ now \in Int
      BY <1>0 DEF Status
    <3> QED
      BY <1>1, <3>1 DEF BeatRow
  <2> QED
    BY <1>0, <2>1, BeatUpdate DEF Escalated
<1>6. Hold(j, m, base[j])
    BY <1>2, SameHold
<1> HIDE DEF m, w
<1>7. Held(now, base[j].log, m.log, Seen(j).log, db.log)
  <2>1. row.sentAt \in Int /\ now > row.sentAt + WindowOf(j)
    BY <1>0, <1>1 DEF BeatRow
  <2>2. Written(now, row, m.log[b])
    BY <1>1, <1>4, <2>1 DEF Written
  <2> QED
    BY <1>1, <1>2, <1>4, <1>5, <2>2, ReplacedHeld
<1>8. OnRows(now, w, m, base[j])
    BY <1>0, <1>2, <1>3, <1>4, RowTypes DEF OnRows, OneUser
<1> QED
    BY <1>1, <1>2, <1>3, <1>6, <1>7, <1>8, QuietStep

\* What a pass is about to flush when it counts b as missed.
LEMMA MissHeld ==
    ASSUME TypeOK, RowInv, ConfigInv, OnTask, NEW j \in Jobs, NEW b \in Beats,
           Missable(j, b)
    PROVE  LET row == mine[j].log[b]
               m   == Missed(j, b)
           IN  /\ m \in Cache
               /\ row.status = "escalated" /\ row = base[j].log[b]
               /\ m.log[b] = [row EXCEPT !.status = "missed"]
               /\ \A c \in Beats \ {b} : m.log[c] = mine[j].log[c]
               /\ \A u \in Users : m.users[u].config = mine[j].users[u].config
               /\ Held(now, base[j].log, m.log, Seen(j).log, db.log)
<1> USE DEF Sessions
<1> DEFINE row == mine[j].log[b]
           m   == Missed(j, b)
<1>1. /\ row = base[j].log[b] /\ row.status = "escalated"
      /\ now > row.escAt + WindowOf(j) /\ WindowOf(j) \in Windows
    BY RestRows DEF Missable, NeedsVerdict, Lapsed
<1>2. mine[j] \in Cache /\ mine[j].log = base[j].log
    BY OwnRows DEF Missable, Checking, OnRows
<1>3. /\ m.log[b] = [row EXCEPT !.status = "missed"]
      /\ \A c \in Beats \ {b} : m.log[c] = mine[j].log[c]
      /\ \A u \in Users : m.users[u].config = mine[j].users[u].config
    BY <1>2 DEF Missed, Cache, UserRow
<1>4. m \in Cache
    BY <1>2, MissedType
<1>5. Written(now, row, m.log[b])
    BY <1>1, <1>3 DEF Written
<1>6. Held(now, base[j].log, m.log, Seen(j).log, db.log)
    BY <1>1, <1>2, <1>3, <1>4, <1>5, ReplacedHeld
<1> HIDE DEF m, row
<1> QED
    BY <1>1, <1>3, <1>4, <1>6 DEF m, row

LEMMA MissRows ==
    ASSUME TypeOK, RowInv, ConfigInv, OnTask, NEW j \in Jobs, NEW b \in Beats,
           Miss(j, b)
    PROVE  RowInv'
<1> USE DEF Sessions
<1> DEFINE t     == task[j]
           m     == Missed(j, b)
           fires == AtThreshold(m.users[t.who]) /\ RecipientsOf[t.who] # {}
           w     == [t EXCEPT
                        !.rest = @ \ {b},
                        !.pc   = IF fires THEN "trigger" ELSE @,
                        !.todo = IF fires THEN RecipientsOf[t.who] ELSE {}]
<1>0. t \in Task /\ OnRows(now, t, mine[j], base[j])
    BY OwnRows
<1>1. /\ m \in Cache
      /\ mine[j].log[b] = base[j].log[b]
      /\ mine[j].log[b].status = "escalated"
      /\ m.log[b] = [mine[j].log[b] EXCEPT !.status = "missed"]
      /\ \A c \in Beats \ {b} : m.log[c] = mine[j].log[c]
      /\ \A u \in Users : m.users[u].config = mine[j].users[u].config
      /\ Held(now, base[j].log, m.log, Seen(j).log, db.log)
  <2>1. Missable(j, b)
    BY DEF Miss
  <2> QED
    BY <2>1, MissHeld
<1>2. /\ t.pc = "check" /\ t.who \in Users
      /\ GoOn(j, w) /\ Hold(j, m, m) /\ Flush(j, m)
      /\ UNCHANGED <<now, up, issued, known>>
    BY DEF Miss, Missable, Checking, OnTask, Sound, OneUser, clock
<1>3. /\ w.pc \in {"check", "trigger"} /\ w.who = t.who
      /\ w.rest = t.rest \ {b} /\ w.pend = t.pend
    BY <1>0, <1>2 DEF Task
<1> HIDE DEF m, w
<1>4. OnRows(now, w, m, m)
  <2> SUFFICES ASSUME NEW c \in w.rest
               PROVE  /\ c \in Scheduled
                      /\ m.log[c].user = w.who /\ m.log[c].status # "none"
                      /\ m.log[c].sentAt < now - m.users[w.who].config.window
    BY <1>3 DEF OnRows, OneUser
  <2>1. /\ c \in Scheduled /\ c \in Beats \ {b}
        /\ mine[j].log[c].user = t.who /\ mine[j].log[c].status # "none"
        /\ mine[j].log[c].sentAt < now - mine[j].users[t.who].config.window
    BY <1>0, <1>2, <1>3, RowTypes DEF OnRows, OneUser
  <2> QED
    BY <1>1, <1>2, <1>3, <2>1
<1>5. writer' = j
  <2>1. m.log[b] # base[j].log[b]
    BY <1>1, RowTypes DEF BeatRow
  <2> QED
    BY <1>2, <2>1 DEF Flush
<1> QED
    BY <1>1, <1>2, <1>3, <1>4, <1>5, FlushStep

\* The steps of a pass that only change what it works on next.
LEMMA TaskRows ==
    ASSUME TypeOK, RowInv, NEW j \in Jobs,
           \/ \E b \in Beats : RaiseTypeError(j, b) \/ Leave(j, b) \/ Notify(j, b)
           \/ NextUser(j)
    PROVE  RowInv'
<1> USE DEF Sessions
<1> DEFINE t == task[j]
<1>0. /\ t \in Task
      /\ Held(now, base[j].log, mine[j].log, Seen(j).log, db.log)
      /\ OnRows(now, t, mine[j], base[j])
      /\ t.pc = "notify" => writer # j
    BY OwnRows
<1>1. UNCHANGED <<now, up, store, issued, mine, base>>
    BY DEF RaiseTypeError, Leave, Notify, NextUser, clock
<1>2. Hold(j, mine[j], base[j])
    BY <1>1, SameHold
<1>3. CASE NextUser(j) \/ \E b \in Beats : RaiseTypeError(j, b)
  <2>1. PICK w \in {[t EXCEPT !.pc = "scan", !.who = Nobody],
                    [t EXCEPT !.pc = "scan", !.who = Nobody, !.rest = {}]} :
            GoOn(j, w)
    BY <1>3 DEF RaiseTypeError, NextUser
  <2>2. w.pc = "scan" /\ w.pend = t.pend
    BY <1>0, <2>1 DEF Task
  <2>3. t.pc = "check" /\ known' = known
    BY <1>3 DEF RaiseTypeError, NextUser, Checking, Checked, world
  <2>4. OnRows(now, w, mine[j], base[j])
    BY <1>0, <2>2, <2>3 DEF OnRows, OneUser
  <2> QED
    BY <1>0, <1>1, <1>2, <2>1, <2>2, <2>3, <2>4, QuietStep
<1>4. CASE \E b \in Beats : Leave(j, b)
  <2> PICK b \in Beats : Leave(j, b)
    BY <1>4
  <2> DEFINE w == [t EXCEPT !.rest = @ \ {b}]
  <2>1. /\ w.pc = "check" /\ w.pend = t.pend /\ w.rest = t.rest \ {b}
        /\ w.who = t.who /\ t.pc = "check"
    BY <1>0 DEF Leave, Checking, Task
  <2>2. GoOn(j, w) /\ known' = known
    BY DEF Leave, world
  <2> HIDE DEF w
  <2>3. OnRows(now, w, mine[j], base[j])
    BY <1>0, <2>1 DEF OnRows, OneUser
  <2> QED
    BY <1>0, <1>1, <1>2, <2>1, <2>2, <2>3, QuietStep
<1>5. CASE \E b \in Beats : Notify(j, b)
  <2> PICK b \in Beats : Notify(j, b)
    BY <1>5
  <2> DEFINE w == IF t.pend = {b} THEN Idle
                  ELSE [t EXCEPT !.pend = @ \ {b}]
  <2>1. /\ w.pc \in {"idle", "notify"} /\ w.pend \subseteq t.pend
        /\ t.pc = "notify" /\ b \in t.pend
    BY <1>0 DEF Notify, Task, Idle
  <2>2. GoOn(j, w) /\ known' = known \cup {b}
    BY DEF Notify
  <2> HIDE DEF w
  <2>3. OnRows(now, w, mine[j], base[j])
    BY <1>0, <2>1 DEF OnRows, OneUser
  <2>4. db.log[b].status # "none"
    BY <1>0, <2>1 DEF RowInv, SessionInv, Seen
  <2> QED
    BY <1>0, <1>1, <1>2, <2>1, <2>2, <2>3, <2>4, QuietStep
<1> QED
    BY <1>3, <1>4, <1>5

\* The trigger, and the flush after an escalation.
LEMMA TriggerRows ==
    ASSUME TypeOK, RowInv, NEW j \in Jobs,
           \/ FlushEscalation(j) \/ CommitTrigger(j) \/ Deactivate(j)
           \/ \E r \in Recipients, outcome \in Outcomes : Deliver(j, r, outcome)
    PROVE  RowInv'
<1> USE DEF Sessions
<1> DEFINE t == task[j]
<1>0. /\ t \in Task /\ mine[j] \in Cache /\ base[j] \in Cache
      /\ now \in Nat /\ StoreInv
      /\ Held(now, base[j].log, mine[j].log, Seen(j).log, db.log)
      /\ OnRows(now, t, mine[j], base[j])
      /\ t.pc = "trigger" => writer = j
      /\ Nobody \notin Sessions
    BY OwnRows, CheckInAssumption
<1>1. CASE FlushEscalation(j) \/ CommitTrigger(j)
  <2>1. PICK pc \in {"check", "deactivate"} :
            /\ Goto(j, pc) /\ Hold(j, mine[j], mine[j])
            /\ Flush(j, mine[j]) \/ Commit(j, mine[j])
            /\ UNCHANGED <<now, up, known, issued>>
            /\ t.pc \in {"mail", "trigger"}
    BY <1>1 DEF FlushEscalation, CommitTrigger, clock, world
  <2> DEFINE w == [t EXCEPT !.pc = pc]
  <2>2. /\ w.pc = pc /\ w.who = t.who /\ w.rest = t.rest /\ w.pend = t.pend
        /\ GoOn(j, w)
    BY <1>0, <2>1 DEF Task, Goto
  <2> HIDE DEF w
  <2>3. OnRows(now, w, mine[j], mine[j])
    BY <1>0, <2>1, <2>2 DEF OnRows, OneUser
  <2> QED
    BY <1>0, <2>1, <2>2, <2>3, FlushStep
<1>2. CASE Deactivate(j)
  <2> DEFINE m == Deactivated(j)
             w == [t EXCEPT !.pc = "check"]
  <2>1. m \in Cache
    BY <1>0, DeactivatedType
  <2>2. /\ m.log = mine[j].log
        /\ \A u \in Users : m.users[u].config = mine[j].users[u].config
        /\ t.who \notin Users => m = mine[j]
    BY <1>0 DEF Deactivated, Cache, UserRow
  <2>3. /\ GoOn(j, w) /\ Hold(j, m, m) /\ Commit(j, m)
        /\ UNCHANGED <<now, up, known, issued>> /\ t.pc = "deactivate"
    BY <1>2 DEF Deactivate, Goto, clock, world
  <2>4. /\ w.pc = "check" /\ w.who = t.who /\ w.rest = t.rest
        /\ w.pend = t.pend
    BY <1>0 DEF Task
  <2> HIDE DEF m, w
  <2>5. OnRows(now, w, m, m)
    BY <1>0, <2>2, <2>3, <2>4 DEF OnRows, OneUser
  <2>6. Held(now, base[j].log, m.log, Seen(j).log, db.log)
    BY <1>0, <2>2
  <2> QED
    BY <2>1, <2>3, <2>4, <2>5, <2>6, FlushStep
<1>3. CASE \E r \in Recipients, outcome \in Outcomes : Deliver(j, r, outcome)
  <2> PICK r \in Recipients, outcome \in Outcomes : Deliver(j, r, outcome)
    BY <1>3
  <2> DEFINE w == [t EXCEPT !.todo = @ \ {r}]
  <2>1. /\ GoOn(j, w) /\ t.pc = "trigger" /\ UNCHANGED <<mine, base, db, writer>>
        /\ UNCHANGED <<now, up, known, issued>>
    BY DEF Deliver, clock
  <2>2. /\ w.pc = "trigger" /\ w.who = t.who /\ w.rest = t.rest
        /\ w.pend = t.pend
    BY <1>0, <2>1 DEF Task
  <2>3. wal'.log = wal.log
    BY DEF Deliver, TypeOK, Database
  <2> HIDE DEF w
  <2>4. StoreInv'
    BY <1>0, <2>1, <2>3 DEF StoreInv
  <2>5. \A s \in Sessions : Seen(s)'.log = Seen(s).log
    BY <2>1, <2>3 DEF Seen
  <2>6. Grown({j})
    BY <2>1, <2>5, LaterOrder DEF Grown
  <2>7. Hold(j, mine[j], base[j])
    BY <2>1, SameHold
  <2>8. OnRows(now, w, mine[j], base[j])
    BY <1>0, <2>1, <2>2 DEF OnRows, OneUser
  <2>9. KnownInv'
    BY <2>1, <2>6, KnownStep
  <2>10. \A b \in w.pend : Seen(j)'.log[b].status # "none"
    BY <2>2, <2>5 DEF RowInv, SessionInv
  <2>11. Held(now, base[j].log, mine[j].log, Seen(j)'.log, db'.log)
    BY <1>0, <2>1, <2>5
  <2> QED
    BY <1>0, <2>1, <2>2, <2>4, <2>6, <2>7, <2>8, <2>9, <2>10, <2>11, RowStep
<1> QED
    BY <1>1, <1>2, <1>3

\* A heartbeat that the dispatcher inserts is new in every copy.
LEMMA CreateRows ==
    ASSUME TypeOK, TypeOK', RowInv, NEW j \in Jobs, CreateBeat(j)
    PROVE  RowInv'
<1> USE DEF Sessions
<1> DEFINE t   == task[j]
           u   == t.who
           b   == issued.real + 1
           new == Merged(j, mine[j])
           m   == [mine[j] EXCEPT !.users = Scheduling(@, {u})]
           w   == [t EXCEPT !.pc = "scan", !.who = Nobody,
                            !.pend = @ \cup {b}]
<1>0. /\ t \in Task /\ mine[j] \in Cache /\ now \in Nat /\ StoreInv
      /\ Held(now, base[j].log, mine[j].log, Seen(j).log, db.log)
      /\ OnRows(now, t, mine[j], base[j])
      /\ Nobody \notin Sessions
    BY OwnRows, CheckInAssumption
<1>1. /\ t.pc = "check" /\ LockFree(j) /\ writer' = j /\ db' = db
      /\ wal' = [new EXCEPT !.log[b] = NewBeat(u)]
      /\ issued' = [issued EXCEPT !.real = b]
      /\ Hold(j, m, mine[j]) /\ GoOn(j, w) /\ UNCHANGED <<now, up, known>>
    BY DEF CreateBeat, Sends, Checked, MayWrite, clock, world
<1>2. /\ w.pc = "scan" /\ w.pend = t.pend \cup {b}
      /\ m.log = mine[j].log
    BY <1>0 DEF Task, Cache
<1>3. /\ issued' \in [real: 0 .. MaxBeats, test: 0 .. MaxTests]
      /\ issued \in [real: 0 .. MaxBeats, test: 0 .. MaxTests]
      /\ issued'.real = b /\ issued'.test = issued.test
    BY <1>1 DEF TypeOK
<1>4. b \in Scheduled /\ b > issued.real
    BY <1>3, CheckInAssumption DEF Scheduled
<1>5. /\ Seen(j) = wal /\ Seen(j)' = wal'
    BY <1>0, <1>1, LockShowsWal DEF Seen
<1>6. \A c \in Beats : /\ Stored(now, db.log[c], new.log[c])
                       /\ Later(now, db.log[c], new.log[c])
                       /\ wal.log[c].status = "none" =>
                              new.log[c].status = "none"
                       /\ Later(now, wal.log[c], new.log[c])
    BY <1>0, <1>1, <1>5, MergedStored, MergedRows
<1>7. wal.log[b].status = "none" /\ db.log[b] = NoBeat /\ b \in Beats
    BY <1>0, <1>4, RowTypes DEF StoreInv, Stored, Later, Timely
<1>8. \A c \in Beats : wal'.log[c] = IF c = b THEN NewBeat(u) ELSE new.log[c]
    BY <1>0, <1>1, MergedType DEF Database
<1> HIDE DEF m, w, new, b
<1>9. Stored(now, NoBeat, NewBeat(u)) /\ Later(now, NoBeat, NewBeat(u))
    BY DEF Stored, Timely, Later, NewBeat, NoBeat
<1>10. \A c \in Beats : /\ Stored(now, db.log[c], wal'.log[c])
                        /\ Later(now, wal.log[c], wal'.log[c])
  <2>1. Later(now, wal.log[b], NewBeat(u))
    BY <1>7 DEF Later
  <2> QED
    BY <1>6, <1>7, <1>8, <1>9, <2>1
<1>11. StoreInv'
  <2>1. \A c \in Scheduled : c > b => wal'.log[c].status = "none"
    BY <1>0, <1>3, <1>4, <1>6, <1>8, CheckInAssumption, RowTypes
    DEF StoreInv, Scheduled, b
  <2>2. \A c \in Beats \ Scheduled :
            c > MaxBeats + issued.test => wal'.log[c].status = "none"
    BY <1>0, <1>4, <1>6, <1>8 DEF StoreInv
  <2>3. writer' # Nobody
    BY <1>0, <1>1
  <2> QED
    BY <1>1, <1>3, <1>10, <2>1, <2>2, <2>3 DEF StoreInv
<1>12. Grown({j})
  <2>1. \A o \in Sessions \ {j} : /\ Seen(o) = db /\ Seen(o)' = db'
                                  /\ writer # o /\ writer' # o
    BY <1>0, <1>1 DEF Seen, LockFree
  <2> QED
    BY <1>1, <2>1, LaterOrder DEF Grown
<1>13. KnownInv'
    BY <1>1, <1>12, KnownStep
<1>14. Held(now, mine[j].log, m.log, Seen(j)'.log, db'.log)
  <2>1. Held(now, mine[j].log, mine[j].log, new.log, db.log)
    BY <1>0, MergedHeld DEF new
  <2>2. mine[j].log[b] = NoBeat
    BY <1>7, <2>1 DEF Held, Copied, NoBeat
  <2> QED
    BY <1>1, <1>2, <1>5, <1>8, <2>1, <2>2 DEF Held, Copied
<1>15. OnRows(now, w, m, mine[j])
    BY <1>2 DEF OnRows, OneUser
<1>16. \A c \in w.pend : Seen(j)'.log[c].status # "none"
  <2>1. t.pend \subseteq Beats /\ \A c \in t.pend : wal.log[c].status # "none"
    BY <1>0, <1>5 DEF Task, RowInv, SessionInv
  <2>2. wal'.log[b].status # "none"
    BY <1>7, <1>8 DEF NewBeat
  <2> QED
    BY <1>2, <1>5, <1>10, <2>1, <2>2 DEF Later
<1> QED
    BY <1>1, <1>2, <1>11, <1>12, <1>13, <1>14, <1>15, <1>16, RowStep

LEMMA PassRows ==
    ASSUME TypeOK, TypeOK', OnTask, ConfigInv, RowInv, NEW j \in Jobs,
           StartPass(j) \/ Pass(j)
    PROVE  RowInv'
BY ScanRows, SelectRows, EscalateRows, MissRows, TaskRows, TriggerRows,
   CreateRows, AbortStep DEF Pass, Sessions

LEMMA OpenRows ==
    ASSUME TypeOK, RowInv, OnTask, NEW r \in Requests,
           \/ \E b \in Beats : OpenLink(r, b)
           \/ FindUser(r)
           \/ \E u \in Users : OpenSettings(r, u)
    PROVE  RowInv'
<1> USE DEF Sessions
<1> DEFINE t == task[r]
<1>0. /\ t \in Task /\ mine[r] \in Cache /\ base[r] \in Cache
      /\ now \in Nat /\ StoreInv
      /\ Held(now, base[r].log, mine[r].log, Seen(r).log, db.log)
      /\ OnRows(now, t, mine[r], base[r])
      /\ t.pc = "idle" => writer # r
    BY OwnRows
<1>1. CASE \E b \in Beats : OpenLink(r, b)
  <2> PICK b \in Beats : OpenLink(r, b)
    BY <1>1
  <2> DEFINE m == [Empty EXCEPT !.log[b] = db.log[b]]
             w == [t EXCEPT !.pc = "open", !.beat = b]
  <2>1. /\ GoOn(r, w) /\ Hold(r, m, m) /\ up /\ t.pc = "idle"
        /\ UNCHANGED <<now, up, store, issued, known>> /\ Open(db.log[b])
    BY DEF OpenLink, Starts, clock, world
  <2>2. w.pc = "open" /\ w.beat = b /\ w.pend = t.pend
    BY <1>0 DEF Task
  <2>3. /\ m.log[b] = db.log[b]
        /\ \A c \in Beats \ {b} : m.log[c] = NoBeat
    BY DEF Empty
  <2> HIDE DEF m, w
  <2>4. OnRows(now, w, m, m)
    BY <2>1, <2>2, <2>3 DEF OnRows, OneUser
  <2>5. Held(now, m.log, m.log, Seen(r).log, db.log)
    <3>1. Seen(r) = db
      BY <1>0, <2>1 DEF Seen
    <3>2. Timely(now, db.log[b])
      BY <1>0 DEF StoreInv, Stored
    <3> QED
      BY <2>1, <2>3, <3>1, <3>2, LaterOrder DEF Held, Copied, Written, Open
  <2> QED
    BY <2>1, <2>2, <2>4, <2>5, QuietStep
<1>2. CASE FindUser(r)
  <2> DEFINE u == mine[r].log[t.beat].user
             m == [mine[r] EXCEPT !.users[u] = db.users[u]]
             w == [t EXCEPT !.pc = "confirm", !.who = u]
  <2>1. /\ GoOn(r, w) /\ Hold(r, m, m) /\ t.pc = "open"
        /\ UNCHANGED <<now, up, store, issued, known>>
    BY <1>2 DEF FindUser, clock, world
  <2>2. /\ w.pc = "confirm" /\ w.beat = t.beat /\ w.pend = t.pend
        /\ m.log = mine[r].log
    BY <1>0 DEF Task, Cache
  <2> HIDE DEF m, w
  <2>3. OnRows(now, w, m, m)
    BY <1>0, <2>1, <2>2 DEF OnRows, OneUser
  <2>4. Held(now, m.log, m.log, Seen(r).log, db.log)
    BY <1>0, <2>1, <2>2 DEF OnRows
  <2> QED
    BY <2>1, <2>2, <2>3, <2>4, QuietStep
<1>3. CASE \E u \in Users : OpenSettings(r, u)
  <2> PICK u \in Users : OpenSettings(r, u)
    BY <1>3
  <2> DEFINE m == [Empty EXCEPT !.users[u] = db.users[u]]
             w == [t EXCEPT !.pc = "settings", !.who = u]
  <2>1. /\ GoOn(r, w) /\ Hold(r, m, m) /\ up
        /\ UNCHANGED <<now, up, store, issued, known>>
    BY DEF OpenSettings, Starts, clock, world
  <2>2. /\ w.pc = "settings" /\ w.pend = t.pend /\ m.log = Empty.log
    BY <1>0 DEF Task, Empty
  <2> HIDE DEF m, w
  <2>3. OnRows(now, w, m, m)
    BY <2>2 DEF OnRows, OneUser
  <2>4. Held(now, m.log, m.log, Seen(r).log, db.log)
    BY <2>2, EmptyRows
  <2> QED
    BY <2>1, <2>2, <2>3, <2>4, QuietStep
<1> QED
    BY <1>1, <1>2, <1>3

\* What a confirmation is about to commit.
LEMMA ResponseHeld ==
    ASSUME TypeOK, RowInv, NEW r \in Requests, task[r].pc = "confirm"
    PROVE  /\ Responded(r) \in Cache
           /\ Held(now, base[r].log, Responded(r).log, Seen(r).log, db.log)
<1> USE DEF Sessions
<1> DEFINE b   == task[r].beat
           row == mine[r].log[b]
           m   == Responded(r)
<1>1. mine[r] \in Cache /\ OnRows(now, task[r], mine[r], base[r])
      /\ now \in Int
    BY OwnRows
<1>2. m \in Cache
    BY <1>1, RespondedType
<1>3. b \in Beats /\ Open(row) /\ mine[r].log = base[r].log
    BY <1>1 DEF OnRows
<1>4. /\ m.log[b] = [row EXCEPT !.status = "responded"]
      /\ \A c \in Beats \ {b} : m.log[c] = mine[r].log[c]
    BY <1>1, <1>3 DEF Responded, Cache
<1> HIDE DEF m
<1>5. Held(now, base[r].log, m.log, Seen(r).log, db.log)
    BY <1>2, <1>3, <1>4, ReplacedHeld DEF Written, Open
<1> QED
    BY <1>2, <1>5 DEF m

\* The requests that commit.
LEMMA AnswerRows ==
    ASSUME TypeOK, RowInv, NEW r \in Requests,
           \/ Confirm(r) \/ FinishTest(r)
           \/ \E body \in Bodies : SaveSettings(r, body)
    PROVE  RowInv'
<1> USE DEF Sessions
<1> DEFINE t == task[r]
<1>0. /\ t \in Task /\ mine[r] \in Cache /\ base[r] \in Cache /\ now \in Int
      /\ Held(now, base[r].log, mine[r].log, Seen(r).log, db.log)
      /\ OnRows(now, t, mine[r], base[r])
    BY OwnRows
<1>1. ASSUME NEW m \in Cache, Commit(r, m), Close(r), t.pc # "idle",
             UNCHANGED <<now, up, known, issued>>,
             Held(now, base[r].log, m.log, Seen(r).log, db.log)
      PROVE  RowInv'
  <2>1. StoreInv' /\ Grown({r}) /\ writer' # r
    BY <1>1, WriteStep DEF RowInv
  <2> QED
    BY <1>1, <2>1, CloseStep
<1>2. CASE Confirm(r)
  <2>1. t.pc = "confirm" /\ UNCHANGED <<now, up, known, issued>>
    BY <1>2 DEF Confirm, clock, world
  <2> QED
    BY <1>1, <1>2, <2>1, ResponseHeld DEF Confirm
<1>3. CASE FinishTest(r)
    BY <1>0, <1>1, <1>3 DEF FinishTest, clock, world
<1>4. CASE \E body \in Bodies : SaveSettings(r, body)
  <2> PICK body \in Bodies : SaveSettings(r, body)
    BY <1>4
  <2> DEFINE m == Updated(r, body)
  <2>1. m \in Cache /\ m.log = mine[r].log
    BY <1>0, UpdatedType DEF Updated, Cache
  <2>2. /\ Commit(r, m) /\ Close(r) /\ t.pc = "settings"
        /\ UNCHANGED <<now, up, known, issued>>
    BY DEF SaveSettings, clock, world
  <2> HIDE DEF m
  <2> QED
    BY <1>0, <1>1, <2>1, <2>2
<1> QED
    BY <1>2, <1>3, <1>4

\* A test heartbeat is new as well; its link may go out before the commit.
LEMMA TestRows ==
    ASSUME TypeOK, TypeOK', RowInv, NEW r \in Requests, NEW u \in Users,
           SendTest(r, u)
    PROVE  RowInv'
<1> USE DEF Sessions
<1> DEFINE t == task[r]
           b == MaxBeats + issued.test + 1
           w == [t EXCEPT !.pc = "test"]
<1>0. /\ t \in Task /\ now \in Nat /\ StoreInv
      /\ Held(now, base[r].log, mine[r].log, Seen(r).log, db.log)
      /\ OnRows(now, t, mine[r], base[r])
      /\ t.pc = "idle" => writer # r
      /\ Nobody \notin Sessions
    BY OwnRows, CheckInAssumption
<1>1. /\ up /\ t.pc = "idle" /\ LockFree(r) /\ issued.test < MaxTests
      /\ wal' = [db EXCEPT !.log[b] = NewBeat(u)]
      /\ writer' = r /\ issued' = [issued EXCEPT !.test = @ + 1]
      /\ known' = known \cup {b} /\ GoOn(r, w)
      /\ UNCHANGED <<now, up, db, mine, base>>
    BY DEF SendTest, Starts, Goto, clock
<1>2. w.pc = "test" /\ w.pend = t.pend
    BY <1>0 DEF Task
<1>3. /\ issued'.real = issued.real /\ issued'.test = issued.test + 1
      /\ issued.test \in Nat /\ MaxBeats \in Nat
    BY <1>1, CheckInAssumption DEF TypeOK
<1>4. b \in Beats \ Scheduled
    BY <1>1, <1>3, CheckInAssumption DEF Beats, Scheduled
<1>5. writer = Nobody /\ wal = db
    BY <1>0, <1>1 DEF LockFree, StoreInv
<1>6. db.log[b] = NoBeat
    BY <1>0, <1>3, <1>4, <1>5 DEF StoreInv, Stored, Timely
<1>7. \A c \in Beats : wal'.log[c] = IF c = b THEN NewBeat(u) ELSE db.log[c]
    BY <1>1 DEF TypeOK, Database
<1> HIDE DEF w, b
<1>8. \A c \in Beats : /\ Stored(now, db.log[c], wal'.log[c])
                       /\ Later(now, db.log[c], wal'.log[c])
  <2>1. Stored(now, NoBeat, NewBeat(u)) /\ Later(now, NoBeat, NewBeat(u))
    BY DEF Stored, Timely, Later, NewBeat, NoBeat
  <2>2. \A c \in Beats : Stored(now, db.log[c], db.log[c])
    BY <1>0, <1>5 DEF StoreInv
  <2> QED
    BY <1>6, <1>7, <2>1, <2>2, LaterOrder
<1>9. StoreInv'
  <2>1. \A c \in Scheduled : c > issued.real => wal'.log[c].status = "none"
    BY <1>0, <1>4, <1>5, <1>7, RowTypes DEF StoreInv
  <2>2. \A c \in Beats \ Scheduled :
            c > MaxBeats + issued'.test => wal'.log[c].status = "none"
    BY <1>0, <1>3, <1>4, <1>5, <1>7 DEF StoreInv, Beats, b
  <2>3. writer' # Nobody
    BY <1>0, <1>1
  <2> QED
    BY <1>1, <1>3, <1>8, <2>1, <2>2, <2>3 DEF StoreInv
<1>10. Seen(r) = db /\ Seen(r)' = wal'
    BY <1>0, <1>1 DEF Seen
<1>11. Grown({r})
  <2>1. \A o \in Sessions \ {r} : /\ Seen(o) = db /\ Seen(o)' = db
                                  /\ writer # o /\ writer' # o
    BY <1>0, <1>1, <1>5 DEF Seen
  <2> QED
    BY <1>1, <2>1, LaterOrder DEF Grown
<1>12. KnownInv'
    BY <1>1, <1>4, <1>11, KnownStep
<1>13. mine[r] = Empty /\ base[r] = Empty
    BY <1>0, <1>1 DEF OnRows
<1>14. Hold(r, mine[r], base[r])
    BY <1>1, SameHold
<1>15. OnRows(now, w, mine[r], base[r])
    BY <1>2, <1>13 DEF OnRows, OneUser
<1>16. \A c \in w.pend : Seen(r)'.log[c].status # "none"
  <2>1. t.pend \subseteq Beats /\ \A c \in t.pend : db.log[c].status # "none"
    BY <1>0, <1>10 DEF Task, RowInv, SessionInv
  <2> QED
    BY <1>2, <1>8, <1>10, <2>1 DEF Later
<1>17. Held(now, base[r].log, mine[r].log, Seen(r)'.log, db'.log)
    BY <1>13, EmptyRows
<1> QED
    BY <1>1, <1>2, <1>9, <1>11, <1>12, <1>14, <1>15, <1>16, <1>17, RowStep

LEMMA RequestRows ==
    ASSUME TypeOK, TypeOK', OnTask, RowInv, NEW r \in Requests,
           NewRequest(r) \/ Handle(r)
    PROVE  RowInv'
BY OpenRows, AnswerRows, TestRows, AbortStep DEF NewRequest, Handle, Sessions

\* The clean-up and the start change committed rows, when nobody writes.
LEMMA OutsideRows ==
    ASSUME TypeOK, RowInv, Cleanup \/ Restart
    PROVE  RowInv'
<1>0. StoreInv /\ KnownInv
    BY DEF RowInv
<1>1. writer = Nobody /\ Nobody \notin Sessions
  <2>1. CASE Cleanup
    BY <2>1, CheckInAssumption DEF Cleanup
  <2>2. CASE Restart
    BY <2>2, CheckInAssumption DEF Restart, RowInv, SessionInv, TypeOK
  <2> QED
    BY <2>1, <2>2
<1>2. /\ wal = db /\ wal' = db' /\ up' = TRUE
      /\ UNCHANGED <<now, writer, issued, known, task, mine, base>>
    BY <1>0, <1>1 DEF Cleanup, Restart, StoreInv, clock, world
<1>3. \A b \in Beats :
          \/ db'.log[b] = db.log[b]
          \/ /\ db.log[b].status # "none"
             /\ db'.log[b] = [db.log[b] EXCEPT !.status = "deleted"]
    BY DEF Cleanup, Restart, Old, TypeOK, Database
<1>4. \A b \in Beats : /\ Timely(now, db'.log[b])
                       /\ Later(now, db.log[b], db'.log[b])
                       /\ db.log[b].status = "none" =>
                              db'.log[b] = db.log[b]
  <2> SUFFICES ASSUME NEW b \in Beats, db.log[b].status # "none",
                      db'.log[b] = [db.log[b] EXCEPT !.status = "deleted"]
               PROVE  /\ Timely(now, db'.log[b])
                      /\ Later(now, db.log[b], db'.log[b])
    BY <1>0, <1>3, LaterOrder DEF StoreInv, Stored
  <2>1. /\ db'.log[b].status = "deleted" /\ db'.log[b].user = db.log[b].user
        /\ db'.log[b].sentAt = db.log[b].sentAt
        /\ db'.log[b].escAt = db.log[b].escAt
    BY RowTypes DEF BeatRow
  <2>2. Timely(now, db.log[b])
    BY <1>0 DEF StoreInv, Stored
  <2> QED
    BY <2>1, <2>2 DEF Timely, Later
<1>5. StoreInv'
    BY <1>0, <1>2, <1>4, RowTypes, LaterOrder
    DEF StoreInv, Stored, Timely
<1>6. \A s \in Sessions : Seen(s) = db /\ Seen(s)' = db'
    BY <1>1, <1>2 DEF Seen
<1>7. Grown({})
    BY <1>2, <1>4, <1>6 DEF Grown
<1>8. KnownInv'
    BY <1>2, <1>7, KnownStep
<1>9. ASSUME NEW s \in Sessions PROVE SessionInv(s)'
  <2>1. /\ SessionInv(s)
        /\ \A b \in Beats : Later(now, db.log[b], db'.log[b])
    BY <1>7 DEF RowInv, Grown
  <2>2. Held(now, base[s].log, mine[s].log, db'.log, db'.log)
    <3> SUFFICES ASSUME NEW b \in Beats
                 PROVE  Copied(now, base[s].log[b], mine[s].log[b],
                               db'.log[b], db'.log[b])
      BY DEF Held
    <3>1. Copied(now, base[s].log[b], mine[s].log[b], db.log[b], db.log[b])
      BY <1>6, <2>1 DEF SessionInv, Held
    <3>2. Later(now, base[s].log[b], db.log[b]) =>
              Later(now, base[s].log[b], db'.log[b])
      BY <2>1, LaterOrder
    <3> QED
      BY <2>1, <3>1, <3>2 DEF Copied, Later
  <2>3. \A b \in task[s].pend : db'.log[b].status # "none"
    <3>1. task[s].pend \subseteq Beats
      BY DEF TypeOK, Task
    <3> QED
      BY <1>6, <2>1, <3>1 DEF SessionInv, Later
  <2> QED
    BY <1>2, <1>6, <2>1, <2>2, <2>3 DEF SessionInv
<1> QED
    BY <1>5, <1>8, <1>9 DEF RowInv

LEMMA CrashRows ==
    ASSUME TypeOK, RowInv, Crash
    PROVE  RowInv'
<1>0. StoreInv /\ Nobody \notin Sessions
    BY CheckInAssumption DEF RowInv
<1>1. /\ wal' = db /\ writer' = Nobody /\ UNCHANGED <<now, db, issued, known>>
      /\ \A s \in Sessions : /\ task'[s] = Idle
                             /\ mine'[s] = Empty /\ base'[s] = Empty
    BY DEF Crash, world
<1>2. \A b \in Beats : /\ Stored(now, db.log[b], db.log[b])
                       /\ wal.log[b].status = "none" =>
                              db.log[b].status = "none"
    BY <1>0, LaterOrder DEF StoreInv, Stored, Timely, Later
<1>3. StoreInv'
    BY <1>0, <1>1, <1>2, RowTypes DEF StoreInv
<1>4. KnownInv'
    BY <1>1 DEF RowInv, KnownInv
<1>5. \A s \in Sessions : SessionInv(s)'
    BY <1>0, <1>1, EmptyRows DEF SessionInv
<1> QED
    BY <1>3, <1>4, <1>5 DEF RowInv

\* Nothing is in progress when the clock moves on.
LEMMA TickRows ==
    ASSUME TypeOK, RowInv, Tick
    PROVE  RowInv'
<1>0. /\ StoreInv /\ Nobody \notin Sessions /\ now \in Nat
      /\ Windows \subseteq Nat
    BY CheckInAssumption, RowTypes, WindowsChosen DEF RowInv
<1>1. /\ now' = now + 1 /\ UNCHANGED <<db, wal, writer, up, issued, known>>
      /\ UNCHANGED <<task, mine, base>>
      /\ \A s \in Sessions : task[s].pc = "idle"
    BY DEF Tick, store, world
<1>2. \A s \in Sessions : writer # s /\ mine[s] = Empty /\ base[s] = Empty
    BY <1>1 DEF RowInv, SessionInv, OnRows
<1>3. writer = Nobody /\ wal = db
    BY <1>0, <1>2 DEF TypeOK, StoreInv
<1>4. \A b \in Beats : Stored(now', db.log[b], db.log[b])
  <2> SUFFICES ASSUME NEW b \in Beats
               PROVE  Stored(now', db.log[b], db.log[b])
    OBVIOUS
  <2> DEFINE row == db.log[b]
  <2>1. Timely(now, row) /\ row \in BeatRow
    BY <1>0, RowTypes DEF StoreInv, Stored
  <2>2. row.escAt \in Int /\ row.sentAt \in Int
    BY <2>1 DEF BeatRow
  <2> HIDE DEF row
  <2>3. Timely(now', row)
    BY <1>0, <1>1, <2>1, <2>2 DEF Timely
  <2> QED
    BY <2>3, LaterOrder DEF Stored, Timely, row
<1>5. StoreInv'
    BY <1>0, <1>1, <1>3, <1>4 DEF StoreInv
<1>6. ASSUME NEW s \in Sessions PROVE SessionInv(s)'
  <2>1. OnRows(now', task[s], Empty, Empty)
    BY <1>1, EmptyRows DEF OnRows, OneUser
  <2>2. Seen(s)' = Seen(s)
    BY <1>1 DEF Seen
  <2> QED
    BY <1>1, <1>2, <2>1, <2>2, EmptyRows DEF RowInv, SessionInv
<1>7. KnownInv'
    BY <1>1 DEF RowInv, KnownInv
<1> QED
    BY <1>5, <1>6, <1>7 DEF RowInv

LEMMA InitRows == Init => RowInv
<1> SUFFICES ASSUME Init PROVE RowInv
    OBVIOUS
<1>1. \A b \in Beats : db.log[b] = NoBeat /\ wal.log[b] = NoBeat
    BY DEF Init, Empty
<1>2. Stored(now, NoBeat, NoBeat)
    BY DEF Stored, Timely, Later, NoBeat, Never
<1>3. StoreInv
    BY <1>1, <1>2, CheckInAssumption DEF StoreInv, Init, NoBeat, Scheduled, Beats
<1>4. \A s \in Sessions : /\ task[s] = Idle /\ mine[s] = Empty
                          /\ base[s] = Empty /\ writer # s /\ up
    BY CheckInAssumption DEF Init
<1>5. \A s \in Sessions : SessionInv(s)
    BY <1>4, EmptyRows DEF SessionInv
<1>6. KnownInv
    BY DEF Init, KnownInv
<1> QED
    BY <1>3, <1>5, <1>6 DEF RowInv

LEMMA RowsAgree == Spec => []RowInv
<1>1. TypeOK /\ TypeOK' /\ OnTask /\ ConfigInv /\ RowInv /\ [Next]_vars
          => RowInv'
  <2> SUFFICES ASSUME TypeOK, TypeOK', OnTask, ConfigInv, RowInv, [Next]_vars
               PROVE  RowInv'
    OBVIOUS
  <2>1. CASE UNCHANGED vars
    BY <2>1 DEF vars, RowInv, StoreInv, SessionInv, KnownInv, Seen
  <2>2. CASE Next
    BY <2>2, PassRows, RequestRows, OutsideRows, CrashRows, TickRows DEF Next
  <2> QED
    BY <2>1, <2>2
<1>2. Spec => []Inv
    BY InitType, InvStep, PTL DEF Spec, Inv
<1>3. Inv => TypeOK /\ OnTask
    BY DEF Inv
<1> QED
    BY <1>1, <1>2, <1>3, InitRows, ConfigsAreChosen, PTL DEF Spec

-----------------------------------------------------------------------------
(* What follows for the users.                                             *)

\* For any constants: the heartbeat behind a link that the dispatcher or an
\* escalation sends is committed before anyone can tap it, and stays so,
\* whatever is rolled back or crashes (the two phases of heartbeat_dispatcher).
THEOREM LinksAreLive == Spec => []LinkIsLive
<1>1. RowInv => LinkIsLive
    BY DEF RowInv, KnownInv, LinkIsLive
<1> QED
    BY <1>1, RowsAgree, PTL

\* For any constants: a user had one response window before the escalation of
\* a missed heartbeat and one after it, whichever passes were rolled back or
\* worked on rows loaded before (_check_outstanding_heartbeats).
THEOREM MissesTakeTwoWindows == Spec => []MissTakesTwoWindows
<1>1. RowInv => MissTakesTwoWindows
    BY DEF RowInv, StoreInv, Stored, Timely, MissTakesTwoWindows
<1> QED
    BY <1>1, RowsAgree, PTL

=============================================================================
