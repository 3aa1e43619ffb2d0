-------------------------- MODULE CheckInTimeProofs --------------------------
(***************************************************************************)
(* What the switch does in time while the process runs: heartbeats are     *)
(* escalated and judged, and users served, for all constants with which    *)
(* the checker looks back far enough and intervals last an hour; and what  *)
(* it fails to do in the shipped build, where SQLite returns naive         *)
(* datetimes and no verdict is ever reached.                               *)
(***************************************************************************)
EXTENDS CheckInRowProofs

-----------------------------------------------------------------------------
(* Deadlines.  What is settled late is found late, and the checker finds   *)
(* it within the hour, provided that it looks back far enough and that the *)
(* database returns aware datetimes.                                       *)

\* The checker still sees a heartbeat when its first window ends.
SeesEscalations == \A w \in Windows : w + 1 < Horizon

\* It still sees it when its second window ends.
SeesVerdicts == \A w \in Windows : 2 * (w + 1) < Horizon

\* Every window the user may have chosen has passed for a row at time t, and
\* nothing has been done about it.
Late(t, row) ==
    \/ row.status = "sent" /\ \A w \in Windows : t > row.sentAt + w
    \/ /\ row.status = "escalated" /\ SeesVerdicts
       /\ \A w \in Windows : t > row.escAt + w

\* A row is late for an hour at most; an escalation was.
Prompt(t, row) ==
    /\ row.status = "sent" => \E w \in Windows : t <= row.sentAt + w + 1
    /\ row.escAt # Never => \E w \in Windows : row.escAt <= row.sentAt + w + 1
    /\ row.status = "escalated" /\ SeesVerdicts =>
           \E w \in Windows : t <= row.escAt + w + 1
    /\ row.status # "none" => row.user \in Users

\* The late rows of a log are late in another one as well.
Fewer(t, old, new) ==
    \A b \in Scheduled :
        Late(t, new[b]) => Late(t, old[b]) /\ new[b].user = old[b].user

PromptStore ==
    /\ \A b \in Scheduled :
           Prompt(now, db.log[b]) /\ Prompt(now, wal.log[b])
    /\ Fewer(now, db.log, wal.log)

InPass == OneUser \cup {"scan", "commit"}

\* Work w of the checker, on the rows m loaded as x, has every late row that it
\* sees ahead of it: its user is in the queue, it is to be looked at, or what
\* has been done about it is about to be flushed.
Covered(t, w, m, x, seen) ==
    /\ w.pc \in OneUser => \A b \in w.rest : Open(m.log[b])
    /\ w.pc \in InPass =>
           \A b \in Scheduled : Late(t, seen[b]) =>
               \/ w.pc # "commit" /\ seen[b].user \in w.queue
               \/ w.pc \in OneUser /\ b \in w.rest
               \/ w.pc = "mail" /\ m.log[b] # x.log[b]

TimeInv ==
    crashes = 0 =>
        /\ up
        /\ PromptStore
        /\ \A s \in Sessions, b \in Scheduled : Prompt(now, base[s].log[b])
        /\ "checker" \in ran => \A b \in Scheduled : ~ Late(now, db.log[b])
        /\ Covered(now, task["checker"], mine["checker"], base["checker"],
                   Seen("checker").log)

LEMMA WindowSet ==
    /\ Windows \subseteq Nat
    /\ DefaultConfig.window \in Windows /\ DefaultConfig.window \in Nat
<1>1. Windows \subseteq Nat /\ DefaultConfig.window \in Windows
    BY WindowsChosen DEF Windows
<1> QED
    BY <1>1

\* The default window has not passed at once.
LEMMA NotAtOnce ==
    ASSUME NEW t \in Nat
    PROVE  /\ ~ (t > t + DefaultConfig.window)
           /\ t <= t + DefaultConfig.window + 1
<1>1. \A w \in Nat : ~ (t > t + w) /\ t <= t + w + 1
    OBVIOUS
<1> QED
    BY <1>1, WindowSet

\* What was sent or escalated in this hour is not late.
LEMMA NotLateYet ==
    ASSUME NEW t \in Nat, NEW row,
           row.status = "sent" => row.sentAt = t,
           row.status = "escalated" => row.escAt = t
    PROVE  ~ Late(t, row)
<1>1. ~ (t > t + DefaultConfig.window)
    BY NotAtOnce
<1> QED
    BY <1>1, WindowSet DEF Late

\* What a session makes of a row is prompt.
LEMMA WrittenIsPrompt ==
    ASSUME NEW t \in Nat, NEW x \in BeatRow, NEW y,
           Prompt(t, x), Written(t, x, y), x.status # "none"
    PROVE  Prompt(t, y)
<1>0. /\ Windows \subseteq Nat /\ DefaultConfig.window \in Windows
      /\ t <= t + DefaultConfig.window + 1
    BY WindowSet, NotAtOnce
<1>1. CASE y = x
    BY <1>1
<1>2. CASE /\ x.status = "sent"
           /\ y = [x EXCEPT !.status = "escalated", !.escAt = t]
           /\ \E w \in Windows : t > x.sentAt + w
  <2>1. /\ y.status = "escalated" /\ y.escAt = t /\ y.sentAt = x.sentAt
        /\ y.user = x.user
    BY <1>2 DEF BeatRow
  <2> QED
    BY <1>0, <1>2, <2>1 DEF Prompt
<1>3. CASE \E status \in {"missed", "responded"} :
               y = [x EXCEPT !.status = status]
  <2>1. /\ y.status \in {"missed", "responded"} /\ y.escAt = x.escAt
        /\ y.sentAt = x.sentAt /\ y.user = x.user
    BY <1>3 DEF BeatRow
  <2> QED
    BY <2>1 DEF Prompt
<1> QED
    BY <1>1, <1>2, <1>3 DEF Written

\* A flush into a row that has moved on keeps it prompt, and does not make it
\* late.
LEMMA MergedRowIsPrompt ==
    ASSUME NEW t \in Nat, NEW row \in BeatRow, NEW x \in BeatRow,
           NEW y \in BeatRow, x.status # "none", Prompt(t, row), Prompt(t, x),
           Timely(t, x), Later(t, x, row), Written(t, x, y)
    PROVE  LET new == MergeBeat(row, x, y)
           IN  /\ Prompt(t, new)
               /\ Late(t, new) => y = x /\ new = row
<1> DEFINE new == MergeBeat(row, x, y)
<1>0. /\ Windows \subseteq Nat /\ DefaultConfig.window \in Windows
      /\ t <= t + DefaultConfig.window + 1
      /\ row.status # "none" /\ row.user = x.user /\ row.sentAt = x.sentAt
      /\ row.escAt = x.escAt \/ (x.escAt = Never /\ row.escAt = t)
    BY WindowSet, NotAtOnce DEF Later
<1>1. new = [row EXCEPT !.status = Column(row.status, x.status, y.status),
                        !.escAt = Column(row.escAt, x.escAt, y.escAt)]
    BY DEF MergeBeat
<1> HIDE DEF new
<1>2. CASE y = x
  <2>1. new = row
    BY <1>1, <1>2 DEF Column, BeatRow
  <2> QED
    BY <1>2, <2>1 DEF new
<1>3. CASE /\ x.status = "sent"
           /\ y = [x EXCEPT !.status = "escalated", !.escAt = t]
           /\ \E w \in Windows : t > x.sentAt + w
  <2>1. x.escAt = Never /\ row.escAt \in {Never, t}
    BY <1>0, <1>3 DEF Timely
  <2>2. new = [row EXCEPT !.status = "escalated", !.escAt = t]
    BY <1>0, <1>1, <1>3, <2>1 DEF Column, BeatRow
  <2>3. /\ new.status = "escalated" /\ new.escAt = t
        /\ new.user = row.user /\ new.sentAt = row.sentAt
    BY <2>2 DEF BeatRow
  <2>4. ~ Late(t, new)
    BY <2>3, NotLateYet
  <2>5. Prompt(t, new)
    BY <1>0, <1>3, <2>3 DEF Prompt
  <2> QED
    BY <2>4, <2>5 DEF new
<1>4. CASE \/ /\ x.status = "escalated"
              /\ y = [x EXCEPT !.status = "missed"]
           \/ /\ Open(x)
              /\ y = [x EXCEPT !.status = "responded"]
  <2>1. /\ new.status \in {"missed", "responded"} /\ new.escAt = row.escAt
        /\ new.user = row.user /\ new.sentAt = row.sentAt
    BY <1>1, <1>4 DEF Column, BeatRow, Open
  <2> QED
    BY <1>0, <2>1 DEF Prompt, Late, new
<1> QED
    BY <1>2, <1>3, <1>4 DEF Written

PromptBase(s) == \A b \in Scheduled : Prompt(now, base[s].log[b])

LEMMA MergedIsPrompt ==
    ASSUME TypeOK, RowInv, PromptStore, NEW s \in Sessions, NEW m \in Cache,
           Held(now, base[s].log, m.log, Seen(s).log, db.log), PromptBase(s),
           NEW b \in Scheduled
    PROVE  LET new == Merged(s, m).log[b]
           IN  /\ Prompt(now, new) /\ Prompt(now, m.log[b])
               /\ Late(now, new) => /\ m.log[b] = base[s].log[b]
                                    /\ new = Seen(s).log[b]
<1> DEFINE row == Seen(s).log[b]
           x   == base[s].log[b]
           y   == m.log[b]
           new == Merged(s, m).log[b]
<1>0. /\ row \in BeatRow /\ x \in BeatRow /\ y \in BeatRow /\ now \in Nat
      /\ b \in Beats
    BY RowTypes DEF Cache
<1>1. new = MergeBeat(row, x, y)
    BY <1>0 DEF Merged
<1>2. Prompt(now, row) /\ Prompt(now, x)
    BY DEF PromptStore, PromptBase, Seen
<1>3. y = x => new = row
    BY <1>0, <1>1 DEF MergeBeat, Column, BeatRow
<1>4. Copied(now, x, y, row, db.log[b])
    BY <1>0 DEF Held
<1> HIDE DEF row, x, y, new
<1>5. CASE x = NoBeat /\ y = NoBeat
    BY <1>2, <1>3, <1>5 DEF row, x, y, new
<1>6. CASE /\ x.status # "none" /\ db.log[b].status # "none"
           /\ Timely(now, x) /\ Later(now, x, row) /\ Written(now, x, y)
  <2>1. Prompt(now, new) /\ (Late(now, new) => y = x /\ new = row)
    BY <1>0, <1>1, <1>2, <1>6, MergedRowIsPrompt
  <2>2. Prompt(now, y)
    BY <1>0, <1>2, <1>6, WrittenIsPrompt
  <2> QED
    BY <2>1, <2>2 DEF row, x, y, new
<1> QED
    BY <1>4, <1>5, <1>6 DEF Copied

\* A step of the sessions S makes no row late.
Sooner(S) == /\ Fewer(now, db.log, db'.log)
             /\ \A o \in Sessions \ S : Fewer(now, Seen(o).log, Seen(o)'.log)

LEMMA FewerOrder ==
    /\ \A t, x : Fewer(t, x, x)
    /\ \A t, x, y, z : Fewer(t, x, y) /\ Fewer(t, y, z) => Fewer(t, x, z)
BY DEF Fewer

\* A flush or a commit of the rows m.
LEMMA WriteTime ==
    ASSUME TypeOK, RowInv, PromptStore, NEW s \in Sessions, NEW m \in Cache,
           Held(now, base[s].log, m.log, Seen(s).log, db.log), PromptBase(s),
           Flush(s, m) \/ Commit(s, m), UNCHANGED now
    PROVE  /\ PromptStore' /\ Sooner({s})
           /\ \A b \in Scheduled :
                  /\ Prompt(now, m.log[b])
                  /\ Late(now, Seen(s)'.log[b]) =>
                         /\ m.log[b] = base[s].log[b]
                         /\ Seen(s)'.log[b] = Seen(s).log[b]
           /\ \A b \in Scheduled : Prompt(now, Seen(s)'.log[b])
<1> DEFINE new == Merged(s, m)
<1>0. s # Nobody /\ Nobody \notin Sessions
    BY CheckInAssumption
<1>1. \A b \in Scheduled :
          /\ Prompt(now, new.log[b]) /\ Prompt(now, m.log[b])
          /\ Late(now, new.log[b]) => /\ m.log[b] = base[s].log[b]
                                      /\ new.log[b] = Seen(s).log[b]
    BY MergedIsPrompt
<1>2. \/ UNCHANGED store /\ m = base[s]
      \/ /\ LockFree(s) /\ wal' = new
         /\ \/ db' = db /\ writer' = s
            \/ db' = new /\ writer' = Nobody
    BY DEF Flush, Commit, MayWrite
<1> HIDE DEF new
<1>3. CASE UNCHANGED store /\ m = base[s]
  <2>1. /\ UNCHANGED <<db, wal, writer>>
        /\ \A o \in Sessions : Seen(o)' = Seen(o)
    BY <1>3 DEF store, Seen
  <2>2. PromptStore' /\ Sooner({s})
    BY <2>1, FewerOrder DEF PromptStore, Sooner
  <2>3. \A b \in Scheduled : Prompt(now, Seen(s).log[b])
    BY DEF PromptStore, Seen
  <2> QED
    BY <1>1, <1>3, <2>1, <2>2, <2>3
<1>4. CASE /\ LockFree(s) /\ wal' = new
           /\ \/ db' = db /\ writer' = s
              \/ db' = new /\ writer' = Nobody
  <2>1. Seen(s) = wal /\ Seen(s)' = new
    BY <1>0, <1>4, LockShowsWal DEF RowInv, Seen
  <2>2. Fewer(now, db.log, wal.log)
    BY DEF PromptStore
  <2>3. Fewer(now, wal.log, new.log)
    BY <1>1, <2>1 DEF Fewer
  <2>4. Fewer(now, db.log, new.log)
    BY <2>2, <2>3, FewerOrder
  <2>5. Fewer(now, db.log, db'.log) /\ Fewer(now, db'.log, wal'.log)
    BY <1>4, <2>4, FewerOrder
  <2>6. \A o \in Sessions \ {s} : Seen(o) = db /\ Seen(o)' = db'
    BY <1>0, <1>4 DEF Seen, LockFree
  <2>7. Sooner({s})
    BY <2>5, <2>6 DEF Sooner
  <2>8. PromptStore'
    BY <1>1, <1>4, <2>5 DEF PromptStore
  <2> QED
    BY <1>1, <2>1, <2>7, <2>8
<1> QED
    BY <1>2, <1>3, <1>4

\* What is left to prove of a step of s that takes it to w.
LEMMA TimeStep ==
    ASSUME TypeOK, TimeInv, crashes = 0, NEW s \in Sessions,
           NEW w, NEW m, NEW x, GoOn(s, w), Hold(s, m, x),
           UNCHANGED <<now, up, crashes>>, ran' \subseteq ran \cup {s},
           PromptStore', Sooner({s}),
           \A b \in Scheduled : Prompt(now, x.log[b]),
           "checker" \in ran' \ ran =>
               \A b \in Scheduled : ~ Late(now, db'.log[b]),
           s = "checker" => Covered(now, w, m, x, Seen(s)'.log)
    PROVE  TimeInv'
<1>1. /\ task'[s] = w /\ mine'[s] = m /\ base'[s] = x
      /\ \A o \in Sessions \ {s} : /\ task'[o] = task[o]
                                   /\ mine'[o] = mine[o]
                                   /\ base'[o] = base[o]
    BY DEF GoOn, Hold, TypeOK
<1>2. /\ up /\ \A o \in Sessions, b \in Scheduled : Prompt(now, base[o].log[b])
      /\ "checker" \in ran => \A b \in Scheduled : ~ Late(now, db.log[b])
      /\ Covered(now, task["checker"], mine["checker"], base["checker"],
                 Seen("checker").log)
      /\ "checker" \in Sessions
    BY DEF TimeInv, Sessions, Jobs
<1>3. \A o \in Sessions, b \in Scheduled : Prompt(now, base'[o].log[b])
    BY <1>1, <1>2
<1>4. "checker" \in ran' => \A b \in Scheduled : ~ Late(now, db'.log[b])
    BY <1>2 DEF Sooner, Fewer
<1>5. Covered(now, task'["checker"], mine'["checker"], base'["checker"],
              Seen("checker")'.log)
  <2>1. CASE s = "checker"
    BY <1>1, <2>1
  <2>2. CASE s # "checker"
    <3>1. Fewer(now, Seen("checker").log, Seen("checker")'.log)
      BY <1>2, <2>2 DEF Sooner
    <3> QED
      BY <1>1, <1>2, <2>2, <3>1 DEF Covered, Fewer
  <2> QED
    BY <2>1, <2>2
<1> QED
    BY <1>2, <1>3, <1>4, <1>5 DEF TimeInv

\* What a session in progress knows of the deadlines.
LEMMA OwnTime ==
    ASSUME TypeOK, RowInv, TimeInv, crashes = 0, NEW s \in Sessions
    PROVE  /\ PromptStore /\ PromptBase(s) /\ up
           /\ s = "checker" => Covered(now, task[s], mine[s], base[s],
                                       Seen(s).log)
BY DEF TimeInv, PromptBase

\* A step that leaves the database alone.
LEMMA QuietTime ==
    ASSUME TypeOK, TimeInv, crashes = 0, NEW s \in Sessions,
           NEW w, NEW m, NEW x, GoOn(s, w), Hold(s, m, x),
           UNCHANGED <<clock, store>>,
           \A b \in Scheduled : Prompt(now, x.log[b]),
           s = "checker" => Covered(now, w, m, x, Seen(s).log)
    PROVE  TimeInv'
<1>1. UNCHANGED <<db, wal, writer, now, up, ran, crashes>>
    BY DEF store, clock
<1>2. \A o \in Sessions : Seen(o)' = Seen(o)
    BY <1>1 DEF Seen
<1>3. PromptStore
    BY DEF TimeInv
<1>4. PromptStore' /\ Sooner({s})
    BY <1>1, <1>2, <1>3, FewerOrder DEF PromptStore, Sooner
<1> QED
    BY <1>1, <1>2, <1>4, TimeStep

LEMMA EmptyIsPrompt ==
    /\ \A t : Prompt(t, NoBeat)
    /\ \A b \in Beats : Empty.log[b] = NoBeat
BY DEF Prompt, NoBeat, Empty, Never

\* A step that flushes or commits the rows m.
LEMMA FlushTime ==
    ASSUME TypeOK, RowInv, TimeInv, crashes = 0, NEW s \in Sessions,
           NEW m \in Cache,
           Held(now, base[s].log, m.log, Seen(s).log, db.log),
           Flush(s, m) \/ Commit(s, m),
           NEW w, NEW h, NEW x, GoOn(s, w), Hold(s, h, x),
           UNCHANGED <<now, up, crashes>>, ran' \subseteq ran \cup {s},
           x.log \in {m.log, Empty.log},
           "checker" \in ran' \ ran =>
               \A b \in Scheduled : ~ Late(now, db'.log[b]),
           s = "checker" => Covered(now, w, h, x, Seen(s)'.log)
    PROVE  TimeInv'
<1>1. PromptStore /\ PromptBase(s)
    BY OwnTime
<1>2. /\ PromptStore' /\ Sooner({s})
      /\ \A b \in Scheduled : Prompt(now, m.log[b])
    BY <1>1, WriteTime
<1>3. \A b \in Scheduled : Prompt(now, x.log[b])
    BY <1>2, EmptyIsPrompt, RowTypes
<1> QED
    BY <1>2, <1>3, TimeStep

\* What a pass of the checker has ahead of it after a flush of m.
LEMMA FlushCover ==
    ASSUME TypeOK, RowInv, TimeInv, crashes = 0, NEW s \in Sessions,
           s = "checker", NEW m \in Cache,
           Held(now, base[s].log, m.log, Seen(s).log, db.log),
           Flush(s, m) \/ Commit(s, m), UNCHANGED now,
           task[s].pc \in InPass, NEW b \in Scheduled,
           Late(now, Seen(s)'.log[b])
    PROVE  /\ m.log[b] = base[s].log[b]
           /\ Seen(s)'.log[b] = Seen(s).log[b]
           /\ \/ task[s].pc # "commit" /\ Seen(s).log[b].user \in task[s].queue
              \/ task[s].pc \in OneUser /\ b \in task[s].rest
              \/ task[s].pc = "mail" /\ mine[s].log[b] # base[s].log[b]
<1>1. PromptStore /\ PromptBase(s)
    BY OwnTime
<1>2. /\ m.log[b] = base[s].log[b]
      /\ Seen(s)'.log[b] = Seen(s).log[b]
    BY <1>1, WriteTime
<1>3. Late(now, Seen(s).log[b])
    BY <1>2
<1> QED
    BY <1>2, <1>3, OwnTime DEF Covered

-----------------------------------------------------------------------------
(* The passes.                                                             *)

\* A late row is not too old for the checker to see.
LEMMA LateIsSeen ==
    ASSUME SeesEscalations, NEW t \in Nat, NEW row \in BeatRow,
           Timely(t, row), Prompt(t, row), Late(t, row)
    PROVE  /\ Open(row) /\ row.user \in Users /\ row.sentAt > t - Horizon
           /\ \A w \in Windows : row.sentAt < t - w
<1>0. /\ Windows \subseteq Nat /\ Horizon \in Nat
      /\ row.sentAt \in Int /\ row.escAt \in Int
      /\ DefaultConfig.window \in Windows
    BY WindowSet, CheckInAssumption DEF BeatRow
<1>1. CASE row.status = "sent" /\ \A w \in Windows : t > row.sentAt + w
  <2>1. PICK w \in Windows : t <= row.sentAt + w + 1
    BY <1>1 DEF Prompt
  <2>2. w \in Nat /\ w + 1 < Horizon
    BY <1>0 DEF SeesEscalations
  <2>3. row.sentAt > t - Horizon
    BY <1>0, <2>1, <2>2
  <2>4. \A v \in Windows : row.sentAt < t - v
    BY <1>0, <1>1
  <2> QED
    BY <1>1, <2>3, <2>4 DEF Open, Prompt
<1>2. CASE /\ row.status = "escalated" /\ SeesVerdicts
           /\ \A w \in Windows : t > row.escAt + w
  <2>1. row.escAt # Never
    BY <1>2 DEF Timely
  <2>2. PICK w \in Windows : t <= row.escAt + w + 1
    BY <1>2 DEF Prompt
  <2>3. PICK v \in Windows : row.escAt <= row.sentAt + v + 1
    BY <2>1 DEF Prompt
  <2>4. /\ w \in Nat /\ v \in Nat
        /\ 2 * (w + 1) < Horizon /\ 2 * (v + 1) < Horizon
    BY <1>0, <1>2 DEF SeesVerdicts
  <2>5. row.sentAt > t - Horizon
    BY <1>0, <2>2, <2>3, <2>4
  <2>6. PICK z \in Windows : row.escAt > row.sentAt + z
    BY <2>1 DEF Timely
  <2>7. \A y \in Windows : row.sentAt < t - y
    BY <1>0, <1>2, <2>6
  <2> QED
    BY <1>2, <2>5, <2>7 DEF Open, Prompt
<1> QED
    BY <1>1, <1>2 DEF Late

\* What the checker sees of a late row.
LEMMA SeenLate ==
    ASSUME TypeOK, RowInv, PromptStore, SeesEscalations, NEW s \in Sessions,
           NEW b \in Scheduled, Late(now, Seen(s).log[b])
    PROVE  LET row == Seen(s).log[b]
           IN  /\ Open(row) /\ row.user \in Users
               /\ row.sentAt > now - Horizon
               /\ \A w \in Windows : row.sentAt < now - w
<1> DEFINE row == Seen(s).log[b]
<1>1. row \in BeatRow /\ now \in Nat /\ b \in Beats
    BY RowTypes
<1>2. Timely(now, row) /\ Prompt(now, row)
    BY <1>1 DEF RowInv, StoreInv, Stored, PromptStore, Seen
<1> QED
    BY <1>1, <1>2, LateIsSeen

LEMMA ScanTime ==
    ASSUME TypeOK, RowInv, TimeInv, crashes = 0, SeesEscalations,
           NEW j \in Jobs,
           \/ StartPass(j) \/ \E u \in Users : Reschedule(j, u)
           \/ FinishScan(j) \/ FinishPass(j)
    PROVE  TimeInv'
<1> USE DEF Sessions
<1> DEFINE t == task[j]
<1>0. /\ t \in Task /\ mine[j] \in Cache /\ base[j] \in Cache
      /\ Held(now, base[j].log, mine[j].log, Seen(j).log, db.log)
      /\ OnRows(now, t, mine[j], base[j])
      /\ t.pc = "idle" => writer # j
      /\ PromptStore /\ PromptBase(j)
      /\ j = "checker" => Covered(now, t, mine[j], base[j], Seen(j).log)
    BY OwnRows, OwnTime
<1>1. CASE StartPass(j)
  <2> DEFINE S == IF j = "dispatcher" THEN Due ELSE Outstanding
             w == [t EXCEPT !.pc = "scan", !.queue = S, !.loaded = S]
             m == [Empty EXCEPT !.users = [u \in Users |->
                       IF u \in S THEN db.users[u] ELSE Unloaded]]
  <2>1. /\ GoOn(j, w) /\ Hold(j, m, m) /\ m.log = Empty.log
        /\ UNCHANGED <<clock, store>> /\ t.pc = "idle"
    BY <1>1 DEF StartPass, Empty
  <2>2. w.pc = "scan" /\ w.queue = S
    BY <1>0 DEF Task
  <2>3. Seen(j) = db
    BY <1>0, <2>1 DEF Seen
  <2> HIDE DEF w, m
  <2>4. \A b \in Scheduled : Prompt(now, m.log[b])
    BY <2>1, EmptyIsPrompt, RowTypes
  <2>5. ASSUME j = "checker" PROVE Covered(now, w, m, m, Seen(j).log)
    <3>1. S = Outstanding
      BY <2>5
    <3>2. ASSUME NEW b \in Scheduled, Late(now, Seen(j).log[b])
          PROVE  Seen(j).log[b].user \in S
      <4>1. /\ b \in Beats /\ Open(db.log[b]) /\ db.log[b].user \in Users
            /\ db.log[b].sentAt > now - Horizon
        BY <1>0, <2>3, <3>2, SeenLate, RowTypes
      <4> QED
        BY <2>3, <3>1, <4>1 DEF Outstanding
    <3> QED
      BY <2>2, <3>2 DEF Covered, OneUser
  <2> QED
    BY <2>1, <2>4, <2>5, QuietTime
<1>2. CASE \E u \in Users : Reschedule(j, u)
  <2>1. j # "checker" /\ UNCHANGED <<clock, store, base>>
    BY <1>2 DEF Reschedule
  <2>2. PICK w, m : GoOn(j, w) /\ mine' = [mine EXCEPT ![j] = m]
    BY <1>2 DEF Reschedule
  <2>3. Hold(j, m, base[j])
    BY <2>1, <2>2, SameHold
  <2> QED
    BY <1>0, <2>1, <2>2, <2>3, QuietTime DEF PromptBase
<1>3. CASE FinishScan(j)
  <2> DEFINE w == [t EXCEPT !.pc = "commit"]
  <2> DEFINE seen  == Merged(j, mine[j]).users
             found == IF j = "dispatcher"
                      THEN {u \in Users : seen[u].active
                                             /\ seen[u].next = Never}
                      ELSE {}
             x     == [mine[j] EXCEPT !.users = [u \in Users |->
                          IF u \in found \ t.loaded THEN seen[u] ELSE @[u]]]
             m     == [x EXCEPT !.users = Scheduling(@, found)]
  <2>1. Hold(j, m, x) /\ x.log = mine[j].log
    BY <1>0, <1>3 DEF FinishScan, Cache
  <2> HIDE DEF m, x
  <2>2. t.pc = "scan" /\ t.queue = {} /\ w.pc = "commit"
    BY <1>0, <1>3 DEF FinishScan, Task
  <2>3. /\ UNCHANGED <<now, up, crashes, ran>> /\ GoOn(j, w)
        /\ Flush(j, mine[j])
    BY <1>3 DEF FinishScan, clock, Goto
  <2> HIDE DEF w
  <2>4. ASSUME j = "checker" PROVE Covered(now, w, m, x, Seen(j)'.log)
    <3>1. \A b \in Scheduled : ~ Late(now, Seen(j)'.log[b])
      BY <1>0, <2>2, <2>3, <2>4, FlushCover DEF InPass, OneUser
    <3> QED
      BY <2>2, <3>1 DEF Covered, OneUser
  <2> QED
    BY <1>0, <2>1, <2>3, <2>4, FlushTime
<1>4. CASE FinishPass(j)
  <2> DEFINE w == IF t.pend = {} THEN Idle
                  ELSE [Idle EXCEPT !.pc = "notify", !.pend = t.pend]
  <2>1. w.pc \in {"idle", "notify"}
    BY DEF Idle
  <2>2. /\ UNCHANGED <<now, up, crashes, issued>> /\ GoOn(j, w)
        /\ ran' = ran \cup {j}
        /\ Commit(j, mine[j]) /\ Hold(j, Empty, Empty) /\ t.pc = "commit"
    BY <1>4 DEF FinishPass
  <2> HIDE DEF w
  <2>3. ASSUME j = "checker"
        PROVE  \A b \in Scheduled : ~ Late(now, db'.log[b])
    <3>1. \A b \in Scheduled : ~ Late(now, Seen(j)'.log[b])
      BY <1>0, <2>2, <2>3, FlushCover DEF InPass, OneUser
    <3>2. writer' # j
      BY <1>0, <2>2, WriteStep, OwnRows
    <3> QED
      BY <3>1, <3>2 DEF Seen
  <2>4. Covered(now, w, Empty, Empty, Seen(j)'.log)
    BY <2>1 DEF Covered, InPass, OneUser
  <2> QED
    BY <1>0, <2>2, <2>3, <2>4, FlushTime
<1> QED
    BY <1>1, <1>2, <1>3, <1>4

\* The SELECT finds every late heartbeat of the user.
LEMMA SelectTime ==
    ASSUME TypeOK, RowInv, ConfigInv, TimeInv, crashes = 0, SeesEscalations,
           NEW j \in Jobs, NEW u \in Users, SelectExpired(j, u)
    PROVE  TimeInv'
<1> USE DEF Sessions
<1> DEFINE t      == task[j]
           seen   == Merged(j, mine[j]).log
           window == mine[j].users[u].config.window
           found  == Expired(seen, u, window)
           m      == [users |-> mine[j].users,
                      log   |-> [b \in Beats |-> IF b \in found THEN seen[b]
                                                                ELSE NoBeat]]
           w      == [t EXCEPT !.pc = "check", !.who = u, !.rest = found,
                               !.queue = @ \ {u}]
<1>0. /\ t \in Task /\ mine[j] \in Cache
      /\ Held(now, base[j].log, mine[j].log, Seen(j).log, db.log)
      /\ t.pc = "scan" /\ StoreInv
      /\ PromptStore /\ PromptBase(j)
    BY OwnRows, OwnTime DEF SelectExpired
<1>1. window \in Windows
    BY WindowsChosen DEF ConfigInv
<1>2. /\ Flush(j, mine[j]) /\ Hold(j, m, m) /\ GoOn(j, w)
      /\ UNCHANGED <<now, up, crashes, ran, issued>>
    BY DEF SelectExpired, clock
<1>3. w.pc = "check" /\ w.rest = found /\ w.queue = t.queue \ {u}
    BY <1>0 DEF Task
<1>4. \A b \in Beats : Seen(j)'.log[b] = seen[b]
    BY <1>0, <1>2, WriteStep
<1>5. \A b \in Beats : m.log[b] = IF b \in found THEN seen[b] ELSE NoBeat
    OBVIOUS
<1>6. /\ \A b \in found : b \in Beats /\ Open(seen[b])
      /\ \A b \in Scheduled :
             seen[b].user = u /\ Open(seen[b]) /\ seen[b].sentAt < now - window
                 => b \in found
    BY RowTypes DEF Expired
<1> HIDE DEF m, w, seen, found, window
<1>7. /\ PromptStore' /\ Sooner({j})
      /\ \A b \in Scheduled : Prompt(now, Seen(j)'.log[b])
    BY <1>0, <1>2, WriteTime
<1>8. \A b \in Scheduled : Prompt(now, m.log[b])
    BY <1>4, <1>5, <1>7, EmptyIsPrompt, RowTypes
<1>9. ASSUME j = "checker" PROVE Covered(now, w, m, m, Seen(j)'.log)
  <2>1. ASSUME NEW b \in Scheduled, Late(now, Seen(j)'.log[b])
        PROVE  Seen(j)'.log[b].user \in t.queue \ {u} \/ b \in found
    <3>1. /\ Seen(j)'.log[b] = Seen(j).log[b]
          /\ Seen(j).log[b].user \in t.queue
      BY <1>0, <1>2, <1>9, <2>1, FlushCover DEF InPass, OneUser
    <3>2. seen[b] = Seen(j).log[b]
      BY <1>4, <3>1, RowTypes
    <3>3. Open(seen[b]) /\ seen[b].sentAt < now - window
      BY <1>0, <1>1, <2>1, <3>1, <3>2, SeenLate
    <3> QED
      BY <1>6, <3>1, <3>2, <3>3
  <2>2. \A b \in w.rest : Open(m.log[b])
    BY <1>3, <1>5, <1>6
  <2> QED
    BY <1>3, <2>1, <2>2 DEF Covered, OneUser
<1> QED
    BY <1>2, <1>7, <1>8, <1>9, TimeStep

\* An escalation is about to be flushed.
LEMMA EscalateTime ==
    ASSUME TypeOK, RowInv, TimeInv, crashes = 0, NEW j \in Jobs,
           NEW b \in Beats, Escalate(j, b)
    PROVE  TimeInv'
<1> USE DEF Sessions
<1> DEFINE t == task[j]
           m == Escalated(j, b)
           w == [t EXCEPT !.pc = "mail", !.rest = @ \ {b}]
<1>0. /\ t \in Task /\ mine[j] \in Cache
      /\ OnRows(now, t, mine[j], base[j]) /\ PromptBase(j)
      /\ j = "checker" => Covered(now, t, mine[j], base[j], Seen(j).log)
    BY OwnRows, OwnTime
<1>1. /\ t.pc = "check" /\ mine[j].log = base[j].log
      /\ mine[j].log[b].status = "sent"
      /\ GoOn(j, w) /\ mine' = [mine EXCEPT ![j] = m] /\ base' = base
      /\ UNCHANGED <<clock, store>>
    BY <1>0 DEF Escalate, Checking, NeedsEscalation, OnRows
<1>2. w.pc = "mail" /\ w.rest = t.rest \ {b} /\ w.queue = t.queue
    BY <1>0 DEF Task
<1>3. /\ m.log[b].status = "escalated"
      /\ \A c \in Beats \ {b} : m.log[c] = mine[j].log[c]
    BY <1>0 DEF Escalated, Cache, BeatRow
<1>4. Hold(j, m, base[j])
    BY <1>1, SameHold
<1> HIDE DEF m, w
<1>5. ASSUME j = "checker" PROVE Covered(now, w, m, base[j], Seen(j).log)
  <2>1. \A c \in w.rest : Open(m.log[c])
    <3>1. t.rest \subseteq Beats
      BY <1>0 DEF Task
    <3> QED
      BY <1>0, <1>1, <1>2, <1>3, <1>5, <3>1 DEF Covered, OneUser
  <2>2. m.log[b] # base[j].log[b]
    BY <1>1, <1>3
  <2>3. \A c \in Scheduled : Late(now, Seen(j).log[c]) =>
            Seen(j).log[c].user \in t.queue \/ c \in t.rest
    BY <1>0, <1>1, <1>5 DEF Covered, InPass, OneUser
  <2> QED
    BY <1>2, <2>1, <2>2, <2>3 DEF Covered, InPass, OneUser
<1> QED
    BY <1>0, <1>1, <1>4, <1>5, QuietTime DEF PromptBase

\* A heartbeat that is left alone is not late.
LEMMA LeftIsNotLate ==
    ASSUME TypeOK, RowInv, ConfigInv, OnTask, NEW j \in Jobs, NEW b \in Beats,
           Leave(j, b), Open(mine[j].log[b])
    PROVE  ~ Late(now, Seen(j).log[b])
<1> USE DEF Sessions
<1> DEFINE row  == mine[j].log[b]
           seen == Seen(j).log[b]
<1>0. Checking(j, b)
    BY DEF Leave
<1>1. /\ b \in Scheduled /\ row \in BeatRow /\ row.status # "none"
      /\ Timely(now, row) /\ Later(now, row, seen)
      /\ WindowOf(j) \in Windows
    BY <1>0, RestRows
<1>2. row.status = "escalated" /\ row.escAt # Never
    BY <1>1 DEF Leave, NeedsEscalation, Timely, Open
<1>3. ~ (now > row.escAt + WindowOf(j))
    BY <1>2 DEF Leave, NeedsVerdict, Lapsed
<1>4. seen.escAt = row.escAt
    BY <1>1, <1>2 DEF Later
<1>5. Timely(now, seen)
    BY RowTypes DEF RowInv, StoreInv, Stored, Seen
<1>6. seen.status # "sent"
    BY <1>2, <1>4, <1>5 DEF Timely
<1>7. ~ (now > seen.escAt + WindowOf(j))
    BY <1>3, <1>4
<1> QED
    BY <1>1, <1>6, <1>7 DEF Late

\* The steps of a pass that only change what it works on next.
LEMMA TaskTime ==
    ASSUME TypeOK, RowInv, ConfigInv, OnTask, TimeInv, crashes = 0,
           TimestampsAware, NEW j \in Jobs,
           \/ \E b \in Beats : RaiseTypeError(j, b) \/ Leave(j, b) \/ Notify(j, b)
           \/ NextUser(j)
    PROVE  TimeInv'
<1> USE DEF Sessions
<1> DEFINE t == task[j]
<1>0. /\ t \in Task /\ PromptBase(j)
      /\ j = "checker" => Covered(now, t, mine[j], base[j], Seen(j).log)
    BY OwnRows, OwnTime
<1>1. UNCHANGED <<clock, store, mine, base>>
    BY DEF RaiseTypeError, Leave, Notify, NextUser
<1>2. Hold(j, mine[j], base[j])
    BY <1>1, SameHold
<1>3. ASSUME NEW w, GoOn(j, w),
             j = "checker" => Covered(now, w, mine[j], base[j], Seen(j).log)
      PROVE  TimeInv'
    BY <1>0, <1>1, <1>2, <1>3, QuietTime DEF PromptBase
<1>4. CASE NextUser(j)
  <2> DEFINE w == [t EXCEPT !.pc = "scan", !.who = Nobody]
  <2>1. /\ GoOn(j, w) /\ t.pc = "check" /\ t.rest = {}
        /\ w.pc = "scan" /\ w.queue = t.queue
    BY <1>0, <1>4 DEF NextUser, Checked, Task
  <2> HIDE DEF w
  <2>2. ASSUME j = "checker"
        PROVE  Covered(now, w, mine[j], base[j], Seen(j).log)
    BY <1>0, <2>1, <2>2 DEF Covered, InPass, OneUser
  <2> QED
    BY <1>3, <2>1, <2>2
<1>5. CASE \E b \in Beats : Leave(j, b)
  <2> PICK b \in Beats : Leave(j, b)
    BY <1>5
  <2> DEFINE w == [t EXCEPT !.rest = @ \ {b}]
  <2>1. /\ w.pc = "check" /\ w.rest = t.rest \ {b} /\ w.queue = t.queue
        /\ t.pc = "check" /\ b \in t.rest /\ GoOn(j, w)
    BY <1>0 DEF Leave, Checking, Task
  <2> HIDE DEF w
  <2>2. ASSUME j = "checker"
        PROVE  Covered(now, w, mine[j], base[j], Seen(j).log)
    <3>1. \A c \in t.rest : Open(mine[j].log[c])
      BY <1>0, <2>1, <2>2 DEF Covered, OneUser
    <3>2. ~ Late(now, Seen(j).log[b])
      BY <2>1, <3>1, LeftIsNotLate
    <3>3. \A c \in Scheduled : Late(now, Seen(j).log[c]) =>
              Seen(j).log[c].user \in t.queue \/ c \in t.rest
      BY <1>0, <2>1, <2>2 DEF Covered, InPass, OneUser
    <3> QED
      BY <2>1, <3>1, <3>2, <3>3 DEF Covered, InPass, OneUser
  <2> QED
    BY <1>3, <2>1, <2>2
<1>6. CASE \E b \in Beats : Notify(j, b)
  <2> PICK b \in Beats : Notify(j, b)
    BY <1>6
  <2> DEFINE w == IF t.pend = {b} THEN Idle
                  ELSE [t EXCEPT !.pend = @ \ {b}]
  <2>1. w.pc \in {"idle", "notify"} /\ GoOn(j, w)
    BY <1>0 DEF Notify, Task, Idle
  <2> HIDE DEF w
  <2>2. Covered(now, w, mine[j], base[j], Seen(j).log)
    BY <2>1 DEF Covered, InPass, OneUser
  <2> QED
    BY <1>3, <2>1, <2>2
<1> QED
    BY <1>4, <1>5, <1>6 DEF RaiseTypeError

\* A verdict.
LEMMA MissTime ==
    ASSUME TypeOK, RowInv, ConfigInv, OnTask, TimeInv, crashes = 0,
           NEW j \in Jobs, NEW b \in Beats, Miss(j, b)
    PROVE  TimeInv'
<1> USE DEF Sessions
<1> DEFINE t     == task[j]
           m     == Missed(j, b)
           fires == AtThreshold(m.users[t.who]) /\ RecipientsOf[t.who] # {}
           w     == [t EXCEPT
                        !.rest = @ \ {b},
                        !.pc   = IF fires THEN "trigger" ELSE @,
                        !.todo = IF fires THEN RecipientsOf[t.who] ELSE {}]
<1>0. /\ t \in Task
      /\ j = "checker" => Covered(now, t, mine[j], base[j], Seen(j).log)
    BY OwnRows, OwnTime
<1>1. /\ m \in Cache
      /\ mine[j].log[b] = base[j].log[b]
      /\ mine[j].log[b].status = "escalated"
      /\ m.log[b] = [mine[j].log[b] EXCEPT !.status = "missed"]
      /\ \A c \in Beats \ {b} : m.log[c] = mine[j].log[c]
      /\ Held(now, base[j].log, m.log, Seen(j).log, db.log)
  <2>1. Missable(j, b)
    BY DEF Miss
  <2> QED
    BY <2>1, MissHeld
<1>2. /\ t.pc = "check"
      /\ GoOn(j, w) /\ Hold(j, m, m) /\ Flush(j, m)
      /\ UNCHANGED <<now, up, crashes, ran>>
    BY DEF Miss, Missable, Checking, clock
<1>3. /\ w.pc \in {"check", "trigger"} /\ w.rest = t.rest \ {b}
      /\ w.queue = t.queue
    BY <1>0, <1>2 DEF Task
<1>4. m.log[b] # base[j].log[b]
    BY <1>1, RowTypes DEF BeatRow
<1> HIDE DEF m, w
<1>5. ASSUME j = "checker" PROVE Covered(now, w, m, m, Seen(j)'.log)
  <2>1. \A c \in w.rest : Open(m.log[c])
    <3>1. t.rest \subseteq Beats
      BY <1>0 DEF Task
    <3> QED
      BY <1>0, <1>1, <1>2, <1>3, <1>5, <3>1 DEF Covered, OneUser
  <2>2. ASSUME NEW c \in Scheduled, Late(now, Seen(j)'.log[c])
        PROVE  Seen(j)'.log[c].user \in w.queue \/ c \in w.rest
    <3>1. /\ m.log[c] = base[j].log[c]
          /\ Seen(j)'.log[c] = Seen(j).log[c]
          /\ Seen(j).log[c].user \in t.queue \/ c \in t.rest
      BY <1>1, <1>2, <1>5, <2>2, FlushCover DEF InPass, OneUser
    <3> QED
      BY <1>3, <1>4, <3>1
  <2> QED
    BY <1>3, <2>1, <2>2 DEF Covered, InPass, OneUser
<1> QED
    BY <1>1, <1>2, <1>5, FlushTime

\* The trigger, and the flush after an escalation.
LEMMA TriggerTime ==
    ASSUME TypeOK, RowInv, TimeInv, crashes = 0, NEW j \in Jobs,
           \/ FlushEscalation(j) \/ CommitTrigger(j) \/ Deactivate(j)
           \/ \E r \in Recipients, outcome \in Outcomes : Deliver(j, r, outcome)
    PROVE  TimeInv'
<1> USE DEF Sessions
<1> DEFINE t == task[j]
<1>0. /\ t \in Task /\ mine[j] \in Cache /\ base[j] \in Cache
      /\ Held(now, base[j].log, mine[j].log, Seen(j).log, db.log)
      /\ OnRows(now, t, mine[j], base[j])
      /\ PromptStore /\ PromptBase(j)
      /\ j = "checker" => Covered(now, t, mine[j], base[j], Seen(j).log)
    BY OwnRows, OwnTime
\* A flush or a commit of the rows m that goes on with the same heartbeats.
<1>1. ASSUME NEW m \in Cache, m.log = mine[j].log,
             Flush(j, m) \/ Commit(j, m), UNCHANGED <<now, up, crashes, ran>>,
             NEW w, GoOn(j, w), Hold(j, m, m),
             t.pc \in OneUser, w.pc \in OneUser,
             w.rest = t.rest, w.queue = t.queue
      PROVE  TimeInv'
  <2>1. Held(now, base[j].log, m.log, Seen(j).log, db.log)
    BY <1>0, <1>1
  <2>2. ASSUME j = "checker" PROVE Covered(now, w, m, m, Seen(j)'.log)
    <3>1. \A c \in w.rest : Open(m.log[c])
      BY <1>0, <1>1, <2>2 DEF Covered
    <3>2. ASSUME NEW c \in Scheduled, Late(now, Seen(j)'.log[c])
          PROVE  Seen(j)'.log[c].user \in w.queue \/ c \in w.rest
      BY <1>1, <2>1, <2>2, <3>2, FlushCover DEF InPass
    <3> QED
      BY <1>1, <3>1, <3>2 DEF Covered, OneUser
  <2> QED
    BY <1>1, <2>1, <2>2, FlushTime
<1>2. CASE FlushEscalation(j) \/ CommitTrigger(j)
  <2>1. PICK pc \in {"check", "deactivate"} :
            /\ Goto(j, pc) /\ Hold(j, mine[j], mine[j])
            /\ Flush(j, mine[j]) \/ Commit(j, mine[j])
            /\ UNCHANGED <<now, up, crashes, ran>>
            /\ t.pc \in {"mail", "trigger"}
    BY <1>2 DEF FlushEscalation, CommitTrigger, clock
  <2> DEFINE w == [t EXCEPT !.pc = pc]
  <2>2. /\ w.pc = pc /\ w.rest = t.rest /\ w.queue = t.queue
        /\ GoOn(j, w)
    BY <1>0, <2>1 DEF Task, Goto
  <2> HIDE DEF w
  <2> QED
    BY <1>0, <1>1, <2>1, <2>2 DEF OneUser
<1>3. CASE Deactivate(j)
  <2> DEFINE m == Deactivated(j)
             w == [t EXCEPT !.pc = "check"]
  <2>1. m \in Cache
    BY <1>0, DeactivatedType
  <2>2. m.log = mine[j].log
    BY <1>0 DEF Deactivated, Cache
  <2>3. /\ GoOn(j, w) /\ Hold(j, m, m) /\ Commit(j, m)
        /\ UNCHANGED <<now, up, crashes, ran>> /\ t.pc = "deactivate"
    BY <1>3 DEF Deactivate, Goto, clock
  <2>4. w.pc = "check" /\ w.rest = t.rest /\ w.queue = t.queue
    BY <1>0 DEF Task
  <2> HIDE DEF m, w
  <2> QED
    BY <1>1, <2>1, <2>2, <2>3, <2>4 DEF OneUser
<1>4. CASE \E r \in Recipients, outcome \in Outcomes : Deliver(j, r, outcome)
  <2> PICK r \in Recipients, outcome \in Outcomes : Deliver(j, r, outcome)
    BY <1>4
  <2> DEFINE w == [t EXCEPT !.todo = @ \ {r}]
  <2>1. /\ GoOn(j, w) /\ t.pc = "trigger" /\ UNCHANGED <<mine, base, db, writer>>
        /\ UNCHANGED <<now, up, crashes, ran>>
    BY DEF Deliver, clock
  <2>2. w.pc = "trigger" /\ w.rest = t.rest /\ w.queue = t.queue
    BY <1>0, <2>1 DEF Task
  <2>3. wal'.log = wal.log
    BY DEF Deliver, TypeOK, Database
  <2> HIDE DEF w
  <2>4. \A s \in Sessions : Seen(s)'.log = Seen(s).log
    BY <2>1, <2>3 DEF Seen
  <2>5. PromptStore' /\ Sooner({j})
    BY <1>0, <2>1, <2>3, <2>4, FewerOrder DEF PromptStore, Sooner
  <2>6. Hold(j, mine[j], base[j])
    BY <2>1, SameHold
  <2>7. ASSUME j = "checker"
        PROVE  Covered(now, w, mine[j], base[j], Seen(j)'.log)
    BY <1>0, <2>1, <2>2, <2>4, <2>7 DEF Covered, InPass, OneUser
  <2> QED
    BY <1>0, <2>1, <2>5, <2>6, <2>7, TimeStep DEF PromptBase
<1> QED
    BY <1>2, <1>3, <1>4

\* A new heartbeat is not late.
LEMMA CreateTime ==
    ASSUME TypeOK, TypeOK', OnTask, RowInv, TimeInv, crashes = 0,
           NEW j \in Jobs, CreateBeat(j)
    PROVE  TimeInv'
<1> USE DEF Sessions
<1> DEFINE t   == task[j]
           u   == t.who
           b   == issued.real + 1
           new == Merged(j, mine[j])
           m   == [mine[j] EXCEPT !.users = Scheduling(@, {u})]
           w   == [t EXCEPT !.pc = "scan", !.who = Nobody,
                            !.pend = @ \cup {b}]
<1>0. /\ t \in Task /\ mine[j] \in Cache /\ now \in Nat /\ StoreInv
      /\ Held(now, base[j].log, mine[j].log, Seen(j).log, db.log)
      /\ OnRows(now, t, mine[j], base[j])
      /\ PromptStore /\ PromptBase(j)
      /\ Nobody \notin Sessions
    BY OwnRows, OwnTime, CheckInAssumption
<1>1. /\ t.pc = "check" /\ LockFree(j) /\ writer' = j /\ db' = db
      /\ wal' = [new EXCEPT !.log[b] = NewBeat(u)]
      /\ Hold(j, m, mine[j]) /\ GoOn(j, w) /\ j # "checker"
      /\ UNCHANGED <<now, up, crashes, ran>>
    BY DEF CreateBeat, Sends, Checked, MayWrite, clock
<1>2. u \in Users /\ mine[j].log = base[j].log
    BY <1>0, <1>1 DEF OnTask, Sound, OneUser, OnRows
<1>3. Seen(j) = wal
    BY <1>0, <1>1, LockShowsWal
<1>4. \A c \in Beats : wal'.log[c] = IF c = b THEN NewBeat(u) ELSE new.log[c]
    BY <1>0, <1>1, MergedType DEF Database
<1>5. \A c \in Scheduled :
          /\ Prompt(now, new.log[c])
          /\ Late(now, new.log[c]) => new.log[c] = wal.log[c]
    BY <1>0, <1>3, MergedIsPrompt
<1>6. ~ Late(now, NewBeat(u)) /\ Prompt(now, NewBeat(u))
  <2>1. /\ NewBeat(u).status = "sent" /\ NewBeat(u).sentAt = now
        /\ NewBeat(u).escAt = Never /\ NewBeat(u).user = u
    BY DEF NewBeat
  <2> QED
    BY <1>0, <1>2, <2>1, NotLateYet, NotAtOnce, WindowSet DEF Prompt
<1> HIDE DEF m, w, new, b
<1>7. \A c \in Scheduled :
          /\ Prompt(now, wal'.log[c])
          /\ Late(now, wal'.log[c]) => wal'.log[c] = wal.log[c]
    BY <1>4, <1>5, <1>6, RowTypes
<1>8. PromptStore'
  <2>1. Fewer(now, db.log, wal.log) /\ Fewer(now, wal.log, wal'.log)
    BY <1>0, <1>7 DEF PromptStore, Fewer
  <2>2. Fewer(now, db.log, wal'.log)
    BY <2>1, FewerOrder
  <2> QED
    BY <1>0, <1>1, <1>7, <2>2 DEF PromptStore
<1>9. Sooner({j})
  <2>1. \A o \in Sessions \ {j} : Seen(o) = db /\ Seen(o)' = db'
    BY <1>0, <1>1 DEF Seen, LockFree
  <2> QED
    BY <1>1, <2>1, FewerOrder DEF Sooner
<1> QED
    BY <1>0, <1>1, <1>2, <1>8, <1>9, TimeStep DEF PromptBase

\* The end of a pass or a request that is not a pass of the checker that went
\* through.
LEMMA IdleCovers ==
    \A t, m, x, seen : Covered(t, Idle, m, x, seen)
BY DEF Covered, InPass, OneUser, Idle

LEMMA AbortTime ==
    ASSUME TypeOK, RowInv, TimeInv, crashes = 0, NEW s \in Sessions, Abort(s)
    PROVE  TimeInv'
<1>1. /\ GoOn(s, Idle) /\ Hold(s, Empty, Empty)
      /\ UNCHANGED <<now, up, crashes, ran, db>>
      /\ \/ writer = s /\ wal' = db /\ writer' = Nobody
         \/ writer # s /\ UNCHANGED <<wal, writer>>
    BY DEF Abort, Close, Rollback, clock
<1>2. PromptStore /\ Nobody \notin Sessions
    BY OwnTime, CheckInAssumption
<1>3. PromptStore'
    BY <1>1, <1>2, FewerOrder DEF PromptStore
<1>4. \A o \in Sessions \ {s} : Seen(o)' = Seen(o)
    BY <1>1, <1>2 DEF Seen
<1>5. Sooner({s})
    BY <1>1, <1>4, FewerOrder DEF Sooner
<1>6. \A b \in Scheduled : Prompt(now, Empty.log[b])
    BY EmptyIsPrompt, RowTypes
<1> QED
    BY <1>1, <1>3, <1>5, <1>6, IdleCovers, TimeStep

LEMMA PassTime ==
    ASSUME TypeOK, TypeOK', OnTask, ConfigInv, RowInv, TimeInv, crashes = 0,
           TimestampsAware, SeesEscalations, NEW j \in Jobs,
           StartPass(j) \/ Pass(j)
    PROVE  TimeInv'
BY ScanTime, SelectTime, EscalateTime, TaskTime, MissTime, TriggerTime,
   CreateTime, AbortTime DEF Pass, Sessions

-----------------------------------------------------------------------------
(* The requests, the clean-up and the clock.                               *)

LEMMA OpenTime ==
    ASSUME TypeOK, RowInv, TimeInv, crashes = 0, NEW r \in Requests,
           \/ \E b \in Beats : OpenLink(r, b)
           \/ FindUser(r)
           \/ \E u \in Users : OpenSettings(r, u)
    PROVE  TimeInv'
<1> USE DEF Sessions
<1>0. /\ mine[r] \in Cache /\ base[r] \in Cache
      /\ OnRows(now, task[r], mine[r], base[r])
      /\ PromptStore /\ PromptBase(r) /\ r # "checker"
    BY OwnRows, OwnTime, CheckInAssumption DEF Jobs
<1>1. ASSUME NEW w, NEW m, GoOn(r, w), Hold(r, m, m),
             UNCHANGED <<clock, store>>,
             \A b \in Scheduled : Prompt(now, m.log[b])
      PROVE  TimeInv'
    BY <1>0, <1>1, QuietTime
<1>2. CASE \E b \in Beats : OpenLink(r, b)
  <2> PICK b \in Beats : OpenLink(r, b)
    BY <1>2
  <2> DEFINE m == [Empty EXCEPT !.log[b] = db.log[b]]
             w == [task[r] EXCEPT !.pc = "open", !.beat = b]
  <2>1. GoOn(r, w) /\ Hold(r, m, m) /\ UNCHANGED <<clock, store>>
    BY DEF OpenLink
  <2>2. \A c \in Beats : m.log[c] = IF c = b THEN db.log[b] ELSE NoBeat
    BY DEF Empty
  <2> HIDE DEF m, w
  <2>3. \A c \in Scheduled : Prompt(now, m.log[c])
    BY <1>0, <2>2, EmptyIsPrompt, RowTypes DEF PromptStore
  <2> QED
    BY <1>1, <2>1, <2>3
<1>3. CASE FindUser(r)
  <2> DEFINE u == mine[r].log[task[r].beat].user
             m == [mine[r] EXCEPT !.users[u] = db.users[u]]
             w == [task[r] EXCEPT !.pc = "confirm", !.who = u]
  <2>1. /\ GoOn(r, w) /\ Hold(r, m, m) /\ UNCHANGED <<clock, store>>
        /\ task[r].pc = "open"
    BY <1>3 DEF FindUser
  <2>2. m.log = mine[r].log
    BY <1>0 DEF Cache
  <2> HIDE DEF m, w
  <2>3. m.log = base[r].log
    BY <1>0, <2>1, <2>2 DEF OnRows
  <2> QED
    BY <1>0, <1>1, <2>1, <2>3 DEF PromptBase
<1>4. CASE \E u \in Users : OpenSettings(r, u)
  <2> PICK u \in Users : OpenSettings(r, u)
    BY <1>4
  <2> DEFINE m == [Empty EXCEPT !.users[u] = db.users[u]]
             w == [task[r] EXCEPT !.pc = "settings", !.who = u]
  <2>1. /\ GoOn(r, w) /\ Hold(r, m, m) /\ m.log = Empty.log
        /\ UNCHANGED <<clock, store>>
    BY DEF OpenSettings, Empty
  <2> HIDE DEF m, w
  <2> QED
    BY <1>1, <2>1, EmptyIsPrompt, RowTypes
<1> QED
    BY <1>2, <1>3, <1>4

LEMMA AnswerTime ==
    ASSUME TypeOK, RowInv, TimeInv, crashes = 0, NEW r \in Requests,
           \/ Confirm(r) \/ FinishTest(r)
           \/ \E body \in Bodies : SaveSettings(r, body)
    PROVE  TimeInv'
<1> USE DEF Sessions
<1>0. /\ mine[r] \in Cache /\ base[r] \in Cache /\ now \in Int
      /\ Held(now, base[r].log, mine[r].log, Seen(r).log, db.log)
    BY OwnRows
<1>1. ASSUME NEW m \in Cache, Commit(r, m), Close(r),
             UNCHANGED clock,
             Held(now, base[r].log, m.log, Seen(r).log, db.log)
      PROVE  TimeInv'
  <2>1. /\ GoOn(r, Idle) /\ Hold(r, Empty, Empty)
        /\ UNCHANGED <<now, up, crashes, ran>>
    BY <1>1 DEF Close, clock
  <2> QED
    BY <1>1, <2>1, IdleCovers, FlushTime
<1>2. CASE Confirm(r)
  <2>1. task[r].pc = "confirm"
    BY <1>2 DEF Confirm
  <2> QED
    BY <1>1, <1>2, <2>1, ResponseHeld DEF Confirm
<1>3. CASE FinishTest(r)
    BY <1>0, <1>1, <1>3 DEF FinishTest
<1>4. CASE \E body \in Bodies : SaveSettings(r, body)
  <2> PICK body \in Bodies : SaveSettings(r, body)
    BY <1>4
  <2> DEFINE m == Updated(r, body)
  <2>1. m \in Cache /\ m.log = mine[r].log
    BY <1>0, UpdatedType DEF Updated, Cache
  <2>2. Commit(r, m) /\ Close(r) /\ UNCHANGED clock
    BY DEF SaveSettings
  <2> HIDE DEF m
  <2> QED
    BY <1>0, <1>1, <2>1, <2>2
<1> QED
    BY <1>2, <1>3, <1>4

LEMMA TestTime ==
    ASSUME TypeOK, RowInv, TimeInv, crashes = 0, NEW r \in Requests,
           NEW u \in Users, SendTest(r, u)
    PROVE  TimeInv'
<1> USE DEF Sessions
<1> DEFINE b == MaxBeats + issued.test + 1
<1>0. /\ StoreInv /\ task[r].pc = "idle" => writer # r
      /\ PromptStore /\ PromptBase(r) /\ r # "checker"
      /\ Nobody \notin Sessions
    BY OwnRows, OwnTime, CheckInAssumption DEF Jobs
<1>1. /\ LockFree(r) /\ task[r].pc = "idle" /\ writer' = r
      /\ wal' = [db EXCEPT !.log[b] = NewBeat(u)]
      /\ UNCHANGED <<now, up, crashes, ran, db, mine, base>>
      /\ \E w : GoOn(r, w)
    BY DEF SendTest, Starts, Goto, clock
<1>2. b \notin Scheduled
  <2>1. MaxBeats \in Nat /\ issued.test \in Nat
    BY CheckInAssumption DEF TypeOK
  <2> QED
    BY <2>1 DEF Scheduled
<1>3. \A c \in Scheduled : wal'.log[c] = db.log[c]
    BY <1>1, <1>2, RowTypes DEF TypeOK, Database
<1>4. PromptStore'
    BY <1>0, <1>1, <1>3 DEF PromptStore, Fewer
<1>5. Sooner({r})
  <2>1. \A o \in Sessions \ {r} : Seen(o) = db /\ Seen(o)' = db
    BY <1>0, <1>1 DEF Seen, LockFree
  <2> QED
    BY <1>1, <2>1, FewerOrder DEF Sooner
<1>6. Hold(r, mine[r], base[r])
    BY <1>1, SameHold
<1> QED
    BY <1>0, <1>1, <1>4, <1>5, <1>6, TimeStep DEF PromptBase

LEMMA RequestTime ==
    ASSUME TypeOK, RowInv, TimeInv, crashes = 0, NEW r \in Requests,
           NewRequest(r) \/ Handle(r)
    PROVE  TimeInv'
BY OpenTime, AnswerTime, TestTime, AbortTime DEF NewRequest, Handle, Sessions

\* What is removed was settled.
LEMMA CleanupTime ==
    ASSUME TypeOK, RowInv, TimeInv, crashes = 0, Cleanup
    PROVE  TimeInv'
<1>0. /\ PromptStore /\ StoreInv /\ Nobody \notin Sessions
      /\ up /\ \A s \in Sessions, b \in Scheduled : Prompt(now, base[s].log[b])
      /\ "checker" \in ran => \A b \in Scheduled : ~ Late(now, db.log[b])
      /\ Covered(now, task["checker"], mine["checker"], base["checker"],
                 Seen("checker").log)
      /\ "checker" \in Sessions
    BY CheckInAssumption DEF TimeInv, RowInv, Sessions, Jobs
<1>1. /\ writer = Nobody /\ wal' = db'
      /\ UNCHANGED <<now, up, ran, crashes, writer, task, mine, base>>
    BY DEF Cleanup, clock
<1>2. ASSUME NEW b \in Scheduled
      PROVE  \/ db'.log[b] = db.log[b]
             \/ /\ db.log[b].status # "none"
                /\ db'.log[b] = [db.log[b] EXCEPT !.status = "deleted"]
    BY RowTypes DEF Cleanup, Old, TypeOK, Database
<1>3. ASSUME NEW b \in Scheduled
      PROVE  /\ Prompt(now, db'.log[b])
             /\ Late(now, db'.log[b]) => db'.log[b] = db.log[b]
  <2>1. Prompt(now, db.log[b]) /\ db.log[b] \in BeatRow
    BY <1>0, RowTypes DEF PromptStore
  <2>2. CASE db'.log[b] = db.log[b]
    BY <2>1, <2>2
  <2>3. CASE /\ db.log[b].status # "none"
             /\ db'.log[b] = [db.log[b] EXCEPT !.status = "deleted"]
    <3>1. /\ db'.log[b].status = "deleted"
          /\ db'.log[b].user = db.log[b].user
          /\ db'.log[b].sentAt = db.log[b].sentAt
          /\ db'.log[b].escAt = db.log[b].escAt
      BY <2>1, <2>3 DEF BeatRow
    <3> QED
      BY <2>1, <2>3, <3>1 DEF Prompt, Late
  <2> QED
    BY <1>2, <2>2, <2>3
<1>4. Fewer(now, db.log, db'.log)
    BY <1>3 DEF Fewer
<1>5. PromptStore'
    BY <1>1, <1>3, FewerOrder DEF PromptStore
<1>6. Seen("checker") = db /\ Seen("checker")' = db'
    BY <1>0, <1>1 DEF Seen
<1>7. Covered(now, task["checker"], mine["checker"], base["checker"], db'.log)
    BY <1>0, <1>4, <1>6 DEF Covered, Fewer
<1>8. "checker" \in ran => \A b \in Scheduled : ~ Late(now, db'.log[b])
    BY <1>0, <1>3
<1> QED
    BY <1>0, <1>1, <1>5, <1>6, <1>7, <1>8 DEF TimeInv

\* A row that is not late now may be late in an hour, but not for longer than
\* that.
LEMMA AnHourLater ==
    ASSUME NEW t \in Nat, NEW row \in BeatRow, Prompt(t, row), ~ Late(t, row)
    PROVE  Prompt(t + 1, row)
<1>0. Windows \subseteq Nat /\ row.sentAt \in Int /\ row.escAt \in Int
    BY WindowSet DEF BeatRow
<1>1. ASSUME NEW w \in Windows, NEW i \in Int, ~ (t > i + w)
      PROVE  t + 1 <= i + w + 1
    BY <1>0, <1>1
<1>2. row.status = "sent" => \E w \in Windows : t + 1 <= row.sentAt + w + 1
    BY <1>0, <1>1 DEF Late
<1>3. row.status = "escalated" /\ SeesVerdicts =>
          \E w \in Windows : t + 1 <= row.escAt + w + 1
    BY <1>0, <1>1 DEF Late
<1> QED
    BY <1>2, <1>3 DEF Prompt

\* Time passes only when the checker has been through, and nothing is late.
LEMMA TickTime ==
    ASSUME TypeOK, RowInv, TimeInv, crashes = 0, Tick
    PROVE  TimeInv'
<1>0. /\ PromptStore /\ StoreInv /\ Nobody \notin Sessions /\ now \in Nat
      /\ up /\ "checker" \in Sessions
      /\ "checker" \in ran => \A b \in Scheduled : ~ Late(now, db.log[b])
    BY CheckInAssumption, RowTypes DEF TimeInv, RowInv, Sessions, Jobs
<1>1. /\ "checker" \in ran /\ now' = now + 1 /\ ran' = {}
      /\ UNCHANGED <<up, crashes, db, wal, writer, task, mine, base>>
      /\ \A s \in Sessions : task[s].pc = "idle"
    BY <1>0 DEF Tick, store
<1>2. \A s \in Sessions : writer # s /\ mine[s] = Empty /\ base[s] = Empty
    BY <1>1 DEF RowInv, SessionInv, OnRows
<1>3. wal = db
    BY <1>0, <1>2 DEF TypeOK, StoreInv
<1>4. \A b \in Scheduled : Prompt(now', db.log[b])
    BY <1>0, <1>1, AnHourLater, RowTypes DEF PromptStore
<1>5. PromptStore'
    BY <1>1, <1>3, <1>4, FewerOrder DEF PromptStore
<1>6. \A s \in Sessions, b \in Scheduled : Prompt(now', base[s].log[b])
    BY <1>2, EmptyIsPrompt, RowTypes
<1>7. Covered(now', task["checker"], mine["checker"], base["checker"],
              Seen("checker")'.log)
    BY <1>0, <1>1 DEF Covered, InPass, OneUser
<1> QED
    BY <1>0, <1>1, <1>5, <1>6, <1>7 DEF TimeInv

LEMMA InitTime == Init => TimeInv
<1> SUFFICES ASSUME Init PROVE TimeInv
    OBVIOUS
<1>1. /\ \A b \in Scheduled : db.log[b] = NoBeat /\ wal.log[b] = NoBeat
      /\ wal = db
    BY CheckInAssumption DEF Init, Empty, Scheduled, Beats
<1>2. PromptStore
    BY <1>1, EmptyIsPrompt, FewerOrder DEF PromptStore
<1>3. "checker" \in Sessions /\ Scheduled \subseteq Beats
    BY CheckInAssumption DEF Sessions, Jobs, Scheduled, Beats
<1>4. /\ \A s \in Sessions : task[s] = Idle /\ base[s] = Empty
      /\ up /\ ran = {}
    BY DEF Init
<1>5. \A s \in Sessions, b \in Scheduled : Prompt(now, base[s].log[b])
    BY <1>3, <1>4, EmptyIsPrompt
<1> QED
    BY <1>2, <1>3, <1>4, <1>5, IdleCovers DEF TimeInv

\* Only a crash counts as one.
LEMMA CrashesAreCounted ==
    ASSUME TypeOK, [Next]_vars, crashes' = 0
    PROVE  crashes = 0
<1>1. CASE UNCHANGED vars
    BY <1>1 DEF vars
<1>2. CASE Crash
  <2>1. crashes \in Nat /\ crashes' = crashes + 1
    BY <1>2, CheckInAssumption DEF Crash, TypeOK
  <2> QED
    BY <2>1
<1>3. CASE Cleanup \/ Restart \/ Tick
    BY <1>3 DEF Cleanup, Restart, Tick, clock
<1>4. ASSUME NEW j \in Jobs, StartPass(j) \/ Pass(j)
      PROVE  crashes = 0
  <2>1. CASE \/ StartPass(j) \/ FlushEscalation(j) \/ CommitTrigger(j)
             \/ Deactivate(j) \/ NextUser(j) \/ CreateBeat(j)
             \/ FinishScan(j) \/ FinishPass(j) \/ Abort(j)
    BY <2>1 DEF StartPass, FlushEscalation, CommitTrigger, Deactivate, NextUser,
                CreateBeat, FinishScan, FinishPass, Abort, clock
  <2>2. CASE \/ \E u \in Users : Reschedule(j, u) \/ SelectExpired(j, u)
             \/ \E r \in Recipients, outcome \in Outcomes :
                    Deliver(j, r, outcome)
    BY <2>2 DEF Reschedule, SelectExpired, Deliver, clock
  <2>3. CASE \E b \in Beats : \/ Escalate(j, b) \/ RaiseTypeError(j, b)
                             \/ Leave(j, b) \/ Miss(j, b) \/ Notify(j, b)
    BY <2>3 DEF Escalate, RaiseTypeError, Leave, Miss, Notify, clock
  <2> QED
    BY <1>4, <2>1, <2>2, <2>3 DEF Pass
<1>5. ASSUME NEW r \in Requests, NewRequest(r) \/ Handle(r)
      PROVE  crashes = 0
    BY <1>5 DEF NewRequest, Handle, OpenLink, OpenSettings, SendTest, FindUser,
                Confirm, FinishTest, SaveSettings, Abort, clock
<1> QED
    BY <1>1, <1>2, <1>3, <1>4, <1>5 DEF Next

LEMMA NothingStaysLate ==
    TimestampsAware /\ SeesEscalations => (Spec => []TimeInv)
<1> SUFFICES ASSUME TimestampsAware, SeesEscalations
             PROVE  Spec => []TimeInv
    OBVIOUS
<1>1. TypeOK /\ TypeOK' /\ OnTask /\ ConfigInv /\ RowInv /\ TimeInv
          /\ [Next]_vars => TimeInv'
  <2> SUFFICES ASSUME TypeOK, TypeOK', OnTask, ConfigInv, RowInv, TimeInv,
                      [Next]_vars, crashes' = 0
               PROVE  TimeInv'
    BY DEF TimeInv
  <2>1. crashes = 0
    BY CrashesAreCounted
  <2>2. CASE UNCHANGED vars
    BY <2>1, <2>2 DEF vars, TimeInv, PromptStore, Seen
  <2>3. CASE \E j \in Jobs : StartPass(j) \/ Pass(j)
    BY <2>1, <2>3, PassTime
  <2>4. CASE \E r \in Requests : NewRequest(r) \/ Handle(r)
    BY <2>1, <2>4, RequestTime
  <2>5. CASE Crash \/ Restart
    <3>1. crashes + 1 # 0
      BY <2>1
    <3> QED
      BY <2>1, <2>5, <3>1 DEF Crash, Restart, TimeInv
  <2>6. CASE Cleanup \/ Tick
    BY <2>1, <2>6, CleanupTime, TickTime
  <2> QED
    BY <2>2, <2>3, <2>4, <2>5, <2>6 DEF Next
<1>2. Spec => []Inv
    BY InitType, InvStep, PTL DEF Spec, Inv
<1>3. Inv => TypeOK /\ OnTask
    BY DEF Inv
<1> QED
    BY <1>1, <1>2, <1>3, InitTime, ConfigsAreChosen, RowsAgree, PTL DEF Spec

\* For any constants with which the checker looks back far enough: if the
\* database returns aware datetimes, an unanswered heartbeat is escalated within
\* an hour of its window, that of a paused user as well, whichever passes were
\* rolled back or overtaken (check_escalations).  The shipped build does not
\* return them: there, the TypeError of an older heartbeat of the user may come
\* before the escalation.
THEOREM EscalationsAreInTime ==
    TimestampsAware /\ SeesEscalations => (Spec => []EscalatedInTime)
<1> SUFFICES ASSUME TimestampsAware, SeesEscalations
             PROVE  Spec => []EscalatedInTime
    OBVIOUS
<1>1. TimeInv => EscalatedInTime
    BY DEF TimeInv, PromptStore, Prompt, EscalatedInTime
<1> QED
    BY <1>1, NothingStaysLate, PTL

\* No heartbeat has ever been counted as missed, and no recipient mailed.
NobodyIsJudged == /\ counted = {}
                  /\ \A r \in Recipients : mailed[r] = 0

Unjudged == ~ TimestampsAware =>
                NobodyIsJudged /\ \A j \in Jobs : ~ Firing(j)

\* A session goes on without counting a miss or starting the trigger.
LEMMA StillUnjudged ==
    ASSUME TypeOK, Unjudged, NEW s \in Sessions, NEW w, GoOn(s, w),
           w.pc \notin {"trigger", "deactivate"},
           UNCHANGED <<counted, mailed>>
    PROVE  Unjudged'
BY DEF Unjudged, NobodyIsJudged, Firing, GoOn, TypeOK

LEMMA PassUnjudged ==
    ASSUME TypeOK, ~ TimestampsAware, Unjudged, NEW j \in Jobs,
           StartPass(j) \/ Pass(j)
    PROVE  Unjudged'
<1> USE DEF Sessions
<1> DEFINE t == task[j]
<1>0. t \in Task
    BY DEF TypeOK
<1>1. /\ \A b \in Beats : ~ Miss(j, b)
      /\ \A r \in Recipients, outcome \in Outcomes : ~ Deliver(j, r, outcome)
      /\ ~ CommitTrigger(j) /\ ~ Deactivate(j)
    BY DEF Miss, Missable, Deliver, CommitTrigger, Deactivate, Unjudged, Firing
<1>2. ASSUME NEW w, GoOn(j, w), w.pc \notin {"trigger", "deactivate"},
             UNCHANGED <<counted, mailed>>
      PROVE  Unjudged'
    BY <1>2, StillUnjudged
<1>3. CASE StartPass(j)
  <2> DEFINE S == IF j = "dispatcher" THEN Due ELSE Outstanding
             w == [t EXCEPT !.pc = "scan", !.queue = S, !.loaded = S]
  <2>1. GoOn(j, w) /\ w.pc = "scan" /\ UNCHANGED <<counted, mailed>>
    BY <1>0, <1>3 DEF StartPass, Task, world
  <2> HIDE DEF w
  <2> QED
    BY <1>2, <2>1
<1>4. CASE \E u \in Users : Reschedule(j, u) \/ SelectExpired(j, u)
  <2> PICK u \in Users : Reschedule(j, u) \/ SelectExpired(j, u)
    BY <1>4
  <2>1. PICK w : /\ GoOn(j, w) /\ w.pc \in {"scan", "check"}
                 /\ UNCHANGED <<counted, mailed>>
    <3> DEFINE found == Expired(Merged(j, mine[j]).log, u,
                                mine[j].users[u].config.window)
               x == [t EXCEPT !.queue = @ \ {u}]
               y == [t EXCEPT !.pc = "check", !.who = u, !.rest = found,
                              !.queue = @ \ {u}]
    <3>1. /\ Reschedule(j, u) => GoOn(j, x) /\ x.pc = "scan"
          /\ SelectExpired(j, u) => GoOn(j, y) /\ y.pc = "check"
          /\ UNCHANGED <<counted, mailed>>
      BY <1>0 DEF Reschedule, SelectExpired, Task, world
    <3> HIDE DEF x, y
    <3> QED
      BY <3>1
  <2> QED
    BY <1>2, <2>1
<1>5. CASE \E b \in Beats : \/ Escalate(j, b) \/ RaiseTypeError(j, b)
                            \/ Leave(j, b) \/ Notify(j, b)
  <2> PICK b \in Beats : \/ Escalate(j, b) \/ RaiseTypeError(j, b)
                         \/ Leave(j, b) \/ Notify(j, b)
    BY <1>5
  <2>1. PICK w : /\ GoOn(j, w) /\ w.pc \in {"mail", "scan", "check", "notify",
                                            "idle"}
                 /\ UNCHANGED <<counted, mailed>>
    <3> DEFINE x == [t EXCEPT !.pc = "mail", !.rest = @ \ {b}]
               y == [t EXCEPT !.pc = "scan", !.who = Nobody, !.rest = {}]
               z == [t EXCEPT !.rest = @ \ {b}]
               n == IF t.pend = {b} THEN Idle
                    ELSE [t EXCEPT !.pend = @ \ {b}]
    <3>1. /\ Escalate(j, b) => GoOn(j, x) /\ x.pc = "mail"
          /\ RaiseTypeError(j, b) => GoOn(j, y) /\ y.pc = "scan"
          /\ Leave(j, b) => GoOn(j, z) /\ z.pc = "check"
          /\ Notify(j, b) => GoOn(j, n) /\ n.pc \in {"notify", "idle"}
      BY <1>0 DEF Escalate, RaiseTypeError, Leave, Checking, Notify, Task, Idle
    <3>2. UNCHANGED <<counted, mailed>>
      BY DEF Escalate, RaiseTypeError, Leave, Notify, world
    <3> HIDE DEF x, y, z, n
    <3> QED
      BY <3>1, <3>2
  <2> QED
    BY <1>2, <2>1
<1>6. CASE \/ FlushEscalation(j) \/ NextUser(j) \/ CreateBeat(j)
           \/ FinishScan(j) \/ FinishPass(j) \/ Abort(j)
  <2>1. PICK w : /\ GoOn(j, w) /\ w.pc \in {"scan", "check", "commit", "notify",
                                            "idle"}
                 /\ UNCHANGED <<counted, mailed>>
    <3> DEFINE c == [t EXCEPT !.pc = "check"]
               x == [t EXCEPT !.pc = "scan", !.who = Nobody]
               y == [t EXCEPT !.pc = "scan", !.who = Nobody,
                              !.pend = @ \cup {issued.real + 1}]
               z == [t EXCEPT !.pc = "commit"]
               n == IF t.pend = {} THEN Idle
                    ELSE [Idle EXCEPT !.pc = "notify", !.pend = t.pend]
    <3>1. /\ FlushEscalation(j) => GoOn(j, c) /\ c.pc = "check"
          /\ NextUser(j) => GoOn(j, x) /\ x.pc = "scan"
          /\ CreateBeat(j) => GoOn(j, y) /\ y.pc = "scan"
          /\ FinishScan(j) => GoOn(j, z) /\ z.pc = "commit"
          /\ FinishPass(j) => GoOn(j, n) /\ n.pc \in {"notify", "idle"}
          /\ Abort(j) => GoOn(j, Idle) /\ Idle.pc = "idle"
      BY <1>0 DEF FlushEscalation, NextUser, CreateBeat, FinishScan, FinishPass,
                  Abort, Close, Goto, Task, Idle
    <3>2. UNCHANGED <<counted, mailed>>
      BY <1>6 DEF FlushEscalation, NextUser, CreateBeat, FinishScan, FinishPass,
                  Abort, world
    <3> HIDE DEF c, x, y, z, n
    <3> QED
      BY <1>6, <3>1, <3>2
  <2> QED
    BY <1>2, <2>1
<1> QED
    BY <1>1, <1>3, <1>4, <1>5, <1>6 DEF Pass

LEMMA NobodyIsEverJudged == Spec => []Unjudged
<1>1. Init => Unjudged
    BY DEF Init, Unjudged, NobodyIsJudged, Firing, Idle, Sessions
<1>2. TypeOK /\ Unjudged /\ [Next]_vars => Unjudged'
  <2> SUFFICES ASSUME TypeOK, Unjudged, [Next]_vars, ~ TimestampsAware
               PROVE  Unjudged'
    BY DEF Unjudged
  <2>1. CASE UNCHANGED vars
    BY <2>1 DEF vars, Unjudged, NobodyIsJudged, Firing
  <2>2. CASE \E j \in Jobs : StartPass(j) \/ Pass(j)
    BY <2>2, PassUnjudged
  <2>3. CASE \E r \in Requests : NewRequest(r) \/ Handle(r)
    <3> PICK r \in Requests : NewRequest(r) \/ Handle(r)
      BY <2>3
    <3>1. UNCHANGED <<counted, mailed>>
      BY DEF NewRequest, Handle, OpenLink, OpenSettings, SendTest, FindUser,
             Confirm, FinishTest, SaveSettings, Abort, world
    <3>2. PICK w : GoOn(r, w)
      BY DEF NewRequest, Handle, OpenLink, OpenSettings, SendTest, FindUser,
             Confirm, FinishTest, SaveSettings, Abort, Close, Goto
    <3>3. \A j \in Jobs : task'[j] = task[j]
      BY <3>2, CheckInAssumption DEF GoOn, TypeOK, Sessions
    <3> QED
      BY <3>1, <3>3 DEF Unjudged, NobodyIsJudged, Firing
  <2>4. CASE Cleanup \/ Crash \/ Restart \/ Tick
    BY <2>4 DEF Cleanup, Crash, Restart, Tick, world, Unjudged, NobodyIsJudged,
                Firing, Idle, Sessions
  <2> QED
    BY <2>1, <2>2, <2>3, <2>4 DEF Next
<1> QED
    BY <1>1, <1>2, TypeCorrect, PTL DEF Spec

\* For any constants with which the checker still sees a heartbeat when its
\* second window ends: where the database returns aware datetimes, an unanswered
\* heartbeat is settled within two windows and two hours.  In the shipped build
\* SQLite returns naive ones, and no unanswered heartbeat is ever settled: none
\* is counted as missed, and the recipients are never mailed, whatever happens
\* (check_escalations, _check_outstanding_heartbeats).
THEOREM VerdictsAreInTime ==
    SeesVerdicts =>
        (Spec => [](IF TimestampsAware THEN VerdictInTime ELSE NobodyIsJudged))
<1> SUFFICES ASSUME SeesVerdicts
             PROVE  Spec => [](IF TimestampsAware THEN VerdictInTime
                                                  ELSE NobodyIsJudged)
    OBVIOUS
<1>1. SeesEscalations
  <2>1. \A w \in Nat : 2 * (w + 1) < Horizon => w + 1 < Horizon
    BY CheckInAssumption
  <2> QED
    BY <2>1, WindowSet DEF SeesEscalations, SeesVerdicts
<1>2. TypeOK /\ RowInv /\ TimeInv => VerdictInTime
  <2> SUFFICES ASSUME TypeOK, RowInv, TimeInv, crashes = 0,
                      NEW b \in Scheduled, Open(db.log[b])
               PROVE  \E w \in Windows : now <= db.log[b].sentAt + 2 * (w + 1)
    BY DEF VerdictInTime
  <2> DEFINE row == db.log[b]
  <2>0. /\ Prompt(now, row) /\ Timely(now, row) /\ row \in BeatRow
        /\ now \in Nat /\ Windows \subseteq Nat
    BY WindowSet, RowTypes DEF TimeInv, PromptStore, RowInv, StoreInv, Stored
  <2>1. row.sentAt \in Int /\ row.escAt \in Int
    BY <2>0 DEF BeatRow
  <2>2. CASE row.status = "sent"
    <3>1. PICK w \in Windows : now <= row.sentAt + w + 1
      BY <2>0, <2>2 DEF Prompt
    <3>2. now <= row.sentAt + 2 * (w + 1)
      BY <2>0, <2>1, <3>1
    <3> QED
      BY <3>2
  <2>3. CASE row.status = "escalated"
    <3>1. row.escAt # Never
      BY <2>0, <2>3 DEF Timely
    <3>2. PICK v \in Windows : row.escAt <= row.sentAt + v + 1
      BY <2>0, <3>1 DEF Prompt
    <3>3. PICK w \in Windows : now <= row.escAt + w + 1
      BY <2>0, <2>3 DEF Prompt
    <3>4. v \in Nat /\ w \in Nat
      BY <2>0
    <3>5. CASE v <= w
      <4>1. now <= row.sentAt + 2 * (w + 1)
        BY <2>0, <2>1, <3>2, <3>3, <3>4, <3>5
      <4> QED
        BY <4>1
    <3>6. CASE w < v
      <4>1. now <= row.sentAt + 2 * (v + 1)
        BY <2>0, <2>1, <3>2, <3>3, <3>4, <3>6
      <4> QED
        BY <4>1
    <3> QED
      BY <3>4, <3>5, <3>6
  <2> QED
    BY <2>2, <2>3 DEF Open
<1>3. Spec => []RowInv /\ []TypeOK
    BY RowsAgree, TypeCorrect, PTL
<1>4. CASE TimestampsAware
  <2>1. TypeOK /\ RowInv /\ TimeInv =>
            IF TimestampsAware THEN VerdictInTime ELSE NobodyIsJudged
    BY <1>2, <1>4
  <2> QED
    BY <1>1, <1>3, <1>4, <2>1, NothingStaysLate, PTL
<1>5. CASE ~ TimestampsAware
  <2>1. Unjudged => IF TimestampsAware THEN VerdictInTime ELSE NobodyIsJudged
    BY <1>5 DEF Unjudged
  <2> QED
    BY <2>1, NobodyIsEverJudged, PTL
<1> QED
    BY <1>4, <1>5

-----------------------------------------------------------------------------
(* Answers, where the database returns naive datetimes.  No verdict is     *)
(* ever reached there, so a heartbeat that a session has found unanswered  *)
(* is unanswered still, or was answered in this hour.                      *)

Pending ==
    {b \in Beats : \/ Open(db.log[b])
                   \/ db.log[b].user \in Users =>
                          db.users[db.log[b].user].last >= now}

\* Work w on the rows m, loaded as x, when the heartbeats P are pending.
Unsettled(w, m, x, P, users) ==
    /\ \A u \in Users : m.users[u].last = x.users[u].last
    /\ \A b \in Beats : /\ m.log[b].status \in {x.log[b].status, "escalated"}
                        /\ Open(x.log[b]) => b \in P
    /\ w.pc = "confirm" =>
           /\ w.who = x.log[w.beat].user
           /\ w.who \in Users => x.users[w.who].last <= users[w.who].last

AnswerStore ==
    /\ \A u \in Users : /\ wal.users[u].last = db.users[u].last
                        /\ db.users[u].last <= now
    /\ \A b \in Beats : /\ Open(db.log[b]) => Open(wal.log[b])
                        /\ Open(wal.log[b]) => b \in Pending

AnswerInv ==
    ~ TimestampsAware =>
        /\ AnswerStore
        /\ \A s \in Sessions :
               Unsettled(task[s], mine[s], base[s], Pending, db.users)

\* A step that leaves pending what was, and answers in this hour if at all.
Waiting == /\ Pending \subseteq Pending'
           /\ \A u \in Users : db'.users[u].last \in {db.users[u].last, now}
           /\ \A b \in Beats : db.log[b].user \in Users =>
                                 db'.log[b].user = db.log[b].user

LEMMA AnswerTypes ==
    ASSUME TypeOK
    PROVE  /\ now \in Nat
           /\ \A u \in Users :
                  /\ db.users[u].last \in Int /\ wal.users[u].last \in Int
                  /\ \A s \in Sessions :
                         /\ Seen(s).users[u] \in UserRow
                         /\ mine[s].users[u] \in UserRow
                         /\ base[s].users[u] \in UserRow
                         /\ Seen(s).users[u].last \in Int
                         /\ mine[s].users[u].last \in Int
                         /\ base[s].users[u].last \in Int
BY RowTypes DEF TypeOK, Database, Cache, UserRow, Seen

\* The others keep what they know.
LEMMA UnsettledStays ==
    ASSUME TypeOK, TypeOK', AnswerStore, Waiting, NEW s \in Sessions,
           Unsettled(task[s], mine[s], base[s], Pending, db.users)
    PROVE  Unsettled(task[s], mine[s], base[s], Pending', db'.users)
<1>1. ASSUME NEW u \in Users, base[s].users[u].last <= db.users[u].last
      PROVE  base[s].users[u].last <= db'.users[u].last
  <2>1. db'.users[u].last \in {db.users[u].last, now}
    BY DEF Waiting
  <2>2. db.users[u].last <= now
    BY DEF AnswerStore
  <2> QED
    BY <1>1, <2>1, <2>2, AnswerTypes
<1>2. \A b \in Beats : Open(base[s].log[b]) => b \in Pending'
    BY DEF Unsettled, Waiting
<1> QED
    BY <1>1, <1>2 DEF Unsettled

\* What is left to prove of a step of s that takes it to w.
LEMMA AnswerStep ==
    ASSUME TypeOK, TypeOK', ~ TimestampsAware, AnswerInv, NEW s \in Sessions,
           NEW w, NEW m, NEW x, GoOn(s, w), Hold(s, m, x),
           AnswerStore', Waiting, Unsettled(w, m, x, Pending', db'.users)
    PROVE  AnswerInv'
<1>1. /\ task'[s] = w /\ mine'[s] = m /\ base'[s] = x
      /\ \A o \in Sessions \ {s} : /\ task'[o] = task[o]
                                   /\ mine'[o] = mine[o]
                                   /\ base'[o] = base[o]
    BY DEF GoOn, Hold, TypeOK
<1>2. ASSUME NEW o \in Sessions
      PROVE  Unsettled(task'[o], mine'[o], base'[o], Pending', db'.users)
  <2>1. CASE o = s
    BY <1>1, <2>1
  <2>2. CASE o # s
    <3>1. Unsettled(task[o], mine[o], base[o], Pending', db'.users)
      BY UnsettledStays DEF AnswerInv
    <3> QED
      BY <1>1, <2>2, <3>1
  <2> QED
    BY <2>1, <2>2
<1> QED
    BY <1>2 DEF AnswerInv

\* What a session in progress knows of the answers.
LEMMA OwnAnswers ==
    ASSUME TypeOK, RowInv, ~ TimestampsAware, AnswerInv, NEW s \in Sessions
    PROVE  /\ AnswerStore /\ StoreInv /\ now \in Nat
           /\ Unsettled(task[s], mine[s], base[s], Pending, db.users)
           /\ Held(now, base[s].log, mine[s].log, Seen(s).log, db.log)
           /\ \A b \in Beats : Open(mine[s].log[b]) => b \in Pending
<1>1. /\ AnswerStore /\ StoreInv
      /\ Unsettled(task[s], mine[s], base[s], Pending, db.users)
      /\ Held(now, base[s].log, mine[s].log, Seen(s).log, db.log)
    BY OwnRows DEF AnswerInv
<1>2. ASSUME NEW b \in Beats, Open(mine[s].log[b])
      PROVE  b \in Pending
  <2> DEFINE x == base[s].log[b]
             y == mine[s].log[b]
  <2>1. x = y \/ Written(now, x, y)
    BY <1>1 DEF Held, Copied
  <2>2. x \in BeatRow
    BY RowTypes
  <2> HIDE DEF x, y
  <2>3. Open(y) => Open(x)
    BY <2>1, <2>2 DEF Written, Open, BeatRow
  <2> QED
    BY <1>1, <1>2, <2>3 DEF Unsettled, x, y
<1> QED
    BY <1>1, <1>2, RowTypes

\* A step that leaves the database alone.
LEMMA QuietAnswer ==
    ASSUME TypeOK, TypeOK', RowInv, ~ TimestampsAware, AnswerInv,
           NEW s \in Sessions, NEW w, NEW m, NEW x, GoOn(s, w), Hold(s, m, x),
           UNCHANGED <<now, store>>, Unsettled(w, m, x, Pending, db.users)
    PROVE  AnswerInv' /\ Waiting
<1>1. UNCHANGED <<now, db, wal>>
    BY DEF store
<1>2. Pending' = Pending /\ Waiting
    BY <1>1 DEF Pending, Waiting
<1>3. AnswerStore'
    BY <1>1, <1>2 DEF AnswerInv, AnswerStore
<1> QED
    BY <1>1, <1>2, <1>3, AnswerStep

\* What of the rows m a session may write without anybody answering.
Unanswering(s, m) ==
    /\ \A u \in Users : m.users[u].last = base[s].users[u].last
    /\ \A b \in Beats : m.log[b].status \in {base[s].log[b].status, "escalated"}

\* What becomes of a row into which such rows are flushed.
LEMMA MergedAnswer ==
    ASSUME TypeOK, RowInv, AnswerStore, NEW s \in Sessions, NEW m \in Cache,
           Held(now, base[s].log, m.log, Seen(s).log, db.log), NEW b \in Beats,
           m.log[b].status \in {base[s].log[b].status, "escalated"},
           Open(base[s].log[b]) => b \in Pending
    PROVE  LET new == Merged(s, m).log[b]
           IN  /\ new.user = Seen(s).log[b].user
               /\ Open(db.log[b]) => Open(new)
               /\ Open(new) => b \in Pending
<1> DEFINE new == Merged(s, m).log[b]
           row == Seen(s).log[b]
           x   == base[s].log[b]
           y   == m.log[b]
<1>1. /\ new.user = row.user
      /\ new.status = Column(row.status, x.status, y.status)
    BY MergedBeat
<1>2. new.status \in {row.status, "escalated"}
    BY <1>1 DEF Column
<1>3. /\ Open(db.log[b]) => Open(row)
      /\ Open(row) => b \in Pending
    BY DEF AnswerStore, Seen, Pending
<1>4. y.status # x.status => Open(x)
  <2>1. x = y \/ Written(now, x, y)
    BY DEF Held, Copied
  <2>2. x \in BeatRow
    BY RowTypes
  <2> QED
    BY <2>1, <2>2 DEF Written, Open
<1> HIDE DEF new, row, x, y
<1>5. Open(db.log[b]) => Open(new)
    BY <1>2, <1>3 DEF Open
<1>6. Open(new) => b \in Pending
    BY <1>1, <1>3, <1>4 DEF Column, Open, x
<1> QED
    BY <1>1, <1>5, <1>6 DEF new, row

\* The user of a row that somebody was sent stays the same.
LEMMA OwnerStays ==
    ASSUME TypeOK, StoreInv, NEW b \in Beats,
           Later(now, db.log[b], db'.log[b]), db.log[b].user \in Users
    PROVE  db'.log[b].user = db.log[b].user
<1>1. db.log[b].status # "none"
    BY CheckInAssumption DEF StoreInv, Stored, Timely, NoBeat
<1> QED
    BY <1>1 DEF Later

LEMMA StoredAgain ==
    ASSUME StoreInv, NEW b \in Beats
    PROVE  Stored(now, db.log[b], db.log[b])
BY LaterOrder DEF StoreInv, Stored, Timely

\* What becomes of a pending heartbeat when its row is replaced by a later one.
LEMMA PendingStays ==
    ASSUME TypeOK, StoreInv, UNCHANGED now, NEW b \in Pending,
           Stored(now, db.log[b], db'.log[b]),
           \A u \in Users : db'.users[u].last \in {db.users[u].last, now},
           Open(db.log[b]) => Open(db'.log[b])
    PROVE  b \in Pending'
<1>0. b \in Beats /\ now \in Nat
    BY RowTypes DEF Pending
<1>1. CASE Open(db.log[b])
    BY <1>0, <1>1 DEF Pending
<1>2. CASE db.log[b].user \in Users
  <2>1. db'.log[b].user = db.log[b].user
    BY <1>0, <1>2, OwnerStays DEF Stored
  <2> QED
    BY <1>0, <1>1, <1>2, <2>1 DEF Pending
<1>3. CASE db.log[b].user \notin Users /\ db.log[b].status # "none"
  <2>1. db'.log[b].user = db.log[b].user
    BY <1>3 DEF Stored, Later
  <2> QED
    BY <1>0, <1>3, <2>1 DEF Pending
<1>4. CASE db.log[b].status = "none"
  <2>1. db'.log[b].user \notin Users \/ Open(db'.log[b])
    BY <1>4, CheckInAssumption DEF Stored, NoBeat, Open
  <2> QED
    BY <1>0, <2>1 DEF Pending
<1> QED
    BY <1>1, <1>2, <1>3, <1>4

\* A flush or a commit of such rows.
LEMMA WriteAnswer ==
    ASSUME TypeOK, RowInv, ~ TimestampsAware, AnswerInv, NEW s \in Sessions,
           NEW m \in Cache, Unanswering(s, m),
           Held(now, base[s].log, m.log, Seen(s).log, db.log),
           Flush(s, m) \/ Commit(s, m), UNCHANGED <<now, issued>>
    PROVE  AnswerStore' /\ Waiting
<1> DEFINE new == Merged(s, m)
<1>0. /\ AnswerStore /\ StoreInv
      /\ Unsettled(task[s], mine[s], base[s], Pending, db.users)
    BY OwnAnswers
<1>1. \A b \in Beats : /\ new.log[b].user = Seen(s).log[b].user
                       /\ Open(db.log[b]) => Open(new.log[b])
                       /\ Open(new.log[b]) => b \in Pending
    BY <1>0, MergedAnswer DEF Unanswering, Unsettled
<1>2. \A u \in Users : new.users[u].last = db.users[u].last
  <2> TAKE u \in Users
  <2>1. new.users[u].last = Column(Seen(s).users[u].last,
                                   base[s].users[u].last, m.users[u].last)
    BY DEF Merged, MergeUser
  <2>2. Seen(s).users[u].last = db.users[u].last
    BY <1>0 DEF Seen, AnswerStore
  <2> QED
    BY <2>1, <2>2 DEF Unanswering, Column
<1>3. \/ UNCHANGED store
      \/ LockFree(s) /\ wal' = new /\ db' \in {db, new}
    BY DEF Flush, Commit, MayWrite
<1>4. Grown({s})
    BY <1>0, WriteStep
<1> HIDE DEF new
<1>5. CASE UNCHANGED store
  <2>1. UNCHANGED <<now, db, wal>>
    BY <1>5 DEF store
  <2>2. Pending' = Pending /\ Waiting
    BY <2>1 DEF Pending, Waiting
  <2> QED
    BY <1>0, <2>1, <2>2 DEF AnswerStore
<1>6. CASE LockFree(s) /\ wal' = new /\ db' \in {db, new}
  <2>1. \A u \in Users : /\ db'.users[u].last = db.users[u].last
                         /\ wal'.users[u].last = db.users[u].last
    BY <1>2, <1>6
  <2>2. ASSUME NEW b \in Pending
        PROVE  b \in Pending'
    <3>1. b \in Beats
      BY DEF Pending
    <3>2. Stored(now, db.log[b], db.log[b]) /\ Stored(now, db.log[b], new.log[b])
      BY <1>0, <1>6, <3>1, MergedStored, StoredAgain DEF new
    <3> QED
      BY <1>0, <1>1, <1>6, <2>1, <3>1, <3>2, PendingStays
  <2>3. Waiting
    BY <1>0, <1>4, <2>1, <2>2, OwnerStays DEF Waiting, Grown
  <2>4. AnswerStore'
    BY <1>0, <1>1, <1>6, <2>1, <2>2 DEF AnswerStore
  <2> QED
    BY <2>3, <2>4
<1> QED
    BY <1>3, <1>5, <1>6

\* A step that flushes or commits such rows m, and goes on with rows of which it
\* knows what it knew of m.
LEMMA FlushAnswer ==
    ASSUME TypeOK, TypeOK', RowInv, ~ TimestampsAware, AnswerInv,
           NEW s \in Sessions, NEW m \in Cache, Unanswering(s, m),
           Held(now, base[s].log, m.log, Seen(s).log, db.log),
           Flush(s, m) \/ Commit(s, m), UNCHANGED <<now, issued>>,
           NEW w, NEW h, NEW x, GoOn(s, w), Hold(s, h, x), w.pc # "confirm",
           \A u \in Users : h.users[u].last = x.users[u].last,
           \A b \in Beats : /\ h.log[b] = x.log[b]
                            /\ \/ x.log[b] \in {m.log[b], NoBeat}
                               \/ x.log[b] = Seen(s)'.log[b]
    PROVE  AnswerInv' /\ Waiting
<1>1. AnswerStore' /\ Waiting
    BY WriteAnswer
<1>2. ASSUME NEW b \in Beats, Open(x.log[b])
      PROVE  b \in Pending'
  <2>1. CASE x.log[b] = m.log[b]
    <3>1. x.log[b].status # base[s].log[b].status => Open(base[s].log[b])
      <4>1. base[s].log[b] \in BeatRow
        BY RowTypes
      <4> QED
        BY <2>1, <4>1 DEF Held, Copied, Written, Open
    <3>2. Open(base[s].log[b])
      BY <1>2, <3>1 DEF Open
    <3> QED
      BY <1>1, <3>2, OwnAnswers DEF Unsettled, Waiting
  <2>2. CASE x.log[b] = Seen(s)'.log[b]
    BY <1>1, <1>2, <2>2 DEF AnswerStore, Seen, Pending
  <2>3. CASE x.log[b] = NoBeat
    BY <1>2, <2>3 DEF NoBeat, Open
  <2> QED
    BY <2>1, <2>2, <2>3
<1>3. Unsettled(w, h, x, Pending', db'.users)
    BY <1>2 DEF Unsettled
<1> QED
    BY <1>1, <1>3, AnswerStep

LEMMA EmptyAnswers ==
    ASSUME NEW w, w.pc # "confirm", NEW P, NEW users
    PROVE  Unsettled(w, Empty, Empty, P, users)
BY DEF Unsettled, Empty, NoBeat, Open

\* What a session holds when it has not touched a heartbeat, it may write.
LEMMA OwnWrite ==
    ASSUME TypeOK, RowInv, ~ TimestampsAware, AnswerInv, NEW s \in Sessions
    PROVE  Unanswering(s, mine[s])
BY OwnAnswers DEF Unsettled, Unanswering

-----------------------------------------------------------------------------
(* The steps, answer by answer.                                            *)

LEMMA SchedulingLast ==
    ASSUME NEW users \in [Users -> UserRow], NEW S, NEW u \in Users
    PROVE  Scheduling(users, S)[u].last = users[u].last
BY DEF Scheduling, UserRow

LEMMA TaskAnswer ==
    ASSUME TypeOK, TypeOK', RowInv, ~ TimestampsAware, AnswerInv, NEW j \in Jobs,
           \/ StartPass(j) \/ \E u \in Users : Reschedule(j, u)
           \/ \E b \in Beats : \/ RaiseTypeError(j, b) \/ Leave(j, b)
                               \/ Notify(j, b) \/ Escalate(j, b)
           \/ NextUser(j)
    PROVE  AnswerInv' /\ Waiting
<1> USE DEF Sessions
<1> DEFINE t == task[j]
           x == base[j]
<1>0. /\ t \in Task /\ mine[j] \in Cache /\ x \in Cache
      /\ Unsettled(t, mine[j], x, Pending, db.users)
    BY OwnRows, OwnAnswers
<1>1. CASE StartPass(j)
  <2>1. PICK w, m : /\ GoOn(j, w) /\ Hold(j, m, m) /\ w.pc = "scan"
                    /\ m.log = Empty.log /\ UNCHANGED <<now, store>>
    BY <1>0, <1>1 DEF StartPass, Task, Empty, clock
  <2>2. Unsettled(w, m, m, Pending, db.users)
    BY <2>1 DEF Unsettled, Empty, NoBeat, Open
  <2> QED
    BY <2>1, <2>2, QuietAnswer
<1>2. CASE \E u \in Users : Reschedule(j, u)
  <2> PICK u \in Users : Reschedule(j, u)
    BY <1>2
  <2> DEFINE m == [mine[j] EXCEPT !.users = Scheduling(@, {u})]
             w == [t EXCEPT !.queue = @ \ {u}]
  <2>1. /\ w.pc = "scan" /\ GoOn(j, w) /\ mine' = [mine EXCEPT ![j] = m]
        /\ UNCHANGED <<now, store, base>>
    BY <1>0 DEF Reschedule, Task, clock
  <2>2. /\ m.log = mine[j].log
        /\ \A v \in Users : m.users[v].last = mine[j].users[v].last
    BY <1>0, SchedulingLast DEF Cache
  <2> HIDE DEF m, w
  <2>3. Hold(j, m, x)
    BY <2>1, SameHold
  <2>4. Unsettled(w, m, x, Pending, db.users)
    BY <1>0, <2>1, <2>2 DEF Unsettled
  <2> QED
    BY <2>1, <2>3, <2>4, QuietAnswer
<1>3. CASE \E b \in Beats : Escalate(j, b)
  <2> PICK b \in Beats : Escalate(j, b)
    BY <1>3
  <2> DEFINE m == Escalated(j, b)
             w == [t EXCEPT !.pc = "mail", !.rest = @ \ {b}]
  <2>1. /\ w.pc = "mail" /\ GoOn(j, w) /\ mine' = [mine EXCEPT ![j] = m]
        /\ UNCHANGED <<now, store, base>>
    BY <1>0 DEF Escalate, Task, clock
  <2>2. /\ m.users = mine[j].users
        /\ \A c \in Beats : m.log[c].status \in {mine[j].log[c].status,
                                                 "escalated"}
    BY <1>0 DEF Escalated, Cache, BeatRow
  <2> HIDE DEF m, w
  <2>3. Hold(j, m, x)
    BY <2>1, SameHold
  <2>4. Unsettled(w, m, x, Pending, db.users)
    BY <1>0, <2>1, <2>2 DEF Unsettled
  <2> QED
    BY <2>1, <2>3, <2>4, QuietAnswer
<1>4. CASE \/ \E b \in Beats : \/ RaiseTypeError(j, b) \/ Leave(j, b)
                               \/ Notify(j, b)
           \/ NextUser(j)
  <2>1. PICK w : GoOn(j, w) /\ w.pc # "confirm"
    <3>1. CASE \E b \in Beats : RaiseTypeError(j, b)
      <4> DEFINE w == [t EXCEPT !.pc = "scan", !.who = Nobody, !.rest = {}]
      <4>1. GoOn(j, w) /\ w.pc = "scan"
        BY <1>0, <3>1 DEF RaiseTypeError, Task
      <4> QED
        BY <4>1
    <3>2. CASE \E b \in Beats : Leave(j, b)
      <4> PICK b \in Beats : Leave(j, b)
        BY <3>2
      <4> DEFINE w == [t EXCEPT !.rest = @ \ {b}]
      <4>1. GoOn(j, w) /\ w.pc = "check"
        BY <1>0 DEF Leave, Checking, Task
      <4> QED
        BY <4>1
    <3>3. CASE \E b \in Beats : Notify(j, b)
      <4> PICK b \in Beats : Notify(j, b)
        BY <3>3
      <4> DEFINE w == IF t.pend = {b} THEN Idle
                      ELSE [t EXCEPT !.pend = @ \ {b}]
      <4>1. GoOn(j, w) /\ w.pc \in {"idle", "notify"}
        BY <1>0 DEF Notify, Task, Idle
      <4> QED
        BY <4>1
    <3>4. CASE NextUser(j)
      <4> DEFINE w == [t EXCEPT !.pc = "scan", !.who = Nobody]
      <4>1. GoOn(j, w) /\ w.pc = "scan"
        BY <1>0, <3>4 DEF NextUser, Task
      <4> QED
        BY <4>1
    <3> QED
      BY <1>4, <3>1, <3>2, <3>3, <3>4
  <2>2. UNCHANGED <<now, store, mine, base>>
    BY <1>4 DEF RaiseTypeError, Leave, Notify, NextUser, clock
  <2>3. Hold(j, mine[j], x)
    BY <2>2, SameHold
  <2>4. Unsettled(w, mine[j], x, Pending, db.users)
    BY <1>0, <2>1 DEF Unsettled
  <2> QED
    BY <2>1, <2>2, <2>3, <2>4, QuietAnswer
<1> QED
    BY <1>1, <1>2, <1>3, <1>4

LEMMA FlushesAnswer ==
    ASSUME TypeOK, TypeOK', RowInv, ~ TimestampsAware, AnswerInv, NEW j \in Jobs,
           \/ \E u \in Users : SelectExpired(j, u)
           \/ FlushEscalation(j) \/ CommitTrigger(j) \/ Deactivate(j)
           \/ FinishScan(j) \/ FinishPass(j)
    PROVE  AnswerInv' /\ Waiting
<1> USE DEF Sessions
<1> DEFINE t == task[j]
<1>0. /\ t \in Task /\ mine[j] \in Cache /\ base[j] \in Cache
      /\ Held(now, base[j].log, mine[j].log, Seen(j).log, db.log)
      /\ Unanswering(j, mine[j])
    BY OwnRows, OwnWrite
<1>1. CASE \E u \in Users : SelectExpired(j, u)
  <2> PICK u \in Users : SelectExpired(j, u)
    BY <1>1
  <2> DEFINE seen  == Merged(j, mine[j]).log
             found == Expired(seen, u, mine[j].users[u].config.window)
             m     == [users |-> mine[j].users,
                       log   |-> [b \in Beats |-> IF b \in found THEN seen[b]
                                                                 ELSE NoBeat]]
             w     == [t EXCEPT !.pc = "check", !.who = u, !.rest = found,
                                !.queue = @ \ {u}]
  <2>1. /\ GoOn(j, w) /\ w.pc = "check" /\ Hold(j, m, m)
        /\ \A b \in Beats : m.log[b] \in {NoBeat, seen[b]}
        /\ Flush(j, mine[j]) /\ UNCHANGED <<now, issued>>
    BY <1>0 DEF SelectExpired, Task, clock
  <2> HIDE DEF m, w
  <2>2. \A b \in Beats : Seen(j)'.log[b] = Merged(j, mine[j]).log[b]
    BY <1>0, <2>1, OwnRows, WriteStep
  <2> QED
    BY <1>0, <2>1, <2>2, FlushAnswer
<1>2. CASE FlushEscalation(j) \/ CommitTrigger(j)
  <2>1. PICK w : /\ GoOn(j, w) /\ w.pc \in {"check", "deactivate"}
                 /\ Hold(j, mine[j], mine[j])
                 /\ Flush(j, mine[j]) \/ Commit(j, mine[j])
                 /\ UNCHANGED <<now, issued>>
    BY <1>0, <1>2 DEF FlushEscalation, CommitTrigger, Goto, Task, clock
  <2> QED
    BY <1>0, <2>1, FlushAnswer
<1>3. CASE Deactivate(j)
  <2> DEFINE m == Deactivated(j)
  <2>1. m \in Cache
    BY <1>0, DeactivatedType
  <2>2. /\ m.log = mine[j].log
        /\ \A u \in Users : m.users[u].last = mine[j].users[u].last
    BY <1>0 DEF Deactivated, Cache, UserRow
  <2>3. PICK w : /\ GoOn(j, w) /\ w.pc = "check" /\ Hold(j, m, m)
                 /\ Commit(j, m) /\ UNCHANGED <<now, issued>>
    BY <1>0, <1>3 DEF Deactivate, Goto, Task, clock
  <2> HIDE DEF m
  <2>4. Unanswering(j, m)
    BY <1>0, <2>2 DEF Unanswering
  <2> QED
    BY <1>0, <2>1, <2>2, <2>3, <2>4, FlushAnswer
<1>4. CASE FinishScan(j)
  <2> DEFINE seen  == Merged(j, mine[j]).users
             found == IF j = "dispatcher"
                      THEN {u \in Users : seen[u].active
                                              /\ seen[u].next = Never}
                      ELSE {}
             x     == [mine[j] EXCEPT !.users = [u \in Users |->
                          IF u \in found \ t.loaded THEN seen[u] ELSE @[u]]]
             m     == [x EXCEPT !.users = Scheduling(@, found)]
             w     == [t EXCEPT !.pc = "commit"]
  <2>1. /\ GoOn(j, w) /\ w.pc = "commit" /\ Hold(j, m, x)
        /\ Flush(j, mine[j]) /\ UNCHANGED <<now, issued>>
    BY <1>0, <1>4 DEF FinishScan, Goto, Task, clock
  <2>2. seen \in [Users -> UserRow]
    BY <1>0, MergedType DEF Database
  <2>3. x.users \in [Users -> UserRow] /\ x.log = mine[j].log
    BY <1>0, <2>2 DEF Cache
  <2>4. m.users = Scheduling(x.users, found) /\ m.log = x.log
    BY <1>0 DEF Cache
  <2> HIDE DEF m, x, w, seen, found
  <2>5. \A u \in Users : m.users[u].last = x.users[u].last
    BY <2>3, <2>4, SchedulingLast
  <2> QED
    BY <1>0, <2>1, <2>3, <2>4, <2>5, FlushAnswer
<1>5. CASE FinishPass(j)
  <2>1. PICK w : /\ GoOn(j, w) /\ w.pc \in {"idle", "notify"}
                 /\ Hold(j, Empty, Empty) /\ Commit(j, mine[j])
                 /\ UNCHANGED <<now, issued>>
    BY <1>5 DEF FinishPass, Idle
  <2>2. \A b \in Beats : Empty.log[b] = NoBeat
    BY DEF Empty
  <2> QED
    BY <1>0, <2>1, <2>2, FlushAnswer
<1> QED
    BY <1>1, <1>2, <1>3, <1>4, <1>5

LEMMA DeliverAnswer ==
    ASSUME TypeOK, TypeOK', RowInv, ~ TimestampsAware, AnswerInv, NEW j \in Jobs,
           NEW r \in Recipients, NEW outcome \in Outcomes,
           Deliver(j, r, outcome)
    PROVE  AnswerInv' /\ Waiting
<1> USE DEF Sessions
<1> DEFINE w == [task[j] EXCEPT !.todo = @ \ {r}]
<1>1. /\ GoOn(j, w) /\ UNCHANGED <<mine, base, db, now>>
      /\ task[j].pc = "trigger" /\ wal'.users = wal.users /\ wal'.log = wal.log
    BY DEF Deliver, clock, TypeOK, Database
<1>2. w.pc = "trigger"
    BY <1>1 DEF TypeOK, Task
<1> HIDE DEF w
<1>3. Pending' = Pending /\ Waiting
    BY <1>1 DEF Pending, Waiting
<1>4. AnswerStore'
    BY <1>1, <1>3 DEF AnswerInv, AnswerStore
<1>5. Unsettled(w, mine[j], base[j], Pending', db'.users)
    BY <1>1, <1>2, <1>3, OwnAnswers DEF Unsettled
<1>6. Hold(j, mine[j], base[j])
    BY <1>1, SameHold
<1> QED
    BY <1>1, <1>3, <1>4, <1>5, <1>6, AnswerStep

\* A heartbeat that is inserted is pending before it is committed.
LEMMA NewIsPending ==
    ASSUME NEW b \in Beats, db.log[b] = NoBeat
    PROVE  b \in Pending
BY CheckInAssumption DEF Pending, NoBeat

LEMMA CreateAnswer ==
    ASSUME TypeOK, TypeOK', RowInv, ~ TimestampsAware, AnswerInv, NEW j \in Jobs,
           CreateBeat(j)
    PROVE  AnswerInv' /\ Waiting
<1> USE DEF Sessions
<1> DEFINE t   == task[j]
           b   == issued.real + 1
           x   == mine[j]
           new == Merged(j, x)
           m   == [x EXCEPT !.users = Scheduling(@, {t.who})]
           w   == [t EXCEPT !.pc = "scan", !.who = Nobody,
                            !.pend = @ \cup {b}]
<1>0. /\ t \in Task /\ x \in Cache
      /\ Held(now, base[j].log, x.log, Seen(j).log, db.log)
      /\ Unanswering(j, x) /\ AnswerStore /\ StoreInv
      /\ Unsettled(t, x, base[j], Pending, db.users)
      /\ \A c \in Beats : Open(x.log[c]) => c \in Pending
    BY OwnRows, OwnWrite, OwnAnswers
<1>1. /\ LockFree(j) /\ UNCHANGED <<now, db>>
      /\ wal' = [new EXCEPT !.log[b] = NewBeat(t.who)]
      /\ issued' = [issued EXCEPT !.real = b]
      /\ Hold(j, m, x) /\ GoOn(j, w)
    BY DEF CreateBeat, MayWrite, clock
<1>2. /\ wal'.users = new.users
      /\ \A c \in Beats \ {b} : wal'.log[c] = new.log[c]
      /\ b \in Scheduled /\ b \in Beats
    BY <1>0, <1>1, MergedType, RowTypes, CheckInAssumption
    DEF Database, TypeOK, Scheduled
<1>3. db.log[b] = NoBeat
  <2>1. b > issued.real
    BY DEF TypeOK
  <2> QED
    BY <1>0, <1>2, <2>1, RowTypes DEF StoreInv, Stored, Later, Timely
<1>4. w.pc = "scan" /\ m.log = x.log
      /\ \A u \in Users : m.users[u].last = x.users[u].last
    BY <1>0, SchedulingLast DEF Task, Cache
<1>5. \A u \in Users : new.users[u].last = db.users[u].last
    BY <1>0 DEF Merged, MergeUser, Column, Unanswering, Seen, AnswerStore
<1>6. \A c \in Beats : /\ Open(db.log[c]) => Open(new.log[c])
                       /\ Open(new.log[c]) => c \in Pending
    BY <1>0, MergedAnswer DEF Unanswering, Unsettled
<1> HIDE DEF m, w, new, b
<1>7. Pending' = Pending /\ Waiting
    BY <1>1 DEF Pending, Waiting
<1>8. AnswerStore'
  <2>1. b \in Pending /\ ~ Open(db.log[b])
    BY <1>2, <1>3, NewIsPending DEF NoBeat, Open
  <2> QED
    BY <1>0, <1>1, <1>2, <1>5, <1>6, <1>7, <2>1 DEF AnswerStore
<1>9. Unsettled(w, m, x, Pending', db'.users)
    BY <1>0, <1>4, <1>7 DEF Unsettled
<1> QED
    BY <1>1, <1>7, <1>8, <1>9, AnswerStep

LEMMA AbortAnswer ==
    ASSUME TypeOK, TypeOK', RowInv, ~ TimestampsAware, AnswerInv,
           NEW s \in Sessions, Abort(s)
    PROVE  AnswerInv' /\ Waiting
<1>1. /\ GoOn(s, Idle) /\ Hold(s, Empty, Empty) /\ UNCHANGED <<now, db>>
      /\ wal' \in {wal, db}
    BY DEF Abort, Close, Rollback, clock
<1>2. Pending' = Pending /\ Waiting
    BY <1>1 DEF Pending, Waiting
<1>3. AnswerStore'
    BY <1>1, <1>2 DEF AnswerInv, AnswerStore, Pending
<1>4. Unsettled(Idle, Empty, Empty, Pending', db'.users)
    BY EmptyAnswers DEF Idle
<1> QED
    BY <1>1, <1>2, <1>3, <1>4, AnswerStep

LEMMA PassAnswer ==
    ASSUME TypeOK, TypeOK', RowInv, ~ TimestampsAware, AnswerInv, NEW j \in Jobs,
           StartPass(j) \/ Pass(j)
    PROVE  AnswerInv' /\ Waiting
<1>1. \A b \in Beats : ~ Miss(j, b)
    BY DEF Miss, Missable
<1> QED
    BY <1>1, TaskAnswer, FlushesAnswer, DeliverAnswer, CreateAnswer, AbortAnswer
    DEF Pass, Sessions

LEMMA OpenAnswer ==
    ASSUME TypeOK, TypeOK', RowInv, ~ TimestampsAware, AnswerInv,
           NEW r \in Requests,
           \/ \E b \in Beats : OpenLink(r, b)
           \/ FindUser(r)
           \/ \E u \in Users : OpenSettings(r, u)
    PROVE  AnswerInv' /\ Waiting
<1> USE DEF Sessions
<1> DEFINE t == task[r]
<1>0. /\ t \in Task /\ mine[r] \in Cache
      /\ Unsettled(t, mine[r], base[r], Pending, db.users)
      /\ \A b \in Beats : Open(mine[r].log[b]) => b \in Pending
    BY OwnRows, OwnAnswers
<1>1. CASE \E b \in Beats : OpenLink(r, b)
  <2> PICK b \in Beats : OpenLink(r, b)
    BY <1>1
  <2> DEFINE m == [Empty EXCEPT !.log[b] = db.log[b]]
             w == [t EXCEPT !.pc = "open", !.beat = b]
  <2>1. /\ GoOn(r, w) /\ Hold(r, m, m) /\ w.pc = "open"
        /\ UNCHANGED <<now, store>>
    BY <1>0 DEF OpenLink, Task, clock
  <2>2. \A c \in Beats : m.log[c] \in {NoBeat, db.log[c]}
    BY DEF Empty
  <2> HIDE DEF m, w
  <2>3. Unsettled(w, m, m, Pending, db.users)
    BY <2>1, <2>2 DEF Unsettled, Pending, NoBeat, Open
  <2> QED
    BY <2>1, <2>3, QuietAnswer
<1>2. CASE FindUser(r)
  <2> DEFINE u == mine[r].log[t.beat].user
             m == [mine[r] EXCEPT !.users[u] = db.users[u]]
             w == [t EXCEPT !.pc = "confirm", !.who = u]
  <2>1. /\ GoOn(r, w) /\ Hold(r, m, m) /\ UNCHANGED <<now, store>>
    BY <1>2 DEF FindUser, clock
  <2>2. /\ w.who = u /\ w.beat = t.beat /\ m.log = mine[r].log
        /\ u \in Users => m.users[u] = db.users[u]
    BY <1>0 DEF Task, Cache
  <2> HIDE DEF m, w, u
  <2>3. u \in Users => m.users[u].last <= db.users[u].last
    BY <2>2, AnswerTypes
  <2>4. Unsettled(w, m, m, Pending, db.users)
    BY <1>0, <2>2, <2>3 DEF Unsettled, u
  <2> QED
    BY <2>1, <2>4, QuietAnswer
<1>3. CASE \E u \in Users : OpenSettings(r, u)
  <2>1. PICK w, m : /\ GoOn(r, w) /\ Hold(r, m, m) /\ w.pc = "settings"
                    /\ m.log = Empty.log /\ UNCHANGED <<now, store>>
    BY <1>0, <1>3 DEF OpenSettings, Task, Empty, clock
  <2>2. Unsettled(w, m, m, Pending, db.users)
    BY <2>1 DEF Unsettled, Empty, NoBeat, Open
  <2> QED
    BY <2>1, <2>2, QuietAnswer
<1> QED
    BY <1>1, <1>2, <1>3

LEMMA SettledAnswer ==
    ASSUME TypeOK, TypeOK', RowInv, ~ TimestampsAware, AnswerInv,
           NEW r \in Requests,
           FinishTest(r) \/ \E body \in Bodies : SaveSettings(r, body)
    PROVE  AnswerInv' /\ Waiting
<1> USE DEF Sessions
<1>0. /\ mine[r] \in Cache /\ now \in Nat
      /\ Held(now, base[r].log, mine[r].log, Seen(r).log, db.log)
      /\ Unanswering(r, mine[r])
    BY OwnRows, OwnWrite
<1>1. ASSUME NEW m \in Cache, Commit(r, m), Close(r), UNCHANGED <<now, issued>>,
             m.log = mine[r].log, Unanswering(r, m)
      PROVE  AnswerInv' /\ Waiting
  <2>1. GoOn(r, Idle) /\ Hold(r, Empty, Empty) /\ Idle.pc # "confirm"
    BY <1>1 DEF Close, Idle
  <2>2. \A b \in Beats : Empty.log[b] = NoBeat
    BY DEF Empty
  <2> QED
    BY <1>0, <1>1, <2>1, <2>2, FlushAnswer
<1>2. CASE FinishTest(r)
    BY <1>0, <1>1, <1>2 DEF FinishTest, clock
<1>3. CASE \E body \in Bodies : SaveSettings(r, body)
  <2> PICK body \in Bodies : SaveSettings(r, body)
    BY <1>3
  <2> DEFINE m == Updated(r, body)
  <2>1. m \in Cache
    BY <1>0, UpdatedType
  <2>2. /\ m.log = mine[r].log
        /\ \A u \in Users : m.users[u].last = mine[r].users[u].last
    BY <1>0 DEF Updated, Applied, Cache, UserRow
  <2>3. Commit(r, m) /\ Close(r) /\ UNCHANGED <<now, issued>>
    BY DEF SaveSettings, clock
  <2> HIDE DEF m
  <2>4. Unanswering(r, m)
    BY <1>0, <2>2 DEF Unanswering
  <2> QED
    BY <1>1, <2>1, <2>2, <2>3, <2>4
<1> QED
    BY <1>2, <1>3

\* Whoever answers has answered in this hour.
LEMMA ConfirmAnswer ==
    ASSUME TypeOK, TypeOK', RowInv, ~ TimestampsAware, AnswerInv,
           NEW r \in Requests, Confirm(r)
    PROVE  AnswerInv' /\ Waiting
<1> USE DEF Sessions
<1> DEFINE t   == task[r]
           b   == t.beat
           m   == Responded(r)
           new == Merged(r, m)
<1>0. /\ t \in Task /\ mine[r] \in Cache /\ now \in Nat
      /\ OnRows(now, t, mine[r], base[r])
      /\ AnswerStore /\ StoreInv
      /\ Unsettled(t, mine[r], base[r], Pending, db.users)
      /\ t.pc = "confirm"
    BY OwnRows, OwnAnswers DEF Confirm
<1>1. /\ m \in Cache
      /\ Held(now, base[r].log, m.log, Seen(r).log, db.log)
    BY <1>0, ResponseHeld
<1>2. /\ b \in Beats /\ Open(mine[r].log[b]) /\ mine[r].log = base[r].log
      /\ t.who = base[r].log[b].user
    BY <1>0 DEF OnRows, Unsettled
<1>3. /\ m.log[b].status = "responded"
      /\ \A c \in Beats \ {b} : m.log[c] = base[r].log[c]
      /\ \A u \in Users : m.users[u].last = IF u = t.who THEN now
                                            ELSE base[r].users[u].last
  <2>1. \A u \in Users : m.users[u].last = IF u = t.who THEN now
                                           ELSE mine[r].users[u].last
    BY <1>0 DEF Responded, Cache, UserRow
  <2>2. /\ m.log[b].status = "responded"
        /\ \A c \in Beats \ {b} : m.log[c] = mine[r].log[c]
    BY <1>0, <1>2 DEF Responded, Cache, BeatRow
  <2> QED
    BY <1>0, <1>2, <2>1, <2>2 DEF Unsettled
<1>4. /\ LockFree(r) /\ db' = new /\ wal' = new /\ UNCHANGED <<now, issued>>
      /\ GoOn(r, Idle) /\ Hold(r, Empty, Empty)
  <2>1. m # base[r]
    BY <1>2, <1>3 DEF Open
  <2> QED
    BY <2>1 DEF Confirm, Commit, MayWrite, Close, clock
<1> HIDE DEF m
<1>5. ASSUME NEW u \in Users
      PROVE  new.users[u].last = IF u = t.who THEN now ELSE db.users[u].last
  <2> DEFINE x == base[r].users[u].last
  <2>1. new.users[u].last = Column(Seen(r).users[u].last, x, m.users[u].last)
    BY DEF Merged, MergeUser
  <2>2. Seen(r).users[u].last = db.users[u].last
    BY <1>0 DEF Seen, AnswerStore
  <2>3. CASE u # t.who
    BY <1>3, <2>1, <2>2, <2>3 DEF Column
  <2>4. CASE u = t.who
    <3>1. x <= db.users[u].last /\ db.users[u].last <= now
      BY <1>0, <2>4 DEF Unsettled, AnswerStore
    <3>2. x = now => db.users[u].last = now
      BY <3>1, AnswerTypes
    <3> QED
      BY <1>3, <2>1, <2>2, <2>4, <3>2 DEF Column
  <2> QED
    BY <2>3, <2>4
<1>6. \A c \in Beats : /\ Stored(now, db.log[c], new.log[c])
                       /\ c # b /\ Open(db.log[c]) => Open(new.log[c])
  <2>1. \A c \in Beats : Stored(now, db.log[c], new.log[c])
    BY <1>0, <1>1, <1>4, MergedStored
  <2>2. Seen(r) = wal
    BY <1>0, <1>4, LockShowsWal
  <2>3. \A c \in Beats \ {b} : new.log[c] = wal.log[c]
    BY <1>0, <1>1, <1>3, <2>2, MergedRows
  <2> QED
    BY <1>0, <2>1, <2>3 DEF AnswerStore
<1>7. new.log[b].user = t.who
  <2>1. /\ Copied(now, base[r].log[b], m.log[b], Seen(r).log[b], db.log[b])
        /\ base[r].log[b].status # "none"
    BY <1>1, <1>2 DEF Held, Open
  <2>2. Later(now, base[r].log[b], Seen(r).log[b])
    BY <2>1 DEF Copied, NoBeat
  <2>3. new.log[b].user = Seen(r).log[b].user
    BY <1>2, MergedBeat
  <2> QED
    BY <1>2, <2>1, <2>2, <2>3 DEF Later
<1> HIDE DEF new
<1>8. \A u \in Users : db'.users[u].last \in {db.users[u].last, now}
    BY <1>4, <1>5
<1>9. ASSUME NEW c \in Pending
      PROVE  c \in Pending'
  <2>0. c \in Beats
    BY DEF Pending
  <2>1. CASE c # b
    BY <1>0, <1>4, <1>6, <1>8, <2>0, <2>1, PendingStays
  <2>2. CASE c = b
    BY <1>0, <1>4, <1>5, <1>7, <2>0, <2>2 DEF Pending
  <2> QED
    BY <2>1, <2>2
<1>10. Waiting
    BY <1>0, <1>4, <1>6, <1>8, <1>9, OwnerStays DEF Waiting, Stored
<1>11. AnswerStore'
  <2>1. \A u \in Users : /\ db'.users[u].last = wal'.users[u].last
                         /\ db'.users[u].last <= now'
    BY <1>0, <1>4, <1>5, AnswerTypes DEF AnswerStore
  <2> QED
    BY <1>4, <2>1 DEF AnswerStore, Pending
<1>12. Unsettled(Idle, Empty, Empty, Pending', db'.users)
    BY EmptyAnswers DEF Idle
<1> QED
    BY <1>4, <1>10, <1>11, <1>12, AnswerStep

LEMMA TestAnswer ==
    ASSUME TypeOK, TypeOK', RowInv, ~ TimestampsAware, AnswerInv,
           NEW r \in Requests, NEW u \in Users, SendTest(r, u)
    PROVE  AnswerInv' /\ Waiting
<1> USE DEF Sessions
<1> DEFINE b == MaxBeats + issued.test + 1
           w == [task[r] EXCEPT !.pc = "test"]
<1>0. /\ task[r] \in Task /\ StoreInv /\ AnswerStore
      /\ Unsettled(task[r], mine[r], base[r], Pending, db.users)
      /\ task[r].pc = "idle" => writer # r
    BY OwnRows, OwnAnswers
<1>1. /\ GoOn(r, w) /\ UNCHANGED <<now, db, mine, base>> /\ LockFree(r)
      /\ wal' = [db EXCEPT !.log[b] = NewBeat(u)] /\ issued.test < MaxTests
      /\ task[r].pc = "idle"
    BY DEF SendTest, Starts, Goto, clock
<1>2. /\ w.pc = "test" /\ wal'.users = db.users
      /\ \A c \in Beats \ {b} : wal'.log[c] = db.log[c]
    BY <1>0, <1>1 DEF Task, TypeOK, Database
<1>3. /\ issued.test \in Nat /\ MaxBeats \in Nat /\ MaxTests \in Nat
    BY CheckInAssumption DEF TypeOK
<1>4. b \in Beats \ Scheduled /\ b > MaxBeats + issued.test
    BY <1>1, <1>3 DEF Beats, Scheduled
<1>5. db.log[b] = NoBeat
  <2>1. wal = db
    BY <1>0, <1>1 DEF LockFree, StoreInv
  <2> QED
    BY <1>0, <1>4, <2>1 DEF StoreInv, Stored, Timely
<1> HIDE DEF w, b
<1>6. Pending' = Pending /\ Waiting
    BY <1>1 DEF Pending, Waiting
<1>7. AnswerStore'
  <2>1. b \in Pending /\ ~ Open(db.log[b])
    BY <1>4, <1>5, NewIsPending DEF NoBeat, Open
  <2>2. \A c \in Beats : Open(db.log[c]) => c \in Pending
    BY DEF Pending
  <2> QED
    BY <1>0, <1>1, <1>2, <1>6, <2>1, <2>2 DEF AnswerStore
<1>8. Unsettled(w, mine[r], base[r], Pending', db'.users)
    BY <1>0, <1>1, <1>2, <1>6 DEF Unsettled
<1>9. Hold(r, mine[r], base[r])
    BY <1>1, SameHold
<1> QED
    BY <1>1, <1>6, <1>7, <1>8, <1>9, AnswerStep

LEMMA RequestAnswer ==
    ASSUME TypeOK, TypeOK', RowInv, ~ TimestampsAware, AnswerInv,
           NEW r \in Requests, NewRequest(r) \/ Handle(r)
    PROVE  AnswerInv' /\ Waiting
BY OpenAnswer, SettledAnswer, ConfirmAnswer, TestAnswer, AbortAnswer
   DEF NewRequest, Handle, Sessions

\* Only answered and missed heartbeats are cleaned up.
LEMMA CleanupAnswer ==
    ASSUME TypeOK, TypeOK', RowInv, ~ TimestampsAware, AnswerInv, Cleanup
    PROVE  AnswerInv' /\ Waiting
<1>1. /\ wal' = db' /\ db'.users = db.users
      /\ UNCHANGED <<now, task, mine, base>>
    BY DEF Cleanup, clock, TypeOK, Database
<1>2. \A b \in Beats : /\ db'.log[b].user = db.log[b].user
                       /\ Open(db.log[b]) => db'.log[b] = db.log[b]
    BY RowTypes DEF Cleanup, Old, Open, TypeOK, Database, BeatRow
<1>3. Waiting
    BY <1>1, <1>2 DEF Waiting, Pending
<1>4. AnswerStore
    BY DEF AnswerInv
<1>5. AnswerStore'
    BY <1>1, <1>4 DEF AnswerStore, Pending
<1>6. \A s \in Sessions :
          Unsettled(task[s], mine[s], base[s], Pending', db'.users)
    BY <1>3, <1>4, UnsettledStays DEF AnswerInv
<1> QED
    BY <1>1, <1>3, <1>5, <1>6 DEF AnswerInv

LEMMA StillAnswer ==
    ASSUME TypeOK, RowInv, ~ TimestampsAware, AnswerInv, Crash \/ Restart \/ Tick
    PROVE  AnswerInv'
<1>0. AnswerStore /\ StoreInv /\ now \in Nat
    BY RowTypes DEF AnswerInv, RowInv
<1>1. CASE Crash
  <2>1. /\ wal' = db /\ UNCHANGED <<now, db>>
        /\ \A s \in Sessions : /\ task'[s] = Idle
                               /\ mine'[s] = Empty /\ base'[s] = Empty
    BY <1>1 DEF Crash
  <2>2. AnswerStore'
    BY <1>0, <2>1 DEF AnswerStore, Pending
  <2> QED
    BY <2>1, <2>2, EmptyAnswers DEF AnswerInv, Idle
<1>2. CASE Restart \/ Tick
  <2>1. \A s \in Sessions : task[s].pc = "idle"
    BY <1>2 DEF Restart, Tick, RowInv, SessionInv
  <2>2. \A s \in Sessions : writer # s /\ mine[s] = Empty /\ base[s] = Empty
    BY <2>1 DEF RowInv, SessionInv, OnRows
  <2>3. wal = db
    BY <1>0, <2>2 DEF TypeOK, StoreInv
  <2>4. /\ wal' = db' /\ db'.log = db.log /\ UNCHANGED <<task, mine, base>>
        /\ \A u \in Users : db'.users[u].last = db.users[u].last
        /\ now' \in {now, now + 1}
    BY <1>2, <2>3, SchedulingLast DEF Restart, Tick, store, TypeOK, Database
  <2>5. AnswerStore'
    <3>1. \A u \in Users : db'.users[u].last <= now'
      BY <1>0, <2>4, AnswerTypes DEF AnswerStore
    <3> QED
      BY <2>4, <3>1 DEF AnswerStore, Pending
  <2> QED
    BY <2>1, <2>2, <2>4, <2>5, EmptyAnswers DEF AnswerInv
<1> QED
    BY <1>1, <1>2

LEMMA AnswersAreKnown == Spec => []AnswerInv
<1>1. Init => AnswerInv
  <2> SUFFICES ASSUME Init PROVE AnswerInv
    OBVIOUS
  <2>1. /\ wal = db /\ now = 0
        /\ \A u \in Users : db.users[u].last = Never
        /\ \A s \in Sessions : /\ task[s] = Idle
                               /\ mine[s] = Empty /\ base[s] = Empty
    BY DEF Init, NewUser, Unloaded
  <2>2. AnswerStore
    BY <2>1 DEF AnswerStore, Pending, Never
  <2> QED
    BY <2>1, <2>2, EmptyAnswers DEF AnswerInv, Idle
<1>2. TypeOK /\ TypeOK' /\ RowInv /\ AnswerInv /\ [Next]_vars => AnswerInv'
  <2> SUFFICES ASSUME TypeOK, TypeOK', RowInv, AnswerInv, [Next]_vars,
                      ~ TimestampsAware
               PROVE  AnswerInv'
    BY DEF AnswerInv
  <2>1. CASE UNCHANGED vars
    BY <2>1 DEF vars, AnswerInv, AnswerStore, Pending
  <2>2. CASE Next
    BY <2>2, PassAnswer, RequestAnswer, CleanupAnswer, StillAnswer DEF Next
  <2> QED
    BY <2>1, <2>2
<1> QED
    BY <1>1, <1>2, RowsAgree, TypeCorrect, PTL DEF Spec

-----------------------------------------------------------------------------
(* Service.  Whoever is due is served within the hour, provided that the   *)
(* intervals last an hour at least, as the settings endpoint demands.      *)
(* Where the database returns naive datetimes, a pass skips the users with *)
(* an escalated heartbeat; they are excused until an hour after they have  *)
(* answered.                                                               *)

IntervalsLast == \A i \in Choices("interval") : i > 0

DueBy(t, row) == row.active /\ row.next # Never /\ row.next <= t

\* A row of the users at time t.
OnTime(t, row) == row.active /\ row.next # Never => row.next >= t

\* The next time y has is that of x, or was written in this hour.
Follows(t, x, y) == y.next \in {x.next, Never} \/ y.next > t

\* What a session may make of a row x that it has loaded: it brings nobody back
\* without a heartbeat to come.
Rewritten(t, x, y) ==
    /\ Follows(t, x, y)
    /\ y.active /\ ~ x.active => y.next > t

Untouched(x, y) == y.next = x.next /\ y.active = x.active

\* A session makes y of a row that it loaded as x, and sees it as `seen'.
Brought(t, x, y, seen) ==
    Untouched(x, y) \/ (Follows(t, x, seen) /\ Rewritten(t, x, y))

\* The row y comes after x, and is due only if x was.
Moves(t, x, y) == Follows(t, x, y) /\ (DueBy(t, y) => DueBy(t, x))

Excused == {u \in Users : ~ TimestampsAware /\ Unanswered(u)}

\* Whom a pass may skip in this hour.
Skippable ==
    {u \in Users :
        /\ ~ TimestampsAware
        /\ \/ db.users[u].last >= now
           \/ \E b \in warned : db.log[b].user = u /\ Open(db.log[b])}

\* A step after which nobody is expected to be served who was not before.
Excusing == Excused \subseteq Excused' /\ Skippable \subseteq Skippable'

UserStore ==
    \A u \in Users :
        /\ u \notin Excused => /\ OnTime(now, db.users[u])
                              /\ OnTime(now, wal.users[u])
        /\ Moves(now, db.users[u], wal.users[u])

\* Work w on the rows m, loaded as x.
UsersHeld(t, w, m, x, seen) ==
    /\ w.pc \notin {"scan", "commit"} => m.users = x.users
    /\ w.pc \notin InPass => w.loaded = {}
    /\ w.pc \in OneUser \cup {"scan"} => w.queue \subseteq w.loaded
    /\ w.pc \in OneUser => w.who \in w.loaded
    /\ \A u \in Users :
           /\ m.users[u].active = x.users[u].active
           /\ Brought(t, x.users[u], m.users[u], seen[u])
           /\ u \in w.loaded \/ (w.pc = "settings" /\ u = w.who) =>
                  Follows(t, x.users[u], seen[u])

\* Work w of the dispatcher has all due users that it sees ahead of it, except
\* some of E: in the queue, being dealt with, or with a new time that is about
\* to be flushed.
Serves(E, t, w, m, x, seen) ==
    /\ w.pc \in OneUser \cup {"scan"} =>
           \A u \in w.queue : /\ m.users[u].active /\ m.users[u].next <= t
                              /\ m.users[u].next = x.users[u].next
    /\ w.pc \in OneUser => m.users[w.who].next <= t
    /\ w.pc \in InPass =>
           \A u \in Users : DueBy(t, seen[u]) =>
               \/ w.pc # "commit" /\ u \in w.queue
               \/ w.pc \in OneUser /\ u = w.who /\ m.users[u].active
               \/ m.users[u].next # x.users[u].next
               \/ u \in E

ServiceInv ==
    crashes = 0 /\ HasRoom =>
        /\ up
        /\ UserStore
        /\ \A s \in Sessions :
               UsersHeld(now, task[s], mine[s], base[s], Seen(s).users)
        /\ "dispatcher" \in ran =>
               \A u \in Users \ Skippable : ~ DueBy(now, db.users[u])
        /\ Serves(Skippable, now, task["dispatcher"], mine["dispatcher"],
                  base["dispatcher"], Seen("dispatcher").users)

\* The next heartbeat of a user is an interval away at least.
LEMMA NextIsAhead ==
    ASSUME NEW config \in Config, config.interval > 0, now \in Nat
    PROVE  ComputeNext(config) > now
<1> DEFINE c     == now + config.interval
           D     == Window!MinutesPerDay
           local == Window!ToLocal(Window!FixedZone(0), c)
<1>0. /\ config.interval \in Nat /\ config.start \in Nat
      /\ config.end \in Nat
    BY DEF Config, Fields
<1>1. D = HoursPerDay /\ D \in Nat \ {0}
    BY CheckInAssumption DEF Window!MinutesPerDay
<1>2. c \in Nat /\ c > now
    BY <1>0
<1>3. /\ c % D \in 0 .. D - 1 /\ Window!HourOf(c) = c % D
  <2>1. c % D \in 0 .. D - 1
    BY <1>1, <1>2
  <2>2. (c % D) \div 1 = c % D
    BY <2>1
  <2> QED
    BY <2>1, <2>2 DEF Window!HourOf
<1>4. local = [wall |-> c, fold |-> 0]
    BY <1>2 DEF Window!ToLocal, Window!FixedZone
<1>5. \A w \in Int : \A fold :
          Window!ToUtc(Window!FixedZone(0), [wall |-> w, fold |-> fold]) = w
    BY DEF Window!ToUtc, Window!FixedZone, Window!Later, Window!Earlier
<1> HIDE DEF D
<1>6. ComputeNext(config)
          = IF Window!HourInActiveWindow(c % D, config.start, config.end)
            THEN c
            ELSE Window!ToUtc(Window!FixedZone(0),
                     Window!NextWindowStart(local, config.start, config.end))
    BY <1>0, <1>3, <1>4 DEF ComputeNext, Window!ComputeNextHeartbeat
<1> HIDE DEF c, local
<1>7. CASE Window!HourInActiveWindow(c % D, config.start, config.end)
    BY <1>2, <1>6, <1>7
<1>8. CASE ~ Window!HourInActiveWindow(c % D, config.start, config.end)
  <2>1. Window!AtHour(local, config.start)
            = [wall |-> c - (c % D) + config.start, fold |-> 0]
    BY <1>0, <1>4 DEF Window!AtHour, D
  <2>2. CASE config.start <= config.end /\ c % D >= config.end
    <3>1. Window!NextWindowStart(local, config.start, config.end)
              = [wall |-> c - (c % D) + config.start + D, fold |-> 0]
      BY <1>3, <1>4, <2>1, <2>2 DEF Window!NextWindowStart, Window!NextDay, D
    <3>2. c - (c % D) + config.start + D \in Int
      BY <1>0, <1>1, <1>2, <1>3
    <3>3. ComputeNext(config) = c - (c % D) + config.start + D
      BY <1>5, <1>6, <1>8, <3>1, <3>2
    <3> QED
      BY <1>0, <1>1, <1>2, <1>3, <3>3
  <2>3. CASE ~ (config.start <= config.end /\ c % D >= config.end)
    <3>1. Window!NextWindowStart(local, config.start, config.end)
              = [wall |-> c - (c % D) + config.start, fold |-> 0]
      BY <1>3, <1>4, <2>1, <2>3 DEF Window!NextWindowStart
    <3>2. c - (c % D) + config.start \in Int
      BY <1>0, <1>1, <1>2, <1>3
    <3>3. ComputeNext(config) = c - (c % D) + config.start
      BY <1>5, <1>6, <1>8, <3>1, <3>2
    <3>4. c % D < config.start
      BY <1>0, <1>3, <1>8, <2>3 DEF Window!HourInActiveWindow
    <3> QED
      BY <1>0, <1>1, <1>2, <1>3, <3>3, <3>4
  <2> QED
    BY <2>2, <2>3
<1> QED
    BY <1>7, <1>8

\* A row with settings that somebody chose is scheduled ahead.
LEMMA ChosenIsAhead ==
    ASSUME TypeOK, IntervalsLast,
           NEW users \in [Users -> UserRow], Chosen(users), NEW u \in Users
    PROVE  ComputeNext(users[u].config) > now
<1>1. "interval" \in Fields
    BY DEF Fields
<1>2. users[u].config \in Config
    BY DEF UserRow
<1>3. users[u].config.interval > 0
    BY <1>1 DEF IntervalsLast, Chosen
<1> QED
    BY <1>2, <1>3, NextIsAhead, RowTypes

LEMMA FollowsOrder ==
    /\ \A t, x : Follows(t, x, x) /\ Moves(t, x, x)
    /\ \A t, x, y, z : Follows(t, x, y) /\ Follows(t, y, z)
                           => Follows(t, x, z)
    /\ \A t, x, y, z : Moves(t, x, y) /\ Moves(t, y, z) => Moves(t, x, z)
    /\ \A t, x, y : Moves(t, x, y) => Follows(t, x, y)
BY DEF Follows, Moves

\* What a flush makes of the row of a user.
LEMMA MergedUser ==
    ASSUME NEW t \in Nat, NEW row \in UserRow, NEW x \in UserRow,
           NEW y \in UserRow, Brought(t, x, y, row)
    PROVE  LET new == MergeUser(row, x, y)
           IN  /\ OnTime(t, row) => OnTime(t, new)
               /\ Moves(t, row, new)
               /\ DueBy(t, new) => Untouched(x, y)
               /\ Follows(t, x, row) => Follows(t, y, new)
<1> DEFINE new == MergeUser(row, x, y)
<1>0. /\ row.next \in Int /\ x.next \in Int /\ y.next \in Int
      /\ row.active \in BOOLEAN /\ x.active \in BOOLEAN /\ y.active \in BOOLEAN
    BY DEF UserRow
<1>1. /\ new.next = IF y.next = x.next THEN row.next ELSE y.next
      /\ new.active = IF y.active = x.active THEN row.active ELSE y.active
    BY DEF MergeUser, Column
<1> HIDE DEF new
<1>2. CASE Untouched(x, y)
  <2>1. new.next = row.next /\ new.active = row.active
    BY <1>1, <1>2 DEF Untouched
  <2>2. (OnTime(t, row) => OnTime(t, new)) /\ Moves(t, row, new)
    BY <2>1 DEF OnTime, Moves, Follows, DueBy
  <2>3. Follows(t, x, row) => Follows(t, y, new)
    BY <1>2, <2>1 DEF Untouched, Follows
  <2> QED
    BY <1>2, <2>2, <2>3 DEF new
<1>3. CASE ~ Untouched(x, y) /\ Follows(t, x, row) /\ Rewritten(t, x, y)
  <2>1. y.next # x.next => new.next = y.next /\ (y.next = Never \/ y.next > t)
    BY <1>1, <1>3 DEF Rewritten, Follows
  <2>2. y.next = x.next => /\ new.next = row.next
                           /\ row.next \in {x.next, Never} \/ row.next > t
    BY <1>1, <1>3 DEF Follows
  <2>3. new.active /\ y.active # x.active => y.next > t
    BY <1>0, <1>1, <1>3 DEF Rewritten
  <2>4. new.active => new.next = Never \/ new.next > t
    BY <1>0, <1>1, <1>3, <2>1, <2>2, <2>3 DEF Untouched
  <2>5. OnTime(t, new) /\ ~ DueBy(t, new)
    BY <1>0, <1>1, <2>4 DEF OnTime, DueBy
  <2>6. Follows(t, row, new) /\ Follows(t, y, new)
    BY <2>1, <2>2 DEF Follows
  <2> QED
    BY <2>5, <2>6 DEF Moves, new
<1> QED
    BY <1>2, <1>3 DEF Brought, new

\* A step of the sessions S makes no user due, and nobody sees another next
\* time than a later one.
Spread(S) == \A u \in Users :
                 /\ Moves(now, db.users[u], db'.users[u])
                 /\ \A o \in Sessions \ S :
                        Moves(now, Seen(o).users[u], Seen(o)'.users[u])

\* What session s may flush.
MayBring(s, m) == \A u \in Users : Brought(now, base[s].users[u], m.users[u],
                                           Seen(s).users[u])

LEMMA UserTypes ==
    ASSUME TypeOK
    PROVE  /\ now \in Nat
           /\ \A u \in Users :
                  /\ db.users[u] \in UserRow /\ wal.users[u] \in UserRow
                  /\ \A s \in Sessions :
                         /\ Seen(s).users[u] \in UserRow
                         /\ mine[s].users[u] \in UserRow
                         /\ base[s].users[u] \in UserRow
BY RowTypes DEF TypeOK, Database, Cache, Seen

\* A row into which nothing is written stays as it is.
LEMMA MergeNothing ==
    ASSUME NEW row \in UserRow, NEW x
    PROVE  MergeUser(row, x, x) = row
BY DEF MergeUser, Column, UserRow, Config

\* A flush or a commit of the rows m.
LEMMA UserWrite ==
    ASSUME TypeOK, StoreInv, UserStore, Excusing,
           NEW s \in Sessions, NEW m \in Cache,
           MayBring(s, m), Flush(s, m) \/ Commit(s, m), UNCHANGED now
    PROVE  /\ UserStore' /\ Spread({s})
           /\ \A u \in Users :
                  /\ Seen(s)'.users[u] = Merged(s, m).users[u]
                  /\ DueBy(now, Seen(s)'.users[u]) =>
                         /\ DueBy(now, Seen(s).users[u])
                         /\ Untouched(base[s].users[u], m.users[u])
                  /\ Follows(now, base[s].users[u], Seen(s).users[u]) =>
                         Follows(now, m.users[u], Seen(s)'.users[u])
<1> DEFINE new == Merged(s, m)
<1>0. s # Nobody /\ Nobody \notin Sessions
    BY CheckInAssumption
<1>1. \A u \in Users :
          /\ u \notin Excused => OnTime(now, new.users[u])
          /\ Moves(now, Seen(s).users[u], new.users[u])
          /\ DueBy(now, new.users[u]) =>
                 /\ DueBy(now, Seen(s).users[u])
                 /\ Untouched(base[s].users[u], m.users[u])
          /\ Follows(now, base[s].users[u], Seen(s).users[u]) =>
                 Follows(now, m.users[u], new.users[u])
          /\ m.users[u] = base[s].users[u] =>
                 new.users[u] = Seen(s).users[u]
  <2> TAKE u \in Users
  <2> DEFINE row == Seen(s).users[u]
             x   == base[s].users[u]
             y   == m.users[u]
  <2>1. /\ row \in UserRow /\ x \in UserRow /\ y \in UserRow /\ now \in Nat
        /\ new.users[u] = MergeUser(row, x, y)
    BY UserTypes DEF Merged, Cache
  <2>2. Brought(now, x, y, row) /\ (u \notin Excused => OnTime(now, row))
    BY DEF MayBring, UserStore, Seen
  <2>3. y = x => MergeUser(row, x, y) = row
    BY <2>1, MergeNothing
  <2> HIDE DEF new, row, x, y
  <2>4. /\ u \notin Excused => OnTime(now, new.users[u])
        /\ Moves(now, row, new.users[u])
        /\ DueBy(now, new.users[u]) => Untouched(x, y)
        /\ Follows(now, x, row) => Follows(now, y, new.users[u])
    BY <2>1, <2>2, MergedUser
  <2>5. DueBy(now, new.users[u]) => DueBy(now, row)
    BY <2>4 DEF Moves
  <2> QED
    BY <2>1, <2>3, <2>4, <2>5 DEF row, x, y
<1>2. \/ UNCHANGED store /\ m = base[s]
      \/ /\ LockFree(s) /\ wal' = new
         /\ \/ db' = db /\ writer' = s
            \/ db' = new /\ writer' = Nobody
    BY DEF Flush, Commit, MayWrite
<1> HIDE DEF new
<1>3. CASE UNCHANGED store /\ m = base[s]
  <2>1. /\ UNCHANGED <<db, wal, writer>>
        /\ \A o \in Sessions : Seen(o)' = Seen(o)
    BY <1>3 DEF store, Seen
  <2>2. UserStore' /\ Spread({s})
    BY <1>3, <2>1, FollowsOrder DEF UserStore, Spread, Excusing
  <2>3. \A u \in Users : new.users[u] = Seen(s)'.users[u]
    BY <1>1, <1>3, <2>1
  <2> QED
    BY <1>1, <2>2, <2>3 DEF new
<1>4. CASE /\ LockFree(s) /\ wal' = new
           /\ \/ db' = db /\ writer' = s
              \/ db' = new /\ writer' = Nobody
  <2>1. Seen(s) = wal /\ Seen(s)' = new
    BY <1>0, <1>4, LockShowsWal DEF Seen
  <2>2. \A u \in Users : /\ Moves(now, db.users[u], wal.users[u])
                         /\ Moves(now, wal.users[u], new.users[u])
    BY <1>1, <2>1 DEF UserStore
  <2>3. \A u \in Users : Moves(now, db.users[u], new.users[u])
    BY <2>2, FollowsOrder
  <2>4. \A u \in Users : /\ Moves(now, db.users[u], db'.users[u])
                         /\ Moves(now, db'.users[u], wal'.users[u])
    BY <1>4, <2>3, FollowsOrder
  <2>5. \A o \in Sessions \ {s} : Seen(o) = db /\ Seen(o)' = db'
    BY <1>0, <1>4 DEF Seen, LockFree
  <2>6. Spread({s})
    BY <2>4, <2>5 DEF Spread
  <2>7. UserStore'
    BY <1>1, <1>4, <2>4 DEF UserStore, Excusing
  <2> QED
    BY <1>1, <2>1, <2>6, <2>7 DEF new
<1> QED
    BY <1>2, <1>3, <1>4

\* What a session knows stays true when its rows move on.
LEMMA HeldStays ==
    ASSUME NEW t, NEW w, NEW m, NEW x, NEW seen, NEW new,
           UsersHeld(t, w, m, x, seen),
           \A u \in Users : Moves(t, seen[u], new[u])
    PROVE  UsersHeld(t, w, m, x, new)
<1>1. \A u \in Users : Follows(t, x.users[u], seen[u]) =>
                           Follows(t, x.users[u], new[u])
    BY FollowsOrder
<1> QED
    BY <1>1 DEF UsersHeld, Brought

LEMMA ServesStays ==
    ASSUME NEW E, NEW F, E \subseteq F,
           NEW t, NEW w, NEW m, NEW x, NEW seen, NEW new,
           Serves(E, t, w, m, x, seen),
           \A u \in Users : Moves(t, seen[u], new[u])
    PROVE  Serves(F, t, w, m, x, new)
BY DEF Serves, Moves

\* What is left to prove of a step of s that takes it to w.
LEMMA ServiceStep ==
    ASSUME TypeOK, ServiceInv, crashes = 0, HasRoom, Excusing,
           NEW s \in Sessions,
           NEW w, NEW m, NEW x, GoOn(s, w), Hold(s, m, x),
           UNCHANGED <<now, up, crashes>>, ran' \subseteq ran \cup {s},
           UserStore', Spread({s}),
           UsersHeld(now, w, m, x, Seen(s)'.users),
           "dispatcher" \in ran' \ ran =>
               \A u \in Users \ Skippable : ~ DueBy(now, db'.users[u]),
           s = "dispatcher" => Serves(Skippable, now, w, m, x, Seen(s)'.users)
    PROVE  ServiceInv'
<1>1. /\ task'[s] = w /\ mine'[s] = m /\ base'[s] = x
      /\ \A o \in Sessions \ {s} : /\ task'[o] = task[o]
                                   /\ mine'[o] = mine[o]
                                   /\ base'[o] = base[o]
    BY DEF GoOn, Hold, TypeOK
<1>2. /\ up
      /\ \A o \in Sessions :
             UsersHeld(now, task[o], mine[o], base[o], Seen(o).users)
      /\ "dispatcher" \in ran =>
               \A u \in Users \ Skippable : ~ DueBy(now, db.users[u])
      /\ Serves(Skippable, now, task["dispatcher"], mine["dispatcher"],
                base["dispatcher"], Seen("dispatcher").users)
      /\ "dispatcher" \in Sessions
    BY DEF ServiceInv, Sessions, Jobs
<1>3. ASSUME NEW o \in Sessions
      PROVE  UsersHeld(now, task'[o], mine'[o], base'[o], Seen(o)'.users)
  <2>1. CASE o = s
    BY <1>1, <2>1
  <2>2. CASE o # s
    <3>1. \A u \in Users : Moves(now, Seen(o).users[u], Seen(o)'.users[u])
      BY <2>2 DEF Spread
    <3>2. UsersHeld(now, task[o], mine[o], base[o], Seen(o)'.users)
      BY <1>2, <3>1, HeldStays
    <3> QED
      BY <1>1, <2>2, <3>2
  <2> QED
    BY <2>1, <2>2
<1>4. "dispatcher" \in ran' =>
          \A u \in Users \ Skippable' : ~ DueBy(now, db'.users[u])
    BY <1>2 DEF Spread, Moves, Excusing
<1>5. Serves(Skippable', now, task'["dispatcher"], mine'["dispatcher"],
             base'["dispatcher"], Seen("dispatcher")'.users)
  <2>1. CASE s = "dispatcher"
    <3>1. \A u \in Users : Moves(now, Seen(s)'.users[u], Seen(s)'.users[u])
      BY FollowsOrder
    <3>2. Serves(Skippable', now, w, m, x, Seen(s)'.users)
      BY <2>1, <3>1, ServesStays DEF Excusing
    <3> QED
      BY <1>1, <2>1, <3>2
  <2>2. CASE s # "dispatcher"
    <3>1. \A u \in Users : Moves(now, Seen("dispatcher").users[u],
                                 Seen("dispatcher")'.users[u])
      BY <1>2, <2>2 DEF Spread
    <3>2. Serves(Skippable', now, task["dispatcher"], mine["dispatcher"],
                 base["dispatcher"], Seen("dispatcher")'.users)
      BY <1>2, <3>1, ServesStays DEF Excusing
    <3> QED
      BY <1>1, <1>2, <2>2, <3>2
  <2> QED
    BY <2>1, <2>2
<1> QED
    BY <1>2, <1>3, <1>4, <1>5 DEF ServiceInv

\* What a session in progress knows of the users.
LEMMA OwnUsers ==
    ASSUME TypeOK, RowInv, ServiceInv, crashes = 0, HasRoom, NEW s \in Sessions
    PROVE  /\ UserStore /\ StoreInv /\ up
           /\ UsersHeld(now, task[s], mine[s], base[s], Seen(s).users)
           /\ MayBring(s, mine[s])
           /\ s = "dispatcher" => Serves(Skippable, now, task[s], mine[s],
                                         base[s], Seen(s).users)
BY DEF ServiceInv, RowInv, UsersHeld, MayBring

\* A step that leaves the database alone.
LEMMA QuietService ==
    ASSUME TypeOK, ServiceInv, crashes = 0, HasRoom, Excusing,
           NEW s \in Sessions,
           NEW w, NEW m, NEW x, GoOn(s, w), Hold(s, m, x),
           UNCHANGED <<clock, store>>,
           UsersHeld(now, w, m, x, Seen(s).users),
           s = "dispatcher" => Serves(Skippable, now, w, m, x, Seen(s).users)
    PROVE  ServiceInv'
<1>1. UNCHANGED <<db, wal, writer, now, up, ran, crashes>>
    BY DEF store, clock
<1>2. \A o \in Sessions : Seen(o)' = Seen(o)
    BY <1>1 DEF Seen
<1>3. UserStore
    BY DEF ServiceInv
<1>4. UserStore' /\ Spread({s})
    BY <1>1, <1>2, <1>3, FollowsOrder DEF UserStore, Spread, Excusing
<1> QED
    BY <1>1, <1>2, <1>4, ServiceStep

\* A step that flushes or commits the rows m.
LEMMA FlushService ==
    ASSUME TypeOK, RowInv, ServiceInv, crashes = 0, HasRoom, Excusing,
           NEW s \in Sessions, NEW m \in Cache, MayBring(s, m),
           Flush(s, m) \/ Commit(s, m),
           NEW w, NEW h, NEW x, GoOn(s, w), Hold(s, h, x),
           UNCHANGED <<now, up, crashes>>, ran' \subseteq ran \cup {s},
           UsersHeld(now, w, h, x, Seen(s)'.users),
           "dispatcher" \in ran' \ ran =>
               \A u \in Users \ Skippable : ~ DueBy(now, db'.users[u]),
           s = "dispatcher" => Serves(Skippable, now, w, h, x, Seen(s)'.users)
    PROVE  ServiceInv'
<1>1. UserStore /\ StoreInv
    BY OwnUsers
<1>2. UserStore' /\ Spread({s})
    BY <1>1, UserWrite
<1> QED
    BY <1>2, ServiceStep

\* What the dispatcher has ahead of it after a flush of m.
LEMMA FlushServes ==
    ASSUME TypeOK, RowInv, ServiceInv, crashes = 0, HasRoom, Excusing,
           NEW s \in Sessions, s = "dispatcher",
           NEW m \in Cache, MayBring(s, m),
           Flush(s, m) \/ Commit(s, m), UNCHANGED now,
           task[s].pc \in InPass, NEW u \in Users,
           DueBy(now, Seen(s)'.users[u])
    PROVE  /\ Untouched(base[s].users[u], m.users[u])
           /\ \/ task[s].pc # "commit" /\ u \in task[s].queue
              \/ /\ task[s].pc \in OneUser /\ u = task[s].who
                 /\ mine[s].users[u].active
              \/ mine[s].users[u].next # base[s].users[u].next
              \/ u \in Skippable
<1>1. UserStore /\ StoreInv
    BY OwnUsers
<1>2. /\ DueBy(now, Seen(s).users[u])
      /\ Untouched(base[s].users[u], m.users[u])
    BY <1>1, UserWrite
<1> QED
    BY <1>2, OwnUsers DEF Serves

\* A session that has written its rows and goes on with them.
LEMMA FlushedHeld ==
    ASSUME TypeOK, RowInv, ServiceInv, crashes = 0, HasRoom, Excusing,
           NEW s \in Sessions, NEW m \in Cache, MayBring(s, m),
           Flush(s, m) \/ Commit(s, m), UNCHANGED now,
           NEW w, w.loaded = task[s].loaded, w.pc \in OneUser,
           w.queue \subseteq w.loaded, w.who \in w.loaded,
           task[s].pc # "settings"
    PROVE  UsersHeld(now, w, m, m, Seen(s)'.users)
<1>1. UserStore /\ StoreInv
    BY OwnUsers
<1>2. \A u \in Users : Follows(now, base[s].users[u], Seen(s).users[u]) =>
                           Follows(now, m.users[u], Seen(s)'.users[u])
    BY <1>1, UserWrite
<1>3. UsersHeld(now, task[s], mine[s], base[s], Seen(s).users)
    BY OwnUsers
<1>4. \A u \in w.loaded \cap Users :
          Follows(now, base[s].users[u], Seen(s).users[u])
    BY <1>3 DEF UsersHeld
<1>5. \A u \in Users : Brought(now, m.users[u], m.users[u], Seen(s)'.users[u])
    BY DEF Brought, Untouched
<1> QED
    BY <1>2, <1>4, <1>5 DEF UsersHeld, OneUser, InPass

\* A session without work.
LEMMA IdleServes ==
    ASSUME NEW E, NEW t, NEW w, NEW m, NEW seen,
           w.pc \notin InPass \cup {"settings"}, w.loaded = {}
    PROVE  UsersHeld(t, w, m, m, seen) /\ Serves(E, t, w, m, m, seen)
BY DEF UsersHeld, Serves, Brought, Untouched, InPass, OneUser

-----------------------------------------------------------------------------
(* The passes, user by user.                                               *)

\* Whom a session schedules has a heartbeat to come.
LEMMA ScheduledIsAhead ==
    ASSUME TypeOK, IntervalsLast, NEW users \in [Users -> UserRow],
           Chosen(users), NEW S, NEW u \in Users
    PROVE  LET new == Scheduling(users, S)[u]
           IN  /\ new.active = users[u].active
               /\ u \notin S => new = users[u]
               /\ u \in S => new.next > now
<1>1. ComputeNext(users[u].config) > now
    BY ChosenIsAhead
<1>2. users[u] \in UserRow
    OBVIOUS
<1> QED
    BY <1>1, <1>2 DEF Scheduling, UserRow

LEMMA StartService ==
    ASSUME TypeOK, RowInv, ServiceInv, crashes = 0, HasRoom, Excusing,
           NEW j \in Jobs,
           StartPass(j)
    PROVE  ServiceInv'
<1> USE DEF Sessions
<1> DEFINE t == task[j]
           S == IF j = "dispatcher" THEN Due ELSE Outstanding
           w == [t EXCEPT !.pc = "scan", !.queue = S, !.loaded = S]
           m == [Empty EXCEPT !.users = [u \in Users |->
                     IF u \in S THEN db.users[u] ELSE Unloaded]]
<1>0. t \in Task /\ (t.pc = "idle" => writer # j)
    BY OwnRows
<1>1. /\ GoOn(j, w) /\ Hold(j, m, m)
      /\ UNCHANGED <<clock, store>> /\ t.pc = "idle"
    BY DEF StartPass
<1>2. w.pc = "scan" /\ w.queue = S /\ w.loaded = S
    BY <1>0 DEF Task
<1>3. Seen(j) = db
    BY <1>0, <1>1 DEF Seen
<1>4. \A u \in Users : u \in S => m.users[u] = db.users[u]
    BY DEF Empty
<1>5. j = "dispatcher" => S = Due
    OBVIOUS
<1> HIDE DEF w, m, S
<1>6. UsersHeld(now, w, m, m, Seen(j).users)
  <2>1. \A u \in Users : /\ Brought(now, m.users[u], m.users[u], db.users[u])
                         /\ u \in S => Follows(now, m.users[u], db.users[u])
    BY <1>4, FollowsOrder DEF Brought, Untouched
  <2> QED
    BY <1>2, <1>3, <2>1 DEF UsersHeld, InPass, OneUser
<1>7. ASSUME j = "dispatcher"
      PROVE  Serves(Skippable, now, w, m, m, Seen(j).users)
  <2>1. \A u \in Users : u \in S <=> DueBy(now, db.users[u])
    BY <1>5, <1>7 DEF Due, DueBy
  <2>2. S \subseteq Users
    BY <1>5, <1>7 DEF Due
  <2>3. \A u \in S : m.users[u].active /\ m.users[u].next <= now
    BY <1>4, <2>1, <2>2 DEF DueBy
  <2> QED
    BY <1>2, <1>3, <2>1, <2>3 DEF Serves, OneUser
<1> QED
    BY <1>1, <1>6, <1>7, QuietService

LEMMA RescheduleService ==
    ASSUME TypeOK, RowInv, ConfigInv, ServiceInv, crashes = 0, HasRoom,
           Excusing,
           IntervalsLast, NEW j \in Jobs, NEW u \in Users, Reschedule(j, u)
    PROVE  ServiceInv'
<1> USE DEF Sessions
<1> DEFINE t == task[j]
           m == [mine[j] EXCEPT !.users = Scheduling(@, {u})]
           w == [t EXCEPT !.queue = @ \ {u}]
           x == base[j]
<1>0. /\ t \in Task /\ mine[j] \in Cache
      /\ UsersHeld(now, t, mine[j], x, Seen(j).users)
      /\ Serves(Skippable, now, t, mine[j], x, Seen(j).users)
    BY OwnRows, OwnUsers DEF Reschedule
<1>1. /\ t.pc = "scan" /\ u \in t.queue /\ GoOn(j, w)
      /\ UNCHANGED <<clock, store, base>>
      /\ mine' = [mine EXCEPT ![j] = m]
    BY DEF Reschedule
<1>2. Hold(j, m, x)
    BY <1>1, SameHold
<1>3. w.pc = "scan" /\ w.queue = t.queue \ {u} /\ w.loaded = t.loaded
    BY <1>0, <1>1 DEF Task
<1>4. \A v \in Users :
          /\ m.users[v].active = mine[j].users[v].active
          /\ v # u => m.users[v] = mine[j].users[v]
  <2>1. mine[j].users \in [Users -> UserRow] /\ Chosen(mine[j].users)
    BY <1>0 DEF Cache, ConfigInv
  <2>2. m.users = Scheduling(mine[j].users, {u})
    BY <1>0 DEF Cache
  <2> QED
    BY <2>1, <2>2, ScheduledIsAhead
<1>5. m.users[u].next > now
  <2>1. mine[j].users \in [Users -> UserRow] /\ Chosen(mine[j].users)
    BY <1>0 DEF Cache, ConfigInv
  <2>2. m.users = Scheduling(mine[j].users, {u})
    BY <1>0 DEF Cache
  <2> QED
    BY <2>1, <2>2, ScheduledIsAhead
<1> HIDE DEF m, w
<1>6. /\ mine[j].users[u].next <= now /\ t.queue \subseteq t.loaded
      /\ mine[j].users[u].next = x.users[u].next
      /\ Follows(now, x.users[u], Seen(j).users[u])
    BY <1>0, <1>1 DEF UsersHeld, Serves
<1>7. Brought(now, x.users[u], m.users[u], Seen(j).users[u])
  <2>1. m.users[u].active = x.users[u].active
    BY <1>0, <1>4 DEF UsersHeld
  <2> QED
    BY <1>5, <1>6, <2>1 DEF Brought, Rewritten, Follows
<1>8. UsersHeld(now, w, m, x, Seen(j).users)
    BY <1>0, <1>1, <1>3, <1>4, <1>6, <1>7 DEF UsersHeld, InPass, OneUser
<1>9. Serves(Skippable, now, w, m, x, Seen(j).users)
  <2>1. m.users[u].next # x.users[u].next
    <3>1. /\ m.users[u].next \in Int /\ now \in Nat
      <4>1. m \in Cache
        BY <1>0, RowTypes, SchedulingType DEF m, Cache
      <4> QED
        BY <4>1, RowTypes DEF Cache, UserRow
    <3> QED
      BY <1>5, <1>6, <3>1
  <2>2. t.queue \subseteq Users
    BY <1>0 DEF Task
  <2> QED
    BY <1>0, <1>1, <1>3, <1>4, <2>1, <2>2 DEF Serves, InPass, OneUser
<1> QED
    BY <1>1, <1>2, <1>8, <1>9, QuietService

LEMMA FinishService ==
    ASSUME TypeOK, RowInv, ConfigInv, ServiceInv, crashes = 0, HasRoom,
           Excusing,
           IntervalsLast, NEW j \in Jobs, FinishScan(j)
    PROVE  ServiceInv'
<1> USE DEF Sessions
<1> DEFINE t     == task[j]
           w     == [t EXCEPT !.pc = "commit"]
           seen  == Merged(j, mine[j]).users
           found == IF j = "dispatcher"
                    THEN {u \in Users : seen[u].active /\ seen[u].next = Never}
                    ELSE {}
           x     == [mine[j] EXCEPT !.users = [u \in Users |->
                        IF u \in found \ t.loaded THEN seen[u] ELSE @[u]]]
           m     == [x EXCEPT !.users = Scheduling(@, found)]
<1>0. /\ t \in Task /\ mine[j] \in Cache
      /\ UserStore /\ StoreInv /\ MayBring(j, mine[j])
      /\ UsersHeld(now, t, mine[j], base[j], Seen(j).users)
      /\ j = "dispatcher" =>
             Serves(Skippable, now, t, mine[j], base[j], Seen(j).users)
    BY OwnRows, OwnUsers
<1>1. /\ t.pc = "scan" /\ t.queue = {} /\ GoOn(j, w) /\ Flush(j, mine[j])
      /\ Hold(j, m, x) /\ UNCHANGED <<now, up, crashes, ran>>
    BY DEF FinishScan, Goto, clock
<1>2. w.pc = "commit" /\ w.loaded = t.loaded
    BY <1>0 DEF Task
<1>3. /\ seen \in [Users -> UserRow] /\ Chosen(seen)
      /\ mine[j].users \in [Users -> UserRow] /\ Chosen(mine[j].users)
    BY <1>0, MergedType, MergedChosen DEF Database, Cache, ConfigInv
<1>4. /\ x.users \in [Users -> UserRow]
      /\ \A u \in Users :
             x.users[u] = IF u \in found \ t.loaded THEN seen[u]
                                                    ELSE mine[j].users[u]
      /\ m.users = Scheduling(x.users, found)
    BY <1>0, <1>3 DEF Cache
<1> HIDE DEF w, m, x, seen, found
<1>5. Chosen(x.users)
    BY <1>3, <1>4 DEF Chosen
<1>6. \A u \in Users :
          /\ m.users[u].active = x.users[u].active
          /\ u \notin found => m.users[u] = x.users[u]
          /\ u \in found => m.users[u].next > now
    BY <1>4, <1>5, ScheduledIsAhead
<1>7. \A u \in Users :
          /\ Seen(j)'.users[u] = seen[u]
          /\ Follows(now, base[j].users[u], Seen(j).users[u]) =>
                 Follows(now, mine[j].users[u], Seen(j)'.users[u])
    BY <1>0, <1>1, UserWrite DEF seen
<1>8. \A u \in Users : u \in t.loaded \/ u \in found =>
          Follows(now, x.users[u], Seen(j)'.users[u])
    BY <1>0, <1>4, <1>7, FollowsOrder DEF UsersHeld
<1>9. \A u \in Users :
          Brought(now, x.users[u], m.users[u], Seen(j)'.users[u])
    BY <1>6, <1>8 DEF Brought, Untouched, Rewritten, Follows
<1>10. UsersHeld(now, w, m, x, Seen(j)'.users)
    BY <1>2, <1>6, <1>8, <1>9 DEF UsersHeld, InPass, OneUser
<1>11. ASSUME j = "dispatcher"
       PROVE  Serves(Skippable, now, w, m, x, Seen(j)'.users)
  <2>1. \A u \in Users \ Skippable : ~ DueBy(now, Seen(j)'.users[u])
    BY <1>0, <1>1, <1>11, FlushServes DEF InPass, OneUser, Untouched
  <2> QED
    BY <1>2, <2>1 DEF Serves, OneUser
<1> QED
    BY <1>0, <1>1, <1>10, <1>11, FlushService

LEMMA EndService ==
    ASSUME TypeOK, RowInv, ServiceInv, crashes = 0, HasRoom, Excusing,
           NEW j \in Jobs,
           FinishPass(j)
    PROVE  ServiceInv'
<1> USE DEF Sessions
<1> DEFINE t == task[j]
           w == IF t.pend = {} THEN Idle
                ELSE [Idle EXCEPT !.pc = "notify", !.pend = t.pend]
<1>0. mine[j] \in Cache /\ StoreInv /\ MayBring(j, mine[j])
      /\ Held(now, base[j].log, mine[j].log, Seen(j).log, db.log)
    BY OwnRows, OwnUsers
<1>1. w.pc \in {"idle", "notify"} /\ w.loaded = {}
    BY DEF Idle
<1>2. /\ UNCHANGED <<now, up, crashes, issued>> /\ GoOn(j, w)
      /\ ran' = ran \cup {j}
      /\ Commit(j, mine[j]) /\ Hold(j, Empty, Empty) /\ t.pc = "commit"
    BY DEF FinishPass
<1> HIDE DEF w
<1>3. ASSUME j = "dispatcher"
      PROVE  \A u \in Users \ Skippable : ~ DueBy(now, db'.users[u])
  <2>1. \A u \in Users \ Skippable : ~ DueBy(now, Seen(j)'.users[u])
    BY <1>0, <1>2, <1>3, FlushServes DEF InPass, OneUser, Untouched
  <2>2. writer' # j
    BY <1>0, <1>2, WriteStep
  <2> QED
    BY <2>1, <2>2 DEF Seen
<1>4. /\ UsersHeld(now, w, Empty, Empty, Seen(j)'.users)
      /\ Serves(Skippable, now, w, Empty, Empty, Seen(j)'.users)
    BY <1>1, IdleServes DEF InPass, OneUser
<1> QED
    BY <1>0, <1>2, <1>3, <1>4, FlushService

LEMMA SelectService ==
    ASSUME TypeOK, RowInv, ServiceInv, crashes = 0, HasRoom, Excusing,
           NEW j \in Jobs, NEW u \in Users, SelectExpired(j, u)
    PROVE  ServiceInv'
<1> USE DEF Sessions
<1> DEFINE t     == task[j]
           seen  == Merged(j, mine[j]).log
           found == Expired(seen, u, mine[j].users[u].config.window)
           m     == [users |-> mine[j].users,
                     log   |-> [b \in Beats |-> IF b \in found THEN seen[b]
                                                               ELSE NoBeat]]
           w     == [t EXCEPT !.pc = "check", !.who = u, !.rest = found,
                              !.queue = @ \ {u}]
<1>0. /\ t \in Task /\ mine[j] \in Cache /\ MayBring(j, mine[j])
      /\ UsersHeld(now, t, mine[j], base[j], Seen(j).users)
      /\ j = "dispatcher" =>
             Serves(Skippable, now, t, mine[j], base[j], Seen(j).users)
    BY OwnRows, OwnUsers
<1>1. /\ Flush(j, mine[j]) /\ Hold(j, m, m) /\ GoOn(j, w)
      /\ UNCHANGED <<now, up, crashes, ran>>
      /\ t.pc = "scan" /\ u \in t.queue /\ m.users = mine[j].users
    BY DEF SelectExpired, clock
<1>2. /\ w.pc = "check" /\ w.queue = t.queue \ {u} /\ w.who = u
      /\ w.loaded = t.loaded
    BY <1>0 DEF Task
<1> HIDE DEF m, w
<1>3. t.queue \subseteq t.loaded /\ t.queue \subseteq Users
    BY <1>0, <1>1 DEF UsersHeld, OneUser, Task
<1>4. UsersHeld(now, w, mine[j], mine[j], Seen(j)'.users)
    BY <1>0, <1>1, <1>2, <1>3, FlushedHeld DEF OneUser
<1>5. UsersHeld(now, w, m, m, Seen(j)'.users)
    BY <1>1, <1>4 DEF UsersHeld
<1>6. ASSUME j = "dispatcher"
      PROVE  Serves(Skippable, now, w, m, m, Seen(j)'.users)
  <2>1. \A v \in t.queue : mine[j].users[v].active
                               /\ mine[j].users[v].next <= now
    BY <1>0, <1>1, <1>6 DEF Serves, OneUser
  <2>2. \A v \in Users : DueBy(now, Seen(j)'.users[v]) =>
                             v \in t.queue \/ v \in Skippable
    BY <1>0, <1>1, <1>6, FlushServes DEF InPass, OneUser, Untouched
  <2> QED
    BY <1>1, <1>2, <1>3, <2>1, <2>2 DEF Serves, OneUser
<1> QED
    BY <1>0, <1>1, <1>5, <1>6, FlushService

\* The work on one user, without a write.
LEMMA GoOnServes ==
    ASSUME NEW E, NEW t, NEW old, NEW w, NEW h, NEW m, NEW x, NEW seen,
           UsersHeld(t, old, h, x, seen), m.users = h.users,
           old.pc \in OneUser, w.pc \in OneUser, w.who = old.who,
           w.queue = old.queue, w.loaded = old.loaded
    PROVE  /\ UsersHeld(t, w, m, x, seen)
           /\ Serves(E, t, old, h, x, seen) => Serves(E, t, w, m, x, seen)
BY DEF UsersHeld, Serves, InPass, OneUser

\* The work on one user, with a write: what changes of the user is not the next
\* time, unless the user is deactivated.
LEMMA WorkService ==
    ASSUME TypeOK, OnTask, RowInv, ServiceInv, crashes = 0, HasRoom, Excusing,
           NEW j \in Jobs, NEW m \in Cache,
           \A u \in Users :
               \/ Untouched(mine[j].users[u], m.users[u])
               \/ /\ u = task[j].who
                  /\ ~ m.users[u].active /\ m.users[u].next = Never,
           Flush(j, m) \/ Commit(j, m), UNCHANGED <<now, up, crashes, ran>>,
           NEW w, GoOn(j, w), Hold(j, m, m),
           task[j].pc \in OneUser, w.pc \in OneUser, w.who = task[j].who,
           w.queue = task[j].queue, w.loaded = task[j].loaded
    PROVE  ServiceInv'
<1> USE DEF Sessions
<1> DEFINE t == task[j]
<1>0. /\ t \in Task /\ t.who \in Users \ t.queue
      /\ UsersHeld(now, t, mine[j], base[j], Seen(j).users)
      /\ j = "dispatcher" =>
             Serves(Skippable, now, t, mine[j], base[j], Seen(j).users)
    BY OwnRows, OwnUsers DEF OnTask, Sound
<1>1. /\ mine[j].users = base[j].users
      /\ t.queue \subseteq t.loaded /\ t.who \in t.loaded
      /\ Follows(now, base[j].users[t.who], Seen(j).users[t.who])
    BY <1>0 DEF UsersHeld, OneUser
<1>2. MayBring(j, m)
    BY <1>1 DEF MayBring, Brought, Untouched, Rewritten, Follows
<1>3. UsersHeld(now, w, m, m, Seen(j)'.users)
    BY <1>1, <1>2, FlushedHeld DEF OneUser
<1>4. ASSUME j = "dispatcher"
      PROVE  Serves(Skippable, now, w, m, m, Seen(j)'.users)
  <2>1. /\ \A u \in t.queue : mine[j].users[u].active
                                  /\ mine[j].users[u].next <= now
        /\ mine[j].users[t.who].next <= now
    BY <1>0, <1>4 DEF Serves, OneUser
  <2>2. t.queue \subseteq Users /\ Never <= now
    BY <1>0, RowTypes DEF Task, Never
  <2>3. /\ \A u \in t.queue : m.users[u].active /\ m.users[u].next <= now
        /\ m.users[t.who].next <= now
    BY <1>0, <2>1, <2>2 DEF Untouched
  <2>4. ASSUME NEW u \in Users, DueBy(now, Seen(j)'.users[u])
        PROVE  \/ u \in t.queue \/ (u = t.who /\ m.users[u].active)
               \/ u \in Skippable
    <3>1. /\ Untouched(base[j].users[u], m.users[u])
          /\ \/ u \in t.queue \/ (u = t.who /\ mine[j].users[u].active)
             \/ u \in Skippable
      BY <1>1, <1>2, <1>4, <2>4, FlushServes DEF InPass, OneUser
    <3> QED
      BY <1>1, <3>1 DEF Untouched
  <2> QED
    BY <2>3, <2>4 DEF Serves, OneUser
<1> QED
    BY <1>2, <1>3, <1>4, FlushService

\* Whoever is skipped with a TypeError has been warned, and has not answered or
\* has answered in this hour.
LEMMA SkippedWaits ==
    ASSUME TypeOK, OnTask, ConfigInv, RowInv, WarnedInv, AnswerInv,
           NEW j \in Jobs, NEW b \in Beats, RaiseTypeError(j, b)
    PROVE  task[j].who \in Skippable
<1> DEFINE row == mine[j].log[b]
<1> USE DEF Sessions
<1>1. Checking(j, b) /\ row.status = "escalated" /\ ~ TimestampsAware
    BY DEF RaiseTypeError, NeedsVerdict
<1>2. /\ db.log[b].status # "none" /\ row.user = task[j].who
      /\ Later(now, row, Seen(j).log[b]) /\ task[j].who \in Users
    BY <1>1, RestRows
<1>3. Seen(j).log[b].user = task[j].who
    BY <1>1, <1>2 DEF Later
<1>4. db.log[b].user = task[j].who
    BY <1>2, <1>3 DEF Seen, RowInv, StoreInv, Stored, Later
<1>5. b \in warned
    BY <1>1 DEF WarnedInv, Warned
<1>6. b \in Pending
    BY <1>1, OwnAnswers DEF Open
<1> QED
    BY <1>1, <1>2, <1>4, <1>5, <1>6 DEF Skippable, Pending

LEMMA TaskService ==
    ASSUME TypeOK, OnTask, ConfigInv, RowInv, WarnedInv, AnswerInv, ServiceInv,
           crashes = 0, HasRoom, Excusing, NEW j \in Jobs,
           \/ \E b \in Beats : \/ RaiseTypeError(j, b) \/ Leave(j, b)
                               \/ Notify(j, b) \/ Escalate(j, b)
           \/ NextUser(j)
    PROVE  ServiceInv'
<1> USE DEF Sessions
<1> DEFINE t == task[j]
           x == base[j]
<1>0. /\ t \in Task /\ mine[j] \in Cache
      /\ UsersHeld(now, t, mine[j], x, Seen(j).users)
      /\ j = "dispatcher" =>
             Serves(Skippable, now, t, mine[j], x, Seen(j).users)
      /\ OnRows(now, t, mine[j], base[j])
    BY OwnRows, OwnUsers
<1>1. UNCHANGED <<clock, store, base>>
    BY DEF RaiseTypeError, Leave, Notify, NextUser, Escalate
<1>2. CASE NextUser(j)
  <2> DEFINE w == [t EXCEPT !.pc = "scan", !.who = Nobody]
  <2>1. /\ GoOn(j, w) /\ t.pc = "check"
        /\ w.pc = "scan" /\ w.queue = t.queue /\ w.loaded = t.loaded
        /\ j = "dispatcher" => ~ mine[j].users[t.who].active
        /\ mine' = mine
    BY <1>0, <1>2 DEF NextUser, Checked, Sends, Task
  <2> HIDE DEF w
  <2>2. Hold(j, mine[j], x)
    BY <1>1, <2>1, SameHold
  <2>3. mine[j].users = x.users
    BY <1>0, <2>1 DEF UsersHeld
  <2>4. UsersHeld(now, w, mine[j], x, Seen(j).users)
    BY <1>0, <2>1 DEF UsersHeld, InPass, OneUser
  <2>5. ASSUME j = "dispatcher"
        PROVE  Serves(Skippable, now, w, mine[j], x, Seen(j).users)
    BY <1>0, <2>1, <2>3, <2>5 DEF Serves, InPass, OneUser
  <2> QED
    BY <1>1, <2>1, <2>2, <2>4, <2>5, QuietService
<1>3. CASE \E b \in Beats : Leave(j, b)
  <2> PICK b \in Beats : Leave(j, b)
    BY <1>3
  <2> DEFINE w == [t EXCEPT !.rest = @ \ {b}]
  <2>1. /\ w.pc = "check" /\ t.pc = "check" /\ GoOn(j, w) /\ mine' = mine
        /\ w.who = t.who /\ w.queue = t.queue /\ w.loaded = t.loaded
    BY <1>0 DEF Leave, Checking, Task
  <2> HIDE DEF w
  <2>2. Hold(j, mine[j], x)
    BY <1>1, <2>1, SameHold
  <2>3. /\ UsersHeld(now, w, mine[j], x, Seen(j).users)
        /\ j = "dispatcher" =>
               Serves(Skippable, now, w, mine[j], x, Seen(j).users)
    BY <1>0, <2>1, GoOnServes DEF OneUser
  <2> QED
    BY <1>1, <2>1, <2>2, <2>3, QuietService
<1>4. CASE \E b \in Beats : Escalate(j, b)
  <2> PICK b \in Beats : Escalate(j, b)
    BY <1>4
  <2> DEFINE w == [t EXCEPT !.pc = "mail", !.rest = @ \ {b}]
             m == Escalated(j, b)
  <2>1. /\ w.pc = "mail" /\ t.pc = "check" /\ GoOn(j, w)
        /\ w.who = t.who /\ w.queue = t.queue /\ w.loaded = t.loaded
        /\ mine' = [mine EXCEPT ![j] = m] /\ m.users = mine[j].users
    BY <1>0 DEF Escalate, Escalated, Checking, Task, Cache
  <2> HIDE DEF w, m
  <2>2. Hold(j, m, x)
    BY <1>1, <2>1, SameHold
  <2>3. /\ UsersHeld(now, w, m, x, Seen(j).users)
        /\ j = "dispatcher" => Serves(Skippable, now, w, m, x, Seen(j).users)
    BY <1>0, <2>1, GoOnServes DEF OneUser
  <2> QED
    BY <1>1, <2>1, <2>2, <2>3, QuietService
<1>5. CASE \E b \in Beats : Notify(j, b)
  <2> PICK b \in Beats : Notify(j, b)
    BY <1>5
  <2> DEFINE w == IF t.pend = {b} THEN Idle
                  ELSE [t EXCEPT !.pend = @ \ {b}]
  <2>1. /\ t.pc = "notify" /\ GoOn(j, w) /\ mine' = mine
    BY DEF Notify
  <2>2. /\ t.loaded = {} /\ mine[j] = x
    BY <1>0, <2>1 DEF UsersHeld, OnRows, InPass, OneUser
  <2>3. w.pc \in {"idle", "notify"} /\ w.loaded = {}
    BY <1>0, <2>1, <2>2 DEF Task, Idle
  <2> HIDE DEF w
  <2>4. Hold(j, mine[j], x)
    BY <1>1, <2>1, SameHold
  <2>5. /\ UsersHeld(now, w, mine[j], x, Seen(j).users)
        /\ Serves(Skippable, now, w, mine[j], x, Seen(j).users)
    BY <2>2, <2>3, IdleServes DEF InPass, OneUser
  <2> QED
    BY <1>1, <2>1, <2>4, <2>5, QuietService
<1>6. CASE \E b \in Beats : RaiseTypeError(j, b)
  <2> PICK b \in Beats : RaiseTypeError(j, b)
    BY <1>6
  <2> DEFINE w == [t EXCEPT !.pc = "scan", !.who = Nobody, !.rest = {}]
  <2>1. /\ GoOn(j, w) /\ t.pc = "check" /\ mine' = mine
        /\ w.pc = "scan" /\ w.queue = t.queue /\ w.loaded = t.loaded
    BY <1>0 DEF RaiseTypeError, Checking, Task
  <2> HIDE DEF w
  <2>2. Hold(j, mine[j], x) /\ t.who \in Skippable
    BY <1>1, <2>1, SameHold, SkippedWaits
  <2>3. UsersHeld(now, w, mine[j], x, Seen(j).users)
    BY <1>0, <2>1 DEF UsersHeld, InPass, OneUser
  <2>4. ASSUME j = "dispatcher"
        PROVE  Serves(Skippable, now, w, mine[j], x, Seen(j).users)
    BY <1>0, <2>1, <2>2, <2>4 DEF Serves, InPass, OneUser
  <2> QED
    BY <1>1, <2>1, <2>2, <2>3, <2>4, QuietService
<1> QED
    BY <1>2, <1>3, <1>4, <1>5, <1>6

LEMMA MissService ==
    ASSUME TypeOK, OnTask, RowInv, ServiceInv, crashes = 0, HasRoom, Excusing,
           NEW j \in Jobs, NEW b \in Beats, Miss(j, b)
    PROVE  ServiceInv'
<1> USE DEF Sessions
<1> DEFINE t     == task[j]
           m     == Missed(j, b)
           fires == AtThreshold(m.users[t.who]) /\ RecipientsOf[t.who] # {}
           w     == [t EXCEPT
                        !.rest = @ \ {b},
                        !.pc   = IF fires THEN "trigger" ELSE @,
                        !.todo = IF fires THEN RecipientsOf[t.who] ELSE {}]
<1>0. t \in Task /\ mine[j] \in Cache
    BY OwnRows
<1>1. m \in Cache
    BY <1>0, MissedType
<1>2. \A u \in Users : Untouched(mine[j].users[u], m.users[u])
    BY <1>0 DEF Missed, Cache, UserRow, Untouched
<1>3. /\ t.pc = "check" /\ GoOn(j, w) /\ Hold(j, m, m) /\ Flush(j, m)
      /\ UNCHANGED <<now, up, crashes, ran>>
    BY DEF Miss, Missable, Checking, clock
<1>4. /\ w.pc \in {"check", "trigger"} /\ w.who = t.who
      /\ w.queue = t.queue /\ w.loaded = t.loaded
    BY <1>0, <1>3 DEF Task
<1> HIDE DEF m, w
<1> QED
    BY <1>1, <1>2, <1>3, <1>4, WorkService DEF OneUser

LEMMA TriggerService ==
    ASSUME TypeOK, OnTask, RowInv, ServiceInv, crashes = 0, HasRoom, Excusing,
           NEW j \in Jobs,
           \/ FlushEscalation(j) \/ CommitTrigger(j) \/ Deactivate(j)
           \/ \E r \in Recipients, outcome \in Outcomes : Deliver(j, r, outcome)
    PROVE  ServiceInv'
<1> USE DEF Sessions
<1> DEFINE t == task[j]
<1>0. /\ t \in Task /\ mine[j] \in Cache
      /\ UsersHeld(now, t, mine[j], base[j], Seen(j).users)
      /\ j = "dispatcher" =>
             Serves(Skippable, now, t, mine[j], base[j], Seen(j).users)
      /\ UserStore
    BY OwnRows, OwnUsers
<1>1. CASE FlushEscalation(j) \/ CommitTrigger(j)
  <2>1. PICK pc \in {"check", "deactivate"} :
            /\ Goto(j, pc) /\ Hold(j, mine[j], mine[j])
            /\ Flush(j, mine[j]) \/ Commit(j, mine[j])
            /\ UNCHANGED <<now, up, crashes, ran>>
            /\ t.pc \in {"mail", "trigger"}
    BY <1>1 DEF FlushEscalation, CommitTrigger, clock
  <2> DEFINE w == [t EXCEPT !.pc = pc]
  <2>2. /\ w.pc = pc /\ w.who = t.who /\ w.queue = t.queue
        /\ w.loaded = t.loaded /\ GoOn(j, w)
    BY <1>0, <2>1 DEF Task, Goto
  <2> HIDE DEF w
  <2>3. \A u \in Users : Untouched(mine[j].users[u], mine[j].users[u])
    BY DEF Untouched
  <2> QED
    BY <1>0, <2>1, <2>2, <2>3, WorkService DEF OneUser
<1>2. CASE Deactivate(j)
  <2> DEFINE m == Deactivated(j)
             w == [t EXCEPT !.pc = "check"]
  <2>1. m \in Cache
    BY <1>0, DeactivatedType
  <2>2. \A u \in Users : \/ Untouched(mine[j].users[u], m.users[u])
                         \/ /\ u = t.who
                            /\ ~ m.users[u].active /\ m.users[u].next = Never
    BY <1>0 DEF Deactivated, Cache, UserRow, Untouched
  <2>3. /\ GoOn(j, w) /\ Hold(j, m, m) /\ Commit(j, m)
        /\ UNCHANGED <<now, up, crashes, ran>> /\ t.pc = "deactivate"
    BY <1>2 DEF Deactivate, Goto, clock
  <2>4. /\ w.pc = "check" /\ w.who = t.who /\ w.queue = t.queue
        /\ w.loaded = t.loaded
    BY <1>0 DEF Task
  <2> HIDE DEF m, w
  <2> QED
    BY <2>1, <2>2, <2>3, <2>4, WorkService DEF OneUser
<1>3. CASE \E r \in Recipients, outcome \in Outcomes : Deliver(j, r, outcome)
  <2> PICK r \in Recipients, outcome \in Outcomes : Deliver(j, r, outcome)
    BY <1>3
  <2> DEFINE w == [t EXCEPT !.todo = @ \ {r}]
  <2>1. /\ GoOn(j, w) /\ t.pc = "trigger"
        /\ UNCHANGED <<mine, base, db, writer, now, up, crashes, ran>>
    BY DEF Deliver, clock
  <2>2. /\ w.pc = "trigger" /\ w.who = t.who /\ w.queue = t.queue
        /\ w.loaded = t.loaded
    BY <1>0, <2>1 DEF Task
  <2>3. wal'.users = wal.users
    BY DEF Deliver, TypeOK, Database
  <2> HIDE DEF w
  <2>4. \A s \in Sessions : Seen(s)'.users = Seen(s).users
    BY <2>1, <2>3 DEF Seen
  <2>5. UserStore' /\ Spread({j})
    BY <1>0, <2>1, <2>3, <2>4, FollowsOrder
    DEF UserStore, Spread, Excusing
  <2>6. Hold(j, mine[j], base[j])
    BY <2>1, SameHold
  <2>7. /\ UsersHeld(now, w, mine[j], base[j], Seen(j)'.users)
        /\ j = "dispatcher" =>
               Serves(Skippable, now, w, mine[j], base[j], Seen(j)'.users)
    BY <1>0, <2>1, <2>2, <2>4, GoOnServes DEF OneUser
  <2> QED
    BY <2>1, <2>5, <2>6, <2>7, ServiceStep
<1> QED
    BY <1>1, <1>2, <1>3

\* Whoever is sent a heartbeat has a later next time.
LEMMA CreateService ==
    ASSUME TypeOK, OnTask, ConfigInv, RowInv, ServiceInv, crashes = 0,
           HasRoom, Excusing,
           IntervalsLast, NEW j \in Jobs, CreateBeat(j)
    PROVE  ServiceInv'
<1> USE DEF Sessions
<1> DEFINE t   == task[j]
           u   == t.who
           b   == issued.real + 1
           x   == mine[j]
           new == Merged(j, x)
           m   == [x EXCEPT !.users = Scheduling(@, {u})]
           w   == [t EXCEPT !.pc = "scan", !.who = Nobody,
                            !.pend = @ \cup {b}]
<1>0. /\ t \in Task /\ x \in Cache /\ now \in Nat /\ StoreInv /\ UserStore
      /\ UsersHeld(now, t, x, base[j], Seen(j).users)
      /\ Serves(Skippable, now, t, x, base[j], Seen(j).users)
      /\ MayBring(j, x)
    BY OwnRows, OwnUsers DEF CreateBeat, Sends
<1>1. /\ t.pc = "check" /\ LockFree(j) /\ writer' = j /\ db' = db
      /\ wal' = [new EXCEPT !.log[b] = NewBeat(u)]
      /\ Hold(j, m, x) /\ GoOn(j, w) /\ x.users[u].active
      /\ UNCHANGED <<now, up, crashes, ran>>
    BY DEF CreateBeat, Sends, Checked, MayWrite, clock
<1>2. /\ u \in Users /\ u \notin t.queue /\ x.users = base[j].users
      /\ t.queue \subseteq t.loaded /\ u \in t.loaded /\ t.queue \subseteq Users
    BY <1>0, <1>1 DEF OnTask, Sound, UsersHeld, OneUser, Task
<1>3. /\ w.pc = "scan" /\ w.queue = t.queue /\ w.loaded = t.loaded
    BY <1>0 DEF Task
<1>4. Seen(j) = wal /\ Seen(j)' = wal' /\ wal'.users = new.users
    BY <1>0, <1>1, LockShowsWal, MergedType DEF Seen, Database
<1>5. /\ \A v \in Users :
             /\ m.users[v].active = x.users[v].active
             /\ v # u => m.users[v] = x.users[v]
      /\ m.users[u].next > now /\ m.users[u].next \in Int
  <2>1. x.users \in [Users -> UserRow] /\ Chosen(x.users)
    BY <1>0 DEF Cache, ConfigInv
  <2>2. m.users = Scheduling(x.users, {u})
    BY <1>0 DEF Cache
  <2>3. m.users \in [Users -> UserRow]
    BY <1>0, <2>1, <2>2, SchedulingType
  <2>4. m.users[u].next \in Int
    BY <1>2, <2>3 DEF UserRow
  <2> HIDE DEF m, x
  <2>5. \A v \in Users : /\ m.users[v].active = x.users[v].active
                         /\ v \notin {u} => m.users[v] = x.users[v]
                         /\ v \in {u} => m.users[v].next > now
    BY <2>1, <2>2, ScheduledIsAhead
  <2> QED
    BY <1>2, <2>4, <2>5
<1> HIDE DEF m, w, new, b
<1>6. \A v \in Users :
          /\ v \notin Excused => OnTime(now, wal'.users[v])
          /\ Moves(now, wal.users[v], wal'.users[v])
          /\ Follows(now, base[j].users[v], Seen(j).users[v]) =>
                 Follows(now, x.users[v], wal'.users[v])
  <2> TAKE v \in Users
  <2>1. /\ Seen(j).users[v] \in UserRow /\ base[j].users[v] \in UserRow
        /\ x.users[v] \in UserRow
        /\ wal'.users[v] = MergeUser(Seen(j).users[v], base[j].users[v],
                                     x.users[v])
    BY <1>4, UserTypes DEF Merged, new
  <2>2. /\ Brought(now, base[j].users[v], x.users[v], Seen(j).users[v])
        /\ v \notin Excused => OnTime(now, Seen(j).users[v])
    BY <1>0 DEF MayBring, UserStore, Seen
  <2> QED
    BY <1>0, <1>4, <2>1, <2>2, MergedUser
<1>7. UserStore' /\ Spread({j})
  <2>1. \A v \in Users : Moves(now, db.users[v], wal'.users[v])
    BY <1>0, <1>6, FollowsOrder DEF UserStore
  <2>2. Nobody \notin Sessions
    BY CheckInAssumption
  <2>3. \A o \in Sessions \ {j} : Seen(o) = db /\ Seen(o)' = db'
    BY <1>1, <2>2 DEF Seen, LockFree
  <2>4. UserStore'
    BY <1>0, <1>1, <1>6, <2>1 DEF UserStore, Excusing
  <2> QED
    BY <1>1, <2>3, <2>4, FollowsOrder DEF Spread
<1>8. UsersHeld(now, w, m, x, Seen(j)'.users)
  <2>1. \A v \in Users : v \in t.loaded =>
            Follows(now, x.users[v], Seen(j)'.users[v])
    BY <1>0, <1>4, <1>6 DEF UsersHeld
  <2>2. \A v \in Users :
            Brought(now, x.users[v], m.users[v], Seen(j)'.users[v])
    BY <1>2, <1>5, <2>1 DEF Brought, Untouched, Rewritten, Follows
  <2> QED
    BY <1>2, <1>3, <1>5, <2>1, <2>2 DEF UsersHeld, InPass, OneUser
<1>9. Serves(Skippable, now, w, m, x, Seen(j)'.users)
  <2>1. /\ \A v \in t.queue : x.users[v].active /\ x.users[v].next <= now
        /\ x.users[u].next <= now /\ x.users[u].next \in Int
    BY <1>0, <1>1, <1>2, UserTypes DEF Serves, OneUser, UserRow
  <2>2. m.users[u].next # x.users[u].next
    BY <1>0, <1>5, <2>1
  <2>3. \A v \in t.queue : /\ m.users[v] = x.users[v]
    BY <1>2, <1>5
  <2>4. ASSUME NEW v \in Users, DueBy(now, Seen(j)'.users[v])
        PROVE  v \in t.queue \/ v = u \/ v \in Skippable
    <3>1. DueBy(now, Seen(j).users[v])
      BY <1>4, <1>6, <2>4 DEF Moves
    <3> QED
      BY <1>0, <1>1, <1>2, <3>1 DEF Serves, InPass, OneUser
  <2> QED
    BY <1>3, <2>1, <2>2, <2>3, <2>4 DEF Serves, OneUser
<1> QED
    BY <1>1, <1>7, <1>8, <1>9, ServiceStep

LEMMA AbortService ==
    ASSUME TypeOK, RowInv, ServiceInv, crashes = 0, HasRoom, Excusing,
           NEW s \in Sessions, Abort(s)
    PROVE  ServiceInv'
<1>1. /\ GoOn(s, Idle) /\ Hold(s, Empty, Empty)
      /\ UNCHANGED <<now, up, crashes, ran, db>>
      /\ \/ writer = s /\ wal' = db /\ writer' = Nobody
         \/ writer # s /\ UNCHANGED <<wal, writer>>
    BY DEF Abort, Close, Rollback, clock
<1>2. UserStore /\ Nobody \notin Sessions
    BY OwnUsers, CheckInAssumption
<1>3. UserStore'
    BY <1>1, <1>2, FollowsOrder DEF UserStore, Excusing
<1>4. \A o \in Sessions \ {s} : Seen(o)' = Seen(o)
    BY <1>1, <1>2 DEF Seen
<1>5. Spread({s})
    BY <1>1, <1>4, FollowsOrder DEF Spread
<1>6. /\ UsersHeld(now, Idle, Empty, Empty, Seen(s)'.users)
      /\ Serves(Skippable, now, Idle, Empty, Empty, Seen(s)'.users)
    BY IdleServes DEF Idle, InPass, OneUser
<1> QED
    BY <1>1, <1>3, <1>5, <1>6, ServiceStep

LEMMA PassService ==
    ASSUME TypeOK, OnTask, ConfigInv, RowInv, WarnedInv, AnswerInv, ServiceInv,
           crashes = 0, HasRoom, Excusing, IntervalsLast, NEW j \in Jobs,
           StartPass(j) \/ Pass(j)
    PROVE  ServiceInv'
BY StartService, RescheduleService, SelectService, FinishService, EndService,
   TaskService, MissService, TriggerService, CreateService, AbortService
   DEF Pass, Sessions

-----------------------------------------------------------------------------
(* The requests, the clean-up and the clock, user by user.                 *)

\* What the settings endpoint makes of a user.
LEMMA AppliedIsAhead ==
    ASSUME TypeOK, IntervalsLast, NEW user \in UserRow, NEW body \in Bodies,
           Applied(user, body).config.interval \in Choices("interval")
    PROVE  Rewritten(now, user, Applied(user, body))
<1> DEFINE config == [f \in Fields |-> IF f \in DOMAIN body.change
                                       THEN body.change[f] ELSE user.config[f]]
           active == IF body.active = "keep" THEN user.active
                                             ELSE body.active = "on"
           y      == Applied(user, body)
<1>0. now \in Nat
    BY RowTypes
<1>1. y \in UserRow
    BY <1>0, AppliedType
<1>2. /\ y.config = config /\ y.active = active
      /\ y.next = IF Reschedules(body) /\ active THEN ComputeNext(config)
                  ELSE IF body.active = "off" THEN Never ELSE user.next
    BY DEF Applied, UserRow
<1>3. config \in Config /\ config.interval > 0
    BY <1>1, <1>2 DEF UserRow, IntervalsLast
<1> HIDE DEF config, y
<1>4. ComputeNext(config) > now
    BY <1>0, <1>3, NextIsAhead
<1>5. y.active /\ ~ user.active => Reschedules(body)
    BY <1>2 DEF Reschedules
<1> QED
    BY <1>2, <1>4, <1>5 DEF Rewritten, Follows, y

LEMMA OpenService ==
    ASSUME TypeOK, RowInv, ServiceInv, crashes = 0, HasRoom, Excusing,
           NEW r \in Requests,
           \/ \E b \in Beats : OpenLink(r, b)
           \/ FindUser(r) \/ \E u \in Users : OpenSettings(r, u)
    PROVE  ServiceInv'
<1> USE DEF Sessions
<1>0. /\ task[r] \in Task /\ r # "dispatcher"
      /\ UsersHeld(now, task[r], mine[r], base[r], Seen(r).users)
      /\ task[r].pc = "idle" => writer # r
    BY OwnRows, OwnUsers, CheckInAssumption DEF Jobs
<1>1. CASE \E b \in Beats : OpenLink(r, b)
  <2> PICK b \in Beats : OpenLink(r, b)
    BY <1>1
  <2> DEFINE m == [Empty EXCEPT !.log[b] = db.log[b]]
             w == [task[r] EXCEPT !.pc = "open", !.beat = b]
  <2>1. /\ GoOn(r, w) /\ Hold(r, m, m) /\ UNCHANGED <<clock, store>>
        /\ task[r].pc = "idle"
    BY DEF OpenLink, Starts
  <2>2. w.pc = "open" /\ w.loaded = {}
    BY <1>0, <2>1 DEF Task, UsersHeld, InPass, OneUser
  <2> HIDE DEF m, w
  <2>3. UsersHeld(now, w, m, m, Seen(r).users)
    BY <2>2, IdleServes DEF InPass, OneUser
  <2> QED
    BY <1>0, <2>1, <2>3, QuietService
<1>2. CASE FindUser(r)
  <2> DEFINE u == mine[r].log[task[r].beat].user
             m == [mine[r] EXCEPT !.users[u] = db.users[u]]
             w == [task[r] EXCEPT !.pc = "confirm", !.who = u]
  <2>1. /\ GoOn(r, w) /\ Hold(r, m, m) /\ UNCHANGED <<clock, store>>
        /\ task[r].pc = "open"
    BY <1>2 DEF FindUser
  <2>2. w.pc = "confirm" /\ w.loaded = {}
    BY <1>0, <2>1 DEF Task, UsersHeld, InPass, OneUser
  <2> HIDE DEF m, w
  <2>3. UsersHeld(now, w, m, m, Seen(r).users)
    BY <2>2, IdleServes DEF InPass, OneUser
  <2> QED
    BY <1>0, <2>1, <2>3, QuietService
<1>3. CASE \E u \in Users : OpenSettings(r, u)
  <2> PICK u \in Users : OpenSettings(r, u)
    BY <1>3
  <2> DEFINE m == [Empty EXCEPT !.users[u] = db.users[u]]
             w == [task[r] EXCEPT !.pc = "settings", !.who = u]
  <2>1. /\ GoOn(r, w) /\ Hold(r, m, m) /\ UNCHANGED <<clock, store>>
        /\ task[r].pc = "idle"
    BY DEF OpenSettings, Starts
  <2>2. w.pc = "settings" /\ w.loaded = {} /\ w.who = u
    BY <1>0, <2>1 DEF Task, UsersHeld, InPass, OneUser
  <2>3. m.users[u] = Seen(r).users[u]
    BY <1>0, <2>1 DEF Empty, Seen
  <2> HIDE DEF m, w
  <2>4. \A v \in Users :
            /\ Brought(now, m.users[v], m.users[v], Seen(r).users[v])
            /\ v = u => Follows(now, m.users[v], Seen(r).users[v])
    BY <2>3, FollowsOrder DEF Brought, Untouched
  <2>5. UsersHeld(now, w, m, m, Seen(r).users)
    BY <2>2, <2>4 DEF UsersHeld, InPass, OneUser
  <2> QED
    BY <1>0, <2>1, <2>5, QuietService
<1> QED
    BY <1>1, <1>2, <1>3

LEMMA AnswerService ==
    ASSUME TypeOK, RowInv, ConfigInv, ServiceInv, crashes = 0, HasRoom,
           Excusing,
           IntervalsLast, NEW r \in Requests,
           \/ Confirm(r) \/ FinishTest(r)
           \/ \E body \in Bodies : SaveSettings(r, body)
    PROVE  ServiceInv'
<1> USE DEF Sessions
<1>0. /\ mine[r] \in Cache /\ base[r] \in Cache /\ now \in Nat
      /\ UsersHeld(now, task[r], mine[r], base[r], Seen(r).users)
      /\ MayBring(r, mine[r]) /\ r # "dispatcher"
      /\ Chosen(mine[r].users)
    BY OwnRows, OwnUsers, CheckInAssumption DEF Jobs, ConfigInv
<1>1. ASSUME NEW m \in Cache, Commit(r, m), Close(r), UNCHANGED clock,
             MayBring(r, m)
      PROVE  ServiceInv'
  <2>1. /\ GoOn(r, Idle) /\ Hold(r, Empty, Empty)
        /\ UNCHANGED <<now, up, crashes, ran>>
    BY <1>1 DEF Close, clock
  <2>2. UsersHeld(now, Idle, Empty, Empty, Seen(r)'.users)
    BY IdleServes DEF Idle, InPass, OneUser
  <2> QED
    BY <1>0, <1>1, <2>1, <2>2, FlushService
<1>2. CASE Confirm(r)
  <2> DEFINE m == Responded(r)
  <2>1. m \in Cache
    BY <1>0, RespondedType
  <2>2. \A u \in Users : Untouched(mine[r].users[u], m.users[u])
    BY <1>0 DEF Responded, Cache, UserRow, Untouched
  <2>3. task[r].pc = "confirm" /\ Commit(r, m) /\ Close(r) /\ UNCHANGED clock
    BY <1>2 DEF Confirm
  <2> HIDE DEF m
  <2>4. mine[r].users = base[r].users
    BY <1>0, <2>3 DEF UsersHeld
  <2>5. MayBring(r, m)
    BY <2>2, <2>4 DEF MayBring, Brought
  <2> QED
    BY <1>1, <2>1, <2>3, <2>5
<1>3. CASE FinishTest(r)
    BY <1>0, <1>1, <1>3 DEF FinishTest
<1>4. CASE \E body \in Bodies : SaveSettings(r, body)
  <2> PICK body \in Bodies : SaveSettings(r, body)
    BY <1>4
  <2> DEFINE m == Updated(r, body)
             who == task[r].who
  <2>1. m \in Cache
    BY <1>0, UpdatedType
  <2>2. \A u \in Users :
            m.users[u] = IF u = who THEN Applied(mine[r].users[u], body)
                                    ELSE mine[r].users[u]
    BY <1>0 DEF Updated, Cache
  <2>3. Chosen(m.users)
    BY <1>0, UpdatedChosen
  <2>4. /\ Commit(r, m) /\ Close(r) /\ UNCHANGED clock
        /\ task[r].pc = "settings"
    BY DEF SaveSettings
  <2> HIDE DEF m, who
  <2>5. mine[r].users = base[r].users
    BY <1>0, <2>4 DEF UsersHeld
  <2>6. ASSUME NEW u \in Users
        PROVE  Brought(now, base[r].users[u], m.users[u], Seen(r).users[u])
    <3>1. CASE u # who
      BY <2>2, <2>5, <3>1 DEF Brought, Untouched
    <3>2. CASE u = who
      <4>1. "interval" \in Fields
        BY DEF Fields
      <4>2. m.users[u].config.interval \in Choices("interval")
        BY <2>3, <4>1 DEF Chosen
      <4>3. mine[r].users[u] \in UserRow
        BY <1>0 DEF Cache
      <4>4. Rewritten(now, mine[r].users[u], m.users[u])
        BY <2>2, <3>2, <4>2, <4>3, AppliedIsAhead
      <4>5. Follows(now, base[r].users[u], Seen(r).users[u])
        BY <1>0, <2>4, <3>2 DEF UsersHeld, who
      <4> QED
        BY <2>5, <4>4, <4>5 DEF Brought
    <3> QED
      BY <3>1, <3>2
  <2>7. MayBring(r, m)
    BY <2>6 DEF MayBring
  <2> QED
    BY <1>1, <2>1, <2>4, <2>7
<1> QED
    BY <1>2, <1>3, <1>4

LEMMA TestService ==
    ASSUME TypeOK, RowInv, ServiceInv, crashes = 0, HasRoom, Excusing,
           NEW r \in Requests, NEW u \in Users, SendTest(r, u)
    PROVE  ServiceInv'
<1> USE DEF Sessions
<1> DEFINE b == MaxBeats + issued.test + 1
           w == [task[r] EXCEPT !.pc = "test"]
<1>0. /\ StoreInv /\ UserStore /\ r # "dispatcher" /\ Nobody \notin Sessions
      /\ task[r] \in Task /\ task[r].pc = "idle" => writer # r
      /\ OnRows(now, task[r], mine[r], base[r])
      /\ UsersHeld(now, task[r], mine[r], base[r], Seen(r).users)
    BY OwnRows, OwnUsers, CheckInAssumption DEF Jobs
<1>1. /\ LockFree(r) /\ task[r].pc = "idle" /\ writer' = r
      /\ wal' = [db EXCEPT !.log[b] = NewBeat(u)] /\ GoOn(r, w)
      /\ UNCHANGED <<now, up, crashes, ran, db, mine, base>>
    BY DEF SendTest, Starts, Goto, clock
<1>2. wal'.users = db.users
    BY <1>1 DEF TypeOK, Database
<1>3. w.pc = "test" /\ w.loaded = {} /\ mine[r] = base[r]
    BY <1>0, <1>1 DEF Task, UsersHeld, OnRows, InPass, OneUser
<1> HIDE DEF w
<1>4. UserStore'
    BY <1>0, <1>1, <1>2, FollowsOrder DEF UserStore, Excusing
<1>5. Spread({r})
  <2>1. \A o \in Sessions \ {r} : Seen(o) = db /\ Seen(o)' = db
    BY <1>0, <1>1 DEF Seen, LockFree
  <2> QED
    BY <1>1, <2>1, FollowsOrder DEF Spread
<1>6. Hold(r, mine[r], base[r])
    BY <1>1, SameHold
<1>7. UsersHeld(now, w, mine[r], base[r], Seen(r)'.users)
    BY <1>3, IdleServes DEF InPass, OneUser
<1> QED
    BY <1>0, <1>1, <1>4, <1>5, <1>6, <1>7, ServiceStep

LEMMA RequestService ==
    ASSUME TypeOK, RowInv, ConfigInv, ServiceInv, crashes = 0, HasRoom,
           Excusing,
           IntervalsLast, NEW r \in Requests, NewRequest(r) \/ Handle(r)
    PROVE  ServiceInv'
BY OpenService, AnswerService, TestService, AbortService
   DEF NewRequest, Handle, Sessions

LEMMA CleanupService ==
    ASSUME TypeOK, RowInv, ServiceInv, crashes = 0, HasRoom, Excusing, Cleanup
    PROVE  ServiceInv'
<1>1. /\ writer = Nobody /\ wal' = db' /\ wal = db /\ Nobody \notin Sessions
      /\ UNCHANGED <<now, up, ran, crashes, writer, task, mine, base>>
    BY CheckInAssumption DEF Cleanup, clock, RowInv, StoreInv
<1>2. db'.users = db.users
    BY DEF Cleanup, TypeOK, Database
<1>3. \A s \in Sessions : Seen(s)'.users = Seen(s).users
    BY <1>1, <1>2 DEF Seen
<1>4. "dispatcher" \in Sessions
    BY DEF Sessions, Jobs
<1>5. Serves(Skippable', now, task["dispatcher"], mine["dispatcher"],
             base["dispatcher"], Seen("dispatcher").users)
  <2>1. \A u \in Users : Moves(now, Seen("dispatcher").users[u],
                               Seen("dispatcher").users[u])
    BY FollowsOrder
  <2> QED
    BY <2>1, ServesStays DEF ServiceInv, Excusing
<1> QED
    BY <1>1, <1>2, <1>3, <1>4, <1>5 DEF ServiceInv, UserStore, Excusing

\* Time passes only when the dispatcher has been through, and nobody is due.
LEMMA TickService ==
    ASSUME TypeOK, RowInv, ServiceInv, crashes = 0, HasRoom, Tick
    PROVE  ServiceInv'
<1>0. /\ UserStore /\ StoreInv /\ now \in Nat /\ up
      /\ \A s \in Sessions :
             UsersHeld(now, task[s], mine[s], base[s], Seen(s).users)
      /\ "dispatcher" \in ran =>
               \A u \in Users \ Skippable : ~ DueBy(now, db.users[u])
      /\ "dispatcher" \in Sessions
    BY RowTypes DEF ServiceInv, RowInv, Sessions, Jobs
<1>1. ~ Exhausted
  <2>1. IsFiniteSet(Users) /\ Due \subseteq Users /\ MaxBeats \in Nat
        /\ issued.real \in Nat
    BY CheckInAssumption DEF Due, TypeOK
  <2>2. /\ Cardinality(Due) \in Nat /\ Cardinality(Users) \in Nat
        /\ Cardinality(Due) <= Cardinality(Users)
    BY <2>1, FS_Subset, FS_CardinalityType
  <2> QED
    BY <2>1, <2>2 DEF Exhausted, HasRoom
<1>2. /\ "dispatcher" \in ran /\ now' = now + 1 /\ ran' = {}
      /\ UNCHANGED <<up, crashes, db, wal, writer, task, mine, base>>
      /\ \A s \in Sessions : task[s].pc = "idle"
    BY <1>0, <1>1 DEF Tick, store
<1>3. \A s \in Sessions : /\ writer # s /\ mine[s] = base[s]
                          /\ task[s].loaded = {}
    BY <1>0, <1>2 DEF RowInv, SessionInv, OnRows, UsersHeld, InPass, OneUser
<1>4. wal = db
    BY <1>0, <1>3 DEF TypeOK, StoreInv
<1>5. ASSUME NEW u \in Users, u \notin Excused'
      PROVE  OnTime(now', db.users[u])
  <2>0. u \notin Skippable
    <3>1. now' - 1 = now /\ warned' = warned
      BY <1>0, <1>2 DEF Tick, world
    <3> QED
      BY <1>2, <1>5, <3>1 DEF Excused, Unanswered, Skippable
  <2>1. db.users[u] \in UserRow
    BY UserTypes
  <2>2. ~ DueBy(now, db.users[u])
    BY <1>0, <1>2, <2>0
  <2>3. db.users[u].next \in Int
    BY <2>1 DEF UserRow
  <2> QED
    BY <1>0, <1>2, <2>2, <2>3 DEF OnTime, DueBy
<1>6. UserStore'
    BY <1>2, <1>4, <1>5, FollowsOrder DEF UserStore
<1>7. \A s \in Sessions :
          /\ UsersHeld(now', task[s], mine[s], base[s], Seen(s)'.users)
          /\ Serves(Skippable', now', task[s], mine[s], base[s],
                    Seen(s)'.users)
    BY <1>2, <1>3, IdleServes DEF InPass, OneUser
<1> QED
    BY <1>0, <1>2, <1>6, <1>7 DEF ServiceInv

LEMMA InitService == IntervalsLast /\ Init => ServiceInv
<1> SUFFICES ASSUME IntervalsLast, Init PROVE ServiceInv
    OBVIOUS
<1>0. NewUser.next > now /\ now = 0
  <2>1. now = 0 /\ DefaultConfig \in Config /\ DefaultConfig.interval > 0
    BY CheckInAssumption DEF Init, IntervalsLast, Choices
  <2>2. ComputeNext(DefaultConfig) > now
    BY <2>1, NextIsAhead
  <2> QED
    BY <2>1, <2>2 DEF NewUser, Unloaded
<1>1. /\ \A u \in Users : db.users[u] = NewUser
      /\ wal = db /\ up /\ ran = {}
      /\ \A s \in Sessions : /\ task[s] = Idle
                             /\ mine[s] = Empty /\ base[s] = Empty
    BY DEF Init, Empty
<1>2. UserStore
  <2>1. TypeOK
    BY InitType DEF Inv
  <2>2. \A u \in Users : OnTime(now, db.users[u])
    BY <1>0, <1>1, <2>1, UserTypes DEF OnTime, UserRow
  <2> QED
    BY <1>1, <2>2, FollowsOrder DEF UserStore
<1>3. \A s \in Sessions :
          /\ UsersHeld(now, task[s], mine[s], base[s], Seen(s).users)
          /\ Serves(Skippable, now, task[s], mine[s], base[s], Seen(s).users)
    BY <1>1, IdleServes DEF Idle, InPass, OneUser
<1>4. "dispatcher" \in Sessions
    BY DEF Sessions, Jobs
<1> QED
    BY <1>1, <1>2, <1>3, <1>4 DEF ServiceInv

\* A heartbeat that was issued stays issued.
LEMMA RoomShrinks ==
    ASSUME TypeOK, [Next]_vars, HasRoom'
    PROVE  HasRoom
<1>0. /\ issued.real \in Nat /\ Cardinality(Users) \in Nat /\ MaxBeats \in Nat
    BY CheckInAssumption, FS_CardinalityType DEF TypeOK
<1>1. SUFFICES issued'.real \in {issued.real, issued.real + 1}
    BY <1>0, <1>1 DEF HasRoom
<1>2. CASE UNCHANGED vars
    BY <1>2 DEF vars
<1>3. CASE Cleanup \/ Crash \/ Restart \/ Tick
    BY <1>3 DEF Cleanup, Crash, Restart, Tick
<1>4. ASSUME NEW j \in Jobs, StartPass(j) \/ Pass(j)
      PROVE  issued'.real \in {issued.real, issued.real + 1}
  <2>1. CASE \/ StartPass(j) \/ FlushEscalation(j) \/ CommitTrigger(j)
             \/ Deactivate(j) \/ NextUser(j) \/ CreateBeat(j)
             \/ FinishScan(j) \/ FinishPass(j) \/ Abort(j)
    BY <2>1 DEF StartPass, FlushEscalation, CommitTrigger, Deactivate, NextUser,
                CreateBeat, FinishScan, FinishPass, Abort, TypeOK
  <2>2. CASE \/ \E u \in Users : Reschedule(j, u) \/ SelectExpired(j, u)
             \/ \E r \in Recipients, outcome \in Outcomes :
                    Deliver(j, r, outcome)
    BY <2>2 DEF Reschedule, SelectExpired, Deliver
  <2>3. CASE \E b \in Beats : \/ Escalate(j, b) \/ RaiseTypeError(j, b)
                             \/ Leave(j, b) \/ Miss(j, b) \/ Notify(j, b)
    BY <2>3 DEF Escalate, RaiseTypeError, Leave, Miss, Notify
  <2> QED
    BY <1>4, <2>1, <2>2, <2>3 DEF Pass
<1>5. ASSUME NEW r \in Requests, NewRequest(r) \/ Handle(r)
      PROVE  issued'.real \in {issued.real, issued.real + 1}
    BY <1>5 DEF NewRequest, Handle, OpenLink, OpenSettings, SendTest, FindUser,
                Confirm, FinishTest, SaveSettings, Abort, TypeOK
<1> QED
    BY <1>2, <1>3, <1>4, <1>5 DEF Next

\* What was sent stays sent, and who was warned stays warned.
LEMMA WarningsStay ==
    ASSUME TypeOK, NEW j \in Jobs, StartPass(j) \/ Pass(j)
    PROVE  now' = now /\ warned \subseteq warned'
<1>1. CASE \/ StartPass(j) \/ FlushEscalation(j) \/ CommitTrigger(j)
           \/ Deactivate(j) \/ NextUser(j) \/ CreateBeat(j)
           \/ FinishScan(j) \/ FinishPass(j) \/ Abort(j)
    BY <1>1 DEF StartPass, FlushEscalation, CommitTrigger, Deactivate, NextUser,
                CreateBeat, FinishScan, FinishPass, Abort, clock, world
<1>2. CASE \/ \E u \in Users : Reschedule(j, u) \/ SelectExpired(j, u)
           \/ \E r \in Recipients, outcome \in Outcomes :
                  Deliver(j, r, outcome)
    BY <1>2 DEF Reschedule, SelectExpired, Deliver, clock, world
<1>3. CASE \E b \in Beats : \/ Escalate(j, b) \/ RaiseTypeError(j, b)
                            \/ Leave(j, b) \/ Miss(j, b) \/ Notify(j, b)
    BY <1>3 DEF Escalate, RaiseTypeError, Leave, Miss, Notify, clock, world
<1> QED
    BY <1>1, <1>2, <1>3 DEF Pass

\* Who is excused stays so, as long as time does not pass.
LEMMA ExcusesStay ==
    ASSUME TypeOK, TypeOK', now' = now, warned \subseteq warned',
           ~ TimestampsAware => Waiting
    PROVE  Excusing
<1>1. CASE TimestampsAware
    BY <1>1 DEF Excusing, Excused, Skippable
<1>2. CASE ~ TimestampsAware
  <2>0. now \in Nat
    BY RowTypes
  <2>1. ASSUME NEW u \in Users
        PROVE  /\ db.users[u].last >= now => db'.users[u].last >= now
               /\ db.users[u].last >= now - 1 => db'.users[u].last >= now - 1
               /\ \A b \in warned : db.log[b].user = u /\ Open(db.log[b]) =>
                      \/ db'.users[u].last >= now
                      \/ db'.log[b].user = u /\ Open(db'.log[b])
    <3>1. db'.users[u].last \in {db.users[u].last, now}
      BY <1>2 DEF Waiting
    <3>2. /\ db.users[u].last >= now => db'.users[u].last >= now
          /\ db.users[u].last >= now - 1 => db'.users[u].last >= now - 1
      BY <2>0, <3>1
    <3>3. ASSUME NEW b \in warned, db.log[b].user = u, Open(db.log[b])
          PROVE  \/ db'.users[u].last >= now
                 \/ db'.log[b].user = u /\ Open(db'.log[b])
      <4>1. b \in Beats
        BY DEF TypeOK
      <4>2. b \in Pending' /\ db'.log[b].user = u
        BY <1>2, <3>3, <4>1 DEF Waiting, Pending
      <4> QED
        BY <4>2 DEF Pending
    <3> QED
      BY <3>2, <3>3
  <2>2. ASSUME NEW u \in Users, db'.users[u].last >= now
        PROVE  db'.users[u].last >= now - 1
    <3>1. db'.users[u].last \in Int
      BY DEF TypeOK, Database, UserRow
    <3> QED
      BY <2>0, <2>2, <3>1
  <2>3. Skippable \subseteq Skippable'
    BY <1>2, <2>1 DEF Skippable
  <2>4. Excused \subseteq Excused'
    BY <1>2, <2>1, <2>2 DEF Excused, Unanswered
  <2> QED
    BY <2>3, <2>4 DEF Excusing
<1> QED
    BY <1>1, <1>2

\* For any constants, if intervals last an hour at least: while the process
\* runs, an active user's next heartbeat does not stay in the past, whichever
\* passes were rolled back or overtaken by a request.  In the shipped build,
\* where SQLite returns naive datetimes, the TypeError of a pass holds up only
\* the users who have an escalated heartbeat to answer, until the hour after
\* they have answered; where the database returns aware ones, it holds up nobody
\* (heartbeat_dispatcher, update_heartbeat_settings).
THEOREM UsersAreServedInTime ==
    IntervalsLast =>
        (Spec => [](OnlyUnansweredWait /\ (TimestampsAware => NeverOverdue)))
<1> SUFFICES ASSUME IntervalsLast
             PROVE  Spec => [](OnlyUnansweredWait
                                   /\ (TimestampsAware => NeverOverdue))
    OBVIOUS
<1>1. TypeOK /\ TypeOK' /\ OnTask /\ ConfigInv /\ RowInv /\ WarnedInv
          /\ AnswerInv /\ ServiceInv /\ [Next]_vars => ServiceInv'
  <2> SUFFICES ASSUME TypeOK, TypeOK', OnTask, ConfigInv, RowInv, WarnedInv,
                      AnswerInv, ServiceInv, [Next]_vars,
                      crashes' = 0, HasRoom'
               PROVE  ServiceInv'
    BY DEF ServiceInv
  <2>1. crashes = 0 /\ HasRoom
    BY CrashesAreCounted, RoomShrinks
  <2>2. CASE UNCHANGED vars
    <3>1. /\ Excused' = Excused /\ Skippable' = Skippable
          /\ \A s \in Sessions : Seen(s)' = Seen(s)
      BY <2>2 DEF vars, Excused, Unanswered, Skippable, Seen
    <3> QED
      BY <2>1, <2>2, <3>1 DEF vars, ServiceInv, UserStore, Sessions, Jobs
  <2>3. CASE \E j \in Jobs : StartPass(j) \/ Pass(j)
    <3> PICK j \in Jobs : StartPass(j) \/ Pass(j)
      BY <2>3
    <3>1. Excusing
      BY WarningsStay, PassAnswer, ExcusesStay
    <3> QED
      BY <2>1, <3>1, PassService
  <2>4. CASE \E r \in Requests : NewRequest(r) \/ Handle(r)
    <3> PICK r \in Requests : NewRequest(r) \/ Handle(r)
      BY <2>4
    <3>1. now' = now /\ warned' = warned
      BY DEF NewRequest, Handle, OpenLink, OpenSettings, SendTest, FindUser,
             Confirm, FinishTest, SaveSettings, Abort, clock, world
    <3>2. Excusing
      BY <3>1, RequestAnswer, ExcusesStay
    <3> QED
      BY <2>1, <3>2, RequestService
  <2>5. CASE Crash \/ Restart
    <3>1. crashes + 1 # 0
      BY <2>1
    <3> QED
      BY <2>1, <2>5, <3>1 DEF Crash, Restart, ServiceInv
  <2>6. CASE Cleanup
    <3>1. now' = now /\ warned' = warned
      BY <2>6 DEF Cleanup, clock, world
    <3>2. Excusing
      BY <2>6, <3>1, CleanupAnswer, ExcusesStay
    <3> QED
      BY <2>1, <2>6, <3>2, CleanupService
  <2>7. CASE Tick
    BY <2>1, <2>7, TickService
  <2> QED
    BY <2>2, <2>3, <2>4, <2>5, <2>6, <2>7 DEF Next
<1>2. Spec => []Inv
    BY InitType, InvStep, PTL DEF Spec, Inv
<1>3. Inv => TypeOK /\ OnTask
    BY DEF Inv
<1>4. ServiceInv => OnlyUnansweredWait /\ (TimestampsAware => NeverOverdue)
    BY DEF ServiceInv, UserStore, OnTime, OnSchedule, Excused, NeverOverdue,
           OnlyUnansweredWait
<1>5. Init => ServiceInv
    BY InitService
<1> QED
    BY <1>1, <1>2, <1>3, <1>4, <1>5, ConfigsAreChosen, RowsAgree,
       WarningsComeFirst, AnswersAreKnown, PTL DEF Spec
=============================================================================
