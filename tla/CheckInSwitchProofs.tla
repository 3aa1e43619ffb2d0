------------------------- MODULE CheckInSwitchProofs -------------------------
(***************************************************************************)
(* When the trigger of CheckIn fires, what its log says, and that CheckIn  *)
(* implements DeadMansSwitch, for all values of the constants.             *)
(***************************************************************************)
EXTENDS CheckInRowProofs, CheckInRefinement

-----------------------------------------------------------------------------
(* The misses of a user are never more than the user's heartbeats that     *)
(* were counted and are settled, in any copy of the two.                   *)

\* Of the counted heartbeats C, those of u that are settled in the log.
Judged(C, log, u) == {b \in C : log[b].user = u /\ ~ Open(log[b])}

Within(n, C, log, u, rest) == n <= Cardinality(Judged(C, log, u) \ rest)

Bounded(C, users, log, rest) ==
    \A u \in Users : Within(users[u].misses, C, log, u, rest)

\* The heartbeats that a pass may yet count for its user.
Left(t) == IF t.pc \in OneUser THEN t.rest ELSE {}

\* What may become of the row of a heartbeat that was counted.
Kept(x, y) == /\ y.status # "none" /\ y.user = x.user /\ y.escAt = x.escAt
              /\ ~ Open(x) => ~ Open(y)

Countable(t, row, new) ==
    /\ row.status # "none" /\ row.escAt # Never /\ row.escAt < t
    /\ Kept(row, new)

StoreCounts ==
    /\ \A b \in counted : Countable(now, db.log[b], wal.log[b])
    /\ Bounded(counted, db.users, db.log, {})
    /\ Bounded(counted, wal.users, wal.log, {})

Fires(t, m) ==
    t.pc \in {"trigger", "deactivate"} =>
        AtThreshold(m.users[t.who]) /\ t.todo \subseteq RecipientsOf[t.who]

CountInv ==
    /\ StoreCounts
    /\ \A s \in Sessions :
           Bounded(counted, mine[s].users, Seen(s).log, Left(task[s]))
    /\ \A j \in Jobs : Fires(task[j], mine[j])

LEMMA BeatsFinite == IsFiniteSet(Beats)
<1>1. MaxBeats + MaxTests \in Int
    BY CheckInAssumption
<1> QED
    BY <1>1, FS_Interval DEF Beats

LEMMA JudgedFinite ==
    ASSUME NEW C \in SUBSET Beats, NEW log, NEW u, NEW rest
    PROVE  /\ IsFiniteSet(Judged(C, log, u) \ rest)
           /\ Cardinality(Judged(C, log, u) \ rest) \in Nat
<1>1. IsFiniteSet(Beats)
    BY BeatsFinite
<1>2. Judged(C, log, u) \ rest \subseteq Beats
    BY DEF Judged
<1> QED
    BY <1>1, <1>2, FS_Subset, FS_CardinalityType

LEMMA WithinZero ==
    ASSUME NEW C \in SUBSET Beats, NEW log, NEW u, NEW rest
    PROVE  Within(0, C, log, u, rest)
BY JudgedFinite DEF Within

\* The bound survives when more is counted and settled, and less is left.
LEMMA WithinGrows ==
    ASSUME NEW D \in SUBSET Beats, NEW C \in SUBSET D, NEW u,
           NEW log, NEW new, NEW R, NEW Q,
           \A b \in C \ R : Kept(log[b], new[b]),
           \A b \in Q : b \in R \/ Open(new[b]),
           NEW n \in Nat, Within(n, C, log, u, R)
    PROVE  Within(n, D, new, u, Q)
<1> DEFINE old  == Judged(C, log, u) \ R
           more == Judged(D, new, u) \ Q
<1>1. old \subseteq more
    BY DEF Judged, Kept
<1>2. /\ IsFiniteSet(more)
      /\ Cardinality(old) \in Nat /\ Cardinality(more) \in Nat
    BY JudgedFinite
<1>3. Cardinality(old) <= Cardinality(more)
    BY <1>1, <1>2, FS_Subset
<1> HIDE DEF old, more
<1>4. n <= Cardinality(old)
    BY DEF Within, old
<1>5. n <= Cardinality(more)
    BY <1>2, <1>3, <1>4
<1> QED
    BY <1>5 DEF Within, more

LEMMA KeptOrder ==
    /\ \A x : x.status # "none" => Kept(x, x)
    /\ \A x, y, z : Kept(x, y) /\ Kept(y, z) => Kept(x, z)
BY DEF Kept

LEMMA CountTypes ==
    ASSUME TypeOK
    PROVE  /\ counted \subseteq Beats
           /\ \A u \in Users : /\ db.users[u].misses \in Nat
                               /\ wal.users[u].misses \in Nat
           /\ \A s \in Sessions, u \in Users :
                  /\ mine[s].users[u].misses \in Nat
                  /\ Seen(s).users[u].misses \in Nat
BY DEF TypeOK, Database, Cache, UserRow, Seen

\* A flush does not reopen what was settled before.
LEMMA MergedKept ==
    ASSUME TypeOK, RowInv, CountInv, NEW s \in Sessions, NEW m \in Cache,
           Held(now, base[s].log, m.log, Seen(s).log, db.log),
           NEW b \in counted
    PROVE  /\ Kept(db.log[b], Seen(s).log[b])
           /\ Kept(Seen(s).log[b], Merged(s, m).log[b])
<1> DEFINE row == Seen(s).log[b]
           new == Merged(s, m).log[b]
<1>1. Countable(now, db.log[b], wal.log[b]) /\ b \in Beats /\ StoreInv
    BY CountTypes DEF CountInv, StoreCounts, RowInv
<1>2. Kept(db.log[b], row)
    BY <1>1, KeptOrder DEF Seen, Countable
<1>3. row.status # "none" /\ row.escAt \notin {Never, now}
    BY <1>1, <1>2, RowTypes DEF Countable, Kept, BeatRow
<1>4. /\ Later(now, row, new)
      /\ ~ Open(row) /\ row.escAt \notin {Never, now} => ~ Open(new)
    BY <1>1, MergedRows
<1>5. Kept(row, new)
    BY <1>3, <1>4 DEF Kept, Later
<1> HIDE DEF row, new
<1> QED
    BY <1>2, <1>5 DEF row, new

LEMMA SeenKept ==
    ASSUME TypeOK, CountInv, NEW s \in Sessions, NEW b \in counted
    PROVE  Kept(db.log[b], Seen(s).log[b]) /\ Kept(Seen(s).log[b], Seen(s).log[b])
BY KeptOrder DEF CountInv, StoreCounts, Countable, Seen, Kept

\* A flush writes the misses that were in the database, or the session's.
LEMMA MergedMisses ==
    ASSUME NEW s \in Sessions, NEW m, NEW u \in Users
    PROVE  Merged(s, m).users[u].misses
               \in {Seen(s).users[u].misses, m.users[u].misses}
BY DEF Merged, MergeUser, Column

LEMMA MergedBounded ==
    ASSUME TypeOK, RowInv, CountInv, NEW s \in Sessions, NEW m \in Cache,
           Held(now, base[s].log, m.log, Seen(s).log, db.log),
           NEW C \in SUBSET Beats, counted \subseteq C,
           Bounded(C, m.users, Merged(s, m).log, {})
    PROVE  Bounded(C, Merged(s, m).users, Merged(s, m).log, {})
<1> DEFINE new == Merged(s, m)
<1> SUFFICES ASSUME NEW u \in Users
             PROVE  Within(new.users[u].misses, C, new.log, u, {})
    BY DEF Bounded
<1>1. Within(m.users[u].misses, C, new.log, u, {})
    BY DEF Bounded
<1>2. Within(Seen(s).users[u].misses, counted, Seen(s).log, u, {})
    BY DEF CountInv, StoreCounts, Bounded, Seen
<1>3. \A b \in counted : Kept(Seen(s).log[b], new.log[b])
    BY MergedKept
<1>4. Seen(s).users[u].misses \in Nat
    BY CountTypes
<1>5. Within(Seen(s).users[u].misses, C, new.log, u, {})
    BY <1>2, <1>3, <1>4, WithinGrows
<1> QED
    BY <1>1, <1>5, MergedMisses

\* A step of the sessions S reopens nothing for the others.
Settles(S) ==
    \A b \in counted :
        /\ Kept(db.log[b], db'.log[b])
        /\ \A o \in Sessions \ S : Kept(Seen(o).log[b], Seen(o)'.log[b])

LEMMA WriteCounts ==
    ASSUME TypeOK, RowInv, CountInv, NEW s \in Sessions, NEW m \in Cache,
           Held(now, base[s].log, m.log, Seen(s).log, db.log),
           Flush(s, m) \/ Commit(s, m), now' = now,
           counted \subseteq counted', counted' \subseteq Beats,
           counted' = counted \/ LockFree(s),
           \A b \in counted' \ counted :
               Countable(now, db.log[b], Merged(s, m).log[b]),
           Bounded(counted', m.users, Merged(s, m).log, {})
    PROVE  StoreCounts' /\ Settles({s})
<1> DEFINE new == Merged(s, m)
<1>0. StoreInv /\ StoreCounts /\ s # Nobody /\ Nobody \notin Sessions
    BY CheckInAssumption DEF RowInv, CountInv
<1>1. \/ UNCHANGED store /\ m = base[s]
      \/ /\ LockFree(s) /\ wal' = new
         /\ \/ db' = db /\ writer' = s
            \/ db' = new /\ writer' = Nobody
    BY DEF Flush, Commit, MayWrite
<1>2. \A b \in counted : /\ Kept(db.log[b], db.log[b])
                         /\ \A o \in Sessions :
                                Kept(Seen(o).log[b], Seen(o).log[b])
    BY <1>0, SeenKept, KeptOrder DEF StoreCounts, Countable
<1>3. Bounded(counted', db.users, db.log, {})
    BY <1>0, <1>2, CountTypes, WithinGrows DEF StoreCounts, Bounded
<1>4. CASE UNCHANGED store /\ m = base[s]
  <2>1. \A b \in Beats : new.log[b] = Seen(s).log[b]
    BY <1>0, <1>4, MergedRows
  <2>2. \A b \in counted' : Countable(now, db.log[b], wal.log[b])
    BY <1>0, <2>1, LockShowsWal DEF StoreCounts
  <2>3. \A b \in counted : Kept(wal.log[b], wal.log[b])
    BY <2>2, KeptOrder DEF Countable, Kept
  <2>4. Bounded(counted', wal.users, wal.log, {})
    BY <1>0, <2>3, CountTypes, WithinGrows DEF StoreCounts, Bounded
  <2> QED
    BY <1>2, <1>3, <1>4, <2>2, <2>4 DEF store, StoreCounts, Settles, Seen
<1>5. CASE /\ LockFree(s) /\ wal' = new
           /\ \/ db' = db /\ writer' = s
              \/ db' = new /\ writer' = Nobody
  <2>1. Seen(s) = wal /\ writer \in {Nobody, s}
    BY <1>0, <1>5, LockShowsWal DEF LockFree
  <2>2. \A b \in counted' : Countable(now, db.log[b], new.log[b])
    BY <1>0, <2>1, MergedKept, KeptOrder DEF StoreCounts, Countable
  <2>3. Bounded(counted', new.users, new.log, {})
    BY MergedBounded
  <2>4. \A b \in counted' : Countable(now, db'.log[b], wal'.log[b])
    BY <1>5, <2>2, KeptOrder DEF Countable, Kept
  <2>5. \A b \in counted : Kept(db.log[b], db'.log[b])
    BY <1>2, <1>5, <2>2 DEF Countable
  <2>6. \A o \in Sessions \ {s} : Seen(o) = db /\ Seen(o)' = db'
    BY <1>0, <1>5, <2>1 DEF Seen
  <2> QED
    BY <1>3, <1>5, <2>3, <2>4, <2>5, <2>6 DEF StoreCounts, Settles
<1> QED
    BY <1>1, <1>4, <1>5

LEMMA CountStep ==
    ASSUME TypeOK, CountInv, NEW s \in Sessions, NEW w, NEW m, NEW x,
           GoOn(s, w), Hold(s, m, x), StoreCounts', Settles({s}),
           counted \subseteq counted', counted' \subseteq Beats,
           Bounded(counted', m.users, Seen(s)'.log, Left(w)),
           s \in Jobs => Fires(w, m)
    PROVE  CountInv'
<1>1. /\ task'[s] = w /\ mine'[s] = m
      /\ \A o \in Sessions \ {s} : task'[o] = task[o] /\ mine'[o] = mine[o]
    BY DEF GoOn, Hold, TypeOK
<1>2. ASSUME NEW o \in Sessions \ {s}
      PROVE  Bounded(counted', mine[o].users, Seen(o)'.log, Left(task[o]))
    BY CountTypes, WithinGrows DEF CountInv, Bounded, Settles
<1> QED
    BY <1>1, <1>2 DEF CountInv, Sessions, Fires, AtThreshold

\* A step that leaves the database alone.
LEMMA QuietCount ==
    ASSUME TypeOK, CountInv, NEW s \in Sessions, NEW w, NEW m, NEW x,
           GoOn(s, w), Hold(s, m, x), UNCHANGED <<now, store, counted>>,
           Left(w) \subseteq Left(task[s]),
           \A u \in Users :
               \/ m.users[u].misses = mine[s].users[u].misses
               \/ Left(w) = {} /\ m.users[u].misses
                                      \in {0, db.users[u].misses},
           s \in Jobs => Fires(w, m)
    PROVE  CountInv'
<1>1. StoreCounts'
    BY DEF CountInv, StoreCounts, store
<1>2. UNCHANGED <<db, wal, writer>> /\ counted \subseteq Beats
    BY CountTypes DEF store
<1>3. \A o \in Sessions, b \in counted :
          /\ Kept(db.log[b], Seen(o).log[b])
          /\ Kept(Seen(o).log[b], Seen(o)'.log[b])
    BY <1>2, SeenKept DEF Seen
<1>4. Settles({s})
    BY <1>2, <1>3, KeptOrder DEF Settles, CountInv, StoreCounts, Countable
<1>5. Bounded(counted, m.users, Seen(s)'.log, Left(w))
  <2> SUFFICES ASSUME NEW u \in Users
               PROVE  Within(m.users[u].misses, counted, Seen(s)'.log, u, Left(w))
    BY DEF Bounded
  <2>1. CASE m.users[u].misses = mine[s].users[u].misses
    <3>1. Within(m.users[u].misses, counted, Seen(s).log, u, Left(task[s]))
      BY <2>1 DEF CountInv, Bounded
    <3>2. m.users[u].misses \in Nat
      BY <2>1, CountTypes
    <3> QED
      BY <1>2, <1>3, <3>1, <3>2, WithinGrows
  <2>2. CASE m.users[u].misses = 0
    BY <1>2, <2>2, WithinZero
  <2>3. CASE Left(w) = {} /\ m.users[u].misses = db.users[u].misses
    <3>1. Within(m.users[u].misses, counted, db.log, u, {})
      BY <2>3 DEF CountInv, StoreCounts, Bounded
    <3>2. \A b \in counted : Kept(db.log[b], Seen(s)'.log[b])
      BY <1>3, KeptOrder
    <3>3. m.users[u].misses \in Nat
      BY <2>3, CountTypes
    <3> QED
      BY <1>2, <2>3, <3>1, <3>2, <3>3, WithinGrows
  <2> QED
    BY <2>1, <2>2, <2>3
<1> QED
    BY <1>1, <1>2, <1>4, <1>5, CountStep

\* A step that flushes or commits the rows m, and then holds the rows h.
LEMMA FlushCount ==
    ASSUME TypeOK, RowInv, CountInv, NEW s \in Sessions, NEW m \in Cache,
           Held(now, base[s].log, m.log, Seen(s).log, db.log),
           Flush(s, m) \/ Commit(s, m), UNCHANGED <<now, issued, counted>>,
           NEW w, NEW h, NEW x, GoOn(s, w), Hold(s, h, x),
           \A u \in Users :
               /\ m.users[u].misses \in {0, mine[s].users[u].misses}
               /\ \/ h.users[u].misses \in {0, mine[s].users[u].misses}
                  \/ h.users[u].misses = Merged(s, m).users[u].misses
                         /\ Left(w) = {},
           \A b \in Left(w) :
               b \in Left(task[s]) \/ Open(Merged(s, m).log[b]),
           s \in Jobs => Fires(w, h)
    PROVE  CountInv'
<1> DEFINE new == Merged(s, m)
<1>0. counted \subseteq Beats /\ StoreInv
    BY CountTypes DEF RowInv
<1>1. \A b \in counted : /\ Kept(db.log[b], Seen(s).log[b])
                         /\ Kept(Seen(s).log[b], new.log[b])
    BY MergedKept
<1>2. \A b \in counted : Seen(s)'.log[b] = new.log[b]
    BY <1>0, WriteStep
<1>3. ASSUME NEW u \in Users, NEW n \in {0, mine[s].users[u].misses},
             NEW R, \A b \in R : b \in Left(task[s]) \/ Open(new.log[b])
      PROVE  Within(n, counted, new.log, u, R)
  <2>1. CASE n = 0
    BY <1>0, <2>1, WithinZero
  <2>2. CASE n = mine[s].users[u].misses
    <3>1. Within(n, counted, Seen(s).log, u, Left(task[s])) /\ n \in Nat
      BY <2>2, CountTypes DEF CountInv, Bounded
    <3> QED
      BY <1>0, <1>1, <1>3, <3>1, WithinGrows
  <2> QED
    BY <2>1, <2>2
<1>4. Bounded(counted, m.users, new.log, {})
    BY <1>3 DEF Bounded
<1>5. StoreCounts' /\ Settles({s})
    BY <1>0, <1>4, WriteCounts
<1>6. Bounded(counted, new.users, new.log, {})
    BY <1>0, <1>4, MergedBounded
<1>7. Bounded(counted, h.users, new.log, Left(w))
    BY <1>3, <1>6 DEF Bounded
<1>8. \A b \in counted : /\ Kept(new.log[b], Seen(s)'.log[b])
                         /\ Seen(s)'.log[b] = new.log[b]
    BY <1>1, <1>2, KeptOrder DEF Kept
<1>9. Bounded(counted, h.users, Seen(s)'.log, Left(w))
  <2> HIDE DEF new
  <2>1. \A u : Judged(counted, Seen(s)'.log, u) = Judged(counted, new.log, u)
    BY <1>8 DEF Judged
  <2> QED
    BY <1>7, <2>1 DEF Bounded, Within
<1> QED
    BY <1>0, <1>5, <1>9, CountStep

LEMMA EmptyMisses == \A u \in Users : Empty.users[u].misses = 0
BY DEF Empty, Unloaded

\* Giving a user a next heartbeat leaves the misses alone.
LEMMA SchedulingMisses ==
    ASSUME NEW users \in [Users -> UserRow], NEW S
    PROVE  \A u \in Users :
               Scheduling(users, S)[u].misses = users[u].misses
BY DEF Scheduling, UserRow

LEMMA ScanCount ==
    ASSUME TypeOK, RowInv, CountInv, NEW j \in Jobs,
           \/ StartPass(j) \/ \E u \in Users : Reschedule(j, u)
           \/ FinishScan(j) \/ FinishPass(j)
    PROVE  CountInv'
<1> USE DEF Sessions
<1> DEFINE t == task[j]
<1>0. /\ t \in Task /\ mine[j] \in Cache /\ mine[j].users \in [Users -> UserRow]
      /\ Held(now, base[j].log, mine[j].log, Seen(j).log, db.log)
    BY OwnRows DEF Cache
<1>1. CASE StartPass(j)
  <2> DEFINE S == IF j = "dispatcher" THEN Due ELSE Outstanding
             w == [t EXCEPT !.pc = "scan", !.queue = S, !.loaded = S]
             m == [Empty EXCEPT !.users = [u \in Users |->
                       IF u \in S THEN db.users[u] ELSE Unloaded]]
  <2>1. GoOn(j, w) /\ Hold(j, m, m) /\ UNCHANGED <<now, store, counted>>
    BY <1>1 DEF StartPass, clock, world
  <2>2. \A u \in Users : m.users[u].misses \in {0, db.users[u].misses}
    BY DEF Empty, Unloaded
  <2>3. w.pc = "scan"
    BY <1>0 DEF Task
  <2> HIDE DEF w, m
  <2>4. Left(w) = {} /\ Fires(w, m)
    BY <2>3 DEF Left, OneUser, Fires
  <2> QED
    BY <2>1, <2>2, <2>4, QuietCount
<1>2. CASE \E u \in Users : Reschedule(j, u)
  <2> PICK u \in Users : Reschedule(j, u)
    BY <1>2
  <2> DEFINE w == [t EXCEPT !.queue = @ \ {u}]
             m == [mine[j] EXCEPT !.users = Scheduling(@, {u})]
  <2>1. mine' = [mine EXCEPT ![j] = m] /\ m.users = Scheduling(mine[j].users, {u})
    BY <1>0 DEF Reschedule, Cache
  <2>2. Hold(j, m, base[j])
    BY <2>1, SameHold DEF Reschedule
  <2> HIDE DEF m
  <2>3. \A v \in Users : m.users[v].misses = mine[j].users[v].misses
    BY <1>0, <2>1, SchedulingMisses
  <2>4. w.pc = "scan" /\ GoOn(j, w) /\ UNCHANGED <<now, store, counted>>
    BY <1>0 DEF Reschedule, Task, clock, world
  <2> HIDE DEF w
  <2>5. Left(w) = {} /\ Fires(w, m)
    BY <2>4 DEF Left, OneUser, Fires
  <2> QED
    BY <2>2, <2>3, <2>4, <2>5, QuietCount
<1>3. CASE FinishScan(j)
  <2> DEFINE w == [t EXCEPT !.pc = "commit"]
             seen  == Merged(j, mine[j]).users
             found == IF j = "dispatcher"
                      THEN {u \in Users : seen[u].active
                                             /\ seen[u].next = Never}
                      ELSE {}
             rows  == [u \in Users |-> IF u \in found \ t.loaded
                                       THEN seen[u] ELSE mine[j].users[u]]
             x     == [mine[j] EXCEPT !.users = rows]
             m     == [x EXCEPT !.users = Scheduling(@, found)]
  <2>1. Hold(j, m, x) /\ m.users = Scheduling(rows, found)
    BY <1>0, <1>3 DEF FinishScan, Cache
  <2>2. rows \in [Users -> UserRow]
    BY <1>0, MergedType DEF Database
  <2>3. \A u \in Users : rows[u] \in {mine[j].users[u], seen[u]}
    OBVIOUS
  <2> HIDE DEF m, x, rows
  <2>4. \A u \in Users : \/ m.users[u].misses = mine[j].users[u].misses
                         \/ m.users[u].misses = seen[u].misses
    BY <2>1, <2>2, <2>3, SchedulingMisses
  <2>5. w.pc = "commit"
    BY <1>0 DEF Task
  <2>6. /\ UNCHANGED <<now, issued, counted>> /\ GoOn(j, w)
        /\ Flush(j, mine[j])
    BY <1>3 DEF FinishScan, clock, world, Goto
  <2> HIDE DEF w
  <2>7. Left(w) = {} /\ Fires(w, m)
    BY <2>5 DEF Left, OneUser, Fires
  <2>8. \A u \in Users :
            /\ mine[j].users[u].misses \in {0, mine[j].users[u].misses}
            /\ \/ m.users[u].misses \in {0, mine[j].users[u].misses}
               \/ m.users[u].misses = Merged(j, mine[j]).users[u].misses
                      /\ Left(w) = {}
    BY <2>4, <2>7
  <2>9. Hold(j, m, x)
    BY <2>1
  <2> HIDE DEF seen, found
  <2> QED
    BY <1>0, <2>6, <2>7, <2>8, <2>9, FlushCount
<1>4. CASE FinishPass(j)
  <2> DEFINE w == IF t.pend = {} THEN Idle
                  ELSE [Idle EXCEPT !.pc = "notify", !.pend = t.pend]
  <2>1. w.pc \in {"idle", "notify"}
    BY DEF Idle
  <2>2. /\ UNCHANGED <<now, issued, counted>> /\ GoOn(j, w)
        /\ Commit(j, mine[j]) /\ Hold(j, Empty, Empty)
    BY <1>4 DEF FinishPass, world
  <2> HIDE DEF w
  <2>3. Left(w) = {} /\ Fires(w, Empty)
    BY <2>1 DEF Left, OneUser, Fires
  <2> QED
    BY <1>0, <2>2, <2>3, EmptyMisses, FlushCount
<1> QED
    BY <1>1, <1>2, <1>3, <1>4

LEMMA SelectCount ==
    ASSUME TypeOK, RowInv, CountInv, NEW j \in Jobs, NEW u \in Users,
           SelectExpired(j, u)
    PROVE  CountInv'
<1> USE DEF Sessions
<1> DEFINE t     == task[j]
           seen  == Merged(j, mine[j]).log
           found == Expired(seen, u, mine[j].users[u].config.window)
           m     == [users |-> mine[j].users,
                     log   |-> [b \in Beats |-> IF b \in found THEN seen[b]
                                                               ELSE NoBeat]]
           w     == [t EXCEPT !.pc = "check", !.who = u, !.rest = found,
                              !.queue = @ \ {u}]
<1>0. /\ t \in Task /\ mine[j] \in Cache
      /\ Held(now, base[j].log, mine[j].log, Seen(j).log, db.log)
    BY OwnRows
<1>1. /\ Flush(j, mine[j]) /\ Hold(j, m, m) /\ GoOn(j, w)
      /\ UNCHANGED <<now, issued, counted>>
    BY DEF SelectExpired, clock, world
<1>2. w.pc = "check" /\ w.rest = found
    BY <1>0 DEF Task
<1>3. m.users = mine[j].users
    OBVIOUS
<1>4. \A b \in found : Open(seen[b])
    BY DEF Expired
<1> HIDE DEF m, w, found
<1>5. (\A b \in Left(w) : Open(seen[b])) /\ Fires(w, m)
    BY <1>2, <1>4 DEF Left, OneUser, Fires
<1> QED
    BY <1>0, <1>1, <1>3, <1>5, FlushCount

\* The steps of a pass that only change what it works on next.
LEMMA TaskCount ==
    ASSUME TypeOK, RowInv, CountInv, NEW j \in Jobs,
           \/ \E b \in Beats : RaiseTypeError(j, b) \/ Leave(j, b) \/ Notify(j, b)
           \/ NextUser(j)
    PROVE  CountInv'
<1> USE DEF Sessions
<1> DEFINE t == task[j]
<1>0. t \in Task /\ mine[j] \in Cache
    BY OwnRows
<1>1. UNCHANGED <<now, store, counted, mine, base>>
    BY DEF RaiseTypeError, Leave, Notify, NextUser, clock, world
<1>2. Hold(j, mine[j], base[j])
    BY <1>1, SameHold
<1>3. CASE NextUser(j) \/ \E b \in Beats : RaiseTypeError(j, b)
  <2>1. PICK w \in {[t EXCEPT !.pc = "scan", !.who = Nobody],
                    [t EXCEPT !.pc = "scan", !.who = Nobody, !.rest = {}]} :
            GoOn(j, w)
    BY <1>3 DEF RaiseTypeError, NextUser
  <2>2. w.pc = "scan"
    BY <1>0, <2>1 DEF Task
  <2>3. Left(w) = {} /\ Fires(w, mine[j])
    BY <2>2 DEF Left, OneUser, Fires
  <2> QED
    BY <1>1, <1>2, <2>1, <2>3, QuietCount
<1>4. CASE \E b \in Beats : Leave(j, b)
  <2> PICK b \in Beats : Leave(j, b)
    BY <1>4
  <2> DEFINE w == [t EXCEPT !.rest = @ \ {b}]
  <2>1. w.pc = "check" /\ w.rest = t.rest \ {b} /\ t.pc = "check"
    BY <1>0 DEF Leave, Checking, Task
  <2>2. GoOn(j, w)
    BY DEF Leave
  <2> HIDE DEF w
  <2>3. Left(w) \subseteq Left(t) /\ Fires(w, mine[j])
    BY <2>1 DEF Left, OneUser, Fires
  <2> QED
    BY <1>1, <1>2, <2>2, <2>3, QuietCount
<1>5. CASE \E b \in Beats : Notify(j, b)
  <2> PICK b \in Beats : Notify(j, b)
    BY <1>5
  <2> DEFINE w == IF t.pend = {b} THEN Idle
                  ELSE [t EXCEPT !.pend = @ \ {b}]
  <2>1. w.pc \in {"idle", "notify"} /\ GoOn(j, w)
    BY <1>0 DEF Notify, Task, Idle
  <2> HIDE DEF w
  <2>2. Left(w) = {} /\ Fires(w, mine[j])
    BY <2>1 DEF Left, OneUser, Fires
  <2> QED
    BY <1>1, <1>2, <2>1, <2>2, QuietCount
<1> QED
    BY <1>3, <1>4, <1>5

LEMMA EscalateCount ==
    ASSUME TypeOK, RowInv, CountInv, NEW j \in Jobs, NEW b \in Beats,
           Escalate(j, b)
    PROVE  CountInv'
<1> USE DEF Sessions
<1> DEFINE t == task[j]
           m == Escalated(j, b)
           w == [t EXCEPT !.pc = "mail", !.rest = @ \ {b}]
<1>0. t \in Task /\ mine[j] \in Cache
    BY OwnRows
<1>1. /\ t.pc = "check" /\ GoOn(j, w) /\ mine' = [mine EXCEPT ![j] = m]
      /\ base' = base /\ UNCHANGED <<now, store, counted>>
    BY DEF Escalate, Checking, clock
<1>2. w.pc = "mail" /\ w.rest = t.rest \ {b}
    BY <1>0 DEF Task
<1>3. m.users = mine[j].users
    BY <1>0 DEF Escalated, Cache
<1>4. Hold(j, m, base[j])
    BY <1>1, SameHold
<1> HIDE DEF m, w
<1>5. Left(w) \subseteq Left(t) /\ Fires(w, m)
    BY <1>1, <1>2 DEF Left, OneUser, Fires
<1> QED
    BY <1>1, <1>3, <1>4, <1>5, QuietCount

\* A heartbeat that a pass counts has lapsed for good in every copy, and is one
\* more than the heartbeats that its user's misses stand for.
LEMMA MissCounts ==
    ASSUME TypeOK, RowInv, ConfigInv, CountInv, OnTask, NEW j \in Jobs,
           NEW b \in Beats, Miss(j, b)
    PROVE  LET m == Missed(j, b)
           IN  /\ LockFree(j) /\ Countable(now, db.log[b], Merged(j, m).log[b])
               /\ Bounded(counted \cup {b}, m.users, Merged(j, m).log,
                          task[j].rest \ {b})
<1> USE DEF Sessions
<1> DEFINE t   == task[j]
           u   == t.who
           row == mine[j].log[b]
           m   == Missed(j, b)
           new == Merged(j, m)
           C   == counted \cup {b}
<1>0. Missable(j, b) /\ Checking(j, b)
    BY DEF Miss, Missable
<1>1. /\ m \in Cache /\ row.status = "escalated" /\ row = base[j].log[b]
      /\ m.log[b] = [row EXCEPT !.status = "missed"]
      /\ Held(now, base[j].log, m.log, Seen(j).log, db.log)
    BY <1>0, MissHeld
<1>2. /\ row \in BeatRow /\ row.escAt # Never
      /\ db.log[b].status # "none" /\ Later(now, row, Seen(j).log[b])
      /\ row.user = u /\ u \in Users /\ now > row.escAt + WindowOf(j)
      /\ WindowOf(j) \in Nat
    BY <1>0, RestRows DEF Missable, NeedsVerdict, Lapsed
<1>3. /\ mine[j] \in Cache /\ t.pc = "check" /\ b \in t.rest
      /\ now \in Nat /\ StoreInv /\ counted \subseteq Beats
    BY <1>0, OwnRows, CountTypes DEF Checking
<1>4. /\ m.log[b].status = "missed" /\ m.log[b].user = u
      /\ m.log[b].escAt = row.escAt /\ row.escAt < now
      /\ row.escAt \in Int
    BY <1>1, <1>2, <1>3 DEF BeatRow
<1>5. /\ \A v \in Users \ {u} : m.users[v].misses = mine[j].users[v].misses
      /\ m.users[u].misses = mine[j].users[u].misses + 1
    BY <1>2, <1>3 DEF Missed, Cache, UserRow
<1>6. m # base[j] /\ LockFree(j)
    BY <1>1, <1>4 DEF Miss, Flush, MayWrite
<1>7. Seen(j) = wal
    BY <1>3, <1>6, LockShowsWal
<1>8. new.log[b].status = "missed"
  <2>1. base[j].log[b].status = "escalated"
    BY <1>1
  <2>2. Merged(j, m).log[b].status = Column(Seen(j).log[b].status,
                                            base[j].log[b].status,
                                            m.log[b].status)
    BY MergedBeat
  <2> HIDE DEF m, row
  <2> QED
    BY <1>4, <2>1, <2>2 DEF Column
<1>9. Later(now, m.log[b], new.log[b]) /\ Later(now, db.log[b], new.log[b])
    BY <1>1, <1>3, <1>6, MergedRows, MergedStored
<1>10. new.log[b].user = u /\ new.log[b].escAt = row.escAt
    BY <1>2, <1>4, <1>9 DEF Later
<1>11. db.log[b].escAt = row.escAt /\ db.log[b].user = u
    BY <1>2, <1>4, <1>9, <1>10 DEF Later
<1>12. Countable(now, db.log[b], new.log[b])
    BY <1>2, <1>4, <1>8, <1>10, <1>11 DEF Countable, Kept, Open
<1>13. \A c \in counted : Kept(Seen(j).log[c], new.log[c])
    BY <1>1, MergedKept
<1> HIDE DEF m, new, row
<1>14. ASSUME NEW v \in Users
       PROVE  Within(m.users[v].misses, C, new.log, v, t.rest \ {b})
  <2> DEFINE old == Judged(counted, Seen(j).log, v) \ t.rest
             all == Judged(C, new.log, v) \ (t.rest \ {b})
             n   == mine[j].users[v].misses
  <2>1. /\ IsFiniteSet(old) /\ IsFiniteSet(all)
        /\ Cardinality(old) \in Nat /\ Cardinality(all) \in Nat
    BY <1>3, JudgedFinite
  <2>2. old \subseteq all /\ b \notin old
    BY <1>3, <1>13 DEF Judged, Kept
  <2>3. n \in Nat /\ n <= Cardinality(old)
    BY <1>3, CountTypes DEF CountInv, Bounded, Within, Left, OneUser
  <2>4. m.users[v].misses <= Cardinality(all)
    <3>1. CASE v # u
      <4>1. Cardinality(old) <= Cardinality(all)
        BY <2>1, <2>2, FS_Subset
      <4> HIDE DEF old, all
      <4> QED
        BY <1>5, <2>1, <2>3, <3>1, <4>1
    <3>2. CASE v = u
      <4>1. old \cup {b} \subseteq all
        BY <1>8, <1>10, <2>2, <3>2 DEF Judged, Open
      <4> HIDE DEF old, all
      <4>2. Cardinality(old \cup {b}) = Cardinality(old) + 1
        BY <2>1, <2>2, FS_AddElement
      <4>3. Cardinality(old \cup {b}) <= Cardinality(all)
        BY <2>1, <4>1, FS_Subset
      <4> QED
        BY <1>5, <2>1, <2>3, <3>2, <4>2, <4>3
    <3> QED
      BY <3>1, <3>2
  <2> QED
    BY <2>4 DEF Within
<1>15. Bounded(C, m.users, new.log, t.rest \ {b})
    BY <1>14 DEF Bounded
<1> QED
    BY <1>6, <1>12, <1>15 DEF m, new

LEMMA MissCount ==
    ASSUME TypeOK, RowInv, ConfigInv, CountInv, OnTask, NEW j \in Jobs,
           NEW b \in Beats, Miss(j, b)
    PROVE  CountInv'
<1> USE DEF Sessions
<1> DEFINE t     == task[j]
           m     == Missed(j, b)
           new   == Merged(j, m)
           fires == AtThreshold(m.users[t.who]) /\ RecipientsOf[t.who] # {}
           w     == [t EXCEPT
                        !.rest = @ \ {b},
                        !.pc   = IF fires THEN "trigger" ELSE @,
                        !.todo = IF fires THEN RecipientsOf[t.who] ELSE {}]
<1>0. t \in Task /\ t.pc = "check" /\ m \in Cache
  <2>1. Missable(j, b)
    BY DEF Miss
  <2> QED
    BY <2>1, MissHeld, OwnRows DEF Missable, Checking
<1>1. /\ Flush(j, m) /\ Hold(j, m, m) /\ GoOn(j, w)
      /\ counted' = counted \cup {b} /\ UNCHANGED <<now, issued>>
    BY DEF Miss, clock
<1>2. /\ w.rest = t.rest \ {b} /\ w.who = t.who
      /\ \/ w.pc = "check"
         \/ w.pc = "trigger" /\ fires /\ w.todo = RecipientsOf[w.who]
    BY <1>0 DEF Task
<1>3. /\ LockFree(j) /\ Countable(now, db.log[b], new.log[b])
      /\ Bounded(counted', m.users, new.log, t.rest \ {b})
    BY <1>1, MissCounts
<1>4. Held(now, base[j].log, m.log, Seen(j).log, db.log)
  <2>1. Missable(j, b)
    BY DEF Miss
  <2> QED
    BY <2>1, MissHeld
<1>5. /\ counted' \subseteq Beats /\ counted \subseteq counted' /\ StoreInv
      /\ \A c \in counted' \ counted : Countable(now, db.log[c], new.log[c])
    BY <1>1, <1>3, CountTypes DEF RowInv
<1> HIDE DEF m, w
<1>6. \A c \in counted' : Kept(new.log[c], new.log[c])
    BY <1>1, <1>3, <1>4, <1>0, MergedKept, KeptOrder DEF Countable, Kept
<1>7. \A u \in Users : m.users[u].misses \in Nat
    BY <1>0 DEF Cache, UserRow
<1>8. Bounded(counted', m.users, new.log, {})
    BY <1>3, <1>5, <1>6, <1>7, WithinGrows DEF Bounded
<1>9. StoreCounts' /\ Settles({j})
    BY <1>0, <1>1, <1>3, <1>4, <1>5, <1>8, WriteCounts
<1>10. \A c \in Beats : Seen(j)'.log[c] = new.log[c]
    BY <1>0, <1>1, <1>4, <1>5, WriteStep
<1>11. Left(w) = t.rest \ {b} /\ Fires(w, m)
    BY <1>2 DEF Left, OneUser, Fires
<1>12. Bounded(counted', m.users, Seen(j)'.log, Left(w))
  <2> HIDE DEF new
  <2>1. \A u : Judged(counted', Seen(j)'.log, u) = Judged(counted', new.log, u)
    BY <1>5, <1>10 DEF Judged
  <2> QED
    BY <1>3, <1>11, <2>1 DEF Bounded, Within
<1> QED
    BY <1>1, <1>5, <1>9, <1>11, <1>12, CountStep

LEMMA TriggerCount ==
    ASSUME TypeOK, RowInv, CountInv, NEW j \in Jobs,
           \/ FlushEscalation(j) \/ CommitTrigger(j) \/ Deactivate(j)
           \/ \E r \in Recipients, outcome \in Outcomes : Deliver(j, r, outcome)
    PROVE  CountInv'
<1> USE DEF Sessions
<1> DEFINE t == task[j]
<1>0. /\ t \in Task /\ mine[j] \in Cache
      /\ Held(now, base[j].log, mine[j].log, Seen(j).log, db.log)
      /\ Fires(t, mine[j])
    BY OwnRows DEF CountInv
<1>1. CASE FlushEscalation(j) \/ CommitTrigger(j)
  <2>1. PICK pc \in {"check", "deactivate"} :
            /\ Goto(j, pc) /\ Hold(j, mine[j], mine[j])
            /\ Flush(j, mine[j]) \/ Commit(j, mine[j])
            /\ UNCHANGED <<now, issued, counted>>
            /\ t.pc \in {"mail", "trigger"}
            /\ pc = "deactivate" => t.pc = "trigger"
    BY <1>1 DEF FlushEscalation, CommitTrigger, clock, world
  <2> DEFINE w == [t EXCEPT !.pc = pc]
  <2>2. /\ w.pc = pc /\ w.who = t.who /\ w.rest = t.rest /\ w.todo = t.todo
        /\ GoOn(j, w)
    BY <1>0, <2>1 DEF Task, Goto
  <2> HIDE DEF w
  <2>3. Left(w) = Left(t) /\ Fires(w, mine[j])
    BY <1>0, <2>1, <2>2 DEF Left, OneUser, Fires
  <2> QED
    BY <1>0, <2>1, <2>2, <2>3, FlushCount
<1>2. CASE Deactivate(j)
  <2> DEFINE m == Deactivated(j)
             w == [t EXCEPT !.pc = "check"]
  <2>1. m \in Cache
    BY <1>0, DeactivatedType
  <2>2. /\ m.log = mine[j].log
        /\ \A u \in Users : m.users[u].misses = mine[j].users[u].misses
    BY <1>0 DEF Deactivated, Cache, UserRow
  <2>3. /\ GoOn(j, w) /\ Hold(j, m, m) /\ Commit(j, m)
        /\ UNCHANGED <<now, issued, counted>> /\ t.pc = "deactivate"
    BY <1>2 DEF Deactivate, Goto, clock, world
  <2>4. w.pc = "check" /\ w.rest = t.rest
    BY <1>0 DEF Task
  <2> HIDE DEF m, w
  <2>5. Left(w) = Left(t) /\ Fires(w, m)
    BY <2>3, <2>4 DEF Left, OneUser, Fires
  <2>6. Held(now, base[j].log, m.log, Seen(j).log, db.log)
    BY <1>0, <2>2
  <2> QED
    BY <2>1, <2>2, <2>3, <2>5, <2>6, FlushCount
<1>3. CASE \E r \in Recipients, outcome \in Outcomes : Deliver(j, r, outcome)
  <2> PICK r \in Recipients, outcome \in Outcomes : Deliver(j, r, outcome)
    BY <1>3
  <2> DEFINE w == [t EXCEPT !.todo = @ \ {r}]
  <2>1. /\ GoOn(j, w) /\ t.pc = "trigger" /\ UNCHANGED <<mine, base, db, writer>>
        /\ UNCHANGED <<now, counted>>
    BY DEF Deliver, clock
  <2>2. /\ w.pc = "trigger" /\ w.who = t.who /\ w.rest = t.rest
        /\ w.todo \subseteq t.todo
    BY <1>0, <2>1 DEF Task
  <2>3. wal'.log = wal.log /\ wal'.users = wal.users
    BY DEF Deliver, TypeOK, Database
  <2> HIDE DEF w
  <2>4. StoreCounts'
    BY <2>1, <2>3 DEF CountInv, StoreCounts
  <2>5. \A s \in Sessions : Seen(s)'.log = Seen(s).log
    BY <2>1, <2>3 DEF Seen
  <2>6. Settles({j})
    <3>1. \A c \in counted : Kept(db.log[c], db.log[c])
      BY KeptOrder DEF CountInv, StoreCounts, Countable
    <3>2. \A c \in counted, s \in Sessions :
              Kept(Seen(s).log[c], Seen(s).log[c])
      BY SeenKept
    <3> QED
      BY <2>1, <2>5, <3>1, <3>2 DEF Settles
  <2>7. Hold(j, mine[j], base[j])
    BY <2>1, SameHold
  <2>8. Left(w) = Left(t) /\ Fires(w, mine[j])
    BY <1>0, <2>1, <2>2 DEF Left, OneUser, Fires
  <2>9. Bounded(counted, mine[j].users, Seen(j)'.log, Left(w))
    BY <2>5, <2>8 DEF CountInv
  <2> QED
    BY <2>1, <2>4, <2>6, <2>7, <2>8, <2>9, CountStep, CountTypes
<1> QED
    BY <1>1, <1>2, <1>3

\* A heartbeat that has not been inserted yet has not been counted.
LEMMA FreshBeat ==
    ASSUME TypeOK, StoreInv, CountInv, NEW b \in Beats,
           wal.log[b].status = "none"
    PROVE  b \notin counted /\ db.log[b].status = "none"
<1>1. db.log[b].status = "none"
    BY DEF StoreInv, Stored, Later
<1> QED
    BY <1>1 DEF CountInv, StoreCounts, Countable

LEMMA CreateCount ==
    ASSUME TypeOK, TypeOK', RowInv, CountInv, NEW j \in Jobs, CreateBeat(j)
    PROVE  CountInv'
<1> USE DEF Sessions
<1> DEFINE t   == task[j]
           u   == t.who
           b   == issued.real + 1
           new == Merged(j, mine[j])
           m   == [mine[j] EXCEPT !.users = Scheduling(@, {u})]
           w   == [t EXCEPT !.pc = "scan", !.who = Nobody,
                            !.pend = @ \cup {b}]
<1>0. /\ t \in Task /\ mine[j] \in Cache /\ mine[j].users \in [Users -> UserRow]
      /\ StoreInv /\ StoreCounts /\ counted \subseteq Beats
      /\ Held(now, base[j].log, mine[j].log, Seen(j).log, db.log)
      /\ Nobody \notin Sessions
    BY OwnRows, CountTypes, CheckInAssumption DEF Cache, CountInv
<1>1. /\ LockFree(j) /\ writer' = j /\ db' = db
      /\ wal' = [new EXCEPT !.log[b] = NewBeat(u)]
      /\ issued' = [issued EXCEPT !.real = b]
      /\ Hold(j, m, mine[j]) /\ GoOn(j, w) /\ UNCHANGED <<now, counted>>
    BY DEF CreateBeat, Sends, Checked, MayWrite, clock, world
<1>2. w.pc = "scan"
    BY <1>0 DEF Task
<1>3. \A v \in Users : m.users[v].misses = mine[j].users[v].misses
    BY <1>0, SchedulingMisses DEF Cache
<1>4. b \in Scheduled /\ b > issued.real
  <2>1. /\ issued' \in [real: 0 .. MaxBeats, test: 0 .. MaxTests]
        /\ issued \in [real: 0 .. MaxBeats, test: 0 .. MaxTests]
        /\ issued'.real = b
    BY <1>1 DEF TypeOK
  <2> QED
    BY <2>1, CheckInAssumption DEF Scheduled
<1>5. b \notin counted
    BY <1>0, <1>4, FreshBeat, RowTypes DEF StoreInv
<1>6. wal'.users = new.users /\ \A c \in counted : wal'.log[c] = new.log[c]
    BY <1>0, <1>1, <1>5, MergedType DEF Database
<1>7. Seen(j) = wal /\ Seen(j)' = wal'
    BY <1>0, <1>1, LockShowsWal DEF Seen
<1>8. \A c \in counted : /\ Kept(db.log[c], Seen(j).log[c])
                         /\ Kept(Seen(j).log[c], new.log[c])
    BY <1>0, MergedKept
<1> HIDE DEF m, w, new, b
<1>9. Bounded(counted, mine[j].users, new.log, {})
  <2>1. Bounded(counted, mine[j].users, Seen(j).log, Left(t))
    BY DEF CountInv
  <2> QED
    BY <1>0, <1>8, <2>1, CountTypes, WithinGrows DEF Bounded
<1>10. Bounded(counted, new.users, new.log, {})
    BY <1>0, <1>9, MergedBounded DEF new
<1>11. \A v : Judged(counted, wal'.log, v) = Judged(counted, new.log, v)
    BY <1>6 DEF Judged
<1>12. StoreCounts'
  <2>1. \A c \in counted : Countable(now, db.log[c], wal'.log[c])
    BY <1>0, <1>6, <1>7, <1>8, KeptOrder DEF StoreCounts, Countable
  <2>2. Bounded(counted, wal'.users, wal'.log, {})
    BY <1>6, <1>10, <1>11 DEF Bounded, Within
  <2> QED
    BY <1>0, <1>1, <2>1, <2>2 DEF StoreCounts
<1>13. Settles({j})
  <2>1. \A o \in Sessions \ {j} : Seen(o) = db /\ Seen(o)' = db'
    BY <1>0, <1>1 DEF Seen, LockFree
  <2>2. \A c \in counted : Kept(db.log[c], db.log[c])
    BY <1>0, KeptOrder DEF StoreCounts, Countable
  <2> QED
    BY <1>1, <2>1, <2>2 DEF Settles
<1>14. Bounded(counted, m.users, Seen(j)'.log, {})
    BY <1>3, <1>7, <1>9, <1>11 DEF Bounded, Within
<1>15. Left(w) = {} /\ Fires(w, m)
    BY <1>2 DEF Left, OneUser, Fires
<1> QED
    BY <1>0, <1>1, <1>12, <1>13, <1>14, <1>15, CountStep

\* The session gives its rows up, and the others notice nothing.
LEMMA CloseCount ==
    ASSUME TypeOK, CountInv, NEW s \in Sessions, Close(s),
           UNCHANGED counted, StoreCounts', Settles({s})
    PROVE  CountInv'
<1>1. counted \subseteq Beats /\ GoOn(s, Idle) /\ Hold(s, Empty, Empty)
    BY CountTypes DEF Close
<1>2. Left(Idle) = {} /\ Fires(Idle, Empty)
    BY DEF Left, Idle, OneUser, Fires
<1>3. Bounded(counted, Empty.users, Seen(s)'.log, Left(Idle))
    BY <1>1, EmptyMisses, WithinZero DEF Bounded
<1> QED
    BY <1>1, <1>2, <1>3, CountStep

LEMMA AbortCount ==
    ASSUME TypeOK, RowInv, CountInv, NEW s \in Sessions, Abort(s)
    PROVE  CountInv'
<1>1. /\ Close(s) /\ UNCHANGED <<now, db, counted>>
      /\ \/ wal' = db /\ writer = s /\ writer' = Nobody
         \/ UNCHANGED <<wal, writer>> /\ writer # s
    BY DEF Abort, Rollback, clock, world
<1>2. StoreCounts /\ \A b \in counted : Kept(db.log[b], db.log[b])
    BY KeptOrder DEF CountInv, StoreCounts, Countable
<1>3. StoreCounts'
    BY <1>1, <1>2 DEF StoreCounts, Countable
<1>4. \A o \in Sessions \ {s} : Seen(o)' = Seen(o)
    BY <1>1, CheckInAssumption DEF Seen
<1>5. Settles({s})
    BY <1>1, <1>2, <1>4, SeenKept DEF Settles
<1> QED
    BY <1>1, <1>3, <1>5, CloseCount

LEMMA OpenCount ==
    ASSUME TypeOK, RowInv, CountInv, NEW r \in Requests,
           \/ \E b \in Beats : OpenLink(r, b)
           \/ FindUser(r)
           \/ \E u \in Users : OpenSettings(r, u)
    PROVE  CountInv'
<1> USE DEF Sessions
<1> DEFINE t == task[r]
<1>0. /\ t \in Task /\ mine[r] \in Cache /\ r \notin Jobs
    BY OwnRows, CheckInAssumption
<1>1. CASE \E b \in Beats : OpenLink(r, b)
  <2> PICK b \in Beats : OpenLink(r, b)
    BY <1>1
  <2> DEFINE w == [t EXCEPT !.pc = "open", !.beat = b]
             m == [Empty EXCEPT !.log[b] = db.log[b]]
  <2>1. GoOn(r, w) /\ Hold(r, m, m) /\ UNCHANGED <<now, store, counted>>
    BY DEF OpenLink, clock, world
  <2>2. w.pc = "open" /\ m.users = Empty.users
    BY <1>0 DEF Task, Empty
  <2> HIDE DEF w, m
  <2>3. Left(w) = {}
    BY <2>2 DEF Left, OneUser
  <2> QED
    BY <1>0, <2>1, <2>2, <2>3, EmptyMisses, QuietCount
<1>2. CASE FindUser(r)
  <2> DEFINE u == mine[r].log[t.beat].user
             w == [t EXCEPT !.pc = "confirm", !.who = u]
             m == [mine[r] EXCEPT !.users[u] = db.users[u]]
  <2>1. GoOn(r, w) /\ Hold(r, m, m) /\ UNCHANGED <<now, store, counted>>
    BY <1>2 DEF FindUser, clock, world
  <2>2. /\ w.pc = "confirm"
        /\ \A v \in Users : m.users[v] \in {mine[r].users[v], db.users[v]}
    BY <1>0 DEF Task, Cache
  <2> HIDE DEF w, m
  <2>3. Left(w) = {}
    BY <2>2 DEF Left, OneUser
  <2> QED
    BY <1>0, <2>1, <2>2, <2>3, QuietCount
<1>3. CASE \E u \in Users : OpenSettings(r, u)
  <2> PICK u \in Users : OpenSettings(r, u)
    BY <1>3
  <2> DEFINE w == [t EXCEPT !.pc = "settings", !.who = u]
             m == [Empty EXCEPT !.users[u] = db.users[u]]
  <2>1. GoOn(r, w) /\ Hold(r, m, m) /\ UNCHANGED <<now, store, counted>>
    BY DEF OpenSettings, clock, world
  <2>2. /\ w.pc = "settings"
        /\ \A v \in Users : m.users[v].misses \in {0, db.users[v].misses}
    BY <1>0, EmptyMisses DEF Task, Empty
  <2> HIDE DEF w, m
  <2>3. Left(w) = {}
    BY <2>2 DEF Left, OneUser
  <2> QED
    BY <1>0, <2>1, <2>2, <2>3, QuietCount
<1> QED
    BY <1>1, <1>2, <1>3

LEMMA AnswerCount ==
    ASSUME TypeOK, RowInv, CountInv, NEW r \in Requests,
           \/ Confirm(r) \/ FinishTest(r)
           \/ \E body \in Bodies : SaveSettings(r, body)
    PROVE  CountInv'
<1> USE DEF Sessions
<1>0. /\ mine[r] \in Cache /\ now \in Int /\ r \notin Jobs
      /\ Held(now, base[r].log, mine[r].log, Seen(r).log, db.log)
    BY OwnRows, CheckInAssumption
<1>1. ASSUME NEW m \in Cache, Commit(r, m), Close(r),
             UNCHANGED <<now, issued, counted>>,
             Held(now, base[r].log, m.log, Seen(r).log, db.log),
             \A u \in Users : m.users[u].misses \in {0, mine[r].users[u].misses}
      PROVE  CountInv'
  <2>1. Left(Idle) = {} /\ GoOn(r, Idle) /\ Hold(r, Empty, Empty)
    BY <1>1 DEF Left, OneUser, Idle, Close
  <2> QED
    BY <1>0, <1>1, <2>1, EmptyMisses, FlushCount
<1>2. CASE Confirm(r)
  <2>1. \A u \in Users : Responded(r).users[u].misses
                             \in {0, mine[r].users[u].misses}
    BY <1>0 DEF Responded, Cache, UserRow
  <2>2. /\ task[r].pc = "confirm" /\ Commit(r, Responded(r)) /\ Close(r)
        /\ UNCHANGED <<now, issued, counted>>
    BY <1>2 DEF Confirm, clock, world
  <2> QED
    BY <1>1, <2>1, <2>2, ResponseHeld
<1>3. CASE FinishTest(r)
    BY <1>0, <1>1, <1>3 DEF FinishTest, clock, world
<1>4. CASE \E body \in Bodies : SaveSettings(r, body)
  <2> PICK body \in Bodies : SaveSettings(r, body)
    BY <1>4
  <2> DEFINE m == Updated(r, body)
  <2>1. m \in Cache /\ m.log = mine[r].log
    BY <1>0, UpdatedType DEF Updated, Cache
  <2>2. \A u \in Users : m.users[u].misses \in {0, mine[r].users[u].misses}
    BY <1>0 DEF Updated, Applied, Cache, UserRow
  <2>3. Commit(r, m) /\ Close(r) /\ UNCHANGED <<now, issued, counted>>
    BY DEF SaveSettings, clock, world
  <2> HIDE DEF m
  <2> QED
    BY <1>0, <1>1, <2>1, <2>2, <2>3
<1> QED
    BY <1>2, <1>3, <1>4

LEMMA TestCount ==
    ASSUME TypeOK, TypeOK', RowInv, CountInv, NEW r \in Requests, NEW u \in Users,
           SendTest(r, u)
    PROVE  CountInv'
<1> USE DEF Sessions
<1> DEFINE t == task[r]
           b == MaxBeats + issued.test + 1
           w == [t EXCEPT !.pc = "test"]
<1>0. /\ t \in Task /\ StoreInv /\ StoreCounts /\ counted \subseteq Beats
      /\ OnRows(now, t, mine[r], base[r])
      /\ t.pc = "idle" => writer # r
      /\ Nobody \notin Sessions /\ r \notin Jobs
    BY OwnRows, CountTypes, CheckInAssumption DEF CountInv
<1>1. /\ t.pc = "idle" /\ LockFree(r) /\ issued.test < MaxTests
      /\ wal' = [db EXCEPT !.log[b] = NewBeat(u)]
      /\ writer' = r /\ GoOn(r, w)
      /\ UNCHANGED <<now, db, mine, base, counted>>
    BY DEF SendTest, Starts, Goto, clock
<1>2. w.pc = "test"
    BY <1>0 DEF Task
<1>3. writer = Nobody /\ wal = db
    BY <1>0, <1>1 DEF LockFree, StoreInv
<1>4. issued.test \in Nat /\ MaxBeats \in Nat /\ MaxTests \in Nat
    BY CheckInAssumption DEF TypeOK
<1>5. b \in Beats \ Scheduled /\ b > MaxBeats + issued.test
    BY <1>1, <1>4 DEF Beats, Scheduled
<1>6. b \notin counted
    BY <1>0, <1>5, FreshBeat DEF StoreInv
<1>7. wal'.users = db.users /\ \A c \in counted : wal'.log[c] = db.log[c]
    BY <1>0, <1>1, <1>6 DEF TypeOK, Database
<1>8. mine[r] = Empty /\ Hold(r, mine[r], base[r])
    BY <1>0, <1>1, SameHold DEF OnRows
<1> HIDE DEF w, b
<1>9. \A c \in counted : Kept(db.log[c], db.log[c])
    BY <1>0, KeptOrder DEF StoreCounts, Countable
<1>10. StoreCounts'
  <2>1. \A v : Judged(counted, wal'.log, v) = Judged(counted, db.log, v)
    BY <1>7 DEF Judged
  <2> QED
    BY <1>0, <1>1, <1>7, <1>9, <2>1
    DEF StoreCounts, Bounded, Within, Countable
<1>11. Settles({r})
  <2>1. \A o \in Sessions \ {r} : Seen(o) = db /\ Seen(o)' = db
    BY <1>0, <1>1, <1>3 DEF Seen
  <2> QED
    BY <1>1, <1>9, <2>1 DEF Settles
<1>12. Left(w) = {} /\ Bounded(counted, mine[r].users, Seen(r)'.log, {})
    BY <1>0, <1>2, <1>8, EmptyMisses, WithinZero DEF Left, OneUser, Bounded
<1> QED
    BY <1>0, <1>1, <1>8, <1>10, <1>11, <1>12, CountStep

\* The clean-up removes settled heartbeats only.
LEMMA OutsideCount ==
    ASSUME TypeOK, RowInv, CountInv, Cleanup \/ Restart
    PROVE  CountInv'
<1>0. StoreInv /\ StoreCounts /\ counted \subseteq Beats
    BY CountTypes DEF RowInv, CountInv
<1>1. writer = Nobody /\ Nobody \notin Sessions
  <2>1. CASE Cleanup
    BY <2>1, CheckInAssumption DEF Cleanup
  <2>2. CASE Restart
    BY <2>2, CheckInAssumption DEF Restart, RowInv, SessionInv, TypeOK
  <2> QED
    BY <2>1, <2>2
<1>2. /\ wal = db /\ wal' = db'
      /\ UNCHANGED <<now, writer, task, mine, counted>>
    BY <1>0, <1>1 DEF Cleanup, Restart, StoreInv, clock, world
<1>3. \A b \in Beats :
          \/ db'.log[b] = db.log[b]
          \/ /\ ~ Open(db.log[b])
             /\ db'.log[b] = [db.log[b] EXCEPT !.status = "deleted"]
    BY DEF Cleanup, Restart, Old, Open, TypeOK, Database
<1>4. \A u \in Users : db'.users[u].misses = db.users[u].misses
  <2>1. db.users \in [Users -> UserRow]
    BY DEF TypeOK, Database
  <2>2. CASE Cleanup
    BY <2>2 DEF Cleanup, TypeOK, Database
  <2>3. CASE Restart
    <3>1. db'.users = Scheduling(db.users, {u \in Users : /\ db.users[u].active
                                                          /\ db.users[u].next = Never})
      BY <2>3 DEF Restart, TypeOK, Database
    <3> QED
      BY <2>1, <3>1, SchedulingMisses
  <2> QED
    BY <2>2, <2>3
<1>5. \A b \in counted : Kept(db.log[b], db'.log[b])
  <2> SUFFICES ASSUME NEW b \in counted, ~ Open(db.log[b]),
                      db'.log[b] = [db.log[b] EXCEPT !.status = "deleted"]
               PROVE  Kept(db.log[b], db'.log[b])
    BY <1>0, <1>3, KeptOrder DEF StoreCounts, Countable
  <2>1. /\ db'.log[b].status = "deleted" /\ db'.log[b].user = db.log[b].user
        /\ db'.log[b].escAt = db.log[b].escAt
    BY <1>0, RowTypes DEF BeatRow
  <2> QED
    BY <2>1 DEF Kept, Open
<1>6. \A s \in Sessions : Seen(s) = db /\ Seen(s)' = db'
    BY <1>1, <1>2 DEF Seen
<1>7. StoreCounts'
  <2>1. \A b \in counted : Countable(now, db'.log[b], db'.log[b])
    BY <1>0, <1>5 DEF StoreCounts, Countable, Kept
  <2>2. Bounded(counted, db'.users, db'.log, {})
    BY <1>0, <1>4, <1>5, CountTypes, WithinGrows DEF StoreCounts, Bounded
  <2> QED
    BY <1>2, <2>1, <2>2 DEF StoreCounts
<1>8. ASSUME NEW s \in Sessions
      PROVE  Bounded(counted, mine[s].users, Seen(s)'.log, Left(task[s]))
  <2>1. Bounded(counted, mine[s].users, db.log, Left(task[s]))
    BY <1>6 DEF CountInv
  <2> QED
    BY <1>0, <1>5, <1>6, <2>1, CountTypes, WithinGrows DEF Bounded
<1> QED
    BY <1>2, <1>7, <1>8 DEF CountInv, Sessions

LEMMA CrashCount ==
    ASSUME TypeOK, RowInv, CountInv, Crash
    PROVE  CountInv'
<1>0. StoreCounts /\ counted \subseteq Beats
    BY CountTypes DEF CountInv
<1>1. /\ wal' = db /\ UNCHANGED <<now, db, counted>>
      /\ \A s \in Sessions : task'[s] = Idle /\ mine'[s] = Empty
    BY DEF Crash, world
<1>2. StoreCounts'
    BY <1>0, <1>1, KeptOrder DEF StoreCounts, Countable
<1>3. \A s \in Sessions :
          Bounded(counted, Empty.users, Seen(s)'.log, Left(Idle))
    BY <1>0, EmptyMisses, WithinZero DEF Bounded, Left, Idle, OneUser
<1>4. Fires(Idle, Empty)
    BY DEF Fires, Idle
<1> QED
    BY <1>1, <1>2, <1>3, <1>4 DEF CountInv, Sessions

LEMMA TickCount ==
    ASSUME TypeOK, RowInv, CountInv, Tick
    PROVE  CountInv'
<1>1. /\ now' = now + 1 /\ now \in Nat
      /\ UNCHANGED <<db, wal, writer, task, mine, counted>>
    BY RowTypes DEF Tick, store, world
<1>2. \A b \in counted : db.log[b].escAt \in Int
    BY CountTypes, RowTypes DEF BeatRow
<1>3. StoreCounts'
    BY <1>1, <1>2 DEF CountInv, StoreCounts, Countable
<1> QED
    BY <1>1, <1>3 DEF CountInv, Seen, Fires

LEMMA InitCount == Init => CountInv
<1> SUFFICES ASSUME Init PROVE CountInv
    OBVIOUS
<1>1. /\ counted = {} /\ wal = db
      /\ \A s \in Sessions : task[s] = Idle /\ mine[s] = Empty
    BY DEF Init
<1>2. /\ \A log, R : Bounded(counted, Empty.users, log, R)
      /\ \A log, R : Bounded(counted, db.users, log, R)
  <2>1. \A u \in Users : db.users[u].misses = 0
    BY DEF Init, NewUser, Unloaded
  <2> QED
    BY <1>1, <2>1, EmptyMisses, WithinZero DEF Bounded
<1>3. Fires(Idle, Empty)
    BY DEF Fires, Idle
<1> QED
    BY <1>1, <1>2, <1>3 DEF CountInv, StoreCounts, Sessions

LEMMA MissesAreCounted == Spec => []CountInv
<1>1. TypeOK /\ TypeOK' /\ OnTask /\ ConfigInv /\ RowInv /\ CountInv
          /\ [Next]_vars => CountInv'
  <2> SUFFICES ASSUME TypeOK, TypeOK', OnTask, ConfigInv, RowInv, CountInv,
                      [Next]_vars
               PROVE  CountInv'
    OBVIOUS
  <2>1. CASE UNCHANGED vars
    BY <2>1 DEF vars, CountInv, StoreCounts, Seen, Fires
  <2>2. ASSUME NEW j \in Jobs, StartPass(j) \/ Pass(j)
        PROVE  CountInv'
    BY <2>2, ScanCount, SelectCount, TaskCount, EscalateCount, MissCount,
       TriggerCount, CreateCount, AbortCount DEF Pass, Sessions
  <2>3. ASSUME NEW r \in Requests, NewRequest(r) \/ Handle(r)
        PROVE  CountInv'
    BY <2>3, OpenCount, AnswerCount, TestCount, AbortCount
    DEF NewRequest, Handle, Sessions
  <2>4. CASE Next
    BY <2>2, <2>3, <2>4, OutsideCount, CrashCount, TickCount DEF Next
  <2> QED
    BY <2>1, <2>4
<1>2. Spec => []Inv
    BY InitType, InvStep, PTL DEF Spec, Inv
<1>3. Inv => TypeOK /\ OnTask
    BY DEF Inv
<1> QED
    BY <1>1, <1>2, <1>3, InitCount, ConfigsAreChosen, RowsAgree, PTL DEF Spec

\* For any constants: when the trigger fires for a user, at least as many
\* different heartbeats of that user were found missed as the threshold says,
\* however many passes found them, and whatever they had loaded before
\* (_check_outstanding_heartbeats).
THEOREM TheTriggerIsEarned == Spec => []TriggerIsEarned
<1>1. Inv /\ RowInv /\ CountInv => TriggerIsEarned
  <2> SUFFICES ASSUME Inv, RowInv, CountInv, NEW j \in Jobs, Firing(j)
               PROVE  Cardinality(CountedOf(task[j].who))
                          >= mine[j].users[task[j].who].config.threshold
    BY DEF TriggerIsEarned
  <2> DEFINE u   == task[j].who
             old == Judged(counted, Seen(j).log, u) \ Left(task[j])
             row == mine[j].users[u]
  <2>1. TypeOK /\ j \in Sessions /\ counted \subseteq Beats
    BY CountTypes DEF Inv, Sessions
  <2>2. u \in Users
    BY <2>1 DEF Inv, OnTask, Sound, Firing, OneUser
  <2>3. /\ row.misses >= row.config.threshold
        /\ row.misses \in Nat /\ row.config.threshold \in Nat
    BY <2>1, <2>2
    DEF CountInv, Fires, Firing, AtThreshold, TypeOK, Cache, UserRow, Config,
        Fields
  <2>4. row.misses <= Cardinality(old)
    BY <2>1, <2>2 DEF CountInv, Bounded, Within
  <2>5. old \subseteq CountedOf(u)
    BY <2>1, SeenKept DEF Judged, CountedOf, Kept
  <2>6. IsFiniteSet(CountedOf(u))
    <3>1. CountedOf(u) \subseteq Beats
      BY <2>1 DEF CountedOf
    <3> QED
      BY <3>1, BeatsFinite, FS_Subset
  <2>7. /\ Cardinality(old) <= Cardinality(CountedOf(u))
        /\ Cardinality(old) \in Nat /\ Cardinality(CountedOf(u)) \in Nat
    BY <2>1, <2>5, <2>6, JudgedFinite, FS_Subset, FS_CardinalityType
  <2> HIDE DEF old, row
  <2>8. Cardinality(CountedOf(u)) >= row.config.threshold
    BY <2>3, <2>4, <2>7
  <2> QED
    BY <2>8 DEF row
<1>2. Spec => []Inv
    BY InitType, InvStep, PTL DEF Spec, Inv
<1> QED
    BY <1>1, <1>2, RowsAgree, MissesAreCounted, PTL

-----------------------------------------------------------------------------
(* The trigger log.                                                        *)

\* What is under the write lock has every confirmed delivery, until the process
\* dies; what is committed has it unless a trigger has yet to commit.
AuditInv ==
    /\ \A r \in Recipients : /\ db.audit[r] <= mailed[r]
                             /\ wal.audit[r] <= mailed[r]
    /\ crashes = 0 =>
           \A r \in Recipients :
               /\ wal.audit[r] = acked[r]
               /\ \/ db.audit[r] = acked[r]
                  \/ \E j \in Jobs : task[j].pc = "trigger"

\* A step of s that sends nothing.
LEMMA AuditStep ==
    ASSUME AuditInv, NEW s \in Sessions, UNCHANGED <<mailed, acked, crashes>>,
           \A o \in Sessions \ {s} : task'[o] = task[o],
           wal'.audit = wal.audit, db'.audit \in {db.audit, wal.audit},
           task[s].pc = "trigger" => db'.audit = wal.audit
    PROVE  AuditInv'
BY DEF AuditInv, Sessions

LEMMA FlushAudit ==
    ASSUME StoreInv, NEW s \in Sessions, NEW m, Flush(s, m) \/ Commit(s, m)
    PROVE  /\ wal'.audit = wal.audit /\ db'.audit \in {db.audit, wal.audit}
           /\ Commit(s, m) /\ writer = s => db'.audit = wal.audit
<1>1. Merged(s, m).audit = Seen(s).audit
    BY DEF Merged
<1>2. LockFree(s) => Seen(s) = wal
    BY LockShowsWal
<1> QED
    BY <1>1, <1>2 DEF Flush, Commit, MayWrite, store

LEMMA AbortAudit ==
    ASSUME TypeOK, RowInv, AuditInv, NEW s \in Sessions, Abort(s)
    PROVE  AuditInv'
<1>1. task[s].pc # "trigger"
    BY DEF Abort, WriteFails, Missable, Checking, Sends, Checked
<1>2. /\ UNCHANGED <<db, mailed, acked, crashes>>
      /\ \A o \in Sessions \ {s} : task'[o] = task[o]
      /\ IF writer = s THEN wal' = db ELSE wal' = wal
    BY DEF Abort, Rollback, Close, GoOn, clock, world, TypeOK
<1>3. CASE writer # s
    BY <1>1, <1>2, <1>3, AuditStep
<1>4. CASE writer = s
  <2>1. \A j \in Jobs : task[j].pc # "trigger"
    BY <1>1, <1>4 DEF RowInv, SessionInv, Sessions
  <2> QED
    BY <1>2, <1>4, <2>1 DEF AuditInv
<1> QED
    BY <1>3, <1>4

LEMMA PassAudit ==
    ASSUME TypeOK, RowInv, AuditInv, NEW j \in Jobs, StartPass(j) \/ Pass(j)
    PROVE  AuditInv'
<1> USE DEF Sessions
<1>0. StoreInv /\ mine[j] \in Cache
    BY OwnRows
<1>1. CASE \/ StartPass(j) \/ NextUser(j)
           \/ \E u \in Users : Reschedule(j, u)
           \/ \E b \in Beats : \/ Escalate(j, b) \/ RaiseTypeError(j, b)
                               \/ Leave(j, b) \/ Notify(j, b)
  <2>1. /\ UNCHANGED <<store, mailed, acked, crashes>> /\ task[j].pc # "trigger"
        /\ \E w : GoOn(j, w)
    BY <1>1 DEF StartPass, NextUser, Checked, Reschedule, Escalate,
                RaiseTypeError, Leave, Notify, Checking, clock, world
  <2>2. \A o \in Sessions \ {j} : task'[o] = task[o]
    BY <2>1 DEF GoOn, TypeOK
  <2> QED
    BY <2>1, <2>2, AuditStep DEF store
<1>2. CASE \/ FlushEscalation(j) \/ Deactivate(j) \/ FinishScan(j)
           \/ FinishPass(j) \/ CommitTrigger(j)
           \/ \E u \in Users : SelectExpired(j, u)
           \/ \E b \in Beats : Miss(j, b)
  <2>1. PICK m : /\ Flush(j, m) \/ Commit(j, m)
                 /\ task[j].pc = "trigger" => Commit(j, m)
    BY <1>2 DEF FlushEscalation, Deactivate, FinishScan, FinishPass,
                CommitTrigger, SelectExpired, Miss, Missable, Checking
  <2>2. UNCHANGED <<mailed, acked, crashes>> /\ \E w : GoOn(j, w)
    BY <1>2 DEF FlushEscalation, Deactivate, FinishScan, FinishPass,
                CommitTrigger, SelectExpired, Miss, Goto, clock, world
  <2>3. \A o \in Sessions \ {j} : task'[o] = task[o]
    BY <2>2 DEF GoOn, TypeOK
  <2>4. task[j].pc = "trigger" => writer = j
    BY OwnRows
  <2> QED
    BY <1>0, <2>1, <2>2, <2>3, <2>4, FlushAudit, AuditStep
<1>3. CASE CreateBeat(j)
  <2>1. /\ LockFree(j) /\ task[j].pc # "trigger" /\ db' = db
        /\ UNCHANGED <<mailed, acked, crashes>>
    BY <1>3 DEF CreateBeat, Sends, Checked, MayWrite, clock, world
  <2>2. \A o \in Sessions \ {j} : task'[o] = task[o]
    BY <1>3 DEF CreateBeat, GoOn, TypeOK
  <2>3. wal'.audit = wal.audit
    BY <1>0, <1>3, <2>1, LockShowsWal DEF CreateBeat, Merged
  <2> QED
    BY <2>1, <2>2, <2>3, AuditStep
<1>4. CASE \E r \in Recipients, outcome \in Outcomes : Deliver(j, r, outcome)
  <2> PICK r \in Recipients, outcome \in Outcomes : Deliver(j, r, outcome)
    BY <1>4
  <2>1. /\ UNCHANGED <<db, crashes>> /\ task'[j].pc = "trigger"
        /\ \A q \in Recipients :
               /\ wal'.audit[q] = IF outcome = "accepted" /\ q = r
                                  THEN wal.audit[q] + 1 ELSE wal.audit[q]
               /\ mailed'[q] = IF outcome # "refused" /\ q = r
                               THEN mailed[q] + 1 ELSE mailed[q]
               /\ acked'[q] = IF outcome = "accepted" /\ q = r
                              THEN acked[q] + 1 ELSE acked[q]
    BY DEF Deliver, LogsDelivery, GoOn, TypeOK, Database, Task, clock
  <2>2. \A q \in Recipients : /\ db.audit[q] \in Nat /\ wal.audit[q] \in Nat
                              /\ mailed[q] \in Nat /\ acked[q] \in Nat
    BY DEF TypeOK, Database
  <2> QED
    BY <2>1, <2>2 DEF AuditInv
<1>5. CASE Abort(j)
    BY <1>5, AbortAudit
<1> QED
    BY <1>1, <1>2, <1>3, <1>4, <1>5 DEF Pass

LEMMA RequestAudit ==
    ASSUME TypeOK, RowInv, AuditInv, NEW r \in Requests,
           NewRequest(r) \/ Handle(r)
    PROVE  AuditInv'
<1> USE DEF Sessions
<1>0. /\ StoreInv
      /\ task[r].pc = "idle" => writer # r
    BY OwnRows
<1>1. CASE \/ FindUser(r) \/ \E b \in Beats : OpenLink(r, b)
           \/ \E u \in Users : OpenSettings(r, u)
  <2>1. /\ UNCHANGED <<store, mailed, acked, crashes>> /\ task[r].pc # "trigger"
        /\ \E w : GoOn(r, w)
    BY <1>1 DEF FindUser, OpenLink, OpenSettings, Starts, clock, world
  <2>2. \A o \in Sessions \ {r} : task'[o] = task[o]
    BY <2>1 DEF GoOn, TypeOK
  <2> QED
    BY <2>1, <2>2, AuditStep DEF store
<1>2. CASE \/ Confirm(r) \/ FinishTest(r)
           \/ \E body \in Bodies : SaveSettings(r, body)
  <2>1. (\E m : Commit(r, m)) /\ task[r].pc # "trigger"
    BY <1>2 DEF Confirm, FinishTest, SaveSettings
  <2>2. UNCHANGED <<mailed, acked, crashes>> /\ Close(r)
    BY <1>2 DEF Confirm, FinishTest, SaveSettings, clock, world
  <2>3. \A o \in Sessions \ {r} : task'[o] = task[o]
    BY <2>2 DEF Close, GoOn, TypeOK
  <2> QED
    BY <1>0, <2>1, <2>2, <2>3, FlushAudit, AuditStep
<1>3. CASE \E u \in Users : SendTest(r, u)
  <2>1. /\ LockFree(r) /\ task[r].pc = "idle" /\ db' = db
        /\ wal'.audit = db.audit /\ UNCHANGED <<mailed, acked, crashes>>
    BY <1>3 DEF SendTest, Starts, clock, TypeOK, Database
  <2>2. wal = db
    BY <1>0, <2>1 DEF LockFree, StoreInv
  <2>3. \A o \in Sessions \ {r} : task'[o] = task[o]
    BY <1>3 DEF SendTest, Goto, GoOn, TypeOK
  <2> QED
    BY <2>1, <2>2, <2>3, AuditStep
<1>4. CASE Abort(r)
    BY <1>4, AbortAudit
<1> QED
    BY <1>1, <1>2, <1>3, <1>4 DEF NewRequest, Handle

LEMMA OtherAudit ==
    ASSUME TypeOK, RowInv, AuditInv, Cleanup \/ Crash \/ Restart \/ Tick
    PROVE  AuditInv'
<1>1. CASE Cleanup \/ Restart
  <2>1. writer = Nobody
    BY <1>1 DEF Cleanup, Restart, RowInv, SessionInv, TypeOK
  <2>2. wal = db
    BY <2>1 DEF RowInv, StoreInv
  <2>3. /\ wal' = db' /\ db'.audit = db.audit
        /\ UNCHANGED <<task, mailed, acked, crashes>>
    BY <1>1 DEF Cleanup, Restart, TypeOK, Database, clock, world
  <2> QED
    BY <2>2, <2>3 DEF AuditInv
<1>2. CASE Crash
  <2>1. crashes' # 0 /\ wal' = db /\ UNCHANGED <<db, mailed, acked>>
    BY <1>2, CheckInAssumption DEF Crash, TypeOK, world
  <2> QED
    BY <2>1 DEF AuditInv
<1>3. CASE Tick
    BY <1>3 DEF Tick, AuditInv, store, world
<1> QED
    BY <1>1, <1>2, <1>3

LEMMA DeliveriesAreLogged == Spec => []AuditInv
<1>1. Init => AuditInv
    BY DEF Init, AuditInv
<1>2. TypeOK /\ RowInv /\ AuditInv /\ [Next]_vars => AuditInv'
  <2> SUFFICES ASSUME TypeOK, RowInv, AuditInv, [Next]_vars PROVE AuditInv'
    OBVIOUS
  <2>1. CASE UNCHANGED vars
    BY <2>1 DEF vars, AuditInv
  <2>2. CASE Next
    BY <2>2, PassAudit, RequestAudit, OtherAudit DEF Next
  <2> QED
    BY <2>1, <2>2
<1> QED
    BY <1>1, <1>2, TypeCorrect, RowsAgree, PTL DEF Spec

\* For any constants: the trigger log never claims an email that was not
\* accepted, and while the process stays up it has every one whose acceptance
\* was confirmed in time, whatever becomes of the pass that fired the trigger.
\* (execute_trigger.)
THEOREM AuditsMatchMails == Spec => []AuditMatchesMail
<1>1. AuditInv => AuditMatchesMail
    BY DEF AuditInv, AuditMatchesMail, AllIdle, Sessions
<1> QED
    BY <1>1, DeliveriesAreLogged, PTL

-----------------------------------------------------------------------------
(* CheckIn implements DeadMansSwitch.                                      *)

\* The status y may come after x when the heartbeats W were warned of and the
\* heartbeats C were counted.
May(b, x, y, W, C) ==
    \/ x = y
    \/ x = "none" /\ y = "sent"
    \/ x \in {"sent", "escalated", "missed"} /\ y = "responded"
    \/ x \in {"sent", "responded"} /\ y = "escalated" /\ b \in W
    \/ x \in {"escalated", "responded"} /\ y = "missed" /\ b \in C
    \/ x \in {"responded", "missed"} /\ y = "deleted"

MissesIn(log, C) == \A b \in Beats : log[b].status = "missed" => b \in C

Pending == \A b \in Beats : May(b, db.log[b].status, wal.log[b].status,
                                warned, counted)

\* What is under the write lock may be committed, and what a session holds as
\* missed was counted.
PendInv == /\ Pending
           /\ \A s \in Sessions : MissesIn(mine[s].log, counted)

SwitchStep == [Switch!Next]_(Switch!switch)

\* The instance has a copy of the operator.
LEMMA SwitchCardinality == \A S : Switch!Cardinality(S) = Cardinality(S)
BY DEF Switch!Cardinality, Cardinality

\* A step that leaves the committed heartbeats alone, and the outside world.
LEMMA StutterStep ==
    ASSUME db'.log = db.log, UNCHANGED <<warned, counted, mailed>>
    PROVE  SwitchStep
BY DEF SwitchStep, Switch!switch

\* A commit, or the clean-up.
LEMMA AdvanceStep ==
    ASSUME TypeOK, StoreInv, StoreInv', UNCHANGED <<warned, counted, mailed>>,
           \A b \in Beats :
               /\ May(b, db.log[b].status, db'.log[b].status, warned, counted)
               /\ Later(now, db.log[b], db'.log[b])
    PROVE  SwitchStep
<1> DEFINE owner == [b \in Beats |-> db.log[b].user]
           stage == [b \in Beats |-> db.log[b].status]
<1>1. \A b \in Beats :
          \/ db'.log[b].user = db.log[b].user
          \/ db.log[b].status = "none" /\ db'.log[b].status # "none"
    BY DEF StoreInv, Stored, Timely, Later
<1>2. CASE stage' = stage
  <2>1. \A b \in Beats : db'.log[b].status = db.log[b].status
    BY <1>2
  <2>2. owner' = owner
    BY <1>1, <2>1
  <2> QED
    BY <1>2, <2>2 DEF SwitchStep, Switch!switch
<1>3. CASE stage' # stage
  <2>1. ASSUME NEW b \in Beats
        PROVE  /\ stage'[b] = stage[b] \/ Switch!Follows(b, stage'[b])
               /\ owner'[b] = owner[b] \/ stage[b] = "none"
    BY <1>1 DEF May, Switch!Follows
  <2>2. Switch!Advance
    BY <1>3, <2>1 DEF Switch!Advance
  <2> QED
    BY <2>2 DEF SwitchStep, Switch!Next
<1> QED
    BY <1>2, <1>3

\* What the owner of the write lock would make of the database may be
\* committed.
LEMMA MergedMay ==
    ASSUME TypeOK, StoreInv, Pending, NEW s \in Sessions, NEW m \in Cache,
           Held(now, base[s].log, m.log, Seen(s).log, db.log),
           MayWrite(s, m), Warned(m.log),
           NEW C, counted \subseteq C, MissesIn(m.log, C), NEW b \in Beats
    PROVE  May(b, db.log[b].status, Merged(s, m).log[b].status, warned, C)
<1> DEFINE x   == base[s].log[b]
           y   == m.log[b]
           row == wal.log[b]
           old == db.log[b]
           new == Merged(s, m).log[b]
<1> SUFFICES May(b, old.status, new.status, warned, C)
    OBVIOUS
<1>1. /\ Seen(s) = wal /\ now \in Nat /\ Windows \subseteq Nat
      /\ x \in BeatRow /\ y \in BeatRow /\ row \in BeatRow /\ old \in BeatRow
    BY LockShowsWal, RowTypes, WindowsChosen DEF MayWrite, Cache
<1>2. new.status = Column(row.status, x.status, y.status)
    BY <1>1, MergedBeat
<1>3. May(b, old.status, row.status, warned, counted)
    BY DEF Pending
<1>4. /\ Copied(now, x, y, row, old) /\ Stored(now, old, row)
      /\ y # x => row.status # "deleted"
      /\ y.status = "escalated" => b \in warned
      /\ y.status = "missed" => b \in C
    BY <1>1 DEF Held, StoreInv, MayWrite, Warned, MissesIn
<1> HIDE DEF x, y, row, old, new
<1>5. CASE y.status = x.status
    BY <1>2, <1>3, <1>5 DEF Column, May
<1>6. CASE y.status # x.status
  <2>1. /\ new.status = y.status /\ old.status \notin {"none", "deleted"}
        /\ Timely(now, x) /\ Later(now, x, row) /\ Written(now, x, y)
        /\ x.status # "none" /\ row.status # "none"
    BY <1>2, <1>3, <1>4, <1>6 DEF Column, May, Copied, Later
  <2>2. old.status \in Status
    BY <1>1 DEF BeatRow
  <2>3. /\ old.escAt \in Int /\ row.escAt \in Int /\ x.escAt \in Int
        /\ Timely(now, old)
        /\ row.escAt = old.escAt \/ (old.escAt = Never /\ row.escAt = now)
        /\ row.escAt = x.escAt \/ (x.escAt = Never /\ row.escAt = now)
    BY <1>1, <1>4, <2>1 DEF Stored, Later, BeatRow
  <2>4. CASE /\ x.status = "sent" /\ y.status = "escalated"
    <3>1. row.escAt \in {Never, now}
      BY <2>1, <2>3, <2>4 DEF Timely
    <3>2. old.status # "missed"
      BY <1>1, <2>3, <3>1 DEF Timely, Never
    <3> QED
      BY <1>4, <2>1, <2>2, <2>4, <3>2 DEF May, Status
  <2>5. CASE /\ x.status = "escalated" /\ y.status = "missed"
             /\ \E w \in Windows : now > x.escAt + w
    <3>1. row.escAt = x.escAt /\ x.escAt # Never /\ x.escAt < now
      BY <1>1, <2>1, <2>3, <2>5 DEF Timely
    <3>2. old.status # "sent"
      BY <2>3, <3>1 DEF Timely
    <3> QED
      BY <1>4, <2>1, <2>2, <2>5, <3>2 DEF May, Status
  <2>6. CASE y.status = "responded"
    BY <2>1, <2>2, <2>6 DEF May, Status
  <2> QED
    BY <1>1, <1>6, <2>1, <2>4, <2>5, <2>6 DEF Written, BeatRow
<1> QED
    BY <1>5, <1>6

\* What is left to prove of a step of s.
LEMMA PendStep ==
    ASSUME TypeOK, PendInv, NEW s \in Sessions, NEW m, Pending',
           mine' = [mine EXCEPT ![s] = m], counted \subseteq counted',
           MissesIn(m.log, counted')
    PROVE  PendInv'
<1>1. /\ mine'[s] = m
      /\ \A o \in Sessions \ {s} : mine'[o] = mine[o]
    BY DEF TypeOK
<1> QED
    BY <1>1 DEF PendInv, MissesIn

LEMMA QuietPend ==
    ASSUME TypeOK, PendInv, NEW s \in Sessions, NEW m,
           mine' = [mine EXCEPT ![s] = m], MissesIn(m.log, counted),
           UNCHANGED <<store, warned, counted, mailed>>
    PROVE  PendInv' /\ SwitchStep
<1>1. Pending' /\ db' = db
    BY DEF PendInv, Pending, store
<1> QED
    BY <1>1, PendStep, StutterStep

\* A flush, which changes no committed row, or a commit of the rows m.
LEMMA FlushPend ==
    ASSUME TypeOK, RowInv, PendInv, NEW s \in Sessions, NEW m \in Cache,
           Held(now, base[s].log, m.log, Seen(s).log, db.log),
           Flush(s, m) \/ Commit(s, m), Warned(m.log), MissesIn(m.log, counted),
           NEW h, mine' = [mine EXCEPT ![s] = h], MissesIn(h.log, counted),
           UNCHANGED <<now, issued, warned, counted, mailed>>
    PROVE  PendInv' /\ SwitchStep
<1> DEFINE new == Merged(s, m)
<1>0. StoreInv /\ Pending
    BY DEF RowInv, PendInv
<1>1. CASE UNCHANGED store
    BY <1>1, QuietPend
<1>2. CASE /\ MayWrite(s, m) /\ wal' = new
           /\ db' = db \/ db' = new
  <2>1. \A b \in Beats : May(b, db.log[b].status, new.log[b].status,
                             warned, counted)
    BY <1>0, <1>2, MergedMay
  <2>2. Pending'
    BY <1>2, <2>1 DEF Pending, May
  <2>3. StoreInv' /\ \A b \in Beats : Later(now, db.log[b], db'.log[b])
    BY <1>0, WriteStep DEF Grown
  <2>4. \A b \in Beats : May(b, db.log[b].status, db'.log[b].status,
                             warned, counted)
    BY <1>2, <2>1 DEF May
  <2> QED
    BY <1>0, <2>2, <2>3, <2>4, PendStep, AdvanceStep
<1> QED
    BY <1>1, <1>2 DEF Flush, Commit

LEMMA OwnPend ==
    ASSUME TypeOK, RowInv, WarnedInv, PendInv, NEW s \in Sessions
    PROVE  /\ task[s] \in Task /\ mine[s] \in Cache /\ base[s] \in Cache
           /\ StoreInv /\ Pending
           /\ Held(now, base[s].log, mine[s].log, Seen(s).log, db.log)
           /\ Warned(mine[s].log) /\ MissesIn(mine[s].log, counted)
           /\ mine = [mine EXCEPT ![s] = mine[s]]
           /\ MissesIn(Empty.log, counted)
<1>1. MissesIn(Empty.log, counted)
    BY DEF MissesIn, Empty, NoBeat
<1> QED
    BY <1>1, OwnRows DEF WarnedInv, PendInv, TypeOK

LEMMA EscalatePend ==
    ASSUME TypeOK, RowInv, ConfigInv, OnTask, WarnedInv, PendInv,
           NEW j \in Jobs, NEW b \in Beats, Escalate(j, b)
    PROVE  PendInv' /\ SwitchStep
<1> USE DEF Sessions
<1> DEFINE m == Escalated(j, b)
<1>0. mine[j] \in Cache /\ MissesIn(mine[j].log, counted) /\ Pending
    BY OwnPend
<1>1. /\ mine' = [mine EXCEPT ![j] = m] /\ warned' = warned \cup {b}
      /\ UNCHANGED <<store, counted, mailed>>
    BY DEF Escalate
<1>2. db.log[b].status # "none"
    BY RestRows DEF Escalate
<1>3. MissesIn(m.log, counted)
    BY <1>0 DEF MissesIn, Escalated, Cache, BeatRow
<1>4. Pending'
    BY <1>0, <1>1 DEF Pending, May, store
<1>5. PendInv'
    BY <1>1, <1>3, <1>4, PendStep
<1>6. Switch!Warn(b)
    BY <1>1, <1>2 DEF Switch!Warn, store
<1> QED
    BY <1>5, <1>6 DEF SwitchStep, Switch!Next

LEMMA MissPend ==
    ASSUME TypeOK, RowInv, ConfigInv, OnTask, WarnedInv, PendInv,
           NEW j \in Jobs, NEW b \in Beats, Miss(j, b)
    PROVE  PendInv' /\ SwitchStep
<1> USE DEF Sessions
<1> DEFINE m == Missed(j, b)
           C == counted \cup {b}
<1>0. /\ mine[j] \in Cache /\ MissesIn(mine[j].log, counted)
      /\ Warned(mine[j].log) /\ Pending /\ StoreInv
    BY OwnPend
<1>1. /\ Flush(j, m) /\ mine' = [mine EXCEPT ![j] = m]
      /\ counted' = C /\ UNCHANGED <<warned, mailed>>
    BY DEF Miss, Hold
<1>2. /\ m \in Cache /\ mine[j].log[b].status = "escalated"
      /\ m.log[b].status = "missed"
      /\ \A c \in Beats \ {b} : m.log[c] = mine[j].log[c]
      /\ Held(now, base[j].log, m.log, Seen(j).log, db.log)
  <2>1. Missable(j, b)
    BY DEF Miss
  <2>2. /\ m \in Cache /\ mine[j].log[b].status = "escalated"
        /\ m.log[b] = [mine[j].log[b] EXCEPT !.status = "missed"]
        /\ \A c \in Beats \ {b} : m.log[c] = mine[j].log[c]
        /\ Held(now, base[j].log, m.log, Seen(j).log, db.log)
    BY <2>1, MissHeld
  <2>3. mine[j].log[b] \in BeatRow
    BY RowTypes
  <2> HIDE DEF m
  <2> QED
    BY <2>2, <2>3 DEF BeatRow
<1>3. b \in warned /\ Warned(m.log) /\ MissesIn(m.log, C)
    BY <1>0, <1>2 DEF Warned, MissesIn
<1> HIDE DEF m
<1>4. Pending'
  <2>1. CASE UNCHANGED store
    BY <1>0, <1>1, <2>1 DEF Pending, May, store
  <2>2. CASE MayWrite(j, m) /\ wal' = Merged(j, m) /\ db' = db
    <3>1. \A c \in Beats : May(c, db.log[c].status, Merged(j, m).log[c].status,
                               warned, C)
      BY <1>0, <1>2, <1>3, <2>2, MergedMay
    <3> QED
      BY <1>1, <2>2, <3>1 DEF Pending
  <2> QED
    BY <1>1, <2>1, <2>2 DEF Flush
<1>5. PendInv'
    BY <1>1, <1>3, <1>4, PendStep
<1>6. db' = db
    BY <1>1 DEF Flush, store
<1>7. Switch!Judge(b)
    BY <1>1, <1>3, <1>6 DEF Switch!Judge
<1> QED
    BY <1>5, <1>7 DEF SwitchStep, Switch!Next

\* The recipients hear of a user whose misses have reached a threshold that the
\* user has chosen.
LEMMA DeliverPend ==
    ASSUME TypeOK, OnTask, ConfigInv, CountInv, PendInv, TriggerIsEarned,
           NEW j \in Jobs, NEW r \in Recipients, NEW outcome \in Outcomes,
           Deliver(j, r, outcome)
    PROVE  PendInv' /\ SwitchStep
<1> USE DEF Sessions
<1> DEFINE u == task[j].who
           n == mine[j].users[u].config.threshold
<1>1. /\ task[j].pc = "trigger" /\ r \in task[j].todo
      /\ UNCHANGED <<db, mine, warned, counted>>
      /\ mailed' = IF outcome # "refused" THEN [mailed EXCEPT ![r] = @ + 1]
                   ELSE mailed
      /\ wal'.log = wal.log
    BY DEF Deliver, TypeOK, Database
<1>2. PendInv'
    BY <1>1 DEF PendInv, Pending
<1>3. CASE outcome = "refused"
    BY <1>1, <1>2, <1>3, StutterStep
<1>4. CASE outcome # "refused"
  <2>1. u \in Users /\ r \in RecipientsOf[u]
    BY <1>1 DEF OnTask, Sound, OneUser, CountInv, Fires
  <2>2. n \in Thresholds
    BY <2>1 DEF ConfigInv, Chosen, Choices, Thresholds, Fields
  <2>3. Cardinality(CountedOf(u)) >= n
    BY <1>1 DEF TriggerIsEarned, Firing
  <2> DEFINE owner  == [b \in Beats |-> db.log[b].user]
             silent == {b \in counted : owner[b] = u}
  <2>4. silent = CountedOf(u)
    BY CountTypes DEF CountedOf
  <2>5. \E k \in Thresholds : Switch!Cardinality(silent) >= k
    BY <2>2, <2>3, <2>4, SwitchCardinality
  <2>6. /\ mailed' = [mailed EXCEPT ![r] = @ + 1]
        /\ UNCHANGED <<db, warned, counted>>
    BY <1>1, <1>4
  <2>7. Switch!Tell(u, r)
    BY <2>1, <2>5, <2>6 DEF Switch!Tell
  <2> QED
    BY <1>2, <2>1, <2>7 DEF SwitchStep, Switch!Next
<1> QED
    BY <1>3, <1>4

LEMMA CreatePend ==
    ASSUME TypeOK, TypeOK', RowInv, WarnedInv, PendInv, NEW j \in Jobs,
           CreateBeat(j)
    PROVE  PendInv' /\ SwitchStep
<1> USE DEF Sessions
<1> DEFINE u   == task[j].who
           b   == issued.real + 1
           new == Merged(j, mine[j])
           m   == [mine[j] EXCEPT !.users = Scheduling(@, {u})]
<1>0. /\ mine[j] \in Cache /\ MissesIn(mine[j].log, counted)
      /\ Warned(mine[j].log) /\ Pending /\ StoreInv
      /\ Held(now, base[j].log, mine[j].log, Seen(j).log, db.log)
    BY OwnPend
<1>1. /\ MayWrite(j, mine[j]) /\ db' = db
      /\ wal' = [new EXCEPT !.log[b] = NewBeat(u)]
      /\ issued' = [issued EXCEPT !.real = b]
      /\ mine' = [mine EXCEPT ![j] = m]
      /\ UNCHANGED <<warned, counted, mailed>>
    BY DEF CreateBeat, Hold, world
<1>2. m.log = mine[j].log
    BY <1>0 DEF Cache
<1>3. b \in Scheduled /\ b > issued.real
  <2>1. /\ issued' \in [real: 0 .. MaxBeats, test: 0 .. MaxTests]
        /\ issued \in [real: 0 .. MaxBeats, test: 0 .. MaxTests]
        /\ issued'.real = b
    BY <1>1 DEF TypeOK
  <2> QED
    BY <2>1, CheckInAssumption DEF Scheduled
<1>4. db.log[b].status = "none"
    BY <1>0, <1>3, RowTypes DEF StoreInv, Stored, Later
<1>5. \A c \in Beats : wal'.log[c] = IF c = b THEN NewBeat(u) ELSE new.log[c]
    BY <1>0, <1>1, MergedType DEF Database
<1>6. \A c \in Beats : May(c, db.log[c].status, new.log[c].status,
                           warned, counted)
    BY <1>0, <1>1, MergedMay
<1> HIDE DEF m, new, b
<1>7. Pending'
    BY <1>1, <1>4, <1>5, <1>6 DEF Pending, May, NewBeat
<1>8. PendInv'
    BY <1>0, <1>1, <1>2, <1>7, PendStep
<1> QED
    BY <1>1, <1>8, StutterStep

LEMMA AbortPend ==
    ASSUME TypeOK, RowInv, WarnedInv, PendInv, NEW s \in Sessions, Abort(s)
    PROVE  PendInv' /\ SwitchStep
<1>1. /\ mine' = [mine EXCEPT ![s] = Empty]
      /\ UNCHANGED <<db, warned, counted, mailed>>
      /\ wal' = db \/ wal' = wal
    BY DEF Abort, Rollback, Close, Hold, world
<1>2. Pending'
    BY <1>1, OwnPend DEF Pending, May
<1> QED
    BY <1>1, <1>2, OwnPend, PendStep, StutterStep

LEMMA PassPend ==
    ASSUME TypeOK, TypeOK', OnTask, ConfigInv, RowInv, CountInv, WarnedInv,
           PendInv, TriggerIsEarned, NEW j \in Jobs, StartPass(j) \/ Pass(j)
    PROVE  PendInv' /\ SwitchStep
<1> USE DEF Sessions
<1>0. /\ mine[j] \in Cache /\ base[j] \in Cache
      /\ Held(now, base[j].log, mine[j].log, Seen(j).log, db.log)
      /\ Warned(mine[j].log) /\ MissesIn(mine[j].log, counted)
      /\ mine = [mine EXCEPT ![j] = mine[j]]
      /\ MissesIn(Empty.log, counted)
    BY OwnPend
<1>1. CASE StartPass(j)
  <2> DEFINE S == IF j = "dispatcher" THEN Due ELSE Outstanding
             m == [Empty EXCEPT !.users = [u \in Users |->
                       IF u \in S THEN db.users[u] ELSE Unloaded]]
  <2>1. mine' = [mine EXCEPT ![j] = m] /\ m.log = Empty.log
    BY <1>1 DEF StartPass, Hold, Empty
  <2>2. UNCHANGED <<store, warned, counted, mailed>>
    BY <1>1 DEF StartPass, world
  <2> HIDE DEF m
  <2> QED
    BY <1>0, <2>1, <2>2, QuietPend
<1>2. CASE \E u \in Users : Reschedule(j, u)
  <2> PICK u \in Users : Reschedule(j, u)
    BY <1>2
  <2> DEFINE m == [mine[j] EXCEPT !.users = Scheduling(@, {u})]
  <2>1. mine' = [mine EXCEPT ![j] = m] /\ m.log = mine[j].log
    BY <1>0 DEF Reschedule, Cache
  <2>2. UNCHANGED <<store, warned, counted, mailed>>
    BY DEF Reschedule, world
  <2> HIDE DEF m
  <2> QED
    BY <1>0, <2>1, <2>2, QuietPend
<1>3. CASE \E u \in Users : SelectExpired(j, u)
  <2> PICK u \in Users : SelectExpired(j, u)
    BY <1>3
  <2> DEFINE seen  == Merged(j, mine[j]).log
             found == Expired(seen, u, mine[j].users[u].config.window)
             h     == [users |-> mine[j].users,
                       log   |-> [b \in Beats |-> IF b \in found THEN seen[b]
                                                                 ELSE NoBeat]]
  <2>1. /\ Flush(j, mine[j]) /\ mine' = [mine EXCEPT ![j] = h]
        /\ UNCHANGED <<now, issued, warned, counted, mailed>>
    BY DEF SelectExpired, Hold, clock, world
  <2>2. MissesIn(h.log, counted)
    BY DEF MissesIn, Expired, Open, NoBeat
  <2> HIDE DEF h
  <2> QED
    BY <1>0, <2>1, <2>2, FlushPend
<1>4. CASE \E b \in Beats : Escalate(j, b)
    BY <1>4, EscalatePend
<1>5. CASE \/ NextUser(j)
           \/ \E b \in Beats : RaiseTypeError(j, b) \/ Leave(j, b) \/ Notify(j, b)
  <2>1. UNCHANGED <<store, mine, warned, counted, mailed>>
    BY <1>5 DEF NextUser, RaiseTypeError, Leave, Notify, world
  <2> QED
    BY <1>0, <2>1, QuietPend
<1>6. CASE \E b \in Beats : Miss(j, b)
    BY <1>6, MissPend
<1>7. CASE \E r \in Recipients, outcome \in Outcomes : Deliver(j, r, outcome)
    BY <1>7, DeliverPend
<1>8. CASE FlushEscalation(j) \/ CommitTrigger(j)
    BY <1>0, <1>8, FlushPend
    DEF FlushEscalation, CommitTrigger, Hold, clock, world
<1>9. CASE Deactivate(j)
  <2>1. Deactivated(j) \in Cache /\ Deactivated(j).log = mine[j].log
    BY <1>0, DeactivatedType DEF Deactivated, Cache
  <2>2. /\ Commit(j, Deactivated(j))
        /\ mine' = [mine EXCEPT ![j] = Deactivated(j)]
        /\ UNCHANGED <<now, issued, warned, counted, mailed>>
    BY <1>9 DEF Deactivate, Hold, clock, world
  <2> QED
    BY <1>0, <2>1, <2>2, FlushPend
<1>10. CASE CreateBeat(j)
    BY <1>10, CreatePend
<1>11. CASE FinishScan(j)
  <2> DEFINE seen  == Merged(j, mine[j]).users
             found == IF j = "dispatcher"
                      THEN {u \in Users : seen[u].active
                                             /\ seen[u].next = Never}
                      ELSE {}
             x     == [mine[j] EXCEPT !.users = [u \in Users |->
                          IF u \in found \ task[j].loaded THEN seen[u] ELSE @[u]]]
             m     == [x EXCEPT !.users = Scheduling(@, found)]
  <2>1. mine' = [mine EXCEPT ![j] = m] /\ m.log = mine[j].log
    BY <1>0, <1>11 DEF FinishScan, Hold, Cache
  <2> HIDE DEF m
  <2>2. /\ Flush(j, mine[j])
        /\ UNCHANGED <<now, issued, warned, counted, mailed>>
    BY <1>11 DEF FinishScan, clock, world
  <2> QED
    BY <1>0, <2>1, <2>2, FlushPend
<1>12. CASE FinishPass(j)
    BY <1>0, <1>12, FlushPend DEF FinishPass, Hold, world
<1>13. CASE Abort(j)
    BY <1>13, AbortPend
<1> QED
    BY <1>1, <1>2, <1>3, <1>4, <1>5, <1>6, <1>7, <1>8, <1>9, <1>10, <1>11,
       <1>12, <1>13 DEF Pass


LEMMA RequestPend ==
    ASSUME TypeOK, TypeOK', RowInv, CountInv, WarnedInv, PendInv,
           NEW r \in Requests, NewRequest(r) \/ Handle(r)
    PROVE  PendInv' /\ SwitchStep
<1> USE DEF Sessions
<1>0. /\ mine[r] \in Cache /\ base[r] \in Cache
      /\ Held(now, base[r].log, mine[r].log, Seen(r).log, db.log)
      /\ Warned(mine[r].log) /\ MissesIn(mine[r].log, counted)
      /\ mine = [mine EXCEPT ![r] = mine[r]]
      /\ MissesIn(Empty.log, counted) /\ StoreInv /\ Pending
    BY OwnPend
<1>1. CASE \E b \in Beats : OpenLink(r, b)
  <2> PICK b \in Beats : OpenLink(r, b)
    BY <1>1
  <2> DEFINE m == [Empty EXCEPT !.log[b] = db.log[b]]
  <2>1. mine' = [mine EXCEPT ![r] = m] /\ Open(db.log[b])
    BY DEF OpenLink, Hold
  <2>2. \A c \in Beats : m.log[c] = IF c = b THEN db.log[b] ELSE NoBeat
    BY DEF Empty
  <2>3. UNCHANGED <<store, warned, counted, mailed>>
    BY DEF OpenLink, world
  <2> HIDE DEF m
  <2>4. MissesIn(m.log, counted)
    BY <2>1, <2>2 DEF MissesIn, Open, NoBeat
  <2> QED
    BY <2>1, <2>3, <2>4, QuietPend
<1>2. CASE FindUser(r)
  <2> DEFINE u == mine[r].log[task[r].beat].user
             m == [mine[r] EXCEPT !.users[u] = db.users[u]]
  <2>1. mine' = [mine EXCEPT ![r] = m] /\ m.log = mine[r].log
    BY <1>0, <1>2 DEF FindUser, Hold, Cache
  <2>2. UNCHANGED <<store, warned, counted, mailed>>
    BY <1>2 DEF FindUser, world
  <2> HIDE DEF m
  <2> QED
    BY <1>0, <2>1, <2>2, QuietPend
<1>3. CASE Confirm(r)
  <2> DEFINE m == Responded(r)
  <2>1. /\ m \in Cache
        /\ Held(now, base[r].log, m.log, Seen(r).log, db.log)
    BY <1>3, ResponseHeld DEF Confirm
  <2>2. \A c \in Beats : m.log[c].status \in {mine[r].log[c].status, "responded"}
    BY <1>0 DEF Responded, Cache, BeatRow
  <2>3. /\ Commit(r, m) /\ mine' = [mine EXCEPT ![r] = Empty]
        /\ UNCHANGED <<now, issued, warned, counted, mailed>>
    BY <1>3 DEF Confirm, Close, Hold, clock, world
  <2> HIDE DEF m
  <2>4. Warned(m.log) /\ MissesIn(m.log, counted)
    BY <1>0, <2>2 DEF Warned, MissesIn
  <2> QED
    BY <1>0, <2>1, <2>3, <2>4, FlushPend
<1>4. CASE \E u \in Users : OpenSettings(r, u)
  <2> PICK u \in Users : OpenSettings(r, u)
    BY <1>4
  <2> DEFINE m == [Empty EXCEPT !.users[u] = db.users[u]]
  <2>1. mine' = [mine EXCEPT ![r] = m] /\ m.log = Empty.log
    BY DEF OpenSettings, Hold, Empty
  <2>2. UNCHANGED <<store, warned, counted, mailed>>
    BY DEF OpenSettings, world
  <2> HIDE DEF m
  <2> QED
    BY <1>0, <2>1, <2>2, QuietPend
<1>5. CASE \E body \in Bodies : SaveSettings(r, body)
  <2> PICK body \in Bodies : SaveSettings(r, body)
    BY <1>5
  <2> DEFINE m == Updated(r, body)
  <2>0. m.log = mine[r].log
    BY <1>0 DEF Updated, Cache
  <2>1. m \in Cache /\ m.log = mine[r].log
    BY <1>0, <2>0, UpdatedType, CheckInAssumption DEF TypeOK
  <2>2. /\ Commit(r, m) /\ mine' = [mine EXCEPT ![r] = Empty]
        /\ UNCHANGED <<now, issued, warned, counted, mailed>>
    BY DEF SaveSettings, Close, Hold, clock, world
  <2> HIDE DEF m
  <2> QED
    BY <1>0, <2>1, <2>2, FlushPend
<1>6. CASE FinishTest(r)
    BY <1>0, <1>6, FlushPend DEF FinishTest, Close, Hold, clock, world
<1>7. CASE \E u \in Users : SendTest(r, u)
  <2> PICK u \in Users : SendTest(r, u)
    BY <1>7
  <2> DEFINE b == MaxBeats + issued.test + 1
  <2>1. /\ LockFree(r) /\ issued.test < MaxTests /\ task[r].pc = "idle"
        /\ wal' = [db EXCEPT !.log[b] = NewBeat(u)]
        /\ UNCHANGED <<db, mine, warned, counted, mailed>>
    BY DEF SendTest, Starts
  <2>2. wal = db
    BY <1>0, <2>1 DEF LockFree, StoreInv, RowInv, SessionInv
  <2>3. issued.test \in Nat /\ MaxBeats \in Nat /\ MaxTests \in Nat
    BY CheckInAssumption DEF TypeOK
  <2>4. b \in Beats \ Scheduled /\ b > MaxBeats + issued.test
    BY <2>1, <2>3 DEF Beats, Scheduled
  <2>5. db.log[b].status = "none"
    BY <1>0, <2>2, <2>4 DEF StoreInv
  <2>6. \A c \in Beats : wal'.log[c] = IF c = b THEN NewBeat(u) ELSE db.log[c]
    BY <2>1 DEF TypeOK, Database
  <2> HIDE DEF b
  <2>7. Pending'
    BY <2>1, <2>5, <2>6 DEF Pending, May, NewBeat
  <2> QED
    BY <1>0, <2>1, <2>7, StutterStep DEF PendInv
<1>8. CASE Abort(r)
    BY <1>8, AbortPend
<1> QED
    BY <1>1, <1>2, <1>3, <1>4, <1>5, <1>6, <1>7, <1>8 DEF NewRequest, Handle

\* The clean-up is a step of the switch, the others are not seen.
LEMMA OtherPend ==
    ASSUME TypeOK, RowInv, PendInv, Cleanup \/ Crash \/ Restart \/ Tick
    PROVE  PendInv' /\ SwitchStep
<1>1. CASE Cleanup
  <2>1. StoreInv /\ StoreInv' /\ wal' = db'
    BY <1>1, OutsideRows DEF RowInv, Cleanup
  <2>2. UNCHANGED <<mine, warned, counted, mailed>>
    BY <1>1 DEF Cleanup, world
  <2>3. \A b \in Beats :
            \/ db'.log[b] = db.log[b]
            \/ /\ db.log[b].status \in {"responded", "missed"}
               /\ db'.log[b] = [db.log[b] EXCEPT !.status = "deleted"]
    BY <1>1 DEF Cleanup, Old, TypeOK, Database
  <2>4. ASSUME NEW b \in Beats
        PROVE  /\ May(b, db.log[b].status, db'.log[b].status, warned, counted)
               /\ Later(now, db.log[b], db'.log[b])
    <3>1. CASE db'.log[b] = db.log[b]
      BY <3>1, LaterOrder DEF May
    <3>2. CASE /\ db.log[b].status \in {"responded", "missed"}
               /\ db'.log[b] = [db.log[b] EXCEPT !.status = "deleted"]
      <4>1. /\ db'.log[b].status = "deleted"
            /\ db'.log[b].user = db.log[b].user
            /\ db'.log[b].sentAt = db.log[b].sentAt
            /\ db'.log[b].escAt = db.log[b].escAt
        BY <3>2, RowTypes DEF BeatRow
      <4> QED
        BY <3>2, <4>1 DEF May, Later
    <3> QED
      BY <2>3, <3>1, <3>2
  <2>5. SwitchStep
    BY <2>1, <2>2, <2>4, AdvanceStep
  <2> QED
    BY <2>1, <2>2, <2>5 DEF PendInv, Pending, May
<1>2. CASE Crash
  <2>1. /\ wal' = db /\ UNCHANGED <<db, warned, counted, mailed>>
        /\ \A s \in Sessions : mine'[s] = Empty
    BY <1>2 DEF Crash, world
  <2> QED
    BY <2>1, StutterStep DEF PendInv, Pending, May, MissesIn, Empty, NoBeat
<1>3. CASE Restart
  <2>1. /\ wal' = db' /\ db'.log = db.log
        /\ UNCHANGED <<mine, warned, counted, mailed>>
    BY <1>3 DEF Restart, TypeOK, Database, world
  <2> QED
    BY <2>1, StutterStep DEF PendInv, Pending, May
<1>4. CASE Tick
  <2>1. UNCHANGED <<db, wal, mine, warned, counted, mailed>>
    BY <1>4 DEF Tick, store, world
  <2> QED
    BY <2>1, StutterStep DEF PendInv, Pending
<1> QED
    BY <1>1, <1>2, <1>3, <1>4

LEMMA InitPend == Init => PendInv /\ Switch!Init
<1> SUFFICES ASSUME Init PROVE PendInv /\ Switch!Init
    OBVIOUS
<1>1. /\ \A b \in Beats : db.log[b] = NoBeat /\ wal.log[b] = NoBeat
      /\ \A s \in Sessions : mine[s] = Empty
      /\ warned = {} /\ counted = {} /\ mailed = [r \in Recipients |-> 0]
    BY DEF Init, Empty
<1>2. PendInv
    BY <1>1 DEF PendInv, Pending, May, MissesIn, Empty, NoBeat
<1>3. Switch!Init
    BY <1>1 DEF Switch!Init, NoBeat
<1> QED
    BY <1>2, <1>3

\* README.md:8-11, for any constants: every interleaving of the jobs and the
\* requests is a behaviour of the switch.  A commit skips no stage of a
\* heartbeat, only a heartbeat that was warned of is judged, and the recipients
\* hear of nobody who was not silent as often as a threshold of that service
\* says, even from a pass that is rolled back afterwards.
THEOREM CheckInIsASwitch == Spec => ImplementsSwitch
<1>1. TypeOK /\ TypeOK' /\ OnTask /\ ConfigInv /\ RowInv /\ CountInv
          /\ WarnedInv /\ TriggerIsEarned /\ PendInv /\ [Next]_vars
              => PendInv' /\ [Switch!Next]_(Switch!switch)
  <2> SUFFICES ASSUME TypeOK, TypeOK', OnTask, ConfigInv, RowInv, CountInv,
                      WarnedInv, TriggerIsEarned, PendInv, [Next]_vars
               PROVE  PendInv' /\ SwitchStep
    BY DEF SwitchStep
  <2>1. CASE UNCHANGED vars
    BY <2>1, StutterStep DEF vars, PendInv, Pending
  <2>2. CASE Next
    BY <2>2, PassPend, RequestPend, OtherPend DEF Next
  <2> QED
    BY <2>1, <2>2
<1>2. Spec => []Inv
    BY InitType, InvStep, PTL DEF Spec, Inv
<1>3. Inv => TypeOK /\ OnTask
    BY DEF Inv
<1> QED
    BY <1>1, <1>2, <1>3, InitPend, ConfigsAreChosen, RowsAgree,
       MissesAreCounted, WarningsComeFirst, TheTriggerIsEarned, PTL
    DEF Spec, ImplementsSwitch, Switch!Spec
=============================================================================
