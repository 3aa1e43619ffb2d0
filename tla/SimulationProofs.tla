-------------------------- MODULE SimulationProofs --------------------------
(***************************************************************************)
(* The rehearsal of Simulation leaves the real switch alone, for all       *)
(* values of the constants.                                                *)
(***************************************************************************)
EXTENDS Simulation, FiniteSetTheorems, TLAPS

Settled(beats) == {b \in Beats : /\ ~ beats[b].sim
                                 /\ beats[b].status \in {"missed", "responded"}}

\* A row that the real switch does not know may become a simulated one.
Hidden(x, y) ==
    \/ y = x
    \/ y.sim /\ y.status # "none" /\ (x.sim \/ x.status = "none")

\* The databases d and e are the same but for the rehearsal.
Same(d, e) ==
    /\ e.misses = d.misses
    /\ \A l \in TriggerLog : ~ l.sim => (l \in d.log <=> l \in e.log)
    /\ \A b \in Beats : Hidden(d.beats[b], e.beats[b])

Unsent(d, n) == \A b \in Beats : b > n => d.beats[b].status = "none"

\* Only a rehearsal holds the lock across steps.
StoreInv == /\ Same(db, wal) /\ Unsent(wal, issued)
            /\ writer = Nobody => wal = db
            /\ OnlyRealSilenceCounts

\* What request q, which sees d, may be doing when w holds the lock.
Working(q, t, d, w) ==
    /\ t.beat # 0 => d.beats[t.beat].status # "none"
    /\ t.pc \in {"push", "email", "count"} /\ t.beat # 0 => d.beats[t.beat].sim
    /\ t.pc \in {"push", "email"} \/ t.change # "none" => t.beat # 0
    /\ \A b \in t.forget : d.beats[b].sim /\ d.beats[b].status # "none"
    /\ \A l \in t.log : l.sim
    /\ t.pc \in {"forget", "forget log"} => t.resets /\ t.beat = 0
    /\ \/ t.pc = "push"
       \/ t.pc \in {"email", "count"} /\ t.change = "none"
       \/ t.pc = "reply" /\ ~ t.resets
       => w = q
    /\ w = q => /\ t.pc \in {"push", "email", "count", "reply", "forget log"}
                /\ t.pc \in {"push", "email", "count"} => t.change = "none"
    /\ t.pc = "reply" /\ ~ t.resets => t.misses = CountSimMisses(d)

Inv == /\ TypeOK /\ StoreInv
       /\ \A q \in Requests : Working(q, task[q], Seen(q), writer)

-----------------------------------------------------------------------------
(* Counting.                                                               *)

LEMMA BeatsFinite ==
    /\ IsFiniteSet(Beats) /\ Cardinality(Beats) = MaxBeats
    /\ \A S \in SUBSET Beats : /\ IsFiniteSet(S)
                               /\ Cardinality(S) \in 0 .. MaxBeats
<1>1. IsFiniteSet(Beats) /\ Cardinality(Beats) = MaxBeats
    BY SimulationAssumption, FS_Interval DEF Beats
<1>2. ASSUME NEW S \in SUBSET Beats
      PROVE  IsFiniteSet(S) /\ Cardinality(S) \in 0 .. MaxBeats
  <2>1. IsFiniteSet(S) /\ Cardinality(S) <= Cardinality(Beats)
    BY <1>1, FS_Subset
  <2> QED
    BY <1>1, <2>1, FS_CardinalityType
<1> QED
    BY <1>1, <1>2

LEMMA SimMissesType == \A d : CountSimMisses(d) \in 0 .. MaxBeats
BY BeatsFinite DEF CountSimMisses, Simulated

\* The misses stay justified as long as no real heartbeat is unsettled.
LEMMA SettledGrows ==
    ASSUME NEW x, NEW y, Settled(x) \subseteq Settled(y), NEW n \in Nat,
           n <= Cardinality(Settled(x))
    PROVE  n <= Cardinality(Settled(y))
<1>1. Settled(x) \in SUBSET Beats /\ Settled(y) \in SUBSET Beats
    BY DEF Settled
<1>2. Cardinality(Settled(x)) <= Cardinality(Settled(y))
    BY <1>1, BeatsFinite, FS_Subset
<1>3. /\ Cardinality(Settled(x)) \in 0 .. MaxBeats
      /\ Cardinality(Settled(y)) \in 0 .. MaxBeats
    BY <1>1, BeatsFinite
<1> QED
    BY <1>2, <1>3, SimulationAssumption

LEMMA SameOrder ==
    /\ \A d : Same(d, d)
    /\ \A d, e, f : Same(d, e) /\ Same(e, f) => Same(d, f)
<1>1. ASSUME NEW x, NEW y, NEW z, Hidden(x, y), Hidden(y, z)
      PROVE  Hidden(x, z)
  <2>1. CASE y = x
    BY <1>1, <2>1
  <2>2. CASE z = y
    BY <1>1, <2>2
  <2>3. CASE y # x /\ z # y
    BY <1>1, <2>3 DEF Hidden
  <2> QED
    BY <2>1, <2>2, <2>3
<1>2. ASSUME NEW x PROVE Hidden(x, x)
    BY DEF Hidden
<1>3. \A d : Same(d, d)
    BY <1>2 DEF Same
<1>4. ASSUME NEW d, NEW e, NEW f, Same(d, e), Same(e, f)
      PROVE  Same(d, f)
    BY <1>1, <1>4 DEF Same
<1> QED
    BY <1>3, <1>4

LEMMA SameSettled ==
    ASSUME NEW d, NEW e, Same(d, e)
    PROVE  Settled(d.beats) \subseteq Settled(e.beats)
BY DEF Same, Hidden, Settled

-----------------------------------------------------------------------------
(* What is left to prove of a step.                                        *)

\* A row keeps its token, and is not forgotten.
Later(x, y) == x.status # "none" => y.status # "none" /\ y.sim = x.sim

\* A step of the requests S is nothing to the others.
Calm(S) ==
    /\ \A b \in Beats : Later(db.beats[b], db'.beats[b])
    /\ \A o \in Requests \ S : /\ writer' = o <=> writer = o
                               /\ writer = o => wal' = wal

LEMMA OthersWork ==
    ASSUME Inv, NEW S, Calm(S), NEW o \in Requests \ S
    PROVE  Working(o, task[o], Seen(o)', writer')
<1>1. /\ Working(o, task[o], Seen(o), writer) /\ task[o] \in Task
      /\ writer' = o <=> writer = o
    BY DEF Inv, Calm, TypeOK
<1>2. CASE writer = o
  <2>1. Seen(o)' = Seen(o) /\ writer' = writer
    BY <1>1, <1>2 DEF Calm, Seen
  <2> QED
    BY <1>1, <2>1
<1>3. CASE writer # o
  <2>1. Seen(o)' = db' /\ Seen(o) = db
    BY <1>1, <1>3 DEF Seen
  <2>2. \A b \in Beats : Later(db.beats[b], db'.beats[b])
    BY DEF Calm
  <2>3. task[o].forget \subseteq Beats /\ task[o].beat \in Beats \cup {0}
    BY <1>1 DEF Task
  <2>4. ~ (task[o].pc = "reply" /\ ~ task[o].resets)
    BY <1>1, <1>3 DEF Working
  <2> QED
    BY <1>1, <1>3, <2>1, <2>2, <2>3, <2>4 DEF Working, Later
<1> QED
    BY <1>2, <1>3

LEMMA StepInv ==
    ASSUME Inv, NEW q \in Requests, NEW t \in Task, Goto(q, t),
           db' \in Database, wal' \in Database,
           writer' \in Requests \cup {Nobody}, issued' \in 0 .. MaxBeats,
           fired' \in 0 .. MaxFirings, known' \subseteq Beats,
           StoreInv', Calm({q}), Working(q, t, Seen(q)', writer')
    PROVE  Inv'
<1>1. task' \in [Requests -> Task] /\ task'[q] = t
    BY DEF Goto, Inv, TypeOK
<1>2. \A o \in Requests \ {q} : task'[o] = task[o]
    BY DEF Goto, Inv, TypeOK
<1>3. TypeOK'
    BY <1>1 DEF TypeOK
<1>4. \A o \in Requests : Working(o, task'[o], Seen(o)', writer')
    BY <1>1, <1>2, OthersWork
<1> QED
    BY <1>3, <1>4 DEF Inv

\* A step that writes nothing.
LEMMA QuietInv ==
    ASSUME Inv, NEW q \in Requests, NEW t \in Task, Goto(q, t),
           UNCHANGED <<store, issued>>, fired' \in 0 .. MaxFirings,
           known' \subseteq Beats, Working(q, t, Seen(q), writer)
    PROVE  Inv'
<1>1. UNCHANGED <<db, wal, writer, issued>>
    BY DEF store
<1>2. StoreInv' /\ TypeOK
    BY <1>1 DEF Inv, StoreInv, OnlyRealSilenceCounts
<1>3. Seen(q)' = Seen(q) /\ Calm({q})
    BY <1>1 DEF Seen, Calm, Later
<1> QED
    BY <1>1, <1>2, <1>3, StepInv DEF TypeOK

\* A step of a rehearsal that writes under the lock.
LEMMA FlushInv ==
    ASSUME Inv, NEW q \in Requests, NEW t \in Task, Goto(q, t),
           NEW d \in Database, Flush(q, d), Same(Seen(q), d),
           issued' \in 0 .. MaxBeats, Unsent(d, issued'),
           fired' = fired, known' = known, Working(q, t, d, q)
    PROVE  Inv'
<1>1. /\ db' = db /\ wal' = d /\ writer' = q /\ LockFree(q)
      /\ Nobody \notin Requests
    BY SimulationAssumption DEF Flush
<1>2. Seen(q) = wal
    BY <1>1 DEF Inv, StoreInv, LockFree, Seen
<1>3. TypeOK /\ StoreInv
    BY DEF Inv
<1>4. Same(db, d)
    BY <1>2, <1>3, SameOrder DEF StoreInv
<1>5. StoreInv'
    BY <1>1, <1>3, <1>4 DEF StoreInv, OnlyRealSilenceCounts
<1>6. Calm({q}) /\ Seen(q)' = d
    BY <1>1 DEF Calm, Later, LockFree, Seen
<1> QED
    BY <1>1, <1>3, <1>5, <1>6, StepInv DEF TypeOK


-----------------------------------------------------------------------------
(* The steps of the rehearsal.                                             *)

LEMMA OwnTask ==
    ASSUME Inv, NEW q \in Requests
    PROVE  /\ TypeOK /\ StoreInv /\ task[q] \in Task /\ Seen(q) \in Database
           /\ Working(q, task[q], Seen(q), writer)
           /\ task[q].pc = "idle" => writer # q
           /\ q # Nobody
           /\ \A b \in Beats : b > issued => Seen(q).beats[b].status = "none"
           /\ Unsent(Seen(q), issued)
<1>1. Unsent(db, issued)
    BY DEF Inv, StoreInv, Same, Hidden, Unsent
<1> QED
    BY <1>1, SimulationAssumption
    DEF Inv, TypeOK, StoreInv, Seen, Working, Unsent

LEMMA IdleType == Idle \in Task
BY SimulationAssumption DEF Idle, Task, Steps, Status

LEMMA SendInv ==
    ASSUME Inv, NEW q \in Requests, SendSimulated(q)
    PROVE  Inv'
<1> DEFINE b == issued + 1
           d == [db EXCEPT !.beats[b] = NewBeat(TRUE)]
           t == [Idle EXCEPT !.pc = "push", !.beat = b]
<1>1. /\ task[q].pc = "idle" /\ issued < MaxBeats /\ Flush(q, d)
      /\ issued' = b /\ Goto(q, t) /\ UNCHANGED <<fired, known>>
    BY DEF SendSimulated
<1>2. TypeOK /\ StoreInv /\ writer # q /\ Unsent(Seen(q), issued)
    BY <1>1, OwnTask
<1>3. Seen(q) = db
    BY <1>2 DEF Seen
<1>4. issued \in Nat /\ b \in Beats /\ issued' \in 0 .. MaxBeats
    BY <1>1, <1>2, SimulationAssumption DEF TypeOK, Beats
<1>5. db.beats[b].status = "none" /\ db \in Database
    BY <1>2, <1>3, <1>4 DEF Unsent, TypeOK
<1>6. /\ d \in Database /\ d.misses = db.misses /\ d.log = db.log
      /\ \A c \in Beats : d.beats[c] = IF c = b THEN NewBeat(TRUE)
                                                ELSE db.beats[c]
    BY <1>4, <1>5 DEF Database, NewBeat, BeatRow, Status
<1>7. t \in Task /\ t.pc = "push" /\ t.beat = b
      /\ t.forget = {} /\ t.log = {} /\ t.change = "none"
  <2>1. t \in Task
    BY <1>4, IdleType DEF Task, Steps
  <2>2. t.pc = "push" /\ t.beat = b
    BY DEF Idle
  <2>3. t.forget = {} /\ t.log = {} /\ t.change = "none"
    BY DEF Idle
  <2> QED
    BY <2>1, <2>2, <2>3
<1> HIDE DEF d, t, b
<1>8. Same(Seen(q), d)
    BY <1>3, <1>5, <1>6 DEF Same, Hidden, NewBeat
<1>9. Unsent(d, issued')
  <2>1. \A c \in Beats : c > b => c > issued /\ c # b
    BY <1>4 DEF Beats, b
  <2> QED
    BY <1>1, <1>2, <1>3, <1>6, <2>1 DEF Unsent
<1>10. Working(q, t, d, q)
  <2>1. d.beats[b].sim /\ d.beats[b].status # "none"
    BY <1>4, <1>6 DEF NewBeat
  <2> QED
    BY <1>4, <1>7, <2>1 DEF Working, Beats
<1> QED
    BY <1>1, <1>4, <1>6, <1>7, <1>8, <1>9, <1>10, FlushInv

\* The messages of steps 1 and 2, the first step of each request, and its
\* errors: nothing is written.
LEMMA MessageInv ==
    ASSUME Inv, NEW q \in Requests, NEW accepted \in BOOLEAN,
           Push(q, accepted) \/ Email(q, accepted)
    PROVE  Inv'
<1> DEFINE t == [task[q] EXCEPT !.pc = IF task[q].pc = "push" THEN "email"
                                                              ELSE "count"]
<1>1. /\ task[q].pc \in {"push", "email"} /\ Goto(q, t)
      /\ UNCHANGED <<store, issued, fired>>
      /\ known' \in {known, known \cup {task[q].beat}}
    BY DEF Push, Email
<1>2. /\ TypeOK /\ task[q] \in Task
      /\ Working(q, task[q], Seen(q), writer)
    BY OwnTask
<1>3. task[q].beat \in Beats
    BY <1>1, <1>2 DEF Working, Task
<1>4. t \in Task /\ t = [task[q] EXCEPT !.pc = t.pc]
      /\ t.pc = IF task[q].pc = "push" THEN "email" ELSE "count"
    BY <1>2 DEF Task, Steps
<1>5. /\ t.beat = task[q].beat /\ t.change = task[q].change
      /\ t.forget = task[q].forget /\ t.log = task[q].log
      /\ t.resets = task[q].resets
    BY <1>2 DEF Task
<1> HIDE DEF t
<1>6. Working(q, t, Seen(q), writer)
    BY <1>1, <1>2, <1>4, <1>5 DEF Working
<1>7. known' \subseteq Beats /\ fired' \in 0 .. MaxFirings
    BY <1>1, <1>2, <1>3 DEF TypeOK
<1> QED
    BY <1>1, <1>4, <1>6, <1>7, QuietInv

\* The first step of the other requests.
LEMMA OpenInv ==
    ASSUME Inv, NEW q \in Requests,
           \/ \E change \in {"escalated", "missed"} : OpenStep(q, change)
           \/ FireSimulated(q) \/ OpenReset(q) \/ OpenLink(q)
    PROVE  Inv'
<1>1. /\ TypeOK /\ StoreInv /\ task[q] \in Task /\ Seen(q) \in Database
      /\ task[q].pc = "idle" => writer # q /\ Seen(q) = db
      /\ Idle \in Task /\ Unsent(Seen(q), issued)
    BY OwnTask, IdleType DEF Seen
<1>2. ASSUME NEW t, Goto(q, t), task[q].pc = "idle", UNCHANGED <<store, issued, known>>,
             fired' \in 0 .. MaxFirings, t \in Task, Working(q, t, db, writer)
      PROVE  Inv'
    BY <1>1, <1>2, QuietInv DEF TypeOK
<1>3. CASE \E change \in {"escalated", "missed"} : OpenStep(q, change)
  <2> PICK change \in {"escalated", "missed"} : OpenStep(q, change)
    BY <1>3
  <2> DEFINE among == IF change = "escalated" THEN {"sent"}
                                              ELSE {"sent", "escalated"}
  <2>1. /\ task[q].pc = "idle" /\ UNCHANGED <<store, issued, fired, known>>
        /\ \E b \in Latest(db.beats, among) :
               Goto(q, [Idle EXCEPT !.beat = b, !.change = change,
                                    !.pc = IF change = "escalated"
                                           THEN "email" ELSE "count"])
    BY DEF OpenStep
  <2> PICK b \in Latest(db.beats, among) :
               Goto(q, [Idle EXCEPT !.beat = b, !.change = change,
                                    !.pc = IF change = "escalated"
                                           THEN "email" ELSE "count"])
    BY <2>1
  <2> DEFINE t == [Idle EXCEPT !.beat = b, !.change = change,
                               !.pc = IF change = "escalated"
                                      THEN "email" ELSE "count"]
  <2>2. b \in Beats /\ db.beats[b].sim /\ db.beats[b].status # "none"
    BY DEF Latest, Simulated, Stored
  <2>3. t \in Task
    BY <1>1, <2>2 DEF Task, Steps, Status
  <2>4. /\ t.beat = b /\ t.change = change /\ t.pc \in {"email", "count"}
        /\ t.forget = {} /\ t.log = {}
    BY DEF Idle
  <2>5. Goto(q, t)
    OBVIOUS
  <2> HIDE DEF t
  <2>6. b # 0 /\ change # "none" /\ writer # q
    BY <1>1, <2>1, <2>2 DEF Beats
  <2>7. Working(q, t, db, writer)
    BY <2>2, <2>4, <2>6 DEF Working
  <2> QED
    BY <1>1, <1>2, <2>1, <2>3, <2>5, <2>7 DEF TypeOK
<1>4. CASE FireSimulated(q)
  <2> DEFINE entry == [sim |-> TRUE, id |-> fired + 1]
             t     == [Idle EXCEPT !.pc = "fire", !.log = {entry}]
  <2>1. /\ task[q].pc = "idle" /\ UNCHANGED <<store, issued, known>>
        /\ fired < MaxFirings /\ fired' = fired + 1 /\ Goto(q, t)
    BY <1>4 DEF FireSimulated
  <2>2. fired' \in 1 .. MaxFirings /\ fired' \in 0 .. MaxFirings
    BY <1>1, <2>1, SimulationAssumption DEF TypeOK
  <2>3. entry \in TriggerLog /\ entry.sim
    BY <2>1, <2>2 DEF TriggerLog
  <2>4. t \in Task
    BY <1>1, <2>3 DEF Task, Steps
  <2>5. /\ t.beat = 0 /\ t.change = "none" /\ t.pc = "fire"
        /\ t.forget = {} /\ t.log = {entry}
    BY DEF Idle
  <2> HIDE DEF t, entry
  <2>6. Working(q, t, db, writer)
    BY <1>1, <2>1, <2>3, <2>5 DEF Working
  <2> QED
    BY <1>2, <2>1, <2>2, <2>4, <2>6
<1>5. CASE OpenReset(q)
  <2> DEFINE t == [Idle EXCEPT !.pc = "forget", !.resets = TRUE,
                               !.forget = Simulated(db.beats)]
  <2>1. /\ task[q].pc = "idle" /\ Goto(q, t)
        /\ UNCHANGED <<store, issued, fired, known>>
    BY <1>5 DEF OpenReset
  <2>2. t \in Task
    BY <1>1 DEF Task, Steps, Simulated
  <2>3. /\ t.beat = 0 /\ t.change = "none" /\ t.pc = "forget" /\ t.resets
        /\ t.forget = Simulated(db.beats) /\ t.log = {}
    BY DEF Idle
  <2> HIDE DEF t
  <2>4. Working(q, t, db, writer)
    BY <1>1, <2>1, <2>3 DEF Working, Simulated, Stored
  <2> QED
    BY <1>1, <1>2, <2>1, <2>2, <2>4 DEF TypeOK
<1>6. CASE OpenLink(q)
  <2>1. /\ task[q].pc = "idle" /\ UNCHANGED <<store, issued, fired, known>>
        /\ \E b \in known : /\ Open(db.beats[b])
                            /\ Goto(q, [Idle EXCEPT !.pc = "open", !.beat = b])
    BY <1>6 DEF OpenLink
  <2> PICK b \in known : /\ Open(db.beats[b])
                         /\ Goto(q, [Idle EXCEPT !.pc = "open", !.beat = b])
    BY <2>1
  <2> DEFINE t == [Idle EXCEPT !.pc = "open", !.beat = b]
  <2>2. b \in Beats /\ db.beats[b].status # "none"
    BY <1>1 DEF TypeOK, Open
  <2>3. t \in Task
    BY <1>1, <2>2 DEF Task, Steps
  <2>4. /\ t.beat = b /\ t.change = "none" /\ t.pc = "open"
        /\ t.forget = {} /\ t.log = {}
    BY DEF Idle
  <2>5. Goto(q, t)
    OBVIOUS
  <2> HIDE DEF t
  <2>6. Working(q, t, db, writer)
    BY <1>1, <2>1, <2>2, <2>4 DEF Working
  <2> QED
    BY <1>1, <1>2, <2>1, <2>3, <2>5, <2>6 DEF TypeOK
<1> QED
    BY <1>3, <1>4, <1>5, <1>6

\* A change of simulated rows and of entries that a rehearsal logged.
LEMMA SimChange ==
    ASSUME Inv, NEW q \in Requests, NEW d \in Database,
           d.misses = Seen(q).misses,
           \A l \in TriggerLog : ~ l.sim => (l \in d.log <=> l \in Seen(q).log),
           \A b \in Beats :
               \/ d.beats[b] = Seen(q).beats[b]
               \/ /\ Seen(q).beats[b].sim /\ Seen(q).beats[b].status # "none"
                  /\ d.beats[b].sim /\ d.beats[b].status # "none"
    PROVE  Same(Seen(q), d) /\ Unsent(d, issued)
<1>1. Unsent(Seen(q), issued)
    BY OwnTask
<1>2. Same(Seen(q), d)
    BY DEF Same, Hidden
<1> QED
    BY <1>1, <1>2 DEF Unsent

\* The misses are counted in what the session has just written.
LEMMA CountInv ==
    ASSUME Inv, NEW q \in Requests, Count(q)
    PROVE  Inv'
<1> DEFINE b == task[q].beat
           c == task[q].change
           d == IF c # "none"
                THEN [Seen(q) EXCEPT !.beats[b].status = c] ELSE Seen(q)
           t == [Idle EXCEPT !.pc = "reply", !.misses = CountSimMisses(d)]
<1>0. /\ TypeOK /\ StoreInv /\ task[q] \in Task /\ Seen(q) \in Database
      /\ Working(q, task[q], Seen(q), writer) /\ q # Nobody
    BY OwnTask
<1>1. /\ task[q].pc = "count" /\ Goto(q, t)
      /\ IF c # "none" THEN Flush(q, d) ELSE UNCHANGED store
      /\ UNCHANGED <<issued, fired, known>>
    BY DEF Count
<1>2. t \in Task /\ t.pc = "reply" /\ t.misses = CountSimMisses(d)
  <2>1. CountSimMisses(d) \in 0 .. MaxBeats
    BY SimMissesType
  <2> HIDE DEF d
  <2>2. t \in Task
    BY <2>1, IdleType DEF Task, Steps
  <2> QED
    BY <2>2 DEF Idle
<1>3. t.beat = 0 /\ t.change = "none" /\ t.forget = {} /\ t.log = {}
    BY DEF Idle
<1>4. Working(q, t, d, q)
  <2> HIDE DEF t, d
  <2> QED
    BY <1>2, <1>3 DEF Working
<1>5. CASE c # "none"
  <2>1. b \in Beats /\ Seen(q).beats[b].sim /\ Seen(q).beats[b].status # "none"
        /\ c \in Status \ {"none"}
    BY <1>0, <1>1, <1>5 DEF Working, Task
  <2>2. d = [Seen(q) EXCEPT !.beats[b].status = c]
    BY <1>5
  <2>3. /\ d \in Database /\ d.misses = Seen(q).misses /\ d.log = Seen(q).log
        /\ \A x \in Beats : d.beats[x] =
               IF x = b THEN [Seen(q).beats[b] EXCEPT !.status = c]
                        ELSE Seen(q).beats[x]
    BY <1>0, <2>1, <2>2 DEF Database, BeatRow
  <2>4. /\ Seen(q).beats[b] \in BeatRow
        /\ [Seen(q).beats[b] EXCEPT !.status = c].sim
        /\ [Seen(q).beats[b] EXCEPT !.status = c].status # "none"
    BY <1>0, <2>1 DEF Database, BeatRow
  <2> HIDE DEF d, t
  <2>5. Same(Seen(q), d) /\ Unsent(d, issued)
    BY <2>1, <2>3, <2>4, SimChange
  <2> QED
    BY <1>0, <1>1, <1>2, <1>4, <1>5, <2>3, <2>5, FlushInv DEF TypeOK
<1>6. CASE c = "none"
  <2>1. writer = q /\ d = Seen(q)
    BY <1>0, <1>1, <1>6 DEF Working
  <2> HIDE DEF d, t
  <2> QED
    BY <1>0, <1>1, <1>2, <1>4, <1>6, <2>1, QuietInv DEF TypeOK
<1> QED
    BY <1>5, <1>6

LEMMA LogInv ==
    ASSUME Inv, NEW q \in Requests, LogSimulated(q)
    PROVE  Inv'
<1> DEFINE d == [Seen(q) EXCEPT !.log = @ \cup task[q].log]
           t == [Idle EXCEPT !.pc = "count"]
<1>0. /\ TypeOK /\ StoreInv /\ task[q] \in Task /\ Seen(q) \in Database
      /\ Working(q, task[q], Seen(q), writer)
    BY OwnTask
<1>1. /\ Flush(q, d) /\ Goto(q, t) /\ UNCHANGED <<issued, fired, known>>
    BY DEF LogSimulated
<1>2. /\ d \in Database /\ d.misses = Seen(q).misses
      /\ d.beats = Seen(q).beats /\ d.log = Seen(q).log \cup task[q].log
    BY <1>0 DEF Database, Task
<1>3. t \in Task
    BY IdleType DEF Task, Steps
<1>4. /\ t.pc = "count" /\ t.beat = 0 /\ t.change = "none"
      /\ t.forget = {} /\ t.log = {}
    BY DEF Idle
<1> HIDE DEF d, t
<1>5. Same(Seen(q), d) /\ Unsent(d, issued)
    BY <1>0, <1>2, SimChange DEF Working
<1>6. Working(q, t, d, q)
    BY <1>4 DEF Working
<1> QED
    BY <1>0, <1>1, <1>2, <1>3, <1>5, <1>6, FlushInv DEF TypeOK

\* The two statements of the reset.
LEMMA ForgetInv ==
    ASSUME Inv, NEW q \in Requests, ForgetBeats(q) \/ ForgetLog(q)
    PROVE  Inv'
<1>0. /\ TypeOK /\ StoreInv /\ task[q] \in Task /\ Seen(q) \in Database
      /\ Working(q, task[q], Seen(q), writer)
    BY OwnTask
<1>1. CASE ForgetBeats(q)
  <2> DEFINE F == task[q].forget
             d == Without(Seen(q), F)
             L == {l \in d.log : l.sim}
             t == [task[q] EXCEPT !.pc = "forget log", !.log = L]
  <2>1. /\ task[q].pc = "forget" /\ Goto(q, t)
        /\ IF F = {} THEN UNCHANGED store ELSE Flush(q, d)
        /\ UNCHANGED <<issued, fired, known>>
    BY <1>1 DEF ForgetBeats
  <2>2. /\ d \in Database /\ d.misses = Seen(q).misses
        /\ d.log = Seen(q).log
        /\ \A b \in Beats : d.beats[b] =
               IF b \in F THEN [Seen(q).beats[b] EXCEPT !.status = "deleted"]
                          ELSE Seen(q).beats[b]
    BY <1>0 DEF Without, Database, BeatRow, Status
  <2>3. \A b \in Beats : b \in F =>
            /\ Seen(q).beats[b].sim /\ Seen(q).beats[b].status # "none"
            /\ [Seen(q).beats[b] EXCEPT !.status = "deleted"].sim
            /\ [Seen(q).beats[b] EXCEPT !.status = "deleted"].status # "none"
    BY <1>0 DEF Working, Database, BeatRow
  <2>4. t \in Task
    BY <1>0, <2>2 DEF Task, Steps, Database
  <2>5. /\ t.pc = "forget log" /\ t.beat = task[q].beat
        /\ t.change = task[q].change /\ t.forget = F /\ t.log = L
        /\ t.resets = task[q].resets
    BY <1>0 DEF Task
  <2>6. \A l \in L : l.sim
    OBVIOUS
  <2>7. F \subseteq Beats /\ task[q].beat \in Beats \cup {0}
    BY <1>0 DEF Task
  <2> HIDE DEF d, t, L, F
  <2>8. Working(q, t, d, q) /\ Working(q, t, Seen(q), writer)
    <3>1. /\ \A b \in F : /\ Seen(q).beats[b].sim /\ d.beats[b].sim
                          /\ Seen(q).beats[b].status # "none"
                          /\ d.beats[b].status # "none"
      BY <2>2, <2>3, <2>7
    <3>2. t.beat # 0 => /\ Seen(q).beats[t.beat].status # "none"
                        /\ d.beats[t.beat].status # "none"
      BY <1>0, <2>2, <2>3, <2>5, <2>7 DEF Working
    <3>3. t.resets /\ t.beat = 0 /\ t.change = "none"
      BY <1>0, <2>1, <2>5 DEF Working
    <3> QED
      BY <2>5, <2>6, <3>1, <3>2, <3>3 DEF Working
  <2>9. Same(Seen(q), d) /\ Unsent(d, issued)
    BY <2>2, <2>3, SimChange
  <2> QED
    BY <1>0, <2>1, <2>2, <2>4, <2>8, <2>9, FlushInv, QuietInv DEF TypeOK
<1>2. CASE ForgetLog(q)
  <2> DEFINE L == task[q].log
             d == [Seen(q) EXCEPT !.log = @ \ L]
             t == [task[q] EXCEPT !.pc = "reply"]
  <2>1. /\ task[q].pc = "forget log" /\ Goto(q, t)
        /\ IF L = {} THEN UNCHANGED store ELSE Flush(q, d)
        /\ UNCHANGED <<issued, fired, known>>
    BY <1>2 DEF ForgetLog
  <2>2. /\ d \in Database /\ d.misses = Seen(q).misses
        /\ d.beats = Seen(q).beats /\ d.log = Seen(q).log \ L
    BY <1>0 DEF Database
  <2>3. t \in Task
    BY <1>0 DEF Task, Steps
  <2>4. /\ t.pc = "reply" /\ t.beat = task[q].beat
        /\ t.change = task[q].change /\ t.forget = task[q].forget /\ t.log = L
        /\ t.resets = task[q].resets
    BY <1>0 DEF Task
  <2>5. \A l \in L : l.sim
    BY <1>0 DEF Working
  <2> HIDE DEF d, t, L
  <2>6. Working(q, t, d, q) /\ Working(q, t, Seen(q), writer)
    BY <1>0, <2>1, <2>2, <2>4, <2>5 DEF Working
  <2>7. Same(Seen(q), d) /\ Unsent(d, issued)
    BY <2>2, <2>5, SimChange
  <2> QED
    BY <1>0, <2>1, <2>2, <2>3, <2>6, <2>7, FlushInv, QuietInv DEF TypeOK
<1> QED
    BY <1>1, <1>2

LEMMA IdleWorks == \A q, d, w : w # q => Working(q, Idle, d, w)
BY DEF Working, Idle

\* The commit of a rehearsal is nothing to the real switch.
LEMMA ReplyInv ==
    ASSUME Inv, NEW q \in Requests, Reply(q)
    PROVE  Inv'
<1>0. TypeOK /\ StoreInv /\ q # Nobody /\ Idle \in Task
    BY OwnTask, IdleType
<1>1. Goto(q, Idle) /\ UNCHANGED <<issued, fired, known>>
    BY DEF Reply
<1>2. CASE writer # q
  <2>1. UNCHANGED store
    BY <1>2 DEF Reply
  <2>2. Working(q, Idle, Seen(q), writer)
    BY <1>2, IdleWorks
  <2> QED
    BY <1>0, <1>1, <2>1, <2>2, QuietInv DEF TypeOK
<1>3. CASE writer = q
  <2>1. db' = wal /\ wal' = wal /\ writer' = Nobody
    BY <1>3 DEF Reply
  <2>2. db.misses \in Nat
    BY <1>0, SimulationAssumption DEF TypeOK, Database
  <2>3. wal.misses <= Cardinality(Settled(wal.beats))
    <3>1. Settled(db.beats) \subseteq Settled(wal.beats) /\ wal.misses = db.misses
      BY <1>0, SameSettled DEF StoreInv, Same
    <3>2. db.misses <= Cardinality(Settled(db.beats))
      BY <1>0 DEF StoreInv, OnlyRealSilenceCounts, Settled
    <3> QED
      BY <2>2, <3>1, <3>2, SettledGrows
  <2>4. StoreInv'
    <3>1. OnlyRealSilenceCounts'
      BY <2>1, <2>3 DEF OnlyRealSilenceCounts, Settled
    <3>2. Same(db', wal') /\ Unsent(wal', issued')
      BY <1>0, <1>1, <2>1, SameOrder DEF StoreInv
    <3> QED
      BY <2>1, <3>1, <3>2 DEF StoreInv
  <2>5. \A b \in Beats : Later(db.beats[b], wal.beats[b])
    <3>1. \A b \in Beats : db.beats[b].sim \in BOOLEAN /\ wal.beats[b].sim \in BOOLEAN
      BY <1>0 DEF TypeOK, Database, BeatRow
    <3> QED
      BY <1>0, <3>1 DEF StoreInv, Same, Hidden, Later
  <2>6. Calm({q})
    BY <1>0, <1>3, <2>1, <2>5, SimulationAssumption DEF Calm
  <2>7. Working(q, Idle, Seen(q)', writer')
    BY <1>0, <2>1, IdleWorks
  <2> QED
    BY <1>0, <1>1, <2>1, <2>4, <2>6, <2>7, StepInv DEF TypeOK
<1> QED
    BY <1>2, <1>3

-----------------------------------------------------------------------------
(* A tapped link, and the jobs.                                            *)

\* A session commits d at once.
LEMMA SaveStore ==
    ASSUME Inv, NEW d \in Database, Save(d), Unsent(d, issued'),
           d.misses <= Cardinality(Settled(d.beats)),
           \A b \in Beats : Later(db.beats[b], d.beats[b])
    PROVE  /\ db' = d /\ wal' = d /\ writer' = writer /\ writer = Nobody
           /\ db' \in Database /\ wal' \in Database
           /\ writer' \in Requests \cup {Nobody}
           /\ StoreInv' /\ \A S : Calm(S)
<1>1. db' = d /\ wal' = d /\ writer' = writer /\ writer = Nobody
    BY DEF Save
<1>2. OnlyRealSilenceCounts'
    BY <1>1 DEF OnlyRealSilenceCounts, Settled
<1>3. Same(db', wal') /\ Unsent(wal', issued')
    BY <1>1, SameOrder
<1>4. StoreInv'
    BY <1>1, <1>2, <1>3 DEF StoreInv
<1>5. \A S : Calm(S)
    BY <1>1, SimulationAssumption DEF Calm
<1> QED
    BY <1>1, <1>4, <1>5

LEMMA JobInv ==
    ASSUME Inv, NEW d \in Database, Save(d), Unsent(d, issued'),
           d.misses <= Cardinality(Settled(d.beats)),
           \A b \in Beats : Later(db.beats[b], d.beats[b]),
           task' = task, issued' \in 0 .. MaxBeats,
           fired' \in 0 .. MaxFirings, known' \subseteq Beats
    PROVE  Inv'
<1>1. /\ db' \in Database /\ wal' \in Database
      /\ writer' \in Requests \cup {Nobody} /\ StoreInv' /\ Calm({})
    BY SaveStore
<1>2. TypeOK'
    BY <1>1 DEF Inv, TypeOK
<1>3. \A o \in Requests : Working(o, task[o], Seen(o)', writer')
    BY <1>1, OthersWork
<1> QED
    BY <1>1, <1>2, <1>3 DEF Inv

\* One row of the database changes.
LEMMA RowChange ==
    ASSUME TypeOK, StoreInv, NEW b \in Beats, NEW row \in BeatRow,
           NEW d \in Database,
           \A c \in Beats : d.beats[c] = IF c = b THEN row ELSE db.beats[c],
           Later(db.beats[b], row), b \notin Settled(db.beats)
    PROVE  /\ \A c \in Beats : Later(db.beats[c], d.beats[c])
           /\ Settled(db.beats) \subseteq Settled(d.beats)
           /\ Settled(d.beats) \subseteq Settled(db.beats) \cup {b}
           /\ \A n \in Nat : Unsent(db, n) /\ b <= n => Unsent(d, n)
<1>1. \A c \in Beats : Later(db.beats[c], d.beats[c])
    BY DEF Later
<1>2. /\ Settled(db.beats) \subseteq Settled(d.beats)
      /\ Settled(d.beats) \subseteq Settled(db.beats) \cup {b}
    BY DEF Settled
<1>3. ASSUME NEW n \in Nat, Unsent(db, n), b <= n
      PROVE  Unsent(d, n)
    BY <1>3 DEF Unsent, Beats
<1> QED
    BY <1>1, <1>2, <1>3

LEMMA ConfirmInv ==
    ASSUME Inv, NEW q \in Requests, FindUser(q) \/ Confirm(q)
    PROVE  Inv'
<1>0. /\ TypeOK /\ StoreInv /\ task[q] \in Task /\ Seen(q) \in Database
      /\ Working(q, task[q], Seen(q), writer) /\ Idle \in Task /\ q # Nobody
      /\ Unsent(Seen(q), issued)
    BY OwnTask, IdleType
<1>1. CASE FindUser(q)
  <2> DEFINE t == [task[q] EXCEPT !.pc = "confirm", !.misses = db.misses]
  <2>1. /\ task[q].pc = "open" /\ Goto(q, t)
        /\ UNCHANGED <<store, issued, fired, known>>
    BY <1>1 DEF FindUser
  <2>2. t \in Task
    BY <1>0 DEF Task, Steps, TypeOK, Database
  <2>3. /\ t.pc = "confirm" /\ t.beat = task[q].beat
        /\ t.change = task[q].change /\ t.forget = task[q].forget
        /\ t.log = task[q].log
    BY <1>0 DEF Task
  <2> HIDE DEF t
  <2>4. Working(q, t, Seen(q), writer)
    BY <1>0, <2>1, <2>3 DEF Working
  <2> QED
    BY <1>0, <2>1, <2>2, <2>4, QuietInv DEF TypeOK
<1>2. CASE Confirm(q)
  <2> DEFINE b == task[q].beat
             n == IF task[q].misses = 0 THEN db.misses ELSE 0
             d == [db EXCEPT !.beats[b].status = "responded",
                             !.misses = n]
  <2>1. /\ Save(d) /\ Goto(q, Idle) /\ UNCHANGED <<issued, fired, known>>
    BY <1>2 DEF Confirm
  <2>2. Seen(q) = db /\ b \in Beats \cup {0} /\ 0 \notin Beats
    BY <1>0, <2>1 DEF Save, Seen, Task, Beats
  <2>3. b # 0 => db.beats[b].status # "none"
    BY <1>0, <2>2 DEF Working
  <2>4. n \in {0, db.misses} /\ n \in 0 .. MaxBeats /\ n \in Nat
    BY <1>0, SimulationAssumption DEF TypeOK, Database
  <2>5. db.beats \in [Beats -> BeatRow] /\ db \in Database
    BY <1>0 DEF TypeOK, Database
  <2>6. /\ d \in Database /\ d.misses = n
        /\ \A c \in Beats : d.beats[c] =
               IF c = b THEN [db.beats[c] EXCEPT !.status = "responded"]
                        ELSE db.beats[c]
    <3> HIDE DEF n
    <3>1. /\ d.misses = n /\ d.log = db.log
          /\ d.beats = [db.beats EXCEPT ![b].status = "responded"]
      BY <2>5 DEF Database
    <3>2. \A row \in BeatRow : [row EXCEPT !.status = "responded"] \in BeatRow
      BY DEF BeatRow, Status
    <3>3. /\ d.beats \in [Beats -> BeatRow]
          /\ \A c \in Beats : d.beats[c] =
                 IF c = b THEN [db.beats[c] EXCEPT !.status = "responded"]
                          ELSE db.beats[c]
      <4>1. /\ d.beats = [c \in Beats |-> d.beats[c]]
            /\ \A c \in Beats : d.beats[c] =
                   IF c = b THEN [db.beats[c] EXCEPT !.status = "responded"]
                            ELSE db.beats[c]
        <5> HIDE DEF d
        <5> QED
          BY <2>5, <3>1
      <4> HIDE DEF d
      <4>2. \A c \in Beats : d.beats[c] \in BeatRow
        BY <2>5, <3>2, <4>1
      <4> QED
        BY <4>1, <4>2
    <3>4. d \in Database
      BY <2>4, <2>5, <3>3 DEF Database
    <3> QED
      BY <3>1, <3>3, <3>4
  <2>7. \A c \in Beats :
            /\ db.beats[c].sim \in BOOLEAN
            /\ [db.beats[c] EXCEPT !.status = "responded"].sim = db.beats[c].sim
            /\ [db.beats[c] EXCEPT !.status = "responded"].status = "responded"
    BY <2>5 DEF BeatRow
  <2> HIDE DEF d, n
  <2>8. \A c \in Beats : /\ d.beats[c].sim = db.beats[c].sim
                         /\ d.beats[c].sim \in BOOLEAN
                         /\ \/ d.beats[c].status = db.beats[c].status
                            \/ /\ d.beats[c].status = "responded"
                               /\ db.beats[c].status # "none"
    BY <2>2, <2>3, <2>6, <2>7
  <2>9. \A c \in Beats : Later(db.beats[c], d.beats[c])
    BY <2>8 DEF Later
  <2>10. Unsent(d, issued)
    BY <1>0, <2>2, <2>8 DEF Unsent
  <2>11. d.misses <= Cardinality(Settled(d.beats))
    <3>1. Settled(db.beats) \subseteq Settled(d.beats)
      BY <2>7, <2>8 DEF Settled
    <3>2. /\ db.misses <= Cardinality(Settled(db.beats))
          /\ db.misses \in Nat
      BY <1>0, <2>5, SimulationAssumption
      DEF StoreInv, OnlyRealSilenceCounts, Settled, Database
    <3>3. db.misses <= Cardinality(Settled(d.beats))
      BY <3>1, <3>2, SettledGrows
    <3>4. Cardinality(Settled(d.beats)) \in 0 .. MaxBeats
      BY BeatsFinite DEF Settled
    <3> QED
      BY <2>4, <2>6, <3>3, <3>4, SimulationAssumption
  <2>12. /\ db' \in Database /\ wal' \in Database /\ writer' = Nobody
         /\ writer' \in Requests \cup {Nobody} /\ StoreInv' /\ Calm({q})
    BY <2>1, <2>6, <2>9, <2>10, <2>11, SaveStore
  <2>13. Working(q, Idle, Seen(q)', writer')
    BY <1>0, <2>12, IdleWorks
  <2> QED
    BY <1>0, <2>1, <2>12, <2>13, StepInv DEF TypeOK
<1> QED
    BY <1>1, <1>2

LEMMA SendRealInv == ASSUME Inv, SendReal PROVE Inv'
<1> DEFINE b == issued + 1
           d == [db EXCEPT !.beats[b] = NewBeat(FALSE)]
<1>0. TypeOK /\ StoreInv
    BY DEF Inv
<1>1. /\ issued < MaxBeats /\ Save(d) /\ issued' = b
      /\ known' = known \cup {b} /\ UNCHANGED <<task, fired>>
    BY DEF SendReal
<1>2. wal = db /\ db \in Database
    BY <1>0, <1>1 DEF Save, StoreInv, TypeOK
<1>3. issued \in Nat /\ b \in Beats /\ b \in 0 .. MaxBeats
    BY <1>0, <1>1, SimulationAssumption DEF TypeOK, Beats
<1>4. db.beats[b].status = "none" /\ Unsent(db, issued)
    BY <1>0, <1>2, <1>3 DEF StoreInv, Unsent
<1>5. /\ d \in Database /\ d.misses = db.misses /\ NewBeat(FALSE) \in BeatRow
      /\ \A c \in Beats : d.beats[c] = IF c = b THEN NewBeat(FALSE)
                                                ELSE db.beats[c]
    BY <1>2, <1>3 DEF Database, NewBeat, BeatRow, Status
<1> HIDE DEF d, b
<1>6. /\ \A c \in Beats : Later(db.beats[c], d.beats[c])
      /\ Settled(db.beats) \subseteq Settled(d.beats)
      /\ \A n \in Nat : Unsent(db, n) /\ b <= n => Unsent(d, n)
  <2>1. Later(db.beats[b], NewBeat(FALSE)) /\ b \notin Settled(db.beats)
    BY <1>4 DEF Later, Settled
  <2> QED
    BY <1>0, <1>3, <1>5, <2>1, RowChange
<1>7. Unsent(d, b)
  <2>1. Unsent(db, b) /\ b \in Nat /\ b <= b
    BY <1>3, <1>4 DEF Unsent, Beats, b
  <2> QED
    BY <1>6, <2>1
<1>8. d.misses <= Cardinality(Settled(d.beats))
  <2>1. db.misses \in Nat /\ db.misses <= Cardinality(Settled(db.beats))
    BY <1>0, <1>2, SimulationAssumption
    DEF StoreInv, OnlyRealSilenceCounts, Settled, Database
  <2> QED
    BY <1>5, <1>6, <2>1, SettledGrows
<1> QED
    BY <1>0, <1>1, <1>3, <1>5, <1>6, <1>7, <1>8, JobInv DEF TypeOK

LEMMA EscalateRealInv == ASSUME Inv, EscalateReal PROVE Inv'
<1>0. TypeOK /\ StoreInv
    BY DEF Inv
<1> PICK b \in Outstanding(db.beats) :
             /\ db.beats[b].status = "sent"
             /\ Save([db EXCEPT !.beats[b].status = "escalated"])
             /\ UNCHANGED <<task, issued, fired, known>>
    BY DEF EscalateReal
<1> DEFINE d   == [db EXCEPT !.beats[b].status = "escalated"]
           row == [db.beats[b] EXCEPT !.status = "escalated"]
<1>1. Save(d) /\ UNCHANGED <<task, issued, fired, known>>
    OBVIOUS
<1>2. wal = db /\ db \in Database /\ Unsent(db, issued) /\ b \in Beats
      /\ db.beats[b].status = "sent"
    BY <1>0, <1>1 DEF Save, StoreInv, TypeOK, Outstanding
<1>3. /\ d \in Database /\ d.misses = db.misses /\ row \in BeatRow
      /\ row.sim = db.beats[b].sim /\ row.status = "escalated"
      /\ \A c \in Beats : d.beats[c] = IF c = b THEN row ELSE db.beats[c]
    BY <1>2 DEF Database, BeatRow, Status
<1> HIDE DEF d, row
<1>4. /\ \A c \in Beats : Later(db.beats[c], d.beats[c])
      /\ Settled(db.beats) \subseteq Settled(d.beats)
      /\ \A n \in Nat : Unsent(db, n) /\ b <= n => Unsent(d, n)
  <2>1. Later(db.beats[b], row) /\ b \notin Settled(db.beats)
    BY <1>2, <1>3 DEF Later, Settled
  <2> QED
    BY <1>0, <1>2, <1>3, <2>1, RowChange
<1>5. Unsent(d, issued)
  <2>1. issued \in Nat /\ b \in Int /\ b <= issued
    BY <1>0, <1>2, SimulationAssumption DEF TypeOK, Unsent, Beats
  <2> QED
    BY <1>2, <1>4, <2>1
<1>6. d.misses <= Cardinality(Settled(d.beats))
  <2>1. db.misses \in Nat /\ db.misses <= Cardinality(Settled(db.beats))
    BY <1>0, <1>2, SimulationAssumption
    DEF StoreInv, OnlyRealSilenceCounts, Settled, Database
  <2> QED
    BY <1>3, <1>4, <2>1, SettledGrows
<1> QED
    BY <1>0, <1>1, <1>3, <1>4, <1>5, <1>6, JobInv DEF TypeOK

\* The heartbeat that is counted was not settled before.
LEMMA JudgeRealInv == ASSUME Inv, JudgeReal PROVE Inv'
<1>0. TypeOK /\ StoreInv
    BY DEF Inv
<1> DEFINE fires == db.misses + 1 >= Threshold
           entry == [sim |-> FALSE, id |-> fired + 1]
           n     == db.misses + 1
           D(b)  == [db EXCEPT !.beats[b].status = "missed",
                               !.misses = @ + 1,
                               !.log = IF fires THEN @ \cup {entry} ELSE @]
<1> PICK b \in Outstanding(db.beats) :
             /\ db.beats[b].status = "escalated"
             /\ fires => fired < MaxFirings
             /\ fired' = IF fires THEN fired + 1 ELSE fired
             /\ Save(D(b))
             /\ UNCHANGED <<task, issued, known>>
    BY DEF JudgeReal
<1> DEFINE d   == D(b)
           row == [db.beats[b] EXCEPT !.status = "missed"]
           L   == IF fires THEN db.log \cup {entry} ELSE db.log
<1>1. /\ Save(d) /\ UNCHANGED <<task, issued, known>>
      /\ fires => fired < MaxFirings
      /\ fired' = IF fires THEN fired + 1 ELSE fired
    OBVIOUS
<1>2. /\ wal = db /\ db \in Database /\ Unsent(db, issued) /\ b \in Beats
      /\ db.beats[b].status = "escalated" /\ ~ db.beats[b].sim
    BY <1>0, <1>1 DEF Save, StoreInv, TypeOK, Outstanding
<1>3. fired' \in 0 .. MaxFirings /\ (fires => fired + 1 \in 1 .. MaxFirings)
    BY <1>0, <1>1, SimulationAssumption DEF TypeOK
<1>4. L \subseteq TriggerLog
  <2>1. db.log \subseteq TriggerLog
    BY <1>2 DEF Database
  <2>2. fires => entry \in TriggerLog
    BY <1>3 DEF TriggerLog
  <2> HIDE DEF fires, entry
  <2> QED
    BY <2>1, <2>2
<1>5. /\ row \in BeatRow /\ ~ row.sim /\ row.status = "missed"
      /\ row.sim = db.beats[b].sim
    BY <1>2 DEF Database, BeatRow, Status
<1>6. /\ d.misses = n /\ d.log = L
      /\ d.beats = [db.beats EXCEPT ![b] = row]
      /\ d = [beats |-> d.beats, misses |-> d.misses, log |-> d.log]
  <2> HIDE DEF fires, entry
  <2>1. db = [beats |-> db.beats, misses |-> db.misses, log |-> db.log]
    BY <1>2 DEF Database
  <2>2. d = [beats |-> [db.beats EXCEPT ![b] = row], misses |-> n, log |-> L]
    <3>1. d.misses = n /\ DOMAIN d = {"beats", "misses", "log"}
      BY <2>1
    <3>2. d.log = L
      BY <2>1
    <3>3. d.beats = [db.beats EXCEPT ![b] = row]
      BY <2>1
    <3>4. d = [x \in DOMAIN d |-> d[x]]
      BY <2>1
    <3> HIDE DEF D, L, row
    <3> QED
      BY <3>1, <3>2, <3>3, <3>4
  <2> QED
    BY <2>2
<1> HIDE DEF d, D, row, L, fires, entry
<1>7. /\ d.beats \in [Beats -> BeatRow]
      /\ \A c \in Beats : d.beats[c] = IF c = b THEN row ELSE db.beats[c]
    BY <1>2, <1>5, <1>6 DEF Database
<1>8. b \notin Settled(db.beats) /\ Later(db.beats[b], row)
    BY <1>2, <1>5 DEF Settled, Later
<1>9. Settled(d.beats) = Settled(db.beats) \cup {b}
  <2>1. \A c \in Beats : c \in Settled(d.beats) <=>
                             c = b \/ c \in Settled(db.beats)
    BY <1>2, <1>5, <1>7 DEF Settled
  <2>2. Settled(d.beats) \subseteq Beats /\ Settled(db.beats) \subseteq Beats
    BY DEF Settled
  <2> QED
    BY <1>2, <2>1, <2>2
<1>10. n \in 0 .. MaxBeats /\ n <= Cardinality(Settled(d.beats))
  <2>1. /\ IsFiniteSet(Settled(db.beats))
        /\ Cardinality(Settled(db.beats)) \in 0 .. MaxBeats
        /\ Cardinality(Settled(d.beats)) \in 0 .. MaxBeats
    BY BeatsFinite DEF Settled
  <2>2. Cardinality(Settled(d.beats)) = Cardinality(Settled(db.beats)) + 1
    BY <1>8, <1>9, <2>1, FS_AddElement
  <2>3. db.misses \in Nat /\ db.misses <= Cardinality(Settled(db.beats))
    BY <1>0, <1>2, SimulationAssumption
    DEF StoreInv, OnlyRealSilenceCounts, Settled, Database
  <2> QED
    BY <2>1, <2>2, <2>3, SimulationAssumption
<1>11. d \in Database
    BY <1>4, <1>6, <1>7, <1>10 DEF Database
<1>12. /\ \A c \in Beats : Later(db.beats[c], d.beats[c])
       /\ \A k \in Nat : Unsent(db, k) /\ b <= k => Unsent(d, k)
    BY <1>0, <1>2, <1>5, <1>7, <1>8, <1>11, RowChange
<1>13. Unsent(d, issued)
  <2>1. issued \in Nat /\ b \in Int /\ b <= issued
    BY <1>0, <1>2, SimulationAssumption DEF TypeOK, Unsent, Beats
  <2> QED
    BY <1>2, <1>12, <2>1
<1> QED
    BY <1>0, <1>1, <1>3, <1>6, <1>10, <1>11, <1>12, <1>13, JobInv DEF TypeOK

LEMMA AbortInv ==
    ASSUME Inv, NEW q \in Requests, Abort(q)
    PROVE  Inv'
<1>0. /\ TypeOK /\ StoreInv /\ task[q] \in Task /\ Idle \in Task
      /\ Working(q, task[q], Seen(q), writer)
    BY OwnTask, IdleType
<1>1. /\ Writes(q) /\ Goto(q, Idle)
      /\ UNCHANGED <<store, issued, fired, known>>
      /\ LockFree(q) => task[q].beat # 0 /\ ~ Writable(q)
    BY DEF Abort
<1>2. writer # q
  <2> SUFFICES ASSUME writer = q PROVE FALSE
    OBVIOUS
  <2>1. task[q].pc = "forget log"
    BY <1>0, <1>1 DEF Writes, Working
  <2>2. task[q].beat # 0 /\ ~ Writable(q)
    BY <1>1 DEF LockFree
  <2> QED
    BY <1>0, <2>1, <2>2 DEF Working
<1>3. Working(q, Idle, Seen(q), writer)
    BY <1>2, IdleWorks
<1> QED
    BY <1>0, <1>1, <1>3, QuietInv DEF TypeOK

-----------------------------------------------------------------------------
(* The results.                                                            *)

LEMMA InitInv == Init => Inv
<1> SUFFICES ASSUME Init PROVE Inv
    OBVIOUS
<1>1. /\ db.misses = 0 /\ wal = db /\ writer = Nobody
      /\ \A b \in Beats : db.beats[b].status = "none"
      /\ \A q \in Requests : task[q] = Idle
    BY DEF Init
<1>2. db \in Database
    BY SimulationAssumption DEF Init, Database, BeatRow, Status, TriggerLog
<1>3. TypeOK
    BY <1>2, IdleType, SimulationAssumption DEF Init, TypeOK
<1>4. OnlyRealSilenceCounts
  <2>1. Cardinality(Settled(db.beats)) \in Nat
    BY BeatsFinite, SimulationAssumption DEF Settled
  <2> QED
    BY <1>1, <2>1 DEF OnlyRealSilenceCounts, Settled
<1>5. StoreInv
    BY <1>1, <1>4, SameOrder DEF StoreInv, Unsent
<1>6. \A q \in Requests : Working(q, task[q], Seen(q), writer)
    BY <1>1, IdleWorks, SimulationAssumption
<1> QED
    BY <1>3, <1>5, <1>6 DEF Inv

LEMMA NextInv == Inv /\ [Next]_vars => Inv'
<1> SUFFICES ASSUME Inv, [Next]_vars PROVE Inv'
    OBVIOUS
<1>1. CASE UNCHANGED vars
    BY <1>1 DEF vars, Inv, TypeOK, StoreInv, OnlyRealSilenceCounts, Seen
<1>2. ASSUME NEW q \in Requests, Rehearse(q) \/ Answer(q) \/ Abort(q)
      PROVE  Inv'
    BY <1>2, SendInv, MessageInv, OpenInv, CountInv, LogInv, ForgetInv,
       ReplyInv, ConfirmInv, AbortInv DEF Rehearse, Answer
<1>3. CASE Next
    BY <1>2, <1>3, SendRealInv, EscalateRealInv, JudgeRealInv DEF Next
<1> QED
    BY <1>1, <1>3

LEMMA InvHolds == Spec => []Inv
BY InitInv, NextInv, PTL DEF Spec

\* For any constants: the variables keep their types; in particular no more
\* misses are ever counted than there are heartbeats, real ones, and no reply
\* counts more.
THEOREM RehearsalTypes == Spec => []TypeOK
BY InvHolds, PTL DEF Inv

\* README.md:36, for any number of requests, heartbeats and triggers: every
\* miss counted for the user is that of a real heartbeat the checker was done
\* with.
THEOREM OnlyRealSilence == Spec => []OnlyRealSilenceCounts
BY InvHolds, PTL DEF Inv, StoreInv

\* Only the steps of a request change what it is doing.
LEMMA OwnStep ==
    ASSUME TypeOK, [Next]_vars, NEW q \in Requests, task'[q] # task[q]
    PROVE  Rehearse(q) \/ Answer(q) \/ Abort(q)
<1>1. ASSUME NEW o \in Requests, Rehearse(o) \/ Answer(o) \/ Abort(o)
      PROVE  \E t : Goto(o, t)
    BY <1>1
    DEF Rehearse, Answer, Abort, SendSimulated, FireSimulated, OpenReset,
        OpenStep, Push, Email, Count, LogSimulated, ForgetBeats, ForgetLog,
        Reply, OpenLink, FindUser, Confirm
<1>2. ASSUME NEW o \in Requests, o # q, Rehearse(o) \/ Answer(o) \/ Abort(o)
      PROVE  task'[q] = task[q]
    BY <1>1, <1>2 DEF Goto, TypeOK
<1>3. CASE SendReal \/ EscalateReal \/ JudgeReal \/ UNCHANGED vars
    BY <1>3 DEF SendReal, EscalateReal, JudgeReal, vars
<1> QED
    BY <1>2, <1>3 DEF Next

LEMMA RehearseQuiet ==
    ASSUME NEW q \in Requests, Rehearse(q) \/ Abort(q),
           ~ (task[q].pc = "reply" /\ writer = q)
    PROVE  db' = db
<1>1. CASE Abort(q)
    BY <1>1 DEF Abort, store
<1>2. CASE Reply(q)
    BY <1>2 DEF Reply, store
<1>3. CASE Rehearse(q) /\ ~ Reply(q)
    BY <1>3
    DEF Rehearse, SendSimulated, FireSimulated, OpenReset, OpenStep, Push,
        Email, Count, LogSimulated, ForgetBeats, ForgetLog, Flush, store
<1> QED
    BY <1>1, <1>2, <1>3

LEMMA SameDashboard ==
    ASSUME NEW d \in Database, NEW e \in Database, Same(d, e)
    PROVE  Dashboard(e) = Dashboard(d)
<1>1. \A b \in Beats : /\ d.beats[b].sim \in BOOLEAN
                       /\ e.beats[b].sim \in BOOLEAN
    BY DEF Database, BeatRow
<1>2. {b \in Beats : Stored(e.beats[b]) /\ ~ e.beats[b].sim}
          = {b \in Beats : Stored(d.beats[b]) /\ ~ d.beats[b].sim}
    BY <1>1 DEF Same, Hidden, Stored
<1>3. Recent(e.beats) = Recent(d.beats)
    BY <1>2 DEF Recent
<1>4. \A b \in Recent(d.beats) : e.beats[b].status = d.beats[b].status
    BY <1>1 DEF Recent, LatestOf, Same, Hidden, Stored
<1>5. [b \in Recent(e.beats) |-> e.beats[b].status]
          = [b \in Recent(d.beats) |-> d.beats[b].status]
    BY <1>3, <1>4
<1>6. {l \in e.log : ~ l.sim} = {l \in d.log : ~ l.sim}
  <2>1. d.log \subseteq TriggerLog /\ e.log \subseteq TriggerLog
    BY DEF Database
  <2> QED
    BY <2>1 DEF Same
<1> QED
    BY <1>5, <1>6 DEF Dashboard, TriggersFired, Same

\* README.md:39, for any constants: no step of a rehearsal, whatever it is
\* interleaved with, changes what the dashboard shows of the real switch.
THEOREM RehearsalsStayInvisible == Spec => RehearsalIsInvisible
<1>1. Inv /\ [Next]_vars =>
          [\A q \in Requests : Rehearsing(q) /\ task'[q] # task[q] =>
               Dashboard(db') = Dashboard(db)]_vars
  <2> SUFFICES ASSUME Inv, [Next]_vars, NEW q \in Requests, Rehearsing(q),
                      task'[q] # task[q]
               PROVE  Dashboard(db') = Dashboard(db)
    OBVIOUS
  <2>1. Rehearse(q) \/ Abort(q)
    BY OwnStep DEF Inv, Answer, OpenLink, FindUser, Confirm, Rehearsing
  <2>2. CASE task[q].pc = "reply" /\ writer = q
    <3>1. Reply(q)
      BY <2>1, <2>2
      DEF Rehearse, SendSimulated, FireSimulated, OpenReset, OpenStep, Push,
          Email, Count, LogSimulated, ForgetBeats, ForgetLog, Abort, Writes
    <3>2. db' = wal
      BY <2>2, <3>1 DEF Reply
    <3>3. db \in Database /\ wal \in Database /\ Same(db, wal)
      BY DEF Inv, TypeOK, StoreInv
    <3> QED
      BY <3>2, <3>3, SameDashboard
  <2>3. CASE ~ (task[q].pc = "reply" /\ writer = q)
    BY <2>1, <2>3, RehearseQuiet
  <2> QED
    BY <2>2, <2>3
<1> QED
    BY <1>1, InvHolds, PTL DEF Spec, RehearsalIsInvisible

\* For any constants: the misses in the reply to a step are those of the
\* database that the step commits, although they were counted before
\* (_count_sim_misses).
THEOREM RepliesAreExact == Spec => ReplyIsExact
<1> DEFINE Exact ==
        \A q \in Requests :
            task[q].pc = "reply" /\ task'[q].pc = "idle" /\ ~ task[q].resets =>
                task[q].misses =
                    Cardinality({b \in Beats : /\ db'.beats[b].sim
                                               /\ db'.beats[b].status = "missed"})
<1>1. Inv /\ [Next]_vars => [Exact]_vars
  <2> SUFFICES ASSUME Inv, [Next]_vars, NEW q \in Requests,
                      task[q].pc = "reply", task'[q].pc = "idle",
                      ~ task[q].resets
               PROVE  task[q].misses =
                          Cardinality({b \in Beats :
                              /\ db'.beats[b].sim
                              /\ db'.beats[b].status = "missed"})
    OBVIOUS
  <2>1. Reply(q)
    <3>1. Rehearse(q) \/ Answer(q) \/ Abort(q)
      BY OwnStep DEF Inv
    <3> QED
      BY <3>1
      DEF Rehearse, SendSimulated, FireSimulated, OpenReset, OpenStep, Push,
          Email, Count, LogSimulated, ForgetBeats, ForgetLog, Abort, Writes,
          Answer, OpenLink, FindUser, Confirm
  <2>2. writer = q /\ task[q].misses = CountSimMisses(Seen(q))
    BY DEF Inv, Working
  <2>3. db' = wal /\ Seen(q) = wal
    BY <2>1, <2>2 DEF Reply, Seen
  <2>4. {b \in Simulated(wal.beats) : wal.beats[b].status = "missed"}
            = {b \in Beats : wal.beats[b].sim /\ wal.beats[b].status = "missed"}
    BY DEF Simulated, Stored
  <2> QED
    BY <2>2, <2>3, <2>4 DEF CountSimMisses
<1> QED
    BY <1>1, InvHolds, PTL DEF Spec, ReplyIsExact
=============================================================================
