---------------------------- MODULE VaultProofs -----------------------------
(***************************************************************************)
(* Type correctness of Vault; and stored secrets open, what is mailed      *)
(* was assigned, is current and is logged with its token, and its link is  *)
(* kept: for all values of the constants.                                  *)
(***************************************************************************)
EXTENDS Vault, TLAPS

-----------------------------------------------------------------------------
(* Types of what the actions put into the rows.                            *)

LEMMA RowTypes ==
    /\ NoSecret \in SecretRow /\ NoRecipient \in RecipientRow
    /\ [NoSecret EXCEPT !.state = "deleted"] \in SecretRow
    /\ \A row \in RecipientRow : Removed(row) \in RecipientRow
BY VaultAssumption
DEF NoSecret, NoRecipient, Removed, SecretRow, RecipientRow, Presence, Types,
    Seals

LEMMA SealedType ==
    ASSUME NEW type \in Types, NEW n \in Seals
    PROVE  Sealed(type, n) \in SecretRow
BY VaultAssumption DEF Sealed, SecretRow, Presence, Types, Seals

LEMMA ResealedType ==
    ASSUME NEW row \in SecretRow, NEW loaded, NEW n \in Seals, NEW sent
    PROVE  Resealed(row, loaded, n, sent) \in SecretRow
<1>1. \A column : (IF column \in sent THEN n ELSE 0) \in Seals
    BY VaultAssumption DEF Seals
<1>2. \A salt \in Seals : (IF salt = loaded.salt THEN row.salt ELSE salt) \in Seals
    BY DEF SecretRow
<1> QED
    BY <1>1, <1>2 DEF Resealed, SecretRow

LEMMA IdleType == Idle \in Task
BY VaultAssumption, RowTypes
DEF Idle, Task, Steps, Seals, Ids

LEMMA NoLetterType == NoLetter \in Letter
BY VaultAssumption DEF NoLetter, Letter, Seals, Ids

-----------------------------------------------------------------------------
(* Types of the steps that many actions share.                             *)

\* What a request or an email is about is known, and a recipient to be mailed
\* has a secret.
OnTask(t) ==
    /\ t.pc \in {"create", "reassign", "mail"} => t.recipient \in Recipients
    /\ t.pc \notin {"idle", "next", "reset"} => t.secret \in Secrets
    /\ \A r \in t.todo : t.assigned[r] \in Secrets

SoundTask == {t \in Task : OnTask(t)}

TypeInv == TypeOK /\ \A s \in Sessions : OnTask(task[s])

LEMMA IdleSound == Idle \in SoundTask
BY IdleType DEF SoundTask, OnTask, Idle

LEMMA GotoType ==
    ASSUME TypeInv, NEW s \in Sessions, NEW t \in SoundTask, Goto(s, t)
    PROVE  task' \in [Sessions -> Task] /\ \A w \in Sessions : OnTask(task'[w])
BY DEF Goto, TypeInv, TypeOK, SoundTask

LEMMA ReadsType ==
    ASSUME TypeInv, NEW s \in Sessions, NEW t \in SoundTask, Reads(s, t),
           fired' \in 0 .. MaxDeliveries
    PROVE  TypeInv'
BY GotoType, NoLetterType DEF Reads, TypeInv, TypeOK

LEMMA WriteType ==
    ASSUME TypeInv, NEW q \in Requests, NEW newdb \in Database,
           Write(q, newdb),
           sealed' \in Seals, origin' \in [Seals -> Origin],
           promised' \subseteq Recipients \X Secrets
    PROVE  TypeInv'
<1>1. task' \in [Sessions -> Task] /\ \A w \in Sessions : OnTask(task'[w])
    BY GotoType, IdleSound DEF Write, Sessions
<1> QED
    BY <1>1, NoLetterType DEF Write, TypeInv, TypeOK

LEMMA EncryptType ==
    ASSUME TypeInv, NEW x \in Secrets, NEW sent \in SUBSET Columns,
           Encrypt(x, sent)
    PROVE  sealed' \in Seals /\ origin' \in [Seals -> Origin]
BY VaultAssumption DEF Encrypt, TypeInv, TypeOK, Seals, Origin

\* One row of the database is replaced.
LEMMA SecretUpdate ==
    ASSUME TypeInv, NEW x, NEW row \in SecretRow
    PROVE  [db EXCEPT !.secrets[x] = row] \in Database
BY DEF TypeInv, TypeOK, Database

LEMMA RecipientUpdate ==
    ASSUME TypeInv, NEW r, NEW row \in RecipientRow
    PROVE  [db EXCEPT !.recipients[r] = row] \in Database
BY DEF TypeInv, TypeOK, Database

-----------------------------------------------------------------------------
(* Every action keeps the types.                                           *)

LEMMA HoldingType ==
    ASSUME TypeInv, NEW s \in Sessions, NEW x \in Secrets
    PROVE  Holding(s, x) \in [Secrets -> SecretRow]
<1>1. Loaded(s, x) \in SecretRow
    BY DEF Loaded, TypeInv, TypeOK, Task, Database
<1>2. Idle.cache \in [Secrets -> SecretRow]
    BY IdleType DEF Task
<1> QED
    BY <1>1, <1>2 DEF Holding

LEMMA DeliverType ==
    ASSUME TypeInv, NEW s \in Sessions, Deliver(s) \/ Abort(s)
    PROVE  TypeInv'
<1>0. /\ task[s] \in Task /\ OnTask(task[s]) /\ db \in Database
      /\ task[s].assigned \in [Recipients -> Secrets \cup {Nobody}]
      /\ task[s].cache \in [Secrets -> SecretRow]
      /\ task[s].todo \subseteq Recipients
      /\ Nobody \notin Secrets /\ Nobody \notin Recipients
    BY VaultAssumption DEF TypeInv, TypeOK, Task
<1>1. CASE Fire(s)
  <2>1. PICK t : /\ Reads(s, t)
                 /\ t = [Idle EXCEPT
                     !.pc = "next", !.todo = {r \in Recipients : Enrolled(r)},
                     !.assigned = [r \in Recipients |->
                                       db.recipients[r].secret],
                     !.cache = task[s].cache,
                     !.begun = [x \in Secrets |->
                         IF Simulates(s) \/ AssignedTo(x) = {} THEN 0
                         ELSE db.secrets[x].content]]
    BY <1>1 DEF Fire
  <2>2. \A r \in Recipients :
            /\ db.recipients[r].secret \in Secrets \cup {Nobody}
            /\ Enrolled(r) => db.recipients[r].secret \in Secrets
    BY <1>0 DEF Database, RecipientRow, Enrolled
  <2>3. [x \in Secrets |-> IF Simulates(s) \/ AssignedTo(x) = {} THEN 0
                           ELSE db.secrets[x].content] \in [Secrets -> Seals]
    BY <1>0, VaultAssumption DEF Database, SecretRow, Seals
  <2>4. t \in Task
    BY <1>0, <2>1, <2>2, <2>3, IdleType DEF Task, Steps
  <2>5. OnTask(t)
    BY <2>1, <2>2 DEF OnTask, Idle
  <2>6. fired' \in 0 .. MaxDeliveries
    BY <1>1, VaultAssumption DEF Fire, TypeInv, TypeOK
  <2> QED
    BY <2>1, <2>4, <2>5, <2>6, ReadsType DEF SoundTask
<1>2. CASE SkipRecipient(s)
  <2>1. PICK r \in task[s].todo :
            Goto(s, [task[s] EXCEPT !.todo = @ \ {r}, !.cache = Idle.cache,
                                    !.assigned[r] = Nobody])
    BY <1>2 DEF SkipRecipient
  <2>2. [task[s] EXCEPT !.todo = @ \ {r}, !.cache = Idle.cache,
                        !.assigned[r] = Nobody] \in SoundTask
    BY <1>0, <1>2, IdleType DEF SkipRecipient, SoundTask, OnTask, Task
  <2>3. writer' \in Sessions \cup {Nobody}
    BY <1>2 DEF SkipRecipient, Autoflush, Flush, TypeInv, TypeOK
  <2> QED
    BY <1>2, <2>1, <2>2, <2>3, GotoType, NoLetterType
    DEF SkipRecipient, TypeInv, TypeOK
<1>3. CASE SendText(s)
  <2>1. PICK r \in task[s].todo :
            /\ Selects(s, r, "server")
            /\ Goto(s, [task[s] EXCEPT !.pc = "mail", !.recipient = r,
                    !.secret = task[s].assigned[r],
                    !.cache = Holding(s, task[s].assigned[r])])
    BY <1>3 DEF SendText
  <2>2. task[s].assigned[r] \in Secrets /\ r \in Recipients
    BY <1>0 DEF OnTask
  <2>3. Holding(s, task[s].assigned[r]) \in [Secrets -> SecretRow]
    BY <2>2, HoldingType
  <2>4. [task[s] EXCEPT !.pc = "mail", !.recipient = r,
             !.secret = task[s].assigned[r],
             !.cache = Holding(s, task[s].assigned[r])]
            \in SoundTask
    BY <1>0, <2>2, <2>3 DEF SoundTask, OnTask, Task, Steps
  <2>5. writer' \in Sessions \cup {Nobody}
    BY <1>3 DEF SendText, Autoflush, Flush, TypeInv, TypeOK
  <2> QED
    BY <1>3, <2>1, <2>4, <2>5, GotoType, NoLetterType
    DEF SendText, TypeInv, TypeOK
<1>4. CASE SendLink(s)
  <2> DEFINE x(r) == task[s].assigned[r]
             token(r) == [id |-> issued + 1, secret |-> x(r), recipient |-> r]
             next(r) == [task[s] EXCEPT !.pc = "mail", !.recipient = r,
                             !.secret = x(r), !.token = issued + 1,
                             !.cache = Holding(s, x(r)),
                             !.tokens = @ \cup {token(r)}]
  <2>1. PICK r \in task[s].todo : Goto(s, next(r))
    BY <1>4 DEF SendLink
  <2>2. x(r) \in Secrets /\ r \in Recipients
    BY <1>0 DEF OnTask
  <2>3. Holding(s, x(r)) \in [Secrets -> SecretRow]
    BY <2>2, HoldingType
  <2>4. issued + 1 \in Ids /\ issued' \in Ids
    BY <1>4, VaultAssumption DEF SendLink, TypeInv, TypeOK, Ids
  <2>5. token(r) \in RevealToken
    BY <2>2, <2>4 DEF RevealToken
  <2>6. next(r) \in SoundTask
    <3> HIDE DEF token
    <3> QED
      BY <1>0, <2>2, <2>3, <2>4, <2>5 DEF SoundTask, OnTask, Task, Steps
  <2> QED
    BY <1>4, <2>1, <2>4, <2>6, GotoType, NoLetterType
    DEF SendLink, FlushToken, Flush, TypeInv, TypeOK
<1>5. CASE Mail(s)
  <2> DEFINE r == task[s].recipient
             x == task[s].secret
             entry == [simulated |-> Simulates(s), recipient |-> r,
                       secret |-> x]
             after(log) == [task[s] EXCEPT
                  !.pc = "next", !.todo = @ \ {r}, !.assigned[r] = Nobody,
                  !.token = 0, !.recipient = Nobody, !.secret = Nobody,
                  !.log = log]
  <2>1. r \in Recipients /\ x \in Secrets
    BY <1>0, <1>5 DEF Mail, OnTask
  <2>2. entry \in TriggerLog
    BY <2>1 DEF TriggerLog, Simulates
  <2>3. PICK log : /\ Goto(s, after(log))
                   /\ log \in {task[s].log, task[s].log \cup {entry}}
    BY <1>5 DEF Mail
  <2>4. log \in SUBSET TriggerLog
    BY <1>0, <2>2, <2>3 DEF Task
  <2>5. after(log) \in SoundTask
    <3>1. 0 \in Ids /\ Nobody \in Secrets \cup {Nobody}
      BY VaultAssumption DEF Ids
    <3>2. task[s].todo \ {r} \in SUBSET Recipients
      BY <1>0
    <3>3. [task[s].assigned EXCEPT ![r] = Nobody]
              \in [Recipients -> Secrets \cup {Nobody}]
      BY <1>0
    <3>4. after(log) \in Task
      BY <1>0, <2>4, <3>1, <3>2, <3>3 DEF Task, Steps
    <3>5. OnTask(after(log))
      BY <1>0 DEF OnTask, Task
    <3> QED
      BY <3>4, <3>5 DEF SoundTask
  <2>6. posted' \in Letter
    <3>1. task[s].cache[x].content \in Seals
      BY <1>0, <2>1 DEF SecretRow
    <3>2. origin[task[s].cache[x].content].secret \in Secrets \cup {Nobody}
      BY <3>1 DEF TypeInv, TypeOK, Origin
    <3> QED
      BY <1>0, <1>5, <2>1, <3>1, <3>2, NoLetterType, VaultAssumption
      DEF Mail, Letter, Seals, Ids, Task
  <2>7. links' \subseteq Ids
    BY <1>0, <1>5 DEF Mail, TypeInv, TypeOK, Task
  <2> QED
    BY <1>5, <2>3, <2>5, <2>6, <2>7, GotoType DEF Mail, TypeInv, TypeOK
<1>6. CASE FinishDelivery(s)
  <2>1. Stored(s) \in Database
    BY <1>0 DEF Stored, Database, Task
  <2> QED
    BY <1>6, <2>1, GotoType, IdleSound, NoLetterType
    DEF FinishDelivery, AfterDelivery, TypeInv, TypeOK
<1>7. CASE Abort(s)
  BY <1>7, ReadsType, IdleSound DEF Abort, Finds, TypeInv, TypeOK
<1> QED
  BY <1>1, <1>2, <1>3, <1>4, <1>5, <1>6, <1>7 DEF Deliver

\* Opening a secret loads its row, or nothing that matters later.
LEMMA OpenedSecret ==
    ASSUME TypeOK, NEW q \in Requests, OpenSecret(q)
    PROVE  \E x \in Secrets :
           \E pc \in {"update", "count"},
              cache \in {Idle.cache, [Idle.cache EXCEPT ![x] = db.secrets[x]]} :
               /\ cache \in [Secrets -> SecretRow]
               /\ Exists(x)
               /\ Finds(q, [Idle EXCEPT !.pc = pc, !.secret = x,
                                        !.cache = cache])
<1>1. PICK x \in Secrets :
          /\ Exists(x)
          /\ \/ Finds(q, [Idle EXCEPT !.pc = "update", !.secret = x,
                                      !.cache[x] = db.secrets[x]])
             \/ Finds(q, [Idle EXCEPT !.pc = "count", !.secret = x])
    BY DEF OpenSecret
<1>2. Idle.cache \in [Secrets -> SecretRow] /\ db.secrets[x] \in SecretRow
    BY IdleType DEF Task, TypeOK, Database
<1>3. [Idle EXCEPT !.pc = "update", !.secret = x, !.cache[x] = db.secrets[x]]
          = [Idle EXCEPT !.pc = "update", !.secret = x,
                 !.cache = [Idle.cache EXCEPT ![x] = db.secrets[x]]]
    BY DEF Idle
<1>4. [Idle EXCEPT !.pc = "count", !.secret = x]
          = [Idle EXCEPT !.pc = "count", !.secret = x, !.cache = Idle.cache]
    BY DEF Idle
<1> QED
    BY <1>1, <1>2, <1>3, <1>4

LEMMA HandleType ==
    ASSUME TypeInv, NEW q \in Requests, Handle(q)
    PROVE  TypeInv'
<1>0. /\ task[q] \in Task /\ OnTask(task[q]) /\ db \in Database
      /\ q \in Sessions
      /\ fired \in 0 .. MaxDeliveries
      /\ Nobody \notin Secrets /\ Nobody \notin Recipients
    BY VaultAssumption DEF TypeInv, TypeOK, Sessions
<1> DEFINE Opened(pc, r, x) ==
               [Idle EXCEPT !.pc = pc, !.recipient = r, !.secret = x]
<1>1. CASE CreateSecret(q)
  <2>1. PICK x \in Secrets, type \in Types :
            /\ Encrypt(x, Required(type))
            /\ Write(q, [db EXCEPT !.secrets[x] = Sealed(type, sealed')])
    BY <1>1 DEF CreateSecret
  <2>2. sealed' \in Seals /\ origin' \in [Seals -> Origin]
    BY <2>1, EncryptType DEF Required, Columns
  <2>3. [db EXCEPT !.secrets[x] = Sealed(type, sealed')] \in Database
    BY <2>2, SealedType, SecretUpdate
  <2> QED
    BY <1>1, <2>1, <2>2, <2>3, WriteType DEF CreateSecret, TypeInv, TypeOK
<1>2. CASE OpenSecret(q)
  <2>1. PICK x \in Secrets, pc \in {"update", "count"},
             cache \in [Secrets -> SecretRow] :
            Finds(q, [Idle EXCEPT !.pc = pc, !.secret = x, !.cache = cache])
    BY <1>2, OpenedSecret DEF TypeInv
  <2> DEFINE t == [Idle EXCEPT !.pc = pc, !.secret = x, !.cache = cache]
  <2>2. t \in Task
    BY IdleType DEF Task, Steps
  <2>3. OnTask(t)
    BY DEF OnTask, Idle
  <2> QED
    BY <1>0, <2>1, <2>2, <2>3, ReadsType DEF Finds, SoundTask
<1>3. CASE UpdateSecret(q)
  <2> DEFINE x == task[q].secret
             new(sent) == Resealed(db.secrets[x], task[q].cache[x], sealed',
                                   sent)
  <2>1. x \in Secrets
    BY <1>0, <1>3 DEF UpdateSecret, OnTask
  <2>2. CASE Finds(q, Idle) /\ UNCHANGED promised
    BY <1>0, <2>2, IdleSound, ReadsType DEF Finds
  <2>3. ASSUME NEW sent \in SUBSET Columns, Encrypt(x, sent), UNCHANGED promised,
               Write(q, [db EXCEPT !.secrets[x] = new(sent)])
        PROVE  TypeInv'
    <3>1. sealed' \in Seals /\ origin' \in [Seals -> Origin]
      BY <2>1, <2>3, EncryptType
    <3>2. new(sent) \in SecretRow
      BY <1>0, <2>1, <3>1, ResealedType DEF Database
    <3>3. [db EXCEPT !.secrets[x] = new(sent)] \in Database
      BY <3>2, SecretUpdate
    <3> QED
      BY <2>3, <3>1, <3>3, WriteType DEF TypeInv, TypeOK
  <2> QED
    BY <1>3, <2>2, <2>3 DEF UpdateSecret, Sent, Required, Columns, Finds, Reads
<1>4. CASE CountRecipients(q)
  <2> DEFINE counted == [task[q] EXCEPT !.pc =
                             IF @ = "count" THEN "children" ELSE "delete"]
  <2>1. counted \in Task
    BY <1>0 DEF Task, Steps
  <2>2. counted.pc \in {"children", "delete"} /\ counted.todo = task[q].todo
        /\ counted.assigned = task[q].assigned
    BY <1>0 DEF Task
  <2>3. OnTask(counted)
    BY <1>0, <1>4, <2>2 DEF OnTask, Task, CountRecipients
  <2>4. Finds(q, Idle) \/ Finds(q, counted)
    BY <1>4 DEF CountRecipients
  <2> QED
    BY <1>0, <2>1, <2>3, <2>4, IdleSound, ReadsType DEF Finds, SoundTask
<1>5. CASE DeleteSecret(q)
  <2>1. [db EXCEPT !.secrets[task[q].secret] =
             [NoSecret EXCEPT !.state = "deleted"]] \in Database
    BY RowTypes, SecretUpdate
  <2> QED
    BY <1>5, <2>1, WriteType DEF DeleteSecret, TypeInv, TypeOK
<1>6. CASE Reveal(q)
  <2>1. PICK t \in db.tokens : Write(q, [db EXCEPT !.accessed = @ \cup {t.id}])
    BY <1>6 DEF Reveal
  <2>2. [db EXCEPT !.accessed = @ \cup {t.id}] \in Database
    BY <1>0 DEF Database, RevealToken
  <2> QED
    BY <1>6, <2>1, <2>2, WriteType DEF Reveal, TypeInv, TypeOK
<1>7. CASE OpenRecipient(q)
  <2>1. PICK r \in Recipients, x \in Secrets, pc \in {"reassign", "create"} :
            Finds(q, [Idle EXCEPT !.pc = pc, !.recipient = r, !.secret = x])
    BY <1>7 DEF OpenRecipient
  <2>2. Opened(pc, r, x) \in Task
    BY IdleType DEF Task, Steps
  <2>3. OnTask(Opened(pc, r, x))
    BY DEF OnTask, Idle
  <2> QED
    BY <1>0, <2>1, <2>2, <2>3, ReadsType DEF Finds, SoundTask
<1>8. CASE CreateRecipient(q) \/ UpdateRecipient(q)
  <2> DEFINE r == task[q].recipient
             x == task[q].secret
  <2>1. Assign(q, r, x) /\ r \in Recipients /\ x \in Secrets
    BY <1>0, <1>8 DEF CreateRecipient, UpdateRecipient, OnTask
  <2>2. [state |-> "live", secret |-> x] \in RecipientRow
    BY <2>1 DEF RecipientRow
  <2>3. [db EXCEPT !.recipients[r] = [state |-> "live", secret |-> x]]
            \in Database
    BY <2>2, RecipientUpdate
  <2> QED
    BY <2>1, <2>3, WriteType DEF Assign, TypeInv, TypeOK
<1>9. CASE DeleteRecipient(q)
  <2>1. PICK r \in Recipients :
            Write(q, [db EXCEPT !.recipients[r] = Removed(@)])
    BY <1>9 DEF DeleteRecipient
  <2>2. [db EXCEPT !.recipients[r] = Removed(db.recipients[r])] \in Database
    BY <1>0, RowTypes, RecipientUpdate DEF Database
  <2> QED
    BY <1>9, <2>1, <2>2, WriteType DEF DeleteRecipient, TypeInv, TypeOK
<1>10. CASE OpenReset(q)
  <2> DEFINE t == [Idle EXCEPT !.pc = "reset",
                               !.log = {e \in db.log : e.simulated}]
  <2>1. t \in Task
    BY <1>0, IdleType DEF Task, Steps, Database
  <2>2. OnTask(t)
    BY DEF OnTask, Idle
  <2> QED
    BY <1>0, <1>10, <2>1, <2>2, ReadsType DEF OpenReset, Finds, SoundTask
<1>11. CASE Reset(q)
  <2>1. [db EXCEPT !.log = @ \ task[q].log] \in Database
    BY <1>0 DEF Database
  <2> QED
    BY <1>11, <2>1, WriteType DEF Reset, TypeInv, TypeOK
<1> QED
  BY <1>1, <1>2, <1>3, <1>4, <1>5, <1>6, <1>7, <1>8, <1>9, <1>10, <1>11
  DEF Handle

LEMMA TypeStep == TypeInv /\ [Next]_vars => TypeInv'
<1> SUFFICES ASSUME TypeInv, [Next]_vars PROVE TypeInv'
    OBVIOUS
<1>1. CASE Crash
    BY <1>1, IdleSound, NoLetterType DEF Crash, TypeInv, TypeOK, SoundTask
<1>2. CASE UNCHANGED vars
    BY <1>2 DEF vars, TypeInv, TypeOK
<1> QED
    BY <1>1, <1>2, DeliverType, HandleType DEF Next

LEMMA InitType == Init => TypeInv
<1> SUFFICES ASSUME Init PROVE TypeInv
    OBVIOUS
<1>1. db \in Database
    BY RowTypes DEF Init, Database
<1>2. /\ sealed \in Seals /\ issued \in Ids /\ fired \in 0 .. MaxDeliveries
      /\ origin \in [Seals -> Origin]
    BY VaultAssumption DEF Init, Seals, Ids, Origin
<1> QED
    BY <1>1, <1>2, IdleSound, NoLetterType
    DEF Init, TypeInv, TypeOK, SoundTask

\* Whatever sessions do to the rows of a user, and wherever they fail, every
\* variable keeps its type; in particular a recipient always names a secret
\* as its column demands, and a delivery only deals with recipients and
\* secrets it has loaded (models.py:61-152, trigger.py:33-65).
THEOREM RowsKeepTheirTypes == Spec => []TypeOK
<1>1. Init => TypeInv
    BY InitType
<1>2. TypeInv /\ [Next]_vars => TypeInv'
    BY TypeStep
<1>3. TypeInv => TypeOK
    BY DEF TypeInv
<1> QED
    BY <1>1, <1>2, <1>3, PTL DEF Spec

-----------------------------------------------------------------------------
(* How a step changes what is stored.                                      *)

\* A secret stays, is sealed anew under its type, or is deleted for good.
SecretStep(x) ==
    \/ db'.secrets[x] = db.secrets[x]
    \/ /\ db'.secrets[x].state = "deleted"
       /\ db'.secrets[x].content = 0 /\ db'.secrets[x].salt = 0
    \/ /\ db'.secrets[x].state = "live" /\ Whole(db'.secrets[x])
       /\ db'.secrets[x].content = sealed' /\ sealed' > sealed
       /\ db'.secrets[x].salt \in {db.secrets[x].salt, 0, sealed'}
       /\ origin'[sealed'].secret = x
       /\ "salt" \in origin'[sealed'].sent => Opens(db'.secrets[x])
       /\ \/ db.secrets[x].state = "absent"
          \/ /\ db.secrets[x].state = "live"
             /\ db'.secrets[x].type = db.secrets[x].type

\* An assignment that is new has been recorded.
RecipientStep(r) ==
    \/ db'.recipients[r] = db.recipients[r]
    \/ db'.recipients[r].state = "live" =>
           <<r, db'.recipients[r].secret>> \in promised'

\* A log entry that is new comes from a session, together with its tokens.
LogStep(e) ==
    \/ e \in db.log
    \/ \E s \in Sessions : /\ e \in task[s].log
                           /\ task[s].tokens \subseteq db'.tokens

Evolution ==
    /\ \A x \in Secrets : SecretStep(x)
    /\ \A r \in Recipients : RecipientStep(r)
    /\ \A e \in db'.log : LogStep(e)
    /\ db.tokens \subseteq db'.tokens
    /\ promised \subseteq promised'
    /\ sealed <= sealed'
    /\ \A n \in 1 .. sealed : origin'[n] = origin[n]

LEMMA EncryptStep ==
    ASSUME TypeInv, NEW x \in Secrets, NEW sent, Encrypt(x, sent)
    PROVE  /\ sealed' \in Seals /\ sealed' > sealed
           /\ origin'[sealed'] = [secret |-> x, sent |-> sent]
           /\ \A n \in 1 .. sealed : origin'[n] = origin[n]
BY VaultAssumption DEF Encrypt, TypeInv, TypeOK, Seals

\* The columns of a new encryption, and of a repeated one, fit.
LEMMA SealedWhole ==
    ASSUME NEW type \in Types, NEW n \in Seals
    PROVE  LET row == Sealed(type, n)
           IN  /\ row.state = "live" /\ row.content = n
               /\ Opens(row) /\ row.salt \in {0, n}
BY DEF Sealed, Opens, Whole

LEMMA ResealedWhole ==
    ASSUME NEW row \in SecretRow, NEW loaded, NEW n \in Seals, NEW sent,
           Storable(sent), loaded.salt # n
    PROVE  LET new == Resealed(row, loaded, n, sent)
           IN  /\ new.state = row.state /\ new.type = row.type
               /\ new.content = n /\ Whole(new)
               /\ new.salt \in {row.salt, 0, n}
               /\ "salt" \in sent => Opens(new)
BY DEF Resealed, Storable, Opens, Whole, SecretRow

\* A step that leaves the database, the encryptions and the assignments alone.
LEMMA NoEvolution ==
    ASSUME TypeInv, UNCHANGED <<db, sealed, origin, promised>>
    PROVE  Evolution
BY DEF Evolution, SecretStep, RecipientStep, LogStep, TypeInv, TypeOK, Seals

\* No session has loaded a salt that is still to come.
SaltsAreOld ==
    \A s \in Sessions, x \in Secrets : task[s].cache[x].salt <= sealed

LEMMA NextEvolution ==
    ASSUME TypeInv, SaltsAreOld, [Next]_vars
    PROVE  Evolution
<1>0. db \in Database /\ sealed \in Nat
    BY VaultAssumption DEF TypeInv, TypeOK, Seals
<1>1. ASSUME NEW q \in Requests, CreateSecret(q)
      PROVE  Evolution
  <2>1. PICK x \in Secrets, type \in Types :
            /\ db.secrets[x].state = "absent"
            /\ Encrypt(x, Required(type))
            /\ Write(q, [db EXCEPT !.secrets[x] = Sealed(type, sealed')])
    BY <1>1 DEF CreateSecret
  <2>2. /\ sealed' \in Seals /\ sealed' > sealed
        /\ origin'[sealed'] = [secret |-> x, sent |-> Required(type)]
        /\ \A n \in 1 .. sealed : origin'[n] = origin[n]
    BY <2>1, EncryptStep
  <2>3. /\ db'.secrets = [db.secrets EXCEPT ![x] = Sealed(type, sealed')]
        /\ db'.recipients = db.recipients /\ db'.log = db.log
        /\ db'.tokens = db.tokens
    BY <1>0, <2>1 DEF Write, Database
  <2>4. \A y \in Secrets : SecretStep(y)
    BY <1>0, <2>1, <2>2, <2>3, SealedWhole DEF SecretStep, Opens, Database
  <2> QED
    BY <1>0, <1>1, <2>2, <2>3, <2>4, VaultAssumption
    DEF Evolution, RecipientStep, LogStep, CreateSecret, Seals
<1>2. ASSUME NEW q \in Requests, UpdateSecret(q)
      PROVE  Evolution
  <2> DEFINE x == task[q].secret
             loaded == task[q].cache[x]
  <2>1. x \in Secrets /\ db.secrets[x] \in SecretRow /\ Exists(x)
    BY <1>0, <1>2 DEF UpdateSecret, TypeInv, OnTask, Sessions, Database
  <2>2. CASE Finds(q, Idle) /\ UNCHANGED promised
    BY <2>2, NoEvolution DEF Finds, Reads
  <2>3. ASSUME NEW sent, Storable(sent), Encrypt(x, sent),
               UNCHANGED promised,
               Write(q, [db EXCEPT !.secrets[x] =
                             Resealed(@, loaded, sealed', sent)])
        PROVE  Evolution
    <3>1. /\ sealed' \in Seals /\ sealed' > sealed
          /\ origin'[sealed'] = [secret |-> x, sent |-> sent]
          /\ \A n \in 1 .. sealed : origin'[n] = origin[n]
      BY <2>1, <2>3, EncryptStep
    <3> DEFINE new == Resealed(db.secrets[x], loaded, sealed', sent)
    <3>2. /\ db'.secrets = [db.secrets EXCEPT ![x] = new]
          /\ db'.recipients = db.recipients /\ db'.log = db.log
          /\ db'.tokens = db.tokens
      BY <1>0, <2>3 DEF Write, Database
    <3>3. /\ new.state = db.secrets[x].state /\ new.type = db.secrets[x].type
          /\ new.content = sealed' /\ Whole(new)
          /\ new.salt \in {db.secrets[x].salt, 0, sealed'}
          /\ "salt" \in sent => Opens(new)
      <4>1. loaded.salt # sealed'
        <5>1. loaded.salt \in Int /\ loaded.salt <= sealed
          BY <1>2, <2>1 DEF SaltsAreOld, Sessions, TypeInv, TypeOK, Task,
                            SecretRow, Seals
        <5> QED
          BY <1>0, <3>1, <5>1 DEF Seals
      <4> QED
        BY <2>1, <2>3, <3>1, <4>1, ResealedWhole
    <3>4. \A y \in Secrets : SecretStep(y)
      <4> HIDE DEF new
      <4>1. "salt" \in origin'[sealed'].sent => Opens(new)
        BY <3>1, <3>3
      <4> QED
        BY <1>0, <2>1, <3>1, <3>2, <3>3, <4>1 DEF Exists, SecretStep, Database
    <3> QED
      BY <1>0, <2>3, <3>1, <3>2, <3>4, VaultAssumption
      DEF Evolution, RecipientStep, LogStep, Seals
  <2> QED
    BY <1>2, <2>2, <2>3 DEF UpdateSecret, Finds, Reads
<1>3. ASSUME NEW q \in Requests, DeleteSecret(q)
      PROVE  Evolution
  <2>1. /\ db'.secrets = [db.secrets EXCEPT ![task[q].secret] =
                              [NoSecret EXCEPT !.state = "deleted"]]
        /\ db'.recipients = db.recipients /\ db'.log = db.log
        /\ db'.tokens = db.tokens
    BY <1>0, <1>3 DEF DeleteSecret, Write, Database
  <2>2. \A y \in Secrets : SecretStep(y)
    BY <1>0, <2>1 DEF SecretStep, Database, NoSecret
  <2> QED
    BY <1>0, <1>3, <2>1, <2>2
    DEF Evolution, RecipientStep, LogStep, DeleteSecret
<1>4. ASSUME NEW q \in Requests, Reveal(q)
      PROVE  Evolution
  <2>1. /\ db'.secrets = db.secrets /\ db'.recipients = db.recipients
        /\ db'.log = db.log /\ db'.tokens = db.tokens
    BY <1>0, <1>4 DEF Reveal, Write, Database
  <2> QED
    BY <1>0, <1>4, <2>1
    DEF Evolution, SecretStep, RecipientStep, LogStep, Reveal
<1>5. ASSUME NEW q \in Requests, CreateRecipient(q) \/ UpdateRecipient(q)
      PROVE  Evolution
  <2> DEFINE r == task[q].recipient
             x == task[q].secret
  <2>1. Assign(q, r, x)
    BY <1>5 DEF CreateRecipient, UpdateRecipient
  <2>2. /\ db'.secrets = db.secrets /\ db'.log = db.log
        /\ db'.tokens = db.tokens
        /\ db'.recipients = [db.recipients EXCEPT
                                 ![r] = [state |-> "live", secret |-> x]]
    BY <1>0, <2>1 DEF Assign, Write, Database
  <2>3. promised' = promised \cup {<<r, x>>}
    BY <2>1 DEF Assign
  <2>4. \A y \in Recipients : RecipientStep(y)
    BY <1>0, <2>2, <2>3 DEF RecipientStep, Database
  <2> QED
    BY <1>0, <2>1, <2>2, <2>3, <2>4
    DEF Evolution, SecretStep, LogStep, Assign
<1>6. ASSUME NEW q \in Requests, DeleteRecipient(q)
      PROVE  Evolution
  <2>1. PICK r \in Recipients :
            Write(q, [db EXCEPT !.recipients[r] = Removed(@)])
    BY <1>6 DEF DeleteRecipient
  <2>2. /\ db'.secrets = db.secrets /\ db'.log = db.log
        /\ db'.tokens = db.tokens
        /\ db'.recipients = [db.recipients EXCEPT
                                 ![r] = Removed(db.recipients[r])]
    BY <1>0, <2>1 DEF Write, Database
  <2>3. \A y \in Recipients : RecipientStep(y)
    BY <1>0, <2>2 DEF RecipientStep, Database, Removed, NoRecipient
  <2> QED
    BY <1>0, <1>6, <2>2, <2>3
    DEF Evolution, SecretStep, LogStep, DeleteRecipient
<1>7. ASSUME NEW q \in Requests, Reset(q)
      PROVE  Evolution
  <2>1. /\ db'.secrets = db.secrets /\ db'.recipients = db.recipients
        /\ db'.log = db.log \ task[q].log /\ db'.tokens = db.tokens
    BY <1>0, <1>7 DEF Reset, Write, Database
  <2> QED
    BY <1>0, <1>7, <2>1
    DEF Evolution, SecretStep, RecipientStep, LogStep, Reset
<1>8. ASSUME NEW s \in Sessions, FinishDelivery(s)
      PROVE  Evolution
  <2>1. /\ db'.secrets = db.secrets /\ db'.recipients = db.recipients
        /\ db'.log = db.log \cup task[s].log
        /\ db'.tokens = db.tokens \cup task[s].tokens
    BY <1>0, <1>8 DEF FinishDelivery, Stored, Database
  <2> QED
    BY <1>0, <1>8, <2>1
    DEF Evolution, SecretStep, RecipientStep, LogStep, FinishDelivery
<1>9. CASE UNCHANGED <<db, sealed, origin, promised>>
    BY <1>9, NoEvolution
<1>10. ASSUME NEW q \in Requests,
              OpenSecret(q) \/ CountRecipients(q) \/ OpenRecipient(q)
                  \/ OpenReset(q)
       PROVE  UNCHANGED <<db, sealed, origin, promised>>
    BY <1>10 DEF OpenSecret, CountRecipients, OpenRecipient, OpenReset, Finds,
                 Reads
<1>11. ASSUME NEW s \in Sessions,
              Fire(s) \/ SkipRecipient(s) \/ SendText(s) \/ SendLink(s)
                  \/ Mail(s) \/ Abort(s)
       PROVE  UNCHANGED <<db, sealed, origin, promised>>
    BY <1>11 DEF Fire, SkipRecipient, SendText, SendLink, Mail, Abort, Finds,
                 Reads
<1>12. CASE Crash \/ UNCHANGED vars
    BY <1>9, <1>12 DEF Crash, vars
<1> QED
    BY <1>1, <1>2, <1>3, <1>4, <1>5, <1>6, <1>7, <1>8, <1>9, <1>10, <1>11,
       <1>12 DEF Next, Deliver, Handle

-----------------------------------------------------------------------------
(* What the rows that are stored, and the copies that a session has loaded,*)
(* have in common.                                                         *)

\* The plaintext of a secret that exists was sealed for this secret.
Genuine(row, x) ==
    /\ row.content <= sealed /\ row.salt <= sealed
    /\ row.state = "live" =>
           row.content > 0 /\ origin[row.content].secret = x

Backed(e, tokens) ==
    \E t \in tokens : t.secret = e.secret /\ t.recipient = e.recipient

\* A log entry is of a secret that was stored, and has its token.
Logged(e, tokens) ==
    /\ db.secrets[e.secret].state # "absent"
    /\ db.secrets[e.secret].type = "e2e" /\ Exists(e.secret) =>
           Backed(e, tokens)

Rows ==
    /\ \A x \in Secrets : Genuine(db.secrets[x], x)
    /\ \A r \in Recipients :
           Enrolled(r) => <<r, db.recipients[r].secret>> \in promised
    /\ \A e \in db.log : Logged(e, db.tokens)

\* A row loaded by the delivery t, which began with what t.begun says.
Copied(t, x) ==
    /\ Genuine(t.cache[x], x)
    /\ t.begun[x] <= sealed
    /\ Exists(x) => db.secrets[x].content >= t.begun[x]
    /\ t.cache[x].state = "live" =>
           /\ t.cache[x].content >= t.begun[x]
           /\ db.secrets[x].state # "absent"
           /\ Exists(x) => db.secrets[x].type = t.cache[x].type

Promises(t) ==
    \A r \in Recipients :
        t.assigned[r] # Nobody => <<r, t.assigned[r]>> \in promised

\* The email that is on its way.
Addressed(t) ==
    t.pc = "mail" =>
        /\ <<t.recipient, t.secret>> \in promised
        /\ t.cache[t.secret].state = "live"
        /\ t.cache[t.secret].type = "e2e" => Backed(t, t.tokens)

Knows(t) ==
    /\ Promises(t)
    /\ \A x \in Secrets : Copied(t, x)
    /\ Addressed(t)
    /\ \A e \in t.log : Logged(e, t.tokens \cup db.tokens)
    /\ t.pc = "idle" => t = Idle

DeliveryInv == TypeInv /\ Rows /\ \A s \in Sessions : Knows(task[s])

\* A step of another session does not invalidate what a session has loaded.
LEMMA KnowsStable ==
    ASSUME TypeInv, TypeInv', Evolution, NEW t \in Task, Knows(t)
    PROVE  Knows(t)'
<1>0. sealed \in Nat /\ sealed' \in Int /\ sealed <= sealed'
    BY VaultAssumption DEF TypeInv, TypeOK, Seals, Evolution
<1>1. Promises(t)'
    BY DEF Knows, Promises, Evolution
<1>2. ASSUME NEW x \in Secrets
      PROVE  Copied(t, x)'
    <2>0. Copied(t, x) /\ SecretStep(x)
        BY DEF Knows, Evolution
    <2>1. /\ t.begun[x] \in Nat
          /\ t.cache[x].content \in Nat /\ t.cache[x].salt \in Nat
        BY DEF Task, SecretRow, Seals
    <2>2. Genuine(t.cache[x], x)'
        BY <1>0, <2>0, <2>1 DEF Copied, Genuine, Evolution
    <2> QED
        BY <1>0, <2>0, <2>1, <2>2 DEF Copied, SecretStep, Exists
<1>3. Addressed(t)'
    BY DEF Knows, Addressed, Evolution, Backed
<1>4. ASSUME NEW e \in t.log
      PROVE  Logged(e, t.tokens \cup db.tokens)'
    <2>1. e.secret \in Secrets
        BY DEF Task, TriggerLog
    <2>2. Logged(e, t.tokens \cup db.tokens) /\ SecretStep(e.secret)
          /\ db.tokens \subseteq db'.tokens
        BY <2>1 DEF Knows, Evolution
    <2>3. Backed(e, t.tokens \cup db.tokens) =>
              Backed(e, t.tokens \cup db'.tokens)
        BY <2>2 DEF Backed
    <2> QED
        BY <2>2, <2>3 DEF Logged, SecretStep, Exists
<1>5. (t.pc = "idle" => t = Idle)'
    BY DEF Knows
<1> QED
    BY <1>1, <1>2, <1>3, <1>4, <1>5 DEF Knows

LEMMA RowsStep ==
    ASSUME DeliveryInv, TypeInv', Evolution
    PROVE  Rows'
<1>0. sealed \in Nat /\ sealed' \in Int /\ sealed <= sealed' /\ TypeInv /\ Rows
    BY VaultAssumption
    DEF DeliveryInv, TypeInv, TypeOK, Seals, Evolution
<1>1. ASSUME NEW x \in Secrets
      PROVE  Genuine(db.secrets[x], x)'
    <2>1. Genuine(db.secrets[x], x) /\ SecretStep(x)
        BY <1>0 DEF Rows, Evolution
    <2>2. db.secrets[x].content \in Nat /\ db.secrets[x].salt \in Nat
        BY <1>0 DEF TypeInv, TypeOK, Database, SecretRow, Seals
    <2> QED
        BY <1>0, <2>1, <2>2 DEF Genuine, SecretStep, Evolution
<1>2. ASSUME NEW r \in Recipients
      PROVE  (Enrolled(r) => <<r, db.recipients[r].secret>> \in promised)'
    BY <1>0, <1>2 DEF Rows, Evolution, RecipientStep, Enrolled
<1>3. ASSUME NEW e \in db'.log
      PROVE  Logged(e, db.tokens)'
    <2>1. LogStep(e) /\ db.tokens \subseteq db'.tokens
        BY DEF Evolution
    <2>2. PICK tokens : /\ Logged(e, tokens)
                        /\ tokens \subseteq db'.tokens
                        /\ e \in TriggerLog
      <3>1. CASE e \in db.log
        BY <1>0, <2>1, <3>1 DEF Rows, TypeInv, TypeOK, Database
      <3>2. CASE \E s \in Sessions : /\ e \in task[s].log
                                     /\ task[s].tokens \subseteq db'.tokens
        <4>1. PICK s \in Sessions : /\ e \in task[s].log
                                    /\ task[s].tokens \subseteq db'.tokens
            BY <3>2
        <4>2. Logged(e, task[s].tokens \cup db.tokens)
            BY <4>1 DEF DeliveryInv, Knows
        <4>3. e \in TriggerLog
            BY <1>0, <4>1 DEF TypeInv, TypeOK, Task
        <4> QED
            BY <2>1, <4>1, <4>2, <4>3
      <3> QED
        BY <2>1, <3>1, <3>2 DEF LogStep
    <2>3. SecretStep(e.secret)
        BY <2>2 DEF Evolution, TriggerLog
    <2>4. Backed(e, tokens) => Backed(e, db.tokens)'
        BY <2>2 DEF Backed
    <2> QED
        BY <2>2, <2>3, <2>4 DEF Logged, SecretStep, Exists
<1> QED
    BY <1>1, <1>2, <1>3 DEF Rows

-----------------------------------------------------------------------------
(* Every action keeps the invariant.                                       *)

LEMMA IdleKnows ==
    ASSUME TypeInv
    PROVE  Knows(Idle)
<1>1. sealed \in Nat
    BY VaultAssumption DEF TypeInv, TypeOK, Seals
<1>2. \A x \in Secrets : db.secrets[x].content \in Nat
    BY VaultAssumption DEF TypeInv, TypeOK, Database, SecretRow, Seals
<1> QED
    BY <1>1, <1>2
    DEF Knows, Promises, Copied, Genuine, Addressed, Idle, NoSecret

\* A request that is under way has loaded no rows for a delivery.
LEMMA FreshKnows ==
    ASSUME TypeInv, NEW t, t.pc \notin {"idle", "mail"},
           t.assigned = Idle.assigned, t.cache = Idle.cache,
           t.begun = Idle.begun,
           \A e \in t.log : Logged(e, t.tokens \cup db.tokens)
    PROVE  Knows(t)
BY IdleKnows DEF Knows, Promises, Copied, Addressed

LEMMA GotoKnows ==
    ASSUME DeliveryInv, TypeInv', Evolution,
           NEW s \in Sessions, NEW t \in Task, Goto(s, t), Knows(t)
    PROVE  DeliveryInv'
<1>1. ASSUME NEW w \in Sessions
      PROVE  Knows(task[w])'
  <2>1. task'[w] \in {t, task[w]} /\ task[w] \in Task /\ Knows(task[w])
    BY DEF Goto, DeliveryInv, TypeInv, TypeOK
  <2>2. TypeInv
    BY DEF DeliveryInv
  <2>3. \A u \in Task : Knows(u) => Knows(u)'
    BY <2>2, KnowsStable
  <2> QED
    BY <2>1, <2>3
<1> QED
    BY <1>1, RowsStep DEF DeliveryInv

LEMMA NoSecretGenuine ==
    ASSUME TypeInv, NEW x
    PROVE  Genuine(NoSecret, x)
<1>1. sealed \in Nat
    BY VaultAssumption DEF TypeInv, TypeOK, Seals
<1> QED
    BY <1>1 DEF Genuine, NoSecret

\* Loading the secret of a recipient.
LEMMA LoadedCopied ==
    ASSUME DeliveryInv, NEW s \in Sessions, NEW x \in Secrets,
           Loaded(s, x).state = "live", NEW t,
           t.cache = Holding(s, x),
           t.begun = task[s].begun
    PROVE  \A y \in Secrets : Copied(t, y)
<1>1. task[s] \in Task /\ \A y \in Secrets : Copied(task[s], y)
    BY DEF DeliveryInv, TypeInv, TypeOK, Knows
<1>2. Genuine(db.secrets[x], x)
    BY DEF DeliveryInv, Rows
<1>3. \A y \in Secrets : t.cache[y] = IF y = x THEN Loaded(s, x) ELSE NoSecret
    BY DEF Holding, Idle
<1>4. ASSUME NEW y \in Secrets, y # x
      PROVE  Copied(t, y)
    <2>1. t.cache[y] = NoSecret /\ Copied(task[s], y)
        BY <1>1, <1>3, <1>4
    <2>2. Genuine(NoSecret, y)
        BY NoSecretGenuine DEF DeliveryInv
    <2> QED
        BY <2>1, <2>2 DEF Copied, NoSecret
<1>5. Exists(x) /\ (t.cache[x] = task[s].cache[x] \/ t.cache[x] = db.secrets[x])
    <2>1. t.cache[x] = Loaded(s, x)
        BY <1>3
    <2>2. \/ Loaded(s, x) = task[s].cache[x] /\ Exists(x)
          \/ Loaded(s, x) = db.secrets[x]
        BY DEF Loaded
    <2> QED
        BY <2>1, <2>2 DEF Exists
<1>6. Copied(t, x)
    BY <1>1, <1>2, <1>3, <1>5 DEF Copied, Exists
<1> QED
    BY <1>4, <1>6

LEMMA DeliverKnows ==
    ASSUME DeliveryInv, TypeInv', Evolution, NEW s \in Sessions,
           Deliver(s) \/ Abort(s)
    PROVE  DeliveryInv'
<1>0. /\ TypeInv /\ Rows /\ Knows(task[s]) /\ OnTask(task[s])
      /\ task[s] \in Task /\ task' \in [Sessions -> Task]
      /\ task \in [Sessions -> Task] /\ db \in Database
      /\ Nobody \notin Secrets /\ Nobody \notin Recipients
    BY VaultAssumption DEF DeliveryInv, TypeInv, TypeOK
<1>1. \A t : Goto(s, t) => t = task'[s] /\ t \in Task
    BY <1>0 DEF Goto
<1> SUFFICES ASSUME NEW t, Goto(s, t), t \in Task
             PROVE  Knows(t)
  <2>1. \E t : Goto(s, t)
    BY DEF Deliver, Fire, SkipRecipient, SendText, SendLink, Mail,
           FinishDelivery, Abort, Finds, Reads
  <2> QED
    BY <1>1, <2>1, GotoKnows
<1>2. \A u : Goto(s, u) => t = u
    BY <1>1
<1>3. CASE Fire(s)
  <2>1. t = [Idle EXCEPT
                 !.pc = "next", !.todo = {r \in Recipients : Enrolled(r)},
                 !.assigned = [r \in Recipients |-> db.recipients[r].secret],
                 !.cache = task[s].cache,
                 !.begun = [x \in Secrets |->
                     IF Simulates(s) \/ AssignedTo(x) = {} THEN 0
                     ELSE db.secrets[x].content]]
    BY <1>2, <1>3 DEF Fire, Reads
  <2>2. task[s] = Idle
    BY <1>0, <1>3 DEF Fire, Knows
  <2>3. /\ t.pc = "next" /\ t.log = {}
        /\ t.assigned = [r \in Recipients |-> db.recipients[r].secret]
        /\ t.cache = [x \in Secrets |-> NoSecret]
        /\ t.begun = [x \in Secrets |->
                     IF Simulates(s) \/ AssignedTo(x) = {} THEN 0
                     ELSE db.secrets[x].content]
    BY <2>1, <2>2 DEF Idle
  <2>4. Promises(t)
    BY <1>0, <2>3 DEF Promises, Rows, Enrolled, Database, RecipientRow
  <2>5. ASSUME NEW x \in Secrets
        PROVE  Copied(t, x)
    <3>1. db.secrets[x].content \in Nat /\ sealed \in Nat
      BY <1>0, VaultAssumption
      DEF TypeInv, TypeOK, Database, SecretRow, Seals
    <3>2. Genuine(db.secrets[x], x)
      BY <1>0 DEF Rows
    <3> QED
      BY <2>3, <3>1, <3>2 DEF Copied, Genuine, NoSecret
  <2> QED
    BY <2>3, <2>4, <2>5 DEF Knows, Addressed
<1>4. CASE SkipRecipient(s)
  <2>1. PICK r \in task[s].todo :
            t = [task[s] EXCEPT !.todo = @ \ {r}, !.cache = Idle.cache,
                                !.assigned[r] = Nobody]
    BY <1>2, <1>4 DEF SkipRecipient
  <2>2. /\ t.pc = "next" /\ t.log = task[s].log /\ t.tokens = task[s].tokens
        /\ t.cache = Idle.cache /\ t.begun = task[s].begun
        /\ t.assigned = [task[s].assigned EXCEPT ![r] = Nobody]
    BY <1>0, <1>4, <2>1 DEF SkipRecipient, Task
  <2>3. Promises(t)
    BY <1>0, <2>2 DEF Knows, Promises, Task
  <2>4. ASSUME NEW x \in Secrets
        PROVE  Copied(t, x)
    <3>1. t.cache[x] = NoSecret /\ Copied(task[s], x)
      BY <1>0, <2>2 DEF Knows, Idle
    <3>2. Genuine(NoSecret, x)
      BY <1>0, NoSecretGenuine
    <3> QED
      BY <2>2, <3>1, <3>2 DEF Copied, NoSecret
  <2> QED
    BY <1>0, <2>2, <2>3, <2>4 DEF Knows, Addressed
<1>5. CASE SendText(s)
  <2> DEFINE x(r) == task[s].assigned[r]
  <2>1. PICK r \in task[s].todo :
            /\ Selects(s, r, "server")
            /\ t = [task[s] EXCEPT !.pc = "mail", !.recipient = r,
                        !.secret = x(r), !.cache = Holding(s, x(r))]
    BY <1>2, <1>5 DEF SendText
  <2>2. x(r) \in Secrets /\ r \in Recipients
    BY <1>0 DEF OnTask, Task
  <2>3. /\ t.pc = "mail" /\ t.log = task[s].log /\ t.tokens = task[s].tokens
        /\ t.cache = Holding(s, x(r))
        /\ t.begun = task[s].begun /\ t.assigned = task[s].assigned
        /\ t.recipient = r /\ t.secret = x(r)
    BY <1>0, <2>1 DEF Task
  <2>4. Loaded(s, x(r)).state = "live" /\ Loaded(s, x(r)).type = "server"
    BY <2>1 DEF Selects
  <2>5. \A y \in Secrets : Copied(t, y)
    BY <2>2, <2>3, <2>4, LoadedCopied
  <2>6. t.cache[x(r)] = Loaded(s, x(r))
    BY <2>2, <2>3 DEF Holding, Idle
  <2>7. Addressed(t)
    BY <1>0, <2>2, <2>3, <2>4, <2>6 DEF Addressed, Knows, Promises
  <2> QED
    BY <1>0, <2>3, <2>5, <2>7 DEF Knows, Promises
<1>6. CASE SendLink(s)
  <2> DEFINE x(r) == task[s].assigned[r]
             token(r) == [id |-> issued + 1, secret |-> x(r), recipient |-> r]
  <2>1. PICK r \in task[s].todo :
            /\ Selects(s, r, "e2e")
            /\ t = [task[s] EXCEPT !.pc = "mail", !.recipient = r,
                        !.secret = x(r), !.token = token(r).id,
                        !.cache = Holding(s, x(r)),
                        !.tokens = @ \cup {token(r)}]
    BY <1>2, <1>6 DEF SendLink
  <2>2. x(r) \in Secrets /\ r \in Recipients
    BY <1>0 DEF OnTask, Task
  <2>3. /\ t.pc = "mail" /\ t.log = task[s].log
        /\ t.tokens = task[s].tokens \cup {token(r)}
        /\ t.cache = Holding(s, x(r))
        /\ t.begun = task[s].begun /\ t.assigned = task[s].assigned
        /\ t.recipient = r /\ t.secret = x(r)
    BY <1>0, <2>1 DEF Task
  <2>4. Loaded(s, x(r)).state = "live"
    BY <2>1 DEF Selects
  <2>5. \A y \in Secrets : Copied(t, y)
    BY <2>2, <2>3, <2>4, LoadedCopied
  <2>6. t.cache[x(r)] = Loaded(s, x(r))
    BY <2>2, <2>3 DEF Holding, Idle
  <2>7. Addressed(t)
    <3>1. <<r, x(r)>> \in promised
      BY <1>0, <2>2 DEF Knows, Promises
    <3>2. /\ token(r) \in t.tokens
          /\ token(r).secret = t.secret /\ token(r).recipient = t.recipient
      BY <2>3
    <3>3. Backed(t, t.tokens)
      <4> HIDE DEF token
      <4> QED
        BY <3>2 DEF Backed
    <3> QED
      BY <2>3, <2>4, <2>6, <3>1, <3>3 DEF Addressed
  <2>8. \A e \in t.log : Logged(e, t.tokens \cup db.tokens)
    BY <1>0, <2>3 DEF Knows, Logged, Backed
  <2> QED
    BY <1>0, <2>3, <2>5, <2>7, <2>8 DEF Knows, Promises
<1>7. CASE Mail(s)
  <2> DEFINE r == task[s].recipient
             x == task[s].secret
             entry == [simulated |-> Simulates(s), recipient |-> r,
                       secret |-> x]
  <2>1. PICK log : /\ t = [task[s] EXCEPT
                             !.pc = "next", !.todo = @ \ {r},
                             !.assigned[r] = Nobody, !.token = 0,
                             !.recipient = Nobody, !.secret = Nobody,
                             !.log = log]
                   /\ log \in {task[s].log, task[s].log \cup {entry}}
    BY <1>2, <1>7 DEF Mail
  <2>2. r \in Recipients /\ x \in Secrets /\ task[s].pc = "mail"
    BY <1>0, <1>7 DEF Mail, OnTask
  <2>3. /\ t.pc = "next" /\ t.log = log /\ t.tokens = task[s].tokens
        /\ t.cache = task[s].cache /\ t.begun = task[s].begun
        /\ t.assigned = [task[s].assigned EXCEPT ![r] = Nobody]
    BY <1>0, <2>1 DEF Task
  <2>4. Promises(t)
    BY <1>0, <2>2, <2>3 DEF Knows, Promises, Task
  <2>5. Logged(entry, task[s].tokens \cup db.tokens)
    <3>1. Copied(task[s], x) /\ Addressed(task[s])
      BY <1>0, <2>2 DEF Knows
    <3> QED
      BY <2>2, <3>1 DEF Copied, Addressed, Logged, Backed
  <2> QED
    BY <1>0, <2>1, <2>3, <2>4, <2>5 DEF Knows, Copied, Addressed
<1>8. CASE FinishDelivery(s) \/ Abort(s)
  <2>1. t = Idle
    BY <1>2, <1>8 DEF FinishDelivery, AfterDelivery, Abort, Finds, Reads
  <2> QED
    BY <1>0, <2>1, IdleKnows
<1> QED
    BY <1>3, <1>4, <1>5, <1>6, <1>7, <1>8 DEF Deliver

LEMMA HandleKnows ==
    ASSUME DeliveryInv, TypeInv', Evolution, NEW q \in Requests, Handle(q)
    PROVE  DeliveryInv'
<1>0. /\ TypeInv /\ Rows /\ q \in Sessions
      /\ task[q] \in Task /\ Knows(task[q])
    BY DEF DeliveryInv, TypeInv, TypeOK, Sessions
<1>1. ASSUME NEW newdb, Write(q, newdb)
      PROVE  DeliveryInv'
    BY <1>0, <1>1, IdleType, IdleKnows, GotoKnows DEF Write
<1>2. ASSUME NEW t \in Task, Finds(q, t), Knows(t)
      PROVE  DeliveryInv'
    BY <1>0, <1>2, GotoKnows DEF Finds, Reads
<1>3. CASE OpenSecret(q)
  <2>0. PICK x \in Secrets :
            \E pc \in {"update", "count"},
               cache \in {Idle.cache,
                          [Idle.cache EXCEPT ![x] = db.secrets[x]]} :
                /\ cache \in [Secrets -> SecretRow]
                /\ Exists(x)
                /\ Finds(q, [Idle EXCEPT !.pc = pc, !.secret = x,
                                         !.cache = cache])
    BY <1>0, <1>3, OpenedSecret DEF TypeInv
  <2>1. PICK pc \in {"update", "count"},
             cache \in {Idle.cache, [Idle.cache EXCEPT ![x] = db.secrets[x]]} :
            /\ cache \in [Secrets -> SecretRow]
            /\ Exists(x)
            /\ Finds(q, [Idle EXCEPT !.pc = pc, !.secret = x, !.cache = cache])
    BY <2>0
  <2> DEFINE t == [Idle EXCEPT !.pc = pc, !.secret = x, !.cache = cache]
  <2>2. t \in Task
    BY <2>1, IdleType DEF Task, Steps
  <2>3. /\ t.pc \notin {"idle", "mail"} /\ t.log = {} /\ t.cache = cache
        /\ t.assigned = Idle.assigned /\ t.begun = Idle.begun
    BY DEF Idle
  <2>4. ASSUME NEW y \in Secrets
        PROVE  Copied(t, y)
    <3>1. Copied(Idle, y) /\ Genuine(db.secrets[y], y)
      BY <1>0, IdleKnows DEF Knows, Rows
    <3>2. db.secrets[y].content \in Nat /\ t.begun[y] = 0 /\ sealed \in Nat
      BY <1>0, <2>3, VaultAssumption
      DEF TypeInv, TypeOK, Database, SecretRow, Seals, Idle
    <3>3. t.cache[y] \in {Idle.cache[y], db.secrets[y]}
      BY <2>3 DEF Idle
    <3>4. t.cache[y] = db.secrets[y] => Copied(t, y)
      <4> HIDE DEF t
      <4> QED
        BY <3>1, <3>2 DEF Copied, Exists
    <3>5. t.cache[y] = Idle.cache[y] => Copied(t, y)
      <4> HIDE DEF t
      <4> QED
        BY <2>3, <3>1 DEF Copied
    <3> QED
      BY <3>3, <3>4, <3>5
  <2>5. Knows(t)
    <3> HIDE DEF t
    <3> QED
      BY <1>0, <2>3, <2>4, IdleKnows DEF Knows, Promises, Addressed
  <2> QED
    BY <1>2, <2>1, <2>2, <2>5
<1>4. CASE CountRecipients(q)
  <2> DEFINE t == [task[q] EXCEPT !.pc =
                             IF @ = "count" THEN "children" ELSE "delete"]
  <2>1. Finds(q, Idle) \/ Finds(q, t)
    BY <1>4 DEF CountRecipients
  <2>2. t \in Task
    BY <1>0 DEF Task, Steps
  <2>3. /\ t.pc \in {"children", "delete"} /\ t.log = task[q].log
        /\ t.tokens = task[q].tokens
        /\ t.assigned = task[q].assigned /\ t.cache = task[q].cache
        /\ t.begun = task[q].begun
    BY <1>0 DEF Task
  <2>4. Knows(t)
    <3> HIDE DEF t
    <3> QED
      BY <1>0, <2>3 DEF Knows, Promises, Copied, Addressed
  <2> QED
    BY <1>0, <1>2, <2>1, <2>2, <2>4, IdleType, IdleKnows
<1>5. CASE OpenRecipient(q)
  <2>1. PICK r \in Recipients, x \in Secrets, pc \in {"reassign", "create"} :
            Finds(q, [Idle EXCEPT !.pc = pc, !.recipient = r, !.secret = x])
    BY <1>5 DEF OpenRecipient
  <2> DEFINE t == [Idle EXCEPT !.pc = pc, !.recipient = r, !.secret = x]
  <2>2. t \in Task
    BY IdleType DEF Task, Steps
  <2>3. /\ t.pc \notin {"idle", "mail"} /\ t.log = {}
        /\ t.assigned = Idle.assigned /\ t.cache = Idle.cache
        /\ t.begun = Idle.begun
    BY DEF Idle
  <2>4. Knows(t)
    <3> HIDE DEF t
    <3> QED
      BY <1>0, <2>3, FreshKnows
  <2> QED
    BY <1>2, <2>1, <2>2, <2>4
<1>6. CASE OpenReset(q)
  <2> DEFINE t == [Idle EXCEPT !.pc = "reset",
                               !.log = {e \in db.log : e.simulated}]
  <2>1. t \in Task
    BY <1>0, IdleType DEF Task, Steps, Database, TypeInv, TypeOK
  <2>2. /\ t.pc = "reset" /\ t.log \subseteq db.log
        /\ t.assigned = Idle.assigned /\ t.cache = Idle.cache
        /\ t.begun = Idle.begun
    BY DEF Idle
  <2>3. Knows(t)
    <3> HIDE DEF t
    <3> QED
      BY <1>0, <2>2, FreshKnows DEF Rows, Logged, Backed
  <2> QED
    BY <1>2, <1>6, <2>1, <2>3 DEF OpenReset
<1>7. CASE UpdateSecret(q)
  <2>1. Finds(q, Idle) \/ \E newdb : Write(q, newdb)
    BY <1>7 DEF UpdateSecret
  <2> QED
    BY <1>0, <1>1, <1>2, <2>1, IdleType, IdleKnows
<1> QED
    BY <1>1, <1>3, <1>4, <1>5, <1>6, <1>7
    DEF Handle, CreateSecret, DeleteSecret, Reveal, Assign,
        CreateRecipient, UpdateRecipient, DeleteRecipient, Reset

LEMMA SaltsOfDelivery == DeliveryInv => SaltsAreOld
BY DEF DeliveryInv, Knows, Copied, Genuine, SaltsAreOld

LEMMA DeliveryStep == DeliveryInv /\ [Next]_vars => DeliveryInv'
<1> SUFFICES ASSUME DeliveryInv, [Next]_vars PROVE DeliveryInv'
    OBVIOUS
<1>1. TypeInv /\ TypeInv' /\ Evolution
    BY TypeStep, NextEvolution, SaltsOfDelivery DEF DeliveryInv
<1>2. CASE Crash
  <2>1. \A s \in Sessions : task'[s] = Idle
    BY <1>2 DEF Crash
  <2>2. Knows(Idle)'
    BY <1>1, IdleType, IdleKnows, KnowsStable
  <2> QED
    BY <1>1, <2>1, <2>2, RowsStep DEF DeliveryInv
<1>3. CASE UNCHANGED vars
    BY <1>1, <1>3, RowsStep, KnowsStable
    DEF DeliveryInv, vars, TypeInv, TypeOK
<1> QED
    BY <1>1, <1>2, <1>3, DeliverKnows, HandleKnows DEF Next

LEMMA InitDelivery == Init => DeliveryInv
<1> SUFFICES ASSUME Init PROVE DeliveryInv
    OBVIOUS
<1>1. TypeInv
    BY InitType
<1>2. Rows
    BY DEF Init, Rows, Genuine, Enrolled, NoSecret, NoRecipient
<1> QED
    BY <1>1, <1>2, IdleKnows DEF Init, DeliveryInv

-----------------------------------------------------------------------------
(* Stored secrets open.                                                    *)

\* Whatever creations, updates and deletions overlap, and whatever columns an
\* update brings, the ciphertext, the nonce and the tag of a stored secret
\* stem from one encryption, and the salt does too if it came with them
\* (secrets.py:58-88, 180-195, models.py:67-73).
THEOREM SecretsStayReadable == Spec => []StoredSecretsOpen
<1>1. Init => StoredSecretsOpen
    BY DEF Init, StoredSecretsOpen, Exists, NoSecret
<1>2. ASSUME DeliveryInv, StoredSecretsOpen, [Next]_vars
      PROVE  StoredSecretsOpen'
  <2>1. Evolution /\ sealed \in Nat
    BY <1>2, NextEvolution, SaltsOfDelivery, VaultAssumption
    DEF DeliveryInv, TypeInv, TypeOK, Seals
  <2>2. ASSUME NEW x \in Secrets, Exists(x)'
        PROVE  (Whole(db.secrets[x])
                /\ ("salt" \in origin[db.secrets[x].content].sent
                        => Opens(db.secrets[x])))'
    <3>1. SecretStep(x)
      BY <2>1 DEF Evolution
    <3>2. CASE db'.secrets[x] = db.secrets[x]
      <4>1. Exists(x) /\ Genuine(db.secrets[x], x)
        BY <1>2, <2>2, <3>2 DEF DeliveryInv, Rows, Exists
      <4>2. db.secrets[x].content \in 1 .. sealed
        BY <1>2, <2>1, <4>1
        DEF Exists, Genuine, DeliveryInv, TypeInv, TypeOK, Database,
            SecretRow, Seals
      <4>3. origin'[db.secrets[x].content] = origin[db.secrets[x].content]
        BY <2>1, <4>2 DEF Evolution
      <4> QED
        BY <1>2, <3>2, <4>1, <4>3 DEF StoredSecretsOpen, Whole, Opens
    <3> QED
      BY <2>2, <3>1, <3>2 DEF SecretStep, Exists
  <2> QED
    BY <2>2 DEF StoredSecretsOpen
<1>3. DeliveryInv /\ StoredSecretsOpen /\ [Next]_vars => StoredSecretsOpen'
    BY <1>2
<1> QED
    BY <1>1, <1>3, InitDelivery, DeliveryStep, PTL DEF Spec

-----------------------------------------------------------------------------
(* What a recipient gets.                                                  *)

\* The letter that a delivery hands over is about a secret it was assigned.
LEMMA LetterContent ==
    ASSUME DeliveryInv, NEW s \in Sessions, Mail(s), posted' # NoLetter
    PROVE  LET x == task[s].secret
               text == task[s].cache[x].content
           IN  /\ x \in Secrets /\ <<posted'.to, x>> \in promised
               /\ posted'.secret = x
               /\ posted'.link = 0 => posted'.text = text
               /\ text >= task[s].begun[x]
<1>1. /\ task[s] \in Task /\ OnTask(task[s]) /\ Knows(task[s])
    BY DEF DeliveryInv, TypeInv, TypeOK
<1> DEFINE x == task[s].secret
           text == task[s].cache[x].content
<1>2. x \in Secrets /\ task[s].pc = "mail"
    BY <1>1 DEF Mail, OnTask
<1>3. Copied(task[s], x) /\ Addressed(task[s])
    BY <1>1, <1>2 DEF Knows
<1>4. origin[text].secret = x /\ text >= task[s].begun[x]
    BY <1>2, <1>3 DEF Copied, Addressed, Genuine
<1>5. /\ posted'.to = task[s].recipient
      /\ posted'.secret = x
      /\ posted'.link = 0 => posted'.text = text
    BY <1>4 DEF Mail
<1> QED
    BY <1>2, <1>3, <1>4, <1>5 DEF Addressed

LEMMA PostedStep ==
    ASSUME [Next]_vars
    PROVE  \/ posted' = NoLetter
           \/ UNCHANGED <<posted, promised>>
           \/ UNCHANGED promised /\ \E s \in Sessions : Mail(s)
<1>1. ASSUME NEW q \in Requests, Handle(q)
      PROVE  posted' = NoLetter
    BY <1>1
    DEF Handle, CreateSecret, OpenSecret, UpdateSecret, CountRecipients,
        DeleteSecret, Reveal, OpenRecipient, CreateRecipient,
        UpdateRecipient, Assign, DeleteRecipient, OpenReset, Reset, Finds,
        Reads, Write
<1>2. ASSUME NEW s \in Sessions, Deliver(s) \/ Abort(s)
      PROVE  posted' = NoLetter \/ (UNCHANGED promised /\ Mail(s))
    BY <1>2
    DEF Deliver, Fire, SkipRecipient, SendText, SendLink, Mail,
        FinishDelivery, Abort, Finds, Reads
<1> QED
    BY <1>1, <1>2 DEF Next, Crash, vars

\* No recipient ever gets a secret that was never assigned to this recipient,
\* whatever is reassigned, updated or deleted while the trigger works on the
\* rows it has loaded (trigger.py:33-65, recipients.py:127-136).
THEOREM OnlyTheAssignedGetIt == Spec => []OnlyAssignedIsSent
<1>1. Init => OnlyAssignedIsSent
    BY DEF Init, OnlyAssignedIsSent
<1>2. ASSUME DeliveryInv, OnlyAssignedIsSent, [Next]_vars
      PROVE  OnlyAssignedIsSent'
  <2>1. CASE \E s \in Sessions : Mail(s) /\ posted' # NoLetter
             /\ UNCHANGED promised
    BY <1>2, <2>1, LetterContent DEF OnlyAssignedIsSent
  <2> QED
    BY <1>2, <2>1, PostedStep DEF OnlyAssignedIsSent, NoLetter
<1>3. DeliveryInv /\ OnlyAssignedIsSent /\ [Next]_vars => OnlyAssignedIsSent'
    BY <1>2
<1> QED
    BY <1>1, <1>3, InitDelivery, DeliveryStep, PTL DEF Spec

\* A trigger never mails a plaintext that was replaced before it began
\* (trigger.py:45-49).
THEOREM LettersStayCurrent == Spec => LettersAreCurrent
<1>1. ASSUME DeliveryInv, NEW s \in Jobs, Mail(s), posted' # NoLetter,
             posted'.link = 0
      PROVE  posted'.text >= task[s].begun[posted'.secret]
    BY <1>1, LetterContent DEF Sessions
<1>2. DeliveryInv /\ [Next]_vars =>
          [\A s \in Jobs : Mail(s) /\ posted' # NoLetter /\ posted'.link = 0 =>
               posted'.text >= task[s].begun[posted'.secret]]_vars
    BY <1>1
<1> QED
    BY <1>2, InitDelivery, DeliveryStep, PTL DEF Spec, LettersAreCurrent

\* A delivery that the log claims of an end-to-end encrypted secret has its
\* reveal token, also after a crash (trigger.py:67-86, 123-129).
THEOREM LoggedLinksWork == Spec => []LogHasItsToken
<1>1. DeliveryInv => LogHasItsToken
    BY DEF DeliveryInv, Rows, Logged, Backed, LogHasItsToken
<1> QED
    BY <1>1, InitDelivery, DeliveryStep, PTL DEF Spec

-----------------------------------------------------------------------------
(* Links that were mailed are kept: their reveal tokens are pending only   *)
(* in the session that holds the write lock, which nothing but a crash can *)
(* roll back.                                                              *)

Pending(s) ==
    /\ task[s].tokens # {} => writer = s /\ task[s].pc \in {"next", "mail"}
    /\ task[s].token # 0 => \E t \in task[s].tokens : t.id = task[s].token

LinkInv == TypeInv /\ LinksAreKept /\ \A s \in Sessions : Pending(s)

\* A step that only extends what the sessions and the database hold.
LEMMA LinkKept ==
    ASSUME LinkInv, TypeInv', links' \subseteq links,
           db.tokens \subseteq db'.tokens,
           \A s \in Sessions : task[s].tokens \subseteq task'[s].tokens
                                   \/ task[s].tokens \subseteq db'.tokens
    PROVE  LinksAreKept'
BY DEF LinkInv, LinksAreKept

\* A step of a session that cannot have pending tokens, or still has the same.
LEMMA LinkGoto ==
    ASSUME LinkInv, TypeInv', NEW s \in Sessions, NEW t \in Task, Goto(s, t),
           links' = links, db'.tokens = db.tokens,
           t.tokens = task[s].tokens, t.token = task[s].token,
           t.tokens # {} => t.pc \in {"next", "mail"},
           writer' = writer \/ (LockFree(s) /\ writer' = s)
    PROVE  LinkInv'
<1>0. /\ task \in [Sessions -> Task] /\ Nobody \notin Sessions
      /\ \A w \in Sessions : Pending(w)
    BY VaultAssumption DEF LinkInv, TypeInv, TypeOK
<1>1. \A w \in Sessions : task'[w] = IF w = s THEN t ELSE task[w]
    BY <1>0 DEF Goto
<1>2. \A w \in Sessions : task'[w].tokens = task[w].tokens
    BY <1>1
<1>3. ASSUME NEW w \in Sessions
      PROVE  Pending(w)'
    BY <1>0, <1>1, <1>3 DEF Pending, LockFree
<1> QED
    BY <1>2, <1>3, LinkKept DEF LinkInv

\* A session without pending tokens becomes idle, or starts afresh.
LEMMA LinkFresh ==
    ASSUME LinkInv, TypeInv', NEW s \in Sessions, NEW t \in Task, Goto(s, t),
           task[s].tokens = {}, t.tokens = {}, t.token = 0,
           UNCHANGED <<writer, links>>, db'.tokens = db.tokens
    PROVE  LinkInv'
<1>1. task[s].token = 0 \/ task[s].token # 0
    OBVIOUS
<1>2. task[s].token = 0
    BY DEF LinkInv, Pending
<1> QED
    BY <1>2, LinkGoto

LEMMA LinkDeliver ==
    ASSUME LinkInv, TypeInv', NEW s \in Sessions, Deliver(s) \/ Abort(s)
    PROVE  LinkInv'
<1>0. /\ task[s] \in Task /\ task \in [Sessions -> Task] /\ db \in Database
      /\ Pending(s) /\ Nobody \notin Sessions
      /\ Idle \in Task /\ Idle.tokens = {} /\ Idle.token = 0
    BY VaultAssumption, IdleType DEF LinkInv, TypeInv, TypeOK, Idle
<1>1. \A t : Goto(s, t) => t = task'[s] /\ t \in Task
    BY <1>0 DEF Goto, TypeInv, TypeOK
<1>2. CASE Fire(s)
  <2>1. PICK t : /\ Goto(s, t) /\ t.tokens = {} /\ t.token = 0
                 /\ UNCHANGED <<db, writer, links>>
    BY <1>2 DEF Fire, Reads, Idle
  <2>2. task[s].tokens = {}
    BY <1>0, <1>2 DEF Fire, Pending
  <2> QED
    BY <1>1, <2>1, <2>2, LinkFresh
<1>3. CASE SkipRecipient(s) \/ SendText(s)
  <2>1. PICK t : /\ Goto(s, t) /\ t.pc \in {"next", "mail"}
                 /\ t.tokens = task[s].tokens /\ t.token = task[s].token
    <3>1. CASE SkipRecipient(s)
      <4>1. PICK r \in task[s].todo :
                Goto(s, [task[s] EXCEPT !.todo = @ \ {r}, !.cache = Idle.cache,
                                        !.assigned[r] = Nobody])
        BY <3>1 DEF SkipRecipient
      <4> DEFINE t == [task[s] EXCEPT !.todo = @ \ {r}, !.cache = Idle.cache,
                                      !.assigned[r] = Nobody]
      <4>2. /\ t.pc = "next" /\ t.tokens = task[s].tokens
            /\ t.token = task[s].token
        BY <1>0, <3>1 DEF SkipRecipient, Task
      <4> QED
        BY <4>1, <4>2
    <3>2. CASE SendText(s)
      <4>1. PICK r \in task[s].todo :
                Goto(s, [task[s] EXCEPT !.pc = "mail", !.recipient = r,
                             !.secret = task[s].assigned[r],
                             !.cache = Holding(s, task[s].assigned[r])])
        BY <3>2 DEF SendText
      <4> DEFINE t == [task[s] EXCEPT !.pc = "mail", !.recipient = r,
                           !.secret = task[s].assigned[r],
                           !.cache = Holding(s, task[s].assigned[r])]
      <4>2. /\ t.pc = "mail" /\ t.tokens = task[s].tokens
            /\ t.token = task[s].token
        BY <1>0 DEF Task
      <4> QED
        BY <4>1, <4>2
    <3> QED
      BY <1>3, <3>1, <3>2
  <2>2. /\ UNCHANGED <<db, links>>
        /\ writer' = writer \/ (LockFree(s) /\ writer' = s)
    BY <1>3 DEF SkipRecipient, SendText, Autoflush, Flush
  <2> QED
    BY <1>1, <2>1, <2>2, LinkGoto
<1>4. CASE SendLink(s)
  <2>1. PICK t, new : /\ Goto(s, t) /\ t.pc = "mail"
                      /\ t.tokens = task[s].tokens \cup {new}
                      /\ t.token = new.id
    <3>1. PICK r \in task[s].todo :
              LET x == task[s].assigned[r]
                  new == [id |-> issued + 1, secret |-> x, recipient |-> r] IN
              Goto(s, [task[s] EXCEPT !.pc = "mail", !.recipient = r,
                           !.secret = x, !.token = new.id,
                           !.cache = Holding(s, x),
                           !.tokens = @ \cup {new}])
      BY <1>4 DEF SendLink
    <3> DEFINE x == task[s].assigned[r]
               new == [id |-> issued + 1, secret |-> x, recipient |-> r]
               t == [task[s] EXCEPT !.pc = "mail", !.recipient = r,
                         !.secret = x, !.token = new.id,
                         !.cache = Holding(s, x), !.tokens = @ \cup {new}]
    <3>2. /\ t.pc = "mail" /\ t.tokens = task[s].tokens \cup {new}
          /\ t.token = new.id
      BY <1>0 DEF Task
    <3> QED
      BY <3>1, <3>2
  <2>2. UNCHANGED <<db, links>> /\ LockFree(s) /\ writer' = s
    BY <1>4 DEF SendLink, FlushToken, Flush
  <2>3. \A w \in Sessions : task'[w] = IF w = s THEN t ELSE task[w]
    BY <1>0, <2>1 DEF Goto
  <2>4. ASSUME NEW w \in Sessions
        PROVE  Pending(w)'
    <3>1. CASE w = s
      BY <2>1, <2>2, <2>3, <3>1 DEF Pending
    <3>2. CASE w # s
      BY <1>0, <2>2, <2>3, <3>2 DEF LinkInv, Pending, LockFree
    <3> QED
      BY <3>1, <3>2
  <2>5. \A w \in Sessions : task[w].tokens \subseteq task'[w].tokens
    BY <2>1, <2>3
  <2> QED
    BY <2>2, <2>4, <2>5, LinkKept DEF LinkInv
<1>5. CASE Mail(s)
  <2>1. PICK t : /\ Goto(s, t) /\ t.pc = "next" /\ t.token = 0
                 /\ t.tokens = task[s].tokens
    <3> DEFINE r == task[s].recipient
               t(log) == [task[s] EXCEPT
                  !.pc = "next", !.todo = @ \ {r}, !.assigned[r] = Nobody,
                  !.token = 0, !.recipient = Nobody, !.secret = Nobody,
                  !.log = log]
    <3>1. PICK log : Goto(s, t(log))
      BY <1>5 DEF Mail
    <3>2. /\ t(log).pc = "next" /\ t(log).token = 0
          /\ t(log).tokens = task[s].tokens
      BY <1>0 DEF Task
    <3> QED
      BY <3>1, <3>2
  <2>2. /\ UNCHANGED <<db, writer>>
        /\ links' \subseteq links \cup ({task[s].token} \ {0})
    BY <1>5 DEF Mail
  <2>3. \A w \in Sessions : task'[w] = IF w = s THEN t ELSE task[w]
    BY <1>0, <2>1 DEF Goto
  <2>4. \A w \in Sessions : Pending(w)'
    BY <1>0, <2>1, <2>2, <2>3 DEF LinkInv, Pending
  <2>5. LinksAreKept'
    <3>1. \A w \in Sessions : task'[w].tokens = task[w].tokens
      BY <2>1, <2>3
    <3>2. ASSUME NEW id \in links', id \notin links
          PROVE  \E new \in task[s].tokens : new.id = id
      BY <1>0, <2>2, <3>2 DEF Pending
    <3> QED
      BY <2>2, <3>1, <3>2 DEF LinkInv, LinksAreKept
  <2> QED
    BY <2>4, <2>5 DEF LinkInv
<1>6. CASE FinishDelivery(s)
  <2>1. /\ db'.tokens = db.tokens \cup task[s].tokens
        /\ LockFree(s) /\ writer' = Nobody /\ links' = links
        /\ \A w \in Sessions : task'[w] = IF w = s THEN Idle ELSE task[w]
    BY <1>0, <1>6 DEF FinishDelivery, AfterDelivery, Goto, Stored, Database
  <2>2. ASSUME NEW w \in Sessions
        PROVE  Pending(w)'
    <3>1. CASE w = s
      BY <1>0, <2>1, <3>1 DEF Pending
    <3>2. CASE w # s
      BY <1>0, <2>1, <3>2 DEF LinkInv, Pending, LockFree
    <3> QED
      BY <3>1, <3>2
  <2>3. \A w \in Sessions : task[w].tokens \subseteq task'[w].tokens
                                \/ task[w].tokens \subseteq db'.tokens
    BY <2>1
  <2> QED
    BY <2>1, <2>2, <2>3, LinkKept DEF LinkInv
<1>7. CASE Abort(s)
  <2>1. Goto(s, Idle) /\ UNCHANGED <<db, writer, links>>
    BY <1>7 DEF Abort, Finds, Reads
  <2>2. task[s].tokens = {}
    BY <1>0, <1>7 DEF Abort, Gone, LockFree, Pending
  <2> QED
    BY <1>0, <2>1, <2>2, LinkFresh
<1> QED
    BY <1>2, <1>3, <1>4, <1>5, <1>6, <1>7 DEF Deliver

LEMMA LinkHandle ==
    ASSUME LinkInv, TypeInv', NEW q \in Requests, Handle(q)
    PROVE  LinkInv'
<1>0. /\ q \in Sessions /\ task[q] \in Task /\ task \in [Sessions -> Task]
      /\ db \in Database /\ Pending(q) /\ Nobody \notin Sessions
      /\ Idle \in Task /\ Idle.tokens = {} /\ Idle.token = 0
    BY VaultAssumption, IdleType DEF LinkInv, TypeInv, TypeOK, Idle, Sessions
<1>1. \A t : Goto(q, t) => t = task'[q] /\ t \in Task
    BY <1>0 DEF Goto, TypeInv, TypeOK
<1>2. ASSUME NEW newdb, Write(q, newdb), newdb.tokens = db.tokens
      PROVE  LinkInv'
  <2>1. task[q].tokens = {}
    BY <1>0, <1>2 DEF Write, Pending
  <2> QED
    BY <1>0, <1>2, <2>1, LinkFresh DEF Write
<1>3. ASSUME NEW t, Finds(q, t), t.tokens = {}, t.token = 0,
             task[q].pc \notin {"next", "mail"}
      PROVE  LinkInv'
  <2>1. task[q].tokens = {}
    BY <1>0, <1>3 DEF Pending
  <2> QED
    BY <1>0, <1>1, <1>3, <2>1, LinkFresh DEF Finds, Reads
<1>4. CASE OpenSecret(q) \/ OpenRecipient(q) \/ OpenReset(q)
  <2>1. PICK t : Finds(q, t) /\ t.tokens = {} /\ t.token = 0
    <3>1. CASE OpenSecret(q)
      <4>1. PICK pc, x, cache :
                Finds(q, [Idle EXCEPT !.pc = pc, !.secret = x, !.cache = cache])
        BY <3>1, OpenedSecret DEF LinkInv, TypeInv
      <4> DEFINE t == [Idle EXCEPT !.pc = pc, !.secret = x, !.cache = cache]
      <4>2. t.tokens = {} /\ t.token = 0
        BY DEF Idle
      <4> QED
        BY <4>1, <4>2
    <3>2. CASE OpenRecipient(q)
      <4>1. PICK pc, r, x :
                Finds(q, [Idle EXCEPT !.pc = pc, !.recipient = r, !.secret = x])
        BY <3>2 DEF OpenRecipient
      <4> DEFINE t == [Idle EXCEPT !.pc = pc, !.recipient = r, !.secret = x]
      <4>2. t.tokens = {} /\ t.token = 0
        BY DEF Idle
      <4> QED
        BY <4>1, <4>2
    <3>3. CASE OpenReset(q)
      <4> DEFINE t == [Idle EXCEPT !.pc = "reset",
                                   !.log = {e \in db.log : e.simulated}]
      <4>1. t.tokens = {} /\ t.token = 0
        BY DEF Idle
      <4> QED
        BY <3>3, <4>1 DEF OpenReset
    <3> QED
      BY <1>4, <3>1, <3>2, <3>3
  <2> QED
    BY <1>3, <1>4, <2>1 DEF OpenSecret, OpenRecipient, OpenReset
<1>5. CASE CountRecipients(q)
  <2> DEFINE t == [task[q] EXCEPT !.pc =
                             IF @ = "count" THEN "children" ELSE "delete"]
  <2>1. Finds(q, Idle) \/ Finds(q, t)
    BY <1>5 DEF CountRecipients
  <2>2. task[q].tokens = {} /\ task[q].token = 0
    BY <1>0, <1>5 DEF CountRecipients, Pending
  <2>3. t.tokens = {} /\ t.token = 0
    BY <1>0, <2>2 DEF Task
  <2> QED
    BY <1>0, <1>3, <1>5, <2>1, <2>3 DEF CountRecipients
<1>6. CASE UpdateSecret(q)
  <2> DEFINE x == task[q].secret
  <2>1. \/ Finds(q, Idle)
        \/ \E row : Write(q, [db EXCEPT !.secrets[x] = row])
    BY <1>6 DEF UpdateSecret
  <2>2. \A row : [db EXCEPT !.secrets[x] = row].tokens = db.tokens
    BY <1>0 DEF Database
  <2> QED
    BY <1>0, <1>2, <1>3, <1>6, <2>1, <2>2 DEF UpdateSecret
<1>7. CASE CreateSecret(q) \/ DeleteSecret(q)
  <2>1. \E x, row : Write(q, [db EXCEPT !.secrets[x] = row])
    BY <1>7 DEF CreateSecret, DeleteSecret
  <2>2. \A x, row : [db EXCEPT !.secrets[x] = row].tokens = db.tokens
    BY <1>0 DEF Database
  <2> QED
    BY <1>2, <2>1, <2>2
<1>8. CASE CreateRecipient(q) \/ UpdateRecipient(q) \/ DeleteRecipient(q)
  <2>1. \E r, row : Write(q, [db EXCEPT !.recipients[r] = row])
    BY <1>8 DEF CreateRecipient, UpdateRecipient, DeleteRecipient, Assign
  <2>2. \A r, row : [db EXCEPT !.recipients[r] = row].tokens = db.tokens
    BY <1>0 DEF Database
  <2> QED
    BY <1>2, <2>1, <2>2
<1>9. CASE Reveal(q) \/ Reset(q)
  <2>1. \/ \E ids : Write(q, [db EXCEPT !.accessed = ids])
        \/ \E log : Write(q, [db EXCEPT !.log = log])
    BY <1>9 DEF Reveal, Reset
  <2>2. /\ \A ids : [db EXCEPT !.accessed = ids].tokens = db.tokens
        /\ \A log : [db EXCEPT !.log = log].tokens = db.tokens
    BY <1>0 DEF Database
  <2> QED
    BY <1>2, <2>1, <2>2
<1> QED
    BY <1>4, <1>5, <1>6, <1>7, <1>8, <1>9 DEF Handle

\* The link in an email that was accepted leads to a token that is stored, or
\* that the session which holds the write lock will store: no lock timeout and
\* no other session makes it a dead link; only a crash before the commit does
\* (trigger.py:53-81, 161).
THEOREM MailedLinksAreKept == Spec => []LinksAreKept
<1>1. Init => LinkInv
  <2>1. Init => LinksAreKept /\ \A s \in Sessions : Pending(s)
    BY DEF Init, LinksAreKept, Pending, Idle
  <2> QED
    BY <2>1, InitType DEF LinkInv
<1>2. LinkInv /\ [Next]_vars => LinkInv'
  <2> SUFFICES ASSUME LinkInv, [Next]_vars PROVE LinkInv'
    OBVIOUS
  <2>1. TypeInv'
    BY TypeStep DEF LinkInv
  <2>2. CASE Crash
    BY <2>1, <2>2 DEF LinkInv, LinksAreKept, Crash, Pending, Idle
  <2>3. CASE UNCHANGED vars
    BY <2>1, <2>3 DEF LinkInv, LinksAreKept, Pending, vars
  <2> QED
    BY <2>1, <2>2, <2>3, LinkDeliver, LinkHandle DEF Next
<1>3. LinkInv => LinksAreKept
    BY DEF LinkInv
<1> QED
    BY <1>1, <1>2, <1>3, PTL DEF Spec

=============================================================================
