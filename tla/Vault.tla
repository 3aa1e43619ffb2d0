------------------------------- MODULE Vault --------------------------------
(***************************************************************************)
(* Secrets, their recipients, and how a trigger hands them over:           *)
(* app/api/secrets.py, app/api/recipients.py, app/services/trigger.py,     *)
(* step 4 and the reset of app/api/simulate.py, and the encryption they    *)
(* rest on (app/services/vault.py, app/static/js/e2e.js).  These are the   *)
(* rows of one user: every query on them selects by the user's id.         *)
(*                                                                         *)
(* A step is what runs between two awaits.  A SELECT reads what is         *)
(* committed; one session at a time holds SQLite's write lock.  A request  *)
(* that writes does so right before it commits, so that its writes are one *)
(* step; a delivery holds its writes, and the lock, over the emails.  When *)
(* the trigger fires is the business of CheckIn: here it may fire at any   *)
(* time.  A plaintext is named by the number of its encryption.            *)
(***************************************************************************)
EXTENDS Integers, FiniteSets

CONSTANTS
    Secrets, Recipients,
    Jobs,             \* the passes that may fire a trigger
    Requests,         \* HTTP requests that may be in progress at a time
    Nobody,
    MaxSeals,         \* bound on the encryptions
    MaxTokens,        \* bound on the reveal tokens
    MaxDeliveries     \* bound on the triggers and simulations

Sessions == Jobs \cup Requests

ASSUME VaultAssumption ==
    /\ Jobs \cap Requests = {}
    /\ Nobody \notin Secrets \cup Recipients \cup Sessions
    /\ MaxSeals \in Nat /\ MaxTokens \in Nat /\ MaxDeliveries \in Nat

Presence == {"absent", "live", "deleted"}
Types    == {"server", "e2e"}
Seals    == 0 .. MaxSeals
Ids      == 0 .. MaxTokens

Columns == {"nonce", "tag", "salt"}

\* The columns an encryption fills, each with the number of the encryption.
SecretRow    == [state: Presence, type: Types, content: Seals, nonce: Seals,
                 tag: Seals, salt: Seals]
RecipientRow == [state: {"live"}, secret: Secrets]
                    \cup [state: Presence \ {"live"}, secret: {Nobody}]
RevealToken  == [id: Ids, secret: Secrets, recipient: Recipients]
TriggerLog   == [simulated: BOOLEAN, recipient: Recipients, secret: Secrets]

Origin == [secret: Secrets \cup {Nobody}, sent: SUBSET Columns]

Database == [secrets: [Secrets -> SecretRow],
             recipients: [Recipients -> RecipientRow],
             tokens: SUBSET RevealToken,
             accessed: SUBSET Ids,
             log: SUBSET TriggerLog]

NoSecret    == [state |-> "absent", type |-> "server", content |-> 0,
                nonce |-> 0, tag |-> 0, salt |-> 0]
NoRecipient == [state |-> "absent", secret |-> Nobody]

Steps == {"idle", "next", "mail", "update", "count", "children", "delete",
          "create", "reassign", "reset"}

Task == [pc: Steps,
         secret: Secrets \cup {Nobody}, recipient: Recipients \cup {Nobody},
         todo: SUBSET Recipients,
         assigned: [Recipients -> Secrets \cup {Nobody}],  \* as loaded
         cache: [Secrets -> SecretRow],                    \* as loaded
         begun: [Secrets -> Seals],          \* the contents when it began
         token: Ids, tokens: SUBSET RevealToken, log: SUBSET TriggerLog]

Idle == [pc |-> "idle", secret |-> Nobody, recipient |-> Nobody, todo |-> {},
         assigned |-> [r \in Recipients |-> Nobody],
         cache |-> [x \in Secrets |-> NoSecret],
         begun |-> [x \in Secrets |-> 0],
         token |-> 0, tokens |-> {}, log |-> {}]

Letter   == [to: Recipients \cup {Nobody}, secret: Secrets \cup {Nobody},
             text: Seals, link: Ids]
NoLetter == [to |-> Nobody, secret |-> Nobody, text |-> 0, link |-> 0]

VARIABLES
    db,        \* the committed database
    writer,    \* the session holding SQLite's write lock
    task,      \* what each session is doing, and its uncommitted rows
    sealed,    \* how many encryptions were made
    issued,    \* how many reveal tokens were made
    fired,     \* how many triggers and simulations were started
    origin,    \* the secret of each encryption, and the columns that came with it
    posted,    \* the letter to a recipient accepted in the last step
    links,     \* the links in emails accepted since the process started
    promised   \* every assignment of a secret that was ever committed

vars == <<db, writer, task, sealed, issued, fired, origin, posted, links,
          promised>>

Init ==
    /\ db = [secrets    |-> [x \in Secrets |-> NoSecret],
             recipients |-> [r \in Recipients |-> NoRecipient],
             tokens |-> {}, accessed |-> {}, log |-> {}]
    /\ writer = Nobody
    /\ task = [s \in Sessions |-> Idle]
    /\ sealed = 0 /\ issued = 0 /\ fired = 0
    /\ origin = [n \in Seals |-> [secret |-> Nobody, sent |-> {}]]
    /\ posted = NoLetter
    /\ links = {}
    /\ promised = {}

-----------------------------------------------------------------------------
(* Encryption.                                                             *)

Sealed(type, n) ==
    [state |-> "live", type |-> type, content |-> n, nonce |-> n, tag |-> n,
     salt |-> IF type = "e2e" THEN n ELSE 0]

\* What a new secret brings besides the ciphertext.
Required(type) == IF type = "e2e" THEN Columns ELSE {"nonce", "tag"}

\* What an update brings: the server computes a nonce and a tag, a client sends
\* what it likes.
Sent(type) == IF type = "e2e" THEN SUBSET Columns ELSE {Required(type)}

\* A column that was not sent is NULL; nonce and tag are declared NOT NULL.
Storable(sent) == {"nonce", "tag"} \subseteq sent

Resealed_KeepSalt(row, loaded, n, sent) ==
    [row EXCEPT !.content = n, !.nonce = n, !.tag = n]

\* An UPDATE sets the columns that differ from the row as it was loaded; the
\* ciphertext, the nonce and the tag always do.
Resealed(row, loaded, n, sent) ==
    LET salt == IF "salt" \in sent THEN n ELSE 0 IN
    [row EXCEPT !.content = n,
                !.nonce   = IF "nonce" \in sent THEN n ELSE 0,
                !.tag     = IF "tag" \in sent THEN n ELSE 0,
                !.salt    = IF salt = loaded.salt THEN @ ELSE salt]

\* GCM verifies the tag; the key of an e2e secret is derived with the salt.
Whole(row) == row.nonce = row.content /\ row.tag = row.content

Opens(row) ==
    /\ Whole(row)
    /\ row.type = "e2e" => row.salt = row.content

-----------------------------------------------------------------------------
(* Sessions.                                                               *)

Goto(s, t) == task' = [task EXCEPT ![s] = t]

LockFree(s) == writer \in {Nobody, s}

\* The first row a session flushes takes the write lock until the commit.
Flush(s) == LockFree(s) /\ writer' = s

\* A pending row is flushed by the next SELECT of the session.
Autoflush(s) == IF task[s].log = {} THEN UNCHANGED writer ELSE Flush(s)

FlushToken_Later(s) == Autoflush(s)

FlushToken(s) == Flush(s)

\* What a request writes, and its commit.
Write(q, newdb) ==
    /\ writer = Nobody
    /\ db' = newdb
    /\ Goto(q, Idle)
    /\ posted' = NoLetter
    /\ UNCHANGED <<writer, issued, fired, links>>

Reads(s, t) ==
    /\ Goto(s, t)
    /\ posted' = NoLetter
    /\ UNCHANGED <<db, writer, sealed, issued, origin, links, promised>>

Finds(s, t) == Reads(s, t) /\ UNCHANGED fired

Exists(x)   == db.secrets[x].state = "live"
Enrolled(r) == db.recipients[r].state = "live"

AssignedTo(x) == {r \in Recipients : Enrolled(r) /\ db.recipients[r].secret = x}

-----------------------------------------------------------------------------
(* Secrets.                                                                *)

Encrypt(x, sent) ==
    /\ sealed < MaxSeals
    /\ sealed' = sealed + 1
    /\ origin' = [origin EXCEPT ![sealed'] = [secret |-> x, sent |-> sent]]

CreateSecret(q) ==
    /\ task[q].pc = "idle"
    /\ \E x \in Secrets, type \in Types :
           /\ db.secrets[x].state = "absent"
           /\ Encrypt(x, Required(type))
           /\ Write(q, [db EXCEPT !.secrets[x] = Sealed(type, sealed')])
    /\ UNCHANGED promised

OpenSecret(q) ==
    /\ task[q].pc = "idle"
    /\ \E x \in Secrets :
           /\ Exists(x)
           /\ \/ Finds(q, [Idle EXCEPT !.pc = "update", !.secret = x,
                                       !.cache[x] = db.secrets[x]])
              \/ Finds(q, [Idle EXCEPT !.pc = "count", !.secret = x])

\* An update that the database does not store fails and is rolled back.
UpdateSecret(q) ==
    LET x == task[q].secret
        loaded == task[q].cache[x] IN
    /\ task[q].pc = "update" /\ Exists(x)
    /\ \E sent \in Sent(loaded.type) :
           \/ /\ Storable(sent)
              /\ Encrypt(x, sent)
              /\ Write(q, [db EXCEPT !.secrets[x] =
                               Resealed(@, loaded, sealed', sent)])
              /\ UNCHANGED promised
           \/ ~Storable(sent) /\ Finds(q, Idle)

\* Counted once by the endpoint and once by the unit of work, which would
\* set the secret of a recipient it finds to NULL and fail.
CountRecipients(q) ==
    /\ task[q].pc \in {"count", "children"}
    /\ Finds(q, IF AssignedTo(task[q].secret) # {} THEN Idle
                ELSE [task[q] EXCEPT !.pc = IF @ = "count" THEN "children"
                                                           ELSE "delete"])

DeleteSecret(q) ==
    /\ task[q].pc = "delete"
    /\ Write(q, [db EXCEPT !.secrets[task[q].secret] =
                     [NoSecret EXCEPT !.state = "deleted"]])
    /\ UNCHANGED <<sealed, origin, promised>>

\* Opening a link marks it; the page decrypts what the row holds by now.
Reveal(q) ==
    /\ task[q].pc = "idle"
    /\ \E t \in db.tokens :
           /\ Exists(t.secret) /\ t.id \notin db.accessed
           /\ Write(q, [db EXCEPT !.accessed = @ \cup {t.id}])
    /\ UNCHANGED <<sealed, origin, promised>>

-----------------------------------------------------------------------------
(* Recipients.                                                             *)

\* The id of a new recipient is one that nothing has.
Unused(r) == /\ db.recipients[r].state = "absent"
             /\ \A q \in Requests : task[q].recipient # r

OpenRecipient(q) ==
    /\ task[q].pc = "idle"
    /\ \E r \in Recipients, x \in Secrets :
           /\ Enrolled(r) \/ Unused(r)
           /\ Exists(x)
           /\ Finds(q, [Idle EXCEPT !.pc = IF Enrolled(r) THEN "reassign"
                                                          ELSE "create",
                                    !.recipient = r, !.secret = x])

Assign(q, r, x) ==
    /\ Write(q, [db EXCEPT !.recipients[r] =
                     [state |-> "live", secret |-> x]])
    /\ promised' = promised \cup {<<r, x>>}
    /\ UNCHANGED <<sealed, origin>>

CreateRecipient(q) ==
    LET r == task[q].recipient IN
    /\ task[q].pc = "create"
    /\ Assign(q, r, task[q].secret)

UpdateRecipient(q) ==
    LET r == task[q].recipient IN
    /\ task[q].pc = "reassign" /\ Enrolled(r)
    /\ Assign(q, r, task[q].secret)

Removed_KeepSecret(row) == [row EXCEPT !.state = "deleted"]

Removed(row) == [NoRecipient EXCEPT !.state = "deleted"]

DeleteRecipient(q) ==
    /\ task[q].pc = "idle"
    /\ \E r \in Recipients :
           /\ Enrolled(r)
           /\ Write(q, [db EXCEPT !.recipients[r] = Removed(@)])
    /\ UNCHANGED <<sealed, origin, promised>>

-----------------------------------------------------------------------------
(* Delivery: the trigger, and step 4 of the simulation, which sends the    *)
(* same emails to the owner or a test address and logs them all.           *)

Simulates(s) == s \in Requests

Fire(s) ==
    /\ task[s].pc = "idle" /\ fired < MaxDeliveries
    /\ \E r \in Recipients : Enrolled(r)
    /\ fired' = fired + 1
    /\ Reads(s, [Idle EXCEPT
           !.pc = "next", !.todo = {r \in Recipients : Enrolled(r)},
           !.assigned = [r \in Recipients |-> db.recipients[r].secret],
           !.cache = task[s].cache,
           !.begun = [x \in Secrets |->
                         IF Simulates(s) \/ AssignedTo(x) = {} THEN 0
                         ELSE db.secrets[x].content]])

Loaded_Once(s, x) ==
    LET loaded == {y \in Secrets : task[s].cache[y] # NoSecret} IN
    IF loaded # {} THEN task[s].cache[CHOOSE y \in loaded : TRUE]
                   ELSE db.secrets[x]

\* The columns of the row that the session still holds are not read again.
Loaded(s, x) ==
    IF Exists(x) /\ task[s].cache[x] # NoSecret THEN task[s].cache[x]
                                                ELSE db.secrets[x]

\* The session holds on to the secret of the current recipient only.
Holding(s, x) == [Idle.cache EXCEPT ![x] = Loaded(s, x)]

\* A recipient whose secret is gone gets nothing.
SkipRecipient(s) ==
    /\ task[s].pc = "next"
    /\ \E r \in task[s].todo :
           /\ Loaded(s, task[s].assigned[r]).state # "live"
           /\ Goto(s, [task[s] EXCEPT !.todo = @ \ {r}, !.cache = Idle.cache,
                                      !.assigned[r] = Nobody])
    /\ Autoflush(s)
    /\ posted' = NoLetter
    /\ UNCHANGED <<db, sealed, issued, fired, origin, links, promised>>

Selects(s, r, type) ==
    /\ task[s].pc = "next" /\ r \in task[s].todo
    /\ Loaded(s, task[s].assigned[r]).state = "live"
    /\ Loaded(s, task[s].assigned[r]).type = type

\* The email with the plaintext of a server-encrypted secret is on its way.
SendText(s) ==
    /\ \E r \in task[s].todo :
           LET x == task[s].assigned[r] IN
           /\ Selects(s, r, "server")
           /\ Goto(s, [task[s] EXCEPT !.pc = "mail", !.recipient = r,
                                      !.secret = x,
                                      !.cache = Holding(s, x)])
    /\ Autoflush(s)
    /\ posted' = NoLetter
    /\ UNCHANGED <<db, sealed, issued, fired, origin, links, promised>>

\* The reveal token of an e2e secret is flushed; the email with its link is
\* on its way.
SendLink(s) ==
    /\ issued < MaxTokens
    /\ FlushToken(s)
    /\ \E r \in task[s].todo :
           LET x == task[s].assigned[r]
               t == [id |-> issued + 1, secret |-> x, recipient |-> r] IN
           /\ Selects(s, r, "e2e")
           /\ Goto(s, [task[s] EXCEPT !.pc = "mail", !.recipient = r,
                                      !.secret = x, !.token = t.id,
                                      !.cache = Holding(s, x),
                                      !.tokens = @ \cup {t}])
    /\ issued' = issued + 1
    /\ posted' = NoLetter
    /\ UNCHANGED <<db, sealed, fired, origin, links, promised>>

\* The mail service accepts the email or not; its answer may come too late,
\* and then the email counts as not sent.
Mail(s) ==
    LET r == task[s].recipient
        x == task[s].secret
        text == task[s].cache[x].content
        letter == IF task[s].token = 0
                  THEN [to |-> r, secret |-> origin[text].secret, text |-> text,
                        link |-> 0]
                  ELSE [to |-> r, secret |-> x, text |-> 0,
                        link |-> task[s].token]
        entry == [simulated |-> Simulates(s), recipient |-> r, secret |-> x]
    IN
    /\ task[s].pc = "mail"
    /\ \E accepted, answered \in BOOLEAN :
           /\ answered => accepted
           /\ links' = IF accepted THEN links \cup ({task[s].token} \ {0})
                                   ELSE links
           /\ posted' = IF accepted /\ ~Simulates(s) THEN letter
                                                   ELSE NoLetter
           /\ Goto(s, [task[s] EXCEPT
                  !.pc = "next", !.todo = @ \ {r}, !.assigned[r] = Nobody,
                  !.token = 0, !.recipient = Nobody, !.secret = Nobody,
                  !.log = IF answered \/ Simulates(s) THEN @ \cup {entry}
                                                      ELSE @])
    /\ UNCHANGED <<db, writer, sealed, issued, fired, origin, promised>>

Stored_LogOnly(s) == [db EXCEPT !.log = @ \cup task[s].log]

Stored(s) == [db EXCEPT !.tokens = @ \cup task[s].tokens,
                        !.log = @ \cup task[s].log]

AfterDelivery_KeepSession(s) == [Idle EXCEPT !.cache = task[s].cache]

AfterDelivery(s) == Idle

FinishDelivery(s) ==
    /\ task[s].pc = "next" /\ task[s].todo = {}
    /\ LockFree(s)
    /\ db' = Stored(s)
    /\ writer' = Nobody
    /\ Goto(s, AfterDelivery(s))
    /\ posted' = NoLetter
    /\ UNCHANGED <<sealed, issued, fired, origin, links, promised>>

\* Forgetting a simulation: its log is deleted, its reveal tokens stay.
OpenReset(q) ==
    /\ task[q].pc = "idle"
    /\ Finds(q, [Idle EXCEPT !.pc = "reset",
                             !.log = {e \in db.log : e.simulated}])

Reset(q) ==
    /\ task[q].pc = "reset"
    /\ Write(q, [db EXCEPT !.log = @ \ task[q].log])
    /\ UNCHANGED <<sealed, origin, promised>>

-----------------------------------------------------------------------------
(* Failures.                                                               *)

Gone(s) ==
    \/ task[s].pc = "update" /\ ~Exists(task[s].secret)
    \/ task[s].pc = "reassign" /\ ~Enrolled(task[s].recipient)

\* A session that waits for the lock too long, or updates a row that is gone,
\* fails and is rolled back.
Abort(s) ==
    /\ \/ ~LockFree(s) /\ task[s].pc \notin {"idle", "mail"}
       \/ Gone(s)
    /\ Finds(s, Idle)

\* The process dies; what was not committed is lost, but not the emails.
Crash ==
    /\ \E s \in Sessions : task[s].pc # "idle"
    /\ task' = [s \in Sessions |-> Idle]
    /\ writer' = Nobody
    /\ posted' = NoLetter
    /\ links' = {}
    /\ UNCHANGED <<db, sealed, issued, fired, origin, promised>>

-----------------------------------------------------------------------------
Deliver(s) == \/ Fire(s)         \/ SkipRecipient(s) \/ SendText(s)
              \/ SendLink(s)     \/ Mail(s)          \/ FinishDelivery(s)

Handle(q)  == \/ CreateSecret(q)    \/ OpenSecret(q)      \/ UpdateSecret(q)
              \/ CountRecipients(q) \/ DeleteSecret(q)    \/ Reveal(q)
              \/ OpenRecipient(q)   \/ CreateRecipient(q) \/ UpdateRecipient(q)
              \/ DeleteRecipient(q) \/ OpenReset(q)       \/ Reset(q)

Next == \/ \E s \in Sessions : Deliver(s) \/ Abort(s)
        \/ \E q \in Requests : Handle(q)
        \/ Crash

Spec == Init /\ [][Next]_vars

-----------------------------------------------------------------------------
TypeOK ==
    /\ db \in Database
    /\ writer \in Sessions \cup {Nobody}
    /\ task \in [Sessions -> Task]
    /\ sealed \in Seals /\ issued \in Ids
    /\ fired \in 0 .. MaxDeliveries
    /\ origin \in [Seals -> Origin]
    /\ posted \in Letter
    /\ links \subseteq Ids
    /\ promised \subseteq Recipients \X Secrets

\* No letter reaches a recipient with a secret that was never assigned to this
\* recipient, whatever was reassigned or deleted while the trigger
\* worked on the rows it had loaded (trigger.py:33-65, recipients.py:127-136).
OnlyAssignedIsSent ==
    posted # NoLetter => <<posted.to, posted.secret>> \in promised

\* A logged delivery of an end-to-end encrypted secret has a reveal token in
\* the same database: the two rows of a delivery become visible together,
\* also when the process dies between its emails (trigger.py:67-86, 123-129).
LogHasItsToken ==
    \A e \in db.log :
        db.secrets[e.secret].type = "e2e" /\ Exists(e.secret) =>
            \E t \in db.tokens : t.secret = e.secret /\ t.recipient = e.recipient

\* Whatever updates overlap and whatever columns they bring, the ciphertext,
\* the nonce and the tag of a stored secret stem from one encryption; and if
\* the salt came with them, the secret opens, although the salt is written
\* only where it differs from the one loaded (secrets.py:58-88, 180-195).
StoredSecretsOpen ==
    \A x \in Secrets : Exists(x) =>
        LET row == db.secrets[x] IN
        /\ Whole(row)
        /\ "salt" \in origin[row.content].sent => Opens(row)

\* The link in an email works: its reveal token is stored, or in a session
\* that can still commit because it holds the write lock, until the process
\* dies (trigger.py:53-81, 161; database.py:27-34).
LinksAreKept ==
    \A id \in links :
        \/ \E t \in db.tokens : t.id = id
        \/ \E s \in Sessions : \E t \in task[s].tokens : t.id = id

\* A trigger never mails a plaintext that had been replaced before it began,
\* although it does not read a loaded secret again (trigger.py:45-49).
LettersAreCurrent ==
    [][\A s \in Jobs : Mail(s) /\ posted' # NoLetter /\ posted'.link = 0 =>
           posted'.text >= task[s].begun[posted'.secret]]_vars

=============================================================================
