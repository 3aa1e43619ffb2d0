------------------------------- MODULE Pages --------------------------------
(***************************************************************************)
(* The pages of app/api/web.py in one browser: its tabs, which share a     *)
(* cookie, the scripts of the pages and their calls of the API, and what   *)
(* the server answers (app/services/auth.py, app/api/auth.py, secrets.py,  *)
(* recipients.py).                                                         *)
(*                                                                         *)
(* A call is sent, served and answered in three steps, and other calls,    *)
(* tabs and accounts come in between; the network may lose a call or its   *)
(* answer.  Serving is one step, and is committed when the answer is sent: *)
(* what requests do to each other inside the server is in Vault and in     *)
(* CheckIn.  Texts, alerts and inputs that the scripts refuse are left     *)
(* out.                                                                    *)
(***************************************************************************)
EXTENDS Integers, FiniteSets

CONSTANTS
    Accounts,
    Secrets, Recipients,      \* ids of the rows that may be inserted
    Tabs,
    Calls,                    \* calls of the API that may be under way
    Nobody,
    Visitor,                  \* the account that is signed in at first,
    Early,                    \* tabs that were opened before,
    HolderOf,                 \* and the account whose a row may be by then
    MaxActs                   \* bound on what the user does, and on expiries

Rows == Secrets \cup Recipients

ASSUME PagesAssumption ==
    /\ Nobody \notin Accounts \cup Tabs \cup Rows /\ Visitor \in Accounts
    /\ Secrets \cap Recipients = {}
    /\ IsFiniteSet(Secrets) /\ IsFiniteSet(Calls)
    /\ Early \subseteq Tabs /\ HolderOf \in [Rows -> Accounts]
    /\ MaxActs \in Nat

\* "dashboard" stands for the settings and simulation pages as well, which
\* redirect in the same way and list no rows.
Page == {"login", "register", "dashboard", "secrets", "recipients",
         "onboarding"}
Outside == {"login", "register"}
Listing == {"secrets", "recipients", "onboarding"}
Url  == Page \cup {"/"}
Card == {"secret", "recipient", "other"}    \* steps 3, 4 and 1, 2, 5

Kind == {"login", "register", "logout", "add secret", "delete secret",
         "list secrets", "add recipient", "delete recipient", "step", "test"}
Deletions == {"delete secret", "delete recipient"}

Cookie     == [account : Accounts \cup {Nobody}, httponly : BOOLEAN,
               valid : BOOLEAN]
Session(a) == [account |-> a, httponly |-> TRUE, valid |-> TRUE]
NoCookie   == [account |-> Nobody, httponly |-> FALSE, valid |-> FALSE]

\* Of a row, owner stays when it is deleted: ids are not used again.
Database == [users : SUBSET Accounts, stored : SUBSET Rows,
             owner : [Rows -> Accounts \cup {Nobody}],
             secretOf : [Recipients -> Secrets \cup {Nobody}]]

\* rows, options: of its table and of its dropdown, an option as often as it is
\* there.  removed: rows its script took out of the table.  counted: what the
\* wizard says it has stored.  busy: calls whose button is disabled.
Tab == [page : Page, going : Url \cup {"nowhere"}, reload : BOOLEAN,
        rows : SUBSET Rows, removed : SUBSET Rows,
        options : [Secrets -> Nat], card : Card, counted : Nat,
        busy : SUBSET Kind, deleting : BOOLEAN]

\* sender: the account of the cookie it was sent with.  row, secret, account:
\* its arguments.  list: the rows in the answer.
Call == [stage : {"sent", "ok", "failed"}, kind : Kind,
         tab : Tabs \cup {Nobody}, sender : Accounts \cup {Nobody},
         row : Rows \cup {Nobody}, secret : Secrets \cup {Nobody},
         account : Accounts \cup {Nobody}, list : SUBSET Secrets]
NoCall == [stage |-> "none"]

VARIABLES db, cookie, tab, call, acts

vars == <<db, cookie, tab, call, acts>>

TypeOK ==
    /\ db \in Database
    /\ cookie \in Cookie
    /\ \A t \in Tabs : tab[t] \in Tab
    /\ \A c \in Calls : call[c] \in Call \cup {NoCall}
    /\ acts \in 0 .. MaxActs

NoOptions == [s \in Secrets |-> 0]
Once(S)   == [s \in Secrets |-> IF s \in S THEN 1 ELSE 0]

Fresh(page) ==
    [page |-> page, going |-> "nowhere", reload |-> FALSE, rows |-> {},
     removed |-> {}, options |-> NoOptions, card |-> "other", counted |-> 0,
     busy |-> {}, deleting |-> FALSE]

-----------------------------------------------------------------------------
(* Pages: every GET is answered for the account of the cookie.             *)

\* An expired token is no token; the cookie is dropped a little later.
User(k) == IF k.valid THEN k.account ELSE Nobody

Own(d, a, S) == {r \in S \cap d.stored : d.owner[r] = a}

SetUp(d, a) == Own(d, a, Secrets) # {} /\ Own(d, a, Recipients) # {}

\* Mutant: "/" leads to a page that is not there.
Redirect_Home(d, k, url) ==
    IF url = "/" /\ User(k) # Nobody THEN "home" ELSE "nowhere"

\* Mutant: who has a cookie at all need not sign in.
Redirect_AnyCookie(d, k, url) ==
    CASE url \in {"/", "login", "register"} ->
           IF k = NoCookie THEN "nowhere" ELSE "dashboard"
      [] OTHER -> IF User(k) = Nobody THEN "login" ELSE "nowhere"

Redirect(d, k, url) ==
    IF User(k) = Nobody
    THEN IF url \in {"/", "login", "register"} THEN "nowhere" ELSE "login"
    ELSE CASE url = "/" ->
                IF SetUp(d, User(k)) THEN "dashboard" ELSE "onboarding"
           [] url \in {"login", "register"} -> "dashboard"
           [] OTHER -> "nowhere"

Rendered(d, a, url) ==
    LET page == IF url = "/" THEN "login" ELSE url
        own  == Own(d, a, Secrets)
    IN  [Fresh(page) EXCEPT
            !.rows    = CASE page = "secrets"    -> own
                          [] page = "recipients" -> Own(d, a, Recipients)
                          [] OTHER               -> {},
            !.options = IF page = "recipients" THEN Once(own) ELSE @,
            !.counted = IF page = "onboarding" THEN Cardinality(own) ELSE @]

\* The visitor has signed in.  A tab shows what the visitor has stored, or a
\* page that was opened before.
Init ==
    /\ db \in {d \in Database :
                 /\ \A r \in Rows : d.owner[r] \in {HolderOf[r], Nobody}
                 /\ d.stored = {r \in Rows : d.owner[r] # Nobody}
                 /\ d.users = {Visitor} \cup {d.owner[r] : r \in d.stored}
                 /\ \A r \in Recipients :
                       IF r \in d.stored
                       THEN d.secretOf[r] \in Own(d, d.owner[r], Secrets)
                       ELSE d.secretOf[r] = Nobody}
    /\ cookie = Session(Visitor)
    /\ tab \in [Tabs -> {Fresh(page) : page \in Outside} \cup
                        {Rendered(db, Visitor, page) : page \in Listing}]
    /\ \A t \in Tabs : tab[t].page \in Outside <=> t \in Early
    /\ call = [c \in Calls |-> NoCall]
    /\ acts = 0

\* Calls go on without the page that sent them, and return to nobody.
Leave(t) == [c \in Calls |-> IF call[c] # NoCall /\ call[c].tab = t
                             THEN [call[c] EXCEPT !.tab = Nobody]
                             ELSE call[c]]

Load(t) ==
    LET url  == tab[t].going
        next == Redirect(db, cookie, url)
    IN  /\ url # "nowhere"
        /\ IF next # "nowhere"
           THEN tab' = [tab EXCEPT ![t].going = next] /\ UNCHANGED call
           ELSE /\ tab' = [tab EXCEPT ![t] = Rendered(db, User(cookie), url)]
                /\ call' = Leave(t)
        /\ UNCHANGED <<db, cookie, acts>>

Reload(t) ==
    /\ tab[t].reload /\ tab[t].going = "nowhere"
    /\ tab' = [tab EXCEPT ![t].going = tab[t].page]
    /\ UNCHANGED <<db, cookie, call, acts>>

\* The token expires a little before the cookie that holds it.
Expire ==
    /\ cookie # NoCookie
    /\ acts < MaxActs /\ acts' = acts + 1
    /\ cookie' = IF cookie.valid THEN [cookie EXCEPT !.valid = FALSE]
                                 ELSE NoCookie
    /\ UNCHANGED <<db, tab, call>>

-----------------------------------------------------------------------------
(* What the user does.  A page that is being left takes no more input.     *)

Act(t) == /\ acts < MaxActs /\ acts' = acts + 1
          /\ tab[t].going = "nowhere"

SignedIn(t) == tab[t].page \notin Outside

Asking(t, kind) ==
    [stage |-> "sent", kind |-> kind, tab |-> t, sender |-> User(cookie),
     row |-> Nobody, secret |-> Nobody, account |-> Nobody, list |-> {}]

Free == {c \in Calls : call[c] = NoCall}

\* apiCall: the page goes on as new while the call m is under way.
Send(t, m, new) ==
    /\ Free # {} /\ call' = [call EXCEPT ![CHOOSE c \in Free : TRUE] = m]
    /\ tab' = [tab EXCEPT ![t] = new]
    /\ UNCHANGED <<db, cookie>>

Open(t, url) ==
    /\ Act(t)
    /\ tab' = [tab EXCEPT ![t].going = url]
    /\ UNCHANGED <<db, cookie, call>>

Identify(t, kind, account) ==
    /\ Act(t) /\ tab[t].page = kind
    /\ Send(t, [Asking(t, kind) EXCEPT !.account = account], tab[t])

LogOut(t) == Act(t) /\ SignedIn(t) /\ Send(t, Asking(t, "logout"), tab[t])

\* The wizard disables its button; the secrets page only while it encrypts.
AddSecret(t, e2e) ==
    LET disables == e2e \/ tab[t].page = "onboarding" IN
    /\ Act(t) /\ "add secret" \notin tab[t].busy
    /\ tab[t].page = "secrets" \/ tab[t].card = "secret"
    /\ Send(t, Asking(t, "add secret"),
            IF disables THEN [tab[t] EXCEPT !.busy = @ \cup {"add secret"}]
                        ELSE tab[t])

AddRecipient(t, s) ==
    /\ Act(t) /\ "add recipient" \notin tab[t].busy
    /\ tab[t].page = "recipients" \/ tab[t].card = "recipient"
    /\ tab[t].options[s] > 0
    /\ Send(t, [Asking(t, "add recipient") EXCEPT !.secret = s],
            IF tab[t].page = "onboarding"
            THEN [tab[t] EXCEPT !.busy = @ \cup {"add recipient"}]
            ELSE tab[t])

Delete(t, r) ==
    /\ Act(t) /\ ~ tab[t].deleting
    /\ r \in tab[t].rows
    /\ Send(t, [Asking(t, IF r \in Secrets THEN "delete secret"
                                           ELSE "delete recipient")
                   EXCEPT !.row = r],
            [tab[t] EXCEPT !.deleting = TRUE])

\* A step of the simulation, or the wizard's test heartbeat: the button is
\* disabled.
RunStep(t) ==
    /\ Act(t) /\ tab[t].page \in {"dashboard", "onboarding"}
    /\ "step" \notin tab[t].busy
    /\ Send(t, Asking(t, "step"), [tab[t] EXCEPT !.busy = @ \cup {"step"}])

\* testHeartbeat of the dashboard can be pressed again while it is under way.
TestHeartbeat(t) ==
    /\ Act(t) /\ tab[t].page = "dashboard"
    /\ Send(t, Asking(t, "test"), tab[t])

GoToStep(t, card) ==
    /\ Act(t) /\ tab[t].page = "onboarding"
    /\ LET new == [tab[t] EXCEPT !.card = card] IN
       IF card = "recipient"
       THEN Send(t, Asking(t, "list secrets"), new)
       ELSE tab' = [tab EXCEPT ![t] = new] /\ UNCHANGED <<db, cookie, call>>

-----------------------------------------------------------------------------
(* What the server makes of a call m: the databases and answers that are   *)
(* possible, none if it refuses.                                           *)

Inserted(d, r, a) == [d EXCEPT !.stored = @ \cup {r}, !.owner[r] = a]

Unused(d, S) == {r \in S : d.owner[r] = Nobody}

\* Mutant: whose secret it is does not matter.
CreateRecipient_AnySecret(d, m) ==
    {[Inserted(d, r, m.sender) EXCEPT !.secretOf[r] = m.secret] :
        r \in IF m.secret \in d.stored THEN Unused(d, Recipients) ELSE {}}

CreateRecipient(d, m) ==
    {[Inserted(d, r, m.sender) EXCEPT !.secretOf[r] = m.secret] :
        r \in IF m.secret \in Own(d, m.sender, Secrets)
              THEN Unused(d, Recipients) ELSE {}}

CreateSecret(d, m) == {Inserted(d, s, m.sender) : s \in Unused(d, Secrets)}

\* A secret that is assigned is not deleted.
DeleteRow(d, m) ==
    IF /\ m.row \in Own(d, m.sender, Rows)
       /\ \A r \in Recipients \cap d.stored : d.secretOf[r] # m.row
    THEN {[d EXCEPT !.stored = @ \ {m.row}]} ELSE {}

\* No password is checked here: a wrong one is as good as no account.
Identified(d, m) ==
    CASE m.kind = "login"    -> IF m.account \in d.users THEN {d} ELSE {}
      [] m.kind = "register" -> IF m.account \in d.users THEN {}
                                ELSE {[d EXCEPT !.users = @ \cup {m.account}]}
      [] OTHER -> {d}

Results(d, m) ==
    IF m.kind \in {"login", "register", "logout"} THEN Identified(d, m)
    ELSE IF m.sender = Nobody THEN {}
    ELSE CASE m.kind = "add secret"    -> CreateSecret(d, m)
           [] m.kind = "add recipient" -> CreateRecipient(d, m)
           [] m.kind \in Deletions     -> DeleteRow(d, m)
           [] OTHER                    -> {d}

Serve(c) ==
    LET m == call[c] IN
    /\ m.stage = "sent"
    /\ IF Results(db, m) = {}
       THEN UNCHANGED db /\ call' = [call EXCEPT ![c].stage = "failed"]
       ELSE /\ db' \in Results(db, m)
            /\ call' = [call EXCEPT
                           ![c].stage = "ok",
                           ![c].list  = IF m.kind = "list secrets"
                                        THEN Own(db, m.sender, Secrets) ELSE {}]
    /\ UNCHANGED <<cookie, tab, acts>>

\* The connection breaks before or after the call was served.
Lose(c) ==
    /\ call[c].stage \in {"sent", "ok"}
    /\ call' = [call EXCEPT ![c].stage = "failed"]
    /\ UNCHANGED <<db, cookie, tab, acts>>

-----------------------------------------------------------------------------
(* What the scripts make of an answer.                                     *)

\* The server sets and deletes the cookie itself, except for a new account:
\* there the script does, which a cookie it cannot see (httponly) prevents.
CookieAfter(m) ==
    IF m.stage = "failed" THEN cookie
    ELSE CASE m.kind = "login"  -> Session(m.account)
           [] m.kind = "logout" -> NoCookie
           [] m.kind = "register" /\ m.tab # Nobody /\ ~ cookie.httponly ->
                [Session(m.account) EXCEPT !.httponly = FALSE]
           [] OTHER -> cookie

\* Mutant: options that are missing are added, none is taken away.
Refilled_Added(options, list) ==
    [s \in Secrets |-> IF s \in list THEN 1 ELSE options[s]]

Refilled(options, list) == Once(list)

\* The button can be pressed again: in the wizard, and after a failure.
Enabled(page, kind) == [page EXCEPT !.busy = @ \ {kind}]

Wizard(page) == page.page = "onboarding"

\* Mutant: the wizard counts what it asked for.
AfterFailure_Counted(page, m) ==
    [Enabled(page, m.kind) EXCEPT
        !.counted = IF m.kind = "add secret" /\ Wizard(page) THEN @ + 1 ELSE @,
        !.deleting = IF m.row # Nobody THEN FALSE ELSE @]

\* Mutant: the row goes as soon as there is an answer, whatever it says.
AfterFailure_Removed(page, m) ==
    [Enabled(page, m.kind) EXCEPT
        !.rows = @ \ {m.row}, !.removed = @ \cup ({m.row} \ {Nobody}),
        !.deleting = IF m.row # Nobody THEN FALSE ELSE @]

AfterFailure(page, m) ==
    [Enabled(page, m.kind) EXCEPT
        !.deleting = IF m.row # Nobody THEN FALSE ELSE @]

AfterSuccess(page, m) ==
    CASE m.kind = "login"        -> [page EXCEPT !.going = "/"]
      [] m.kind = "register"     -> [page EXCEPT !.going = "onboarding"]
      [] m.kind = "logout"       -> [page EXCEPT !.going = "login"]
      [] m.kind = "list secrets" ->
           [page EXCEPT !.options = Refilled(@, m.list)]
      [] m.kind = "step"         -> Enabled(page, m.kind)
      [] m.kind = "test"         -> page
      [] m.kind \in Deletions    ->
           [page EXCEPT !.rows = @ \ {m.row}, !.removed = @ \cup {m.row},
                        !.deleting = FALSE]
      [] m.kind = "add secret" /\ Wizard(page)    ->
           [Enabled(page, m.kind) EXCEPT !.counted = @ + 1]
      [] m.kind = "add recipient" /\ Wizard(page) -> Enabled(page, m.kind)
      [] OTHER                   -> [page EXCEPT !.reload = TRUE]

\* The wizard asks for the secrets again after it stored a recipient.
Deliver(c) ==
    LET m == call[c]
        t == m.tab
        again == /\ m.stage = "ok" /\ m.kind = "add recipient"
                 /\ t # Nobody /\ Wizard(tab[t])
    IN  /\ m.stage \in {"ok", "failed"}
        /\ cookie' = CookieAfter(m)
        /\ tab' = IF t = Nobody THEN tab
                  ELSE [tab EXCEPT ![t] = IF m.stage = "ok"
                                          THEN AfterSuccess(@, m)
                                          ELSE AfterFailure(@, m)]
        /\ call' = [call EXCEPT ![c] = IF again THEN Asking(t, "list secrets")
                                                ELSE NoCall]
        /\ UNCHANGED <<db, acts>>

-----------------------------------------------------------------------------

Input(t) ==
    \/ \E url \in Url : Open(t, url)
    \/ \E kind \in {"login", "register"}, a \in Accounts : Identify(t, kind, a)
    \/ LogOut(t)
    \/ \E e2e \in BOOLEAN : AddSecret(t, e2e)
    \/ \E s \in Secrets : AddRecipient(t, s)
    \/ \E r \in Rows : Delete(t, r)
    \/ RunStep(t) \/ TestHeartbeat(t)
    \/ \E card \in Card : GoToStep(t, card)

Next == \/ \E t \in Tabs : Input(t) \/ Load(t) \/ Reload(t)
        \/ \E c \in Calls : Serve(c) \/ Lose(c) \/ Deliver(c)
        \/ Expire

\* The server answers, the browser loads pages and runs their scripts.  The
\* user need not do anything, and tokens need not expire.
Spec == /\ Init /\ [][Next]_vars
        /\ \A t \in Tabs : WF_vars(Load(t)) /\ WF_vars(Reload(t))
        /\ \A c \in Calls : WF_vars(Serve(c)) /\ WF_vars(Deliver(c))

-----------------------------------------------------------------------------
(* Properties.                                                             *)

\* A recipient is given a secret of the account that added it, although the
\* page may offer the secrets of another account, which was signed in when the
\* page or its dropdown was filled.
OwnRecipients ==
    \A r \in Recipients \cap db.stored : db.owner[db.secretOf[r]] = db.owner[r]

\* A row that the script took out of a table is gone from the database: a
\* deletion that was refused, lost, or made for another account leaves it
\* there (deleteSecret, deleteRecipient).
RemovedRowsAreGone == \A t \in Tabs : tab[t].removed \cap db.stored = {}

\* The dropdown of a form lists the secrets of one account, each of them once,
\* whatever the order of the answers that filled it (setupStep4).
DropdownIsOneList ==
    \A t \in Tabs :
        \E a \in Accounts : \A s \in Secrets :
            tab[t].options[s] <= IF db.owner[s] = a THEN 1 ELSE 0

\* The wizard never claims more secrets than were stored, whichever of its
\* calls were refused or lost (obSecretsCount).
CountedWereStored ==
    \A t \in Tabs :
        tab[t].counted <= Cardinality({s \in Secrets : db.owner[s] # Nobody})

\* Once the user does nothing more, the pages come to rest: whatever token the
\* cookie holds and however it changes on the way, the redirects to the login
\* page and back end; and whichever calls were refused or lost, no button stays
\* disabled and no further deletion is blocked.
ComesToRest ==
    []<>(\A t \in Tabs : /\ tab[t].going = "nowhere"
                         /\ tab[t].busy = {} /\ ~ tab[t].deleting)

=============================================================================
