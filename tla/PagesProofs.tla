---------------------------- MODULE PagesProofs -----------------------------
(***************************************************************************)
(* What the pages of Pages show is true, for all values of the constants.  *)
(***************************************************************************)
EXTENDS Pages, FiniteSetTheorems, TLAPS

\* A row that was deleted; its id is not used again.
Gone(d, r) == r \notin d.stored /\ d.owner[r] # Nobody

Consistent(d) ==
    /\ \A r \in d.stored : d.owner[r] # Nobody
    /\ \A r \in Recipients \cap d.stored :
           d.secretOf[r] \in Secrets /\ d.owner[d.secretOf[r]] = d.owner[r]

OfOne(d, options) ==
    \E a \in Accounts : \A s \in Secrets :
        options[s] <= IF d.owner[s] = a THEN 1 ELSE 0

Inserts(d) == {s \in Secrets : d.owner[s] # Nobody}

\* The secrets of which tab t is yet to be told that they are stored.
Untold(t, calls) == {c \in Calls : /\ calls[c].stage = "ok"
                                   /\ calls[c].kind = "add secret"
                                   /\ calls[c].tab = t}

Truthful(d, calls, t, page) ==
    /\ \A r \in page.removed : Gone(d, r)
    /\ OfOne(d, page.options)
    /\ page.counted + Cardinality(Untold(t, calls)) <= Cardinality(Inserts(d))

\* A call has the arguments of its kind, and an answer is still true when it
\* arrives.
Sound(d, m) ==
    m # NoCall =>
        /\ m.kind \in {"login", "register"} => m.account \in Accounts
        /\ m.row # Nobody <=> m.kind \in Deletions
        /\ m.stage = "ok" =>
               /\ m.row # Nobody => Gone(d, m.row)
               /\ m.kind = "list secrets" => OfOne(d, Once(m.list))

Typed == /\ db \in Database /\ cookie \in Cookie /\ tab \in [Tabs -> Tab]
         /\ call \in [Calls -> Call \cup {NoCall}] /\ acts \in 0 .. MaxActs

Inv == /\ Typed /\ Consistent(db)
       /\ \A t \in Tabs : Truthful(db, call, t, tab[t])
       /\ \A c \in Calls : Sound(db, call[c])


-----------------------------------------------------------------------------
(* The database only grows, but for deletions.                             *)

Grown(d, e) == \A r \in Rows :
    /\ e.owner[r] = d.owner[r] \/ d.owner[r] = Nobody
    /\ r \in e.stored => r \in d.stored \/ d.owner[r] = Nobody

LEMMA GrownSame == \A d : Grown(d, d)
BY DEF Grown

LEMMA GoneStays ==
    ASSUME NEW d, NEW e, Grown(d, e), NEW r \in Rows, Gone(d, r)
    PROVE  Gone(e, r)
BY DEF Grown, Gone

LEMMA OneStays ==
    ASSUME NEW d, NEW e, Grown(d, e), NEW options \in [Secrets -> Nat],
           OfOne(d, options)
    PROVE  OfOne(e, options)
<1> PICK a \in Accounts : \A s \in Secrets :
             options[s] <= IF d.owner[s] = a THEN 1 ELSE 0
    BY DEF OfOne
<1>1. ASSUME NEW s \in Secrets
      PROVE  options[s] <= IF e.owner[s] = a THEN 1 ELSE 0
  <2>1. options[s] \in Nat /\ s \in Rows /\ a # Nobody
    BY PagesAssumption DEF Rows
  <2>2. CASE d.owner[s] = a
    BY <2>1, <2>2 DEF Grown
  <2>3. CASE d.owner[s] # a
    BY <2>1, <2>3
  <2> QED
    BY <2>2, <2>3
<1> QED
    BY <1>1 DEF OfOne

LEMMA InsertsFinite ==
    ASSUME NEW d
    PROVE  IsFiniteSet(Inserts(d)) /\ Cardinality(Inserts(d)) \in Nat
BY PagesAssumption, FS_Subset, FS_CardinalityType DEF Inserts

LEMMA UntoldFinite ==
    ASSUME NEW t, NEW calls
    PROVE  IsFiniteSet(Untold(t, calls)) /\ Cardinality(Untold(t, calls)) \in Nat
BY PagesAssumption, FS_Subset, FS_CardinalityType DEF Untold

LEMMA InsertsGrow ==
    ASSUME NEW d, NEW e, Grown(d, e), \A s \in Inserts(d) : e.owner[s] # Nobody
    PROVE  Cardinality(Inserts(d)) <= Cardinality(Inserts(e))
<1>1. Inserts(d) \subseteq Inserts(e)
    BY DEF Inserts
<1> QED
    BY <1>1, InsertsFinite, FS_Subset

\* A page that tells nothing new stays true.
LEMMA StaysTruthful ==
    ASSUME NEW d, NEW e, Grown(d, e), NEW t, NEW x, NEW y,
           Untold(t, y) \subseteq Untold(t, x),
           NEW p \in Tab, NEW q \in Tab, Truthful(d, x, t, p),
           q.removed \subseteq p.removed, q.counted = p.counted,
           q.options = p.options
    PROVE  Truthful(e, y, t, q)
<1>0. /\ p.removed \subseteq Rows /\ p.counted \in Nat
      /\ p.options \in [Secrets -> Nat]
    BY DEF Tab
<1>1. \A r \in q.removed : Gone(e, r)
    BY <1>0, GoneStays DEF Truthful
<1>2. OfOne(e, q.options)
    BY <1>0, OneStays DEF Truthful
<1>3. Cardinality(Untold(t, y)) <= Cardinality(Untold(t, x))
    BY UntoldFinite, FS_Subset
<1>4. Cardinality(Inserts(d)) <= Cardinality(Inserts(e))
    BY InsertsGrow DEF Grown, Inserts, Rows
<1>5. q.counted + Cardinality(Untold(t, y)) <= Cardinality(Inserts(e))
    BY <1>0, <1>3, <1>4, UntoldFinite, InsertsFinite DEF Truthful
<1> QED
    BY <1>1, <1>2, <1>5 DEF Truthful

LEMMA StaysSound ==
    ASSUME NEW d, NEW e, Grown(d, e), NEW m \in Call \cup {NoCall}, Sound(d, m)
    PROVE  Sound(e, m)
<1>1. CASE m = NoCall
    BY <1>1 DEF Sound
<1>2. CASE m \in Call
  <2>1. m.row # Nobody => m.row \in Rows
    BY <1>2 DEF Call
  <2>2. Once(m.list) \in [Secrets -> Nat]
    BY DEF Once
  <2> QED
    BY <2>1, <2>2, GoneStays, OneStays DEF Sound
<1> QED
    BY <1>1, <1>2

-----------------------------------------------------------------------------
(* What the server answers.                                                *)

LEMMA OwnType ==
    \A d, a, S : Own(d, a, S) = {r \in S : r \in d.stored /\ d.owner[r] = a}
BY DEF Own

\* Database e is d with row r of account a added, which is consistent.
Adds(d, e, r, a) ==
    /\ e \in Database /\ e.stored = d.stored \cup {r}
    /\ \A x \in Rows : e.owner[x] = IF x = r THEN a ELSE d.owner[x]
    /\ \A x \in Recipients \ {r} : e.secretOf[x] = d.secretOf[x]
    /\ r \in Recipients => e.secretOf[r] \in Own(d, a, Secrets)

LEMMA InsertSecret ==
    ASSUME NEW d \in Database, NEW r \in Secrets, NEW a \in Accounts
    PROVE  Adds(d, Inserted(d, r, a), r, a)
<1> DEFINE e == [d EXCEPT !.stored = @ \cup {r}, !.owner[r] = a]
<1>0. /\ d.owner \in [Rows -> Accounts \cup {Nobody}] /\ d.stored \subseteq Rows
      /\ r \in Rows /\ r \notin Recipients
    BY PagesAssumption DEF Database, Rows
<1>1. /\ e \in Database /\ e.stored = d.stored \cup {r}
      /\ e.owner = [d.owner EXCEPT ![r] = a] /\ e.secretOf = d.secretOf
    BY <1>0 DEF Database
<1>2. Inserted(d, r, a) = e
    BY DEF Inserted
<1> SUFFICES Adds(d, e, r, a)
    BY <1>2
<1> HIDE DEF e
<1> QED
    BY <1>0, <1>1 DEF Adds

LEMMA InsertRecipient ==
    ASSUME NEW d \in Database, NEW r \in Recipients, NEW a \in Accounts,
           NEW s \in Own(d, a, Secrets)
    PROVE  Adds(d, [Inserted(d, r, a) EXCEPT !.secretOf[r] = s], r, a)
<1> DEFINE f == [d EXCEPT !.stored = @ \cup {r}, !.owner[r] = a]
           e == [f EXCEPT !.secretOf[r] = s]
<1>0. /\ d.owner \in [Rows -> Accounts \cup {Nobody}] /\ d.stored \subseteq Rows
      /\ d.secretOf \in [Recipients -> Secrets \cup {Nobody}]
      /\ r \in Rows /\ s \in Secrets
    BY OwnType DEF Database, Rows
<1>1. /\ f \in Database /\ f.stored = d.stored \cup {r}
      /\ f.owner = [d.owner EXCEPT ![r] = a] /\ f.secretOf = d.secretOf
    BY <1>0 DEF Database
<1>2. [Inserted(d, r, a) EXCEPT !.secretOf[r] = s] = e
    BY DEF Inserted
<1> SUFFICES Adds(d, e, r, a)
    BY <1>2
<1> HIDE DEF f
<1>3. /\ e \in Database /\ e.stored = f.stored /\ e.owner = f.owner
      /\ e.secretOf = [f.secretOf EXCEPT ![r] = s]
    BY <1>0, <1>1 DEF Database
<1> HIDE DEF e
<1> QED
    BY <1>0, <1>1, <1>3 DEF Adds

LEMMA InsertStep ==
    ASSUME NEW d \in Database, Consistent(d), NEW r \in Rows,
           d.owner[r] = Nobody, NEW a \in Accounts, NEW e, Adds(d, e, r, a)
    PROVE  Consistent(e) /\ Grown(d, e)
<1>0. a # Nobody /\ r \notin d.stored /\ d.stored \subseteq Rows
    BY PagesAssumption DEF Consistent, Database
<1>1. /\ e.stored = d.stored \cup {r}
      /\ \A x \in Rows : e.owner[x] = IF x = r THEN a ELSE d.owner[x]
    BY DEF Adds
<1>2. Grown(d, e)
    BY <1>1 DEF Grown
<1>3. \A x \in e.stored : e.owner[x] # Nobody
    BY <1>0, <1>1 DEF Consistent
<1>4. ASSUME NEW x \in Recipients, x \in e.stored
      PROVE  /\ e.secretOf[x] \in Secrets
             /\ e.owner[e.secretOf[x]] = e.owner[x]
  <2>1. CASE x = r
    <3>1. e.secretOf[r] \in Secrets /\ d.owner[e.secretOf[r]] = a
      BY <2>1, OwnType DEF Adds
    <3> QED
      BY <1>0, <1>1, <2>1, <3>1 DEF Rows
  <2>2. CASE x # r
    <3>1. /\ d.secretOf[x] \in Secrets /\ d.owner[x] # Nobody
          /\ d.owner[d.secretOf[x]] = d.owner[x]
      BY <1>0, <1>1, <1>4, <2>2 DEF Consistent
    <3>2. e.secretOf[x] = d.secretOf[x]
      BY <2>2 DEF Adds
    <3> QED
      BY <1>0, <1>1, <2>2, <3>1, <3>2 DEF Rows
  <2> QED
    BY <2>1, <2>2
<1> QED
    BY <1>2, <1>3, <1>4 DEF Consistent

LEMMA IdentifyStep ==
    ASSUME NEW d \in Database, Consistent(d), NEW m \in Call, Sound(d, m),
           m.kind \in {"login", "register", "logout"},
           NEW e \in Identified(d, m)
    PROVE  e \in Database /\ Consistent(e) /\ Grown(d, e) /\ m.row = Nobody
<1>0. m.row = Nobody /\ (m.kind = "register" => m.account \in Accounts)
  <2>1. m # NoCall /\ m.row \in Rows \cup {Nobody}
    BY DEF Call, NoCall
  <2> QED
    BY <2>1 DEF Sound, Deletions
<1>1. CASE e = d
    BY <1>0, <1>1, GrownSame
<1>2. CASE m.kind = "register" /\ e = [d EXCEPT !.users = @ \cup {m.account}]
  <2>1. /\ e \in Database /\ e.stored = d.stored /\ e.owner = d.owner
        /\ e.secretOf = d.secretOf
    BY <1>0, <1>2 DEF Database
  <2> QED
    BY <1>0, <2>1 DEF Consistent, Grown
<1>3. e = d \/ (m.kind = "register" /\ e = [d EXCEPT !.users = @ \cup {m.account}])
    BY DEF Identified
<1> QED
    BY <1>1, <1>2, <1>3

LEMMA DeleteStep ==
    ASSUME NEW d \in Database, Consistent(d), NEW m \in Call,
           m.sender # Nobody, NEW e \in DeleteRow(d, m)
    PROVE  /\ e \in Database /\ Consistent(e) /\ Grown(d, e)
           /\ Gone(e, m.row) /\ e.owner = d.owner
<1>1. /\ m.row \in d.stored /\ m.row \in Rows /\ d.owner[m.row] = m.sender
      /\ \A r \in Recipients \cap d.stored : d.secretOf[r] # m.row
      /\ e = [d EXCEPT !.stored = @ \ {m.row}]
    BY OwnType DEF DeleteRow
<1>2. /\ e \in Database /\ e.stored = d.stored \ {m.row} /\ e.owner = d.owner
      /\ e.secretOf = d.secretOf
    BY <1>1 DEF Database
<1>3. Consistent(e)
    BY <1>1, <1>2 DEF Consistent
<1> QED
    BY <1>1, <1>2, <1>3 DEF Grown, Gone

LEMMA ResultsStep ==
    ASSUME NEW d \in Database, Consistent(d), NEW m \in Call, Sound(d, m),
           NEW e \in Results(d, m)
    PROVE  /\ e \in Database /\ Consistent(e) /\ Grown(d, e)
           /\ m.kind = "add secret" =>
                  Cardinality(Inserts(e)) = Cardinality(Inserts(d)) + 1
           /\ m.row # Nobody => Gone(e, m.row)
           /\ m.kind = "list secrets" => e = d /\ m.sender \in Accounts
<1>0. /\ m.kind \in Kind /\ m.sender \in Accounts \cup {Nobody}
      /\ m.row # Nobody => m.kind \in Deletions
      /\ Nobody \notin Accounts /\ Secrets \cap Recipients = {}
  <2>1. m # NoCall /\ m.kind \in Kind /\ m.sender \in Accounts \cup {Nobody}
    BY DEF Call, NoCall
  <2>2. m.row # Nobody => m.kind \in Deletions
    BY <2>1 DEF Sound
  <2> QED
    BY <2>1, <2>2, PagesAssumption
<1>1. CASE m.kind \in {"login", "register", "logout"}
  <2>1. e \in Identified(d, m)
    BY <1>1 DEF Results
  <2> QED
    BY <1>1, <2>1, IdentifyStep
<1>2. CASE m.kind \notin {"login", "register", "logout"} /\ m.sender = Nobody
  <2>1. Results(d, m) = {}
    BY <1>2 DEF Results
  <2> QED
    BY <2>1
<1>3. CASE m.sender \in Accounts /\ m.kind = "add secret"
  <2>1. e \in CreateSecret(d, m)
    BY <1>3 DEF Results, Deletions
  <2>2. PICK s \in Secrets : d.owner[s] = Nobody /\ e = Inserted(d, s, m.sender)
    BY <2>1 DEF CreateSecret, Unused
  <2>3. /\ s \in Rows /\ d.owner[s] = Nobody /\ m.sender \in Accounts
        /\ Adds(d, e, s, m.sender)
    BY <1>3, <2>2, InsertSecret DEF Rows
  <2>4. /\ e \in Database
        /\ \A x \in Rows : e.owner[x] = IF x = s THEN m.sender ELSE d.owner[x]
    BY <2>3 DEF Adds
  <2>a. Consistent(e) /\ Grown(d, e)
    BY <2>3, InsertStep
  <2>5. Inserts(e) = Inserts(d) \cup {s} /\ s \notin Inserts(d)
    BY <1>0, <1>3, <2>2, <2>4 DEF Inserts, Rows
  <2>6. Cardinality(Inserts(e)) = Cardinality(Inserts(d)) + 1
    BY <2>5, InsertsFinite, FS_AddElement
  <2> QED
    BY <1>0, <1>3, <2>4, <2>a, <2>6 DEF Deletions
<1>4. CASE m.sender \in Accounts /\ m.kind = "add recipient"
  <2>1. e \in CreateRecipient(d, m)
    BY <1>4 DEF Results, Deletions
  <2>2. PICK r \in Recipients :
            /\ d.owner[r] = Nobody /\ m.secret \in Own(d, m.sender, Secrets)
            /\ e = [Inserted(d, r, m.sender) EXCEPT !.secretOf[r] = m.secret]
    BY <2>1 DEF CreateRecipient, Unused
  <2>3. /\ r \in Rows /\ d.owner[r] = Nobody /\ m.sender \in Accounts
        /\ Adds(d, e, r, m.sender)
    BY <1>4, <2>2, InsertRecipient DEF Rows
  <2>4. e \in Database /\ Consistent(e) /\ Grown(d, e)
    BY <2>3, InsertStep DEF Adds
  <2> QED
    BY <1>0, <1>4, <2>4 DEF Deletions
<1>5. CASE m.sender \in Accounts /\ m.kind \in Deletions
  <2>1. e \in DeleteRow(d, m)
    BY <1>0, <1>5 DEF Results, Deletions
  <2> QED
    BY <1>0, <1>5, <2>1, DeleteStep DEF Deletions
<1>6. CASE m.sender \in Accounts /\ m.kind \in {"list secrets", "step", "test"}
  <2>1. e = d
    BY <1>0, <1>6 DEF Results, Deletions
  <2> QED
    BY <1>0, <1>6, <2>1, GrownSame DEF Deletions
<1> QED
    BY <1>0, <1>1, <1>2, <1>3, <1>4, <1>5, <1>6 DEF Kind, Deletions
-----------------------------------------------------------------------------
(* The steps that tell no page anything.                                   *)

\* What a page tells the user.
Same(p, q) == /\ q.removed = p.removed /\ q.options = p.options
              /\ q.counted = p.counted

LEMMA QuietStep ==
    ASSUME Inv, Typed', Consistent(db'), Grown(db, db'),
           \A t \in Tabs : Untold(t, call') \subseteq Untold(t, call),
           \A t \in Tabs : Same(tab[t], tab'[t]),
           \A c \in Calls : call'[c] = call[c] \/ Sound(db', call'[c])
    PROVE  Inv'
<1>1. ASSUME NEW t \in Tabs
      PROVE  Truthful(db', call', t, tab'[t])
  <2>1. tab[t] \in Tab /\ tab'[t] \in Tab /\ Truthful(db, call, t, tab[t])
    BY DEF Inv, Typed
  <2>2. /\ tab'[t].removed = tab[t].removed /\ tab'[t].options = tab[t].options
        /\ tab'[t].counted = tab[t].counted
    BY DEF Same
  <2>3. Untold(t, call') \subseteq Untold(t, call)
    OBVIOUS
  <2> QED
    BY <2>1, <2>2, <2>3, StaysTruthful
<1>2. ASSUME NEW c \in Calls
      PROVE  Sound(db', call'[c])
  <2>1. call[c] \in Call \cup {NoCall} /\ Sound(db, call[c])
    BY DEF Inv, Typed
  <2>2. Sound(db', call[c])
    BY <2>1, StaysSound
  <2> QED
    BY <2>2
<1> QED
    BY <1>1, <1>2 DEF Inv

\* The call c is all that changes, and it tells nothing.
LEMMA UntoldWithout ==
    ASSUME NEW x, NEW y, NEW c \in Calls, NEW t,
           \A b \in Calls \ {c} : y[b] = x[b],
           ~ (y[c].stage = "ok" /\ y[c].kind = "add secret" /\ y[c].tab = t)
    PROVE  Untold(t, y) \subseteq Untold(t, x)
BY DEF Untold

LEMMA UserType == Typed => User(cookie) \in Accounts \cup {Nobody}
BY DEF Typed, Cookie, User

LEMMA AskingType ==
    ASSUME Typed, NEW t \in Tabs, NEW kind \in Kind
    PROVE  /\ Asking(t, kind) \in Call /\ Asking(t, kind).stage = "sent"
           /\ Asking(t, kind).kind = kind /\ Asking(t, kind).row = Nobody
BY UserType DEF Asking, Call

LEMMA NotNoCall == \A m \in Call : m # NoCall
<1> SUFFICES ASSUME NEW m \in Call
             PROVE  m # NoCall
    OBVIOUS
<1>1. m.stage # "none"
    BY DEF Call
<1> QED
    BY <1>1 DEF NoCall

LEMMA SendStep ==
    ASSUME Inv, NEW t \in Tabs, NEW m \in Call, m.stage = "sent",
           Sound(db, m), NEW new \in Tab, Same(tab[t], new), Send(t, m, new),
           acts' \in 0 .. MaxActs
    PROVE  Inv'
<1> PICK c \in Calls : call' = [call EXCEPT ![c] = m]
  <2> DEFINE c == CHOOSE c \in Free : TRUE
  <2>1. c \in Free
    BY DEF Send
  <2> QED
    BY <2>1 DEF Send, Free
<1>1. tab' = [tab EXCEPT ![t] = new] /\ db' = db /\ cookie' = cookie
    BY DEF Send
<1>2. tab \in [Tabs -> Tab] /\ call \in [Calls -> Call \cup {NoCall}]
    BY DEF Inv, Typed
<1>3. Typed'
    BY <1>1, <1>2 DEF Inv, Typed
<1>4. /\ call'[c] = m
      /\ \A b \in Calls \ {c} : call'[b] = call[b]
    BY <1>2
<1>5. \A u \in Tabs : Untold(u, call') \subseteq Untold(u, call)
    BY <1>4, UntoldWithout
<1>6. \A u \in Tabs : Same(tab[u], tab'[u])
    BY <1>1, <1>2 DEF Same
<1>7. \A b \in Calls : call'[b] = call[b] \/ Sound(db', call'[b])
    BY <1>1, <1>4
<1>8. Consistent(db') /\ Grown(db, db')
    BY <1>1, GrownSame DEF Inv
<1> QED
    BY <1>3, <1>5, <1>6, <1>7, <1>8, QuietStep

\* A step that changes one page, and nothing that it tells.
LEMMA PageStep ==
    ASSUME Inv, NEW t \in Tabs, NEW new \in Tab, Same(tab[t], new),
           tab' = [tab EXCEPT ![t] = new], UNCHANGED <<db, cookie, call>>,
           acts' \in 0 .. MaxActs
    PROVE  Inv'
<1>1. tab \in [Tabs -> Tab]
    BY DEF Inv, Typed
<1>2. Typed'
    BY <1>1 DEF Inv, Typed
<1>3. \A u \in Tabs : Same(tab[u], tab'[u])
    BY <1>1 DEF Same
<1>4. \A u \in Tabs : Untold(u, call') \subseteq Untold(u, call)
    OBVIOUS
<1>5. Consistent(db') /\ Grown(db, db')
    BY GrownSame DEF Inv
<1> QED
    BY <1>2, <1>3, <1>4, <1>5, QuietStep
-----------------------------------------------------------------------------
(* What the user does.                                                     *)

\* A call without a row is sound when it is sent.
LEMMA AskedIsSound ==
    ASSUME NEW m \in Call, m.stage = "sent", m.row = Nobody,
           m.kind \notin Deletions,
           m.kind \in {"login", "register"} => m.account \in Accounts
    PROVE  Sound(db, m)
BY DEF Sound

LEMMA OpenStep ==
    ASSUME Inv, NEW t \in Tabs, NEW url \in Url, Open(t, url)
    PROVE  Inv'
<1> DEFINE new == [tab[t] EXCEPT !.going = url]
<1>1. tab[t] \in Tab /\ acts' \in 0 .. MaxActs
    BY PagesAssumption DEF Inv, Typed, Open, Act
<1>2. new \in Tab /\ Same(tab[t], new)
    BY <1>1 DEF Tab, Same
<1>3. tab' = [tab EXCEPT ![t] = new] /\ UNCHANGED <<db, cookie, call>>
    BY <1>1 DEF Open, Inv, Typed, Tab
<1> HIDE DEF new
<1> QED
    BY <1>1, <1>2, <1>3, PageStep

LEMMA ReloadStep ==
    ASSUME Inv, NEW t \in Tabs, Reload(t)
    PROVE  Inv'
<1> DEFINE new == [tab[t] EXCEPT !.going = tab[t].page]
<1>1. tab[t] \in Tab /\ acts' \in 0 .. MaxActs
    BY DEF Inv, Typed, Reload
<1>2. new \in Tab /\ Same(tab[t], new)
    BY <1>1 DEF Tab, Same, Url
<1>3. tab' = [tab EXCEPT ![t] = new] /\ UNCHANGED <<db, cookie, call>>
    BY <1>1 DEF Reload, Inv, Typed, Tab
<1> HIDE DEF new
<1> QED
    BY <1>1, <1>2, <1>3, PageStep

LEMMA ActType ==
    ASSUME Inv, NEW t \in Tabs, Act(t)
    PROVE  tab[t] \in Tab /\ acts' \in 0 .. MaxActs /\ Typed
BY PagesAssumption DEF Inv, Typed, Act

LEMMA SameSame == \A p : Same(p, p)
BY DEF Same

LEMMA IdentifyStepOfUser ==
    ASSUME Inv, NEW t \in Tabs, NEW kind \in {"login", "register"},
           NEW a \in Accounts, Identify(t, kind, a)
    PROVE  Inv'
<1> DEFINE ask == Asking(t, kind)
           m   == [ask EXCEPT !.account = a]
<1>1. tab[t] \in Tab /\ acts' \in 0 .. MaxActs /\ Typed
    BY ActType DEF Identify
<1>2. /\ ask \in Call /\ ask.stage = "sent" /\ ask.kind = kind
      /\ ask.row = Nobody
    BY <1>1, AskingType DEF Kind
<1>3. Send(t, m, tab[t])
    BY DEF Identify
<1> HIDE DEF ask
<1>4. /\ m \in Call /\ m.stage = "sent" /\ m.kind = kind /\ m.row = Nobody
      /\ m.account = a
    BY <1>2 DEF Call
<1> HIDE DEF m
<1>5. Sound(db, m)
    BY <1>4, AskedIsSound DEF Deletions
<1> QED
    BY <1>1, <1>3, <1>4, <1>5, SameSame, SendStep

\* A call without arguments, sent by a page that goes on as new.
LEMMA PlainCall ==
    ASSUME Inv, NEW t \in Tabs, NEW kind \in Kind \ Deletions,
           kind \notin {"login", "register"}, Act(t),
           NEW new \in Tab, Same(tab[t], new), Send(t, Asking(t, kind), new)
    PROVE  Inv'
<1> DEFINE m == Asking(t, kind)
<1>1. tab[t] \in Tab /\ acts' \in 0 .. MaxActs /\ Typed
    BY ActType
<1>2. m \in Call /\ m.stage = "sent" /\ m.kind = kind /\ m.row = Nobody
    BY <1>1, AskingType
<1>3. Send(t, m, new)
    OBVIOUS
<1> HIDE DEF m
<1>4. Sound(db, m)
    BY <1>2, AskedIsSound
<1> QED
    BY <1>1, <1>2, <1>3, <1>4, SendStep

LEMMA LogOutStep ==
    ASSUME Inv, NEW t \in Tabs, LogOut(t)
    PROVE  Inv'
<1>1. /\ "logout" \in Kind \ Deletions /\ "logout" \notin {"login", "register"}
      /\ Act(t) /\ Send(t, Asking(t, "logout"), tab[t])
    BY DEF Kind, Deletions, LogOut
<1> QED
    BY <1>1, ActType, SameSame, PlainCall

\* The page with one more button disabled.
LEMMA Disabled ==
    ASSUME NEW p \in Tab, NEW kind \in Kind
    PROVE  /\ [p EXCEPT !.busy = @ \cup {kind}] \in Tab
           /\ Same(p, [p EXCEPT !.busy = @ \cup {kind}])
BY DEF Tab, Same

LEMMA AddSecretStep ==
    ASSUME Inv, NEW t \in Tabs, NEW e2e \in BOOLEAN, AddSecret(t, e2e)
    PROVE  Inv'
<1> DEFINE off == [tab[t] EXCEPT !.busy = @ \cup {"add secret"}]
           new == IF e2e \/ tab[t].page = "onboarding" THEN off ELSE tab[t]
<1>0. "add secret" \in Kind
    BY DEF Kind
<1>1. /\ "add secret" \in Kind \ Deletions
      /\ "add secret" \notin {"login", "register"}
      /\ Act(t) /\ Send(t, Asking(t, "add secret"), new)
    BY DEF Kind, Deletions, AddSecret
<1>2. tab[t] \in Tab
    BY <1>1, ActType
<1>3. off \in Tab /\ Same(tab[t], off)
    BY <1>0, <1>2, Disabled
<1> HIDE DEF off
<1>4. new \in Tab /\ Same(tab[t], new)
    BY <1>2, <1>3, SameSame
<1> HIDE DEF new
<1> QED
    BY <1>1, <1>4, PlainCall

LEMMA RunStepStep ==
    ASSUME Inv, NEW t \in Tabs, RunStep(t)
    PROVE  Inv'
<1> DEFINE new == [tab[t] EXCEPT !.busy = @ \cup {"step"}]
<1>1. /\ "step" \in Kind \ Deletions /\ "step" \notin {"login", "register"}
      /\ Act(t) /\ Send(t, Asking(t, "step"), new)
    BY DEF Kind, Deletions, RunStep
<1>2. new \in Tab /\ Same(tab[t], new)
    BY <1>1, ActType, Disabled
<1> HIDE DEF new
<1> QED
    BY <1>1, <1>2, PlainCall

LEMMA TestHeartbeatStep ==
    ASSUME Inv, NEW t \in Tabs, TestHeartbeat(t)
    PROVE  Inv'
<1>1. /\ "test" \in Kind \ Deletions /\ "test" \notin {"login", "register"}
      /\ Act(t) /\ Send(t, Asking(t, "test"), tab[t])
    BY DEF Kind, Deletions, TestHeartbeat
<1> QED
    BY <1>1, ActType, SameSame, PlainCall

LEMMA AddRecipientStep ==
    ASSUME Inv, NEW t \in Tabs, NEW s \in Secrets, AddRecipient(t, s)
    PROVE  Inv'
<1> DEFINE kind == "add recipient"
           ask == Asking(t, kind)
           m   == [ask EXCEPT !.secret = s]
           off == [tab[t] EXCEPT !.busy = @ \cup {kind}]
           new == IF tab[t].page = "onboarding" THEN off ELSE tab[t]
<1>1. tab[t] \in Tab /\ acts' \in 0 .. MaxActs /\ Typed
    BY ActType DEF AddRecipient
<1>2. /\ ask \in Call /\ ask.stage = "sent" /\ ask.kind = kind
      /\ ask.row = Nobody
    BY <1>1, AskingType DEF Kind
<1>3. Send(t, m, new)
    BY DEF AddRecipient
<1>4. off \in Tab /\ Same(tab[t], off)
    BY <1>1, Disabled DEF Kind
<1> HIDE DEF off
<1>5. new \in Tab /\ Same(tab[t], new)
    BY <1>1, <1>4, SameSame
<1> HIDE DEF new, ask
<1>6. m \in Call /\ m.stage = "sent" /\ m.kind = kind /\ m.row = Nobody
    BY <1>2 DEF Call
<1> HIDE DEF m
<1>7. Sound(db, m)
    BY <1>6, AskedIsSound DEF Deletions
<1> QED
    BY <1>1, <1>3, <1>5, <1>6, <1>7, SendStep

LEMMA DeleteStepOfUser ==
    ASSUME Inv, NEW t \in Tabs, NEW r \in Rows, Delete(t, r)
    PROVE  Inv'
<1> DEFINE kind == IF r \in Secrets THEN "delete secret" ELSE "delete recipient"
           ask == Asking(t, kind)
           m   == [ask EXCEPT !.row = r]
           new == [tab[t] EXCEPT !.deleting = TRUE]
<1>0. kind \in Deletions /\ kind \in Kind
    BY DEF Deletions, Kind
<1>1. tab[t] \in Tab /\ acts' \in 0 .. MaxActs /\ Typed
    BY ActType DEF Delete
<1>3. Send(t, m, new)
    BY DEF Delete
<1> HIDE DEF kind
<1>2. ask \in Call /\ ask.stage = "sent" /\ ask.kind = kind
    BY <1>0, <1>1, AskingType
<1>5. new \in Tab /\ Same(tab[t], new)
    BY <1>1 DEF Tab, Same
<1> HIDE DEF new, ask
<1>6. m \in Call /\ m.stage = "sent" /\ m.kind = kind /\ m.row = r
    BY <1>2 DEF Call
<1> HIDE DEF m
<1>7. Sound(db, m)
    BY <1>0, <1>6, PagesAssumption DEF Sound, Deletions
<1> QED
    BY <1>1, <1>3, <1>5, <1>6, <1>7, SendStep

LEMMA GoToStepStep ==
    ASSUME Inv, NEW t \in Tabs, NEW card \in Card, GoToStep(t, card)
    PROVE  Inv'
<1> DEFINE new == [tab[t] EXCEPT !.card = card]
<1>1. tab[t] \in Tab /\ acts' \in 0 .. MaxActs /\ Act(t)
    BY ActType DEF GoToStep
<1>2. new \in Tab /\ Same(tab[t], new)
    BY <1>1 DEF Tab, Same
<1>3. CASE card = "recipient"
  <2>1. Send(t, Asking(t, "list secrets"), new)
    BY <1>3 DEF GoToStep
  <2> HIDE DEF new
  <2>2. /\ "list secrets" \in Kind \ Deletions
        /\ "list secrets" \notin {"login", "register"}
    BY DEF Kind, Deletions
  <2> QED
    BY <1>1, <1>2, <2>1, <2>2, PlainCall
<1>4. CASE card # "recipient"
  <2>1. tab' = [tab EXCEPT ![t] = new] /\ UNCHANGED <<db, cookie, call>>
    BY <1>4 DEF GoToStep
  <2> HIDE DEF new
  <2> QED
    BY <1>1, <1>2, <2>1, PageStep
<1> QED
    BY <1>3, <1>4

LEMMA InputStep ==
    ASSUME Inv, NEW t \in Tabs, Input(t)
    PROVE  Inv'
BY OpenStep, IdentifyStepOfUser, LogOutStep, AddSecretStep, AddRecipientStep,
   DeleteStepOfUser, RunStepStep, TestHeartbeatStep, GoToStepStep DEF Input

LEMMA ExpireStep ==
    ASSUME Inv, Expire
    PROVE  Inv'
<1>1. /\ cookie' \in Cookie /\ acts' \in 0 .. MaxActs
      /\ UNCHANGED <<db, tab, call>>
  <2>1. cookie \in Cookie /\ NoCookie \in Cookie
    BY DEF Inv, Typed, Cookie, NoCookie
  <2>2. [cookie EXCEPT !.valid = FALSE] \in Cookie
    BY <2>1 DEF Cookie
  <2>3. acts \in 0 .. MaxActs
    BY DEF Inv, Typed
  <2> QED
    BY <2>1, <2>2, <2>3, PagesAssumption DEF Expire
<1>2. Typed'
    BY <1>1 DEF Inv, Typed
<1>3. Consistent(db') /\ Grown(db, db')
    BY <1>1, GrownSame DEF Inv
<1> QED
    BY <1>1, <1>2, <1>3, SameSame, QuietStep
-----------------------------------------------------------------------------
(* Calls that are served and lost.                                         *)

LEMMA UnderWay ==
    ASSUME Inv, NEW c \in Calls, call[c].stage # "none"
    PROVE  call[c] \in Call /\ call[c] # NoCall /\ Sound(db, call[c])
<1>1. call[c] \in Call \cup {NoCall} /\ Sound(db, call[c])
    BY DEF Inv, Typed
<1>2. call[c] # NoCall
    BY DEF NoCall
<1> QED
    BY <1>1, <1>2

LEMMA FailStep ==
    ASSUME Inv, NEW c \in Calls, call[c].stage # "none",
           call' = [call EXCEPT ![c].stage = "failed"],
           UNCHANGED <<db, cookie, tab, acts>>
    PROVE  Inv'
<1> DEFINE m == call[c]
           n == [m EXCEPT !.stage = "failed"]
<1>1. m \in Call /\ m # NoCall /\ Sound(db, m)
    BY UnderWay
<1>2. /\ call' = [call EXCEPT ![c] = n] /\ call \in [Calls -> Call \cup {NoCall}]
    BY DEF Inv, Typed
<1> HIDE DEF m
<1>3. /\ n \in Call /\ n.stage = "failed" /\ n.kind = m.kind /\ n.row = m.row
      /\ n.account = m.account
    BY <1>1 DEF Call
<1> HIDE DEF n
<1>4. call'[c] = n /\ \A b \in Calls \ {c} : call'[b] = call[b]
    BY <1>2
<1>5. Sound(db', n)
    BY <1>1, <1>2, <1>3 DEF Sound
<1>6. \A t \in Tabs : Untold(t, call') \subseteq Untold(t, call)
    BY <1>3, <1>4, UntoldWithout
<1>7. Typed'
    BY <1>2, <1>3 DEF Inv, Typed
<1>8. Consistent(db') /\ Grown(db, db')
    BY <1>2, GrownSame DEF Inv
<1>9. \A t \in Tabs : Same(tab[t], tab'[t])
    BY <1>2, SameSame
<1>10. \A b \in Calls : call'[b] = call[b] \/ Sound(db', call'[b])
    BY <1>4, <1>5
<1> QED
    BY <1>6, <1>7, <1>8, <1>9, <1>10, QuietStep

LEMMA LoseStep ==
    ASSUME Inv, NEW c \in Calls, Lose(c)
    PROVE  Inv'
BY FailStep DEF Lose

LEMMA ServeStep ==
    ASSUME Inv, NEW c \in Calls, Serve(c)
    PROVE  Inv'
<1>1. CASE Results(db, call[c]) = {}
    BY <1>1, FailStep DEF Serve
<1>2. CASE Results(db, call[c]) # {}
  <2> DEFINE m    == call[c]
             list == IF m.kind = "list secrets" THEN Own(db, m.sender, Secrets)
                                                ELSE {}
             n    == [m EXCEPT !.stage = "ok", !.list = list]
  <2>1. m \in Call /\ m # NoCall /\ Sound(db, m)
    BY UnderWay DEF Serve
  <2>2. /\ call' = [call EXCEPT ![c] = n]
        /\ call \in [Calls -> Call \cup {NoCall}]
        /\ db' \in Results(db, m) /\ UNCHANGED <<cookie, tab, acts>>
    BY <1>2 DEF Serve, Inv, Typed
  <2>3. list \subseteq Secrets
    BY OwnType
  <2>4. m.kind = "list secrets" => list = Own(db, m.sender, Secrets)
    OBVIOUS
  <2> HIDE DEF m, list
  <2>5. /\ n \in Call /\ n.stage = "ok" /\ n.kind = m.kind /\ n.row = m.row
        /\ n.account = m.account /\ n.tab = m.tab /\ n.list = list
    BY <2>1, <2>3 DEF Call
  <2> HIDE DEF n
  <2>6. call'[c] = n /\ \A b \in Calls \ {c} : call'[b] = call[b]
    BY <2>2
  <2>7. /\ db' \in Database /\ Consistent(db') /\ Grown(db, db')
        /\ m.kind = "add secret" =>
               Cardinality(Inserts(db')) = Cardinality(Inserts(db)) + 1
        /\ m.row # Nobody => Gone(db', m.row)
        /\ m.kind = "list secrets" => db' = db /\ m.sender \in Accounts
    BY <2>1, <2>2, ResultsStep DEF Inv, Typed
  <2>8. Typed'
    BY <2>2, <2>5, <2>7 DEF Inv, Typed
  <2>9. Sound(db', n)
    <3>1. CASE m.kind = "list secrets"
      <4>1. \A s \in Secrets :
                Once(list)[s] <= IF db'.owner[s] = m.sender THEN 1 ELSE 0
        <5> SUFFICES ASSUME NEW s \in Secrets
                     PROVE  Once(list)[s] <=
                                IF db'.owner[s] = m.sender THEN 1 ELSE 0
          OBVIOUS
        <5>1. Once(list)[s] = IF s \in list THEN 1 ELSE 0
          BY DEF Once
        <5>2. s \in list => db'.owner[s] = m.sender
          BY <2>4, <2>7, <3>1, OwnType
        <5> QED
          BY <5>1, <5>2
      <4>2. OfOne(db', Once(n.list))
        BY <2>5, <2>7, <3>1, <4>1 DEF OfOne
      <4> QED
        BY <2>1, <2>5, <2>7, <4>2 DEF Sound
    <3>2. CASE m.kind # "list secrets"
      BY <2>1, <2>5, <2>7, <3>2 DEF Sound
    <3> QED
      BY <3>1, <3>2
  <2>10. ASSUME NEW t \in Tabs
         PROVE  Truthful(db', call', t, tab'[t])
    <3>0. tab[t] \in Tab /\ Truthful(db, call, t, tab[t]) /\ tab'[t] = tab[t]
      BY <2>2 DEF Inv, Typed
    <3>1. CASE m.kind = "add secret" /\ m.tab = t
      <4>1. Untold(t, call') = Untold(t, call) \cup {c}
        BY <2>5, <2>6, <3>1 DEF Untold
      <4>2. c \notin Untold(t, call)
        BY DEF Untold, Serve
      <4>3. Cardinality(Untold(t, call')) = Cardinality(Untold(t, call)) + 1
        BY <4>1, <4>2, UntoldFinite, FS_AddElement
      <4>4. /\ tab[t].removed \subseteq Rows /\ tab[t].counted \in Nat
            /\ tab[t].options \in [Secrets -> Nat]
        BY <3>0 DEF Tab
      <4>5. \A r \in tab[t].removed : Gone(db', r)
        BY <2>7, <3>0, <4>4, GoneStays DEF Truthful
      <4>6. OfOne(db', tab[t].options)
        BY <2>7, <3>0, <4>4, OneStays DEF Truthful
      <4>7. tab[t].counted + Cardinality(Untold(t, call'))
                <= Cardinality(Inserts(db'))
        <5>1. tab[t].counted + Cardinality(Untold(t, call))
                  <= Cardinality(Inserts(db))
          BY <3>0 DEF Truthful
        <5>2. Cardinality(Inserts(db')) = Cardinality(Inserts(db)) + 1
          BY <2>7, <3>1
        <5>3. /\ Cardinality(Untold(t, call)) \in Nat
              /\ Cardinality(Inserts(db)) \in Nat
          BY UntoldFinite, InsertsFinite
        <5> QED
          BY <4>3, <4>4, <5>1, <5>2, <5>3
      <4> QED
        BY <3>0, <4>5, <4>6, <4>7 DEF Truthful
    <3>2. CASE ~ (m.kind = "add secret" /\ m.tab = t)
      <4>1. Untold(t, call') \subseteq Untold(t, call)
        BY <2>5, <2>6, <3>2, UntoldWithout
      <4> QED
        BY <2>7, <3>0, <4>1, StaysTruthful
    <3> QED
      BY <3>1, <3>2
  <2>11. ASSUME NEW b \in Calls
         PROVE  Sound(db', call'[b])
    <3>1. CASE b = c
      BY <2>6, <2>9, <3>1
    <3>2. CASE b # c
      <4>1. call[b] \in Call \cup {NoCall} /\ Sound(db, call[b])
        BY DEF Inv, Typed
      <4>2. Sound(db', call[b])
        BY <2>7, <4>1, StaysSound
      <4> QED
        BY <2>6, <3>2, <4>2
    <3> QED
      BY <3>1, <3>2
  <2> QED
    BY <2>7, <2>8, <2>10, <2>11 DEF Inv
<1> QED
    BY <1>1, <1>2
-----------------------------------------------------------------------------
(* Answers.                                                                *)

LEMMA CookieAfterType ==
    ASSUME Inv, NEW m \in Call, Sound(db, m)
    PROVE  CookieAfter(m) \in Cookie
<1>1. cookie \in Cookie /\ NoCookie \in Cookie
    BY DEF Inv, Typed, Cookie, NoCookie
<1>2. m.kind \in {"login", "register"} => Session(m.account) \in Cookie
    BY NotNoCall DEF Sound, Session, Cookie
<1>3. m.kind \in {"login", "register"} =>
          [Session(m.account) EXCEPT !.httponly = FALSE] \in Cookie
    BY <1>2 DEF Cookie
<1>4. CASE m.stage = "failed"
    BY <1>1, <1>4 DEF CookieAfter
<1>5. CASE m.stage # "failed"
    BY <1>1, <1>2, <1>3, <1>5 DEF CookieAfter
<1> QED
    BY <1>4, <1>5

LEMMA EnabledPage ==
    ASSUME NEW p \in Tab, NEW kind
    PROVE  Enabled(p, kind) \in Tab /\ Same(p, Enabled(p, kind))
BY DEF Enabled, Tab, Same

LEMMA PageAfterFailure ==
    ASSUME NEW p \in Tab, NEW m \in Call
    PROVE  AfterFailure(p, m) \in Tab /\ Same(p, AfterFailure(p, m))
<1> DEFINE f == Enabled(p, m.kind)
           e == [f EXCEPT !.deleting = IF m.row # Nobody THEN FALSE ELSE @]
<1>1. f \in Tab /\ Same(p, f)
    BY EnabledPage
<1>2. AfterFailure(p, m) = e
    BY DEF AfterFailure
<1> SUFFICES e \in Tab /\ Same(p, e)
    BY <1>2
<1> HIDE DEF f
<1>3. f.deleting \in BOOLEAN
    BY <1>1 DEF Tab
<1> QED
    BY <1>1, <1>3 DEF Tab, Same

\* A successful call m tells page p, which becomes q, no more than its answer.
Tells(p, q, m) ==
    /\ q \in Tab
    /\ q.removed = p.removed \/ (m.row # Nobody /\ q.removed = p.removed \cup {m.row})
    /\ q.options = p.options \/ (m.kind = "list secrets" /\ q.options = Once(m.list))
    /\ q.counted = p.counted \/ (m.kind = "add secret" /\ q.counted = p.counted + 1)

LEMMA SameTells ==
    ASSUME NEW p, NEW q \in Tab, NEW m, Same(p, q)
    PROVE  Tells(p, q, m)
BY DEF Same, Tells

LEMMA PageAfterSuccess ==
    ASSUME NEW d, NEW p \in Tab, NEW m \in Call, Sound(d, m)
    PROVE  Tells(p, AfterSuccess(p, m), m)
<1>0. /\ m.kind \in Kind /\ m.list \subseteq Secrets
      /\ m.row \in Rows \cup {Nobody} /\ (m.row # Nobody <=> m.kind \in Deletions)
  <2>1. m.kind \in Kind /\ m.list \subseteq Secrets /\ m.row \in Rows \cup {Nobody}
    BY DEF Call
  <2>2. m.row # Nobody <=> m.kind \in Deletions
    BY NotNoCall DEF Sound
  <2> QED
    BY <2>1, <2>2
<1>1. ASSUME NEW url \in Url
      PROVE  LET q == [p EXCEPT !.going = url] IN q \in Tab /\ Same(p, q)
    BY DEF Tab, Same
<1>2. CASE m.kind \in {"login", "register", "logout"}
  <2>1. PICK url \in Url : AfterSuccess(p, m) = [p EXCEPT !.going = url]
    <3>1. /\ m.kind = "login" => AfterSuccess(p, m) = [p EXCEPT !.going = "/"]
          /\ m.kind = "register" =>
                 AfterSuccess(p, m) = [p EXCEPT !.going = "onboarding"]
          /\ m.kind = "logout" =>
                 AfterSuccess(p, m) = [p EXCEPT !.going = "login"]
      BY DEF AfterSuccess, Deletions
    <3>2. "/" \in Url /\ "onboarding" \in Url /\ "login" \in Url
      BY DEF Url, Page
    <3> QED
      BY <1>2, <3>1, <3>2
  <2> QED
    BY <1>1, <2>1, SameTells
<1>3. CASE m.kind = "list secrets"
  <2> DEFINE q == [p EXCEPT !.options = Once(m.list)]
  <2>1. AfterSuccess(p, m) = q
    BY <1>3 DEF AfterSuccess, Refilled, Deletions
  <2>2. Once(m.list) \in [Secrets -> Nat]
    BY DEF Once
  <2>3. q \in Tab
    BY <2>2 DEF Tab
  <2>4. q.removed = p.removed /\ q.counted = p.counted /\ q.options = Once(m.list)
    BY <2>2 DEF Tab
  <2> HIDE DEF q
  <2> QED
    BY <1>3, <2>1, <2>3, <2>4 DEF Tells
<1>4. CASE m.kind = "step" \/ (m.kind = "add recipient" /\ Wizard(p))
  <2>1. AfterSuccess(p, m) = Enabled(p, m.kind)
    BY <1>4 DEF AfterSuccess, Deletions
  <2> QED
    BY <2>1, EnabledPage, SameTells
<1>5. CASE m.kind \in Deletions
  <2> DEFINE q == [p EXCEPT !.rows = @ \ {m.row},
                            !.removed = @ \cup {m.row}, !.deleting = FALSE]
  <2>1. AfterSuccess(p, m) = q
    BY <1>5 DEF AfterSuccess, Deletions
  <2>2. m.row \in Rows /\ m.row # Nobody
    BY <1>0, <1>5
  <2>3. q \in Tab
    BY <2>2 DEF Tab
  <2>4. /\ q.removed = p.removed \cup {m.row} /\ q.counted = p.counted
        /\ q.options = p.options
    BY DEF Tab
  <2> HIDE DEF q
  <2> QED
    BY <2>1, <2>2, <2>3, <2>4 DEF Tells
<1>6. CASE m.kind = "add secret" /\ Wizard(p)
  <2> DEFINE f == Enabled(p, m.kind)
             q == [f EXCEPT !.counted = @ + 1]
  <2>1. AfterSuccess(p, m) = q
    BY <1>6 DEF AfterSuccess, Deletions
  <2>2. f \in Tab /\ Same(p, f)
    BY EnabledPage
  <2> HIDE DEF f
  <2>3. f.counted \in Nat
    BY <2>2 DEF Tab
  <2>4. q \in Tab
    BY <2>2, <2>3 DEF Tab
  <2>5. /\ q.removed = p.removed /\ q.counted = p.counted + 1
        /\ q.options = p.options
    BY <2>2, <2>3 DEF Tab, Same
  <2> HIDE DEF q
  <2> QED
    BY <1>6, <2>1, <2>4, <2>5 DEF Tells
<1>7. CASE m.kind \in {"add secret", "add recipient"} /\ ~ Wizard(p)
  <2> DEFINE q == [p EXCEPT !.reload = TRUE]
  <2>1. AfterSuccess(p, m) = q
    BY <1>7 DEF AfterSuccess, Deletions
  <2>2. q \in Tab /\ Same(p, q)
    BY DEF Tab, Same
  <2> HIDE DEF q
  <2> QED
    BY <2>1, <2>2, SameTells
<1>8. CASE m.kind = "test"
  <2>1. AfterSuccess(p, m) = p
    BY <1>8 DEF AfterSuccess, Deletions
  <2> QED
    BY <2>1, SameSame, SameTells
<1> QED
    BY <1>0, <1>2, <1>3, <1>4, <1>5, <1>6, <1>7, <1>8 DEF Kind, Deletions

\* After call m there is less to tell: one secret, if it was about a secret.
Less(t, x, y, m) ==
    /\ Untold(t, y) \subseteq Untold(t, x)
    /\ m.kind = "add secret" =>
           Cardinality(Untold(t, x)) = Cardinality(Untold(t, y)) + 1

\* An answer that is true leaves the page true.
LEMMA ToldTruth ==
    ASSUME NEW d, NEW p \in Tab, NEW q, NEW m \in Call, NEW t, NEW x, NEW y,
           Truthful(d, x, t, p), Sound(d, m), m.stage = "ok", Tells(p, q, m),
           Less(t, x, y, m)
    PROVE  Truthful(d, y, t, q)
<1>0. /\ q \in Tab /\ p.counted \in Nat /\ q.counted \in Nat
    BY DEF Tells, Tab
<1>1. /\ m.row # Nobody => Gone(d, m.row)
      /\ m.kind = "list secrets" => OfOne(d, Once(m.list))
    BY NotNoCall DEF Sound
<1>2. \A r \in q.removed : Gone(d, r)
    BY <1>1 DEF Tells, Truthful
<1>3. OfOne(d, q.options)
    BY <1>1 DEF Tells, Truthful
<1>4. q.counted + Cardinality(Untold(t, y)) <= Cardinality(Inserts(d))
  <2> DEFINE a == Cardinality(Untold(t, x))
             b == Cardinality(Untold(t, y))
             n == Cardinality(Inserts(d))
             i == p.counted
             j == q.counted
  <2>1. i + a <= n
    BY DEF Truthful
  <2>2. a \in Nat /\ b \in Nat /\ n \in Nat /\ b <= a /\ i \in Nat /\ j \in Nat
    BY <1>0, UntoldFinite, InsertsFinite, FS_Subset DEF Less
  <2>3. j = i \/ (j = i + 1 /\ a = b + 1)
    BY DEF Tells, Less
  <2>4. j + b <= n
    <3> HIDE DEF a, b, n, i, j
    <3> QED
      BY <2>1, <2>2, <2>3
  <2> QED
    BY <2>4
<1> QED
    BY <1>2, <1>3, <1>4 DEF Truthful

LEMMA DeliverStep ==
    ASSUME Inv, NEW c \in Calls, Deliver(c)
    PROVE  Inv'
<1> DEFINE m == call[c]
           t == m.tab
           again == /\ m.stage = "ok" /\ m.kind = "add recipient"
                    /\ t # Nobody /\ Wizard(tab[t])
           k == IF again THEN Asking(t, "list secrets") ELSE NoCall
           p == tab[t]
           q == IF m.stage = "ok" THEN AfterSuccess(p, m) ELSE AfterFailure(p, m)
<1>1. m \in Call /\ Sound(db, m) /\ m.stage \in {"ok", "failed"} /\ c \in Calls
    BY UnderWay DEF Deliver
<1>2. /\ UNCHANGED <<db, acts>> /\ call' = [call EXCEPT ![c] = k]
      /\ cookie' = CookieAfter(m)
      /\ tab' = IF t = Nobody THEN tab ELSE [tab EXCEPT ![t] = q]
      /\ tab \in [Tabs -> Tab] /\ call \in [Calls -> Call \cup {NoCall}]
    BY DEF Deliver, Inv, Typed
<1>3. /\ k \in Call \cup {NoCall} /\ Sound(db', k) /\ k.stage # "ok"
  <2>1. CASE again
    <3>1. t \in Tabs /\ Typed
      BY <1>1, <2>1 DEF Call, Inv
    <3>2. /\ "list secrets" \in Kind /\ "list secrets" \notin Deletions
          /\ "list secrets" \notin {"login", "register"}
      BY DEF Kind, Deletions
    <3>3. k \in Call /\ k.stage = "sent" /\ k.kind = "list secrets" /\ k.row = Nobody
      BY <2>1, <3>1, <3>2, AskingType
    <3> HIDE DEF k
    <3>4. Sound(db, k)
      BY <3>2, <3>3, AskedIsSound
    <3> QED
      BY <1>2, <3>3, <3>4
  <2>2. CASE ~ again
    BY <2>2 DEF NoCall, Sound
  <2> QED
    BY <2>1, <2>2
<1>4. t \in Tabs \cup {Nobody} /\ Nobody \notin Tabs
    BY <1>1, PagesAssumption DEF Call
<1>5. cookie' \in Cookie
    BY <1>1, <1>2, CookieAfterType
<1>6. call'[c] = k /\ \A b \in Calls \ {c} : call'[b] = call[b]
  <2> HIDE DEF k
  <2> QED
    BY <1>2
<1>7. \A u \in Tabs : Untold(u, call') \subseteq Untold(u, call)
  <2> HIDE DEF k
  <2> QED
    BY <1>3, <1>6, UntoldWithout
<1>8. t # Nobody => IF m.stage = "ok" THEN Tells(p, q, m)
                                     ELSE q \in Tab /\ Same(p, q)
    BY <1>1, <1>2, <1>4, PageAfterSuccess, PageAfterFailure
<1>9. ASSUME NEW u \in Tabs
      PROVE  /\ tab'[u] \in Tab
             /\ Truthful(db', call', u, tab'[u])
  <2>0. tab[u] \in Tab /\ Truthful(db, call, u, tab[u])
    BY DEF Inv, Typed
  <2> HIDE DEF q, k
  <2>1. CASE u # t
    <3>1. tab'[u] = tab[u]
      BY <1>2, <2>1
    <3>2. Grown(db, db')
      BY <1>2, GrownSame
    <3> QED
      BY <1>7, <2>0, <3>1, <3>2, StaysTruthful
  <2>2. CASE u = t /\ m.stage = "ok"
    <3>1. tab'[u] = q /\ tab[u] = p /\ Tells(p, q, m)
      BY <1>2, <1>4, <1>8, <2>2
    <3>2. ASSUME m.kind = "add secret"
          PROVE  Cardinality(Untold(u, call)) = Cardinality(Untold(u, call')) + 1
      <4>1. /\ Untold(u, call) = Untold(u, call') \cup {c}
            /\ c \notin Untold(u, call')
        BY <1>1, <1>3, <1>6, <2>2, <3>2 DEF Untold
      <4> QED
        BY <4>1, UntoldFinite, FS_AddElement
    <3>3. Truthful(db, call', u, q)
      <4> HIDE DEF m, t, p
      <4> QED
        BY <1>1, <1>7, <2>0, <2>2, <3>1, <3>2, ToldTruth DEF Less
    <3> QED
      BY <1>2, <3>1, <3>3 DEF Tells
  <2>3. CASE u = t /\ m.stage = "failed"
    <3>1. tab'[u] = q /\ q \in Tab /\ Same(tab[u], q)
      BY <1>2, <1>4, <1>8, <2>3
    <3>2. Grown(db, db')
      BY <1>2, GrownSame
    <3>3. q.removed = tab[u].removed /\ q.counted = tab[u].counted
          /\ q.options = tab[u].options
      BY <3>1 DEF Same
    <3> QED
      BY <1>7, <2>0, <3>1, <3>2, <3>3, StaysTruthful
  <2> QED
    BY <1>1, <2>1, <2>2, <2>3
<1>10. Typed'
  <2> HIDE DEF q, k
  <2>1. tab' \in [Tabs -> Tab]
    <3>1. CASE t = Nobody
      BY <1>2, <3>1
    <3>2. CASE t # Nobody
      <4>1. q \in Tab
        BY <1>8, <3>2 DEF Tells
      <4> QED
        BY <1>2, <3>2, <4>1
    <3> QED
      BY <3>1, <3>2
  <2> QED
    BY <1>2, <1>3, <1>5, <2>1 DEF Inv, Typed
<1>11. ASSUME NEW b \in Calls
       PROVE  Sound(db', call'[b])
  <2> HIDE DEF q, k
  <2> QED
    BY <1>2, <1>3, <1>6 DEF Inv
<1>12. Consistent(db')
    BY <1>2 DEF Inv
<1> QED
    BY <1>9, <1>10, <1>11, <1>12 DEF Inv
-----------------------------------------------------------------------------
(* Pages that are loaded.                                                  *)

\* The rows of a page that is loaded for account a.
RowsOf(d, a, page) == CASE page = "secrets"    -> Own(d, a, Secrets)
                        [] page = "recipients" -> Own(d, a, Recipients)
                        [] OTHER               -> {}

\* The page claims nothing that is not stored.
LEMMA RenderedPage ==
    ASSUME NEW d, Consistent(d), NEW a \in Accounts \cup {Nobody},
           NEW url \in Url
    PROVE  LET q == Rendered(d, a, url)
           IN  /\ q \in Tab /\ q.removed = {} /\ q.going = "nowhere"
               /\ OfOne(d, q.options)
               /\ q.counted <= Cardinality(Inserts(d))
<1> DEFINE page == IF url = "/" THEN "login" ELSE url
           own  == Own(d, a, Secrets)
           rows == RowsOf(d, a, page)
           opts == IF page = "recipients" THEN Once(own) ELSE NoOptions
           n    == IF page = "onboarding" THEN Cardinality(own) ELSE 0
           f    == Fresh(page)
           q    == [f EXCEPT !.rows = rows, !.options = opts, !.counted = n]
<1>1. Rendered(d, a, url) = q
  <2>1. Rendered(d, a, url) =
            [f EXCEPT !.rows = rows,
                      !.options = IF page = "recipients" THEN Once(own) ELSE @,
                      !.counted = IF page = "onboarding" THEN Cardinality(own)
                                                         ELSE @]
    BY DEF Rendered, RowsOf
  <2>2. f.options = NoOptions /\ f.counted = 0
    BY DEF Fresh
  <2> HIDE DEF page, own, rows, f
  <2> QED
    BY <2>1, <2>2
<1>2. page \in Page
    BY DEF Page, Url
<1>3. own \subseteq Inserts(d)
    BY OwnType DEF Inserts, Consistent
<1>4. IsFiniteSet(own) /\ Cardinality(own) \in Nat
      /\ Cardinality(own) <= Cardinality(Inserts(d))
    BY <1>3, InsertsFinite, FS_Subset, FS_CardinalityType
<1>5. rows \subseteq Rows
    BY OwnType DEF RowsOf, Rows
<1>6. opts \in [Secrets -> Nat]
    BY DEF Once, NoOptions
<1>7. OfOne(d, opts)
  <2>1. PICK b \in Accounts : a \in Accounts => a = b
    BY PagesAssumption
  <2>2. ASSUME NEW s \in Secrets
        PROVE  opts[s] <= IF d.owner[s] = b THEN 1 ELSE 0
    <3>1. opts[s] = IF page = "recipients" /\ s \in own THEN 1 ELSE 0
      BY DEF Once, NoOptions
    <3>2. s \in own => d.owner[s] = b
      BY <2>1, OwnType DEF Consistent
    <3> HIDE DEF opts, own, page
    <3> QED
      BY <3>1, <3>2
  <2> QED
    BY <2>2 DEF OfOne
<1>8. n \in Nat /\ n <= Cardinality(Inserts(d))
    BY <1>4, InsertsFinite
<1>9. /\ f \in Tab /\ f.removed = {} /\ f.going = "nowhere"
  <2>1. NoOptions \in [Secrets -> Nat] /\ "other" \in Card
    BY DEF NoOptions, Card
  <2> HIDE DEF page
  <2> QED
    BY <1>2, <2>1 DEF Fresh, Tab
<1> SUFFICES /\ q \in Tab /\ q.removed = {} /\ q.going = "nowhere"
             /\ OfOne(d, q.options) /\ q.counted <= Cardinality(Inserts(d))
    BY <1>1
<1> HIDE DEF page, own, rows, opts, n, f
<1>10. q \in Tab
    BY <1>5, <1>6, <1>8, <1>9 DEF Tab
<1>11. /\ q.removed = f.removed /\ q.going = f.going /\ q.options = opts
       /\ q.counted = n
    BY <1>9 DEF Tab
<1> QED
    BY <1>7, <1>8, <1>9, <1>10, <1>11

\* A page that sent no call is true when it is loaded.
LEMMA LoadedTruth ==
    ASSUME NEW d, NEW q \in Tab, NEW t, NEW y, Untold(t, y) = {},
           q.removed = {}, OfOne(d, q.options),
           q.counted <= Cardinality(Inserts(d))
    PROVE  Truthful(d, y, t, q)
<1>1. Cardinality(Untold(t, y)) = 0 /\ q.counted \in Nat
    BY FS_EmptySet DEF Tab
<1> QED
    BY <1>1 DEF Truthful

LEMMA LoadStep ==
    ASSUME Inv, NEW t \in Tabs, Load(t)
    PROVE  Inv'
<1> DEFINE url  == tab[t].going
           next == Redirect(db, cookie, url)
<1>0. /\ tab \in [Tabs -> Tab] /\ tab[t] \in Tab /\ url # "nowhere"
      /\ url \in Url /\ UNCHANGED <<db, cookie, acts>> /\ acts' \in 0 .. MaxActs
      /\ Consistent(db) /\ Consistent(db') /\ Grown(db, db')
    BY GrownSame DEF Load, Inv, Typed, Tab
<1>1. CASE next # "nowhere"
  <2> DEFINE new == [tab[t] EXCEPT !.going = next]
  <2>1. tab' = [tab EXCEPT ![t] = new] /\ UNCHANGED <<db, cookie, call>>
    BY <1>0, <1>1 DEF Load
  <2>2. next \in Url \cup {"nowhere"}
    BY DEF Redirect, Url, Page
  <2>3. new \in Tab /\ Same(tab[t], new)
    BY <1>0, <2>2 DEF Tab, Same
  <2> HIDE DEF new
  <2> QED
    BY <1>0, <2>1, <2>3, PageStep
<1>2. CASE next = "nowhere"
  <2> DEFINE q == Rendered(db, User(cookie), url)
  <2>1. tab' = [tab EXCEPT ![t] = q] /\ call' = Leave(t)
    BY <1>2 DEF Load
  <2>2. /\ q \in Tab /\ q.removed = {} /\ OfOne(db, q.options)
        /\ q.counted <= Cardinality(Inserts(db))
    BY <1>0, UserType, RenderedPage DEF Inv
  <2> HIDE DEF q
  <2>3. ASSUME NEW c \in Calls
        PROVE  /\ call'[c] \in Call \cup {NoCall} /\ Sound(db, call'[c])
               /\ call'[c].stage = call[c].stage /\ call'[c].kind = call[c].kind
               /\ \/ call'[c].tab = call[c].tab /\ call[c].tab # t
                  \/ call'[c].tab = Nobody
                  \/ call'[c] = NoCall
    <3>1. call[c] \in Call \cup {NoCall} /\ Sound(db, call[c])
      BY DEF Inv, Typed
    <3>2. CASE call[c] # NoCall /\ call[c].tab = t
      <4> DEFINE m == call[c]
                 k == [m EXCEPT !.tab = Nobody]
      <4>1. call'[c] = k
        BY <2>1, <3>2 DEF Leave
      <4>2. m \in Call
        BY <3>1, <3>2
      <4> HIDE DEF m
      <4>3. /\ k \in Call /\ k.stage = m.stage /\ k.kind = m.kind
            /\ k.row = m.row /\ k.account = m.account /\ k.list = m.list
            /\ k.tab = Nobody
        BY <4>2 DEF Call
      <4> HIDE DEF k
      <4>4. Sound(db, k)
        <5>1. Sound(db, m) /\ m # NoCall
          BY <3>1, <3>2 DEF m
        <5> QED
          BY <4>3, <5>1 DEF Sound
      <4> QED
        BY <4>1, <4>3, <4>4 DEF m
    <3>3. CASE ~ (call[c] # NoCall /\ call[c].tab = t)
      <4>1. call'[c] = call[c]
        BY <2>1, <3>3 DEF Leave
      <4> QED
        BY <3>1, <3>3, <4>1
    <3> QED
      BY <3>2, <3>3
  <2>a. ASSUME NEW u \in Tabs, NEW c \in Untold(u, call')
        PROVE  u # t /\ c \in Untold(u, call)
    <3>1. /\ c \in Calls /\ call'[c].stage = "ok" /\ call'[c].tab = u
          /\ call'[c].kind = "add secret"
      BY DEF Untold
    <3>2. u # Nobody
      BY PagesAssumption
    <3>3. NoCall.stage = "none"
      BY DEF NoCall
    <3>4. call'[c] # NoCall
      BY <3>1, <3>3
    <3> QED
      BY <2>3, <3>1, <3>2, <3>4 DEF Untold
  <2>4. Untold(t, call') = {}
    BY <2>a
  <2>5. ASSUME NEW u \in Tabs
        PROVE  Untold(u, call') \subseteq Untold(u, call)
    BY <2>a
  <2>6. ASSUME NEW u \in Tabs
        PROVE  Truthful(db', call', u, tab'[u])
    <3>1. CASE u = t
      <4>1. tab'[u] = q
        BY <1>0, <2>1, <3>1
      <4> QED
        BY <1>0, <2>2, <2>4, <3>1, <4>1, LoadedTruth
    <3>2. CASE u # t
      <4>1. /\ tab'[u] = tab[u] /\ tab[u] \in Tab
            /\ Truthful(db, call, u, tab[u])
        BY <1>0, <2>1, <3>2 DEF Inv
      <4> QED
        BY <1>0, <2>5, <4>1, StaysTruthful
    <3> QED
      BY <3>1, <3>2
  <2>7. Typed'
    <3>1. call' \in [Calls -> Call \cup {NoCall}]
      BY <2>1, <2>3 DEF Leave
    <3>2. tab' \in [Tabs -> Tab]
      BY <1>0, <2>1, <2>2
    <3> QED
      BY <1>0, <3>1, <3>2 DEF Inv, Typed
  <2>8. \A c \in Calls : Sound(db', call'[c])
    BY <1>0, <2>3
  <2> QED
    BY <1>0, <2>6, <2>7, <2>8 DEF Inv
<1> QED
    BY <1>1, <1>2

-----------------------------------------------------------------------------
(* The invariant.                                                          *)

LEMMA InitInv == Init => Inv
<1> SUFFICES ASSUME Init
             PROVE  Inv
    OBVIOUS
<1>1. /\ db \in Database /\ cookie = Session(Visitor)
      /\ \A r \in Rows : db.owner[r] \in {HolderOf[r], Nobody}
      /\ db.stored = {r \in Rows : db.owner[r] # Nobody}
      /\ \A r \in Recipients :
             IF r \in db.stored
             THEN db.secretOf[r] \in Own(db, db.owner[r], Secrets)
             ELSE db.secretOf[r] = Nobody
      /\ call = [c \in Calls |-> NoCall] /\ acts = 0
    BY DEF Init
<1>2. Consistent(db)
    BY <1>1, OwnType DEF Consistent
<1>3. \A t \in Tabs : Untold(t, call) = {}
    BY <1>1 DEF Untold, NoCall
<1>4. ASSUME NEW t \in Tabs
      PROVE  tab[t] \in Tab /\ Truthful(db, call, t, tab[t])
  <2>1. CASE \E page \in Outside : tab[t] = Fresh(page)
    <3> PICK page \in Outside : tab[t] = Fresh(page)
      BY <2>1
    <3>1. page \in Page /\ "other" \in Card /\ NoOptions \in [Secrets -> Nat]
      BY DEF Outside, Page, Card, NoOptions
    <3>2. /\ tab[t] \in Tab /\ tab[t].removed = {} /\ tab[t].counted = 0
          /\ tab[t].options = NoOptions
      BY <3>1 DEF Fresh, Tab
    <3>3. \A s \in Secrets : NoOptions[s] <= IF db.owner[s] = Visitor THEN 1 ELSE 0
      BY DEF NoOptions
    <3>4. OfOne(db, tab[t].options)
      BY <3>2, <3>3, PagesAssumption DEF OfOne
    <3>5. tab[t].counted <= Cardinality(Inserts(db))
      BY <3>2, InsertsFinite
    <3> QED
      BY <1>3, <3>2, <3>4, <3>5, LoadedTruth
  <2>2. CASE \E page \in Listing : tab[t] = Rendered(db, Visitor, page)
    <3> PICK page \in Listing : tab[t] = Rendered(db, Visitor, page)
      BY <2>2
    <3>1. page \in Url
      BY DEF Listing, Url, Page
    <3>2. /\ tab[t] \in Tab /\ tab[t].removed = {} /\ OfOne(db, tab[t].options)
          /\ tab[t].counted <= Cardinality(Inserts(db))
      BY <1>2, <3>1, PagesAssumption, RenderedPage
    <3> QED
      BY <1>3, <3>2, LoadedTruth
  <2> QED
    BY <2>1, <2>2 DEF Init
<1>5. Typed
  <2>1. cookie \in Cookie
    BY <1>1, PagesAssumption DEF Session, Cookie
  <2>2. tab \in [Tabs -> Tab]
    BY <1>4 DEF Init
  <2>3. acts \in 0 .. MaxActs
    BY <1>1, PagesAssumption
  <2> QED
    BY <1>1, <2>1, <2>2, <2>3 DEF Typed
<1>6. \A c \in Calls : Sound(db, call[c])
    BY <1>1 DEF Sound
<1> QED
    BY <1>2, <1>4, <1>5, <1>6 DEF Inv

LEMMA NextInv == Inv /\ [Next]_vars => Inv'
<1> SUFFICES ASSUME Inv, [Next]_vars
             PROVE  Inv'
    OBVIOUS
<1>1. CASE UNCHANGED vars
    BY <1>1 DEF vars, Inv, Typed, Truthful, Sound
<1>2. CASE Next
    BY <1>2, InputStep, LoadStep, ReloadStep, ServeStep, LoseStep, DeliverStep,
       ExpireStep DEF Next
<1> QED
    BY <1>1, <1>2

LEMMA InvHolds == Spec => []Inv
BY InitInv, NextInv, PTL DEF Spec

-----------------------------------------------------------------------------
(* What follows.                                                           *)

\* Every variable of the browser and of the server keeps its type, for any
\* accounts, rows, tabs, calls and bounds; in particular an answer that
\* arrives after its page was left finds no page to change.
THEOREM PagesKeepTheirTypes == Spec => []TypeOK
<1>1. Inv => TypeOK
    BY DEF Inv, Typed, TypeOK
<1> QED
    BY <1>1, InvHolds, PTL

\* A recipient has a secret of its own account, for any number of accounts
\* that take turns in any number of tabs: create_recipient looks the secret up
\* for the account of the cookie, whatever the dropdown offered, and a secret
\* that is assigned is not deleted.
THEOREM RecipientsAreOwn == Spec => []OwnRecipients
<1>1. Inv => OwnRecipients
    BY DEF Inv, Consistent, OwnRecipients
<1> QED
    BY <1>1, InvHolds, PTL

\* A row that a script took out of its table is gone from the database, for
\* any number of tabs and calls: it goes only with a successful answer, and its
\* id is not used again.
THEOREM RemovedIsGone == Spec => []RemovedRowsAreGone
<1>1. Inv => RemovedRowsAreGone
    BY DEF Inv, Truthful, Gone, RemovedRowsAreGone
<1> QED
    BY <1>1, InvHolds, PTL

\* A dropdown holds the secrets of one account, each of them once, whatever
\* the order of the answers that filled it: setupStep4 replaces the options.
THEOREM DropdownsAreOneList == Spec => []DropdownIsOneList
<1>1. Inv => DropdownIsOneList
    BY DEF Inv, Truthful, OfOne, DropdownIsOneList
<1> QED
    BY <1>1, InvHolds, PTL

\* The wizard never claims more secrets than were stored, for any number of
\* tabs, calls that are refused or lost, and pages that are left: every
\* successful answer that has still to arrive is about a secret of its own.
THEOREM TheWizardCounts == Spec => []CountedWereStored
<1>1. Inv => CountedWereStored
  <2> SUFFICES ASSUME Inv, NEW t \in Tabs
               PROVE  tab[t].counted <= Cardinality(Inserts(db))
    BY DEF CountedWereStored, Inserts
  <2>1. tab[t] \in Tab /\ Truthful(db, call, t, tab[t])
    BY DEF Inv, Typed
  <2>2. tab[t].counted + Cardinality(Untold(t, call)) <= Cardinality(Inserts(db))
    BY <2>1 DEF Truthful
  <2>3. /\ tab[t].counted \in Nat /\ Cardinality(Untold(t, call)) \in Nat
        /\ Cardinality(Inserts(db)) \in Nat
    BY <2>1, UntoldFinite, InsertsFinite DEF Tab
  <2> QED
    BY <2>2, <2>3
<1> QED
    BY <1>1, InvHolds, PTL

=============================================================================
