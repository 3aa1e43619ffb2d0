# RUThere in TLA+

RUThere (`app/`) is a dead-man's switch. A user stores secrets and names
recipients; the server sends a heartbeat link every so often; a user who stops
answering is first warned by email and then counted as missing; after enough
misses the secrets are mailed to the recipients. This directory holds a model
of it: TLA+ modules translated from the source, TLC configurations that check
them on small instances, and proofs that TLAPS checks for every instance.

All line numbers refer to the repository; `PROJECT.json` maps every definition
to the lines it stands for.

## 1. The system

| Component | State | Operations | Talks to |
| --- | --- | --- | --- |
| Active hours (`services/scheduler.py:36-91`) | none: pure functions of a user's row | `compute_next_heartbeat`, `_hour_in_active_window` | jobs, settings endpoint, dashboard |
| Heartbeat jobs (`services/scheduler.py:94-417`) | the two tables `users` and `heartbeat_log`, through one session per pass | `heartbeat_dispatcher` (every 5 min), `check_escalations` (every 15 min), `cleanup_old_logs` (daily), `start_scheduler` | database, notifications, trigger |
| Heartbeat API (`api/heartbeat.py`) | same tables, one session per request | confirm by link, settings (pause, resume, configuration), test heartbeat; status and history only read | database, notifications |
| Trigger (`services/trigger.py`) | `trigger_log`, `reveal_tokens`, the user's row | `execute_trigger`: email every recipient, log, deactivate the user | called by both jobs inside *their* session; notifications |
| Database sessions (`database.py`, `models/models.py`) | rows on disk, SQLite's write lock, one identity map per session | load, flush, commit, rollback | everything |
| Notifications (`services/notify.py`) | none | push, email; may fail, takes an `await` | everything |
| Secrets and recipients (`api/secrets.py`, `api/recipients.py`) | `secrets`, `recipients`, `reveal_tokens` | CRUD, delete guarded by a count, reveal by token | database |
| Vault (`services/vault.py`), browser encryption (`static/js/e2e.js`) | none | AES-GCM on bytes | secrets, trigger |
| Simulation (`api/simulate.py`) | rows of the same tables, marked `sim-` | the four steps of a rehearsal, reset | everything |
| Authentication (`services/auth.py`, `api/auth.py`) | `users`; a token of 72 hours in a cookie | register, login, logout, the user a request is for | every endpoint and page |
| Web pages (`api/web.py`) | per tab: table, dropdown, wizard step and count, disabled buttons | redirects, forms and deletions over the API, the onboarding wizard, dashboard | all APIs, the cookie |
| Texts (`i18n/`), configuration (`config.py`) | none | - | - |

One asyncio process runs everything. Code between two `await`s is atomic;
everything else interleaves. What makes it hard:

* **Stale rows.** A job pass loads its users once, sends emails and pushes
  (each an `await`) and writes what it computed from the rows it loaded.
  `expire_on_commit=False` and SQLAlchemy's identity map keep the old values;
  a flush writes only the *columns* that differ from the loaded value.
* **Two jobs, one heartbeat.** Dispatcher and checker both call
  `_check_outstanding_heartbeats`, on the same users, at the same time.
* **One write lock.** The session that flushed first holds SQLite's lock until
  it commits, even over an email; others wait, and time out.
* **Partial failure.** A failed flush ends the pass and rolls back what the
  pass had not committed, but not the emails it sent. A crash does the same.
* **Shared tables.** Real, test and simulated heartbeats differ in the prefix of
  their token only, and every query has to look at it.
* **Shared cookie.** Tabs act for whoever signed in last, in any of them, with
  what their page showed before; calls overtake each other and get lost.
* **Time.** Two response windows, a 24-hour horizon, active hours, daylight
  saving, and timestamps that SQLite returns without a time zone.

What each component owes: *jobs* - warn before counting, give both windows,
count a heartbeat once, settle every heartbeat in time, never leave a due user
behind, finish every pass; *trigger* - fire only when earned, log exactly what
was delivered; *API* - a confirmation is final, a link that was sent works;
*active hours* - inside the window, not early, not later than needed;
*simulation* - invisible to the real switch, exact in what it reports;
*pages* - nothing of one account stored with another's, nothing shown as done
that was not, no endless redirect and no button dead for good.

## 2. The modules

| Module | Models | Role |
| --- | --- | --- |
| `ActiveWindow` | `compute_next_heartbeat` and the part of `zoneinfo` it needs | pure operators, parameterised by the length of hour and day |
| `Upcoming` | the chain of upcoming times on the dashboard (`api/web.py:622-636`) | drives `ActiveWindow` through every zone, window, interval and start |
| `CheckIn` | both jobs, clean-up, start-up, trigger, heartbeat API, sessions, clock, crashes | the core; `Window == INSTANCE ActiveWindow WITH MinutesPerHour <- 1` |
| `CheckInPromises` | no code | what docs and tests say of `CheckIn` and the code does not do |
| `MCUpcoming`, `MCCheckIn` | no code | instances for TLC |
| `DeadMansSwitch` | no code: the promise of `README.md:8-11` | abstract specification, without jobs, sessions and requests |
| `CheckInRefinement` | no code | `CheckIn` implements `DeadMansSwitch` |
| `Simulation` | steps 1 to 4 and reset of the rehearsal, taps on links, what the dashboard lists | the rehearsal next to the real switch |
| `Pages` | redirects, cookie, tabs, forms, wizard, the API as they see it | the browser and the server |
| `MCSimulation`, `MCPages` | no code | instances for TLC, and what the docs say of the rehearsal |
| `CheckInProofs`, `CheckInRowProofs`, `CheckInSwitchProofs` | no code | theorems about `CheckIn`, each module on top of the one before; the last one proves `CheckInRefinement` |
| `CheckInTimeProofs` | no code | the deadlines of `CheckIn`, on top of `CheckInRowProofs` |
| `Vault` | secrets, recipients, reveal tokens, delivery by the trigger and by step 4 of the simulation, its reset | what is handed over, and to whom |
| `MCVault` | no code | instances of `Vault` for TLC |
| `VaultProofs` | no code | theorems about `Vault` |
| `UpcomingProofs`, `SimulationProofs`, `PagesProofs` | no code | theorems about `Upcoming`, `Simulation` and `Pages` |

`CheckIn` says when a trigger fires and what it does to the user; `Vault` takes
a trigger that may fire at any time and says what it hands over. They meet in
`execute_trigger`, which both model: `CheckIn` its effect on the switch
(`Deliver`, `CommitTrigger`, `Deactivate`), `Vault` its loop over recipients.
What `Vault` allows is a superset of what `CheckIn` lets happen.

### How `CheckIn` corresponds to the code

*Sessions.* `db` is the committed database, `wal` the one that the holder
`writer` of the write lock sees. Session `s` holds rows `mine[s]`, which were
`base[s]` when loaded or last flushed. `Merged(s, m)` is the database after a
flush: column by column, the session's value where it differs from the loaded
one. `Flush` and `Commit` are guarded by `MayWrite`; where it does not hold the
session can only `Abort`, which is `OperationalError: database is locked` or
`StaleDataError`, and the `except` around the pass. A session that waits for
the lock is one that has neither flushed nor aborted yet.

*Jobs.* `task[j].pc` is the place in the pass:

| `pc` | where | steps |
| --- | --- | --- |
| `idle` | between passes | `StartPass` (the first SELECT) |
| `scan` | the loop over users | `Reschedule`, `SelectExpired`, `FinishScan` |
| `check` | the loop over the user's expired heartbeats | `Escalate`, `RaiseTypeError`, `Leave`, `Miss`, `NextUser`, `CreateBeat` |
| `mail` | the escalation email was sent, the flush is next | `FlushEscalation` |
| `trigger`, `deactivate` | `execute_trigger` | `Deliver`, `CommitTrigger`, `Deactivate` |
| `commit` | the last commit | `FinishPass` |
| `notify` | phase 2 of the dispatcher | `Notify` |

*Requests.* `OpenLink`, `FindUser`, `Confirm` are the three parts of
`respond_to_heartbeat` between its awaits; `OpenSettings`, `SaveSettings` and
`SendTest`, `FinishTest` those of the other two endpoints.

*Emails.* `send_email` answers False on a refusal and on any exception, its
timeout of ten seconds included (`notify.py:111-141`): the mail service may have
accepted an email that counts as failed. `Deliver` and `Vault!Mail` have all
three outcomes; only a confirmed delivery is logged.

*Ghosts.* `known`, `warned`, `counted`, `mailed` and `acked` record what the
world has seen (links, escalation emails, counted misses, emails that were
accepted, and those confirmed in time); no action reads them except `OpenLink`,
which needs a link that was sent.

### How `Vault` corresponds to the code

`db` is the committed database, `task[s]` what session `s` is doing: what it
loaded (`assigned`, `cache`) and the rows it has not committed (`tokens`,
`log`). A request writes right before its commit, so that its write is one step
(`Write`); a delivery flushes a token, and so holds the lock, over its emails.

| `pc` | where | steps |
| --- | --- | --- |
| `idle` | no request or pass | `CreateSecret`, `OpenSecret`, `OpenRecipient`, `DeleteRecipient`, `Reveal`, `OpenReset`, `Fire` |
| `update` | `update_secret` after its SELECT | `UpdateSecret` |
| `count`, `children`, `delete` | `delete_secret`: its own count, the SELECT of the unit of work, the DELETE | `CountRecipients`, `DeleteSecret` |
| `create`, `reassign` | `create_recipient`, `update_recipient` after the secret was found | `CreateRecipient`, `UpdateRecipient` |
| `next` | the loop of `execute_trigger` | `SkipRecipient`, `SendText`, `SendLink`, `FinishDelivery` |
| `mail` | an email is on its way | `Mail` |
| `reset` | `sim_reset` after its SELECTs | `Reset` |

A plaintext is the number of its encryption. A row carries the number in each
column the encryption fills (content, nonce, tag, salt), so that a row that
mixes two encryptions does not open (`Opens`); a column that holds none is 0.
`update_secret` takes from an end-to-end client whatever columns it sends
(`Sent`): a missing nonce or tag is NULL, which the table refuses (`Storable`,
and the request fails), a missing salt is NULL, which it stores. `Resealed` is
the UPDATE, which sets the columns that differ from those loaded. The ghosts:
`origin` is the secret an encryption was made for and the columns that came
with it, `begun` what each secret held when a trigger
began, `promised` every assignment ever committed, `posted` the letter that a
recipient's mail server accepted in the last step, and `links` the links in
emails that were accepted; a crash clears it, since after one nothing is promised
of them.

### How `DeadMansSwitch` relates to `CheckIn`

The switch has heartbeats that pass through stages, warnings, verdicts and
emails to recipients. `CheckInRefinement` maps `stage` and `owner` to the
*committed* rows `db.log`, and `warned`, `judged`, `told` to what the world has
seen (`warned`, `counted`, `mailed`). One commit of a pass moves several
heartbeats at once (`Advance`); what sessions hold is invisible. `Follows` is
where the code differs from what one would write first: "responded" is not
final, because a job that loaded the heartbeat before may overrule it (finding
`stale_flush`), and a late answer may overrule "missed" in the same way. What
remains is the order of the promise: warned before escalated, escalated before
judged, judged often enough before anybody is told - also for a pass that is
rolled back after its emails. `Thresholds` are the ones that can be
configured, as a trigger uses the threshold its session loaded.

### How `Simulation` corresponds to the code

The rows of one user: `db.beats`, in the order of `sent_at`, each with or
without the `sim-` prefix; the miss counter; the trigger log. A request is a
`task` with the rows it selected.

| `pc` | where | steps |
| --- | --- | --- |
| `idle` | no request | `SendSimulated` (the flush of step 1), `OpenStep` (the SELECT of 2 and 3), `FireSimulated`, `OpenReset`, `OpenLink` |
| `push`, `email` | a message is on its way | `Push`, `Email` |
| `count` | the flush and `_count_sim_misses` | `Count` |
| `fire` | the end of step 4 | `LogSimulated` |
| `forget`, `forget log` | the two loops of `sim_reset` | `ForgetBeats`, `ForgetLog` |
| `reply` | the commit of `get_db` | `Reply` |
| `open`, `confirm` | `respond_to_heartbeat` | `FindUser`, `Confirm` |

Step 1 holds the write lock over its push and email, step 2 takes it after its
email; that difference is what `ReplyIsExact` depends on. The jobs are there as
single steps `SendReal`, `EscalateReal`, `JudgeReal` that take any heartbeat
they may select, at any time: more than `CheckIn` lets happen.
`Dashboard` is what `web.py:85-126` shows, with its page of ten cut to one.

### How `Pages` corresponds to the code

`tab[t]` is a document: its page, where it is `going`, the rows of its table
(`removed`: those its script took out), its dropdown `options`, the wizard's
card and count, and the buttons and flags its script holds (`busy`,
`deleting`). `cookie` is the browser's: an `HttpOnly` one from a login, or one
the registration page wrote, which a browser does not let it do over an
`HttpOnly` one. `call[c]` is a request under way:

| Step | where |
| --- | --- |
| `Open`, `Load`, `Reload` | a link, the GET with its redirects (`Redirect`, `web.py:47-89`) and the page (`Rendered`), `location.reload` |
| `Identify`, `LogOut`, `AddSecret`, `AddRecipient`, `Delete`, `RunStep`, `TestHeartbeat`, `GoToStep` | the handlers of the pages, up to their `fetch` |
| `Serve` | the endpoint, for the account of the cookie the call was sent with; refused if that token has expired |
| `Lose` | the connection breaks, before or after the call was served |
| `Deliver` | the cookie of the answer, then the rest of the handler (`AfterSuccess`, `AfterFailure`); nobody, if the page was left |
| `Expire` | the token, then the cookie |

### What is abstracted in `CheckIn`

* A tick is an hour. A job completes at least one pass per hour while the
  process is up, and no pass or request lasts over a tick: `Tick` waits for
  that. (The code runs them every 5 and 15 minutes.)
* An INSERT and the flush behind it are one step, as nothing awaits between.
* Users are in a zone at UTC. Zones and daylight saving are `Upcoming`'s.
* Every session reads what is committed at the moment of the SELECT. SQLite's
  snapshot of a reading transaction is not modelled beyond the identity map.
* Heartbeats are numbers; the id is the response token. `Scheduled` ones come
  from the dispatcher, the others carry the `test-` prefix.
* Every recipient has a secret; `Vault` has those that are skipped.
* A user is registered, with a first heartbeat planned (`NewUser`), before the
  model starts.
* `TimestampsAware` says whether the driver returns aware datetimes. `FALSE`
  is the build as shipped (SQLite drops the time zone), with the runs `live`,
  `naive_verdict` and `stale_flush`. The runs about misses
  and triggers take `TRUE`: with `FALSE` no heartbeat is ever judged (finding
  `naive_verdict`, and proved as the second half of `VerdictsAreInTime`), and
  there would be nothing to check.

### What is abstracted in `Vault`

* One user's rows: every query selects by the user's id.
* Requests that are refused without touching a row (400, 401, 422), updates of
  titles, names and addresses, and the invitation email.
* Which client sends an update: the pages of the repository send none, so that
  every body a client of the API may send is possible.
* The server's key does not change, so that a genuine row always decrypts. An
  end-to-end row opens with the passphrase of its encryption.
* Each SELECT reads what is committed, except that it does not refresh a row
  the session still holds (`Loaded`). The identity map is weak: between two
  recipients it holds the secret of the first (`Holding`), and after the loop
  none (`AfterDelivery`).

### What is abstracted in `Simulation` and `Pages`

* `Simulation` has one user, no `test-` heartbeats (the queries treat them like
  `sim-` ones), no clean-up, and does not say how much time passes. What step 4
  mails is in `Vault`; here it only logs.
* `Pages` serves a call in one step: overlap inside the server is for `Vault`
  and `CheckIn`. Passwords are right or the call is refused. The settings and
  simulation pages stand under "dashboard", as they redirect in the same way
  and list no rows; of the settings form and the secret viewer nothing is
  modelled.
* Inputs a script or the browser's validation refuses, alerts and texts.

## 3. The runs

Instances have a day of six hours, of which five are active, one-hour windows
and a horizon of six hours; `MC*.cfg` names every bound.

| Run | Instance | Checks |
| --- | --- | --- |
| `upcoming` | 7 zones with and without a change, all windows of a 6-hour day, chains of 4 | `LandsInWindow`, `NeverEarly`, `NoActiveMinuteSkipped` |
| `races` | 1 user, 2 scheduled and 1 test heartbeat, 1 request, threshold 2, 7 hours | `EscalationBeforeMiss`, `MissTakesTwoWindows`, `TriggerIsEarned`, `LinkIsLive`, `AuditMatchesMail`, `ImplementsSwitch` |
| `crash` | 2 users, one with two recipients and one with none, 2 heartbeats, 2 crashes, 6 hours | the ones a crash endangers: `EscalationBeforeMiss`, `LinkIsLive`, `AuditMatchesMail`; and `PassTerminates`, triggers included |
| `daily` | interval of 5 hours, pause and resume at any time, 2 heartbeats, 12 hours | `VerdictInTime`, `EscalatedInTime`, `NeverOverdue` |
| `live` | naive timestamps, as shipped; 4 hours, retention of 1 hour, so that rows vanish under a pass | `PassTerminates` |
| `vault` | 2 secrets, 2 recipients, a job and a request, 2 encryptions, 1 reveal token, 2 deliveries | `OnlyAssignedIsSent`, `LogHasItsToken`, `LinksAreKept`, `StoredSecretsOpen`, `LettersAreCurrent` |
| `simulation` | 3 heartbeats of either kind, 2 overlapping requests, threshold 2, 1 trigger, a page of 1 row | `RehearsalIsInvisible`, `OnlyRealSilenceCounts`, `ReplyIsExact` |
| `pages` | 2 tabs, 2 accounts, 2 calls under way, 2 secrets, a recipient, any of their rows stored at first, one tab showing the first account's rows, the other opened before the login; 3 acts (or expiries) | `OwnRecipients`, `RemovedRowsAreGone`, `DropdownIsOneList`, `CountedWereStored`, `ComesToRest` |
| `naive_verdict`, `inactive_trigger`, `stale_flush`, `rehearsal` | those of `CheckIn` with 1 user, that of `simulation` | the findings below |

Why the bounds suffice: a heartbeat takes at most four hours from sending to
verdict with one-hour windows, so five hours hold a trigger, seven hours hold two overlapping ones, and
twelve hours two that do not overlap; every race the code allows is between two
jobs and one request (sessions do not interact with two others at a time except
through the lock, which a third only keeps busy longer); two heartbeats are the
threshold; two crashes let the second hit the recovery from the first. `MaxBeats` is a
bound of the model only: the clock goes on without the dispatcher once a pass
would need more heartbeats, and `NeverOverdue` speaks of the time before that
(`HasRoom`). In
`Vault`, two secrets and two recipients are what a mix-up needs, two encryptions
what a replacement needs, and two deliveries let a real one overlap, or follow,
a simulated one. Secrets and recipients are symmetric. The run has one request
at a time, next to the trigger or to a simulation: a second one takes it past
five minutes. What two overlapping requests do to each other is left to the
proofs, which say the same for every number of sessions, secrets and recipients;
what they break is in section 4. In `Simulation`, every race is between two
sessions, since a third waits for the same lock; three heartbeats are one
simulated, one real and one more of either, so that the page of one row has
something to lose. In `Pages`, what can go wrong needs a page filled for one
account, a second account that signs in elsewhere, and one act on the old page;
start states with rows already stored save the acts that would store them, and
a call that is delayed or lost costs no act. Two secrets let a dropdown mix
those of two accounts (the mutant of `DropdownIsOneList` does, after three acts
and their calls), and one be deleted while another is assigned.

Deadlock is checked in all `CheckIn` runs: the clock stops at `MaxTime` but
passes go on, so a real stop is an error, and in `Vault` and `Simulation`. The
chain of `Upcoming` ends, and so do the acts of `Pages`.

### Fairness

`FairSpec` gives weak fairness to `Pass(j)` and `Handle(r)`: asyncio runs every
coroutine that can continue, and a database call that waits for the lock
returns or raises within `busy_timeout`. Starting passes, requests, crashes and
the clock are not fair: `PassTerminates` does not need them. `crash` checks it
for passes that fire the trigger, `live` for passes that end in an exception
and for requests. The properties
about *time* (`VerdictInTime`, `EscalatedInTime`, `NeverOverdue`) are
invariants over the clock; what they rely on is that `Tick` waits for a pass of
each job, which is the interval triggers of `start_scheduler`.

In `Pages`, the browser loads the page it is going to, the server answers a
call that was not lost, and the script that waits for it goes on
(`WF_vars(Load)`, `Reload`, `Serve`, `Deliver`). What the user does, lost
connections and expiring tokens are not fair. `ComesToRest` is `[]<>` of a
quiet browser: since the acts are bounded, it says that after the last act
redirects end and buttons come back.

## 4. Findings

Four statements of the repository that the code does not keep; `PROJECT.json`
quotes them, and TLC shows a behaviour for each.

* `naive_verdict` - SQLite returns naive datetimes, the comparison raises
  `TypeError`, which is logged per user: no heartbeat is ever missed and the
  trigger never fires.
* `inactive_trigger` - heartbeats open when the trigger fired fire it again.
* `stale_flush` - a confirmation during the escalation email is overwritten.
* `rehearsal` - the link of a simulated heartbeat is answered by
  `respond_to_heartbeat`, which resets the real miss counter.

Four more, which TLC found in other configurations of the same modules, each
beside what does hold:

* Heartbeats that were open when a later one was confirmed are still counted
  when they lapse, and a pass that loaded the counter before a confirmation
  writes over its reset, so that the misses before a trigger need not be
  consecutive (`README.md:27`). `TriggerIsEarned` and `DeadMansSwitch` therefore
  count different heartbeats over the whole run.
* In the build as shipped the exception of `naive_verdict`, once one heartbeat
  of a user is escalated, also keeps the user's later ones from being escalated,
  and the dispatcher from sending any (`NeverOverdue` with
  `TimestampsAware = FALSE`), until the old link is answered. Nobody else
  suffers, and an answer ends it: `OnlyUnansweredWait`, proved for both builds.
* `create_secret` refuses an end-to-end secret that lacks its salt
  (`api/secrets.py:60-61`); `update_secret` stores one, and it never opens again:
  `StoredSecretsOpen` without its premise about the salt is violated. The pages
  of the repository send no updates, other clients of the API may.
* A recipient that one request assigns while another deletes the secret, between
  the count that guards the deletion (`api/secrets.py:219-234`) and the deletion,
  is left without one: with `Requests = {q1, q2}`, an enrolled recipient need not
  have a secret that exists. A trigger skips this recipient.

Reproduced while modelling, and contradicted by no statement of the repository
(most of them hazards with a note): equal
active hours are accepted and make an empty window; a trigger whose emails all
fail deactivates the user anyway; a reset of the miss counter lost between two
sessions; a paused user with a next heartbeat; a user left active after the
trigger because a test heartbeat held the lock; changes of the clocks that send
a heartbeat outside the active hours or too early (section 5, `Upcoming`); a
link that is dead because the process died before its token was committed; a
delivery missing from the log because its confirmation came too late; and
response windows of 12 hours
or more that outlive the 24-hour horizon of the checker.

## 5. The proofs

About `CheckIn`, from `CheckInAssumption` alone (the deadlines name what else
they need):

* `TypeCorrect` (`CheckInProofs`): `Spec => []TypeOK`. `TypeOK` is not
  inductive. `OnTask` adds that work on one user knows the user, who is no
  longer queued (`RecipientsOf[who]` needs it); `Budget` adds that the
  heartbeats issued and the users the dispatcher may still serve fit into
  `MaxBeats` (`CreateBeat` needs it; it rests on cardinalities of finite sets).
* `EscalationComesFirst` (`CheckInProofs`): `Spec => []EscalationBeforeMiss`.
  The property speaks of committed rows, but a row gets there from `wal` and
  from the copies of the sessions, through a column-wise merge. `WarnedInv`
  says it of all of them, and of escalated rows as well as missed ones;
  `MergedWarned` shows that a flush cannot invent a status.

* `LinksAreLive` and `MissesTakeTwoWindows` (`CheckInRowProofs`). A heartbeat
  exists in many copies: committed, under the write lock, and as each session
  loaded it before others changed it. `RowInv` says what they have in common.
  Each is `Timely`: its escalation is later than one window after it was sent,
  and a missed one was escalated more than one window ago. What is stored is the
  loaded row or has moved on from it, with an escalation time that differs only
  if it is the current hour (`Later`); what a session makes of a row is one step
  on from what it loaded (`Written`). `MergedRow` shows that the column-wise
  merge of the two is timely again, which is where `Later` is needed: an
  escalation of this hour is too young for anybody to find it lapsed. A row that
  is not committed was inserted in this hour, and its link is not known yet.
  `ConfigInv` adds that every copy of a user has settings that the user was
  given or chose: a pass judges with the window it loaded, hence the
  `\E w \in Windows` of the property.
* `EscalationsAreInTime`, `VerdictsAreInTime` and `UsersAreServedInTime`
  (`CheckInTimeProofs`) bound the clock, which only a finished pass of each job
  lets go on. So their invariants say, for every place in a pass, what the pass
  has still ahead of it.
  - `TimeInv`: a row is *late* when it is open and all windows that its user may
    have chosen have passed. Every row the checker sees as late is of a user in
    its queue, is to be looked at, or has been dealt with in changes that are
    about to be flushed (`Covered`); so that a pass that gets to its end leaves
    none, and no other session makes one (`Fewer`). `SeesEscalations` and
    `SeesVerdicts` ask that the horizon is longer than one window and an hour,
    and than two of each: with the windows of 12 hours or more, which the
    endpoint accepts, a heartbeat leaves the horizon before its verdict.
    `EscalationsAreInTime` also needs `TimestampsAware`: otherwise the
    `TypeError` of an older heartbeat ends the pass before the escalation.
    `VerdictsAreInTime` says what each build does. With aware datetimes
    it is the deadline; without, `Unjudged` shows that no heartbeat is ever
    counted and no recipient mailed (`NobodyIsJudged`), as finding
    `naive_verdict` shows on one behaviour.
  - `ServiceInv`: the same of the dispatcher and its users (`Serves`). What is
    harder here is that requests write the columns the dispatcher writes. The
    next time and the activity of a user are two columns, and a merge may take
    one from each session; `Brought` and `MergedUser` show that this leaves
    nobody active with a next time in the past. It holds because whoever sets
    one of them also sets the next time ahead or clears it (`Rewritten`), and
    because a row that was loaded in this hour cannot have moved on but to a
    later next time or none (`Follows`). `NextIsAhead` needs `IntervalsLast`:
    `update_heartbeat_settings` refuses intervals below an hour
    (`api/heartbeat.py:129-130`), and the default is 24.
  - `UsersAreServedInTime` is about both builds too. With aware datetimes it is
    `NeverOverdue`. Without, a pass skips a user with an escalated heartbeat, and
    `ServiceInv` excuses the user (`Excused`, `Skippable`): for as long as the
    heartbeat is unanswered, and until an hour after the answer. An excuse may
    not be lost in mid-pass (`Excusing`), although what the pass goes by is the
    row it loaded. `AnswerInv` is why: a heartbeat that any session has found
    unanswered is unanswered still, or was answered in this hour, since without
    verdicts nothing else settles it.
* `TheTriggerIsEarned` (`CheckInSwitchProofs`): `CountInv` says of every copy
  of a user - committed, under the lock, held by a session - that its miss
  counter does not exceed the number of *different* counted heartbeats that are
  settled in the log the session sees, without those its pass has still to look
  at. A pass with old rows cannot count a heartbeat twice: to count it again it
  must have loaded it as escalated, and then it also loaded the counter of
  before.
* `AuditsMatchMails`: `AuditInv` says that no copy of the trigger log claims
  more than the mail servers accepted, and that without a crash the one under
  the write lock has all of it, and the committed one too unless a trigger has
  yet to commit.
* `CheckInIsASwitch`: `Spec => ImplementsSwitch`, the refinement of
  `DeadMansSwitch`: initial states map to initial states, and every step of
  every session to `Advance`, `Warn`, `Judge`, `Tell` or a stutter. A commit
  publishes what was flushed in earlier steps, so that `PendInv` relates the
  rows under the write lock to the committed ones: each is a stage that may
  follow (`May`), given what has been warned and counted by now, and whatever a
  session holds as missed was counted. The guard of `Tell` is
  `TriggerIsEarned`.

About `Simulation`, from its named assumption alone (`SimulationProofs`): the
invariant `Inv` says that the database under the lock differs from the
committed one only in simulated heartbeats and triggers (`Same`), and what a
request relies on (`Working`): the rows it selected are simulated and still
there, and from the moment it counted misses until its reply it holds the lock,
so that the count stays true. `RehearsalTypes`, `OnlyRealSilence`,
`RehearsalsStayInvisible` and `RepliesAreExact` follow; the last two are action
properties.

About `Pages`, from `PagesAssumption` alone (`PagesProofs`): what a page shows
is as true as the answers that are still on their way to it. `Sound` says what
a successful answer is about when it arrives, whatever was served since: the row
it deleted is gone, the list it brings is one of a single account. `Truthful`
adds the answers still to arrive to what the wizard has counted. Both survive
every step of the server because the database only grows, but for deletions,
and ids are not used again (`Grown`). `PagesKeepTheirTypes`, `RecipientsAreOwn`,
`RemovedIsGone`, `DropdownsAreOneList` and `TheWizardCounts` follow.

About `Upcoming`, from `ClockAssumption` and `ChainAssumption`, for every length
of hour and day, all zones, active hours and intervals (`UpcomingProofs`). The
inductive invariant is `Chained`: each time is computed from the one before. The
rest is about one computation. `Push` says what a candidate outside the active
hours is pushed over: inactive wall times only, up to the start of a window,
which begins an hour. `NoStepBack` and `RoundTrip` say what becomes of such a
wall time in UTC, for each of its folds. What a zone does to its clocks matters,
differently for each property, and each theorem asks only for what it needs of
the zone of the user:

* `HeartbeatsAreAnIntervalApart` (`NeverEarly`): the wall times that are
  repeated are of one day. A push to the next day forgets the fold, so that a
  candidate in the second pass of a repetition across midnight would be pushed
  into the first one (St. John's, until 2011).
* `HeartbeatsFallInTheWindow` (`LandsInWindow`): no more than an hour is
  skipped. A window start in a gap comes out later by the length of the jump;
  after an hour's jump that is the second hour of the window, which is active
  because some hour other than the skipped one is (`WindowOpensDaily`). The two
  hours of Antarctica/Troll can be longer than the window.
* `HeartbeatsAreNotPutOff` (`NoActiveMinuteSkipped`): what is skipped or
  repeated belongs to one hour of the clock. Otherwise part of an active hour
  may pass before the clock shows the next full one (Chatham, 2:45 to 3:45).

Without its condition each of the three is false: TLC finds a counterexample as
soon as an instance has such a zone.

About `Vault`, from `VaultAssumption` alone:

* `RowsKeepTheirTypes` (`VaultProofs`): `Spec => []TypeOK`. Its inductive
  invariant `TypeInv` adds `OnTask`: the recipients still to be mailed have a
  secret among the loaded ones, and the email that is on its way has both.
* `SecretsStayReadable`: every step is an `Evolution` of what is stored: a
  secret stays, is encrypted anew under its type with a nonce and a tag that fit,
  or is deleted for good; assignments and tokens are only added. That an UPDATE
  leaves out the columns that did not change does no harm (`ResealedWhole`): a
  salt that comes with a ciphertext is new, and no session can have loaded it
  (`SaltsAreOld`), so that it is written. Of a ciphertext that comes without its
  salt the theorem says no more than that nonce and tag fit.
* `OnlyTheAssignedGetIt`, `LettersStayCurrent` and `LoggedLinksWork` share one
  inductive invariant, `DeliveryInv`. It has two halves: `Rows`, what the
  committed rows promise (each content was encrypted for its secret, each
  assignment is in `promised`, each log entry is backed by its token), and
  `Knows(task[s])`, what a session may rely on (the rows it copied are genuine
  and no older than when it began, its assignments were promised, its email is
  addressed to whom the secret was assigned). `KnowsStable` shows that an
  `Evolution` takes nothing from what a session knows, so that each action has
  to be looked at only for the session that takes it.
* `MailedLinksAreKept`: `LinkInv` adds to `LinksAreKept` that a session with
  tokens of its own holds the write lock and is in the loop of a delivery
  (`Pending`); it never waits for the lock again, so that only a crash rolls it
  back. That rests on the flush before the email (`trigger.py:129`).

Only model-checked: liveness (`PassTerminates`, `ComesToRest`), which is out of
the prover's reach (as is ENABLED). Every invariant and action property that a
passing run checks is proved.

No module declares a RECURSIVE operator, so that all of them can be proved about.

## 6. Not modelled

* Texts, HTML, layout and translation (`i18n/`), and `config.py`, whose
  variables are read once: no state and no control.
* Password hashing, JWT, AES-GCM and Web Crypto: computation on bytes. What
  their rows must keep together is in `Vault`, what a token is good for in
  `Pages`.
* The transports of `services/notify.py`: each returns whether it was accepted
  and raises nothing, which is all its callers see. The iMessage functions are
  not called by any of them.
* The profile, endpoints that only read, the settings form and the secret
  viewer of the pages. The form sends all its fields, so that one loaded before
  a trigger re-activates the user when it is saved; the viewer shows the text it
  decrypts under the title that is open by then. Nothing in the repository says
  otherwise, and both are single handlers without further state.

## 7. Plan

1. `Vault`: an abstract specification of the hand-over (who is promised what,
   who has got it) and its refinement, as `DeadMansSwitch` is for `CheckIn`.
2. `CheckIn`: what the settings of a user are worth during a pass. The pass
   judges with the settings it loaded; say how old they may be.
3. The hazards in `PROJECT.json` that still have a note instead of a property,
   beginning with the lost reset of the miss counter.
