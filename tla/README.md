# CaseSystem in TLA+

CaseSystem is a ticket system: customers and analysts work on tickets that
move between pools and handlers, deadlines and event rules trigger e-mails and
webhooks, and a browser client is kept up to date over a socket. The backend is
a FastAPI application (`backend/app`) over PostgreSQL, with Redis as broker and
cache and Celery for everything that is late or slow; the client is a React
application (`frontend/src`). This directory holds the models of them, the
configurations TLC checks them with and the theorems TLAPS proves about them.

    tlc -config TicketWorkflow_serial.cfg MCTicketWorkflow  # one run
    tlapm TicketWorkflowProofs.tla                          # the proofs

## 1. Inventory

"Hard" names what a unit test would hardly reach; `PROJECT.json` lists each
hazard at its line.

### Backend (`backend/app`)

| component | state | operations | talks to | hard |
|---|---|---|---|---|
| tickets (`modules/tickets/service.py`) | `tickets` with a version column, `ticket_escalations`, `ticket_actions` | create, comment, edit, respond, resolve, close, reopen, claim, move to pool, assign, escalate to a pool or a user, accept, reject | writes event rows in its own transaction, then dispatches them, invalidates the cache, publishes on the socket, delivers notifications | handlers run concurrently in a thread pool, each statement of a handler sees another snapshot |
| deadlines (`modules/events/service.py`, called by tickets) | `events` rows of kind `ticket_timeout_signal` | create, cancel, reopen, sweep | claimed by the Celery sweep, cancelled by API handlers | cancel and claim race; a claim and what follows from it are two transactions |
| event rules and dispatch (`modules/events`) | `event_rules`, `events`, `event_bindings` | match rules, commit, publish, hand back to the sweep, claim | database and broker do not commit together | crash or broker error between the two, duplicated and lost messages |
| tasks (`modules/tasks`) | `task_templates`, `task_instances` and their log | create instance, execute, fail, retry | takes messages, sends e-mail and webhooks | double execution, retries racing, rows stuck by a lost worker |
| worker and beat (`worker/`) | the broker's queues | periodic sweep, run a task | | early acknowledgement, `--pool=solo` |
| ticket cache (`modules/tickets/cache.py`) | summary and detail entries, 60 s | read through, invalidate after commit | Redis; readers and handlers of tickets and reports | a fill that was read before a commit and stored after it, a deletion that never comes |
| realtime (`modules/realtime`) | notifications (pending, delivered, read; an action pending or completed), rooms of sockets, presence and unread count in Redis | deliver, acknowledge, read, resolve, list, connect, disconnect | socket.io over Redis, the tabs of the browser; tickets deliver and resolve | acknowledgements in the event loop race with threads, emissions are lost, tabs connect while something is delivered |
| auth (`auth.py`) | sessions, refresh tokens, CSRF tokens, login counters | login, refresh, logout, change password, switch role | every route | rotation of one token twice, sessions created while others are revoked |
| user management (`modules/user_management`) | users, roles, groups | create, update, disable, group membership | auth (token and role versions) | the last administrator is counted, then changed |
| policies, templates, mail senders, alert sources, knowledge, reporting, bootstrap | configuration, text, files | CRUD | | little: one transaction each |
| deployment | | | | one API process, one worker |

### Client (`frontend/src`)

A page is one mounted component: hooks, and the async functions that wait for
an answer. Nothing orders the answers, and a user clicks on meanwhile.

| component | state | operations | hard |
|---|---|---|---|
| session (`api/client.ts`, `contexts/AuthContext.tsx`, `sessionRefreshPolicy.ts`) | the user, the shared refresh promise, the timer's tick, the cookies | call, refresh, retry, tick, login, logout, switch role, start | many callers find at once that the token expired; late answers of an earlier session |
| notifications (`contexts/RealtimeContext.tsx`) | the list in a tab | bootstrap, refresh, read, answer | messages, lists and responses in any order |
| ticket detail (`TicketDetailPage.tsx`) | the ticket, its edit form, panels, flags | load, live refresh, act, comment, edit, change owner, upload a report | a live refresh brings a version for a form that is older; the URL moves to another ticket |
| ticket list (`TicketListPage.tsx`) | rows, filter, cursor, drawer | filter, load more, live update, select | a page of the old filter is appended to the new one |
| administration (`UsersPage`, `TemplateRenderingPage`, `TaskTemplatesPage`, `MailSendersPage`, `AlertSourcesPage`, `ApiTokensPage`, `ReportTemplatesPage`, `EventsPage`, `EventDetailPage`, `EventEditorPage`) | a table, a selection, a form, flags | list, select, edit, save, toggle, delete, test | a late answer meets another selection; one flag serves several requests |
| tasks, reports, knowledge (`TasksPage`, `ReportsPage`, `KnowledgeListPage`, `KnowledgeDetailPage`, `KnowledgeEditorPage`) | the same | the same, retry, upload, like, pin | the same; a component that stays mounted when the route moves to another record |
| rest | one form or menu | | none |

What makes the modelled ones correct:

- **tickets**: the handler of a ticket may operate on it; an operation applies
  to what its caller was shown; one escalation is open at a time, freezes the
  ticket and is answered once; the status keeps to its lifecycle.
- **deadlines**: an open deadline is watched by exactly one row until a sweep
  claims it, a settled one by none; no deadline is reported twice; a missed one
  is reported.
- **dispatch**: without a failure each binding is sent once and executed once;
  a failure may repeat a message and never hides an event the sweep triggers; a
  due event is sent in the end.
- **tasks**: an outcome is final; what is sent is attempted.
- **ticket cache**: who asks after a change was answered or published is shown
  it, and what is stale does not stay so.
- **realtime and the notification list**: what a tab shows is or was true,
  however late it arrives; one acknowledgement counts; what is pending or was
  lost reaches a connected tab in the end; an answered escalation stops asking.
- **session**: one refresh at a time, everybody who waits for it is served, and
  nobody is signed out of a live session.
- **user management**: there is always an effective administrator.
- **pages**: no flag waits for nothing; where the code tells a late answer from
  the awaited one, what is shown is what was last asked for; the forms of event
  rules, articles, task and report templates and connections hold the record
  that their save names (the users page keeps neither, see "Observations").

## 2. Modules

| module | what it is |
|---|---|
| `TicketRoles` | the tiers T1..T3, the pools, and who may operate on which (operators only) |
| `TicketStatus` | the main status, the operations it allows and where they lead (operators only) |
| `TicketOwnership` | the abstract specification of ownership: one atomic step per flow |
| `TicketWorkflow` | the handlers of one ticket, interleaved; implements `TicketOwnership` |
| `TicketTimeouts` | the two deadlines of one ticket, the handlers that settle them and the sweeps |
| `TaskDispatch` | events of matched rules, messages, workers, task instances and retries |
| `TicketCache` | the cached entries of one ticket, its readers and the handlers that change it |
| `Notifications` | the notifications of one user: rows, HTTP threads, event loop, rooms, tabs |
| `AuthSession` | a signed-in tab, its cookies, and the sessions and tokens of the server |
| `TicketDetailPage` | the detail page of a ticket, a server for the tickets it shows, and the live events |
| `PageRequests` | what the pages below share: hooks, and requests answered in any order |
| `RoutedPages` | list, detail and editor of one kind of record with the router between them |
| `EventRulePages`, `KnowledgePages` | event rules and articles, on `RoutedPages` |
| `ConnectionPage`, `AlertSourcesPage` | mail senders; alert sources, which add a query |
| `TicketListPage`, `TasksPage`, `TaskTemplatesPage`, `TemplateRenderingPage`, `ReportsPage`, `ReportTemplatesPage`, `ApiTokensPage`, `UsersPage` | one page each |
| `Pages` | the composition of the pages: one of them is shown |
| `TicketWorkflowProofs`, `TicketTimeoutsProofs`, `TaskDispatchProofs`, `TicketCacheProofs`, `NotificationsProofs`, `AuthSessionProofs`, `PagesProofs` | the theorems about the module each is named for |
| `PageFlagsProofs` | the theorems about the types and the flags of the pages, on `PagesProofs` |
| `MC...` | instances for TLC |

`TicketWorkflow` and `TicketTimeouts` share `TicketStatus`, so both move the
status by the same rules. `TicketTimeouts` ends where a sweep matches the rules
for a claimed signal (`Fire`); `TaskDispatch` begins there (`MatchSignal`).
`Notifications` takes from the tickets only that an escalation is answered once
(`AnswerCommit` refuses a second answer), which `serial` checks and `OneAnswer`
proves.

### TicketWorkflow

One ticket row, its escalation rows and `Requests` slots for requests in
flight. A handler is split where other handlers can run: `Receive*` (the request
arrives with the `version` its page showed, or the escalation it answers),
`LoadTicket` (`get_ticket`, `_assert_ticket_version`, `_available_actions` and
the checks of the operation), `CheckNoPending` (a second SELECT), and one
`Commit*` action per operation. For an answer the order is the code's: first the
escalation (`LoadEscalation`), then the ticket (`LoadTicketOfEscalation`), then
the commit. `SaveTicket` is the UPDATE of SQLAlchemy's `version_id_col`: without
a row of that version there is no commit. `Refuse` stands for every way a
handler can end without one: a failed check (403, 409, 422), `StaleDataError`,
a lost process. Where the ORM flushes earlier than the commit the same version
check fails there; the difference is the status of the response.

Left out: the text of comments, actions and attachments; the events, cache
entries, broadcasts and notifications a handler causes (other modules); deleted
tickets (no operation deletes one); changes of a user's roles.

### TicketTimeouts

The version and status of one ticket, its signal rows, requests and sweeps.
`SelectSignals` and `CommitAnswer` are the two halves of
`cancel_pending_ticket_events`; the second writes by id, so it may overwrite a
row that is no longer pending (`events/service.py:1093`: a signal that a sweep
has claimed becomes `cancelled` and is fired all the same). `ListDue`, `Claim`,
`Skip` and `Fire` are `sweep_due_events` with a session for each row; `Fail`
cuts a sweep short anywhere. Deadlines pass in the order of the SLA windows
(`_sla_windows`: each response window is shorter than the resolution window),
and a reopened ticket gets new signals for its old deadlines, as in the code.
Which identities new rows get does not matter, so one choice stands for all.
The history variables are `current` (the rows of the last creation or
reopening) and `fired`.

### TaskDispatch

`CommitEvents`, `DispatchRegistered`, `DispatchFails`, `Restore` follow an API
handler through `_commit_ticket_changes`; `Claim`, `PublishClaimed`,
`CommitClaimed`, `PublishFails` follow the sweep, which publishes before it
commits and holds the row lock meanwhile (`InTransaction`); `MatchSignal` is the
second transaction for a timeout signal, whose event rows do not exist for
others before its commit. A worker runs one thing at a time (`--pool=solo`): a
sweep, or a task from `TakeDispatch` or `TakeExecution` to `Succeed` or
`FailTask`. Messages leave the broker when a worker starts on them, Celery's
default, so `CrashWorker` loses them. `CheckRetry`, `InsertRetry`,
`EnqueueRetry` are `retry_task`; `AbandonRetry` is its message that was never
published. Rendering, recipients and delivery are a choice between success and
failure. Every event here binds the same templates; the filters of rules are a
free choice of which events are created.

### TicketCache

One ticket, cut into the parts that one statement reads (the row, the open
escalation, the rest), each known by the change that wrote it last. A reader
(`get_ticket_summary`, `get_ticket_detail`, `get_ticket_live`) looks its entry up
(`CacheHit`, `CacheMiss`), reads part after part (`Select`; with READ COMMITTED
each statement sees another snapshot) and stores what it read (`SetEntry`). A
handler of tickets or reports commits (`Commit`), deletes both entries
(`invalidate_ticket`) and publishes and answers (`Publish`), from the database.
What a change touches is one of `Touched`: every change adds an action or a
comment, reports leave the row of the ticket alone. `CacheFails` and
`DeleteFails` are the errors of Redis that the backend logs; `Dies` loses a
process, or a handler of `reporting.py` whose deletion of a file fails between
the commit and the invalidation. `Expire` is the entry's time in Redis.

History: `told` is what handlers have answered, `asked` what was told when a
request came, and `crossed` marks an entry that was read before a deletion and
stored after it. Left out: the version check and all that decides whether a
change is made (`TicketWorkflow`), what an actor may see of an entry, and the
dispatch of events between a commit and the deletion, which only adds time.

### Notifications

The rows of one user and the tabs of that user's browser. `Store` and
`EmitCreated` are the two halves of `_persist_notification`; an answer to an
escalation is `AnswerCommit`, then `resolve_notification_action` in a second
transaction (`ResolveLoad`, `ResolveCommit`). A handler that loads a row and
then writes it by id is two actions, since the row has no version; the UPDATE of
SQLAlchemy leaves out columns that did not change, so a resolution that loaded
`read` does not write the status (`ResolveCommit`). HTTP handlers run in threads
and interleave with everything. `acknowledge_notification` is called in the
event loop without an `await`, so acknowledgements exclude each other and the
other socket handlers (`LoopIsFree`) but not the threads; it emits twice, once
from a task it schedules (`Echo`) and once from the socket handler (`AckEmit`).
The connect handler enters the room (`Join`), reads the pending rows
(`QueryPending`), emits each of them to the whole room (`Replay`) and accepts.

The client side is `RealtimeContext.tsx`: a new tab fetches the list and then
opens its socket; `Receive` is the two message handlers, `created` upserting and
acknowledging, `updated` changing only what the list has; `Respond` and
`ApplyList` are what the responses do to the list. A tab has one request at a
time. Requests, messages and acknowledgements are delayed freely, so lists and
responses overtake messages; the messages on one socket keep their order.

A broken Redis loses an emission and the caller does not notice (`Broadcast`).
`Drop` loses the messages of a connection and perhaps its acknowledgements;
`Crash` loses handlers, sockets and the event loop. Taken as one step: a commit
and the `refresh` after it, and an emission and its arrival at the sockets in
the room. Left out: the presence keys and the cached unread count, which nothing
reads back; the text and category of a notification; expiry, which nothing acts
on; `ticket.changed`, which carries no state here.

### AuthSession

`apiFetch` sends a call with the cookies of that moment, `CallHandled` and
`LoginHandled` are the server, `CallAnswered` is the answer with its cookies.
A first 401 calls `refreshAccessToken`, where all callers share one `promise`:
`issueCsrf` (the request for a CSRF token before it), `RefreshRead`,
`ReuseCommits` or `RotationCommits` (`refresh` reads the token, then writes, and
another handler may run in between), `RefreshAnswered`, where everybody who
waits goes on in one turn (`Resume`). `TickStarts`, `TickRetries` and `TicksEnd`
are the timer with its single retry and the controller that `setUser` aborts.
`RefreshFails`, `CallFails` and `Reload` lose a request or its waiter, while its
handler goes on at the server (`NobodyWaits`).

Left out: CSRF tokens (a call they refuse has failed), other tabs, permissions,
login counters, the expiry of refresh tokens, API tokens. A call other than a
refresh is one step at the server. The login form is offered only when the first
`/auth/me` has returned, as the router does.

### The pages

`ui` is the record of the hooks of the mounted component, `req` the requests in
flight: a request is a record of what the async function that waits for it still
knows (its closure), so a late answer is modelled by what that function writes
then, guarded only by what it tests then. Actions carry the names of the
handlers. Answers bring any content that the question allows, because other
people change the records; this over-approximates the server, and only
`TicketDetailPage` and the status change of `UsersPage` have a server of their
own. Its hooks are variables, since its server shares `req`; `Pages` sets them to
`None` while another page is shown (`NoTicketView`). `Pages` mounts a page afresh
on each visit, as the router does; a save that still navigates after its page was
left is kept within one module (`Still` in `RoutedPages`) and not across modules.

Per page: `TicketDetailPage` cuts a ticket's content in basics and extras, the
two parts that a live refresh treats differently, each known by the version that
wrote it last; the form that `?edit=1` opens, the text and visibility of comments
and the targets the panel offers are left out. `UsersPage` takes the requests of
one `Promise.all` as one; a detail or a form is known by the user or group whose
fields were loaded into it, whoever is selected by then, and `MaxStatuses` bounds
the status changes that are under way at a time. The form of a report is left out. `ReportsPage` settles its effects before the next
event, in the order React runs them (`due`). The fields of a connection except
its status are one of `Settings`; the ticket keys of a query are left out.
`TicketListPage` has one structured filter and no order of rows. Texts, syntax
checks of templates and the display are left out everywhere.

## 3. Runs

| run | instance | shows |
|---|---|---|
| `serial` | 2 users, 2 requests, 2 escalations, 4 commits, one answer to an escalation at a time | operations apply to what was shown, one escalation is open, it is answered once and freezes the ticket, the handler has the authority, and the interleaved handlers implement `TicketOwnership` |
| `status` | administrator and customer, status operations beside an escalation | the lifecycle and the sub status survive races |
| `double_answer` | two answers to one escalation | **violated**, see below |
| `timeouts` | a new ticket or a closed one, 2 requests, 2 sweeps, 4 signals, 1 failure, fair sweeps | open deadlines are watched once, settled ones are quiet, no double report, a cancellation that won stays, due signals are handled, a missed response is reported |
| `dispatch_race` | 2 workers, 2 retry requests, 1 event with 2 bindings, 1 failure | no repetition without a failure, outcomes are final |
| `dispatch_live` | 1 worker, 2 events, 1 failure, fair workers and API threads | nothing is lost without a failure; due events are sent, what is sent is attempted |
| `dispatch_delay` | smallest instance | **violated**, see below |
| `cache` | 1 reader, 2 handlers, 2 changes, 1 failure, fair requests and expiry | an entry is stale only if its deletion is due or crossed it; other answers show what was told; the entries agree with the database in the end |
| `notifications_live` | 1 notification that asks for an answer, 1 tab, 2 requests, 1 lost connection, 1 crash or lost emission, fair threads, event loop and scripts | the tab shows what is true; pending and missed notifications are acknowledged, answered ones completed |
| `session` | 2 calls, 2 refresh handlers, 1 tick, 2 sessions, 3 refresh tokens, 1 failure | one usable token per session and no false alarm, nobody waits in vain, nobody is signed out without a reason |
| `pages` | each page: 2 records (one of the special type, where the page tells types apart), 2 requests; for a ticket's detail 1 change; for the users page 2 administrators, 1 group, 1 status change at a time | on every page flags are real. The selected task, the rows and the drawer of the ticket list, the templates of a report's drawer and a live refresh of the ticket in the URL are what was asked for last, and a view of the template page has a template. The forms of event rules, articles, task and report templates and connections are of their record. An accepted edit of a ticket was made over its current basics. Of details and forms of users, groups and reports nothing is claimed |
| `last_admin` | 2 administrators, 2 status changes at a time | **violated**, see below |

The type invariants of `Notifications` and `TicketCache` are proved and in no run.

**Bounds.** `MaxVersion` caps the commits to a ticket, `MaxFailures` the crashes,
lost requests and broker errors, `MaxTasks` and `MaxRetries` the task rows,
`MaxSessions` and `MaxTokens` logins and rotations, `MaxChanges` what other
people write or, in `TicketCache`, all that is written, the sets of signals, escalations and events everything that is
created. They stop the system, hence `CHECK_DEADLOCK FALSE`; in the backend no
handler waits for another one except for a row lock that its holder always gives
up. `pages` has no such bound but for the detail page of a ticket and, on the users
page, `MaxStatuses`, and reaches every state of the others; a page may lose any
number of requests. There
`CHECK_DEADLOCK FALSE` is for a real dead end, see "Observations".

Two actors of a kind are enough for each race: every check in the code looks at
one row, and a third request adds no new pair. Four commits to a ticket allow
create, escalate, answer and one more in `serial`; in `timeouts` they let a new
ticket be answered, resolved and closed, and a closed one be reopened by two
handlers at once, answered and resolved. Two signals are made for each creation
or reopening, so four allow a ticket made by a second, wrong reopening to be
seen. Three tokens allow a login and a rotation after it while an answer of the
first session is still under way, and one tick meets calls, logins and the user's
replacement; a second tick, which may begin while the first one waits aborted, is
not in this instance. For pages, the two
requests are those of two clicks and the ticket list has a third; two records
are the one shown before and the one shown now. One status change at a time
leaves the other request of the users page to its drawer; `last_admin` has two. Of the reports page, two
records with one request and one record with two requests are checked in turn.
In `cache` two
changes let a reader be crossed by the deletion of one and still meet the other;
its one reader stores an entry in one request and is given it in the next, and
the invariants are proved for any number of readers.
The batch limit of a sweep is 1 in `TaskDispatch`, where there are two events;
one ticket never reaches the limit of 100. Sets whose members are
interchangeable are symmetry sets in the runs without liveness. In
`notifications_live` one tab is all that temporal checking affords. It races
with itself (a request in a thread against its acknowledgement in the event
loop, a replay against a delivery, a list against messages); other tabs only add
acknowledgements, and the invariants are proved for any number of tabs and
notifications. Notifications do not interact, so one is enough.

**Two assumptions are constants**, so that each can be lifted:
`SerialResponders` (a person does not send two answers to one escalation at a
time: the client disables both buttons while an answer is in flight,
`ActionRequiredNotificationStack.tsx:83`, but two tabs can) and
`ImmediateTimeoutRules` (rules on timeout trigger points have no delay).

**Fairness.** Safety runs assume none. `TicketTimeouts!FairSpec`: the beat
schedules a sweep every 30 s and a worker runs it (`celery_app.py:26`), weak
fairness for each sweep; handlers need not finish. `TaskDispatch!FairSpec`: weak
fairness for each worker's sweeping and executing together, as one process does
both, and for API threads between their commit and their dispatch.
`TicketCache!FairSpec`: requests run to their end unless they are lost, and
Redis drops an entry whose 60 seconds are over (`setex`); nobody has to ask or
to change anything, and the bound on changes is the end of the changes that
`Converges` speaks of.
`Notifications!FairSpec`: threads between storing and emitting, the event loop,
and in each tab the script that handles messages and responses run on; the
properties speak of tabs that stay connected. Crashes, clients, connections,
users, the passing of deadlines and new retries are not fair. The pages and the
session have invariants in place of liveness: a flag that is set, or a caller
that waits, has a request under way whose end, or loss, clears it
(`FlagsAreReal`, on the detail page `WaitingIsReal`, and `WaitersAreServed`).

### What the violated runs show

- `double_answer`: accept and reject read the escalation before the ticket. An
  answer decided between these two reads of another one is overwritten, as the
  version was read after it.
- `dispatch_delay`: for a timeout signal the sweep publishes the bindings of
  delayed rules at once (the handler's path filters them) and again when due.
- `last_admin`: each of two administrators who are disabled at the same time is
  counted by the handler of the other one, and none is left.

### Observations that have no run

Met while translating; the models contain them, and the properties are stated so
that they do not depend on them.

- An acknowledgement loads a pending row in the event loop, a thread commits
  that it was read, and the acknowledgement writes `delivered` by id
  (`realtime/service.py:303`). `ShownReadIsRead` is therefore about `read_at`,
  which stays.
- Two retry requests look for an active retry before either inserts
  (`tasks/service.py:1399`); a retry that was committed and not published blocks
  later ones (`:1439`).
- An immediate event is committed as triggered before its messages are
  published, so a crash in between loses them (`events/service.py:787`).
- A reader that missed the cache reads a ticket, a change is committed, deletes
  the entries and is answered, and the reader stores what it read: until that
  entry expires the change cannot be seen through it, also not in the tab that
  made it (`tests/test_ticket_api.py:440` has the case without the reader).
  `StaleOnlyIfCrossed` says that without failures this is the only way.
- `create_report` invalidates inside the block whose failure deletes the stored
  file, after its commit (`reporting.py:512`).
- `refresh` clears the cookies on the response object and then raises, so the
  client keeps them: the framework answers with another response
  (`auth.py`, `_clear_auth_cookies`). `AuthSession` leaves the cookies alone.
- A login or a refresh deletes the CSRF tokens of all login pages
  (`auth.py:488`).
- The answer to a refresh of the session before may come after a login and put
  the old cookies back; `StaysSignedIn` excepts it by name.
- A live refresh of the detail page brings a new version and the new basics, not
  the extras (`TicketDetailPage.tsx:457`): an edit may write old extras back.
  `EditIsMadeOverCurrentBasics` speaks of the basics. A failed load leaves the
  ticket before on the screen (`:514`).
- The answer to a status change tests the selection of the moment its button was
  pressed (`TaskTemplatesPage.tsx:486`, `MailSendersPage.tsx:248`,
  `AlertSourcesPage.tsx:294`), so a template's status may reach the form of the
  one selected since.
- The drawer of the users page takes whatever is answered last:
  `openUserDrawer` and `openGroupDrawer` (`UsersPage.tsx:239-285`) do not compare
  an answer with the selection, and closing the drawer cancels nothing. A user
  who opens A and then B for editing, and is answered about A last, sees A's
  detail and A's fields as B's; `handleSaveUser` (`:362`) and `handleSaveGroup`
  (`:401`) write them to B. So do they when B's load failed, and while it is
  awaited, as Save is disabled only while a write is under way (`:1142-1165`).
  `UsersPage` models this; `SavesOwnFields`, stated there and in no run, fails
  after six states with two users. The rows of an earlier filter may come last
  too (`:182-213`). `ShownIsAskedFor` and `FormIsOfTheRecord` do not speak of the
  users page.
- The result of a test or a query is shown under the connection selected since
  (`MailSendersPage.tsx:271`, `AlertSourcesPage.tsx:353`), and the late detail of
  a template moves the template page to it (`TemplateRenderingPage.tsx:2090`).
  `ShownIsAskedFor` does not speak of these either.
- The detail of a template that failed to load offers nothing but the side bar
  (`TemplateRenderingPage.tsx`). A second API token replaces the banner of the
  first, whose value is shown only once. A reload of the reports overwrites
  what was typed into the drawer. An event rule or article whose load failed
  leaves a form that can be saved.

## 4. Proofs

`TicketWorkflowProofs` begins with lemmas about tiers and pools: the level a
claim or an escalation writes is a tier, every ticket has a pool that guards it,
and who may operate on some pool may operate on the pool of their own level. Then
it proves, for any users, roles, requests, escalations and seeds:

- `Invariant`: `Spec => []IInv`. `IInv` is inductive: besides the type invariant
  it says what a request knows at each point of its handler, provided the ticket
  still has the version it loaded: the view equals the row, the checks held on
  it, and a request past `CheckNoPending` saw no pending escalation that is
  still the truth. That is why the version check makes a check-then-act handler
  safe, and it is what none of the properties says by itself.
- `TypeCorrect`, `OnePending`, `Authority`, `ShownVersion`: from `IInv`.
- `SerialInvariant`: under `SerialResponders`, `SIInv` adds that an escalation
  has at most one answering request, that an unanswered one still describes the
  ticket it was made from, and that nothing is pending before the ticket exists.
  `OneAnswer` and `FrozenWhilePending` follow.

- `PendingShown`: the sub status of a ticket shows the escalation that waits.
  It is one of the conjuncts of `SIInv`.
- `Lifecycle`: the main status moves only along the lifecycle. `IInv` carries the
  status an operation was allowed in to the commit that performs it; `RowInv`
  adds that no row ever gets one of the two statuses that no operation writes.
- `Implementation`: under `SerialResponders`, the interleaved handlers implement
  `TicketOwnership`. Owner, pool and level map to themselves and the invitation
  to the target of the pending escalation (`Invited`), which is well defined
  since at most one is pending. Each commit is the abstract flow of its name
  (`OwnershipClaim` to `OwnershipAnswer`): `IInv` gives the abstract guard at the
  commit although the handler checked it at its load. Every other step stutters.

`SerialInvariant` and what follows from it, `Implementation` among it, assume
`SerialResponders`; the others do not: their proofs cover two answers to one
escalation at a time, which the run `serial` excludes.

`TicketTimeoutsProofs` proves, for any rows, requests and sweeps, `TypeCorrect`
(which bounds how often a row's rules are matched: once), `Quiet`, `WatchedOnce`,
`Watched` and `CancelledForGood`. The invariant has two halves that meet at the
row. Of a request: as long as the ticket has the version it read, its status
check holds and the rows it selected are all it must cancel (`RequestsSound`,
`SelectionsSound`). That is what makes it harmless that the cancellation writes
rows by id. Of a sweep: a claimed row belongs to one sweep, is pending no longer
and was not matched (`ClaimsSound`, `OneClaim`), and no unclaimed row was
(`UnclaimedIsUnfired`). `PendingIsUnanswered` relates the rows to the status.

`TaskDispatchProofs` proves, for any events, templates, handlers, workers and
operators, in three layers:

- `TaskInv`: a task is held by one message, worker or operator at a time, and a
  held task was not attempted to its end. `DispatchTypes` (no task delivers
  twice) and `OutcomesStay` follow, although a worker does not look at the
  status it finds.
- `EventInv`: a transaction of a sweep locks rows that nobody else has, and an
  event whose handler still has to dispatch it is locked by none; so a binding's
  messages number at most one more than the failures. `ResentBounded` and
  `DelaysAreKept` follow where rules on timeouts have no delay. The second is the
  converse of the violated run `dispatch_delay`: without such rules and failures
  the promise of the delay holds.
- `MessageInv`: with one worker, as deployed, no message is taken before its
  event is committed, so `NothingIsLost` while nothing broke (`NoMessageLost`).

`NotificationsProofs` proves, for any tabs, notes and bounds, `TypeCorrect`,
`OneAcknowledgement`, `CompletionIsEarned` and `ShownIsTrue` from `Invariant`.
Its `IInv` says two things. What is said of a notification, anywhere it can be
said (a row, a message under way, an emission still owed, a list fetched, the
view of a tab, a request, the acknowledgement in the loop), was earned: `read`
only if the row has its `read_at`, `completed` only if the escalation was
answered (`Truth`). Both only ever become true, so whatever is delayed,
reordered or lost stays true (`TruthLasts`), and each action is left to show
that what it newly says quotes something true. And a note that was acknowledged
is not pending again, nor is one still pending in the loop counted yet
(`AcksSound`).

`TicketCacheProofs` proves, for any readers, handlers and numbers of changes and
failures, `TypeCorrect`, and from `InvariantHolds` the theorems
`StaleEntriesWereCrossed` and `AnswersKeepUp`. What a reader has read so far, and
what an entry holds, is `Latest` unless a deletion crossed it: it lacks only
changes whose handler still has the deletion before it, and it has all that was
told or is about to be told. The first part alone is not inductive: when a handler
answers, what is told grows, and the entry must already have the change that
handler deleted it for. A commit may make anything stale, and keeps `Latest`
because its own handler is then the one that is going to delete; a deletion marks
whoever has begun to read. As `Sound` is about runs without a failure, the
invariant is `failures = 0 => Sound`, and failures never decrease.

`AuthSessionProofs` proves, for any calls, ticks, refreshes at the server,
sessions and tokens of one tab, `TypeCorrect`, `WaitersServed`, `RotationSafe`
and `SignedInStays`. The first three follow from `Invariant`, which has two parts.

- `Sound` holds whatever fails. Besides the types and `WaitersAreServed` it
  says that every refresh under way still has room for the token it may make,
  that a refresh names a token that exists, with a family of the same session,
  and that a session that was ever opened has a first token: the one a login's
  answer puts into the cookies.
- `Rotation` holds while no request has failed (`Rotates`), and is why the
  shared promise makes rotation safe. Only the refresh of the promise is at the
  server, so nobody exchanges one token twice; the token in the cookies can be
  used if its session is alive, unless the answer that replaces it is on its way;
  a refresh knows at each point that its token was usable or that its session is
  closed, and if a revocation came between its read and its commit, no other
  token of the family is active; and a login that is not answered yet has
  tokens that nobody else holds.

`RotationIsSafe` alone is not inductive: that two tokens of a session are never
active depends on what the cookies and the refresh under way refer to. Once a
request has failed the tab may send a token that was exchanged already, and
`Rotates` is gone, as `RotationIsSafe` says. Other tabs are outside the model,
and with it outside the theorem.

`SignedInStays` adds who the user is. `Identity`: a call that was answered well,
and the user shown, name a session that was opened, and the two cookies are of
one session. `Signed`, while no request has failed: a tab that asks who it is
does nothing else (`AskedAlone`), and a refresh over which a tick may sign the
user out can only be won (`Insisted`). For such a tick has not been aborted, so
the user has not changed since it began; the refresh was begun after its first
attempt failed and holds a token of the session in the cookies; and by `Rotates`
the server refuses that token only if the session has ended. The hypothesis that
the cookies are the user's is needed: an answer to a refresh of the session before
that comes after a login puts the old cookies back.

`PagesProofs` proves, for any records, slots and settings, `CurrentBasics`,
`AskedFor` and `FormsOfRecords` from `PagesInvariant`, which has one invariant
per page (`PagesInv`); a page never writes what another one is about. The users
page and the API tokens have no part in it: the two last theorems say nothing of
the first, which breaks what they say (see "Observations"), and there is no such
load or form on the second. The pages that each theorem covers are the conjuncts
of `ShownIsAskedFor` and `FormIsOfTheRecord`. The arguments are four:

- On the detail page of a ticket every detail, wherever it is (shown, answered, or
  what an edit was made from), is of the past: its version is not ahead of the
  ticket's, and when it is the ticket's, so are its basics (`OfThePast`). A change
  moves the version on, so the details that are about stay so, and an edit that
  meets its version was made over the basics that go with it. A live refresh keeps
  this for the basics and not for the extras, which is why the property speaks of
  the first alone.
- A load that is shown is the one for what is selected now: the effect's cleanup
  cancelled the others, or the answer compares itself with the selection (the
  rows and the drawer of the ticket list, tasks). On the
  reports page this holds when no effect is due, and the effects run before the
  next event. On the template page a view and its template are set together.
- On the routed pages (`RoutedPages`), a load in flight is of the record in the
  URL, since leaving a URL drops it; so a form is filled by its own record only.
- In the forms of task and report templates and of connections, form and
  selection move in one step, and a save carries the record of
  its form, so that its answer finds out whether the panel still shows it.

`PageFlagsProofs` proves, for the same constants, `TypeCorrect` and
`FlagsOfRequests` from `PagesFlagInvariant`, whose `PagesFlags` has again one part
per page. The two belong together: a flag waits for requests of some kinds, and
that each request is of a kind its page sends, with the fields its function goes
on with, is typing (`Request` in each page's module). On most pages a few lemmas
say what the flags ask of a step: a call may raise them, what ends must not be
what a flag still up waits for, and what is awaited next must be waited for by
the same flag. Each handler is then left to show what it does. A call never
overwrites another request, since it takes a slot that is free, and `None`, which
marks it, is no request.

With the types, the flags of most pages are inductive. Where they are not:

- On the detail page of a ticket, no button waits for "report": the section of
  reports has a flag of its own (`saving`), so the load after an upload leaves the
  flag of the buttons to the request that raised it.
- On the routed pages a save or a deletion outlives the component that sent it and
  clears no flag any more. `RulesPlaced` and `ArticlesPlaced` say where the others
  are: a save that is still shown was sent from the editor that is open, a
  deletion that leads away from the detail page that is open. So the component
  that is mounted next waits for none of them.

On the page of tokens a creation whose dialog was closed goes on, and leaves the
flag of a dialog that was opened since to that one's request (`Detached`). The
alert sources do what the mail senders do (`SourcesDoAsSenders`), so that one
proof serves both; queries have a flag of their own.

`PagesAssumption` says of the constants what the pages rely on: the assumption of
the detail page, that the special records are among the records, that there is a
setting, and that `None` is no record, request, draft or operation.

The assumptions are `WorkflowAssumption`, `RolesAssumption`, `TimeoutsAssumption`,
`DispatchAssumption`, `CacheAssumption`, `NotificationsAssumption`,
`AuthAssumption` and `PagesAssumption`, which TLC evaluates in the runs. Where an
assumption is part of a theorem (`SerialResponders`, `ImmediateTimeoutRules`, one
worker), its statement says so.

Every safety invariant and action property of the passing runs is a theorem.
Liveness under fairness stays with TLC, since the prover knows no fairness:
`DueIsHandled` and `MissedResponseIsReported`, `DueIsSent` and `SentIsAttempted`,
`Converges`, `PendingIsAcknowledged`, `MissedIsReplayed` and `AnsweredIsCompleted`.

## 5. Plan

1. Done: the modules of section 2, and the theorems about every safety property
   and action property of the runs.
2. Next theorems: the parts of the liveness properties that are safety, such as
   that what a fair step waits for stays until it is taken.
3. Next module, if any: report files beside their rows (`reporting.py`).

## 6. Not modelled

- `ConfigurationPage`, `LoginPage`, `TicketCreatePage`, `PlaceholderPage` and the
  layout: one form with one request, or navigation. `frontend/legacy-static`: an
  older client that the build leaves out.
- The CRUD of configuration in the backend (templates, mail senders, alert
  sources, knowledge, reporting, event rules, users, groups, roles): one
  transaction each, no interleaving that matters. The client's side of them is
  modelled.
- Rendering, filters of rules, recipients, SMTP and the alert databases: a free
  choice of outcomes.
- CSRF tokens, login counters, permissions and API tokens at the server.
- The presence keys and unread counts in Redis.
- Containers and scripts: they fix the number of workers and their pool.
