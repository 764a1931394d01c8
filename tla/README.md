# corvix: a verification project

TLA+ models of corvix, the TLC configurations that check them on small
instances, and TLAPS proofs of what matters most of them. Paths below are
relative to the repository. `PROJECT.json` maps every definition to its lines.

Contents: 1 the system · 2 modules · 3 the poll cycle, and 3a fetching ·
4 the watch loop · 5 config cache · 6 live updates, server · 7 live updates,
browser · 8 what a user does to rows · 9 enrichment, 9a rules and dashboards,
9b browser notifications · 10 runs · 11 proofs · 12 what the code does
otherwise than it says · 13 what is not modelled · 14 what is left

## 1. The system

corvix collects the GitHub notifications of one or more accounts into a
PostgreSQL table and shows them as dashboards in a browser.

| part | state it keeps | operations | talks to |
|---|---|---|---|
| poller daemon (`services.py`, `cli.py watch`) | the cycle's variables; `poller_status` in the database | `run_watch_loop`: fetch, enrich, score, apply rules, save, prune, save status, dispatch events | GitHub, PostgreSQL, notification targets |
| GitHub client (`ingestion.py`) | none | paged listing, PATCH (read), DELETE (done), backoff | GitHub |
| enrichment (`pipeline/`) | URL cache and request count of one cycle | four providers per notification | GitHub |
| rules, scoring, dashboards (`rules.py`, `scoring.py`, `dashboarding.py`) | none | pure functions | - |
| actions (`actions.py`) | none | mark_read and dismiss, dry run | GitHub |
| storage (`storage.py`) | tables `notification_records`, `poller_status` | upsert, dismiss, mark read, prune, status | PostgreSQL |
| notification (`notifications/`) | none | compare two snapshots, send events | targets |
| health (`cli.py poller-health`, `web/health.py`) | none | judge the status row by its age | PostgreSQL |
| web handlers (`web/actions.py`) | none | dismiss, mark read: GitHub first, then the table | GitHub, PostgreSQL |
| runtime config (`web/runtime_config.py`) | three module globals | load, reload by mtime, clear on SIGHUP | the config file |
| event stream (`web/sse.py`, `web/snapshot.py`) | a generator per connection; a shared body cache with a lock | push the snapshot when it differs | PostgreSQL, browsers |
| browser store (`snapshot.svelte.ts`) | snapshot, spinners, one fetch, one queued mode, EventSource | start, refresh, load, push, poll | the web API |
| dismissal (`dismiss.svelte.ts`) | pending map, timers, committed keys | dismiss, undo, commit after three seconds | the web API |
| browser notifications (`browserNotifications.svelte.ts`) | seen map in localStorage, cooldown | notify, cap, broadcast to tabs | other tabs |
| routing (`dashboards.svelte.ts`, `router.svelte.ts`) | the URL, the default's name, a flag | select, Back, three effects | the browser store |
| marking read, ignore rules (`markRead.svelte.ts`, `ignoreRule.svelte.ts`) | groups being marked; menu, dialog, one fetch | open, mark a group, ask for rules | the web API |
| filters, palette, theme, tables, components | view state | user input | - |

Two processes and any number of browser tabs share the database; the poller
and the web process both call GitHub with the same tokens. Nothing locks
across processes. What makes that hard, and what a unit test of one function
does not reach:

- a poll cycle is not atomic: requests and new activity fall between its fetch
  and its save, and it may die or lose the database at any step;
- GitHub may have acted although its answer was lost;
- three clocks (poll interval, cycle duration, health limit) have to fit;
- web handlers run in worker threads beside a signal handler, on globals
  without a lock;
- a browser gets the same data by two ways (fetch and push) whose order is
  not that of the data;
- a timer, an undo, two requests and a snapshot race in every dismissal;
- the inbox moves while it is read page by page;
- the tabs of one user announce the same threads, and hear of each other late.

`PROJECT.json` lists these hazards line by line, with the properties that would
catch each of them. What makes each part correct:

- poller, table and handlers: a dismissal is final; a row is hidden or read
  only if GitHub agrees; only a removed account loses rows; an activity is
  announced once and never before it is stored, and no news is swallowed; in
  the end rows equal GitHub;
- watch loop: the stored poll time is that of a completed cycle, so a passing
  health check means one; an undisturbed poller passes it; it recovers;
- runtime config: not older than the file when the call began, and edits seen,
  but for what a slower thread stored over something newer;
- event stream: no connection goes back in time, reads are shared, changes
  arrive;
- browser store: no refresh lost, no endless spinner, and in the end the URL
  names the dashboard on screen;
- rows: a dismissed row stays hidden until a snapshot without it was shown,
  undo in time cancels, the toast ends, a group is "marking" while it is, a dialog speaks of its own row;
- browser notifications: nothing swallowed, nothing repeated without a cause;
- rules and dashboards: a row is hidden for a reason, what was silenced stays
  silent, groups and counts are of the rows shown;
- enrichment: accounts apart, answers paid for once, errors local;
- fetching: what keeps its place in the list is not missed.

## 2. Modules

| module | models | checked by | proved in |
|---|---|---|---|
| `Records` | data and pure functions of a cycle | through `PollCycle`, `Ingestion` | `PollCycle_proofs` |
| `DashboardContract` | what a user may rely on, abstractly | `KeepsContract` | `PollCycle_proofs` |
| `PollCycle` | poller + web handlers + table + GitHub | `PollRaces`, `PollAccounts` | `PollCycle_proofs` |
| `Ingestion` | one account's cycle, page by page and try by try | `Ingestion` | `Poller_proofs` |
| `WatchLoop` | the loop, its error handler, health checks, time | `Watch` | `Poller_proofs` |
| `ConfigCache` | `_load_runtime_config` under threads and SIGHUP | `Config` | `Configuration_proofs` |
| `SseStream` | event generators and their shared cache | `Sse` | `LiveUpdates_proofs` |
| `SnapshotStore` | the browser's copy of a dashboard | through `DashboardView` | `LiveUpdates_proofs` |
| `DashboardView` | URL, selection and the effects, over `SnapshotStore` | `Snapshot` | `LiveUpdates_proofs` |
| `DismissStore` | dismissal with undo | through `RowActions` | `RowActions_proofs` |
| `RowActions` | marking read and the ignore-rule dialog, over `DismissStore` | `Dismiss` | `RowActions_proofs` |
| `Pipeline` | enrichment of one cycle | `PipelineRun` | `Pipeline_proofs` |
| `Ranking` | a finite set written down in an order | through `Ingestion`, `RuleFlow` | `Ranking_proofs` |
| `Rules` | scoring, rule matching, generated criteria | through `RuleFlow` | `Configuration_proofs` |
| `Dashboards` | selection, sort, cap, groups, counts | through `RuleFlow` | `Configuration_proofs` |
| `RuleFlow` | snippets, the file, the poller's verdicts, the views | `RuleFlow` | `Configuration_proofs` |
| `BrowserNotify` | browser notifications in the tabs of a user | `Browser` | `BrowserNotify_proofs` |

`MC*` modules give the constants small values. In every module the variables
below the second `VARIABLES` are history: actions write them, no guard reads
them. Operators introduced by "A bug to exclude" are plausible mistakes; with one of
them in the place of the definition after it, the run finds the property of
that name in `PROJECT.json` ("mutants") violated.

## 3. PollCycle: poller, handlers, table, GitHub

State: `inbox` is GitHub's (listed, unread, and a version that grows with each
activity: what `updated_at` tells apart); `db` the table, by notification key;
`status` the status row; `pc`, `toFetch`, `failed`, `prev`, `batch`, `records`
the locals of `_run_poll_cycle`; `inflight` the web requests between GitHub's
answer and their UPDATE; `cfg` the configuration the poller started with.
History: `told` and `dup` (announced, announced twice), `late` (rows read by a
mark-read older than they are), `deleted` (answered DELETEs), `owed` (what the
last save made news and nobody was told yet: a row that appears, or turns from
read to unread, and that the rules leave in sight) and `readSince` (rows turned
read by a request between the previous snapshot and the save, for which it is a
matter of opinion whether the save turns them unread).

| action | code |
|---|---|
| `StartCycle` | `_resolve_active_clients`, `_load_previous_records` |
| `FetchAccount`, `FetchFails` | one client in `_fetch_notifications`, answering or raising |
| `Process` | one iteration of `_process_notifications` with `execute_actions` |
| `SaveRecords`, `Prune`, `SaveStatus` | one transaction each |
| `Dispatch` | `_dispatch_notification_events` |
| `CycleFails` | a database call raises; `run_watch_loop` catches it |
| `Restart` | the process dies anywhere and starts, maybe with another config |
| `WebCall`, `WebStore`, `WebStoreFails` | the two handlers, before and after their `await`-free GitHub call |
| `NewActivity`, `TouchedElsewhere` | GitHub and the user's other clients |

Abstractions, and why they lose nothing here:

- Rules, scores and exclusion are *any* outcome of `Outcomes`: properties hold
  whatever the rules say. Action types are deduplicated by the code, so a list
  is a set; the two GitHub calls of one notification are one step, since
  anything that falls between them commutes with one of them or is also
  possible before or after.
- The fetch of one account is one step, and so is a DELETE (section 3a takes
  them apart); accounts and notifications are taken in any order.
- One target stands for all; it may fail for any subset of the events, which
  is what the dispatcher isolates.
- `last_poll_time` and time belong to `WatchLoop`.
- The web process reloads its config by itself, so a request may be resolved by
  any of `Configs`.
- Enrichment changes no field that the properties look at.

## 3a. Ingestion: pages and retries

`inbox` is what GitHub lists, latest activity first; `page`, `fetched` and
`attempt` are the locals of `fetch_notifications` and of
`_request_no_content_with_backoff`, `db` the table as in `PollCycle`. A page is
the part of the listing between two positions, and the listing is the set of
listed threads, each at the position that the number of later active ones
gives (`Ranking`): the list moves because that number changes.

| action | code |
|---|---|
| `StartFetch`, `FetchPage`, `EndFetch` | the loop over pages, ended by an empty page or `max_pages` |
| `FetchFails` | a page raises, and the pages before it are lost with it |
| `Process` | the rules dismiss a notification or leave it alone |
| `DeleteReturns`, `DeleteThrottled`, `DeleteRaises` | 204; 403 or 429 with attempts left; anything else, a lost answer included |
| `SaveAndDispatch` | the upserts in order, and the events, judged against the rows of before |
| `NewActivity`, `DoneElsewhere`, `ReadElsewhere` | GitHub moves the list, between two pages or at any other time |

Only `dismiss` is repeated by the code (`mark_read` is a single PATCH), so only
it is here. Delays have no effect on what happens.

## 4. WatchLoop: time, errors, health

A tick is a minute (any unit will do: the properties compare durations).
`age` is that of the stored `last_poll_time`, `success` and `polled` are the
history it is compared with, all capped at `Cap`, which is above every limit.
`Begin`, `Complete(F)` (accounts `F` raised), `Raise`, `LoadStatus` and
`SaveError` are the loop and the two `try` blocks of `_handle_cycle_error`;
`DbFails`, `DbRecovers`, `Killed`, `Restarted` the environment
(`restart: unless-stopped`). `MaxCycle` says that a cycle ends: its requests
have timeouts. The OSError/ValueError fallback of the handler cannot be
taken: the storage in use raises neither. `Interval` is what the loop read when
it started, `Checked` what `poller-health` reads from the file each time: they
differ while the file is edited and the poller not restarted.

## 5. ConfigCache

Every read and every write of the three globals is a step of its own (the
handlers are synchronous functions run in worker threads), as are the three
writes of the SIGHUP handler, which Python runs in the main thread between any
two of them. A `Version` is at once mtime and content; an edit makes the file
valid, invalid or absent. Threads outside a call keep their last result, which
is what makes the place "done" observable; a new call begins with new locals.
Three history variables say what the code promises less than it seems to: the
newest content ever cached (`newest`), the threads whose answer had been stored
over a newer one by a slower thread (`misled`), and those that found a config
which SIGHUP took away before they returned it (`cleared`).

## 6. SseStream: live updates, server side

One generator per connection, opened at any time; `Wake` reads the clock, the
worker then waits for the lock, re-checks the age with that old clock
(`gap`, which is -1 when the body was stamped after the clock was read), reuses
or rebuilds. A rebuild reads rows and status in two queries, so a writer in
between leaves a mixed body, as it does in the code. `timer` is
`asyncio.sleep`. Keep-alive comments and the digest's hash are left out: the
client sees neither.

## 7. SnapshotStore: live updates, browser side

A step is a callback (JavaScript runs each to its end): `Switch`, `Refresh`,
`PollTick`, `Settle` (all of `#load` after its `await`), `HandlePush`. The
server is a version that grows and is read by a fetch between its request and
its answer. `Disconnect` is a broken connection, after which EventSource
reconnects or gives up (`closed`) and the fallback interval runs.
`autoRefreshing` and error texts are left out.

`DashboardView` says which dashboard is asked for: `route` is the name in the
URL, `default` and `navigated` are the two private fields of the code. Whatever
an effect reads sets `dirty`, and `Effects` is one pass of the three effects,
which runs before the browser handles its next event; a pass that replaces
the URL is followed by another. `Select` is the selector or the palette, `Pop` Back and
Forward. The server's list of dashboards may change between two versions
(`NamesAt`). Two things a reader of the code may not expect, both harmless for
the properties: selecting the dashboard that is shown leaves `#userNavigated`
set, so that a later step Back to a URL that needs normalising waits for the
next snapshot; and every snapshot, be it equal to the last, makes the effects
run again.

## 8. DismissStore and RowActions

`pending` is the entry map (0: none), `timers` and `calls` are clicks on
their way; `Fire`, `Answer`, `Commit`/`Fail`, `Finish` are the parts of
the timer callback between its awaits. A snapshot is read (`Read`) and shown
(`Show`) in two steps, by either of two channels: the fetch, one at a time, and
the event stream, which keeps its order and has up to `MaxPushed` snapshots on
their way (`Room`). What was read first may be shown last. This is a little more
than the code can do: a fetch may be read at any time, asked for or not, and a refresh may end
(`Finish`) at any time, whereas in the code it ends at once if a fetch was in
flight and with its own fetch otherwise. `left` is history: the keys that were
missing on the screen at some time since their call succeeded.

`RowActions` adds what else a user does to rows: `OpenTarget` and
`MarkGroupRead` with one call per row, answered in any order (`Opened`,
`Settled`), and the ignore-rule menu and dialog (`RequestRule`, `CloseMenu`,
`OpenDialog`, `CloseDialog`, `Snippets`, `Cancelled`). The dialog's effect reads the
snapshot, so a new snapshot (`Replace`) cancels its fetch and starts another:
an open dialog goes back to "loading" whenever one arrives.

## 9. Pipeline

One run over the notifications of a cycle. The position `at` says which
provider asks for what; `Get` is `PipelineContext.get_json`: cached answer,
refusal by the budget, or a request that answers or fails. A payload has the
expected shape or is odd; what exactly it says is left out, check-suite titles
are taken to parse. Each provider is one action per request, with the code's
early returns as guards.

## 9a. Rules, Dashboards, RuleFlow

`Rules` has `score_notification` (with integer weights), `matches_criteria`,
`evaluate_rules` and the criteria a snippet contains; `Dashboards` has
`_included_by_dashboard`, the stable sort, the cap, the groups and the summary;
neither has variables. Names are numbers, their places in string order. A glob,
a token or a regular expression is the set of the names it matches, an operand
the set of the values it accepts; an escaped and anchored title finds that
title only. A sorted, capped or grouped list is stated by places: which row
stands at which place is a matter of how many come before it (`Ranking`), so
that a view can be reasoned about without folding over it. Matched rule names
and item fields that nothing decides upon are left out.

`RuleFlow` puts them to use. State: GitHub's unread threads, the stored rows
with their verdicts, rules and dashboards of the file, the rules the poller was
started with, the clock.

| action | code |
|---|---|
| `Poll` | `_process_notifications` and the upsert; a notification may come back without context (enrichment fails open) |
| `RestartPoller` | the poller reads the file |
| `PasteSnippet` | the snippet route, and the user who saves the text under the dashboard or under `rules.global`, with or without predicates |
| `Dismiss`, `MarkRead` | the handlers, as one step (their races are in `PollCycle`) |
| `Activity`, `Tick` | GitHub, maybe with a new title; an hour |

The web process builds a view from the rows and the file at the time of the
request, so a view is a function of the state. `load_records` leaves rows of
one poll and one score in any order: a view is judged in both orders of ties.

## 9b. BrowserNotify

Per tab the map of announced threads (`seen`), the cooldown, whether
notifications are enabled, and the messages on their way; in localStorage the
saved map and the saved switch. A timestamp is kept as an age, in units of the
touch interval (a day), expired after `TTL` (seven).

| action | code |
|---|---|
| `Load`, `Bind`, `Close` | the constructor reads localStorage; `bind` subscribes later; the tab goes |
| `Handle` | the effect: touch what is listed, take the new, cap, announce, prune, save, broadcast |
| `Deliver` | `onMessage`: merge, prune, do not save |
| `Toggle` | `enable` (granted), `disable` |
| `Cool`, `Tick` | the cooldown ends; a day passes |
| `Change` | a snapshot brings, changes or drops an item |

A message to a tab that has loaded and not yet subscribed is missed, as in the
browser. `mark` says of each thread whether it was announced, whether something
has happened since that explains a repeat, and whether it was repeated.
The `tag` of a notification is its key, so that a double announcement by two
tabs replaces the first on the desktop. New activity on a thread the map
already knows is not announced again by the browser (the map has no
timestamps of activities); targets of the server do that.

## 10. Runs

Every listed run is exhaustive. Deadlock is checked except in `PipelineRun`
(the run ends) and `Dismiss` (the user may do no more). Type invariants are
proved (section 11), so most runs do not spend a property on them.

**`poll_races`** (`PollRaces`, 0.7 million states). One thread, one account,
two activities, one failure, one web request at a time, dry-run and apply mode,
restarts between them. Safety of the table against every interleaving:
`HiddenOnlyAfterDelete`, `ReadRowIsRead`, `NewsIsAnnounced`,
`RepeatsOnlyAfterLateMark`, `DismissedStays`. The exception `late` is real and
named: a mark-read answered before an activity and stored after the poll of it
makes the row look read. `NewsIsAnnounced` and `RepeatsOnlyAfterLateMark` are
the two sides of the comparison with the previous snapshot: nothing that the
save turns into news is missing from the events, and no activity is among them
twice. The events of a cycle that dies between its save and its dispatch are
lost all the same (section 12). One thread is enough because threads meet only in
transactions that treat each row by itself, and the theorems cover all of them;
two versions are what it takes to be late.

**`poll_accounts`** (`PollAccounts`, 0.7 million). A second account that may be
dropped from the configuration and may fail twice: `KeepsContract`
(refinement), `RowsOutliveFailures`, and `Converges`. Fairness: `WF(Poller)` only, for
`run_watch_loop` goes on; nothing is assumed of GitHub, users or requests.
`Converges` needs `polling.all`: otherwise a thread read elsewhere is not
listed any more and its row stays unread, by design.

**`ingestion`** (`Ingestion`, 0.5 million). Two threads at first and three in
all on pages of one, of which two are read: the third is out of reach until
the list moves. Three activities, two of them before the first poll, one
failing page, three attempts at a DELETE that is throttled, refused or lost:
`SteadyThreadsAreFetched`, `DismissedWasDeleted`, `RepeatsOnlyIfPushed`,
`EveryThreadArrives` (weak fairness of the poller, nothing assumed of GitHub's
answers). Two pages of one entry are the smallest list in which an entry can
move over a page boundary in either direction.

**`watch_health`** (`Watch`, 5 thousand). Five-minute interval (that of
`docs/spec.md`), cycles up to two minutes, two failures of any kind.
`StoredTimeIsTrue` (of which `HealthyMeansCompleted` is a consequence, by a
theorem), `NoFalseAlarm`, `Recovers`.
Weak fairness of the loop, time, recovery of the database and the container restart.

**`config_threads`** (`Config`, 0.3 million). Two worker threads, two edits and a
SIGHUP anywhere: `NeverStale`, `EditsAreSeen` (weak fairness of calls: requests,
the health checks among them, keep coming). Two edits are what it takes for a
`stat` to be overtaken and the next edit to repair it, two threads for a slow
one to store its old content over a newer one. That is the one excuse of both
properties, and SIGHUP between comparison and return the one excuse for None;
section 12 shows that the code needs both.

**`sse_streams`** (`Sse`, 0.2 million). Two connections opening at any
time, an interval of two ticks, one write of each table, one failing query:
`NeverGoesBack`, `OneReadPerInterval`, `LoneTickIsCurrent`, `Delivered`. Two
connections suffice to wait, to reuse and to be overtaken. Fairness:
generators and time (weak), and strong fairness of taking the lock: a
`threading.Lock` promises no order, but each holder sleeps for an interval
afterwards.

**`snapshot_loads`** (`Snapshot`, 0.8 million). Two dashboards whose order in
the configuration changes, two selections or steps through the history, two
changes, one fault: `NoRefreshLost`, `SpinnersEnd`, `UrlNamesShown`,
`FallbackCatchesUp`. Effects, callbacks, answers, pushes, the interval and the
poller are weakly fair; the user is not. `UrlNamesShown` is claimed while no
load failed: when a load fails right after a selection the other dashboard's
snapshot stays, with an error, until the server pushes. A change of order is
what it takes for "no name" to mean another dashboard than before.

**`dismiss_rows`** (`Dismiss`, 0.3 million). Two rows in two groups, three
things done, dismissals included, a fetched and a pushed snapshot on their way
at a time: `HandledStaysHidden`, `GraceHonoured`, `MarkingIsHonest`,
`DialogIsOfRow`, `ToastEnds` (timers fire, requests end). Two groups are what it
takes for the end of one batch to meet another; one snapshot per channel is
what it takes to show an old one after a new one. The theorem has no such bound.

**`pipeline_run`** (`PipelineRun`, 46 thousand). Five notifications of two
accounts that share a pull request, one with a subject to recover, a release
and a check suite, a budget of six, every answer good, odd or failing:
`OwnToken`, `EachAnswerPaidOnce`, `ErrorsStayLocal`.

**`rule_flow`** (`RuleFlow`, 0.1 million). Three rows, one of them old and read,
one that may be renamed to the title of another; a dashboard that shows one
row at a time, one of all rows with an ignore rule of its own, and the built-in
one; one snippet pasted, of any kind. `HiddenForAReason`, `PastedStaysHidden`,
`ViewIsFaithful`, `ExcludeArrives` (weak fairness of polling only: that the poller is
restarted is a hypothesis of the property). One pasted snippet next to a
configured rule is what it takes to confuse "any" with "all". Scores differ by
title and do not decay here: no criterion of this instance asks for them, and
sorting takes them as they are stored.

**`browser_notify`** (`Browser`, 0.9 million). Two tabs, two threads, one
announcement per snapshot, room for two entries, which live for two days; one
click on the switch: `NoRepeatWithoutCause`, `SeenMeansTold`. The first is about
threads that every open tab handles every day; one day on which an open tab
missed the thread, or no tab was open, excuses a repeat for good. That is
coarser than the code, whose entries live for seven days without a touch. An entry may be
touched, expire or be evicted within these bounds, and a second tab suffices
to announce, save or load too early or too late.

## 11. Proofs

All for arbitrary sets of keys, accounts, threads, connections, dashboards,
rows and tabs, any configurations, outcomes and bounds that satisfy the named
`ASSUME`s (TLC evaluates them in every run). Eight modules, of which three
speak of more than one component: `Poller_proofs` (`Ingestion`, `WatchLoop`),
`Configuration_proofs` (`RuleFlow`, `ConfigCache`) and `LiveUpdates_proofs`
(`SseStream`, `DashboardView`). For their sake `WatchLoop`, `ConfigCache` and
`SseStream` name their specifications `WatchSpec`, `CacheSpec` and
`StreamSpec`. All of the safety properties and action properties that the
passing runs check are stated by a theorem.

**`PollCycle_proofs`.** None of the safety properties is inductive: what a row
shows depends on what the cycle and the requests hold. `IInv` adds, part by
part,

- `Behind`: nobody holds a version newer than GitHub's;
- `ReadsAreTrue`: whoever holds "read" for the latest activity is right (rows,
  previous snapshot, batch, records, requests);
- `CycleIsFresh`: what is about to be saved is of configured accounts and not
  older than the table; once saved, it stays. This is where it matters that
  one poller writes and that fetching precedes saving;
- `UnreadIsNews`: read in the previous snapshot and unread now means newer.
  This is where it matters that the snapshot is loaded *before* the fetch;
- `ToldIsKnown`: earlier announcements are in the previous snapshot;
- `HiddenWasDeleted`: every dismissal under way was acknowledged;
- `NewsIsKept`: until the save, a row that was unread in the previous snapshot
  still is, unless a request has read it in between; after the save, what is
  owed is among the events. This too needs the snapshot *before* the fetch.

Each part has a lemma that one step preserves it, with one step per action;
lemmas before them say what the pure functions and the disturbing actions do.
From `Invariance` follow `TypeCorrect`, `ReadRowsAreRead`,
`AnnouncedRowsAreStored`, `NewsReachesDispatch`, `HiddenRowsAreDeleted`, `OneAnnouncement` (for
`include_read` off), and with step lemmas the action properties
`DismissalIsFinal` and `RowsStay`, and `Refinement`: `SaveRecords` is the contract's
`Refresh`, `Prune` its `Forget`, `WebStore` its `Hide` (or a stutter),
`Dispatch` its `Announce`, and every other step changes none of its variables.

**`Ranking_proofs`.** Induction over the naturals, which the library's theorem
cannot give here, is had by the least counterexample (`LeastNatural`). From it,
by counting predecessors: every place has exactly one element, an earlier one
before a later one (`EveryPlaceIsTaken`, `RankedInOrder`), and what an
injective function reaches is counted once (`CountedOnce`). Pages, sorted rows
and groups are all taken from these.

**`Poller_proofs`, fetching.** What a cycle holds is one line, the records
already made and then the notifications that wait (`Line`): processing moves
the border and leaves the line alone. `IngestionInv` says of it

- `AgeInv`: along the line no later entry of a key is older than an earlier
  one, none is newer than GitHub and none older than the stored row. A page
  tells what GitHub says now, and GitHub only moves on; a row is upserted in
  the order of the line, so the last entry of a key wins and is the newest;
- `ToldInv`: whatever was announced is stored, in a row at least as new;
- `DistinctInv`: unless an activity has moved the list between two pages, what
  was fetched stands within the pages asked for so far, so the next page brings
  no key again. Threads that leave only pull others forward
  (`LeavingPullsUp`), which makes gaps and never repetitions;
- `DeletedInv`: `dismissed` in a record or row stands for a 204;
- `SteadyInv`: a thread that was not moved forward is collected or stands
  behind the pages asked for.

They give `DismissedWasDeletedHolds`, `SteadyThreadsAreFetchedHolds` (for
every page size and page limit) and `RepeatsOnlyIfPushedHolds`, the last for
`include_read` off, as read threads are otherwise announced in every cycle.
That the records are saved one by one is a recursive function; `SaveAll` takes
the least number of records at which it would go wrong.

**`Poller_proofs`, the watch loop.** `TruthInv` (the stored and the kept age
are that of the last success) gives `StoredTimes` and `HealthIsSound` for every
interval and any failures. `Timely` (without faults, age is bounded by what the
loop still has to do) gives `NoAlarm` when `2 * MaxCycle + Interval <=
Threshold`, and `NoWebAlarm` when it is `<= Floor`: exactly the condition that
a five-minute interval breaks.

**`Pipeline_proofs`.** `BudgetOK` (every cached answer was fetched with the
token of the account it belongs to, and the count is the size of the cache)
gives `NoForeignToken` and `PaidOnce`; `WorkOK` (the providers whose turn is
over have done their work, or had trouble of their own) gives `LocalErrors`.
`GetKeeps` says once what a request does to both.

**`RowActions_proofs`.** `ClicksApart`: the number of a running timer is carried
by the entry of its own row or by none. Without it an undo of one row might
leave the timer of another. `HiddenForGood`: a thread whose call succeeded and
that has not been missing on the screen since is kept out of sight by the
committed keys alone, whatever becomes of its entry; the effect of `bind` drops
no key that is on the screen. They give `UndoneNeverFires` and
`HiddenUntilGone`, for any number of snapshots on their way; `HonestMarking` and
`DialogKeepsToRow` are inductive once the dialog's cancelled fetches are kept
apart from the live one.

**`Configuration_proofs`, rules and dashboards.** `FlowInv` ties the
configuration to its history: the rules of the file and those of the poller are
the first ones and pasted ones, nothing else (`RulesInv`); a dashboard has its
first ignore rules and all that were pasted into it (`DashboardsInv`); a row is
excluded by a first rule at some hour since its activity or by a paste that
covers it (`ExcludedInv`). With `CriterionMatches` (a generated criterion
matches what agrees with the row it was made from in everything it names, and
nothing else) these give `HiddenForAReasonHolds` and `PastedStaysHiddenHolds`.
`ViewIsFaithfulHolds` is about the operators alone: `ChosenRows` (the rows that
go to a dashboard are chosen rows, once each, in the order of the sort, and none
left out comes before one shown), `GroupedRows` (grouping moves rows and
loses none, nor does it disturb their order within a group) and `ViewOfRows`
(the counts are those of the rows shown). It holds for every order in which the
rows are read. The proof needs one assumption about the table of before
(`StoredAssumption`): its rows were judged by the rules the file has.

**`Configuration_proofs`, the config cache.** For any number of worker threads,
edits and SIGHUPs: `ThreadAgrees` (what a thread has parsed is not older than
the mtime it asked for first; a hit in the cache means that content as new as
that mtime has been stored; a config gone after the comparison was taken by
SIGHUP) and `FieldsAgree` (neither a cached mtime nor a cached config is newer
than the newest content ever cached) give `StaleOnlyByRace`. What the proof rests on is that `stat` precedes the
parse, and that the mtime is stored after the content.

**`LiveUpdates_proofs`, the server.** `LockOK` (one thread reads), `HeldOK`
(bodies leave the cache in the order in which they went in, so what is shown,
held, cached and being read is ordered), `AgeOK` (a waiting thread knows an age
that is not above the true one) and `LoneOK` give `ForwardOnly`,
`ReadsAreShared` and `LoneIsCurrent`, for any number of connections and any
interval.

**`LiveUpdates_proofs`, the browser.** `LoadsCatchUp`: the last request for a
load stands behind an answer read after it, or one still to come, and nothing
is queued behind no fetch. It gives `RefreshesAreServed` and
`SpinnersHaveLoads`, whatever is selected meanwhile.

**`BrowserNotify_proofs`.** A thread that was announced and has no excuse is
known everywhere (`ToldOK`): the saved entry is alive and the freshest of all,
and an open tab has a live entry or a message on its way (`TabKnows`); what the
tab handled today it has touched, which is why a day does not let the
entry expire. That needs `TouchInterval < TTL`, as the code has it.
`NewOK` says the same of a thread nobody announced. They give
`NoCauselessRepeat` and `SeenWasTold`.

**Only model-checked:** liveness (`Converges`, `Recovers`, `EditsAreSeen`,
`Delivered`, `UrlNamesShown`, `FallbackCatchesUp`, `ToastEnds`,
`ExcludeArrives`, `EveryThreadArrives`), which is out of the prover's reach.
Not proved either, because they are not claimed there:
`RepeatsOnlyAfterLateMark` and `RepeatsOnlyIfPushed` with `include_read`.

## 12. What the code does otherwise than it says

The run that TLC is expected to find violated:

| run | what happens |
|---|---|
| `poll_dismiss_rule` | a rule's dismiss on a stored thread: GitHub drops it, the conflict clause keeps the row visible, and no later poll repairs it |

Further counterexamples, each with a `.cfg` to run by hand
(`tlc -continue -config X.cfg MC...`):

| cfg | module | what happens |
|---|---|---|
| `PollDismissedEvent` | `MCPollCycle` | a row the user dismissed is announced when its thread becomes unread; a crash between the save and the dispatch loses the events of the cycle |
| `WatchWebAlarm` | `MCWatchLoop` | five-minute polling trips the web check's fixed five minutes |
| `WatchFaults` | `MCWatchLoop` | every account fails in every cycle, and the poller is "healthy"; the error handler's `load_status` raises a psycopg error nobody catches, and the loop ends with the database |
| `ConfigRaces` | `MCConfigCache` | two threads around one edit leave the old config beside the new mtime; SIGHUP between the comparison and the return makes the call return None |
| `SnapshotStale` | `MCDashboardView` | a fetch answered before a change and handled after the push of it leaves the older snapshot until the next push, which the next poll brings |
| `SnapshotUnknown` | `MCDashboardView` | a URL that names no configured dashboard is asked for again and again: every answer is a 404, so no list of names ever replaces it |
| `PipelineBudget` | `MCPipeline` | requests that fail are not counted: more are sent than the budget |
| `IngestionRepeat` | `MCIngestion` | new activity between two pages shifts a thread onto the next page: it is fetched twice and announced twice |
| `DismissUndo` | `MCRowActions` | the toast offers Undo while the call is under way, and undone or not the thread is dismissed; a dismissal repeated during the first call loses its undo; a snapshot that was read before the dismissal and is shown after one without the row brings the row back |
| `RuleReadRow` | `MCRuleFlow` | a row read before the next poll keeps its verdict: a global exclude never reaches it in a dashboard that shows read rows, while `docs/spec.md` says it is "applied to every dashboard" |
| `BrowserTabs` | `MCBrowserNotify` | two tabs announce one thread before either hears of the other; a tab that is open goes on after notifications were disabled in another |

A further false alarm needs no run of its own: with `Interval` and `Checked`
apart (the file edited to one minute, the poller not restarted from ten)
`NoFalseAlarm` fails in `Watch`; the theorem `NoAlarm` asks that the limit
computed from the file covers the interval that runs.

With `include_read`, read threads are announced in every cycle
(`RepeatsOnlyAfterLateMark` is about `include_read` off, the default).

## 13. What is not modelled

The message a notification target posts and its HTTP call (which of the events
arrive is `Deliveries`), middleware, routes and static
pages (each request by itself), migrations, CLI output,
observability (no decision reads it), Svelte components, theme, filters, column
widths, palette and keyboard (one user, one tab, synchronous), the event
deduplication helper (no production code calls it), the storage provider (one
construction under a lock, checked twice; nothing else can observe it).
PostgreSQL and GitHub are modelled as their callers use them. Two pollers on
one table are not a supported deployment.

The validation done by configuration parsing is left out: what it yields is in
the types of `Rules` and `Dashboards` and in the constants of the models, within
their `ASSUME`s. Weights are integers; the code adds floating-point numbers,
and rounding is not modelled. The assumptions are a little
narrower than the parser: it accepts a negative `interval_seconds` (`time.sleep`
then raises outside the `try` of `run_watch_loop`), a `max_pages` of zero
and two dashboards of one name.

Failures of localStorage, the permission dialog of the browser and which error
text is shown after two failures are left out of the browser's modules.

## 14. What is left

Every component that keeps state has a module. What would add most next:

1. `Pipeline` composed with the upsert: a cycle whose budget is spent stores
   rows without the context that an earlier cycle had found.
2. A theorem that `Ingestion` implements the fetch and the DELETE of
   `PollCycle`, which takes them as one step each; both are proved about
   separately now.
3. `DashboardView` composed with `SseStream` in the place of its abstract
   server, which would replace the fairness of `PushEvent` by that of the
   generators.
4. Excuses of `NoRepeatWithoutCause` that count the days a tab has missed an
   item, up to the lifetime of an entry, instead of taking one day for all.
