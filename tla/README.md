# gamwich: a TLA+ development of its core

gamwich is a family organiser that a household runs on its own machine: a Go
server with an SQLite file, pages rendered on the server, live updates over
WebSockets, and paid extras (a Cloudflare tunnel, encrypted offsite backups, push
notifications) that a separate billing service licenses. This directory holds
TLA+ models of the parts whose correctness depends on the order in which things
happen, the TLC runs that check them on small instances, and theorems that TLAPS
proves for every value of the constants.

- [The system](#the-system) - parts, state, operations, what is hard about each
- [The modules](#the-modules) - how each model corresponds to the code
- [The runs](#the-runs) - what each checks, with which bounds and fairness
- [Where the code and its documents differ](#where-the-code-and-its-documents-differ)
- [The proofs](#the-proofs)
- [What is not modelled](#what-is-not-modelled) and [the plan](#the-plan)

Check a model with `tlc -config hub.cfg MCWebSocketHub`, a proof with
`tlapm WebSocketHubProofs.tla`. `PROJECT.json` says which lines of the source each
definition stands for, which deliberate fault (a definition marked `Fault:`)
breaks each property, and where the code is exposed to what.

## The system

One process, `cmd/gamwich`, holds everything but billing. Its `main` opens the
database, builds the managers, validates the license, starts the licensed
services and serves HTTP; at the end it cancels the services' contexts, stops
them and shuts the server down. Handlers run on a goroutine per request and share
the managers (each with a mutex) and the database (one statement at a time;
nothing but a few seeding and ordering operations uses a transaction).

| Part | State | Operations | What is hard | What makes it right |
|---|---|---|---|---|
| Tunnel manager `tunnel/tunnel.go` | config, status, failure count, `cancel` and `done` of the current run | Start, Stop, UpdateConfig; the retry loop; log events of cloudflared | the lock is released between stopping, forgetting and starting; a deferred `close` of a shared channel; Stop's 10 s limit | one managed cloudflared that follows the settings; no panic; retries end |
| WebSocket hub `websocket/` | the map of clients under an RW lock, a buffered channel per client | Register, Unregister, Broadcast, the two pumps of a client | a send may meet a close; slow and silent peers; pings that block | no send on a closed channel; messages accounted for; broadcasts end, clients are released |
| Backup manager `backup/`, `store/backup.go` | S3 client, status, cached passphrase; `backups` table; objects in S3 | schedule, RunNow, Cleanup, Restore, UpdateS3Config, CacheKey | crashes between row and object, overlapping runs, settings changed in mid run, restoring under live goroutines | what the table says agrees with S3 |
| License client `license/client.go` | key, status | Validate, SetKey, HasFeature, daily loop | a call without the lock; outages and the grace period; late answers | no feature without a grant; none lost to an outage |
| Sign-in `handler/auth.go`, `store/{magic_link,session,household,user}.go`, `middleware/auth.go` | users, households, memberships, codes, sessions | login, register, verify, invite, accept, switch, logout | every handler is a string of statements that others run between, and any of which may fail | who is admitted; what a session stands for; how often a code can be guessed and spent |
| Push `push/`, `store/push.go`, `handler/push.go` | devices, preferences, record of what was sent | minute tick, daily chore reminder, cleanup, subscribe | crash between send and record; ticks that come late, twice or not at all | nothing sent twice without need; no device passed over |
| Billing service `billing/`, `cmd/billing` | accounts, subscriptions, license keys, sessions | Stripe webhooks, login, checkout, validation, cleanup | events lost, repeated, out of order, overlapping | the tables say what Stripe says; keys belong to who paid |
| Rate limiter `middleware/ratelimit.go` | a count and the end of its window per client | Allow, cleanup | windows that meet, cleanup in between | a bound per length of time |
| Family members `handler/family_member.go`, `store/family_member.go` | rows, PINs, the cookie that says who acts | create, rename, reorder, delete, PINs | look-up-then-insert; what refers to a member who is gone | names are unique; ids never come back |
| Chores `handler/chore.go`, `store/chore.go`, `chore/status.go` | areas, chores, completions | the same, complete, undo, the board | references that outlive their rows; status at day boundaries; three pages that compute alike | the board shows every chore and its true status |
| Rewards and points `handler/reward.go`, `store/reward.go` | rewards, redemptions; a balance is computed | redeem | check of the balance, then insert; undo after spending | how far beyond their points members can spend |
| Groceries and notes `handler/{grocery,note}.go`, their stores | items, notes | add, edit, toggle, clear, list | read-then-negate toggles beside edits and sweeps; categories the table lacks | no toggle undone by an edit; no item off the page |
| Calendar `handler/calendar_event.go`, `store/calendar_event.go`, `recurrence/` | events, rules, exceptions | create, edit and delete one or all of a series, expand | calendar arithmetic at month and year ends; exceptions beside their series | what is shown is what the rule means |
| Small parts | weather cache, settings, mail | | stale caches | |

They interact like this: the managers' status callbacks and every handler that
changes data broadcast through the hub; the settings handlers write rows and call
UpdateConfig, UpdateS3Config, CacheKey or SetKey; `main` asks the license client
once, at boot, which services to start; the license client asks the billing
service once a day; RequireAuth reads session and membership before every other
handler. Push goes through the devices while people add and remove them, and would read the
calendar's rows if its query returned any; rewards spend what chores
earn, and both name members, whose rows may be gone. The billing service shares no state
with the household's process but the key its owner types in.

The hazards - where in this code an order of steps, a failure or a boundary is
hard to test - are listed line by line in `PROJECT.json`, each with the properties
that would catch it going wrong, or a note where none covers it yet.

## The modules

Every component has a module with its state, one action per operation or step,
`Spec` and its properties; an `MC...` module adds the symmetry TLC may use; a
`...Proofs` module holds its theorems (HouseholdProofs those of Household and Lists; CalendarProofs
those of Recurrence, Calendar and PushScheduler; BillingProofs those of both ends of billing,
BillingService with RateLimiter and LicenseClient). Modules that share state extend one another: Household over Rewards, Chores,
FamilyMembers and Requests; Calendar over Recurrence; BillingService over
RateLimiter. The models share a grain: **a step is what
the code does under one hold of a lock, in one SQL statement or in one blocking
call**. What a goroutine has read before such a boundary it carries in its locals
(`want`, `target`, `job`, `call`, `request`), so a value that is stale by the time
it is used is stale in the model too. `history` variables record what happened
for the sake of a property and are read by no action.

**TunnelManager** - `tunnel.go` with the settings handler and `main`.
`cfg`, `status`, `failureCount` are the fields of `Manager`; `current` stands for
`cancel` and `done` together, which are always written together. A run of the
retry loop has a program counter `runPc` (top of the loop, token read, alive, exited,
failed, backing off, in the deferred function), the token it read and its context;
a caller (a handler or `main`) has `opPc` and, in Stop, the run it waits for.
`SwapConfig`, `HandlerStop`, `HandlerStopped`, `ClearRun`, `HandlerStart` are the
critical sections of UpdateConfig, `RunExit` is the deferred function with its
panic. Either write of the settings handler may fail, as may the read at boot, and the code goes
on as if it had not: `lost` is the history of it. The subdomain, the log ring and the text of
errors are left out.

**WebSocketHub** - `hub.go`, `client.go`, `handler.go`. A broadcast takes the read
lock, visits the clients one by one in any order (`visiting`) and releases; a
writer that waits keeps new readers out (`LockIsWanted`). `runPc` is where a
client's `Run` is, `pump` where its write pump is; `queue` and `closed` are its
channel.

**BackupManager** - `backup.go`, the `backups` table, the handlers and `main`.
`db` is the file (rows, next id, the passphrase the stored hash accepts, the S3 settings), `file` says
whether it is sound, `store` is S3 with each object holding the database it
copied and the passphrase it needs. `job` holds the locals of every `runBackup`:
one of the schedule loop, others of BackupNow. `BeginRun` to `Report` are its
statements and calls, each of which may fail; `Fetch`, `BeginReplace`,
`EndReplace`, `FailReplace` and `Exit` are Restore; `Crash` may come anywhere. An
object can be opened with the passphrase of its making: that is all there is of
encryption. A statement may fail like every call (`Miss`); the manager looks at no
error of UpdateStatus and UpdateCompleted, nor the settings handlers at one of Set, and `missed` is the history of a
write that was to settle a row. A row's `key` holds the second in which its run began, so two
runs may share it, `created` the time of its INSERT, which is what Cleanup goes by. There is one household, as the handler assumes.

**LicenseClient** - `client.go`, LicenseKeyUpdate and `main`. `call` holds the
locals of each Validate between reading the key, asking and writing the status.
Time is kept as ages counted in check intervals that stop beyond the grace
period. The billing service is the environment: what a key is good for changes at
any moment (`Regrant`), and it comes and goes (`Reachability`).

**AuthFlow** - `handler/auth.go` over its stores and RequireAuth. `users`,
`members`, `seeded`, `codes`, `sessions` are the tables, append-only but for
flags; `request[h]` is a handler between two statements: the next statement, the
address, household, kind and row it carries. `Begin` covers the reads that open a
handler; `Abort` is any statement that fails, any early error return and the end of
the process. A code typed is right or wrong; which of two codes written in one
second is "the latest" is left open; expiry may come at any moment. The household
that the migration inserts has no member and is not counted.

**Requests** - what net/http and SQLite make of handlers in flight, shared by the
modules below: `request[h]` holds the next statement of a handler and what it carries;
`Abandon` is a failing statement, a client that goes away or the end of the process between two.
A handler whose write does not depend on an earlier read is one step. JSON handlers are named
`Api...`, page handlers by their name in `template.go`; where they differ in their checks (who
may be assigned a chore, whether a row must exist, whether a cost may be negative) so do the actions.

**FamilyMembers, Chores, Rewards, Household** - the tables `family_members`, `chore_areas`,
`chores`, `chore_completions`, `rewards`, `reward_redemptions` and the cookie `active` of each
device. Ids are AUTOINCREMENT, so `next...` only grows. Foreign keys do nothing: `database.Open` asks for them with a
parameter the driver does not read, so a deleted member leaves chores, points and cookies
behind. A request may name any member or area; an id named before it is issued is in the history
`guessed`. A rule of a chore is the set of days it expands to. Time is ticks, `DayLength` of them a
day, and the server is `Zone` ticks ahead of UTC: due days and completions are days of UTC
(`UtcDay`), today is the server's (`LocalMidnight`). `Redeem` is
`RedeemLookup` (reward and cost), `BalanceEarned`, `BalanceSpent` (two queries and the check) and
`RedeemInsert`. `ComputeStatus`, `PersonGroups`, `AreaGroups`, `ChoreSummary`
and `ManagedChores` are what the pages show. Household composes the three.

**Ledger** - the promise of redeeming: accounts with a credit that only grows and a
debit; a request is approved for a cost that the account covers at that moment, and booked later or
never. Household implements it (`RedemptionsAreApproved == L!LedgerSpec`) with `credit` what a
member ever earned, `debit` the sum of the redemptions, and a request approved from the check of
the balance to its insert.

**Lists** - items as list, category and check mark, notes as author, pin and expiry. Each
household that registers (`SeedDefaults`) adds a list and rows for the same categories, and no
statement asks whose they are: the API writes to any list, the pages to the one that
GetDefaultList happens to return (`DefaultLists`). `ToggleCheckedRead`
and `ToggleChecked` are the two statements of the store's toggle; `Swept` is DeleteExpired, with
which every listing begins. `CategoryGroups` and `OtherGroups` are buildGroceryListData. Categorize is a constant
function: its word table is data.

**Recurrence, Calendar** - the iterator of `expand.go` over the civil calendar
(`StartOf`, `Advance`, one `Advance...` per frequency), with what AddDate does to days a
month lacks; Expand's loop as a function of its rounds (`Round`, `Walk`) over the rules that
Parse accepts (`Rules`); `Endless`, when the search for a month with the rule's day does not end
because the interval leads to none; and `Meant`, what a rule means day by day, written apart from it. Calendar holds
`calendar_events`: a series is a row with a rule, an exception a row that names the series and
the start it replaces. The pages write in several statements, the last of which sets the reminder of the
row the page was opened on; deleting the old exceptions of a series may fail and is only logged.
`ListUpcomingWithReminders` is the scheduler's query: its `Datetime` is NULL of every time the driver
writes, so it returns nothing.

**PushScheduler** - `ticker` is the time.Ticker's channel of one, `tick` the
locals of the tick in progress: `TickBegin` (the households with a device), for each of them
`CheckChoreDue` (the hour, WasSent, the devices), `SendTo` per device and `RecordSent`.
`device`, `disabled`, `sent` are the tables. The push service answers as it likes; every query may fail;
`Crash` may come at any step, `Stop` waits for the tick. `attempts`, `repeats` and a tick's `owed` are
history. Of calendar reminders nothing is left to model: checkCalendarReminders does nothing after a query
that returns no row.

**RateLimiter** - `entries` is the map, `Allow` and `Cleanup` its two critical sections;
`passed` is history: the times at which each client's requests were let through.

**BillingService** - `account`, `subscription`, `licenseKey`, `sessions` are the tables.
Stripe is the environment: it starts, renews, fails, cancels, and keeps the events it sent in
`events`; `HandleStripeWebhook` may take any of them at any time, so events are lost, repeated, reordered and
overlap. An event carries the time its handler reads, which for a paid invoice is its
`period_end`, the beginning of the period paid for (`Sent`). The statements of a webhook are steps of `WebhookStep`; `StatementFails` goes on or gives up
as the handler does. `applied` and `disturbed` record whether a subscription's events all
came in order and undisturbed.

## The runs

| Run | Instance | Shows |
|---|---|---|
| `tunnel_serial` | requests one after the other, 2 tokens, 2 runs, 2 failures; any write and the read at boot may fail, main's Stop may time out | `RunsAreManaged`, `NoPanic`, `SettingsApplied`, every request ends (`UpdateReturns`), retries are bounded (`RetriesAreBounded`) |
| `hub` | 2 senders, 2 connections that come and go, a buffer of 1 | `NoSendOnClosed`; each message is queued, delivered or dropped for want of room (`Accounted`); `BroadcastEnds`, `ClientsAreReleased` |
| `backup` | a scheduled and a manual run, 1 bucket, 2 rows, 4 instants, retention 1, one restart or one change of settings; any statement or call may fail | `YoungBackupsAreStored`, `NoOrphans`, `RunningHasJob`, `RunsAreSettled` |
| `license` | 2 keys, 1 feature, 1 settings request beside the loop, grace of 2 intervals | `FeaturesAreGranted`, `OutageIsHarmless`, `StatusSettles` |
| `auth` | 2 requests at a time, 2 addresses, 2 households, 2 codes, 2 sessions, 1 wrong guess | `MembersWereAdmitted`, `SessionsAreBacked`, `AttemptsAreBounded`, `PendingAreBounded`, `OpeningsAreBounded`, `UsersBelongSomewhere` |
| `household` | 2 requests at a time, 2 names, 2 members ever, 1 area, chore, completion and reward, 2 redemptions, 1 device, 2 days of 2 ticks in a zone a tick behind UTC, a daily rule | `NamesAreUnique`, `NewMemberStartsClean`, `BoardIsTruthful` (nothing missing but orphans, status by the due day as the code compares it, three pages agree), `OverdraftIsBounded`, and the refinement `RedemptionsAreApproved` |
| `lists` | 2 requests at a time, 2 households and lists, 2 items or 1 note, a category of the table, one of an API client's own, a name Categorize does not know | `TogglesAreKept`, `EveryItemIsShown` |
| `billing` | 2 deliveries at a time, 1 subscription, 2 addresses, 5 events, 2 rows a table, 4 instants, a period of 2 and a buffer of 1; limit 2, window 1 | `EventsAreApplied`, `KeysFollowCheckouts`, `RateIsLimited` |
| `calendar` | a series from 31 January 2024 under one of 5 rules, one row beside it, views around 29 February, 31 March and January 2025, a day of two minutes | `ViewsFollowRules` |
| `push` | 2 households, 3 accounts, 2 devices, a day of 3 minutes each the start of an hour, 6 minutes, records kept for 3, 1 crash | `RemindedOnce`, `RemindersReachDevices` |

*Bounds.* Two of each actor make every pair of them interleave, which is what the
properties are about: each speaks of one or two requests, runs, clients or rows at a time. Two
tokens tell the old from the new. A buffer of one is full after one message. Two
rows and four instants let a backup be young, expire and be cleaned up beside
another, and two runs share a second. A grace period of two intervals has a beginning, a middle and an end.
Two members are one who goes and one who comes: with a single chore, completion and
reward, everything that refers to the first is there to be mistaken for the second's. A daily
rule and days of two ticks, a tick behind UTC, have an hour at which the server's day is the due day and one at
which tomorrow's due day has begun, a chore that is overdue, and a completion on either side of midnight.
Two redemptions of cost 1 overdraw an account that holds 1. Two devices let one be gone while
the other is owed, and two households one be reminded before the other; six minutes let a tick be
taken on time, late or never, the hour strike again on the same day, the next day come, and the records of the first
be cleaned up. A second household makes the rows of a category two. Five events are a
checkout, its payment, a renewal with its update and one more, and a row of each table beyond
the first is what a repetition makes. Sixteen months from January 2024 hold a leap February, the 30-day months and a
common February. One permitted guess makes the second of two overlapping requests exceed it. Counters
that the code leaves unbounded (households, codes, sessions, rows, restarts,
edits, broadcasts) stop at a named constant in the guard of the action that
raises them. Where the theorems below cover a property, the bounds do not matter
at all.

*Constraints.* Six runs bound what one behaviour mixes, by a CONSTRAINT in the MC module:
`backup` has a change of the settings or a restart, by crash or restore, and not both (`EditsOrRestarts`);
`household` follows members with their PINs, the board, the points of one member, or chores
over two days (`OnePart`); `lists` items or notes, which share no state (`OneKind`);
`billing` the limiter while nothing is bought, events in order over several periods, or
events out of order within one day (`OnePart`); `calendar` one series (`OneSeries`); `push`
has two devices of one household in the first two minutes, when a preference is switched or the scheduler stopped, one device
of either household after that, and one record lost, on the first day (`Bounded`). Every action and every alternative is taken within them. Symmetry is
used for requests, addresses and devices only where no property is temporal beyond an action property.

*Deadlock* is not checked: in every model all actors may legitimately come to
rest (the program ends, the connections are gone, a bound is reached).

*Fairness* is weak fairness of what the Go scheduler owes a goroutine that can
run, of a kernel that ends a killed process, and of time limits that the code
itself sets (the 10 s of Stop, of an HTTP call and of a write's context). Nothing
is owed by people, peers, log lines, S3 or the billing service: a silent WebSocket
peer may block a write for ever, cloudflared may never end by itself. The one
strong fairness is `PumpStops` in the hub: a Go `select` with several ready arms
picks one at random, so an arm ready again and again is taken at last. Time passing
(`Tick`) is fair in LicenseClient, whose loop depends on it. `StatusSettles` assumes that from some
point on the service is reachable and key and grant stay put. BackupManager, AuthFlow and the
modules from Household on check safety only: their requests owe nothing, may be abandoned at any step, and
their code keeps no promise of a later answer.

*Types.* Each module has one `TypeOK`. Each property of each passing run is broken by
a plausible fault in the module (the mutants of `PROJECT.json`), so none holds
by the shape of the model alone.

## Where the code and its documents differ

Two runs each check one sentence of the repository's documents or comments
and end with TLC's counterexample.

- `tunnel_concurrent` / `OneProcess`: "manages *a* cloudflared tunnel subprocess"
  (`tunnel.go:43`). Two settings requests at once: the second clears the run the
  first has just started and starts another; two cloudflared processes run, one of them out of
  Stop's reach.
- `calendar_leap` / `ViewsEnd`: "Handle Feb 29 -> non-leap years: skip to next
  occurrence" (`expand.go:221`). AddDate turns 29 February into 1 March, and the loop that
  then waits for a 29th advances 1 March by years: it does not end, and neither does any page
  whose range reaches beyond the first year of such an event.

Eleven more sentences are formulas of the modules, each violated when TLC is given it as an
invariant or property of a run there:

- `TunnelManager!StartHonoursEnabled`: "No-op if already running or disabled"
  (`tunnel.go:86`). Start never looks at `Enabled`: a tunnel switched off is back after a restart.
- `BackupManager!BackupNowRuns`: "triggers an immediate backup" (`template.go:3800`). The run
  uses the context of a request that is answered at once, so it may fail as cancelled.
- `BackupManager!OldBackupsRestorable`: "Old backups require the old passphrase to restore"
  (`settings.html:674`). The handler accepts only the new one, the file needs the old one.
- `LicenseClient!LapseStopsServices`: "if subscription lapses, tunnel and backups stop"
  (`business-plan.md:225`). HasFeature is asked once, at boot.
- `BackupManager!KeptFromCreation`: the retention the table shows, counted from `created_at`. Two runs of
  one second share a key (`backup.go:295`), and the cleanup of the older row deletes the object of both.
- `BillingService!KeysOutlastPeriods`: "period end + 7 day buffer" (`webhook.go:164`).
  `invoice.PeriodEnd` looks back, to about the time the invoice was made: the
  key of a subscription paid for a month or a year ends about seven days after the payment.
- `Calendar!RemindersComeUp`: "returns non-cancelled events that have a reminder set and whose
  (start_time - reminder_minutes) falls within the given window" (`calendar_event.go:262`). The driver stores a
  time as Go's `String`, for which `datetime()` is NULL: no reminder of an event is ever sent.
- `Household!DoneTodayIsDone`: TestDailyCompleted (`status_test.go:55`). Away from UTC it fails: west of it
  tomorrow's due day counts before the server's day is over, so a daily chore done in the evening is pending again.
- `Lists!ShownInOneGroup`: "Grouped by category" (`features.html:119`). A second household brings
  the same categories once more, and every page shows each item once for each.
- `AuthFlow!OneTimeUse`: "one-time use" (`architecture.md:28`). Two overlapping requests read
  a code before either marks it used.
- `Household!ReferencesResolve`: "FK `area_id` on `chores` (ON DELETE SET NULL)"
  (`architecture.md:63`). `_foreign_keys=on` (`database.go:17`) is not a parameter of this
  driver, as `architecture.md:152` itself notes for the tests.

Seen while modelling, and left to words:

- `webhook.go:117` grants the features "tunnel,backup,push", `main.go:176` and
  `template.go:3928` ask for "push_notifications" (as `implementation-plan.md:506` has it): a key
  the billing service makes never starts push notifications. PushScheduler's `Boot` is what a
  key with that feature does.
- `settings.html:682` tells the user to "use Backup Now to cache" the passphrase, but BackupNow
  never calls CacheKey. `auth-plan.md:100` has POST /invite behind the rate limiter;
  `server.go:224` has not.
- `categorize.go:21` orders keywords "longer/more-specific first"; "butter" and "cream" stand
  before "peanut butter" and "ice cream", "granola" and "apple" before "granola bar" and "apple juice".
- `template.go:712` relies on CASCADE for the exceptions of a deleted series; they stay.
- An edit of one occurrence sets the reminder of the row the page was opened on; an exception
  moved to another day is shown where the original was.
- Every second or third month, on a day beyond the 28th, a series drifts to other months. Month by
  month it loses one when BYMONTHDAY is before its first day and that is beyond the 28th:
  AddDate goes from the first day past a month that has the rule's (`expand.go:185`), so
  BYMONTHDAY=30 from 31 March has no 30 April. BYDAY out of order may lose a day. With BYMONTHDAY=30 and INTERVAL=12 from February
  the loop of `expand.go:194` finds no month at all and does not end (`Endless`). `Regular`
  leaves these out of `ViewsFollowRules`, which speaks of what expandEventsForRange hands to the
  pages; buildDayViewData (`template.go:3326`) and buildWeekViewData (`template.go:3433`) leave out some of it
  later.
- An endpoint that subscribes again keeps its old user. Ticks are a minute apart from the start
  and the chore reminder goes out in minute 0 of an hour: an hour whose tick is lost has none.
- The tunnel, backup and license settings are applied although a Set failed
  (`template.go:3562`, `3618`, `3663`): what runs and what is stored differ until the next restart. A status update
  that fails (`backup.go:305` to `356`) leaves its row as it was for good, and the run may report success. The
  `_busy_timeout` of the DSN (`database.go:17`) is no parameter of this driver either, so a busy database is enough.
- Saving a note that was deleted meanwhile panics its handler (`template.go:2084`).
- `weather.go:87` reads the cache without the lock its writer holds.

## The proofs

TLAPS proves these for every value of the constants that satisfies the named
assumptions of the modules: names that stand for nothing are no member of their
set, the limits are positive, the bounds natural numbers, the set of
handlers is finite and not empty, names of members and areas are not "" (the handlers refuse it), a
household's categories have different names (UNIQUE per household), no subscription of
BillingService is 0, which stands for an unset id, rules are those Parse accepts, the days on
which occurrences are edited are natural numbers, and the ranges looked at end before the calendar
does (`MaxMonths`) and within Expand's safety limit of days (`ViewsAssumption`). Ledger states its assumptions as
`LedgerConstants`; the lemma `LedgerFits` proves that Household's instance meets them, and
MCHousehold has TLC evaluate them too.

| Theorem | States |
|---|---|
| `TunnelManagerProofs` `TypeCorrect` | the types, for any callers in any overlap |
| `NoRunEscapes`, `AtMostOneProcess`, `NeverPanics`, `SettingsTakeEffect` | `RunsAreManaged`, `OneProcess`, `NoPanic`, `SettingsApplied` (a row agrees unless its write failed), when settings requests come one after the other |
| `WebSocketHubProofs` `HubTypes`, `BroadcastIsSafe` | the types; no send meets a closed channel, for any clients, senders and buffer |
| `MessagesAreAccounted` | `Accounted`: no message is lost but those dropped for want of room |
| `BackupManagerProofs` `BackupTypes`, `RunningMeansRun`, `RunsSettle` | the types, `RunningHasJob`, `RunsAreSettled` (unless the settling write itself failed), for any number of overlapping runs |
| `YoungBackupsAreKept`, `ObjectsHaveRows` | `YoungBackupsAreStored`, `NoOrphans`, for any buckets, passphrases, crashes, restores and edits |
| `AuthFlowProofs` `AuthTypes`, `MembersAreInvited`, `SessionsRestOnCodes` | the types, `MembersWereAdmitted`, `SessionsAreBacked`, for any number of overlapping requests |
| `GuessesAreBounded`, `FewCodesPend`, `CodesAreSpent` | `AttemptsAreBounded`, `PendingAreBounded`, `OpeningsAreBounded` |
| `NobodyIsStranded` | `UsersBelongSomewhere` |
| `HouseholdProofs` `NamesStayUnique`, `NewMembersAreClean` | `NamesAreUnique`, `NewMemberStartsClean`, for any members, chores, rewards and requests |
| `HouseholdTyped` | the types of the household's tables, cookies and requests |
| `RedeemingKeepsTheLedger` | `RedemptionsAreApproved`: Household implements Ledger |
| `HouseholdOverdraft` | `OverdraftIsBounded`, for any rewards, costs, completions and requests at a time |
| `HouseholdBoard` | `BoardIsTruthful`, for any chores, areas, rules and times and any offset from UTC |
| `ListsTyped`, `ListsToggles`, `ListsShowEverything` | the types, `TogglesAreKept`, `EveryItemIsShown`, for any items, notes, categories, households and requests |
| `CalendarProofs` `AdvanceFollows` | from a day of a regular rule the iterator comes to the rule's next day, for every frequency, interval, BYDAY and BYMONTHDAY |
| `ExpandMeans`, `ExpandEnds` | Expand returns, with what a regular rule means in the range, each occurrence once, for any rule, start, length and range |
| `LeapDaysHang` | the finding of `ViewsEnd` for every such rule: 29 February by the year does not return when its next year is no leap year |
| `ViewsAreRight` | `ViewsFollowRules`, for any series, edits, exceptions, cancellations, requests and views |
| `NobodyIsRemindedTwice`, `NoDeviceIsPassedOver` | `RemindedOnce`, `RemindersReachDevices`, for any households, devices, users and minutes |
| `CalendarTyped`, `PushTyped` | the types of the calendar's tables and requests, and of the scheduler |
| `BillingProofs` `LicenseTypes`, `FeaturesNeedAGrant`, `OutagesAreHarmless` | the types, `FeaturesAreGranted`, `OutageIsHarmless`, for any keys, features and grace period |
| `KeysGoToCustomers` | `KeysFollowCheckouts`, for any subscriptions, events and deliveries at a time |
| `OrderlyEventsApplied` | `EventsAreApplied`, for the same |
| `RateLimited` | `RateIsLimited`, for any limit, window, clients and cleanups |
| `LedgerProofs` `LedgerTypes`, `OverdraftBound` | the types; no account is overdrawn by more than the highest cost for each request but one |

None of the properties is inductive by itself. Each argument adds what a goroutine
in the middle of its work relies on.

*TunnelManager.* `IInv` is `TypeOK` with `CallersInv` (requests come one at a time and
after boot; one past Stop finds no run), `CurrentInv` (`RunsAreManaged`, and the run
the manager holds is alive with its channel open), `StoredInv` (what is stored, unless `lost`, in use and
wanted by the request under way agree, step by step) and `RunningInv` (unless a
request is replacing it, a process carries the token in use, and the status tells
whether there is one). The theorems but `TypeCorrect` assume `Serial`: at most one
settings request at a time, and only main's Stop may exceed its ten seconds. The
run `tunnel_concurrent` shows what two overlapping requests do instead.

*WebSocketHub.* A channel is closed only under the write lock, together with the
client's removal from the map, and a broadcast visits only clients of the map
while it holds the read lock (`HubInv`): the two locks exclude each other, so what
a sender visits is open. For `Accounted`, `PumpInv` adds that the write pump holds one message exactly while it
writes, and is not started before the client is registered: each step then moves a message from one
place to the next.

*BackupManager.* Five parts, each resting on those before it. `TInv`: a run past its INSERT carries
an id and a key, and the loop's run is under way only while the loop waits for it. `AInv`:
a run takes less than the retention period, so its key is never among the doomed ones, and a run about
to finish has its object in the bucket it was told. `RInv`: while the file is sound and no restore is
past its copy (`Steady`), no two runs share a row, and a row has the key of its run
and is settled, or was `missed`, when the run is about to return. A row is created no earlier than its key says,
so what Cleanup finds expired is older still by its key, whoever shares it. `DInv`: what holds of the file must hold of every database that may take
its place - the copies runs carry, the objects in S3, the one a restore has fetched -
so the claim about young backups is made of all of them (`Held`, `Sound`); one lemma shows
that time and deletions cannot undo it (`SoundPasses`), one that a new database is the file's or was held
(`HeldStep`). `OInv`: until something leaks, all objects, runs and deletions concern one bucket,
the one in the settings, and a run's row is still there when its object arrives.

*LicenseClient.* `LicenseIInv` adds to the types that a call is made with a key (`Asking`) and
`Backed`: the status is valid exactly when it has features, no feature in it was
granted longer ago than its last check, and a feature in an answer not yet written was
granted just now, since no check interval passes while an answer waits.

*AuthFlow.* `Core` says of every request what its next statement relies on (`Fits`:
the code it looked up is still a row of that address and, past MarkUsed, spent; the
household it founds exists; the session it switches is its user's), of every code and
session whom it rests on, and carries the two properties themselves. One lemma per
action shows what it leaves alone (`Only`, `Grows`) and what it establishes for its
own request (`Assemble`). The bounds need to count the requests already past the
check: `GuessesFit` bounds attempts plus requests about to add one
(`Guessing`). At the read these are the requests other than the reader, hence
"maxCodeAttempts plus the number of requests minus one"; the same holds for pending
codes with `Inserting` and sessions with `Holding`. `UsersBelongSomewhere` needs
`Founded`: a household has one founder, its only admin, and one request at work on
it, so that a failure that leaves the defaults undone breaks no other account.

*BillingService.* Rows are only added, under the next id, and neither the account of a subscription nor the
address of an account ever changes (`Grow`), so that what a delivery has read stays true
(`Holds`). Between the insert of a subscription and that of its key, the row has no key and no other delivery is at
work on it (`RequestInv`): hence one key each. Two deliveries that both find no account cannot both make
one, by the UNIQUE constraint.

`EventsAreApplied` compares the tables with Stripe's record, which moves on before its event is
handled. The argument goes by way of the events. Each says of what it is not about what the one
before it said (`Tells`): a renewal repeats the cancellation flag, an update repeats the period. So
after the n-th event the subscription's one row and that row's one key say what the n-th event
says, and between two statements of its delivery the same but for what is yet to be written
(`Says`, `Stage`). A statement of another subscription's delivery writes another row and the keys of another
row (`Moves`), since the row a delivery works on is its subscription's or nobody's
yet (`RowInv`). Together they are `DeliveryInv`, which TLC finds to hold in the run `billing` too.

*RateLimiter.* Two windows of a client may share a window's length of time, so the entry alone
bounds nothing. `InTheWindow` says that in the entry's window at most as many requests passed as the entry counts, and
in the length of time before it at most the limit; `AfterTheWindow` that once the entry's window
is over, or the entry is gone, at most the limit passed in the last such length. Any
stretch of a window's length lies across at most two of these.

*Household.* Every reference to a member - assignments, completions, redemptions, cookies and what a request
carries - is below `nextMember`, which no deletion lowers, or was `guessed` by a request (`RefsInv`), and a new row gets
`nextMember` itself: so nothing refers to it unless somebody named it in advance. Names are unique because
both statements that write one are under the table's constraint (`MembersInv`, `NamesAreUnique`); the look-up before
them plays no part.

*Redeeming.* The refinement maps a member's credit to what was ever earned, the debit to the sum of
the redemptions, and a request between its check and its insert to an approval. The check is two queries
with other requests between them. `BooksInv` says of a request past the first that the sum it read counts
completions that were made, each once, and was at most what was ever earned when the second query
reads what the ledger has booked; so each step of a handler is a step of Ledger or leaves its
variables alone (`HouseholdStep`), and the bound proved of Ledger is the bound of the tables. Sums over
sets of rows are folds. A fold is the value at the whole set of the one function
that adds, for each set, a row picked from it (`IsSum`); that a row more or less adds or subtracts
its value is shown of a smallest set of which it is not so, as finite sets are well-founded
under inclusion, a fact the library states without an operator parameter.

*Boards.* What a page shows is a function of the tables, so `BoardIsTruthful` needs only the types. The
status takes where the midnights of the server's zone and of UTC lie: the last due day that begins in UTC before the
server's day ends is the server's day or, west of Greenwich, the one after it.

*Lists.* `MarksInv`: a row's mark is what the toggles in its history make of it unless two crossed, and a request
between the two statements of its toggle holds the mark that the row still has, unless another
has crossed it. Edits, sweeps and deletions write other columns or whole rows. `EveryItemIsShown` is
about one state: a category of the table is a page's group once for each household, as the rows
are pairs of a name and a household, and one that is not is a group of its own.

*PushScheduler.* `OnceInv` counts: a device was sent a day's reminder at most as often as records of
it were lost, and once more if there is a record, if its day is over, or if the send in progress is of it and has got
past the device. A record is written only when the send has got past every device, no send begins
while there is one, and none goes once its day is over, by more than which the retention outlives the record
(`RecordInv`); there is one tick at a time, so the send in progress is the only one without a record.
`SendInv` says of a send in progress that it holds each device once, that its reminder has no record, and of
each device it owes that it is still subscribed, still wants it and is still ahead. What would make the tick pass the
device over (its row goes, its user opts out, a query fails) settles the debt.

*Recurrence.* `Standing` says where the iterator is between two rounds: on a day the rule means
(`Meets`), with the index of that day's place in BYDAY, the week or month it counts from; `Follows` that Advance
stands on the next such day, with none between. For the day, the week and the year this is
arithmetic of remainders; for BYDAY it takes the order of the days, so that what is before the
index in its week is past; for the month the lengths of months, since AddDate from a day up
to the 28th, or by one month to a later day of the rule, lands in the month meant or just beyond one that lacks
the day, and the months then skipped lack it too. Each day has a `Rank`, the rule's days up to it; a round raises it by one, so the
n-th round is over the n-th day, which is what COUNT and the safety limit compare. From the last round backwards,
each round appends what is due from its day on (`ExpandDue`), in rising order. Two
things stand in for induction over data: a property of all numbers is shown of the least
that lacks it, which exists because intervals of numbers are well-founded under inclusion; and that the recursive
functions `Walk` and the skip of months exist at all follows from the bound on their calls
(the safety limit, the end of the calendar), by building them from there down.

*Calendar.* Given what Expand returns, `ViewsFollowRules` is about one state: what a page shows of
a series is Expand's list less the days that an exception cancels, and a view meets the assumptions of
`ExpandMeans` by the types of the rows alone (`ViewsRight`), whatever edits are half done. The types need those of what a request carries from one statement of its edit to the next
(`CalendarInv`): the exception it is about to write, the times of the series, the reminder it was given.

*Ledger.* How deep an account goes is not inductive without what is still under way. `Covered`
says, for n requests approved for an account and not yet booked: the balance covers
one of their costs plus `Floor(n)`, or it is at least `Floor(n + 1)`, where Floor(n) is
(n - number of requests) times the highest cost. An approval raises n by one and finds its cost covered; a
booking lowers n by one and costs at most the highest cost. With n at least 0
this gives the bound.

Only model-checked: the liveness properties `UpdateReturns`, `BroadcastEnds`, `ClientsAreReleased`,
`StatusSettles` and `RetriesAreBounded`, which take reasoning about fairness or about infinitely many steps, out of the
prover's reach. Every invariant and action property of a passing run is a theorem.

## What is not modelled

- The weather cache: one entry and its age, read and written by one handler; the lack of a lock
  in `weather.go:87` is a data race on a struct that no other state depends on.
- The settings table: keys and values. What its rows do is modelled where they are used.
- Rendering (`template.go` but for the handlers named in the modules, templates, assets), routes,
  logs, migrations, mail: no state machine, or one HTTP call.
- Of the billing service the waitlist, plans and features, the link in the mail and the activation of a
  key: none is read by what is modelled.
- Inside the modelled parts: texts, formats, colours, the digits of a code, cryptography
  beyond who can open what, HTTP status codes, page redirects and HTMX headers.
  SQL statements are atomic and, once done, durable. The tables of members, chores, rewards, lists, notes
  and events have a `household_id`, which the statements of their stores neither set nor ask: the rows that a
  registration seeds are in Lists (lists and categories); the chore areas it seeds, and their UNIQUE(household_id, name), are
  not in Chores, which has the rows of one household.
- Not reached by any caller and so left out: `HouseholdStore.RemoveMember`,
  `UpdateMemberRole`, `Delete`, `SessionStore.DeleteByUserID`, `GetByEmailAndCode`,
  and `Client.Stop` of the license client.

## The plan

1. **End to end**: BillingService composed with LicenseClient, where the service's answer takes the
   place of `Regrant`, so that "paid" at Stripe and "feature on" at home are compared.
2. **An abstract `ManagedProcess`** (off, on with a setting) that the serial TunnelManager
   implements.
3. **WeatherCache**: expiry, and a change of configuration during a fetch.
