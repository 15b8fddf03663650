# Verification of the Khyati workforce-management system

TLA+ models of the parts of Khyati (FastAPI backend, React frontend) in which
several servers, requests, browsers, tabs or edits meet on shared state, TLC
runs on small instances, and TLAPS proofs for all instances. The reference is
the code; paths below are relative to `src/backend/app/modules/` or, when they
end in `.ts` or `.tsx`, to `src/frontend/src/`.

Run one model with `tlc -config <run>.cfg <module>`, the proofs with
`tlapm <module>_proofs.tla`; `PROJECT.json` lists the runs, the map from
definitions to source lines, the mutants, the hazards and the findings.

## 1. Inventory

| Part | State | Operations | Interacts with | Hard behaviour | What makes it correct |
|---|---|---|---|---|---|
| Scheduled reports (`reporting/scheduled.py`, `scheduled_router.py`) | `report_subscriptions.next_run_at/active`, `report_runs` | pass (list, load, claim, send, record), create, edit, pause, delete, send now | every server runs the pass; SMTP | crash between claim, mail and record; two servers during a deploy; an exception ends the pass | a moment goes out at most once; what is due is taken up |
| Day plan service (`scheduling/dayplan_service.py`, `schedule_notify.py`) | `day_schedule_plans` (columns, `version`, `published_at`), notifications | save, reset, bulk edits, fill, publish, list | browsers; offers write through it | no row lock, version check apart from the write, column-wise UPDATE, rows deleted and created again | no lost update, stored days valid, agents told of what they see, reset is final, publication is kept |
| Slot offers (`scheduling/offers.py`) | `schedule_offers`, `schedule_offer_claims`, the claimants' days | open, resize, close, delete, claim, give back | day plan service | last place claimed twice, merged overtime, days moved or reset under a claim | capacity respected, days hold exactly the filled claims |
| Day rules and timeline edits (`lib/domain/channels.ts`, `workRules.ts`, `channelPlanner.ts`, the dialogs, `continuous-schedule.tsx`; server twin `scheduling/dayplan.py`) | the day of an agent | validate, bounds, drag, resize, move, mark, overtime, schedule dialog, work rules, channel planner, compliance | store, day plan service, offers | long edit sequences, blocks that touch, bulk edits on different shifts, rounding, midnight | edits land on days the server accepts, no break moves into its zone, minutes add up, rules keep their limits |
| Browser schedule sync (`lib/scheduleSync.ts`) | local days, snapshot (versions and contents last in sync, persisted), session, timers | start, save, conflict reload, pull, change of date, sign-out, page reload | store, day plan service | state read before an await and used after it; lost answers; calls that outlive their session | what is taken for the server's copy is one; edits are saved or the user is told |
| Workspace settings (`lib/settingsSync.ts`, `scheduling/settings_service.py`) | settings with version; snapshot | push, pull, sign-in upload, put with version check | browsers, roster | several pushes and a pull at once | as above |
| Capacity sync (`lib/capacity/sync.ts`, `store.ts`) | sheets, cell edits and switches waiting; versions | import, edit, switch, clear, flush, check | capacity service | a flush of four parts beside a check that reloads; clearing restarts versions | nobody's change is overwritten unseen; what waits is sent |
| Store of days, tabs (`store/wfm.ts`, `lib/crossTabSync.ts`) | the open day, parked days, roster, swap | every edit, opening a day, take-over of another tab's save | the sync engines, localStorage | each tab shows its own day; saves cross | an operation changes one day; tabs at rest agree; tabs come to rest |
| Roster, work rules (`store/wfm.ts`, `automation-runner.tsx`) | roster, board, former employees, rules, generated patterns | hire, profile, settle, delete, import, rule changes, server settings | tabs, settings | leaving, coming back, imports meanwhile | board is the roster, leavers leave, patterns are those of the rules |
| Webhook outbox (`connect/webhooks.py`, `router.py`) | `webhook_subscriptions`, `webhook_deliveries` (status, attempts, due time) | emit, dispatch a batch, deliver, pause, delete, test, redeliver | whatever changes days, offers, settings or capacity emits; receivers | a batch is one transaction around many posts; deletion, pause, redelivery and crash meanwhile; retries | only committed changes are sent; the retry budget holds; deliveries settle |
| Channel drafts, weekly schedules, change requests, approvals, autonomy, identity | a status column each, mostly | submit, decide, apply, cancel, rotate | days, roster | two deciders who both read "pending" | not modelled, section 6 |
| Forecasting, capacity and Erlang engines | runs and results | compute | - | floating point | out of TLC's reach |
| Attendance, intraday, notifications, dashboards, imports, AI, adapters, screens | rows, text, pixels | create, read, update, render | - | I/O | not modelled |

**Requests** share one discipline, which the backend models take from
`src/backend/app/db/session.py`: a session per request, no autoflush, commit
when the handler returns and rollback when it raises; READ COMMITTED, no
`FOR UPDATE`, no version column known to SQLAlchemy. A handler computes on the
rows it read; at the flush an UPDATE names its row by primary key and sets the
columns whose value changed; updating a row that is gone raises, inserting a
key that exists raises, deleting a row that is gone does nothing.

**Browsers** share another: JavaScript runs to its next `await`. In the sync
models an action is what happens between two awaits, microtasks included; a
call in flight is a record in a slot with what it captured before the await
(the session `r`, the date, the body), and the server, the network, the user
and other people act in between. A session that has been stopped or replaced
is `mine = FALSE` in the calls that still hold it.

`PROJECT.json` lists the hazards of the code one by one with their lines.

## 2. Modules

    ScheduledReports                  MCScheduledReports   ServerLoops_proofs
    DayPlans                          MCDayPlans           DayPlans_proofs
    DayOps                            (a day and its edits: operators)
      DayRules     EXTENDS DayOps     (work rules, compliance, channel planner: operators)
        DayEdits   EXTENDS DayRules   MCDayEdits           DayEdits_proofs
      SlotOffers   EXTENDS DayOps     MCSlotOffers         SlotOffers_proofs
    Copies                            (abstract: what a sync engine promises)
      ScheduleSync INSTANCE Copies                         ScheduleSync_proofs
      SettingsSync INSTANCE Copies                         BrowserStore_proofs
    CapacitySync                                           CapacitySync_proofs
    DayBook                           (the store's days: operators)
      BrowserTabs  EXTENDS DayBook    MCBrowserTabs        BrowserStore_proofs
    Roster                                                 Roster_proofs
    Outbox                                                 ServerLoops_proofs

**ScheduledReports** models `run_due` statement by statement for each server.
`pass[w]` is the server's program position with its local variables: `ListDue`
lists what is due, `Load` takes one id and reads its row, `ClaimWon`/`ClaimLost`
are the conditional UPDATE and its commit, `Send`/`SendRaises` the e-mail,
`Record`/`RecordRaises` the history row, `Sleep` the end of the pass; an
exception ends the pass, as in the code. `ServerDies` may come between any two.
The endpoints are one step each. A send time with weekdays and time zone is the
set of moments it names; the moment that made an id due is kept as history.

**DayPlans** models every operation of `dayplan_service.py` on
`day_schedule_plans` (publishing a channel draft, the one other writer, is left
out, section 6). A request is two steps: `SaveDayPlans`, `ApplyEach`, `ResetDayPlan`, `FillMissing`, `Publish`
read the rows and compute `after` from them (`seen` is the snapshot); `Commit`
flushes the difference as described above, delivers the answer or loses it, and
notifies; `RollBack` drops it. A day is a function from its columns, because
columns are what UPDATE merges; the edits and the validity of a day are
constants, so what is proved holds for the real ones. `known[c]` is what a
client has loaded and hence which base versions it sends. `Overlap` says
whether requests of different clients may overlap: FALSE is one server working
through requests one by one.

**DayOps** has the day with its four layers as sets of blocks and every pure
operation on it; **DayRules** what a work rule or the planner makes of it, and
the compliance checks; both are translated from the browser's modules, the
server's `validate_day` from `dayplan.py`. **DayEdits** is everything the
Scheduling page does to the stored days of a team, one operation after the
other: drags (with the followers of a bulk drag), moves, marks with stagger,
the schedule dialog, overtime, alignment with work rules, channel planning.

**SlotOffers** models `offers.py` on those same days, with the snapshot and
commit of a request as in DayPlans. `Placed` is where a slot lands, `WithBlock`
writes it in (overtime merges with what it touches), `WithoutWindow` cuts it
out; `CancelClaim` ignores the reasons against the new day, as the code does:
the claim is cancelled, and `kept` (history) notes the agent. An agent's first
day may have overtime already, which claims then merge with. A block's id is a
pair of what it was named after and how many letters were appended to that.
`ResetDay` is a scheduler at work on the same days, in one step. Ids of deleted
offer rows are used again once no request holds them, which keeps the state
space finite and cannot be noticed. A request opens one slot, not a list, and
the overtime channel is always given.

**Copies** is the abstract specification of a sync engine, without calls,
timers and failures: a save gives each item it names the version after one the
item has had, touches no other item and takes nothing back of what the server
has held, and what a browser takes for the server's copy of an item is a row
the server really held or acknowledged, all of them of one group (a date's
days, the settings). Two saves that overlap may give one version two contents,
because the server lets them; then the copy is one of the two.

**ScheduleSync** is `scheduleSync.ts` with one slot per call in flight.
`LoadEnds`/`LawEnds`/`StartEnds` are the parts of `startScheduleSync` between
its awaits (`PolicyEnds` the one of `pushLabourLaw`, after which the days set
aside when the rows came are uploaded), `Flush`, `PushEnds` and `ReloadEnds`
those of `flush` and `push`, `PullStarts`/`PullEnds` of `pull`; timers are part
of the session, and timers the session no longer points to are `orphans`.
`kind = "wait"` is a flush that waits for the save under way; `then` the date a
switch opens afterwards. A day is the set of edits it shows, and 0 in it stands
for content that breaks a rule of the server.
The server's part is `save_day_plans`: `CheckSave` reads the rows and refuses a
day that breaks a rule (422, for the page a failure: it tries again) or a base
version that is not the row's (409, the page reloads); `StoreSave` flushes all
or nothing, fails where somebody has inserted the row meanwhile, and merges the
columns of a row that has changed since it was read (`Merged`, which allows
every mixture of the two contents, including one that breaks a rule). A PUT the
page no longer waits for, because it was reloaded or the connection lost, and
another person's, are `kind = "gone"`: the server still carries them out. `log`
has every row that was stored or acknowledged. `Overlap` says whether the
server works on several saves at once.
`Spec` shows one date at a time; `SpecDates` adds the change of date and
sign-out. The refinement mapping takes `snap` for `copy` and `log` for
`history`: the session's snapshot is exactly what the engine believes of the
server.

**SettingsSync** does the same for settings, whose pushes take their values
before a loop of requests and their base versions inside it, with several
pushes and a pull under way at once. A setting is its entries. The agents'
rules (`AgentRules`) have one per agent, and `applyServerSettings` merges them
into the roster (`Merge`): agents the answer does not have keep theirs, and
agents not on the roster get none; the snapshot then holds what is shown, with
the version of the answer. All other settings are replaced whole. The server is
`settings_service.py`: `CheckPut` refuses a value it cannot take (422) or a
stale base version (409), `StorePut` writes.

**CapacitySync** follows one flush through its parts (clear, whole sheets,
cells, switches, state) beside one check (`poll`, also the start), with the
waiting edits (`dirty`, `cells`, `switchesDirty`, `clear`) as the context.
`seen` is history: every edit this page has shown. A flush reads the plan as it
is shown by then, also when a check has just replaced it. The server is
`capacity/service.py`: a write reads its rows and checks base versions and
contents in one step (`Answers`) and flushes in a second (`Store`), with `away`
as a write that this page does not wait for, of somebody else (`OtherChanges`
adds to what it read, `OtherClears` is `DELETE /capacity/sheets`) or left over
from a lost request or a reload. A document is a row with an id, so that a
cleared and re-created sheet, whose versions begin at 1 again, is another one;
`overlapped` is history: the items written over a row that is not the one that
was checked. The sheets of one upload are checked together and written
together. One check runs at a
time (in the code a poll may begin while another is still fetching), and a tab
that is left ends like a page that is reloaded, though in the code the flush
under way goes on with the context it was begun with.

**DayBook** is the store's book of days: the open day's slices and the parked
days, and each store operation as a function of it. **BrowserTabs** gives every
tab such a store, writes all of it to localStorage at every change and delivers
the storage events in order; taking one over writes back when it changed
something.

**Roster** keeps roster, board, former employees and profiles' last days under
every operation that touches them, and the patterns generated from work rules;
a rule is abstracted to its version and an agent's pattern to the rule it comes
from. An import may name people who have left, and then the roster can list
somebody twice; `First` and `Latest` say which entry `find` and the settlement
take. History: `imported`, who was imported after they had left, and `stray`,
the rules people came back on since patterns were made.

**Outbox** models the webhooks. `event[n]` is the transaction of the request
that emits event `n` (`Emit`, then `Commit` or `RollBack`), and a delivery is
an event and a webhook. `work` is the dispatcher's session: the rows it got and
what it read in them, which webhooks were active then, what is still to be
sent, and what it has flushed but not committed; `Select`, `Skip`, `Post`,
`Flush`, `FlushRaises` and `CommitBatch` are its steps. Flushed rows are
locked (`Locked`), and an UPDATE writes only the columns that differ from what
was read (`Merged`), as in DayPlans. `hand[h]` is an administrator's request
that sends one row itself. Every server process has a dispatcher; there is one
here, and overlapping ones during a deploy are not modelled. A request emits
one event; a due time is a Boolean that `BackoffEnds` sets. `posts`, `byHand`
and `lost` are history.

Where a definition's comment begins with "Mutant", it is a plausible bug used
to check that a property notices it; the specifications never use it.

## 3. Runs

| Run | Instance | Checks | Shows |
|---|---|---|---|
| `reports_one` | 1 server, 2 subscriptions, moments 1-2, 1 crash, fairness | `ReportsTypeOK OncePerMoment DueIsTakenUp` | nothing goes out twice, what is due is taken up |
| `days_serial` | 2 clients, 2 agent-days, 3 versions, no overlap | `TypeOK ChangesAreTold SaveReplacesWhatWasLoaded` | the optimistic version protocol works without overlap |
| `days_overlap` | 2 clients, 1 agent-day, 2 versions, 2 rows, overlapping | `InvalidOnlyMerged PublishedStaysPublished ResetIsFinal` | what survives without any lock, and the one way to an invalid day |
| `offers_serial` | 2 agents, time off and two adjoining overtime slots, which also adjoin overtime of one agent, capacities 1-2 where both can claim | `TypeOK CapacityRespected DaysAreTheirClaims` | the days hold exactly the filled claims, minute by minute |
| `edits` | 20 teams of 1-3 agents, a day of 8 slots | `EditsTypeOK MinutesAddUp OvertimeAddsUp PhonesFirst RulesKeepTheirWord EditsLandValid NoFurtherIn` | every order of timeline edits, rules and plans |
| `sync` | 1 date, 2 agents, 3 calls, 2 edits (some break a rule), 1 trouble (a save by others, a loss or a reload), overlapping saves, fairness | `TypeOK SnapshotsAreTrue ImplementsCopies EditsAreSaved` | the schedule engine refines Copies and saves edits |
| `sync_dates` | 2 dates, 1 agent, 1 edit, no overlap | `ServerWins` **violated** | a date left while it loads is overwritten |
| `settings` | 2 settings, one of them the agents' rules, 2 calls, 2 edits, 1 trouble, fairness | `TypeOK SnapshotIsTrue EditsSettle` | what counts as in sync agrees with the server's version; edits settle |
| `capacity` | 2 sheets, one on the server, and the switches, 2 edits, 1 trouble (a change or clearing by others, a loss or a reload), fairness | `TypeOK UnseenIsKept PendingIsSent` | no blind overwrite; what waits is sent |
| `tabs` | 2 tabs, 3 agents (one not on the roster), 2 days, a swap, 1 change, 2 views, fairness | `TabsTypeOK QuietTabsAgree OneDayAtATime TurnsSettle` | tabs at rest agree; one day per operation |
| `roster` | 3 people, 2 rules, 2 days, 4 operations, fairness | `TypeOK BoardIsRoster PatternsFollowRules LeaversLeave` | board, leavers and patterns |
| `outbox` | 3 webhooks, 1 event or ping, 2 attempts, batches of 2, 1 intervention or crash, fairness | `OnlyCommittedIsSent BudgetHolds DeliveriesSettle` | only what is committed leaves, within the budget; deliveries settle while paused webhooks leave room |

**Bounds, and why they are enough.** `MaxTime`, `MaxCrashes` (reports): two
moments let one send follow another, with a crash at any statement between.
`MaxVersion`, `MaxRows`, columns and values (days): two columns are enough to
merge, two values each to make a merged day invalid, three versions for a
client to be one or two behind, two rows for a reset and a new one; clients and
agent-days are interchangeable, hence the symmetry. In `days_overlap` no zone
rule applies (`MCNoZones`): with the rule of `days_serial` every merge of two
valid contents happens to be valid, and `InvalidOnlyMerged` would say nothing
there. Reports and days are also
proved without the bounds. Day lengths (`DayMinutes` 8, minima 2, shifts 4 and
more): a slot is half the shortest block, so cuts below a minimum, touching,
nesting and straddling all happen; each team has the blocks, operations and
drag distances one kind of edit needs (`Teams`, `Drags`, `Deltas`,
`Staggers`), and `Rules` are all rules of up to two breaks and zones up to two.
Once the server would refuse a day, it is not edited further. `Segs`,
`Capacities`, `RowIds` (offers): two claims are what it takes to fill a place
twice, to merge two blocks with the overtime round them, and to cut that block
twice in either order; `MaxCuts` ends the growth of ids once two blocks of one
id have been possible. Sync engines: `MaxCalls` is how many calls are
under way at once (a save, another that waits, a pull); two edits are needed
for one to come after a save was sent. `MaxTroubles` counts what others and the
network do: a save by somebody else makes a conflict, a loss a retry and a save
that conflicts with itself, a reload a start from the persisted snapshot while
the old page's save is still carried out. One of them in any place is what a
run with liveness takes; `settings` also passed with two of them and two
agents, one edit less (726,002 states), and the safety theorems have any
number. `SavedBefore` starts from days or settings the server has. In
`capacity` the server has one of two sheets (`OnServer`), a workbook has that
one or both (`Workbooks`), so that an upload is of several sheets, stale in
some, and an import during the start can name a sheet the server lacks, and
`Refusable` names the sheet that can hold what the server refuses. It also
passed with every set of sheets as a workbook and the switches or the other
sheet refusable, and with everything refusable (1,773,464 states). Tabs: two views allow a day to be opened and left, or the page
reloaded; one change at a time is enough for agreement, two for crossing.
`MaxOps` 4 (roster): hire or leave, settle, come back, change the rule. Longer
stories, such as the swap of section 5, are covered by the theorems.
Outbox: three webhooks make one row more than a batch takes, two attempts are a
retry and the last; `MaxActs` 1 is one pause, deletion, test, redelivery or
crash in all, which may fall between any two steps of a batch. Two events, and
the order of their rows, are beyond a run with liveness; the safety properties
are proved for any number.
Deadlock is checked where it may not happen; the runs with
`CHECK_DEADLOCK FALSE` end when their bounds are spent and nothing is under way.

**Fairness.** `run_scheduler` loops for ever and catches what a pass raises, so
a server keeps taking steps (`WF_vars(ServerStep(w))`). In the sync engines
the browser fires timers, the server answers what it was asked and answers
reach the page (weak fairness of each); a request that is lost ends in the
error path by the network's time limit. `SettingsSync` needs strong fairness
for its two timers because a slot for their call may be taken and free again
for ever, which in the code is no bound at all. Storage events are delivered
(`TakeOver`); the app settles employment on a timer (`SettleEmployment`).
`run_dispatcher` loops for ever and catches what a batch raises
(`WF_vars(DispatcherStep)`), and time passes (`BackoffEnds`).
Users, other people, clocks, losses, crashes and reloads are never fair.

**Refinement.** `ImplementsCopies` is `Copies!Spec` under the mapping above:
every action of an engine is a save of one group, a change of what is taken for
the server's copy, or a stutter. That of ScheduleSync is checked step by step
in `sync` and proved; that of SettingsSync, which is about the settings that
are replaced whole, is proved. The agents' rules are outside of it, because
what the snapshot holds of them is a merger no server ever had; `SnapshotIsTrue`
says what is true of them.
What it says is less obvious than it looks: the snapshot is written after an
await from what the call captured before it, while edits, saves by others,
failed attempts and reloads happened in between.

## 4. What is proved

All theorems hold for any values of the constants that satisfy the named
assumptions, with no bound on versions, rows, moments or crashes other than
that the constants naming them are numbers.

*ServerLoops_proofs*, of ScheduledReports. `ReportsTypeCorrect`
(`ReportsTypeOK`); `OneServerOncePerMoment`: with one server, `OncePerMoment`
is an invariant. It is not inductive by itself. `ClaimInv` adds that what was
mailed lies before the row's next moment and before every moment a pass still
has in hand, that a pass has each subscription in hand once, and that a claimed
row has moved on; that one server runs enters only because another one's claims
would break the second part. The key lemma (`NextRunIsLater`) is that
`next_run` is strictly later than now.

*DayPlans_proofs.* `TypeCorrect`; `RequestsStayWellPlanned`: what any request
plans is a single version step with a valid day that keeps a publication and
tells whom it shows a change, relative to what it read. From it, whatever
overlaps: `PublicationIsKept` and `ResetCannotBeUndone` (the flush merges
columns into the row with the id that was read, or raises), and
`InvalidDaysAreMerged` (`InvalidOnlyMerged`): a step stores a day that breaks
the rules only by merging changed columns into a content that others stored
after this request had read the row (`UpdateIsValid`: an UPDATE of the row as it
was read, or by a request that changes no column, leaves a valid day). If
requests do not
overlap (`Overlap = FALSE`), `SerialInv` is inductive: plans are computed from
the present rows (`AloneInFlight`) and a version names one content of a row
(`VersionsName`). From it: `SerialSavesLoseNothing`, `SerialChangesAreTold`, and
the lemma `SerialDaysValid`, that then all stored days are valid.

*BrowserStore_proofs*, of SettingsSync. `TypeCorrect`; `SnapshotStaysTrue`
(`SnapshotIsTrue`): no order of pushes, pulls, edits, losses, reloads and
overlapping PUTs makes the page take a value for a version's that it never was,
or for the agents' rules one that disagrees with it on an agent both have;
`ImplementationOfCopies` (`ImplementsCopies`): for the settings that are
replaced whole, `Spec` implements `Copies`. `SnapshotIsTrue` is not inductive:
an answer is applied long after it was given. `SyncInv` adds that calls under
way are true too (`TrueCall`): the row a PUT was given holds what that PUT
sent, and other answers carry rows the server has had.

*BrowserStore_proofs*, of BrowserTabs. `TabsTypeCorrect` (`TabsTypeOK`),
`TabsAgreeAtRest` (`QuietTabsAgree`) and `EditsMoveOneDay` (`OneDayAtATime`),
for any tabs, days, people and patterns, any number of changes, views and
events on their way, and changes made in several tabs at once. That tabs agree
at rest says nothing of the time before. `InStepInv` does: for any set of days
`P` there is a store `w` that was the last one saved with all of them, and
every tab that keeps them wrote `w` itself, or has `w` on its way to it and
nothing with these days behind it, or has nothing to take over from `w`
(`InStep`). A write makes a new `w`, which is then on its way to all others
(`EventToCome`), or passes by whoever keeps other days (`OtherEvent`); taking
over an event leads to a write or shows that nothing is left to take over
(`NothingTaken`). At rest two tabs with the day `d` follow the same `w` (`P =
{d}`; for the roster, `P = {}`), and stores that follow one store agree
(`RostersAgree`, `DaysAgree`). The parts all steps have in common are in
`TabSteps`: a tab writes, or drops an event, or nothing happens to the stores.
`EditsMoveOneDay` rests on what a store shows of a person on a day that is
open, parked or neither (`OpenDayOf`, `ParkedDayOf`, `UnseenDayOf`): a day that
is open in neither of two stores, and parked in both alike, is shown alike
(`AlikeStays`).

The attempt to prove `QuietTabsAgree` showed that it had been too strong. It
used to compare everybody's shifts on every day, and held in the run, and in 20
million simulated states of three tabs; it is false from the third change on
(section 5, *Tabs*). Tabs agree on the shifts of those for whom both have one
on that day (`Listed`), which is what the take-over can bring about.

*ScheduleSync_proofs.* `TypeCorrect`, `SnapshotsStayTrue` and
`ImplementationOfCopies` for `Spec`, in which one date is open, with saves that
overlap or not. Besides the
answers under way, `SyncInv` needs to know that the start of a session is
undisturbed (`Starting`): while it fetches its first rows, or waits to try
again, no other call of this page is under way, no timer is left over and
nothing is known. A save acknowledged in that time would have its version
replaced by the older one of the rows that come, beside its own content. With a
change of date (`SpecDates`) left-over timers do reach the next session, and
the theorems do not extend to it.

*CapacitySync_proofs.* `TypeCorrect`, and `UnseenChangesAreKept`
(`UnseenIsKept`), with check and write of the server apart, other people's
clearings and requests left over. A save is accepted by its base version alone,
so the invariant `CapacityInv` relates every version the page may send to what
it has seen: a noted version, or the base of a request, is not ahead of the
server's, and if it equals the server's then the page has seen that document
(`Noted`); an answer on its way carries the document as it is or as it was
(`TrueRow`); and what a checked write of this page takes out of a document has
been seen (`Safe`). All of that is true of a document while its versions tell
its contents apart (`Firm`), which two things end: a write over a row that is
not the one checked (`overlapped`), and a clearing after which the sheet is
loaded again and counts from 1. These are the two exceptions of the property,
and without either of them TLC finds it violated.

*ServerLoops_proofs*, of Outbox. `TypeCorrect`; `CommittedOnly`
(`OnlyCommittedIsSent`) and `BudgetIsKept` (`BudgetHolds`). Neither is
inductive: a post is counted when it leaves and recorded when the batch
commits. `OutboxInv` says that rows, and what a batch has in hand, belong to
events that are over (`EventsBegun`); that what a batch has still to send and
what it has flushed are apart (`SessionInv`); that a row nobody sends by hand
is still what the batch read in it, with attempts left if it is due
(`RowsInv`); that what is sent by hand is known as such, and a ping under way
is seen by nobody else (`HandsInv`); and that every post is an attempt on
record, in hand, or in a lost batch (`PostsInv`).

*SlotOffers_proofs.* Whatever overlaps: `TypeCorrect`, which includes that
every stored day is valid, and `NoClaimWithoutOffer`. They follow from
`TypeInv`, in which a stored day is the agent's first day with other time off
and overtime (`DayOf`), and a request that holds a day holds a valid one whose
layers are its own: the flush merges the two layers column by column, and the
rules of validity relate neither to the other (`ValidByLayer`, `MixedDays`). If
requests do not overlap (`Overlap = FALSE`): the lemma `CapacityIsRespected`,
from `SlotInv`, by which a request has read what is there (`Alone`) and what it
will write still has room (`Fits`), and which is false otherwise (section 5);
and `DaysFollowClaims` (`DaysAreTheirClaims`),
from `DayInv`. That the minutes of a day are those of its claims is not
inductive: giving a claim back cuts its minutes out of the day, which is right
only if no other claim of the agent, and no overtime the day had at first,
covers one of them (`ClaimsApart`), and a claim can only be added where no
overtime is; where the server has refused a day (`kept`), minutes are only ever
left over. The arithmetic of blocks is in two lemmas about the operators, over
any day: `WithOvertimeMinutes` (merging adds exactly the minutes of the block,
by induction over the blocks in the order of the day, `OrderIsComplete`) and
`WithoutWindowMinutes` (cutting removes exactly those of the window).
`CutTwiceClashes` is a theorem about the code's defect of section 5: two
windows cut out of one block, the later one first, make two blocks of one id.
Induction over data is possible for one recursive function at a time, through
the set of numbers for which a claim holds (`NatSetInduction`).

*DayEdits_proofs*, on the lemmas about numbers, blocks and overtime of
SlotOffers_proofs. `EditsTypeCorrect` (`EditsTypeOK`), `EditsMakeValidDays`
(`EditsLandValid`), `BreaksStayOutOfZones` (`NoFurtherIn`),
`AddedOvertimeAddsUp` (`OvertimeAddsUp`), `MinutesAlwaysAddUp`
(`MinutesAddUp`), `RulesAlwaysKeepTheirWord` (`RulesKeepTheirWord`) and
`PhonesAlwaysFirst` (`PhonesFirst`), for teams of any size, days of any length
and grid, any selection and distance, any rule and any need. `EditsInv` adds
two facts to the types, and both are needed: every stored break has its minimum
length, because a drag of a break's edge stops that far from its other edge;
and a day's no-break zones are those of its agent's rule, because
`applyWorkRules` places the breaks by the rule while `NoFurtherIn` asks for the
zones of the day. That days are valid is not part of it: the three exceptions
of `EditsLandValid` make days that are not, and the specification ends there.
What a step does to one agent is one formula (`Stepped`: the types, the zones,
the minimum of breaks, validity or an exception, no break further in), which
each kind of edit is shown to have by a lemma about its operator, whatever the
day: `OtEdited` to `EndEdited` for the drags of a block or an edge
(`EditApplied`), `DayMoved`, `Marked`, `OvertimeWritten`, `SchedulesSaved`,
`DefaultsRestored`, `DayPlanned`, `RuleApplied`. A drag is bounded by the room
between its neighbours (`RoomBefore`, `RoomAfter`, `DraggedFits`). The places
of a rule's breaks are the running sum of what precedes them (`RunningSum`), so
they keep apart and begin after the first zone (`BreaksPlaced`), and channels
cut to a new shift and stretched over it only grow, and never into each other
(`CutToFits`, `StretchFits`). The planner's passes are unfolded by `LoopOf`.
From the overtime of SlotOffers comes `WithOvertimeMinutes`, which both modules
cite. What the fold of `CutOut` leaves is counted in minutes: pieces that do
not overlap fill exactly the minutes of the first ones that no cut covers
(`CutsLeave`, by induction over the cuts), whatever order the fold takes them
in. From this follow the base segments (`OneBaseSegment`), the stretches as the
longest runs of those minutes (`StretchesAreRuns`) and the sum of worked
minutes as their number (`MinutesOfWork`). `checkWorkRule` looks at a sample
day without zones that begins at midnight; that its verdict holds for the day
`applyWorkRuleToDay` makes takes two things: work, stretches and worked minutes
of a day that begins later are the same (`SameWork`, `SameStretches`,
`SameMinutes`), and two looks at the zones are enough for `placeBreaks` to keep
the last stretch as long as its zone (`ZonesFixed`, `StretchesFit`,
`BreaksEnd`), which the sample does not check. The planner is followed in three
steps. In one interval as many agents get a channel as are asked for, or all of
the pool (`SuitedAreFew`, from `FirstFew`: of the elements of any strict order
on a finite set, as many have fewer than n before them as n says), so the heads
come out as needed (`IntervalPicked`, `IntervalServed`). The picks of an
interval are those that were made when the loop passed it, whatever the later
passes do (`PickedInOrder`). And an agent's channels in the interval are that
pick, although blocks are made only where the channel changes and intervals
without a pick are filled from the ones before (`NoChangeBetween`,
`BlockOfMinute`, `PlannedMinutes`). The assumptions on the constants are what
the backend's schemas refuse to store otherwise: a rule's shift no shorter than
a shift, its breaks no shorter than a break (`WorkRuleIn`; of the rules that
are only checked, `WorkRules`, it is enough that a break takes some minutes); a
shift takes two channel blocks, since the defaults split it (`channels.ts:93`);
the days a team starts with are valid, its agents are a sequence, and the
planner is asked for no negative number of heads (`channel-auto-plan.tsx:120`).

*Roster_proofs.* `TypeCorrect`, `BoardFollowsRoster` (`BoardIsRoster`) and
`PatternsAreMade` (`PatternsFollowRules`). That the board shows the same people
as the roster is not inductive where the roster lists somebody twice: roster
and board are filtered by separate conditions, and returning people are put at
the end of both. `RosterInv` says that the board is the roster's list of ids in
its order (`Listed`), which filtering and joining keep (`ExceptItems`,
`ListedJoined`), and that only somebody imported after leaving is on it twice
or among those who have left. For patterns, `PatternInv` adds that every
pattern belongs to a rule that is there, and one not changed by hand to that
rule's present version: a pattern is otherwise given to whoever is hired with
it. Filtering is modelled by the places kept (`Kept`), and the lemmas
`PlaceOfRank` and `KeptItems` are about any sequence.

Only model-checked: liveness (out of the prover's reach here). Every other
property of the runs that hold is stated by a theorem, `CapacityRespected` by
the lemma just named.

## 5. Where code and documentation disagree, and what is not promised

One disagreement is a run that TLC finds violated, with the quoted line in
`PROJECT.json`: a date that is left while its days are still being fetched is
saved as a whole, without base versions, over what others saved there
(`sync_dates`). The same module has a second way to the same end: a stopped
session whose labour-law request fails goes on, and uploads its days to the
date now open.

Others were met while modelling. The models contain the behaviour; the property
that would fail is stated only where it holds:

- *Overlapping passes and requests.* Two servers can both send a report, since
  the claim compares with the value just loaded (`scheduled.py:117-123`); a
  report paused between being listed and being claimed is sent once more.
  Two overlapping saves with one base version are both accepted
  (`dayplan_service.py:214`), an edit that overlaps a publication is not
  notified (`:309`), valid writes of different columns can merge into an invalid
  day (`StoredDaysValid` is violated in the instance of `days_overlap`;
  `InvalidOnlyMerged` says it is the only way), and the last place of a slot
  can be taken twice (`offers.py:388`). Hence `reports_one` has one server and
  the `_serial` runs no overlap (`Overlap = TRUE` in their cfg shows the
  violations of what they check).
- *Slots.* "Cancelling a claim takes it back out" (`offers.py:9-10`), but not
  always. What is left on the right of a cut gets the id of the block and an
  "r" (`offers.py:432`): when two overtime claims have been merged into one
  block that reaches further on both sides, giving back the later one and then
  the earlier one makes two blocks of one id. `validate_day` refuses that ("ids must be
  unique", `dayplan.py:179-181`), `cancel_claim` ignores the reasons `apply_each`
  returns (`offers.py:458`) and cancels the claim: the slot is free again, and
  the agent still works it. The run reaches this (it is why
  `DaysAreTheirClaims` excepts `kept`), and `CutTwiceClashes` proves the
  clash. Overtime of a claim also stays in a day that was moved before the
  claim was given back (`offers.py:454`); a day that is reset keeps its claims
  filled.
- *Versions start again.* After a reset and a new save a row has version 1
  again, so a save based on the old version 1 is accepted; the same happens to
  capacity documents after a clearing, by anybody, which `UnseenIsKept` excepts
  (`id > 1`).
- *Edits.* A shift resize can leave a channel block below its minimum, whose
  later drags the rules refuse; a week off laid over activities and a pattern
  cut at midnight, whose breaks may reach beyond it and which may be shorter than
  a shift (`workRules.ts:179`), make days the server refuses (named in
  `EditsLandValid`).
- *Schedule sync.* An edit made while a pull is fetching is overwritten
  (`scheduleSync.ts:293-303`), one made while the labour law is fetched is
  saved only with the next edit (the store is subscribed after it); a save
  whose answer was lost conflicts with itself. A day the server refuses (422)
  is told as "offline" and sent again every 30 s for ever, and with it, all or
  nothing, the days edited beside it (`Refusable` in `EditsAreSaved`). Two
  overlapping saves give one version to two contents; the page then takes its
  own for the server's and its edit may be gone (`WrittenTwice`). After the
  await of `pushLabourLaw` (`:396-398`) the days set aside when the rows came
  are uploaded as they were then, with the version known by now: an edit made
  and saved in between is reverted on the server, while the page shows it,
  says "synced", and saves it again only with the next edit.
- *Settings.* One changed here and elsewhere waits for the next change
  (`settingsSync.ts:139`; `Overtaken` in `EditsSettle`). A refused one is sent
  again at every poll, and those after it in the order are not sent
  (`Refusable`). Rules of agents whom the server's value lacks stay on the page
  and count as in sync, but are not uploaded until the next change (`KeptHere`,
  `wfm.ts:956-974`); a PUT of the agents' rules, in turn, removes those of
  agents who are not on this roster. Two of the page's own pushes may overlap
  and write one version twice.
- *Capacity.* "`version` goes up on every change and guards against overwriting
  someone else's edit (409)" (`capacity/models.py:5-6`): it starts at 1 again
  after a clearing, and guards nothing between the check (`service.py:302-307`)
  and the write (`:380-398`), where two requests of one base version both pass
  (`overlapped`). A sheet imported while the page starts is removed from the
  plan when the server does not have it (`sync.ts:156`, `:166`) and stays marked
  as waiting for ever (`:305`); an upload refused for one stale sheet reloads
  all of them, fails for those the server does not have and is repeated for
  ever (`:312-317`); what the server refuses (422) is sent for ever, too: the
  cases of `Stuck`. A switch changed while switches are sent counts as sent
  (`:345`), so does a cell edited while its whole sheet is (`:319`); edits of a
  sheet that others have cleared are dropped with it.
- *Tabs.* "The roster: their list of people, with shifts for this tab's open
  day" (`crossTabSync.ts:82`), but who is not in that day's shifts comes with the
  shift of the day the other tab has open (`:85`, `shifts[a.id] ?? a.shift`): let
  one tab hire somebody and change their shift on its day before the other, on
  another day, takes over the two saves; the other then has that shift on its
  own day. If the first tab makes one more change, which says nothing of the
  new shift, and is reloaded, the two differ for ever: the pattern's shift in
  one, the other day's in the other. For the same reason a parked day may have
  no entry for somebody hired since, and that difference is never taken over.
  Two tabs that change the same day at the same moment take over each
  other's state and write it back for ever (`crossTabSync.ts:80-90`; hence
  `TurnsSettle` is about changes made in turns). The shift of an agent without a
  pattern is part of the open day only, and shows on every day (`wfm.ts:257-261`); an approved swap changes the day
  that is open when it is approved (`:1247`).
- *Roster.* Somebody who comes back finds their rule's pattern dropped or
  outdated until the rules change (`wfm.ts:295-305`), and a shift swap passes it
  on to somebody who never left: five operations, one more than the run takes,
  which the first attempt to prove `PatternsFollowRules` ran into (hence
  `stray`). Importing somebody who has left lists them twice once their last
  day is moved.
- *Webhooks.* Due deliveries of paused webhooks stay at the head of every batch;
  as many as a batch takes (100) keep those of all other webhooks from being
  sent (`webhooks.py:226-238`), hence the premise of `DeliveriesSettle`. A batch
  that ends with an exception, because a webhook was deleted while its delivery
  was being sent, forgets every attempt it made, and they are sent again
  (`lost` in `BudgetHolds`). A row whose flush raises every time (a NUL byte in
  the receiver's answer, which PostgreSQL cannot store, `webhooks.py:196`, `:219`)
  would end every batch it is in, and with it all sending; in the model only a
  deletion or a crash ends a batch. A delivery sent by hand while a batch has it in hand
  is recorded from stale columns: it can go from delivered to retrying, and its
  attempts are no longer counted right (`byHand`).

## 6. Not modelled, and why

Floating-point planning (`forecasting/`, `capacity/engine`, Erlang), rendering,
text parsing and network adapters are out of a model checker's reach, and they
are most of the code: the frontend's 34 000 lines are pages, charts, tables,
forecast models and spreadsheet arithmetic, and what can be stated about
concurrency and state lies in the files the table of section 1 names. The map
therefore covers a small share of the repository's lines, but most of the sync
engines, the day rules and the store's operations on days and roster.

Left out inside the modelled parts: who may call what, read-only users, wording
and links of notifications, exports, the labour-law policy's content, default
channels from forecasts, the line of business sent with the agents' rules
(which no browser takes back), read-only sync sessions, other slices of the
store (requests, real-time board, audit log), the URL, secret, signature and failure counters of a webhook. Not
modelled although a checker could reach them: the status machines of change
requests, approvals, weekly schedules and refresh tokens, and channel drafts.
Each is a read of a status and a write without a lock; their lines are among
the hazards.
