# KAPWA in TLA+

KAPWA is the case-management system of a municipal social-welfare office: a
NestJS server over PostgreSQL (`kapwa-server`) and a React client that also
works offline (`kapwa-client`). These modules specify the parts of it that are
hardest to test: the life of a case, which two staff roles push through seven
statuses while its steps are sealed, unsealed and rewritten by some thirty
routes; the same handlers with their awaits; the reminders a cron job sends
about the case's hearings and visits; the calendar that mirrors them; the queue
a device fills offline and its replay on the server; and the import of a client
list, reviewed row by row and saved by a background worker. Paths below are
relative to `kapwa-server/src` unless they start with `kapwa-client`.

## The system

| component | state it keeps | operations | what is hard |
|---|---|---|---|
| case lifecycle (`cases/cases.service.ts`, `case-fsm.ts`, `case-step-labels.ts`) | the `cases` row, `case_history` | transition, request-review, reject, override, the savers of each step's columns | every handler loads the entity, awaits, and saves it whole; no row version, no transaction; the history row is a second statement |
| step seals (`cases/case-step-locks.service.ts`) | `case_step_locks` | lock (work re-derived, then upsert, then maybe advance the case), unlock, `assertUnsealed` in front of the routes | guard and guarded write are separate statements; two gates name the steps they demand in two ways |
| child rows (`case-interventions`, `case-enrollments`, `inter-agency-referrals`, `case-events`) | their tables | create, update, delete | what gates and seals count; some writers carry no guard |
| requirement checklist and filing (`cases.service.ts`, `filing`) | `case_requirements`, documents, files | replace, upload, verify, delete, download with self-repair, offline replay | one checklist, two steps that read it, four writers behind two guards; the two gates weigh different document sets |
| case reminders (`case-events/case-event-reminder.service.ts`) | `case_event_reminders` (claims) | a cron tick every 15 minutes | overlapping ticks, collisions on the unique index, crash between claim and delivery, rows deleted or regenerated meanwhile |
| calendar mirror (`team/team-schedule-sync.service.ts`) | `team_schedule_blocks` | upsert, remove, move on reassignment | find-then-save without a unique index; works from rows read earlier |
| offline sync (`sync/sync.service.ts`, `kapwa-client/src/lib/offline-queue.ts`, `lib/sync.ts`) | client queue, `sync_queue`, idempotency results | record, send a batch, apply a change, detect a conflict, rule on it, pull | retries under new batch keys, changes applied before they are recorded, several runs over one queue |
| client import (`dedup/dedup.service.ts`, `dedup-finalize.worker.ts`, the sweep and the eligibility rules) | operation with a lease, rows, matches between rows and persons | upload, decide, revert, rule on eligibility, undo, finalize, save in the background | a decision on one match changes other rows' links; the rows a worker saves were read before; leases outlived or left behind |
| intake (`intake`, `pending-intakes`) | pending intakes, beneficiaries, households | submit, match, confirm, reject | look-then-create across tables |
| sessions (`auth`, `otp`, `accounts`) | token version, codes with attempts and expiry | login, refresh, logout, verify, reset | whole-entity saves racing, expiry against a late answer |
| the rest | | | independent CRUD, queries, document generation, analytics, transport |

Interaction: the controllers ask the seals first and then call the service; the
lifecycle asks the seals and the child tables at every gate; the seals ask the
same tables whether a step is done, and call back into the lifecycle when the
assessment is sealed; filing writes the checklist both gates weigh; case events
write the court step's rows, the calendar and what the reminders read; the
offline sync writes many of these tables past the services, the import writes
the persons that intake and cases refer to. `PROJECT.json`
lists every component with its status, and each hazard at its line.

What makes each correct: a case moves only along the lifecycle, with the work,
documents and seals each gate asks for, and with an admin's hand where one is
demanded; a seal vouches for work that stays on record; the history tells the
truth; the checklist cannot move under two seals; a reminder is sent once, and
is sent; the calendar shows the planned events of the case's worker and nothing
else; what a device shows as synced was kept by the server, once; a client list
is saved as it was decided, and once.

## Modules

| module | models | over |
|---|---|---|
| `CaseSteps` | statuses, steps, templates, lifecycle graph, `StepDone`, `MayTransition` | `case.entity.ts`, `case-fsm.ts`, `case-step-labels.ts`, the predicates of `cases.service.ts`, `case-step-locks.service.ts`, `cases-export.service.ts` |
| `CaseLifecycle` | one case, every request one atomic action: the abstract specification | the case, seal, child-row, filing and replay routes |
| `CaseRequests` | the same handlers split at their awaits, several in flight, dying anywhere; implements `CaseLifecycle` with one request at a time | the handlers' control flow and TypeORM's `save` |
| `CaseReminders` | overlapping runs of the reminder dispatcher, and the edits that race them | `case-event-reminder.service.ts` |
| `CaseCalendar` | the calendar blocks of one case's events and visits, each handler split at its awaits | `team/team-schedule-sync.service.ts`, the event handlers, the savers of worker and plan |
| `OfflineSync` | one device's queue, its sync runs, the server's replay and the coordinators, composed | `kapwa-client/src/lib/offline-queue.ts`, `lib/sync.ts`, `sync/sync.service.ts`, `sync/conflict-resolver.ts` |
| `ClientImport` | one import operation: review requests and finalize workers | `dedup/dedup.service.ts`, `dedup-match-sweep.service.ts`, `dedup-eligibility.service.ts`, `dedup-finalize.worker.ts` |
| `...Proofs` | theorems and proofs about the module of that name; `ClientImportReviewProofs` builds on `ClientImportProofs`, `CaseRequestsSerialProofs` on `CaseRequestsProofs` | |
| `MC...` | constants and symmetry of the runs | |

### State and actions

`CaseSteps` sees a case as `row` (the columns gates and seals read), `file`
(rows of other tables) and `seals`. A category is represented by the shape of
its template: "General" stands for every category without one of its own,
"CNSP" for the four that only add hearings. The assessment's narrative columns
are all mandatory in its payload, so the category stands for the block. Numbers
of referrals and hearings are counted, as the code counts rows; other child
rows are sets by service. `SealDocs` and `ActivationDocs` are kept apart
because the code derives them by two different queries.

In `CaseLifecycle` an action is a whole route: guard, service, history row.
`LockStep` includes the advance out of `enrolled` which sealing the assessment
brings. `Enroll` leaves out the program-against-category check, since it only
refuses. `last` and `seen` are what `case_history` shows: by whom and how its
newest row was made, and which of three marks (activated by an admin, rejected,
overridden) occur in it. Rows written by a batch serving of the duplicate
register carry no case id and have no effect here. `HealDocument` is the repair
a download makes when a stored file is missing; `ReplayRequirement` is the one
write of the offline sync that is guarded by a seal. The sync may also write
`cases` columns directly; `OfflineSync` has that write.

In `CaseRequests` a request is a record with a program point, the entity it
loaded (`snap`), the entity it saves (`want`) and what TypeORM's `save` re-read
before the update (`base`): `Begin` (seal guard) - `Load` - `Check` - `Compare`
and `Update` (the two statements of `save`; only columns that differ from the
re-read row are written, so a stale column is put back) - `Log`. `lock` goes
`Load` - `Check` - `Seal` - `Advance` and re-enters the role's own status route. Child
rows are written after the guard alone. `Check` merges the queries that follow
the load into one, all of them being reads of other tables. `Fail` ends a
request anywhere: a restart, or a statement refused. `done` is auxiliary: what
happened to the row, logged or not.

In `CaseReminders` a run of the dispatcher reads the clock, loads the planned
events, and takes them one by one with the visits after them: `Pick` (skip what
is past or has nobody to remind), then for every lead time and channel `Look`
(due, unclaimed, targets resolved), `Claim` (the insert; a duplicate or a
deleted event throws and ends the run), `Deliver` or `LoseMail`. `sentAt` is
read by nobody and left out. A subject is `live`, `off` (done, cancelled, or a
hearing the office does not attend) or `gone`. `reach` stands for worker,
client accounts, consent and addresses. Deleting an event deletes its claims
(`ON DELETE CASCADE`); saving the transition plan regenerates the visit rows
and keeps the claims, whose key is `<case|date|type>`. A visit's date is part
of its key and never changes.

In `CaseCalendar` a request of one of five kinds (an event created, updated or
removed; the case reassigned; its follow-up plan saved) is a record with a place
in its handler and what it loaded. An event is `due` when it belongs on the
calendar (planned, and a home visit or a hearing the office attends), `off` or
`gone`; a block carries the event it was made for, its worker, and whether
`source_ref` still names the event. An update whose event was deleted after it
was loaded inserts it again under a new id (`common/base.entity.ts:8-11`); the
model lets it come back as the event it was, which two requests have touched by
then. `Find` takes any block of the event, since
nothing keeps them down to one; `Put` saves over it, inserts it again when its
row has gone, or makes a new one; `PutRefused` is the foreign key
(`database/migrate.ts:1227-1236`). The `cases` row is saved whole, so a plan puts
back the worker it loaded. Visits are counted per worker. `blurred` is
auxiliary: what two requests in hand touched at once, and what a cut or refused
request touched.

In `OfflineSync` a sync run of the client (a tab, a timer, the `online` event)
takes the pending entries once, sends them batch by batch, and marks each entry
with what the answer says. A request on the server goes through the batch change
by change: `Load` and the lookup in `sync_queue`, `Skip`, `RejectTransition`,
`Clash` (a conflict row), `Apply`, `Record`. Two statements of a change are two
steps; all slots interleave. Answers get lost, the client's ten-second abort
leaves a request at work, the server restarts, a save fails, a tab closes. A
replay of any kind of change may throw (`ApplyFails`); a check that throws is
logged and passed (`CheckFails`: the case's status or the server's record could
not be read). An update of a row that is gone, or of columns that are all
stripped, writes nothing and is answered as applied; `Apply` counts it as the
server does. A user sends an entry again (`Retry`: Retry in the queue panel, Keep
Local and Keep Both in the conflict dialog) or drops it (`Remove`: Remove, Keep
Server), at any time, since what panel and dialog show may be old; a dropped
entry keeps its place in `queue` and is in no further run. `ByHand` says for which
changes; they count against `MaxFaults`, since they upset the protocol as a fault
does.
Payloads are abstracted to the kind of change and, for a status change, the
position asked for; of the two timestamps a conflict compares, only which is
later is kept (`stale`). `ruling` is a conflict decided for the client whose row
is not closed yet. `applied` counts replays of a change; `excused` counts the
occasions on which the protocol cannot know of an earlier one.

In `ClientImport` the upload is one step that leaves any set of candidates the
sweep and the eligibility rules allow: at most three per row, no person or
household for a row that duplicates an earlier one, a household only through a
person unless the cut to three took the persons (the runs have no households). A request loads its row (`req[q].row`), and what it does afterwards, a
transaction in the code, is a second step, except for the eligibility requests,
which save the matches one at a time (`SaveMatch`) and can be cut between them. A pair of rows is
answered with which row to keep, which stamps the other one too. Any match, a
pair's included, can be answered with the question for records on file: "not the
same" clears the link, "same person" claims the person, if it is one, and keeps
the row or puts it last. For a pair only the endpoint takes that question, the
review page does not send it. The history variables keep what the properties
tell apart: `crossed`, the rows whose pair was last answered as "the same
person"; `cleared`, the rows that a severed match left without the record they
were kept as. A worker claims a queued operation under a
lease, checks that all is decided, reads the rows and saves the list in one
transaction, leaving out a kept row whose person was deleted meanwhile; the lease runs out under it (`Outlive`) or behind it (`Expire`).
Columns the save copies without deciding by them are left out.

## Runs

| run | asks | bounds and why they are enough |
|---|---|---|
| `CaseLifecycle_Documents` | do seals keep their work, gates pass finished work only, is the shared checklist frozen under both seals, and does the history still explain every status when an admin overrides to `enrolled`, `active` or `closed` at any time | one service with one document, one referral, one hearing: every guard distinguishes "none" from "some"; decisions on the two service channels |
| `CaseLifecycle_Court` | same for templates with category and court steps (CICL, solo parent), no override | one hearing; two categories, one with and one without hearings, so that templates change under the case |
| `CaseRequests_OneByOne` | do the split handlers implement `CaseLifecycle` (`ImplementsLifecycle`), and does a sealed assessment move the case on | one slot, no failures; every lifecycle operation of a general case |
| `CaseRequests_Race` | two requests interleaving and dying: is delivery always authorised, does the history show only what happened | two slots: each hazard needs one stale request and one other; the operations around activation and rejection |
| `CaseReminders_Overlap` | is anybody reminded twice, is a claim ever stranded without a failure | two runs, one event, one visit, one lead time, one tick of the clock, one failure |
| `CaseReminders_Progress` | is a reminder that stays due claimed in the end | as above with the clock standing, since the property is about what stays due |
| `CaseCalendar_Mirror` | is the calendar the mirror of the case, through any sequence of edits, removals, reassignments and plans | two events (one at work, one beside it), two workers, four blocks (one per event and one more for each request), two requests in hand; one overlap and one cut, after which requests follow one another without bound |
| `OfflineSync_Overlap` | does the device ever show work as synced that nobody kept, is a change applied twice, does every conflict reach the coordinators | one change of any kind, and a copy pulled by it; two runs and two requests, so that a retry meets the request it retries; two faults, because a lost answer only matters when something goes wrong with the retry, an entry sent again or removed by hand counting as one; one ruling. The kinds are status change, update, service and intake; a checklist line behaves as an update |
| `OfflineSync_Batches` | the same for a queue of several batches, and is queued work settled in the end | three changes in batches of two, so that a batch is full and the last one is not; one fault, no ruling, no entry sent again or removed by hand |
| `ClientImport_Review` | is what is saved what was decided, for one operator | two rows that may match each other and either of two persons; two workers that keep within the lease; one save, stop or request failing; two finalize requests, so that a list comes back to the review and is finalized again |
| `ClientImport_Workers` | is a list saved once, and never left behind | one row and one person, three workers, two requests, two leases outlived, two stops or failures: a stale worker, its successor and a third that gate each other; three finalize requests |
| `Doc_PairHasOneWinner` | "the pair has exactly one winner" | as `ClientImport_Review`, with decisions only; expects a violation |

Slots, runs, rows' candidates, events, workers and blocks are symmetric where
the configuration says so and no temporal property is checked.

`Doc_PairHasOneWinner` checks what a comment says of the pair decision
(`dedup/dedup.service.ts`): a pair of rows of the list has exactly one winner.
The property speaks of pairs that were answered with which row to keep. TLC finds
the list in which both are saved: the pair is decided against the earlier row,
and then that row's own candidate on file is decided, which derives its status
anew from its own matches and makes it a row to save again. `LonePairSavedOnce`
is what does hold: of a pair that matches nothing else, answered with which row to
keep, one row is saved.

Deadlock is checked in all runs but the three of `ClientImport` and the two of
`OfflineSync`. A finalized list, and a queue in which everything is settled with
the bounds on faults and rulings reached, are legitimate ends there.

The properties about several records except, by an auxiliary variable, what the
code does not promise; each exception is as narrow as a counterexample allowed:
`blurred` in `CaseCalendar`, `excused` in `OfflineSync` and `ClientImport`,
`aside` (rows answered through the eligibility endpoints), `crossed` and `cleared`
in `ClientImport`.

Some hazards no property catches, because what they describe is what the code
does and no statement of the repository forbids it, or because the property that
comes nearest excepts them; `PROJECT.json` lists them with the reason. They are:
a case that leaves implementation served by neither channel; a seal taken between
guard and write, and a stop between a status save and its history row (the
atomic model and the runs of one request at a time cannot show either, and with
two requests the code breaks the properties); a conflict resolved twice; a
change held or written over by age; a reminder claimed and not sent because the
process stopped; and everything two overlapping requests leave on the calendar,
with the visit blocks that do not come back after a case was without a worker.

### Observations that are not runs

Met while modelling, each with a trace that TLC showed; they are left out of the
runs because the properties above already mark where they bite.

* Lifecycle. A conditional document blocks activation though the step it
  belongs to counts as done. Editing an event into a hearing is not asked for
  the category, creating one is. After activation the intervention can be
  removed, both channels declared "none needed" and sealed, and the case leaves
  implementation with neither. `reject` closes a case out of Phase-In, while
  `case-fsm.ts` says closure is only reachable through Phase-Out.
* Two requests at once. A seal placed between guard and write loses its work; a
  stale whole-entity save puts the status back; a stop between save and history
  row leaves the trail behind the status. `CaseRequests_OneByOne` shows the same
  properties hold when requests follow one another.
* Sync. The client's abort after ten seconds (`kapwa-client/src/lib/api.ts:133`)
  is neither a `TypeError` nor a 5xx, so its batch is marked failed, which the
  comment at `kapwa-client/src/lib/sync.ts:133-135` reserves for answers of the
  server. A transition refused on the server is recorded under the device
  `__rejected__`, so it is on no coordinator's list for that device
  (`ConflictSurfaces` excepts it). The replay of a change to `cases` passes no
  gate, and a change older than the record is applied over it.
* Import. "Same person" on one candidate followed by "not the same" on another
  clears the link to the first, and the row is saved as a new client, against
  the comment of `decide` (`dedup/dedup.service.ts:228-245`); `NoSecondRecord`
  excepts it (`cleared`), and only until the row is answered with a person again.
  "Same person" sent for a pair keeps the later row and waives its
  disqualification, and does not stamp the earlier one: both are saved. `decide`
  refuses only the opposite mix, `keep` for a record on file
  (`dedup/dedup.service.ts:141-143`); `LonePairSavedOnce` excepts it (`crossed`). A row "same person, deprioritize" does not update its record at
  the save though its comment says the record is updated either way.
* Calendar. Blocks of follow-up visits deleted when a case loses its worker are
  not made again when it gets another. A reassignment that overlaps a
  cancellation brings the block of the cancelled event back, against
  `case-events/case-events.constants.ts:15-20`. A block put back between the
  deletion of blocks and that of the event stays, untied.

### Fairness

`CaseRequests` assumes weak fairness of the next step of a request in flight:
the event loop and the database serve it. It does not assume that clients ask
for anything. `CaseReminders` assumes weak fairness of starting a run (the cron
expression fires for ever) and of its steps, and none of the clock, of
deliveries failing or of staff. `OfflineSync` assumes weak fairness of each sync
run's next step (the watcher's timer starts runs for as long as the page is
open, and a run goes on until it is over) and of each request's next step on the
server, and none of users, outages or coordinators. `ClientImport` assumes weak
fairness of each worker's next step (its interval ticks on) and of time passing
for a lease that nobody works under, and none of operators. `CaseLifecycle` and
`CaseCalendar` assume none.

## Proofs

`CaseLifecycleProofs` proves, for all documents, services, program tables,
categories, decisions, override targets and `MaxRows`, from `DocsAssumption`
and `CaseAssumption` alone:

* `TypeCorrect`: the type invariant, inductive as it stands.
* `SealedWork` (`SealedWorkStays`): inductive together with the type; one step
  per request shows that what it removes belongs to a step whose seal it was
  refused under.
* `TwoPairsOfEyes` (`FourEyes`), `ExitRecord` (`ExitRecordInPlace`),
  `SealedAssessment` (`SealedAssessmentAdvances`), `SealableGates`
  (`GatesAreSealable`): each inductive relative to the type invariant, because
  each is stated over all statuses at once. `FourEyes` speaks of every status
  from `active` on, so that a step along the lifecycle finds the marks of the
  status it leaves; the exit record is stated in both directions, since only
  the rejection and the closure step write the outcome and only Phase-Out may
  carry it before the end.
* `GatesMeanDone` (`GateMeansDone`) and `FrozenChecklist`
  (`BothSealsFreezeChecklist`): action properties from those invariants.

`CaseRequestsProofs` proves, for any number of requests in flight, any operations
and with or without failures, `TypeCorrect`, `DeliveryAuthorised`
(`DeliveryIsAuthorised`) and `HistoryHonest` (`HistoryIsHonest`). The invariant
says of every request in hand what it is about to do to the case: the status it
will write is allowed once its marks are added (`Allowed`, `Sound`), and what it
will log has happened. A stale save harms neither, since it writes what its own
checks allowed or puts back a status the row has had.

`CaseRequestsSerialProofs` assumes one request at a time (`OneByOne`, stated in
each theorem). `SealedStays` (`SealedWorkStays`) and `StatusFollows`
(`StatusFollowsLifecycle`) follow because the entity in hand is the row
(`InStep`) and the seal its route asked about is still not there (`Guarded`);
`TrailReaches` (`TrailReachesStatus`) and `Implements` (`ImplementsLifecycle`)
need that no request dies as well. `Implements` is the refinement: one lemma per
action shows that it maps to a step of `CaseLifecycle` or a stutter. The delicate
part is a new seal on the assessment, which is shown only with the status change
that follows it: `Mapped` says that nothing on the way can refuse that change.

`CaseRemindersProofs` proves `TypeCorrect`, `ClaimsServed` (`ClaimedIsDelivered`:
a claim is made by a run that is then at its delivery, and delivered when the run
moves on) and `AtMostOnce`, for any events, visits, lead times,
number of runs and failures. `RemindedAtMostOnce` is not inductive. It is
strengthened (`IInv`) with: what was delivered is still claimed or its event is
gone for good (`DeliveredStaysClaimed`); what a run is about to deliver is
claimed, or its event gone, and undelivered (`DeliveryIsClaimed`); no two runs
are about to deliver the same (`DeliveriesDiffer`). Only `Claim` and `Deliver`
touch these; `QuietStep` handles every other step of a run.

`OfflineSyncProofs` proves `SyncedSettled` (`SyncedIsSettled`) for any number of
changes, runs, requests, faults, rulings and decisions by hand, any batch size and any kinds of
change. Once a change has been applied or closed it stays so; call that settled.
The invariant (`Honest`) says that wherever "it was applied" is written down, in
a ledger row, in what a request saw of it, in an answer on its way, in a run's
batch or in the queue, the change is settled.

It proves three more. `TypeCorrect` (`TypeInv`): the queue holds a change once,
and so do the rest and the batch of a run and what a request has left to do;
this rests on what `Only`, the filter of the queue, returns for every sequence:
a member of the queue, and none twice (`Distinct`). `ConflictsSurface`
(`ConflictSurfaces`) follows the word "conflict" as `Honest` follows "applied":
wherever it is said of a change that is not a status change, the change is on
the coordinators' list or decided (`Surfaced`). `AppliedOnce`
(`AppliedOnceUnlessExcused`) is an account (`OnceInv`): with what a change was
applied already, the requests that looked it up, saw no application and have not
come to it yet each have theirs to give (`Spent`); and as long as no applied row
is written, it was applied no more often than is excused or about to be recorded
(`Written`). Counting requests needs the slots to be finite
(`SlotsAssumption`).

`ClientImportProofs` proves `TypeCorrect` and `ImportedOnce`
(`ImportedOnceUnlessExcused`) for any list, candidates, operators and workers.
The second needs a token argument (`OnceInv`): a list that is queued, a worker
past its claim that nothing has excused, and a save already made are each one
token, and only what `excused` counts makes another. Counting the workers needs
the set of workers to be finite (`WorkersAssumption`).

`ClientImportReviewProofs` assumes one operator, and one worker or any number of
which none outlives its lease (`OneAtWork`, stated in each theorem), and proves for
any list and any candidates `FinalizedDecided` (`FinalizedIsDecided`), `NoneSkipped`
(`NobodySkipped`), `SeveredKept` (`SeveredStaysSevered`), `OneRecord`
(`NoSecondRecord`) and `OneWinner` (`LonePairSavedOnce`). The invariant keeps
operator and worker apart (`Apart`) and the workers from each other (`Single`:
whoever is at the list holds the lease); a request has the row as it is (`Fresh`),
and between a worker's gate and its save the review is closed, so that what it
read is what is there and what the gate found decided is decided (`Gated`); a row
whose status is pending outside `aside` has a pending match (`PendingIsMeant`),
and a person severed from a row is not its link (`Gone`). `OneRecord` needs
that a row kept as a person (`Kept`) points at one unless one is still open
(`Linked`): reverting the match the row points at takes the link and opens that
match at once, and severing takes the link too, which is where `cleared` excepts
the row. `OneWinner` needs that every answer to a lone pair, but for the
same-person question (`crossed`), puts one of its rows out (`Exclusive`), which
holds because the later row of a pair is stored as a duplicate and the
eligibility endpoints cannot waive it back in, and the earlier one, allowed from
the start, is asked nothing; and that a request over matches saved one by one
answers the row as it answered its only match (`Apt`). With two operators, or a
worker that outlives its lease, these fail, which is why `OneAtWork` is assumed.

`CaseCalendarProofs` proves `EventsAreMirrored` (`EventsMirrored`) for any
events, workers, blocks, requests in hand, overlaps and cuts, from
`NobodyAssumption`, `EventsAssumption` and `BoundsAssumption`. The property only
speaks of moments when nothing is in hand; the invariant says what holds in
between: what is not blurred has one request at most at work on it (`Alone`),
and that request's place in its handler says how far the mirror has got
(`Phase`): bare after its blocks were deleted, as read for what a reassignment
still has to do, mirrored for what it has done. `StepKeeps` reduces each step to
what it does to the events it touches, `BeginKeeps` each new request to the
mirror it finds.

It also proves `TypeCorrect`, which carries the foreign key (a tied block names an
event that exists: a request cannot put back a block it found before the event
went), and `VisitsStay` (`VisitsNeverAstray`). For the visits the invariant
(`VisitsInv`) says: unless the plan is blurred, one request at most is at it,
with nobody at it the blocks are the assigned worker's and as many as the
visits (`AllOn`), and a request at it has them all on the worker its place in the
handler names, a plan being put counting up while what is left counts down
(`AssignVisits`, `PlanVisits`). A reassignment adds up all workers' blocks
(`Total`); `TotalIs` proves the recursive function that sums has a value, and
that it is one worker's number when only that worker has any. It needs the staff
to be finite (`StaffAssumption`).

### A convention

An `EXCEPT` in a module with theorems names one path per index: two fields of
`slot[s]` are changed in a record update inside the function update, not in two
paths that both begin with `![s]`. The SMT backend reads the later path as an
update of the original function and so drops the earlier one; nothing may rest on
that.

### Induction

The library's induction theorems take an operator as a parameter, which none of
the provers used here can instantiate. Where a proof needs induction over the
length of a sequence or the size of a set (`Only` in `OfflineSyncProofs`, `Total` in
`CaseCalendarProofs`), it takes a least counterexample instead: `LeastOfNat`, that
a nonempty set of naturals has a least member, follows from the theorems about
well-founded relations, whose parameters are sets; the set of the lengths or
sizes for which the claim fails has no least member, so it is empty. A recursive
function is a `CHOOSE`, so the same argument first shows that a function with
its equation exists.

Model-checked only: liveness (`DueIsClaimed`, `PendingIsSettled`,
`QueuedIsWorkedOff`, `SealedAssessmentMovesOn`), since fairness and ENABLED are out
of the prover's reach. Every invariant and every action property that a run
checks is stated by a theorem, and so is the refinement.

## Not modelled

Contents of documents, narratives and payloads, wording and layout; audit-log
rows (each a further statement after the effect); the files on disk; lead-time
settings (constants here); the new identity of an event that a save inserts again.

Of the offline sync: the answer the server keeps per batch key (a run makes a new
key each time, so it is never asked for), version vectors, pulls of more than one
row, the pruning of synced entries, two tabs that rewrite the stored queue at once
(the panel and the dialog do not take the queue's lock, so one may undo the
other's mark), the merged payload of Keep Both, clocks that disagree, the merge for display.
Of the import: remarks, files and exports, columns the save copies, string
similarity (every outcome of the sweep is taken instead), "same person" for two
rows nobody paired, two lists at once. Of the calendar: entries the owner edits,
office events, presence.

Components without a module, and why, are in `PROJECT.json`. In short: intake and
pending intakes look and then create across tables without any protocol, so a
model could only restate the race; sessions compare one counter; access cards
and beneficiary referrals have small status machines of their own that nothing
else reads; the rest is record keeping, queries, document generation, numerical
analysis, transport and rendering, a large part of the repository's lines.

## Plan

Done: all modules above, and a theorem for every safety property. Next, in this
order: what of the import's properties survives a second operator who leaves the
first one's rows alone; access cards and beneficiary referrals as one small module each, when a run can
be spared for them; the intake's confirmation of a match composed with the
import's persons.

A new module brings one run or two, and a run that a theorem has made redundant
gives way first.
