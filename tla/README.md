# minion_hub: specifications and proofs

TLA+ modules for the parts of minion_hub (a SvelteKit hub over Supabase
Postgres) whose correctness depends on interleavings, crashes and timeouts.
`PROJECT.json` lists components, runs, mutants, the source lines behind every
definition, findings, hazards and theorems. Paths below are relative to the
repository; the hub's own code is under `src/`.

## 1. The system

The hub is a multi-tenant web application. Pages and API routes
(`src/routes`) call services (`src/server/services`), each of which keeps its
state in Postgres. Three facts shape everything that can go wrong:

* A service call is one or several **READ COMMITTED transactions**.
  `withOrgCore` (`src/server/db/with-org-core.ts`) opens one transaction, sets
  the tenant and commits; there is no retry and no stronger isolation. A
  statement outside it is a transaction of its own. Whatever a service reads in
  one transaction may be false in the next.
* Several **server processes** (and serverless isolates) run the same code; a
  request may die anywhere. Mutual exclusion exists only where a row lock, a
  unique index or a compare-and-set `update ... where` makes it.
* Long work is driven by **cron ticks** (`/api/jobs/tick` and its kin, every
  minute) that pick up rows under a lease or a stale heartbeat, and by calls to
  **gateways** (LLM and messaging hosts) that take seconds to minutes.

### Components

| Component | State | Operations | Hard because | What makes it correct |
|---|---|---|---|---|
| stock ledger (`stock.service.ts`, `stock.logic.ts`) | entries, lines, append-only ledger, bins | draft, update, delete, submit, cancel, rebuild bins | row locks on several bins, deadlock, rows that do not exist yet, rebuild beside postings, abort | bins = ledger, ledger adds up, nothing negative, each document moves once |
| stock accruals (`stock-accruals.service.ts`) | accrual rows per booking | accrue, release, realize | realize is six database calls; cancel, adjust, a second completion in between | a realized accrual names an issue that moved its item, settled rows stay, one issue per booking |
| point of sale (`pos.service.ts`) | shifts, tickets, payments | open and close shift, submit, post stock, void | stock posting after the money commits, retried; void in between; sales while the shift is counted | a void takes its issue back; one issue per ticket; a closed shift counted the tickets that stand |
| POS emission (`pos-emission.service.ts`) | series counters, emissions | allocate, emit, record | detached half lost in a crash | numbers unique and gapless per series |
| job runtime (`bg-runtime.ts`) | `bg_jobs` | enqueue, claim, advance, persist, finish, cancel | lease shorter than the work, unconditional writes by late workers | ended jobs stay ended, every job ends |
| group chat (`groupchat.service.ts`) | run, agents, messages | create, advance, cancel | progress counted before a 120 s call and written after it | cap on turns, turn order, orchestrator last |
| brain ingest (`brains.service.ts`) | documents, chunks | add, reingest, ingest | two ingests of one document | a ready document has its chunks once |
| brain corpus (`brain-corpus*.ts`) | conversations, chunks, dirty cursor | merge changes, sync, reconcile | merge races claim; older snapshot written last | a change is never in no job; corpus converges to the messages |
| gateway lease (`gateway-lease.service.ts`) | `gateway_lease` | resolve, revalidate | probe, expire and acquire are separate; page loads interfere | callers follow one instance; failover completes |
| bookings (`scheduling-*.ts`) | bookings, resources | book, set status | check then insert without exclusion | no double booking |
| reminders, notifications (`reminders.service.ts`, `notif.service.ts`) | logs, watermarks | claim, send, record | crash between claim and send; watermark | at most once, and eventually |
| finance sync (`finance-sync*.ts`) | jobs, cursor, watermark, stored documents | enqueue, claim, page, finish, cancel | stale heartbeat while a page is slow; unconditional writes by id; a provider that changes | the watermark never passes what is not stored; the cursor never skips a page; one worker per source; every sync ends |
| memberships (`membership.service.ts`) | memberships, cycles | create, tick | stale copies written back | one order per cycle |
| channel pairing (`channel-pairing.service.ts`) | requests, allow list | request, approve | read-modify-write, cap | no approved sender lost |

Interactions: POS and accruals create, submit and cancel stock entries, which the
stock page edits as well; bookings accrue, release and realize; group chat, brain ingest, brain corpus and statement
imports are handlers of the job runtime; group chat, notifications and
reminders call gateways, found through the lease. The other components (CRM,
parties, projects, workflow, messages, access, backups, the UI) are listed in
`PROJECT.json` with the reason they are left out: mostly queries and CRUD whose
statements stand alone.

## 2. The modules

| Module | Models | Lines of code it follows |
|---|---|---|
| `StockLedger` | the stock ledger, one action per statement that can block or be seen | `stock.service.ts` 450-929, `stock.logic.ts` 9-137, 406-439 |
| `StockBook` | abstract: a document moves its quantities once and takes back exactly those | - |
| `StockRefinement` | the mapping from `StockLedger` to `StockBook` | - |
| `MCStockLedger` | instances for TLC: two bins, two sessions, sets of documents | - |
| `StockLedgerProofs`, `StockRefinementProofs` | theorems about the ledger; that it implements `StockBook` | - |
| `BgJobs` | the runtime; job types extend it and supply the handler | `bg-runtime.ts` 18-166 |
| `GroupChat` | one run, its requests and its handler, on `BgJobs` | `groupchat.service.ts`, its routes |
| `GroupChatProofs` | theorems | - |
| `FinanceSync`, `MCFinanceSync` | the second job runtime: heartbeats, cursor, watermark, against a provider that changes | `finance-sync.service.ts`, `finance-sync-jobs.service.ts`, its routes |
| `FinanceSyncProofs` | theorems | - |
| `SourcedIssue` | issues made for a ticket or a booking, over `StockBook` | `stock.service.ts` 1487-1640 and the entry functions |
| `PosTicket` | sale, posting of stock, void, closing of a shift | `pos.service.ts` |
| `BookingAccruals` | accrue, status changes, release, realize | `stock-accruals.service.ts`, the booking routes |
| `SourcedStock`, `MCSourcedStock` | both on one stock, beside the stock page | - |
| `SourcedStockProofs`, `SourcedAloneProofs` | theorems: for any requests, and for a source on which one request at a time works | - |
| `BrainCorpus`, `MCBrainCorpus` | documents and chunks that follow an org's conversations, on `BgJobs` | `brain-corpus-jobs.service.ts`, `brain-corpus.service.ts` 256-451, 886-1694 |
| `BrainCorpusProofs` | theorems | - |
| `GatewayLease`, `MCGatewayLease` | resolve and revalidate for one org and channel | `gateway-lease.service.ts` 131-325 |
| `GatewayLeaseProofs` | theorems | - |

### Stock ledger

`status`, `doc` are the rows of `stk_entries` and their lines, `bins` and
`ledger` the committed rows of `stk_bins` and `stk_ledger`, and `tx[t]` the open
transaction of session `t`: its moves, the bins whose rows it has locked
(`held`) or still needs (`need`), what it read (`seen`), its uncommitted rows
(`buf`). A transaction's own writes become visible at its commit
(`CommitPosting`, `CommitRebuild`).

* `BeginSubmit`, `BeginCancel`: the `select ... for update` of the entry, its
  validation and the plan of movements. The entry lock is held to the end, so
  two submits of one draft cannot both begin.
* `LockBin`, `MissBin`, `BlockOnBin`: `lockBins`. A bin without a row locks
  nothing and reads as empty. READ COMMITTED: a statement that waited re-reads
  the row the other transaction committed; if the row was deleted meanwhile,
  it misses it.
* `PostMove`, `NegativeStock`: the loop over lines, with `wouldGoNegative`.
* `PutBin`: an upsert of `writeBins`, which may wait for a row lock.
* `UpdateEntryRead`/`Write`, `DeleteEntryRead`/`Write`/`Refused`: status check
  and write in separate statements; the ledger's foreign key refuses a delete.
* `BeginRebuild`, `DeleteBins`, `CommitRebuild`: `rebuildBins` reads the whole
  ledger first and locks afterwards.
* `DeadlockAbort`, `ConnectionLost`: any transaction may be undone anywhere.

Simplifications. Quantities only: the valuation arithmetic (rates, negative
carry) is left out and planned. The order in which a document's bins are locked
and its lines posted is free (the code's order is one of them). The ids of a
line's two ledger rows are one id. `nextSerialId` locks its counter last, so it
adds no cycle and is left out; audit and events are appended by the same
transaction. One rebuild at a time, of all bins or of an item's (`ItemBins`).
`updateEntry`'s write is one step.

### Job runtime and group chat

`job` are the rows, `worker` the local state of each `advanceJob` call. A lease
is *held* or *expired*; `LeaseExpires` may happen at any time, since nothing
renews a lease during a handler's await. `Claim` is the compare-and-set;
`PersistProgress` and `Finish` write by id alone, as the code does, so a worker
that lost its lease still writes. `GroupChat` adds the run's row, its messages,
what each handler has read (`turn`), and the two requests that create and cancel
the run, each of whose statements commits alone and which may die in between.
The model call is the time between `ReadMessages`/`MarkRunning` and
`PostTurn`, `PostOrchestrator`, `CompleteRun` or `ModelFails`. `currentRound` is written
with the message (it is only displayed). `overrun` is history: a lease expired
on a job somebody was working on.

### Gateway lease

`rows` are the org's candidates, `lease` the lease row (`live` stands for
`expires_at > now()`), `up` the instances that accept upgrades, `call` what each
request has read, `answer` what is known of what it returned. Each SQL statement
and each probe is a step; a statement may fail, which the code treats as having
found nothing. `seen` and `calm` in `call` are history: who held a live lease
since the call began, and whether no statement failed and no assignment changed;
once one did, the history is dropped and the answer's verdict is "unknown". The
answer's `held` is computed when the call returns.

`last_healthy_at` is left out: it is written with a healthy probe and read
(`gateway-lease.service.ts` 136, 146) for the `healthy` that is displayed with an
endpoint, and decides nothing about which gateway holds the lease.

### Finance sync

`job` are the rows of `fin_sync_jobs`, `watermark` the one of `fin_sources`,
`stored` the version of each document in `fin_invoices`, `changed` the version
the provider has, `worker` what each call of `advanceJob` knows. A version is the
time of its change. `ClaimJob` is the compare-and-set with its stale-heartbeat
clause; `ReadJob`, `ReadSource`, `SeedTotal` or `SkipTotal` precede the loop
`PullPage`, `CheckCancel`, `StorePage`, `Beat` (or `BeatAndLeave`, when the
budget is spent); `SetSourceSync`, `FinishJob` and `Return` end it. `SyncFails`
is the catch block, which puts back the watermark that was *read*, even when the
job was already finished; `WorkerDies` is a crash anywhere. The provider lists,
in a fixed order, the documents changed after `since`, one to a page, and its
cursor carries `since` with it.

`HeartbeatStale` is the passing of `STALE_MS`. It may always happen to a job
nobody works on, and once per behaviour to one that somebody does (`Slow`): then
two workers have one job. `slow` is history: `overrun` from that moment, `late`
if the slow worker stores a page after the job ended. Where the code writes by
id alone (`heartbeat`, `finishJob`, `setSourceSync`) so does the model.

### Stock issued for tickets and bookings

`StockLedger` shows that each document is one atomic movement of `StockBook`;
these modules therefore build on the book, instanced in `SourcedIssue` with the
entries as its documents. An entry has a `source` (a ticket, a booking, or none)
and `lines`; `IssuesOf(s)` is the `status <> 'cancelled'` of the duplicate guard,
which reads before it inserts and has no unique index behind it: `Reserve`
(the transaction takes its `createdAt` and looks) and `InsertDraft` are two
steps. `StockPage` is anybody else, updating, submitting, cancelling and deleting
the same entries; `UpdateEntry` may leave a draft with any lines, and an entry
without lines is not submitted.

In `PosTicket` and `BookingAccruals` each request (`till[c]`, `desk[c]`) has a
program counter that names its next database call, and what it has read; it may
end between any two (`RequestEnds`, `DeskEnds`). A sale reads the open shift
(`ReadOpenShift`), commits (`CommitSale`) and goes on into `postTicketStock`
(`LoadTicket`, `FindEntry`, `Resolve`, `GuardDuplicate`, `InsertIssue`,
`SubmitIssue` or `SubmitRefused`, `StampTicket`), which `PostAgain` repeats;
a void is `LoadForVoid`, `ReadShift`, `CancelIssue` or `CancelRefused`,
`MarkVoid`; `CountTakings` and `CloseShift` are the two halves of `closeShift`. A
booking is made or adjusted (`ReadSettled`, `Accrue`), its status set
(`SetBookingStatus`), and its accruals released or realized (`ReadOpen`,
`FindIssue`, `DeskGuard`, `DeskInsert`, `DeskSubmit` or `DeskRefused`, `Realize`).

`posCrossed` and `deskCrossed` are history: sources two requests worked on at
the same time. `straddled`: a sale, a void or another count met a closing. The
code has no exclusion there, and the properties that need one say so; the others
(`StampIsOwnIssue`, `RealizedByIssue`, `SettledRowsStay`) hold regardless.
`ShiftAddsUp` is therefore the sequential rule (a sale needs an open shift, a
void an unclosed one); the race itself is `ExpectedIsStanding`, which
does not hold (section 4).

Simplifications. One shift, and no `openShift`. One item is one unit. The delete
and insert of `accrueConsumption` are one step. The detached shadow emission after
a sale is left out. `rejected` is as `cancelled`, `pending` as `accepted`. Lines,
warehouses and recipes decide only whether there is something to issue and from
where (`Resolve`, `ToIssue`); of an update only which items it leaves on the entry.
In the instance the stock page's receipt keeps its line, or there would be nothing
to be short of. `voidTicket` also refuses a reconciled ticket, one whose
`invoice_provider_ref` is set; nothing in the code sets it on a ticket, so
`LoadForVoid` has no such case.

### Brain corpus

`messages` is the text each conversation has now (its messages, rendered with its
contact, as the sequence of chunks it is cut into), `corpus` the knowledge
document of each conversation with its chunks and their embeddings, `hand` what
each worker's handler has read and compared, `ingest` how far each call of
`insertMessages` has come. After its commit (`InsertMessages`) such a call looks
for a queued dirty job (`Look`), merges its conversations into that job's cursor
by compare-and-set (`Merge`) or enqueues a new job (`EnqueueDirty`); its failure
is swallowed (`IngestFails`). The daily cron enqueues a reconcile job
(`EnsureReconcile`). A handler step syncs the next dirty conversation, or a page of
the scan: `Prepare` (rows, old document and chunks), the embedding call, `Persist`
in a later transaction, `Sweep` of documents without messages. `LoadRows` is what
`Prepare` finds: a dirty conversation's key is normalized and compared with the
names as they are stored, so it does not find a conversation in `Raw`, whose rows
were stored with other case or blanks; a scan finds them all. `PersistClashes`
is the foreign key that refuses the chunks of a document that somebody else
inserted meanwhile; with `HandlerFails` it is the catch block. `ChangeUnnoticed`
is what enqueues nothing: a contact is edited, a message leaves the ledger.

`excused` is history: conversations of which a sync or an enqueue failed, of
which a change went unnoticed, or that two workers had in hand at once.

Simplifications. One document (month) per conversation, so a message that moves
to another month is not seen, and one conversation to a page; a conversation's rows
are all stored normalized or none is. Reads of one transaction are one step, and so
are the look for an active reconcile job and the insert of one: the cron calls come
a day apart. Worker and request slots are
alike, so the first idle one is taken, and `Forget` recycles the rows of ended
jobs. An embedding is the content it was made from. Source status, failure notes
(but that there are some), external vector storage and switched-off embeddings
are left out, and so is the business corpus.

## 3. The runs

| Run | Instance | Shows |
|---|---|---|
| `stock_seeded` | 2 sessions, 2 documents (a loss, a swap), both bins have rows, rebuild in a maintenance window; 86,000 states | types, bins agree with the ledger, the ledger adds up, the ledger implements `StockBook` |
| `stock_full` | no bin has a row, rebuild beside postings; 389,000 states | what holds even then: nothing negative, no row without its document, rows only with the transition |
| `stock_live` | two documents over the same two bins; 28,000 states | every transaction ends |
| `stock_first_movement` | as `stock_full`, window kept | **violated**: two first movements into one bin lose one (finding 1) |
| `groupchat_fair` | 1 round of 2 agents and the orchestrator, 1 job, 2 workers; 43,000 states | cap, order while no lease is overrun, orchestrator on a complete discussion, ended jobs stay ended, jobs end |
| `groupchat_overlap` | the same | **violated**: turn order once a model call outlasts its lease (finding 2) |
| `lease_failover` | 2 gateways, 2 requests; assignments, instances and statements change and fail, until they settle; 340,000 states | an undisturbed answer names a gateway that held the live lease; the lease comes to an instance that is up |
| `finance_safe` | 2 workers, 2 jobs in a row, 1 document that changes, clock to 2, one worker taken for dead; 1,880,000 states | the watermark never passes a version that is not stored, one worker at a time pulls, ended jobs stay ended |
| `finance_live` | 2 workers, 1 job, 2 documents (pages); 281,000 states | what lies before the cursor is stored, and the sync ends |
| `finance_backfill` | a first watermark older than the nightly window, then a manual job | **violated**: the manual sync does not fetch what the nightly run skipped (finding 3) |
| `sourced_stock` | 1 ticket with 2 requests and a shift's closing, or 1 booking with 2 requests; 3 entries, stock short at first; 1,375,000 states | stamps and accruals name their own issues, voids take them back, settled rows stay, one issue per source, the shift adds up |
| `brain_corpus` | 2 workers, 2 requests, 2 jobs at a time; a conversation with messages and a new one, in `Raw`; 2 changes, failures, crashes or lost leases; 497,000 states | no embedding stays on another text, no reported change is in no job, the corpus converges |

**Bounds, and why they are enough.** Two sessions, workers or requests are what
every race above needs: each is a conflict of two; a third only repeats one.
Two bins give lock cycles and transfers; two documents give a posting beside a
posting and a cancellation of one beside a submission of the other. `MaxRows`
(14) is never reached by two documents with two lines each, their cancellations
and the opening rows; the proofs hold for every value. One round of two agents has a
first, a middle and a last turn and a wrap-around for a late worker.

Two finance jobs in a row are what it takes for a late worker of the first to
meet the watermark of the second; two pages for a cursor between them; one
change of one document, at any of three times, for a version to be missed
before, during or after a sync. `Slow` allows one worker to be taken for dead:
two such events need a third worker. Three entries are the stock page's receipt,
an issue and one more, made after the first was taken back (or beside it);
`MaxTimes` = 2 is one accrual and one adjustment. A ticket and a booking meet
only in the stock they share, which the stock page's receipt moves as well, so a
behaviour has the one or the other; the proofs have any number of both at once.
With one item `Realize` never finds a row whose item the issue lacks (its
"released" branch for superseded rows); the proofs cover it.

In `brain_corpus` two events are a change and a lost lease (two workers with one
job), a failure beside it, or two changes whose calls meet in one queued job; the
conversation with messages may change within a chunk (a contact) or grow by one.
A dirty job and a reconcile job, or two dirty ones, are active at a time. The new
conversation is the one in `Raw`: it comes into the corpus by the scan alone, while
the other goes both ways; the proofs have any `Raw`, the empty one too.

Symmetry is
used only in runs without liveness, over sessions and entries, which no
definition orders. No state constraint is used.

**Deadlock** is checked in the stock, group chat, lease and brain runs: even a finished
system has stuttering environment steps left (a rebuild, a toggle, a
cancellation, the next reconcile). In the finance runs and in `sourced_stock` the system may stop:
the clock has reached `MaxTime` and all jobs have ended, or the entries are used
up and the shift is closed.

**Fairness.** `stock_live`: strong fairness of each session's steps, because
Postgres queues lock waiters and a waiting statement gets its row, and weak
fairness of the deadlock detector, which is Postgres's own and runs after
`deadlock_timeout`: it is assumed, not checked; none of
starting transactions, nor of losing connections. `groupchat_fair`: weak fairness
of ticks (a crontab line per minute) and of lease expiry (time passes), strong
fairness of a worker's own steps (a running call goes on whenever it can; the
budget may end it between turns but not for ever before the first), and from
some time on no crash. Nothing is assumed about cancellations or the requests.
`lease_failover`: calls go on, somebody keeps revalidating (browsers and a timer
do), leases lapse. Its premise, in the property, is that instances,
assignments and statements are eventually stable and page loads do not keep
re-taking an expired lease for the first candidate; with them the lease may
stay on a dead first candidate for as long as they win that race, which no
source excludes. `finance_live`: weak fairness of a running call's steps, of ticks
(`tick/+server.ts` is called every minute, `system-automations.ts` 36), and of
heartbeats going stale (time passes); from some time on no worker dies or is
taken for dead. Nothing is assumed about which of its steps a call takes, about
cancellations or about the provider. `brain_corpus`: strong fairness of each
running call's steps, weak fairness of the ticks, of the daily reconcile
(`vercel.json` 4) and of lapsing leases, and of rows being recycled. Nothing is
assumed about the requests that insert messages: they may end anywhere, which is
why it takes the reconcile for the corpus to converge. Failures and crashes are
finitely many, by `MaxEvents`.

**Mutants.** Every property of a passing run has a mutated definition, in the
module beside the original, that a plausible edit of the code would give and
under which TLC finds the property violated: the missing `for update`
(`ReadBin`), a reversal of half the movement (`ReversalsOfIssues`), the
missing negative guard, a cascading delete, a missing entry lock, a bin
written outside its transaction, which waits for its own lock, a claim without its precondition, progress that
drops the lease, a finish that ignores `result.done`, off-by-one turn caps, a
lost acquire that keeps its own candidate, a lease row that outlives its gateway;
an enqueue without the unique index, a claim that ignores stale heartbeats, a
watermark without its overlap or set to the end of the sync, a heartbeat before
the page is stored, a failed sync put back in the queue; a draft that is stamped,
a retry that does not look at the stamp, a void that leaves the issue alone or
ignores the shift, a duplicate guard that does not see drafts, an accrual that
does not look for settled rows, a refused issue that realizes all the same, a
realize that stamps rows no longer open; a dirty list that ends one too late, a merge
without its compare-and-set, an upsert that keeps the old embedding, a comparison
that does not look whether there is one.

## 4. Findings

1. `lockBins` locks rows that exist. The first movements into a bin both read
   an empty bin and the later upsert wins; `stock.service.ts` 641 says every
   touched bin is locked. The model's remedy is `Seeded = Bin`, a row for each
   bin before its first posting.
2. A group-chat model call may take 120 s under a lease of 60 s. Two workers
   take the same turn; the next agent is skipped.
3. A nightly finance run whose watermark is older than its window pulls only the
   window and then moves the watermark to the time it began
   (`finance-sync.service.ts` 131). The skipped range lies before the new
   watermark, and the manual sync that the warning at line 92 asks for starts
   there: it is never fetched.

Also seen. No property of a run states these: most are promised nowhere, or too
vaguely to check. The models contain every one of them but the stale health.

* `rebuildBins` reads the ledger before it locks anything, so a posting that commits
  in between is missing from the rebuilt bins. `StockLedger_rebuild_beside.cfg`
  (`MCStockLedger`) is `stock_seeded` without the window; there TLC finds
  `BinsMatchLedger` violated in 16 states. The remedy in the model is `Maintenance`.
* A sale reads the open shift without locking it, and `closeShift` sums up and
  closes in two statements: a sale or void that straddles it is counted in neither
  or both, against the rule of `docs/superpowers/specs/2026-07-07-pos-module-design.md`
  38. `SourcedStock_shift_race.cfg` (`MCSourcedStock`) shows it: `ExpectedIsStanding`
  is violated in 5 states.
* A dirty conversation's key is normalized, and compared with channel and account
  as the gateway wrote them (`brain-corpus.service.ts` 1009). Rows stored with other
  case or blanks are not found, the job ends done, and the change waits for the
  daily scan (`Raw`).
* A resolve that takes the lease for another gateway returns the health of the lease
  it had read, and the upsert keeps `last_healthy_at` (`gateway-lease.service.ts`
  184, 247): an instance that was never probed is shown healthy.
* A revalidation that loses the acquire race to a page load answers with the page
  load's choice and its own verdict: healthy, for an instance it never probed, or
  probed dead (`gateway-lease.service.ts` 316).
* A finance worker slower than `STALE_MS` that stores its page after its successor
  has finished, and a later job has moved the watermark, leaves an older version
  behind (`slow = "late"`). Two workers on *one* job are harmless, because a
  takeover keeps `startedAt`.
* The comment at `daily/+server.ts` 102 says the window is encoded in the saved
  cursor; a nightly worker that dies before it saved one is resumed by an ordinary
  tick without it.
* Two requests that post the same ticket, or complete the same booking, at once
  can each make an issue: the duplicate guard is a read (`stock.service.ts` 1490).
  A late poster's refusal may also erase the stamp of the one that succeeded
  (`pos.service.ts` 735).
* After a crash between submit and stamp, or when the stock page submits a draft
  that was short of stock, the ticket has an issue it is not stamped with, and a
  void leaves that stock issued.
* A void that dies between the cancellation and the mark leaves a ticket that
  stands, without its stock, for good.
* `realizeAccruals` without open rows and without lines from the dialog issues
  nothing, although `RealizeInput.finProductId` is described as a fallback.
* Two workers that sync one conversation at once (a dirty job beside a reconcile, or
  a lost lease) may leave the older text in the corpus, or one of them fails on the
  foreign key of the chunks; no job remembers it, and only the next reconcile
  repairs it. Until then retrieval may miss the newest messages.
* A group-chat run cancelled during its last turn ends as done (or done as
  cancelled); a failed model call leaves its run "running"; a request that dies
  between creating a run and enqueueing its job leaves it queued.

## 5. The proofs

TLC checks the instances above; the theorems hold for every finite set of
sessions, every set of entries, bins and documents and every `MaxRows`, and for
every finite set of workers and number of agents and rounds, of jobs and
documents, for every set of requests, tickets, bookings and items, and for every finite set
of conversations with any texts, and every finite set of gateways. They assume only
the `ASSUME`s of the modules, which TLC evaluates in every run. Those of `FinanceSync`
also say that null (`None`) is not a job, a document, a time or a cursor, as in SQL.

* `TypeCorrect`, `Documented`, `TransitionsWriteRows` (`StockLedgerProofs`).
  `TypeOK` is not inductive: that a posting finds the contents of its document
  depends on which statuses go with which contents (`DocInv`), and that nobody
  else submits or deletes it meanwhile on the entry lock
  (`OneSessionPerEntry`). `TypeInv` is their conjunction; `NextInv` has one case
  per action. `Documented` is a part of it, and `TransitionsWriteRows` follows
  from it by looking at the only two actions that write the ledger.
* `StockNeverNegative`. The guard compares with the quantity a session read, so
  the invariant (`StockInv`) adds that what every session has read, and the
  rows it has buffered, are not negative. It needs no agreement between copies
  and bins, and therefore holds in spite of finding 1 and of a rebuild beside postings.
* `BinsAgree`, `LedgerAddsUp` (`StockLedgerProofs`), under `Seeded = Bin`
  and `Maintenance`. No code enforces either: nothing makes a row before a
  bin's first posting, and nothing keeps postings away from a rebuild. The
  theorems say what the locks achieve where both are seen to, finding 1 and
  the rebuild of section 4 what happens where they are not. `AgreeInv` says: the committed rows of each bin are
  *chained* (each continues the one before) and end at the bin's quantity; and
  for every session, the committed rows *together with its own buffer* are
  chained in each bin it has read and end at the quantity it has in memory. The
  second part survives other sessions' commits because they hold the locks of
  the bins they write (`OneHolder`) and is what makes a commit preserve the
  first. `ChainedExtends` is the lemma about one more row.
* `Implements`, `BinsAreSums` (`StockRefinementProofs`), under the same two
  conditions: the refinement of `StockBook`, step by step. `Net`, what an entry has
  moved, is a fold over a set. The library's induction theorems cannot be
  instantiated here, so the facts about sums (`TotRemove`, `TotUnion`) are proved
  by smallest counterexamples (`SmallestPart`, `LeastNumber`): the fold exists, is
  unique, and may take its rows out in any order. `ChainedSum` then turns `AgreeInv`
  around: chained rows are finitely many and the last one shows their sum, so a
  bin *is* the sum of its ledger rows. A commit adds rows of one entry, and each
  bin and that entry's movement grow by the same sum (`CommitMoves`). What that
  leaves is `BookInv`: a submission leaves rows (else an entry that was submitted
  could be deleted, and be open again), and the rows a cancellation has buffered
  bring its entry's movement in each bin down to the rows whose reversal is still
  among its moves (`Complete`), hence to nothing at the commit (`CancelUndoes`).
  Every step but a commit leaves the book as it is. `SourcedStock`, which is
  written over `StockBook`, stands on this theorem and thus on the two conditions.
* `TypesHold`, `EndedForGood` (`GroupChatProofs`). `TypeOK` needs that a call
  which is not parked has a job and that only a running handler has read
  anything (`Placed`).
* `CapHolds`, `ClosedWhenComplete`. `TurnsBounded` does not say how many turns are
  on their way: `CapInv` counts the workers that have read less than the cap
  (`Pending`) with the turns posted, and a worker that reads the cap's last
  missing turn brings the sum to at most cap - 1 + workers. `CountInv`, that
  nobody has read more turns than there are, puts the orchestrator last.
  `StepKinds` sorts the steps by what they do to messages and reads: all but
  three leave both as they are.
* `InOrder`. `TurnsInOrder` is about runs in which no lease ran out on a call at
  work. `OneJob` and `Alone`: the request enqueues one job, one call has it, and
  nobody can claim it (`RowKinds` sorts the steps by what they do to the rows).
  Then nobody posts between a handler's read and its post, so what it has read
  is what there is (`Ordered`), and the next message is the next agent's.

* `SyncTypes`, `EndedStays`, `PullsOneAtATime` (`FinanceSyncProofs`). `TypeInv`
  adds to `TypeOK` what each call is sure of at each step (a call about to store
  has a page, one about to write the watermark has read it and its job has
  started). `EndedStays` looks at who writes a status: a claim takes only active
  jobs, everything else writes an ending. `PullInv`, for `OneWorkerPerSource`: at most one job is active;
  jobs that are worked on were claimed; and while nobody was taken for dead, no
  two workers have one job, a worker's job has ended or is fresh, and who pulls
  has a running job. The claim is no lock; these together are.
* `CursorsCover`, `NothingBehind`, `BackfillsUnlessWindowed`
  (`FinanceSyncProofs`). None of the properties is inductive: they speak of the
  saved cursor and the watermark, and it is the calls that carry both. `CoverInv`
  says the same of everything that may become one: of the cursors and the page a
  call holds (all that lies before them is stored, but for the page itself and for
  documents that changed since the job was started, `CallCovers`) and of the
  watermark it has read and may put back (`SeenSafe`). Only changes before the
  job's start count, so an old page that a worker taken for dead stores over a newer
  one does no harm while its job is active. `TimeInv` orders the rest: jobs are
  started one after the other, none before a watermark that was written or seen, so
  a later job's watermark asks for all that the earlier ones may have
  missed; with `PullInv` (one active job) a write by a late worker is of that job
  or of an earlier one. Nothing is said once a page was stored after its job
  had ended (`slow = "late"`), nor of the watermark when runs are clamped to a
  window; the third theorem says that the window is all that stands between the
  code and what finding 3 quotes.
* `SourcedTypes`, `StampsAreOwn`, `AccrualsAreIssued`, `SettledForGood`
  (`SourcedStockProofs`), for any number of requests on any source. `Inv` says
  that an id reserved and not yet inserted is unused (`Fresh`) and nobody else's
  (`Apart`), hence that an entry's source and lines never change once set
  (`Forward`); that a request about to submit holds an entry of its own source,
  and one about to stamp, cancel or realize holds one that was issued. What has
  been stamped or realized then stays true, since an issue only goes from posted
  to reversed.
* `OneIssue`, `StampsStay`, `VoidsTakeBack`, `NotResurrected`, `ShiftsAddUp`
  (`SourcedAloneProofs`), for sources on which one request at a time works.
  `AloneInv` says that what such a request has read is still so: no issue while it
  resolves and inserts, the stamp it read, nothing settled before it accrues
  (`TillKnows`, `DeskKnows`). Every step makes an issue for one source at most,
  and for one that had none (`MakesOne`); all others shrink the sets of issues
  (`IssuesShrink`). `VoidTakesBack` needs that nobody stamps a void ticket and
  that a reversed issue stays so. `ShiftInv`: while nothing straddled, a
  request that counts excludes sales, voids and other counts, and has counted what
  stands; when the shift is closed nobody is at work on such.
* `CorpusTypes`, `EmbeddingsOfText`, `ChangesKept` (`BrainCorpusProofs`). `TypeInv`
  adds that a cursor is of its job's kind and that the snapshot of a dirty job is
  of the first conversation it has left. `EmbeddingsFit` is then inductive: the upsert keeps
  a stored vector for the same content only. `NoChangeForgotten` is not, for a
  worker with an old snapshot may be about to drop a conversation from the list.
  `Secure` says, of each conversation not in `excused` nor in `Raw`, that one worker at most holds a snapshot and that
  it says what is stored (`Snapshots`), and that the conversation is on its way
  into a job, or in the list of an active dirty job none of whose workers has
  *passed* it (dropped it, or holds a stale text of it), or current with no stale
  snapshot about (`Accounted`). `FreshPersist` is the lemma that writing an exact and
  fresh snapshot makes the document agree, chunk by chunk.
* `LeaseTypes`, `AnswersHeld` (`GatewayLeaseProofs`), for any gateways and requests.
  `AnswerInv` says that what a call goes on with are candidates it has read
  (`Fits`), and that a calm call has seen the holder it found, and, once its upsert
  was refused, whoever has had the lease since (`Knows`): the lease's gateway changes only by
  being taken, which every call under way witnesses, or by a deletion, which
  disturbs them all.

Every invariant and every action property that a passing run checks, and the
refinement, is now a theorem. Not proved: liveness (`EveryTransactionEnds`,
`JobsEnd`, `FailoverCompletes`, `SyncsEnd`, `CorpusConverges`), which is out of the
prover's reach and stays with TLC, as do the three properties that are violated.

## 6. The plan

Done: the stock ledger and its refinement; the job runtime and group chat; the
gateway lease; the finance sync; issues for tickets and bookings; the brain corpus; their theorems.
Next, in this order; each row is a module or two, its runs and its theorems.

1. `BrainIngest` on `BgJobs`: concurrent ingests of one document, a crash
   before the job is enqueued. Promise: a ready document has its chunks once.
2. `Bookings` with reminders and replies: slots, double booking, status writes.
3. `Notifications`: claim, send, watermark; at most once against never.
4. `Memberships`, `ChannelPairing`, `Recipes`: small modules.
5. `StockValuation`: moving-average arithmetic with its rounding, as operators
   checked against a reference.

## 7. Not modelled

Most of the repository is Svelte pages, browser-side stores, queries that
aggregate for a page, and CRUD whose statements stand alone: no interleaving,
crash or timeout can make them wrong in a way a state machine would show. Also
outside: calls to external services whose state is theirs (fleet updates, vector
search, model gateways beyond their failure), parsing of statements, generated
database types, migrations and packaging. Access control is not this project's
subject. `PROJECT.json` gives the reason for each component, and the hazards
that no property covers yet, each with the module planned for it.
