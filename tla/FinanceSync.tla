---------------------------- MODULE FinanceSync ----------------------------
(***************************************************************************)
(* The finance sync of src/server/services/finance-sync*.service.ts: the   *)
(* jobs of one organisation and provider, whose workers pull the provider's *)
(* documents page by page and store them.  A job remembers the next page   *)
(* (cursor); the source remembers a time (watermark) before which nothing  *)
(* need be pulled again.  Every database call is a step; a worker may die,  *)
(* or be taken for dead, between any two.                                  *)
(*                                                                         *)
(* The provider is outside: it lists, in a fixed order, the documents      *)
(* changed after a given time, one to a page, and a cursor carries that    *)
(* time with it (a `next` URL of susii-client.ts).                         *)
(***************************************************************************)
EXTENDS Integers, FiniteSets

CONSTANTS
  Worker,    \* calls of advanceJob
  NJobs,     \* bound: jobs that are ever enqueued
  NDocs,     \* documents at the provider
  MaxTime,   \* bound: the last moment of the clock
  Overlap,   \* overlapMs
  Window,    \* recentWindowMs of the nightly run
  Windowed,  \* whether calls of advanceJob are windowed: a set of BOOLEANs
  Slow,      \* bound: TRUE if, once, a page may take longer than a heartbeat stays fresh
  MaxChanges,\* bound: documents the provider changes after the start
  First,     \* the watermark at start: Never, or a time
  None       \* SQL null

Job == 1 .. NJobs
Doc == 1 .. NDocs
Time == 0 .. MaxTime
Never == -1   \* an empty watermark: everything changed after it

ASSUME SyncWorkers == IsFiniteSet(Worker) /\ None \notin Job \cup Doc \cup Time
ASSUME SyncBounds == /\ NJobs \in Nat /\ NDocs \in Nat /\ MaxTime \in Nat
                     /\ Overlap \in Nat \ {0} /\ Window \in Nat
                     /\ First \in {Never, 0} /\ MaxChanges \in Nat
                     /\ Windowed \subseteq BOOLEAN /\ Slow \in BOOLEAN

VARIABLES
  clock,      \* the time
  changed,    \* when the provider last changed each document
  stored,     \* the version (its time of change) in fin_invoices, or Never
  watermark,  \* fin_sources.watermark
  job,        \* fin_sync_jobs
  worker,     \* what each call of advanceJob knows
  slow        \* history: how slow a worker has been

vars == <<clock, changed, stored, watermark, job, worker, slow>>
provider == <<clock, changed>>

Active == {"queued", "running"}
Ended == {"succeeded", "failed", "cancelled"}

(* No worker that was alive was ever taken for dead; one was; one stored a *)
(* page when the worker that took its job over had already ended it.       *)
Slowness == {"none", "overrun", "late"}

(* The next page: documents from number `from` on that changed after since. *)
Cursor == [since : Int, from : Nat]

ASSUME NullCursor == None \notin Cursor

JobRow == [status : Active \cup Ended \cup {"absent"}, cancel : BOOLEAN,
           started : Time \cup {None}, cursor : Cursor \cup {None},
           fresh : BOOLEAN]

NoJob == [status |-> "absent", cancel |-> FALSE, started |-> None,
          cursor |-> None, fresh |-> FALSE]

(* A page that was pulled: its document as it was then, and what follows.  *)
Page == [doc : Doc \cup {None}, at : Time, next : Cursor \cup {None}]
NoPage == [doc |-> None, at |-> 0, next |-> None]

(* pc: the call about to be made.  cursor: the page to pull; first: the one *)
(* to begin with, once the source is read; seen: the watermark read; page:  *)
(* what was pulled; ending: the status the job is about to be given.       *)
Call == [pc : {"idle", "job", "source", "total", "pull", "check", "store",
               "beat", "mark", "finish", "done"},
         job : Job \cup {None}, window : BOOLEAN,
         cursor : Cursor \cup {None}, first : Cursor \cup {None},
         seen : Time \cup {Never}, page : Page, ending : Ended \cup {None}]

Idle == [pc |-> "idle", job |-> None, window |-> FALSE, cursor |-> None,
         first |-> None, seen |-> Never, page |-> NoPage, ending |-> None]

At(w, pc) == worker[w].pc = pc

Row(w) == job[worker[w].job]

Go(w, pc) == worker' = [worker EXCEPT ![w].pc = pc]

(* The job is about to get its last status, after a write of the source   *)
(* (pc "mark") or without one ("finish").                                  *)
End(w, pc, status, seen) ==
  worker' = [worker EXCEPT ![w] =
               [Idle EXCEPT !.pc = pc, !.job = worker[w].job, !.seen = seen,
                            !.window = worker[w].window, !.ending = status]]

WorkedOn(j) == \E w \in Worker : worker[w].job = j
----------------------------------------------------------------------------
(* Jobs *)

(* Mutant of Claimable: a stale heartbeat is nobody's business. *)
ClaimableQueued(j) == job[j].status = "queued"

Claimable(j) ==
  job[j].status = "queued" \/ (job[j].status = "running" /\ ~job[j].fresh)

(* Mutant of EnqueueJob: neither the check nor the unique index. *)
EnqueueAnother(j) ==
  /\ job[j].status = "absent"
  /\ \A i \in Job : i < j => job[i].status # "absent"
  /\ job' = [job EXCEPT ![j].status = "queued"]
  /\ UNCHANGED <<provider, stored, watermark, worker, slow>>

(* One active job per source: the insert that loses the race against the   *)
(* partial unique index returns the winner's.                              *)
EnqueueJob(j) ==
  /\ job[j].status = "absent"
  /\ \A i \in Job : i < j => job[i].status # "absent"
  /\ \A i \in Job : job[i].status \notin Active
  /\ job' = [job EXCEPT ![j].status = "queued"]
  /\ UNCHANGED <<provider, stored, watermark, worker, slow>>

RequestCancel(j) ==
  /\ job[j].status \in Active
  /\ ~job[j].cancel
  /\ job' = [job EXCEPT ![j].cancel = TRUE]
  /\ UNCHANGED <<provider, stored, watermark, worker, slow>>

(* claimJob, at the head of advanceJob; the nightly run gives a window. *)
ClaimJob(w, j, window) ==
  /\ At(w, "idle")
  /\ Claimable(j)
  /\ job' = [job EXCEPT ![j].status = "running", ![j].fresh = TRUE,
                        ![j].started = IF @ = None THEN clock ELSE @]
  /\ worker' = [worker EXCEPT ![w] = [Idle EXCEPT !.pc = "job", !.job = j,
                                                  !.window = window]]
  /\ UNCHANGED <<provider, stored, watermark, slow>>
----------------------------------------------------------------------------
(* One call of advanceJob *)

ReadJob(w) ==
  /\ At(w, "job")
  /\ worker' = [worker EXCEPT ![w].pc = "source", ![w].cursor = Row(w).cursor]
  /\ UNCHANGED <<provider, stored, watermark, job, slow>>

(* Mutant of OverlapSince: the watermark is taken at its word. *)
SinceWatermark(mark) == mark

OverlapSince(mark) == IF mark = Never THEN Never ELSE mark - Overlap

(* The nightly run goes back no further than its window. *)
Since(mark, window) ==
  IF window /\ OverlapSince(mark) < clock - Window
    THEN clock - Window ELSE OverlapSince(mark)

FirstPage(since) == [since |-> since, from |-> 1]

ReadSource(w) ==
  /\ At(w, "source")
  /\ worker' = [worker EXCEPT
                  ![w].pc = "total", ![w].seen = watermark,
                  ![w].first = IF worker[w].cursor # None THEN worker[w].cursor
                               ELSE FirstPage(Since(watermark, worker[w].window))]
  /\ UNCHANGED <<provider, stored, watermark, job, slow>>

(* Disabled or unknown: the job fails.  Without credentials the source is  *)
(* written too.                                                            *)
SourceUnusable(w) ==
  /\ At(w, "source")
  /\ \E pc \in {"mark", "finish"} :
       End(w, pc, "failed", IF pc = "mark" THEN watermark ELSE Never)
  /\ UNCHANGED <<provider, stored, watermark, job, slow>>

(* heartbeat, by id *)
Heartbeat(w, cursor) ==
  job' = [job EXCEPT ![worker[w].job].cursor = cursor,
                     ![worker[w].job].fresh = TRUE]

StartPulling(w) ==
  worker' = [worker EXCEPT ![w].pc = "pull", ![w].first = None,
                           ![w].cursor = worker[w].first]

(* The baseline is counted and saved, with the cursor read before ...      *)
SeedTotal(w) ==
  /\ At(w, "total")
  /\ Heartbeat(w, worker[w].cursor)
  /\ StartPulling(w)
  /\ UNCHANGED <<provider, stored, watermark, slow>>

(* ... unless it is known, or cannot be counted.                           *)
SkipTotal(w) ==
  /\ At(w, "total")
  /\ StartPulling(w)
  /\ UNCHANGED <<provider, stored, watermark, job, slow>>

Listed(d, since) == changed[d] > since

Pages(c) == {d \in Doc : d >= c.from /\ Listed(d, c.since)}

(* The cursor after page d of c: there is none after the last page. *)
NextPage(c, d) ==
  IF \E e \in Pages(c) : e > d THEN [c EXCEPT !.from = d + 1] ELSE None

PullPage(w) ==
  LET c == worker[w].cursor
  IN /\ At(w, "pull")
     /\ \E p \in IF Pages(c) = {} THEN {NoPage}
                  ELSE {[doc |-> d, at |-> changed[d], next |-> NextPage(c, d)] :
                          d \in {e \in Pages(c) : \A f \in Pages(c) : e <= f}} :
          worker' = [worker EXCEPT ![w].pc = "check", ![w].page = p,
                                   ![w].cursor = None]
     /\ UNCHANGED <<provider, stored, watermark, job, slow>>

(* Mutant of CheckCancel: the heartbeat is sent before the page is stored. *)
CheckCancelBeat(w) ==
  /\ At(w, "check")
  /\ IF Row(w).cancel THEN End(w, "finish", "cancelled", worker[w].seen) ELSE Go(w, "store")
  /\ Heartbeat(w, worker[w].page.next)
  /\ UNCHANGED <<provider, stored, watermark, slow>>

CheckCancel(w) ==
  /\ At(w, "check")
  /\ IF Row(w).cancel THEN End(w, "finish", "cancelled", worker[w].seen) ELSE Go(w, "store")
  /\ UNCHANGED <<provider, stored, watermark, job, slow>>

(* upsertInvoicesBatch, one transaction for the page; nothing looks at the *)
(* job again.                                                              *)
StorePage(w) ==
  LET p == worker[w].page
  IN /\ At(w, "store")
     /\ stored' = [d \in Doc |-> IF d = p.doc THEN p.at ELSE stored[d]]
     /\ worker' = [worker EXCEPT ![w].pc = "beat",
                                 ![w].page = [NoPage EXCEPT !.next = p.next]]
     /\ slow' = IF Row(w).status \in Ended THEN "late" ELSE slow
     /\ UNCHANGED <<provider, watermark, job>>

(* The page is saved; the last one ends the sync, another is pulled next.  *)
Beat(w) ==
  LET next == worker[w].page.next
  IN /\ At(w, "beat")
     /\ Heartbeat(w, next)
     /\ IF next = None
          THEN End(w, "mark", "succeeded", worker[w].seen)
          ELSE worker' = [worker EXCEPT ![w].pc = "pull", ![w].cursor = next,
                                        ![w].page = NoPage]
     /\ UNCHANGED <<provider, stored, watermark, slow>>

(* The call's time is up after a page: a later tick goes on from there.    *)
BeatAndLeave(w) ==
  /\ At(w, "beat")
  /\ worker[w].page.next # None
  /\ Heartbeat(w, worker[w].page.next)
  /\ worker' = [worker EXCEPT ![w] = Idle]
  /\ UNCHANGED <<provider, stored, watermark, slow>>

(* Everything from the first page to the return lies in one try block: if  *)
(* the provider or the database fails, though it be after the job was      *)
(* finished, the watermark that was seen is put back and the job fails.    *)
InTry(w) ==
  \/ worker[w].pc \in {"pull", "check", "store", "beat", "done"}
  \/ worker[w].pc \in {"mark", "finish"} /\ worker[w].ending # "failed"

SyncFails(w) ==
  /\ InTry(w)
  /\ End(w, "mark", "failed", worker[w].seen)
  /\ UNCHANGED <<provider, stored, watermark, job, slow>>

(* Mutant of SetSourceSync: the watermark is the time the sync ended. *)
SetSourceSyncNow(w) ==
  /\ At(w, "mark")
  /\ watermark' = IF worker[w].ending = "succeeded" THEN clock
                  ELSE worker[w].seen
  /\ End(w, "finish", worker[w].ending, worker[w].seen)
  /\ UNCHANGED <<provider, stored, job, slow>>

(* The time the sync began (startedAt, which no later claim changes) or,   *)
(* if it failed, what was read then.                                       *)
SetSourceSync(w) ==
  /\ At(w, "mark")
  /\ watermark' = IF worker[w].ending = "succeeded" THEN Row(w).started
                  ELSE worker[w].seen
  /\ End(w, "finish", worker[w].ending, worker[w].seen)
  /\ UNCHANGED <<provider, stored, job, slow>>

(* What follows finishJob: a call that succeeded still has its caches to   *)
(* drop, any other returns.                                                *)
AfterFinish(w) ==
  IF worker[w].ending = "succeeded"
    THEN End(w, "done", worker[w].ending, worker[w].seen)
    ELSE worker' = [worker EXCEPT ![w] = Idle]

(* Mutant of FinishJob: a failed sync is put back in the queue. *)
FinishJobRequeue(w) ==
  /\ At(w, "finish")
  /\ job' = [job EXCEPT ![worker[w].job].fresh = TRUE,
                        ![worker[w].job].status =
                           IF worker[w].ending = "failed" THEN "queued"
                           ELSE worker[w].ending]
  /\ AfterFinish(w)
  /\ UNCHANGED <<provider, stored, watermark, slow>>

(* Mutant of FinishJob: the job is given the source's word for success. *)
FinishJobSuccess(w) ==
  /\ At(w, "finish")
  /\ job' = [job EXCEPT ![worker[w].job].fresh = TRUE,
                        ![worker[w].job].status =
                           IF worker[w].ending = "succeeded" THEN "success"
                           ELSE worker[w].ending]
  /\ AfterFinish(w)
  /\ UNCHANGED <<provider, stored, watermark, slow>>

(* finishJob, by id: over whatever another worker has written there. *)
FinishJob(w) ==
  /\ At(w, "finish")
  /\ job' = [job EXCEPT ![worker[w].job].fresh = TRUE,
                        ![worker[w].job].status = worker[w].ending]
  /\ AfterFinish(w)
  /\ UNCHANGED <<provider, stored, watermark, slow>>

(* bustFinanceCache, and the return. *)
Return(w) ==
  /\ At(w, "done")
  /\ worker' = [worker EXCEPT ![w] = Idle]
  /\ UNCHANGED <<provider, stored, watermark, job, slow>>
----------------------------------------------------------------------------
(* The world around it *)

(* The process ends or is frozen for good, or a call outside the try block *)
(* throws.                                                                 *)
WorkerDies(w) ==
  /\ ~At(w, "idle")
  /\ worker' = [worker EXCEPT ![w] = Idle]
  /\ UNCHANGED <<provider, stored, watermark, job, slow>>

(* Five minutes without a heartbeat. *)
HeartbeatStale(j) ==
  /\ job[j].status = "running"
  /\ job[j].fresh
  /\ WorkedOn(j) => Slow /\ slow = "none"
  /\ job' = [job EXCEPT ![j].fresh = FALSE]
  /\ slow' = IF WorkedOn(j) THEN "overrun" ELSE slow
  /\ UNCHANGED <<provider, stored, watermark, worker>>

ProviderChanges(d) ==
  /\ changed[d] < clock
  /\ changed[d] > 0 \/ Cardinality({e \in Doc : changed[e] > 0}) < MaxChanges
  /\ changed' = [changed EXCEPT ![d] = clock]
  /\ UNCHANGED <<clock, stored, watermark, job, worker, slow>>

TimePasses ==
  /\ clock < MaxTime
  /\ clock' = clock + 1
  /\ UNCHANGED <<changed, stored, watermark, job, worker, slow>>
----------------------------------------------------------------------------
(* At start, either nothing was ever pulled or everything has been. *)
Init ==
  /\ clock = 0
  /\ changed = [d \in Doc |-> 0]
  /\ stored = [d \in Doc |-> First]
  /\ watermark = First
  /\ job = [j \in Job |-> NoJob]
  /\ worker = [w \in Worker |-> Idle]
  /\ slow = "none"

Step(w) ==
  \/ ReadJob(w) \/ ReadSource(w) \/ SourceUnusable(w)
  \/ SeedTotal(w) \/ SkipTotal(w)
  \/ PullPage(w) \/ CheckCancel(w) \/ StorePage(w) \/ Beat(w)
  \/ BeatAndLeave(w) \/ SyncFails(w)
  \/ SetSourceSync(w) \/ FinishJob(w) \/ Return(w)

(* GET /api/finances/sync/tick, every minute; a manual sync (POST           *)
(* /api/finances/sync) advances its job the same way.                      *)
Tick == \E w \in Worker, j \in Job : ClaimJob(w, j, FALSE)

Next ==
  \/ \E j \in Job : EnqueueJob(j) \/ RequestCancel(j) \/ HeartbeatStale(j)
  \/ \E w \in Worker, j \in Job, window \in Windowed : ClaimJob(w, j, window)
  \/ \E w \in Worker : Step(w) \/ WorkerDies(w)
  \/ \E d \in Doc : ProviderChanges(d)
  \/ TimePasses

Spec == Init /\ [][Next]_vars

(* A running call goes on, ticks come every minute, heartbeats go stale;   *)
(* from some time on no worker dies or is taken for dead.                  *)
FairSpec ==
  /\ Spec
  /\ \A w \in Worker : WF_vars(Step(w))
  /\ WF_vars(Tick)
  /\ \A j \in Job : WF_vars(HeartbeatStale(j))
  /\ <>[][/\ \A w \in Worker : ~WorkerDies(w)
          /\ \A j \in Job : HeartbeatStale(j) => ~WorkedOn(j)]_vars
----------------------------------------------------------------------------
(* Properties *)

(* Types.  A stored version, a watermark and a job's start are times: no   *)
(* worker writes one before it has read it.                                *)
TypeOK ==
  /\ clock \in Time
  /\ changed \in [Doc -> Time]
  /\ stored \in [Doc -> Time \cup {Never}]
  /\ watermark \in Time \cup {Never}
  /\ job \in [Job -> JobRow]
  /\ worker \in [Worker -> Call]
  /\ slow \in Slowness

Pulling(w) ==
  worker[w].pc \in {"job", "source", "total", "pull", "check", "store", "beat"}

(* One worker at a time pulls from a source, as long as a heartbeat that is *)
(* five minutes old means a dead worker ("already actively running          *)
(* elsewhere").                                                            *)
OneWorkerPerSource ==
  slow = "none" =>
    \A v, w \in Worker : Pulling(v) /\ Pulling(w) => v = w

(* A resumed sync goes on where the last one stopped: what lies before the *)
(* cursor was stored, as it was when the sync began or later, even while a *)
(* worker that was taken for dead goes on beside its successor.            *)
CursorCovers ==
  slow # "late" =>
    \A j \in Job : job[j].status \in Active /\ job[j].cursor # None =>
      \A d \in Doc :
        /\ d < job[j].cursor.from
        /\ Listed(d, job[j].cursor.since)
        /\ changed[d] < job[j].started
        => stored[d] = changed[d]

(* What the next sync will not ask the provider for has been stored, in    *)
(* its latest version: through crashes, failures, cancellations, changes   *)
(* during a sync and two workers on one job, the watermark never runs      *)
(* ahead of the documents.  (Two workers are harmless because a takeover   *)
(* keeps startedAt; a page stored after its job has ended is not.)         *)
NothingLeftBehind ==
  slow # "late" /\ TRUE \notin Windowed =>
    \A d \in Doc : ~Listed(d, OverlapSince(watermark)) => stored[d] = changed[d]

(* "Run a manual sync to backfill it": when a sync without a window is     *)
(* through, everything changed before it began is stored.                  *)
ManualSyncBackfills ==
  slow = "none" =>
    \A w \in Worker :
      /\ At(w, "mark")
      /\ worker[w].ending = "succeeded"
      /\ ~worker[w].window
      => \A d \in Doc : changed[d] < Row(w).started => stored[d] = changed[d]

(* Whatever late workers write over it, a job that ended is not taken up   *)
(* again.                                                                  *)
JobsStayEnded ==
  [][\A j \in Job : job[j].status \in Ended => job'[j].status \in Ended]_vars

(* A job that was enqueued ends, through crashes and spent budgets. *)
SyncsEnd == \A j \in Job : job[j].status \in Active ~> job[j].status \in Ended
============================================================================
