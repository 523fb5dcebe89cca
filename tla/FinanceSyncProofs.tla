------------------------- MODULE FinanceSyncProofs -------------------------
(***************************************************************************)
(* What FinanceSync keeps for every number of workers, jobs, documents and *)
(* moments.                                                                *)
(***************************************************************************)
EXTENDS FinanceSync, TLAPS

USE DEF Active, Ended
----------------------------------------------------------------------------
(* Types *)

(* What a call c is sure of when the rows are those of `rows`: it has a     *)
(* job, which was started, unless it is idle; it has a page to pull when it *)
(* is about to pull one, and a status when it is about to write it.        *)
Sure(c, rows) ==
  /\ c.pc = "idle" <=> c.job = None
  /\ c.job # None => rows[c.job].started \in Time
  /\ c.pc = "total" => c.first \in Cursor
  /\ c.pc = "pull" => c.cursor \in Cursor
  /\ c.pc \in {"mark", "finish", "done"} => c.ending \in Ended

TypeInv == TypeOK /\ \A w \in Worker : Sure(worker[w], job)

PullingPcs == {"job", "source", "total", "pull", "check", "store", "beat"}

(* The states of a call that goes on with the job it has. *)
GoesOn(b, c) == c.job = b.job /\ (c.pc \in PullingPcs => b.pc \in PullingPcs)

(* A step of worker w leaves the call c ... *)
LeavesCall(w, c) ==
  /\ c \in Call
  /\ worker' = [worker EXCEPT ![w] = c]
  /\ Sure(c, job)
  /\ c = Idle \/ GoesOn(worker[w], c)

(* ... and its job's row as it was, but for the cursor and a heartbeat, or *)
(* ended.                                                                  *)
LeavesRow(w, c, r) ==
  /\ r \in JobRow
  /\ job' = [job EXCEPT ![worker[w].job] = r]
  /\ r.started = Row(w).started
  /\ \/ r.status = Row(w).status /\ (r.fresh = Row(w).fresh \/ r.fresh)
     \/ r.status \in Ended /\ c.pc \notin PullingPcs

LEMMA IdleCall == Idle \in Call /\ Idle.pc = "idle" /\ Idle.job = None
BY SyncBounds DEF Idle, Call, NoPage, Page, Never, Time

LEMMA IdleSure == ASSUME NEW rows PROVE Sure(Idle, rows)
BY IdleCall DEF Sure

(* A worker that is not idle has a job and a row. *)
LEMMA AtWork ==
  ASSUME TypeInv, NEW w \in Worker, worker[w].pc # "idle"
  PROVE  /\ worker[w] \in Call
         /\ worker[w].job \in Job /\ worker[w].job # None
         /\ Row(w) \in JobRow /\ Row(w).started \in Time
BY DEF TypeInv, TypeOK, Sure, Call, Row

(* A call that is about to write a status. *)
LEMMA EndsWell ==
  ASSUME TypeInv, NEW w \in Worker, worker[w].pc # "idle",
         NEW pc \in {"mark", "finish", "done"}, NEW status \in Ended,
         NEW seen \in Time \cup {Never}, End(w, pc, status, seen)
  PROVE  \E c \in Call : LeavesCall(w, c) /\ c.pc = pc
<1> DEFINE i == Idle
           c == [i EXCEPT !.pc = pc, !.job = worker[w].job, !.seen = seen,
                          !.window = worker[w].window, !.ending = status]
<1>1. worker[w].job \in Job /\ worker[w].window \in BOOLEAN
  BY AtWork DEF Call
<1>2. i \in Call
  BY IdleCall
<1>3. worker' = [worker EXCEPT ![w] = c]
  BY DEF End
<1> HIDE DEF i
<1>4. c \in Call
  <2> HIDE DEF Never, Time
  <2> QED  BY <1>1, <1>2 DEF Call
<1>5. c.pc = pc /\ c.job = worker[w].job /\ c.ending = status
  BY <1>2 DEF Call
<1> HIDE DEF c
<1>6. Sure(c, job)
  BY <1>5, AtWork DEF Sure, Row
<1>7. GoesOn(worker[w], c)
  BY <1>5 DEF GoesOn, PullingPcs
<1> QED  BY <1>3, <1>4, <1>5, <1>6, <1>7 DEF LeavesCall

(* A call that goes on. *)
LEMMA CallGoesOn ==
  ASSUME TypeInv, NEW w \in Worker, worker[w].pc # "idle",
         NEW c \in Call, worker' = [worker EXCEPT ![w] = c],
         c.job = worker[w].job, c.pc \in PullingPcs, worker[w].pc \in PullingPcs,
         c.pc = "total" => c.first \in Cursor, c.pc = "pull" => c.cursor \in Cursor
  PROVE  LeavesCall(w, c)
BY AtWork DEF LeavesCall, GoesOn, Sure, PullingPcs, Row

LEMMA CallGoes ==
  ASSUME TypeInv, NEW w \in Worker, worker[w].pc \in PullingPcs,
         NEW pc \in PullingPcs \ {"total", "pull"}, Go(w, pc)
  PROVE  \E c \in Call : LeavesCall(w, c)
<1> DEFINE b == worker[w]
           c == [b EXCEPT !.pc = pc]
<1>1. b \in Call /\ b.pc # "idle"
  BY AtWork DEF PullingPcs
<1>2. worker' = [worker EXCEPT ![w] = c]
  BY DEF Go
<1> HIDE DEF b
<1>3. c \in Call /\ c.pc = pc /\ c.job = b.job
  BY <1>1 DEF Call, PullingPcs
<1> QED
  <2> HIDE DEF c
  <2>1. c.pc \notin {"total", "pull"} /\ c.pc \in PullingPcs
    BY <1>3
  <2>2. c.job = worker[w].job /\ worker[w].pc # "idle"
    BY <1>1, <1>3 DEF b
  <2> QED  BY <1>2, <1>3, <2>1, <2>2, CallGoesOn

LEMMA CallEnds ==
  ASSUME TypeInv, NEW w \in Worker, worker[w].pc # "idle",
         worker' = [worker EXCEPT ![w] = Idle]
  PROVE  LeavesCall(w, Idle)
BY IdleCall, IdleSure DEF LeavesCall

LEMMA RowStays ==
  ASSUME TypeInv, NEW w \in Worker, worker[w].pc # "idle", NEW c, UNCHANGED job
  PROVE  LeavesRow(w, c, Row(w))
<1>1. Row(w) \in JobRow
  BY AtWork
<1>2. job' = [job EXCEPT ![worker[w].job] = Row(w)]
  BY DEF Row, TypeInv, TypeOK
<1> QED  BY <1>1, <1>2 DEF LeavesRow

LEMMA RowBeats ==
  ASSUME TypeInv, NEW w \in Worker, worker[w].pc # "idle", NEW c,
         NEW cursor \in Cursor \cup {None}, Heartbeat(w, cursor)
  PROVE  \E r \in JobRow : LeavesRow(w, c, r)
<1> DEFINE old == Row(w)
           r == [old EXCEPT !.cursor = cursor, !.fresh = TRUE]
<1>1. old \in JobRow
  BY AtWork
<1>2. job' = [job EXCEPT ![worker[w].job] = r]
  BY DEF Heartbeat, Row
<1> HIDE DEF old
<1>3. /\ r \in JobRow /\ r.started = old.started
      /\ r.status = old.status /\ r.fresh
  BY <1>1 DEF JobRow
<1> HIDE DEF r
<1>4. r.started = Row(w).started /\ r.status = Row(w).status
  BY <1>3 DEF old
<1> QED  BY <1>2, <1>3, <1>4 DEF LeavesRow
----------------------------------------------------------------------------
(* The steps of a worker *)

LEMMA ReadJobShape ==
  ASSUME TypeInv, NEW w \in Worker, ReadJob(w)
  PROVE  \E c \in Call : LeavesCall(w, c)
<1> DEFINE b == worker[w]
           c == [b EXCEPT !.pc = "source", !.cursor = Row(w).cursor]
<1>1. b \in Call /\ b.pc = "job" /\ Row(w).cursor \in Cursor \cup {None}
  BY AtWork DEF ReadJob, At, JobRow
<1>2. worker' = [worker EXCEPT ![w] = c]
  BY DEF ReadJob
<1> HIDE DEF b
<1>3. c \in Call /\ c.pc = "source" /\ c.job = b.job
  BY <1>1 DEF Call
<1> HIDE DEF c
<1>4. c.job = worker[w].job /\ worker[w].pc = "job"
  BY <1>1, <1>3 DEF b
<1> QED  BY <1>2, <1>3, <1>4, CallGoesOn DEF PullingPcs

LEMMA SinceInt ==
  ASSUME TypeInv, NEW window \in BOOLEAN
  PROVE  FirstPage(Since(watermark, window)) \in Cursor
<1>1. watermark \in Int /\ clock \in Int /\ Overlap \in Int /\ Window \in Int
  BY SyncBounds DEF TypeInv, TypeOK, Time, Never
<1>2. OverlapSince(watermark) \in Int
  BY <1>1 DEF OverlapSince, Never
<1>3. Since(watermark, window) \in Int
  BY <1>1, <1>2 DEF Since
<1> QED  BY <1>3 DEF FirstPage, Cursor

LEMMA ReadSourceShape ==
  ASSUME TypeInv, NEW w \in Worker, ReadSource(w)
  PROVE  \E c \in Call : LeavesCall(w, c)
<1> DEFINE b == worker[w]
           first == IF b.cursor # None THEN b.cursor
                    ELSE FirstPage(Since(watermark, b.window))
           c == [b EXCEPT !.pc = "total", !.seen = watermark, !.first = first]
<1>1. b \in Call /\ b.pc = "source"
  BY AtWork DEF ReadSource, At
<1>2. first \in Cursor
  <2>1. b.window \in BOOLEAN /\ b.cursor \in Cursor \cup {None}
    BY <1>1 DEF Call
  <2> QED  BY <2>1, SinceInt
<1>3. worker' = [worker EXCEPT ![w] = c]
  BY DEF ReadSource
<1>4. watermark \in Time \cup {Never}
  BY DEF TypeInv, TypeOK
<1> HIDE DEF first, b
<1>5. c \in Call /\ c.pc = "total" /\ c.job = b.job /\ c.first \in Cursor
  BY <1>1, <1>2, <1>4 DEF Call
<1> HIDE DEF c
<1>6. c.job = worker[w].job /\ worker[w].pc = "source"
  BY <1>1, <1>5 DEF b
<1> QED  BY <1>3, <1>5, <1>6, CallGoesOn DEF PullingPcs

LEMMA StartPullingShape ==
  ASSUME TypeInv, NEW w \in Worker, worker[w].pc = "total", StartPulling(w)
  PROVE  \E c \in Call : LeavesCall(w, c)
<1> DEFINE b == worker[w]
           c == [b EXCEPT !.pc = "pull", !.first = None, !.cursor = b.first]
<1>1. b \in Call /\ b.first \in Cursor
  BY AtWork DEF TypeInv, Sure
<1>2. worker' = [worker EXCEPT ![w] = c]
  BY DEF StartPulling
<1> HIDE DEF b
<1>3. c \in Call /\ c.pc = "pull" /\ c.job = b.job /\ c.cursor \in Cursor
  BY <1>1 DEF Call
<1> HIDE DEF c
<1>4. c.job = worker[w].job
  BY <1>3 DEF b
<1> QED  BY <1>2, <1>3, <1>4, CallGoesOn DEF PullingPcs

LEMMA SourceUnusableShape ==
  ASSUME TypeInv, NEW w \in Worker, SourceUnusable(w)
  PROVE  \E c \in Call : LeavesCall(w, c)
<1>1. PICK pc \in {"mark", "finish"} :
        End(w, pc, "failed", IF pc = "mark" THEN watermark ELSE Never)
  BY DEF SourceUnusable
<1>2. (IF pc = "mark" THEN watermark ELSE Never) \in Time \cup {Never}
  BY DEF TypeInv, TypeOK
<1>3. worker[w].pc # "idle"
  BY DEF SourceUnusable, At
<1> QED  BY <1>1, <1>2, <1>3, EndsWell

LEMMA PagesNext ==
  ASSUME NEW c \in Cursor, NEW d \in Doc
  PROVE  NextPage(c, d) \in Cursor \cup {None}
BY DEF NextPage, Cursor, Doc

LEMMA PullPageShape ==
  ASSUME TypeInv, NEW w \in Worker, PullPage(w)
  PROVE  \E c \in Call : LeavesCall(w, c)
<1> DEFINE b == worker[w]
<1>1. b \in Call /\ b.pc = "pull" /\ b.cursor \in Cursor
  BY AtWork DEF PullPage, At, TypeInv, Sure
<1>2. PICK p \in Page : worker' = [worker EXCEPT ![w].pc = "check", ![w].page = p,
                                                ![w].cursor = None]
  <2>1. NoPage \in Page
    BY SyncBounds DEF NoPage, Page, Time
  <2>2. ASSUME NEW d \in Pages(b.cursor)
        PROVE  [doc |-> d, at |-> changed[d], next |-> NextPage(b.cursor, d)] \in Page
    <3>1. d \in Doc /\ changed[d] \in Time
      BY DEF Pages, TypeInv, TypeOK
    <3> QED  BY <1>1, <3>1, PagesNext DEF Page
  <2>3. CASE Pages(b.cursor) = {}
    BY <2>1, <2>3 DEF PullPage
  <2>4. CASE Pages(b.cursor) # {}
    <3>1. PICK d \in Pages(b.cursor) :
            worker' = [worker EXCEPT ![w].pc = "check",
                         ![w].page = [doc |-> d, at |-> changed[d],
                                      next |-> NextPage(b.cursor, d)],
                         ![w].cursor = None]
      BY <2>4 DEF PullPage
    <3> QED  BY <2>2, <3>1
  <2> QED  BY <2>3, <2>4
<1> DEFINE c == [b EXCEPT !.pc = "check", !.page = p, !.cursor = None]
<1>3. worker' = [worker EXCEPT ![w] = c]
  BY <1>2
<1> HIDE DEF b
<1>4. c \in Call /\ c.pc = "check" /\ c.job = b.job
  BY <1>1 DEF Call
<1> HIDE DEF c
<1>5. c.job = worker[w].job /\ worker[w].pc = "pull"
  BY <1>1, <1>4 DEF b
<1> QED  BY <1>3, <1>4, <1>5, CallGoesOn DEF PullingPcs

LEMMA CheckCancelShape ==
  ASSUME TypeInv, NEW w \in Worker, CheckCancel(w)
  PROVE  \E c \in Call : LeavesCall(w, c)
<1>1. worker[w].pc = "check" /\ worker[w].seen \in Time \cup {Never}
  BY AtWork DEF CheckCancel, At, Call
<1>2. CASE Row(w).cancel
  BY <1>1, <1>2, EndsWell DEF CheckCancel
<1>3. CASE ~Row(w).cancel
  BY <1>1, <1>3, CallGoes DEF CheckCancel, PullingPcs
<1> QED  BY <1>2, <1>3

LEMMA StorePageShape ==
  ASSUME TypeInv, NEW w \in Worker, StorePage(w)
  PROVE  \E c \in Call : LeavesCall(w, c)
<1> DEFINE b == worker[w]
           page == [NoPage EXCEPT !.next = b.page.next]
           c == [b EXCEPT !.pc = "beat", !.page = page]
<1>1. b \in Call /\ b.pc = "store"
  BY AtWork DEF StorePage, At
<1>2. page \in Page
  <2>1. b.page.next \in Cursor \cup {None}
    BY <1>1 DEF Call, Page
  <2> HIDE DEF b
  <2> QED  BY <2>1, SyncBounds DEF NoPage, Page, Time
<1>3. worker' = [worker EXCEPT ![w] = c]
  BY DEF StorePage
<1> HIDE DEF b, page
<1>4. c \in Call /\ c.pc = "beat" /\ c.job = b.job
  BY <1>1, <1>2 DEF Call
<1> HIDE DEF c
<1>5. c.job = worker[w].job /\ worker[w].pc = "store"
  BY <1>1, <1>4 DEF b
<1> QED  BY <1>3, <1>4, <1>5, CallGoesOn DEF PullingPcs

LEMMA BeatShape ==
  ASSUME TypeInv, NEW w \in Worker, Beat(w) \/ BeatAndLeave(w)
  PROVE  \E c, r : LeavesCall(w, c) /\ LeavesRow(w, c, r)
<1> DEFINE b == worker[w]
           next == b.page.next
           c == [b EXCEPT !.pc = "pull", !.cursor = next, !.page = NoPage]
<1>1. b \in Call /\ b.pc = "beat" /\ next \in Cursor \cup {None}
      /\ b.seen \in Time \cup {Never}
  BY AtWork DEF Beat, BeatAndLeave, At, Call, Page
<1>2. \A d : \E r : LeavesRow(w, d, r)
  <2>1. Heartbeat(w, next)
    BY DEF Beat, BeatAndLeave
  <2> QED  BY <1>1, <2>1, RowBeats
<1>3. \E d : LeavesCall(w, d)
  <2>1. CASE Beat(w) /\ next = None
    BY <1>1, <2>1, EndsWell DEF Beat
  <2>2. CASE Beat(w) /\ next # None
    <3>1. worker' = [worker EXCEPT ![w] = c]
      BY <2>2 DEF Beat
    <3>2. next \in Cursor /\ NoPage \in Page
      BY <1>1, <2>2, SyncBounds DEF NoPage, Page, Time
    <3> HIDE DEF b, next
    <3>3. c \in Call /\ c.pc = "pull" /\ c.job = b.job /\ c.cursor \in Cursor
      BY <1>1, <3>2 DEF Call
    <3> HIDE DEF c
    <3>4. c.job = worker[w].job /\ worker[w].pc = "beat"
      BY <1>1, <3>3 DEF b
    <3> QED  BY <3>1, <3>3, <3>4, CallGoesOn DEF PullingPcs
  <2>3. CASE BeatAndLeave(w)
    BY <1>1, <2>3, CallEnds DEF BeatAndLeave
  <2> QED  BY <2>1, <2>2, <2>3
<1> QED  BY <1>2, <1>3

LEMMA SyncFailsShape ==
  ASSUME TypeInv, NEW w \in Worker, SyncFails(w)
  PROVE  \E c \in Call : LeavesCall(w, c)
<1>1. worker[w].pc # "idle"
  BY DEF SyncFails, InTry
<1>2. worker[w].seen \in Time \cup {Never}
  BY <1>1, AtWork DEF Call
<1> QED  BY <1>1, <1>2, EndsWell DEF SyncFails

LEMMA SetSourceSyncShape ==
  ASSUME TypeInv, NEW w \in Worker, SetSourceSync(w)
  PROVE  /\ \E c \in Call : LeavesCall(w, c)
         /\ watermark' \in Time \cup {Never}
<1>1. worker[w].pc = "mark" /\ worker[w].ending \in Ended
  BY DEF SetSourceSync, At, TypeInv, Sure
<1>2. worker[w].seen \in Time \cup {Never} /\ Row(w).started \in Time
  BY <1>1, AtWork DEF Call
<1> QED  BY <1>1, <1>2, EndsWell DEF SetSourceSync

LEMMA FinishJobShape ==
  ASSUME TypeInv, NEW w \in Worker, FinishJob(w)
  PROVE  \E c, r : LeavesCall(w, c) /\ LeavesRow(w, c, r)
<1> DEFINE old == Row(w)
           ending == worker[w].ending
           r == [old EXCEPT !.fresh = TRUE, !.status = ending]
<1>1. worker[w].pc = "finish" /\ ending \in Ended
  BY DEF FinishJob, At, TypeInv, Sure
<1>2. old \in JobRow /\ worker[w].seen \in Time \cup {Never}
  BY <1>1, AtWork DEF Call
<1>3. job' = [job EXCEPT ![worker[w].job] = r]
  BY DEF FinishJob, Row
<1>4. \E c : LeavesCall(w, c) /\ c.pc \notin PullingPcs
  <2>1. CASE ending = "succeeded"
    BY <1>1, <1>2, <2>1, EndsWell DEF FinishJob, AfterFinish, PullingPcs
  <2>2. CASE ending # "succeeded"
    BY <1>1, <2>2, CallEnds, IdleCall DEF FinishJob, AfterFinish, PullingPcs
  <2> QED  BY <2>1, <2>2
<1> HIDE DEF old, ending
<1>5. /\ r \in JobRow /\ r.started = old.started
      /\ r.status \in Ended
  BY <1>1, <1>2 DEF JobRow
<1> HIDE DEF r
<1>6. r.started = Row(w).started
  BY <1>5 DEF old
<1> QED  BY <1>3, <1>4, <1>5, <1>6 DEF LeavesRow

(* What a step of a worker, or its death, may do. *)
LEMMA StepShape ==
  ASSUME TypeInv, NEW w \in Worker, Step(w) \/ WorkerDies(w)
  PROVE  /\ worker[w].pc # "idle"
         /\ \E c, r : LeavesCall(w, c) /\ LeavesRow(w, c, r)
<1>1. worker[w].pc # "idle"
  BY DEF Step, WorkerDies, At, InTry, ReadJob, ReadSource, SourceUnusable, SeedTotal,
         SkipTotal, PullPage, CheckCancel, StorePage, Beat, BeatAndLeave, SyncFails,
         SetSourceSync, FinishJob, Return
<1> DEFINE Called == \E c \in Call : LeavesCall(w, c)
           Shaped == \E c, r : LeavesCall(w, c) /\ LeavesRow(w, c, r)
<1>2. job' = job /\ Called => Shaped
  BY <1>1, RowStays
<1> SUFFICES Shaped
  BY <1>1
<1> HIDE DEF Called, Shaped
<1>3. CASE ReadJob(w)
  <2>1. Called
    BY <1>3, ReadJobShape DEF Called
  <2>2. job' = job
    BY <1>3 DEF ReadJob
  <2> QED  BY <1>2, <2>1, <2>2
<1>4. CASE ReadSource(w)
  <2>1. Called
    BY <1>4, ReadSourceShape DEF Called
  <2>2. job' = job
    BY <1>4 DEF ReadSource
  <2> QED  BY <1>2, <2>1, <2>2
<1>5. CASE SourceUnusable(w)
  <2>1. Called
    BY <1>5, SourceUnusableShape DEF Called
  <2>2. job' = job
    BY <1>5 DEF SourceUnusable
  <2> QED  BY <1>2, <2>1, <2>2
<1>6. CASE SeedTotal(w)
  <2>1. worker[w].pc = "total" /\ worker[w].cursor \in Cursor \cup {None}
    BY <1>6, AtWork DEF SeedTotal, At, Call
  <2>2. \A c : \E r : LeavesRow(w, c, r)
    BY <1>6, <2>1, RowBeats DEF SeedTotal
  <2>3. \E c \in Call : LeavesCall(w, c)
    BY <1>6, <2>1, StartPullingShape DEF SeedTotal
  <2> QED  BY <2>2, <2>3 DEF Shaped
<1>7. CASE SkipTotal(w)
  <2>1. Called
    BY <1>7, StartPullingShape DEF SkipTotal, At, Called
  <2>2. job' = job
    BY <1>7 DEF SkipTotal
  <2> QED  BY <1>2, <2>1, <2>2
<1>8. CASE PullPage(w)
  <2>1. Called
    BY <1>8, PullPageShape DEF Called
  <2>2. job' = job
    BY <1>8 DEF PullPage
  <2> QED  BY <1>2, <2>1, <2>2
<1>9. CASE CheckCancel(w)
  <2>1. Called
    BY <1>9, CheckCancelShape DEF Called
  <2>2. job' = job
    BY <1>9 DEF CheckCancel
  <2> QED  BY <1>2, <2>1, <2>2
<1>10. CASE StorePage(w)
  <2>1. Called
    BY <1>10, StorePageShape DEF Called
  <2>2. job' = job
    BY <1>10 DEF StorePage
  <2> QED  BY <1>2, <2>1, <2>2
<1>11. CASE SyncFails(w)
  <2>1. Called
    BY <1>11, SyncFailsShape DEF Called
  <2>2. job' = job
    BY <1>11 DEF SyncFails
  <2> QED  BY <1>2, <2>1, <2>2
<1>12. CASE SetSourceSync(w)
  <2>1. Called
    BY <1>12, SetSourceSyncShape DEF Called
  <2>2. job' = job
    BY <1>12 DEF SetSourceSync
  <2> QED  BY <1>2, <2>1, <2>2
<1>13. CASE Return(w)
  <2>1. Called
    BY <1>1, <1>13, CallEnds, IdleCall DEF Return, Called
  <2>2. job' = job
    BY <1>13 DEF Return
  <2> QED  BY <1>2, <2>1, <2>2
<1>14. CASE WorkerDies(w)
  <2>1. Called
    BY <1>1, <1>14, CallEnds, IdleCall DEF WorkerDies, Called
  <2>2. job' = job
    BY <1>14 DEF WorkerDies
  <2> QED  BY <1>2, <2>1, <2>2
<1>15. CASE Beat(w) \/ BeatAndLeave(w)
  BY <1>15, BeatShape DEF Shaped
<1>16. CASE FinishJob(w)
  BY <1>16, FinishJobShape DEF Shaped
<1> QED
  BY <1>1, <1>3, <1>4, <1>5, <1>6, <1>7, <1>8, <1>9, <1>10, <1>11, <1>12, <1>13, <1>14,
     <1>15, <1>16 DEF Step
----------------------------------------------------------------------------
(* The types are kept *)

(* A row that was started stays so. *)
StartsKept == \A j \in Job : job[j].started \in Time => job'[j].started \in Time

LEMMA SureKept ==
  ASSUME NEW c \in Call, Sure(c, job), StartsKept
  PROVE  Sure(c, job')
BY DEF Sure, StartsKept, Call

LEMMA SureAllKept ==
  ASSUME TypeInv, StartsKept, worker' = worker
  PROVE  \A w \in Worker : Sure(worker'[w], job')
BY SureKept DEF TypeInv, TypeOK

LEMMA TypeInit ==
  ASSUME Init
  PROVE  TypeInv
<1>1. /\ 0 \in Time /\ None \notin Job
      /\ First \in Time \cup {Never}
  BY SyncBounds, SyncWorkers DEF Time
<1>2. NoJob \in JobRow
  BY DEF NoJob, JobRow
<1>3. TypeOK
  BY <1>1, <1>2, IdleCall DEF Init, TypeOK, Slowness
<1>4. \A w \in Worker : Sure(worker[w], job)
  BY IdleSure DEF Init
<1> QED  BY <1>3, <1>4 DEF TypeInv

(* A row changed without its start being touched. *)
LEMMA TypeRow ==
  ASSUME TypeInv, NEW j \in Job, NEW r \in JobRow, r.started = job[j].started,
         job' = [job EXCEPT ![j] = r], UNCHANGED <<provider, stored, watermark, worker>>,
         slow' \in Slowness
  PROVE  TypeInv'
<1>1. job' \in [Job -> JobRow]
  BY DEF TypeInv, TypeOK
<1>2. StartsKept
  BY DEF StartsKept, TypeInv, TypeOK
<1>3. TypeOK'
  BY <1>1 DEF TypeInv, TypeOK, provider
<1> QED  BY <1>2, <1>3, SureAllKept DEF TypeInv

LEMMA TypeEnvironment ==
  ASSUME TypeInv, NEW j \in Job, EnqueueJob(j) \/ RequestCancel(j) \/ HeartbeatStale(j)
  PROVE  TypeInv'
<1> DEFINE old == job[j]
<1>1. old \in JobRow
  BY DEF TypeInv, TypeOK
<1>2. slow \in Slowness /\ "overrun" \in Slowness
  BY DEF TypeInv, TypeOK, Slowness
<1>3. CASE EnqueueJob(j)
  <2> DEFINE r == [old EXCEPT !.status = "queued"]
  <2>1. job' = [job EXCEPT ![j] = r] /\ slow' = slow
    BY <1>3 DEF EnqueueJob
  <2>2. r \in JobRow /\ r.started = old.started
    BY <1>1 DEF JobRow
  <2> HIDE DEF r
  <2> QED  BY <1>2, <1>3, <2>1, <2>2, TypeRow DEF EnqueueJob
<1>4. CASE RequestCancel(j)
  <2> DEFINE r == [old EXCEPT !.cancel = TRUE]
  <2>1. job' = [job EXCEPT ![j] = r] /\ slow' = slow
    BY <1>4 DEF RequestCancel
  <2>2. r \in JobRow /\ r.started = old.started
    BY <1>1 DEF JobRow
  <2> HIDE DEF r
  <2> QED  BY <1>2, <1>4, <2>1, <2>2, TypeRow DEF RequestCancel
<1>5. CASE HeartbeatStale(j)
  <2> DEFINE r == [old EXCEPT !.fresh = FALSE]
  <2>1. job' = [job EXCEPT ![j] = r] /\ slow' \in Slowness
    BY <1>2, <1>5 DEF HeartbeatStale
  <2>2. r \in JobRow /\ r.started = old.started
    BY <1>1 DEF JobRow
  <2> HIDE DEF r
  <2> QED  BY <1>2, <1>5, <2>1, <2>2, TypeRow DEF HeartbeatStale
<1> QED  BY <1>3, <1>4, <1>5

(* What a claim leaves of the row and of the call. *)
LEMMA ClaimShape ==
  ASSUME TypeInv, NEW w \in Worker, NEW j \in Job, NEW window \in BOOLEAN,
         ClaimJob(w, j, window)
  PROVE  \E c \in Call, r \in JobRow :
           /\ worker' = [worker EXCEPT ![w] = c]
           /\ job' = [job EXCEPT ![j] = r]
           /\ c.pc = "job" /\ c.job = j /\ c.job # None /\ r.started \in Time
           /\ r.status = "running" /\ r.fresh
<1> DEFINE i == Idle
           c == [i EXCEPT !.pc = "job", !.job = j, !.window = window]
           old == job[j]
           started == IF old.started = None THEN clock ELSE old.started
           r == [old EXCEPT !.status = "running", !.fresh = TRUE, !.started = started]
<1>1. i \in Call
  BY IdleCall
<1>2. worker' = [worker EXCEPT ![w] = c]
  BY DEF ClaimJob
<1>3. job' = [job EXCEPT ![j] = r]
  BY DEF ClaimJob, TypeInv, TypeOK
<1>4. old \in JobRow /\ clock \in Time
  BY DEF TypeInv, TypeOK
<1> HIDE DEF i, old
<1>5. started \in Time
  BY <1>4 DEF JobRow
<1> HIDE DEF started
<1>6. c \in Call /\ c.pc = "job" /\ c.job = j
  BY <1>1 DEF Call
<1>7. r \in JobRow /\ r.started \in Time /\ r.status = "running" /\ r.fresh
  BY <1>4, <1>5 DEF JobRow
<1>8. j # None
  BY SyncWorkers
<1> HIDE DEF c, r
<1> QED  BY <1>2, <1>3, <1>6, <1>7, <1>8

LEMMA TypeClaim ==
  ASSUME TypeInv, NEW w \in Worker, NEW j \in Job, NEW window \in BOOLEAN,
         ClaimJob(w, j, window)
  PROVE  TypeInv'
<1>1. PICK c \in Call, r \in JobRow :
           /\ worker' = [worker EXCEPT ![w] = c]
           /\ job' = [job EXCEPT ![j] = r]
           /\ c.pc = "job" /\ c.job = j /\ c.job # None /\ r.started \in Time
  BY ClaimShape
<1>2. job \in [Job -> JobRow] /\ worker \in [Worker -> Call]
  BY DEF TypeInv, TypeOK
<1>3. TypeOK'
  <2>1. UNCHANGED <<clock, changed, stored, watermark, slow>>
    BY DEF ClaimJob, provider
  <2>2. job' \in [Job -> JobRow] /\ worker' \in [Worker -> Call]
    BY <1>1, <1>2
  <2> QED  BY <2>1, <2>2 DEF TypeInv, TypeOK
<1>4. StartsKept
  BY <1>1, <1>2 DEF StartsKept
<1>5. Sure(c, job')
  BY <1>1, <1>2 DEF Sure
<1>6. \A v \in Worker : Sure(worker'[v], job')
  <2> TAKE v \in Worker
  <2>1. CASE v = w
    BY <1>1, <1>2, <1>5, <2>1
  <2>2. CASE v # w
    BY <1>1, <1>2, <1>4, <2>2, SureKept DEF TypeInv
  <2> QED  BY <2>1, <2>2
<1> QED  BY <1>3, <1>6 DEF TypeInv

(* The rest of a worker's step: the documents, the watermark, the history. *)
LEMMA StepWrites ==
  ASSUME TypeInv, NEW w \in Worker, Step(w) \/ WorkerDies(w)
  PROVE  /\ UNCHANGED provider
         /\ stored' \in [Doc -> Time \cup {Never}]
         /\ watermark' \in Time \cup {Never}
         /\ slow' \in {slow, "late"}
<1>1. stored \in [Doc -> Time \cup {Never}] /\ watermark \in Time \cup {Never}
  BY DEF TypeInv, TypeOK
<1>2. CASE StorePage(w)
  <2>1. worker[w].page.at \in Time
    <3>1. worker[w].pc # "idle"
      BY <1>2 DEF StorePage, At
    <3> QED  BY <3>1, AtWork DEF Call, Page
  <2>2. stored' \in [Doc -> Time \cup {Never}]
    BY <1>1, <1>2, <2>1 DEF StorePage
  <2> QED  BY <1>1, <1>2, <2>2 DEF StorePage
<1>3. CASE SetSourceSync(w)
  <2>1. watermark' \in Time \cup {Never}
    BY <1>3, SetSourceSyncShape
  <2> QED  BY <1>1, <1>3, <2>1 DEF SetSourceSync
<1>4. CASE ReadJob(w) \/ ReadSource(w) \/ SourceUnusable(w) \/ SeedTotal(w) \/ SkipTotal(w)
  BY <1>1, <1>4 DEF ReadJob, ReadSource, SourceUnusable, SeedTotal, SkipTotal
<1>5. CASE PullPage(w) \/ CheckCancel(w) \/ Beat(w) \/ BeatAndLeave(w) \/ SyncFails(w)
  BY <1>1, <1>5 DEF PullPage, CheckCancel, Beat, BeatAndLeave, SyncFails
<1>6. CASE FinishJob(w) \/ Return(w) \/ WorkerDies(w)
  BY <1>1, <1>6 DEF FinishJob, Return, WorkerDies
<1> QED  BY <1>2, <1>3, <1>4, <1>5, <1>6 DEF Step

LEMMA TypeWorkerStep ==
  ASSUME TypeInv, NEW w \in Worker, Step(w) \/ WorkerDies(w)
  PROVE  TypeInv'
<1>1. PICK c, r : LeavesCall(w, c) /\ LeavesRow(w, c, r)
  BY StepShape
<1>2. /\ c \in Call /\ worker' = [worker EXCEPT ![w] = c] /\ Sure(c, job)
      /\ r \in JobRow /\ job' = [job EXCEPT ![worker[w].job] = r]
      /\ r.started = job[worker[w].job].started
  BY <1>1 DEF LeavesCall, LeavesRow, Row
<1>3. job \in [Job -> JobRow] /\ worker \in [Worker -> Call]
  BY DEF TypeInv, TypeOK
<1>4. StartsKept
  BY <1>2, <1>3 DEF StartsKept
<1>5. \A v \in Worker : Sure(worker'[v], job')
  <2> TAKE v \in Worker
  <2>1. CASE v = w
    BY <1>2, <1>3, <1>4, <2>1, SureKept
  <2>2. CASE v # w
    BY <1>2, <1>3, <1>4, <2>2, SureKept DEF TypeInv
  <2> QED  BY <2>1, <2>2
<1>6. slow' \in Slowness /\ clock' \in Time /\ changed' \in [Doc -> Time]
  BY StepWrites DEF TypeInv, TypeOK, Slowness, provider
<1>7. job' \in [Job -> JobRow] /\ worker' \in [Worker -> Call]
  BY <1>2, <1>3
<1> QED  BY <1>5, <1>6, <1>7, StepWrites DEF TypeInv, TypeOK

LEMMA TypeNext ==
  ASSUME TypeInv, [Next]_vars
  PROVE  TypeInv'
<1>1. CASE \E j \in Job : EnqueueJob(j) \/ RequestCancel(j) \/ HeartbeatStale(j)
  BY <1>1, TypeEnvironment
<1>2. CASE \E w \in Worker, j \in Job, window \in Windowed : ClaimJob(w, j, window)
  BY <1>2, TypeClaim, SyncBounds
<1>3. CASE \E w \in Worker : Step(w) \/ WorkerDies(w)
  BY <1>3, TypeWorkerStep
<1>4. CASE \E d \in Doc : ProviderChanges(d)
  <2>1. StartsKept
    BY <1>4 DEF ProviderChanges, StartsKept
  <2>2. TypeOK'
    BY <1>4 DEF ProviderChanges, TypeInv, TypeOK
  <2> QED  BY <1>4, <2>1, <2>2, SureAllKept DEF ProviderChanges, TypeInv
<1>5. CASE TimePasses
  <2>1. StartsKept
    BY <1>5 DEF TimePasses, StartsKept
  <2>2. clock' \in Time
    BY <1>5, SyncBounds DEF TimePasses, Time, TypeInv, TypeOK
  <2>3. TypeOK'
    BY <1>5, <2>2 DEF TimePasses, TypeInv, TypeOK
  <2> QED  BY <1>5, <2>1, <2>3, SureAllKept DEF TimePasses, TypeInv
<1>6. CASE UNCHANGED vars
  <2>1. StartsKept /\ TypeOK'
    BY <1>6 DEF vars, StartsKept, TypeInv, TypeOK
  <2> QED  BY <1>6, <2>1, SureAllKept DEF vars, TypeInv
<1> QED  BY <1>1, <1>2, <1>3, <1>4, <1>5, <1>6 DEF Next

LEMMA TypesKept == Spec => []TypeInv
<1>1. Init => TypeInv
  BY TypeInit
<1>2. TypeInv /\ [Next]_vars => TypeInv'
  BY TypeNext
<1> QED  BY <1>1, <1>2, PTL DEF Spec

(* No worker writes a version, a watermark or a job's start it has not      *)
(* read: whatever the order of claims, pages, failures and deaths, every    *)
(* variable keeps its type.                                                *)
THEOREM SyncTypes == Spec => []TypeOK
<1>1. TypeInv => TypeOK
  BY DEF TypeInv
<1> QED  BY <1>1, TypesKept, PTL
----------------------------------------------------------------------------
(* Jobs that ended *)

(* A step leaves a job's status as it was, or enqueues one that was absent, *)
(* or starts one that was active, or ends one.                             *)
StatusMoves(j) ==
  \/ job'[j].status = job[j].status
  \/ job[j].status \in Active \cup {"absent"}
  \/ job'[j].status \in Ended

LEMMA StatusNext ==
  ASSUME TypeInv, [Next]_vars, NEW j \in Job
  PROVE  StatusMoves(j)
<1>1. job \in [Job -> JobRow]
  BY DEF TypeInv, TypeOK
<1>2. CASE \E i \in Job : EnqueueJob(i) \/ RequestCancel(i) \/ HeartbeatStale(i)
  <2>1. PICK i \in Job : EnqueueJob(i) \/ RequestCancel(i) \/ HeartbeatStale(i)
    BY <1>2
  <2>2. CASE i = j
    BY <2>1, <2>2 DEF EnqueueJob, RequestCancel, HeartbeatStale, StatusMoves
  <2>3. CASE i # j
    BY <1>1, <2>1, <2>3 DEF EnqueueJob, RequestCancel, HeartbeatStale, StatusMoves
  <2> QED  BY <2>2, <2>3
<1>3. CASE \E w \in Worker, i \in Job, window \in Windowed : ClaimJob(w, i, window)
  <2>1. PICK w \in Worker, i \in Job, window \in Windowed : ClaimJob(w, i, window)
    BY <1>3
  <2>2. CASE i = j
    BY <2>1, <2>2 DEF ClaimJob, Claimable, StatusMoves
  <2>3. CASE i # j
    BY <1>1, <2>1, <2>3 DEF ClaimJob, StatusMoves
  <2> QED  BY <2>2, <2>3
<1>4. CASE \E w \in Worker : Step(w) \/ WorkerDies(w)
  <2>1. PICK w \in Worker : Step(w) \/ WorkerDies(w)
    BY <1>4
  <2>2. PICK c, r : LeavesCall(w, c) /\ LeavesRow(w, c, r)
    BY <2>1, StepShape
  <2>3. CASE worker[w].job = j
    BY <1>1, <2>2, <2>3 DEF LeavesRow, Row, StatusMoves
  <2>4. CASE worker[w].job # j
    BY <1>1, <2>2, <2>4 DEF LeavesRow, StatusMoves
  <2> QED  BY <2>3, <2>4
<1>5. CASE UNCHANGED job
  BY <1>5 DEF StatusMoves
<1>6. (\E d \in Doc : ProviderChanges(d)) \/ TimePasses \/ UNCHANGED vars => UNCHANGED job
  BY DEF ProviderChanges, TimePasses, vars
<1> QED  BY <1>2, <1>3, <1>4, <1>5, <1>6 DEF Next

(* finishJob writes by id, over whatever another worker has written there,  *)
(* and a claim looks at the status only: still no job that ended is taken   *)
(* up again, by however many workers, slow or dead.                        *)
THEOREM EndedStays == Spec => JobsStayEnded
<1>1. TypeInv /\ [Next]_vars
      => [\A j \in Job : job[j].status \in Ended => job'[j].status \in Ended]_vars
  BY StatusNext DEF StatusMoves
<1> QED  BY <1>1, TypesKept, PTL DEF Spec, JobsStayEnded
----------------------------------------------------------------------------
(* One worker at a time *)

Busy(w) == worker[w].job # None

OneActiveJob ==
  \A i, j \in Job : job[i].status \in Active /\ job[j].status \in Active => i = j

(* A job that is worked on was claimed. *)
WorkedOnClaimed ==
  \A w \in Worker : Busy(w) => Row(w).status \in Ended \cup {"running"}

NoJobShared ==
  \A v, w \in Worker : Busy(v) /\ worker[v].job = worker[w].job => v = w

(* The job of a worker can not be claimed ...                              *)
HeldFast ==
  \A w \in Worker : Busy(w) => Row(w).status \in Ended \/ Row(w).fresh

(* ... and has not ended while it pulls.                                   *)
PullsRunning ==
  \A w \in Worker : Pulling(w) => Row(w).status = "running"

PullInv ==
  /\ OneActiveJob
  /\ WorkedOnClaimed
  /\ slow = "none" => NoJobShared /\ HeldFast /\ PullsRunning

LEMMA PullInit ==
  ASSUME Init
  PROVE  PullInv
<1>1. \A w \in Worker : ~Busy(w) /\ ~Pulling(w)
  BY IdleCall DEF Init, Busy, Pulling
<1>2. \A j \in Job : job[j].status = "absent"
  BY DEF Init, NoJob
<1> QED
  BY <1>1, <1>2 DEF PullInv, OneActiveJob, WorkedOnClaimed, NoJobShared, HeldFast,
                    PullsRunning

LEMMA PullStays ==
  ASSUME PullInv, UNCHANGED <<job, worker, slow>>
  PROVE  PullInv'
BY DEF PullInv, OneActiveJob, WorkedOnClaimed, NoJobShared, HeldFast, PullsRunning,
       Busy, Pulling, Row

(* A worker is busy unless it is idle. *)
LEMMA BusyAtWork ==
  ASSUME TypeInv, NEW w \in Worker
  PROVE  /\ Busy(w) <=> worker[w].pc # "idle"
         /\ Busy(w) => worker[w].job \in Job
         /\ Pulling(w) <=> worker[w].pc \in PullingPcs
         /\ Pulling(w) => Busy(w)
BY DEF TypeInv, TypeOK, Sure, Busy, Pulling, PullingPcs, Call

LEMMA PullEnqueue ==
  ASSUME TypeInv, PullInv, NEW j \in Job, EnqueueJob(j)
  PROVE  PullInv'
<1>1. job \in [Job -> JobRow]
  BY DEF TypeInv, TypeOK
<1>2. UNCHANGED <<worker, slow>>
  BY DEF EnqueueJob
<1>3. \A w \in Worker : Busy(w) => worker[w].job \in Job /\ worker[w].job # j
  BY BusyAtWork DEF PullInv, WorkedOnClaimed, Row, EnqueueJob
<1>4. \A w \in Worker : Busy(w) => Row(w)' = Row(w)
  BY <1>1, <1>2, <1>3 DEF EnqueueJob, Row
<1>5. OneActiveJob'
  BY <1>1 DEF EnqueueJob, OneActiveJob
<1>6. WorkedOnClaimed'
  BY <1>2, <1>4 DEF PullInv, WorkedOnClaimed, Busy
<1>7. NoJobShared => NoJobShared'
  BY <1>2 DEF NoJobShared, Busy
<1>8. HeldFast => HeldFast'
  BY <1>2, <1>4 DEF HeldFast, Busy
<1>9. PullsRunning => PullsRunning'
  <2>1. \A w \in Worker : Pulling(w)' => Pulling(w) /\ Busy(w)
    BY <1>2, BusyAtWork DEF Pulling
  <2> QED  BY <1>4, <2>1 DEF PullsRunning
<1> QED  BY <1>2, <1>5, <1>6, <1>7, <1>8, <1>9 DEF PullInv

(* A change of a row that leaves its status alone. *)
LEMMA PullSameStatus ==
  ASSUME TypeInv, PullInv, NEW j \in Job, UNCHANGED worker,
         \A i \in Job : job'[i].status = job[i].status,
         \A i \in Job : job'[i].fresh = job[i].fresh \/ (i = j /\ (WorkedOn(j) => slow' # "none")),
         slow' = "none" => slow = "none"
  PROVE  PullInv'
<1>1. \A w \in Worker : Busy(w) => worker[w].job \in Job
  BY BusyAtWork
<1>2. \A w \in Worker : Busy(w) => Row(w)'.status = Row(w).status
  BY <1>1 DEF Row
<1>3. OneActiveJob' /\ WorkedOnClaimed'
  BY <1>2 DEF PullInv, OneActiveJob, WorkedOnClaimed, Busy
<1>4. ASSUME slow' = "none"
      PROVE  NoJobShared' /\ HeldFast' /\ PullsRunning'
  <2>1. \A w \in Worker : Busy(w) => Row(w)'.fresh = Row(w).fresh
    BY <1>1, <1>4 DEF Row, WorkedOn
  <2>2. NoJobShared'
    BY <1>4 DEF PullInv, NoJobShared, Busy
  <2>3. HeldFast'
    BY <1>2, <1>4, <2>1 DEF PullInv, HeldFast, Busy
  <2>4. PullsRunning'
    <3>1. \A w \in Worker : Pulling(w)' => Pulling(w) /\ Busy(w)
      BY BusyAtWork DEF Pulling
    <3> QED  BY <1>2, <1>4, <3>1 DEF PullInv, PullsRunning
  <2> QED  BY <2>2, <2>3, <2>4
<1> QED  BY <1>3, <1>4 DEF PullInv

LEMMA PullCancelStale ==
  ASSUME TypeInv, PullInv, NEW j \in Job, RequestCancel(j) \/ HeartbeatStale(j)
  PROVE  PullInv'
<1>1. job \in [Job -> JobRow] /\ UNCHANGED worker
  BY DEF TypeInv, TypeOK, RequestCancel, HeartbeatStale
<1> DEFINE old == job[j]
<1>2. \E r : /\ job' = [job EXCEPT ![j] = r]
             /\ r.status = old.status
             /\ r.fresh = old.fresh \/ (WorkedOn(j) => slow' # "none")
  <2>1. old \in JobRow
    BY <1>1
  <2>2. CASE RequestCancel(j)
    <3> DEFINE r == [old EXCEPT !.cancel = TRUE]
    <3>1. job' = [job EXCEPT ![j] = r]
      BY <2>2 DEF RequestCancel
    <3>2. r.status = old.status /\ r.fresh = old.fresh
      BY <2>1 DEF JobRow
    <3> HIDE DEF r
    <3> QED  BY <3>1, <3>2
  <2>3. CASE HeartbeatStale(j)
    <3> DEFINE r == [old EXCEPT !.fresh = FALSE]
    <3>1. job' = [job EXCEPT ![j] = r] /\ (WorkedOn(j) => slow' # "none")
      BY <2>3 DEF HeartbeatStale
    <3>2. r.status = old.status
      BY <2>1 DEF JobRow
    <3> HIDE DEF r
    <3> QED  BY <3>1, <3>2
  <2> QED  BY <2>2, <2>3
<1>3. /\ \A i \in Job : job'[i].status = job[i].status
      /\ \A i \in Job :
           job'[i].fresh = job[i].fresh \/ (i = j /\ (WorkedOn(j) => slow' # "none"))
  BY <1>1, <1>2
<1>4. slow' = "none" => slow = "none"
  BY DEF RequestCancel, HeartbeatStale
<1> QED  BY <1>1, <1>3, <1>4, PullSameStatus

LEMMA PullClaim ==
  ASSUME TypeInv, PullInv, NEW w \in Worker, NEW j \in Job, NEW window \in BOOLEAN,
         ClaimJob(w, j, window)
  PROVE  PullInv'
<1>1. PICK c \in Call, r \in JobRow :
           /\ worker' = [worker EXCEPT ![w] = c]
           /\ job' = [job EXCEPT ![j] = r]
           /\ c.pc = "job" /\ c.job = j /\ c.job # None /\ r.started \in Time
           /\ r.status = "running" /\ r.fresh
  BY ClaimShape
<1>2. job \in [Job -> JobRow] /\ worker \in [Worker -> Call]
  BY DEF TypeInv, TypeOK
<1>3. Claimable(j) /\ ~Busy(w) /\ slow' = slow
  BY BusyAtWork DEF ClaimJob, At
<1>4. /\ worker'[w].job = j /\ job'[j].status = "running" /\ job'[j].fresh
      /\ \A v \in Worker : v # w => worker'[v] = worker[v]
      /\ \A i \in Job : i # j => job'[i] = job[i]
  BY <1>1, <1>2
<1>5. \A v \in Worker : Busy(v) => worker[v].job \in Job
  BY BusyAtWork
<1>6. OneActiveJob'
  BY <1>3, <1>4 DEF PullInv, OneActiveJob, Claimable
<1>7. WorkedOnClaimed'
  BY <1>4, <1>5 DEF PullInv, WorkedOnClaimed, Busy, Row
<1>8. ASSUME slow = "none"
      PROVE  NoJobShared' /\ HeldFast' /\ PullsRunning'
  <2>1. \A v \in Worker : Busy(v) => worker[v].job # j
    BY <1>3, <1>8 DEF PullInv, WorkedOnClaimed, HeldFast, Claimable, Row
  <2>2. NoJobShared'
    BY <1>4, <1>8, <2>1 DEF PullInv, NoJobShared, Busy
  <2>3. HeldFast'
    BY <1>4, <1>5, <1>8, <2>1 DEF PullInv, HeldFast, Busy, Row
  <2>4. PullsRunning'
    <3>1. ASSUME NEW v \in Worker, Pulling(v)'
          PROVE  Row(v)'.status = "running"
      <4>1. CASE v = w
        BY <1>4, <4>1 DEF Row
      <4>2. CASE v # w
        <5>1. Pulling(v) /\ Busy(v) /\ worker'[v].job = worker[v].job
          BY <1>4, <3>1, <4>2, BusyAtWork DEF Pulling
        <5>2. Row(v)' = Row(v)
          BY <1>4, <1>5, <2>1, <5>1 DEF Row
        <5> QED  BY <1>8, <5>1, <5>2 DEF PullInv, PullsRunning
      <4> QED  BY <4>1, <4>2
    <3> QED  BY <3>1 DEF PullsRunning
  <2> QED  BY <2>2, <2>3, <2>4
<1> QED  BY <1>3, <1>6, <1>7, <1>8 DEF PullInv

LEMMA PullWorkerStep ==
  ASSUME TypeInv, PullInv, NEW w \in Worker, Step(w) \/ WorkerDies(w)
  PROVE  PullInv'
<1>1. PICK c, r : LeavesCall(w, c) /\ LeavesRow(w, c, r)
  BY StepShape
<1> DEFINE j == worker[w].job
<1>2. job \in [Job -> JobRow] /\ worker \in [Worker -> Call]
  BY DEF TypeInv, TypeOK
<1>3. Busy(w) /\ j \in Job
  BY StepShape, BusyAtWork
<1>4. /\ worker'[w] = c /\ (c.job = None \/ GoesOn(worker[w], c))
      /\ \A v \in Worker : v # w => worker'[v] = worker[v]
  BY <1>1, <1>2, IdleCall DEF LeavesCall
<1>5. /\ job'[j] = r
      /\ \A i \in Job : i # j => job'[i] = job[i]
  BY <1>1, <1>2, <1>3 DEF LeavesRow
<1>6. \/ r.status = job[j].status /\ (r.fresh = job[j].fresh \/ r.fresh)
      \/ r.status \in Ended /\ c.pc \notin PullingPcs
  BY <1>1 DEF LeavesRow, Row
<1>7. \A v \in Worker : Busy(v) => worker[v].job \in Job
  BY BusyAtWork
<1>8. \A v \in Worker : Busy(v)' => Busy(v) /\ worker'[v].job = worker[v].job
  BY <1>3, <1>4 DEF Busy, GoesOn
<1>9. \A i \in Job : job'[i].status = job[i].status \/ job'[i].status \in Ended
  BY <1>5, <1>6
<1>10. OneActiveJob'
  BY <1>9 DEF PullInv, OneActiveJob
<1>11. WorkedOnClaimed'
  BY <1>7, <1>8, <1>9 DEF PullInv, WorkedOnClaimed, Row
<1>12. ASSUME slow = "none"
       PROVE  NoJobShared' /\ HeldFast' /\ PullsRunning'
  <2>1. NoJobShared'
    BY <1>8, <1>12 DEF PullInv, NoJobShared, Busy
  <2>2. HeldFast'
    <3>1. \A i \in Job : \/ job'[i].status \in Ended
                         \/ /\ job'[i].status = job[i].status
                            /\ job[i].fresh => job'[i].fresh
      BY <1>5, <1>6
    <3> QED  BY <1>7, <1>8, <1>12, <3>1 DEF PullInv, HeldFast, Row
  <2>3. PullsRunning'
    <3>1. ASSUME NEW v \in Worker, Pulling(v)'
          PROVE  Row(v)'.status = "running"
      <4>1. CASE v = w
        <5>1. c.pc \in PullingPcs
          BY <1>4, <3>1, <4>1 DEF Pulling, PullingPcs
        <5>2. c.job = j /\ Pulling(w)
          <6>1. c.job # None
            BY <1>1, <5>1 DEF LeavesCall, Sure, PullingPcs
          <6> QED  BY <1>4, <5>1, <6>1, BusyAtWork DEF GoesOn
        <5>3. job[j].status = "running"
          BY <1>12, <5>2 DEF PullInv, PullsRunning, Row
        <5> QED  BY <1>4, <1>5, <1>6, <4>1, <5>1, <5>2, <5>3 DEF Row
      <4>2. CASE v # w
        <5>1. Pulling(v) /\ Busy(v) /\ worker'[v].job = worker[v].job
          BY <1>4, <3>1, <4>2, BusyAtWork DEF Pulling
        <5>2. worker[v].job # j
          BY <1>12, <4>2, <5>1 DEF PullInv, NoJobShared
        <5>3. Row(v)' = Row(v)
          BY <1>5, <1>7, <5>1, <5>2 DEF Row
        <5> QED  BY <1>12, <5>1, <5>3 DEF PullInv, PullsRunning
      <4> QED  BY <4>1, <4>2
    <3> QED  BY <3>1 DEF PullsRunning
  <2> QED  BY <2>1, <2>2, <2>3
<1>13. slow' = "none" => slow = "none"
  BY StepWrites
<1> QED  BY <1>10, <1>11, <1>12, <1>13 DEF PullInv

LEMMA PullNext ==
  ASSUME TypeInv, PullInv, [Next]_vars
  PROVE  PullInv'
<1>1. CASE \E j \in Job : EnqueueJob(j) \/ RequestCancel(j) \/ HeartbeatStale(j)
  BY <1>1, PullEnqueue, PullCancelStale
<1>2. CASE \E w \in Worker, j \in Job, window \in Windowed : ClaimJob(w, j, window)
  BY <1>2, PullClaim, SyncBounds
<1>3. CASE \E w \in Worker : Step(w) \/ WorkerDies(w)
  BY <1>3, PullWorkerStep
<1>4. CASE (\E d \in Doc : ProviderChanges(d)) \/ TimePasses \/ UNCHANGED vars
  BY <1>4, PullStays DEF ProviderChanges, TimePasses, vars
<1> QED  BY <1>1, <1>2, <1>3, <1>4 DEF Next

LEMMA PullsAlone ==
  ASSUME TypeInv, PullInv
  PROVE  OneWorkerPerSource
<1> SUFFICES ASSUME slow = "none", NEW v \in Worker, NEW w \in Worker,
                    Pulling(v), Pulling(w)
             PROVE  v = w
  BY DEF OneWorkerPerSource
<1>1. Row(v).status = "running" /\ Row(w).status = "running"
  BY DEF PullInv, PullsRunning
<1>2. Busy(v) /\ worker[v].job \in Job /\ worker[w].job \in Job
  BY BusyAtWork
<1>3. worker[v].job = worker[w].job
  BY <1>1, <1>2 DEF PullInv, OneActiveJob, Row
<1> QED  BY <1>2, <1>3 DEF PullInv, NoJobShared

(* However many workers, jobs, crashes and takeovers: while a heartbeat     *)
(* that is five minutes old means a dead worker, one worker at a time pulls *)
(* from the source.  The claim is no lock: what keeps the others out is     *)
(* that one job at most is active, and that a worker's job has ended or has *)
(* a fresh heartbeat.                                                      *)
THEOREM PullsOneAtATime == Spec => []OneWorkerPerSource
<1>1. Init => PullInv
  BY PullInit
<1>2. TypeInv /\ PullInv /\ [Next]_vars => PullInv'
  BY PullNext
<1>3. TypeInv /\ PullInv => OneWorkerPerSource
  BY PullsAlone
<1> QED  BY <1>1, <1>2, <1>3, TypesKept, PTL DEF Spec
----------------------------------------------------------------------------
(* What was pulled is stored *)

NoWindow == TRUE \notin Windowed

(* When the documents changed as in ch and are stored as in st: document d *)
(* is stored as it is, unless it changed at s or later.                    *)
Has(ch, st, d, s) == ch[d] < s => st[d] = ch[d]

(* All documents but x are; and all but x that cursor c will not bring.    *)
(* With a window, what the cursor's `since` leaves out is left out for good. *)
Through(ch, st, s, x) == NoWindow => \A d \in Doc : d # x => Has(ch, st, d, s)

Skips(ch, c, d) ==
  \/ d < c.from /\ ch[d] > c.since
  \/ NoWindow /\ ~(ch[d] > c.since)

Covers(ch, st, c, s, x) ==
  \A d \in Doc : d # x /\ Skips(ch, c, d) => Has(ch, st, d, s)

(* What is not asked for after a watermark m is stored. *)
Safe(ch, st, m) == Through(ch, st, OverlapSince(m) + 1, None)

(* The call b of a job that was started at s: what lies before its cursors *)
(* is stored, but for the page it holds, which is not older than s.        *)
CallCovers(ch, st, b, s) ==
  /\ b.cursor # None => Covers(ch, st, b.cursor, s, None)
  /\ b.first # None => Covers(ch, st, b.first, s, None)
  /\ b.page.next # None => Covers(ch, st, b.page.next, s, b.page.doc)
  /\ b.page.doc # None => b.page.at = ch[b.page.doc] \/ ch[b.page.doc] >= s
  /\ b.pc = "beat" => b.page.doc = None
  /\ b.pc \in {"check", "store", "beat"} /\ b.page.next = None
     => Through(ch, st, s, b.page.doc)
  /\ b.pc = "mark" /\ b.ending = "succeeded" => Through(ch, st, s, None)

WatermarkSafe == Safe(changed, stored, watermark)

SeenSafe == \A w \in Worker : Safe(changed, stored, worker[w].seen)

RowsCover ==
  \A j \in Job : job[j].cursor # None =>
    Covers(changed, stored, job[j].cursor, job[j].started, None)

CallsCover ==
  \A w \in Worker : Busy(w) => CallCovers(changed, stored, worker[w], Row(w).started)

CoverInv ==
  slow # "late" => WatermarkSafe /\ SeenSafe /\ RowsCover /\ CallsCover

Started(j) == job[j].started \in Time

(* The job that is active, if it was started, was started no earlier than  *)
(* every job before it, and no earlier than any watermark that was written *)
(* or that a worker may put back.                                          *)
StartsInOrder ==
  \A i, j \in Job :
    job[i].status \in Ended /\ job[j].status \in Active /\ Started(j)
    => job[i].started <= job[j].started

MarkedBefore(m) ==
  /\ m <= clock
  /\ \A j \in Job : job[j].status \in Active /\ Started(j) => m <= job[j].started

TimeInv ==
  /\ \A j \in Job : Started(j) => job[j].started <= clock
  /\ \A j \in Job : job[j].status \in {"absent", "queued"} => job[j].started = None
  /\ \A j \in Job : job[j].status \in Ended \/ job[j].cursor # None => Started(j)
  /\ StartsInOrder
  /\ MarkedBefore(watermark)
  /\ \A w \in Worker : MarkedBefore(worker[w].seen)
  /\ \A w \in Worker : worker[w].window \in Windowed \cup {FALSE}
----------------------------------------------------------------------------
(* Starts and watermarks are in order *)

(* What a worker's step knows of watermarks: it has read the source's, or  *)
(* goes on with the one it saw; and it writes back that one, or its start. *)
LEMMA StepMarks ==
  ASSUME TypeInv, NEW w \in Worker, Step(w) \/ WorkerDies(w)
  PROVE  /\ worker'[w].seen \in {Never, watermark, worker[w].seen}
         /\ worker'[w].window \in {FALSE, worker[w].window}
         /\ watermark' \in {watermark, worker[w].seen, Row(w).started}
<1> DEFINE b == worker[w]
           i == Idle
           Marks(c) == /\ c.seen \in {Never, watermark, b.seen}
                       /\ c.window \in {FALSE, b.window}
<1>1. /\ b \in Call /\ i \in Call /\ i.seen = Never /\ i.window = FALSE
      /\ worker \in [Worker -> Call]
  BY AtWork, StepShape, IdleCall DEF Idle, TypeInv, TypeOK
<1>2. \A c : worker' = [worker EXCEPT ![w] = c] => worker'[w] = c
  BY <1>1
<1>3. ASSUME NEW pc, NEW status, NEW seen \in {Never, watermark, b.seen}, End(w, pc, status, seen)
      PROVE  Marks(worker'[w])
  <2> DEFINE c == [i EXCEPT !.pc = pc, !.job = b.job, !.seen = seen,
                            !.window = b.window, !.ending = status]
  <2>1. worker'[w] = c
    BY <1>2, <1>3 DEF End
  <2> HIDE DEF i
  <2>2. c.seen = seen /\ c.window = b.window
    BY <1>1 DEF Call
  <2> HIDE DEF c
  <2> QED  BY <2>1, <2>2
<1>4. ASSUME worker' = [worker EXCEPT ![w] = Idle]
      PROVE  Marks(worker'[w])
  <2>1. worker'[w] = i
    BY <1>2, <1>4
  <2> HIDE DEF i, b
  <2> QED  BY <1>1, <2>1
<1> HIDE DEF i
<1>5. ASSUME NEW c, worker' = [worker EXCEPT ![w] = c], c.seen \in {Never, watermark, b.seen},
             c.window = b.window
      PROVE  Marks(worker'[w])
  BY <1>2, <1>5
<1>6. Marks(worker'[w])
  <2>1. CASE ReadJob(w)
    <3> DEFINE c == [b EXCEPT !.pc = "source", !.cursor = Row(w).cursor]
    <3>1. worker' = [worker EXCEPT ![w] = c]
      BY <2>1 DEF ReadJob
    <3>2. c.seen = b.seen /\ c.window = b.window
      <4> HIDE DEF b
      <4> QED  BY <1>1 DEF Call
    <3> HIDE DEF c, b
    <3> QED  BY <1>5, <3>1, <3>2
  <2>2. CASE ReadSource(w)
    <3> DEFINE first == IF b.cursor # None THEN b.cursor
                        ELSE FirstPage(Since(watermark, b.window))
               c == [b EXCEPT !.pc = "total", !.seen = watermark, !.first = first]
    <3>1. worker' = [worker EXCEPT ![w] = c]
      BY <2>2 DEF ReadSource
    <3>2. c.seen = watermark /\ c.window = b.window
      <4> HIDE DEF b, first
      <4> QED  BY <1>1 DEF Call
    <3> HIDE DEF c, b
    <3> QED  BY <1>5, <3>1, <3>2
  <2>3. CASE SourceUnusable(w)
    BY <1>3, <2>3 DEF SourceUnusable
  <2>4. CASE SeedTotal(w) \/ SkipTotal(w)
    <3> DEFINE c == [b EXCEPT !.pc = "pull", !.first = None, !.cursor = b.first]
    <3>1. worker' = [worker EXCEPT ![w] = c]
      BY <2>4 DEF SeedTotal, SkipTotal, StartPulling
    <3>2. c.seen = b.seen /\ c.window = b.window
      <4> HIDE DEF b
      <4> QED  BY <1>1 DEF Call
    <3> HIDE DEF c, b
    <3> QED  BY <1>5, <3>1, <3>2
  <2>5. CASE PullPage(w)
    <3>1. PICK p : worker' = [worker EXCEPT ![w].pc = "check", ![w].page = p,
                                           ![w].cursor = None]
      BY <2>5 DEF PullPage
    <3> DEFINE c == [b EXCEPT !.pc = "check", !.page = p, !.cursor = None]
    <3>2. worker' = [worker EXCEPT ![w] = c]
      BY <3>1
    <3>3. c.seen = b.seen /\ c.window = b.window
      <4> HIDE DEF b
      <4> QED  BY <1>1 DEF Call
    <3> HIDE DEF c, b
    <3> QED  BY <1>5, <3>2, <3>3
  <2>6. CASE CheckCancel(w)
    <3>1. CASE Row(w).cancel
      BY <1>3, <2>6, <3>1 DEF CheckCancel
    <3>2. CASE ~Row(w).cancel
      <4> DEFINE c == [b EXCEPT !.pc = "store"]
      <4>1. worker' = [worker EXCEPT ![w] = c]
        BY <2>6, <3>2 DEF CheckCancel, Go
      <4>2. c.seen = b.seen /\ c.window = b.window
        <5> HIDE DEF b
        <5> QED  BY <1>1 DEF Call
      <4> HIDE DEF c, b
      <4> QED  BY <1>5, <4>1, <4>2
    <3> QED  BY <3>1, <3>2
  <2>7. CASE StorePage(w)
    <3> DEFINE page == [NoPage EXCEPT !.next = b.page.next]
               c == [b EXCEPT !.pc = "beat", !.page = page]
    <3>1. worker' = [worker EXCEPT ![w] = c]
      BY <2>7 DEF StorePage
    <3>2. c.seen = b.seen /\ c.window = b.window
      <4> HIDE DEF b, page
      <4> QED  BY <1>1 DEF Call
    <3> HIDE DEF c, b
    <3> QED  BY <1>5, <3>1, <3>2
  <2>8. CASE Beat(w)
    <3>1. CASE b.page.next = None
      BY <1>3, <2>8, <3>1 DEF Beat
    <3>2. CASE b.page.next # None
      <4> DEFINE c == [b EXCEPT !.pc = "pull", !.cursor = b.page.next, !.page = NoPage]
      <4>1. worker' = [worker EXCEPT ![w] = c]
        BY <2>8, <3>2 DEF Beat
      <4>2. c.seen = b.seen /\ c.window = b.window
        <5> HIDE DEF b
        <5> QED  BY <1>1 DEF Call
      <4> HIDE DEF c, b
      <4> QED  BY <1>5, <4>1, <4>2
    <3> QED  BY <3>1, <3>2
  <2>9. CASE SyncFails(w)
    BY <1>3, <2>9 DEF SyncFails
  <2>10. CASE SetSourceSync(w)
    BY <1>3, <2>10 DEF SetSourceSync
  <2>11. CASE FinishJob(w) /\ b.ending = "succeeded"
    BY <1>3, <2>11 DEF FinishJob, AfterFinish
  <2>12. CASE FinishJob(w) /\ b.ending # "succeeded"
    BY <1>4, <2>12 DEF FinishJob, AfterFinish
  <2>13. CASE BeatAndLeave(w) \/ Return(w) \/ WorkerDies(w)
    BY <1>4, <2>13 DEF BeatAndLeave, Return, WorkerDies
  <2> HIDE DEF Marks
  <2> QED
    BY <2>1, <2>2, <2>3, <2>4, <2>5, <2>6, <2>7, <2>8, <2>9, <2>10, <2>11, <2>12, <2>13
    DEF Step
<1>7. watermark' \in {watermark, b.seen, Row(w).started}
  BY DEF Step, WorkerDies, ReadJob, ReadSource, SourceUnusable, SeedTotal, SkipTotal,
         PullPage, CheckCancel, StorePage, Beat, BeatAndLeave, SyncFails, SetSourceSync,
         FinishJob, Return
<1> QED  BY <1>6, <1>7

LEMMA TimeInit ==
  ASSUME Init
  PROVE  TimeInv
<1>1. /\ clock = 0 /\ watermark \in {Never, 0}
      /\ \A j \in Job : job[j] = NoJob
      /\ \A w \in Worker : worker[w] = Idle
  BY SyncBounds DEF Init
<1>2. NoJob.status = "absent" /\ NoJob.started = None /\ NoJob.cursor = None
  BY DEF NoJob
<1>3. Idle.seen = Never /\ Idle.window = FALSE
  BY DEF Idle
<1>4. \A j \in Job : job[j].status = "absent" /\ job[j].started = None /\ job[j].cursor = None
  BY <1>1, <1>2
<1>5. \A w \in Worker : worker[w].seen = Never /\ worker[w].window = FALSE
  BY <1>1, <1>3
<1>6. \A m \in {Never, 0} : MarkedBefore(m)
  BY <1>1, <1>4 DEF MarkedBefore, Never
<1>7. \A w \in Worker : worker[w].window \in Windowed \cup {FALSE}
  BY <1>5
<1>8. \A j \in Job : ~Started(j)
  BY <1>4, SyncWorkers DEF Started
<1> QED  BY <1>1, <1>4, <1>5, <1>6, <1>7, <1>8 DEF TimeInv, StartsInOrder

(* What TimeInv says of numbers. *)
LEMMA Numbers ==
  ASSUME TypeInv
  PROVE  /\ clock \in Int /\ watermark \in Int /\ Overlap \in Int
         /\ \A w \in Worker : worker[w].seen \in Int
         /\ \A d \in Doc : changed[d] \in Int /\ changed[d] >= 0
         /\ \A t \in Time : t \in Int /\ t >= 0
         /\ clock >= 0 /\ Overlap > 0 /\ Never \in Int /\ Never < 0
BY SyncBounds DEF TypeInv, TypeOK, Call, Time, Never

(* The clock goes on, a row is enqueued or changed without its status,     *)
(* start or cursor being touched.                                          *)
LEMMA TimeStays ==
  ASSUME TypeInv, TimeInv, clock' \in Int, clock' >= clock,
         UNCHANGED <<watermark, worker>>,
         \A j \in Job : /\ job'[j].started = job[j].started
                        /\ job'[j].cursor = job[j].cursor
                        /\ \/ job'[j].status = job[j].status
                           \/ job[j].status = "absent" /\ job'[j].status = "queued"
  PROVE  TimeInv'
<1> USE Numbers
<1>1. \A j \in Job : Started(j)' <=> Started(j)
  BY DEF Started
<1>2. \A j \in Job :
        job'[j].status \in Active /\ Started(j) => job[j].status \in Active
  BY SyncWorkers DEF TimeInv, Started
<1>3. \A j \in Job : job'[j].status \in Ended => job[j].status \in Ended
  OBVIOUS
<1>4. \A j \in Job : Started(j)' => job'[j].started <= clock'
  BY <1>1 DEF TimeInv, Started
<1>5. StartsInOrder'
  BY <1>1, <1>2, <1>3 DEF TimeInv, StartsInOrder
<1>6. ASSUME NEW m \in Int, m <= clock,
             \A j \in Job : job[j].status \in Active /\ Started(j) => m <= job[j].started
      PROVE  /\ m <= clock'
             /\ \A j \in Job : job'[j].status \in Active /\ Started(j)' => m <= job'[j].started
  BY <1>1, <1>2, <1>6
<1>7. MarkedBefore(watermark)' /\ \A w \in Worker : MarkedBefore(worker[w].seen)'
  BY <1>6 DEF TimeInv, MarkedBefore
<1> QED  BY <1>1, <1>3, <1>4, <1>5, <1>7 DEF TimeInv

(* The organisation and the passing of time touch a row's status and flags. *)
LEMMA EnvironmentRow ==
  ASSUME TypeInv, NEW j \in Job, EnqueueJob(j) \/ RequestCancel(j) \/ HeartbeatStale(j)
  PROVE  \E r : /\ job' = [job EXCEPT ![j] = r]
               /\ r.started = job[j].started /\ r.cursor = job[j].cursor
               /\ \/ r.status = job[j].status
                  \/ job[j].status = "absent" /\ r.status = "queued"
<1> DEFINE old == job[j]
<1>1. old \in JobRow
  BY DEF TypeInv, TypeOK
<1>2. CASE EnqueueJob(j)
  <2> DEFINE r == [old EXCEPT !.status = "queued"]
  <2>1. job' = [job EXCEPT ![j] = r] /\ old.status = "absent"
    BY <1>2 DEF EnqueueJob
  <2>2. r.started = old.started /\ r.cursor = old.cursor /\ r.status = "queued"
    BY <1>1 DEF JobRow
  <2> HIDE DEF r
  <2> QED  BY <2>1, <2>2
<1>3. CASE RequestCancel(j)
  <2> DEFINE r == [old EXCEPT !.cancel = TRUE]
  <2>1. job' = [job EXCEPT ![j] = r]
    BY <1>3 DEF RequestCancel
  <2>2. r.started = old.started /\ r.cursor = old.cursor /\ r.status = old.status
    BY <1>1 DEF JobRow
  <2> HIDE DEF r
  <2> QED  BY <2>1, <2>2
<1>4. CASE HeartbeatStale(j)
  <2> DEFINE r == [old EXCEPT !.fresh = FALSE]
  <2>1. job' = [job EXCEPT ![j] = r]
    BY <1>4 DEF HeartbeatStale
  <2>2. r.started = old.started /\ r.cursor = old.cursor /\ r.status = old.status
    BY <1>1 DEF JobRow
  <2> HIDE DEF r
  <2> QED  BY <2>1, <2>2
<1> QED  BY <1>2, <1>3, <1>4

LEMMA TimeEnvironment ==
  ASSUME TypeInv, TimeInv, NEW j \in Job,
         EnqueueJob(j) \/ RequestCancel(j) \/ HeartbeatStale(j)
  PROVE  TimeInv'
<1>1. job \in [Job -> JobRow]
  BY DEF TypeInv, TypeOK
<1>2. UNCHANGED <<clock, watermark, worker>>
  BY DEF EnqueueJob, RequestCancel, HeartbeatStale, provider
<1>3. PICK r : /\ job' = [job EXCEPT ![j] = r]
               /\ r.started = job[j].started /\ r.cursor = job[j].cursor
               /\ \/ r.status = job[j].status
                  \/ job[j].status = "absent" /\ r.status = "queued"
  BY EnvironmentRow
<1>4. \A i \in Job : /\ job'[i].started = job[i].started
                     /\ job'[i].cursor = job[i].cursor
                     /\ \/ job'[i].status = job[i].status
                        \/ job[i].status = "absent" /\ job'[i].status = "queued"
  BY <1>1, <1>3
<1> QED  BY <1>2, <1>4, TimeStays, Numbers

(* A claim: a fresh call, and a start only for a job that had none. *)
LEMMA ClaimMarks ==
  ASSUME TypeInv, NEW w \in Worker, NEW j \in Job, NEW window \in BOOLEAN,
         ClaimJob(w, j, window)
  PROVE  /\ worker'[w].seen = Never /\ worker'[w].window = window
         /\ worker'[w].cursor = None /\ worker'[w].first = None
         /\ worker'[w].page = NoPage /\ worker'[w].pc = "job" /\ worker'[w].job = j
         /\ \A v \in Worker : v # w => worker'[v] = worker[v]
         /\ job'[j].status = "running" /\ job'[j].cursor = job[j].cursor
         /\ job'[j].started = IF job[j].started = None THEN clock ELSE job[j].started
         /\ \A i \in Job : i # j => job'[i] = job[i]
<1> DEFINE e == Idle
           c == [e EXCEPT !.pc = "job", !.job = j, !.window = window]
           old == job[j]
           started == IF old.started = None THEN clock ELSE old.started
           r == [old EXCEPT !.status = "running", !.fresh = TRUE, !.started = started]
<1>1. /\ e \in Call /\ e.seen = Never /\ e.cursor = None /\ e.first = None
      /\ e.page = NoPage
  BY IdleCall DEF Idle
<1>2. /\ job \in [Job -> JobRow] /\ worker \in [Worker -> Call] /\ old \in JobRow
  BY DEF TypeInv, TypeOK
<1>3. worker' = [worker EXCEPT ![w] = c] /\ job' = [job EXCEPT ![j] = r]
  BY <1>2 DEF ClaimJob
<1> HIDE DEF e, old, started
<1>4. /\ c.seen = e.seen /\ c.cursor = e.cursor /\ c.first = e.first
      /\ c.page = e.page /\ c.pc = "job" /\ c.job = j
  BY <1>1 DEF Call
<1>5. c.window = window
  BY <1>1 DEF Call
<1>6. r.status = "running" /\ r.cursor = old.cursor /\ r.started = started
  BY <1>2 DEF JobRow
<1> HIDE DEF c, r
<1>7. worker'[w] = c /\ job'[j] = r
  BY <1>2, <1>3
<1>8. /\ \A v \in Worker : v # w => worker'[v] = worker[v]
      /\ \A i \in Job : i # j => job'[i] = job[i]
  BY <1>2, <1>3
<1>9. worker'[w].window = window
  BY <1>5, <1>7
<1>10. job'[j].status = "running" /\ job'[j].cursor = old.cursor /\ job'[j].started = started
  BY <1>6, <1>7
<1>11. /\ worker'[w].seen = Never /\ worker'[w].cursor = None /\ worker'[w].first = None
       /\ worker'[w].page = NoPage /\ worker'[w].pc = "job" /\ worker'[w].job = j
  BY <1>1, <1>4, <1>7
<1> QED  BY <1>8, <1>9, <1>10, <1>11 DEF started, old

LEMMA TimeClaim ==
  ASSUME TypeInv, TimeInv, NEW w \in Worker, NEW j \in Job, NEW window \in Windowed,
         ClaimJob(w, j, window)
  PROVE  TimeInv'
<1> USE Numbers
<1>1. window \in BOOLEAN
  BY SyncBounds
<1>2. /\ worker'[w].seen = Never /\ worker'[w].window = window
      /\ \A v \in Worker : v # w => worker'[v] = worker[v]
      /\ job'[j].status = "running" /\ job'[j].cursor = job[j].cursor
      /\ job'[j].started = IF job[j].started = None THEN clock ELSE job[j].started
      /\ \A i \in Job : i # j => job'[i] = job[i]
  BY <1>1, ClaimMarks
<1>3. UNCHANGED <<clock, watermark>> /\ job[j].status \in Active
  BY DEF ClaimJob, Claimable, provider
<1>4. job \in [Job -> JobRow] /\ clock \in Time
  BY DEF TypeInv, TypeOK
<1>5. Started(j)' /\ job[j].started \in Time \cup {None}
  BY <1>2, <1>4 DEF Started, JobRow
<1>6. \A i \in Job : i # j => (Started(i)' <=> Started(i))
  BY <1>2 DEF Started
<1>7. job'[j].started = clock \/ (Started(j) /\ job'[j].started = job[j].started)
  BY <1>2, <1>5 DEF Started
<1>8. \A i \in Job : Started(i)' => job'[i].started <= clock'
  BY <1>2, <1>3, <1>6, <1>7 DEF TimeInv, Started
<1>9. StartsInOrder'
  <2>1. \A i \in Job : job[i].status \in Ended => i # j /\ Started(i) /\ job[i].started <= clock
    BY <1>3 DEF TimeInv
  <2> QED  BY <1>2, <1>3, <1>6, <1>7, <2>1 DEF TimeInv, StartsInOrder
<1>10. ASSUME NEW m \in Int, m <= clock,
              \A i \in Job : job[i].status \in Active /\ Started(i) => m <= job[i].started
       PROVE  /\ m <= clock'
              /\ \A i \in Job : job'[i].status \in Active /\ Started(i)' => m <= job'[i].started
  BY <1>2, <1>3, <1>6, <1>7, <1>10
<1>11. MarkedBefore(watermark)'
  BY <1>3, <1>10 DEF TimeInv, MarkedBefore
<1>12. \A v \in Worker : MarkedBefore(worker[v].seen)'
  <2>1. ASSUME NEW i \in Job, Started(i)
        PROVE  Never <= job[i].started
    BY <2>1 DEF Started
  <2> QED  BY <1>2, <1>10, <2>1 DEF TimeInv, MarkedBefore
<1>13. \A i \in Job : job'[i].status \in Ended \/ job'[i].cursor # None => Started(i)'
  BY <1>2, <1>5, <1>6 DEF TimeInv
<1>14. \A i \in Job : job'[i].status \in {"absent", "queued"} => job'[i].started = None
  BY <1>2 DEF TimeInv
<1>15. \A v \in Worker : worker'[v].window \in Windowed \cup {FALSE}
  BY <1>2 DEF TimeInv
<1> QED  BY <1>8, <1>9, <1>11, <1>12, <1>13, <1>14, <1>15 DEF TimeInv

(* A worker's step leaves every start alone, and its job's row as it was or *)
(* ended; the cursors of the others' jobs stay.                            *)
LEMMA StepRows ==
  ASSUME TypeInv, PullInv, NEW w \in Worker, Step(w) \/ WorkerDies(w)
  PROVE  /\ Busy(w) /\ worker[w].job \in Job /\ Started(worker[w].job)
         /\ \A v \in Worker : v # w => worker'[v] = worker[v]
         /\ \A v \in Worker : Busy(v)' => Busy(v) /\ worker'[v].job = worker[v].job
         /\ \A i \in Job : i # worker[w].job => job'[i] = job[i]
         /\ \A i \in Job : job'[i].started = job[i].started
         /\ \A i \in Job : \/ job'[i].status = job[i].status
                           \/ i = worker[w].job /\ job'[i].status \in Ended
         /\ job[worker[w].job].status \in Ended \cup {"running"}
<1>1. PICK c, r : LeavesCall(w, c) /\ LeavesRow(w, c, r)
  BY StepShape
<1>2. job \in [Job -> JobRow] /\ worker \in [Worker -> Call]
  BY DEF TypeInv, TypeOK
<1>3. Busy(w) /\ worker[w].job \in Job /\ Started(worker[w].job)
  BY StepShape, BusyAtWork, AtWork DEF Started, Row
<1>4. /\ worker'[w] = c /\ (c.job = None \/ c.job = worker[w].job)
      /\ \A v \in Worker : v # w => worker'[v] = worker[v]
  BY <1>1, <1>2, IdleCall DEF LeavesCall, GoesOn
<1>5. /\ job'[worker[w].job] = r /\ r.started = job[worker[w].job].started
      /\ r.status = job[worker[w].job].status \/ r.status \in Ended
      /\ \A i \in Job : i # worker[w].job => job'[i] = job[i]
  BY <1>1, <1>2, <1>3 DEF LeavesRow, Row
<1>6. \A v \in Worker : Busy(v)' => Busy(v) /\ worker'[v].job = worker[v].job
  BY <1>3, <1>4 DEF Busy
<1>7. job[worker[w].job].status \in Ended \cup {"running"}
  BY <1>3 DEF PullInv, WorkedOnClaimed, Row
<1> QED  BY <1>3, <1>4, <1>5, <1>6, <1>7

LEMMA TimeWorkerStep ==
  ASSUME TypeInv, PullInv, TimeInv, NEW w \in Worker, Step(w) \/ WorkerDies(w)
  PROVE  TimeInv'
<1> USE Numbers
<1> DEFINE j == worker[w].job
<1>1. /\ Busy(w) /\ j \in Job /\ Started(j)
      /\ \A v \in Worker : v # w => worker'[v] = worker[v]
      /\ \A i \in Job : i # j => job'[i] = job[i]
      /\ \A i \in Job : job'[i].started = job[i].started
      /\ \A i \in Job : \/ job'[i].status = job[i].status
                        \/ i = j /\ job'[i].status \in Ended
      /\ job[j].status \in Ended \cup {"running"}
  BY StepRows
<1>2. /\ worker'[w].seen \in {Never, watermark, worker[w].seen}
      /\ worker'[w].window \in {FALSE, worker[w].window}
      /\ watermark' \in {watermark, worker[w].seen, job[j].started}
  BY StepMarks DEF Row
<1>3. clock' = clock
  BY StepWrites DEF provider
<1> HIDE DEF j
<1>4. \A i \in Job : Started(i)' <=> Started(i)
  BY <1>1 DEF Started
<1>5. \A i \in Job : job'[i].status \in Active => job[i].status \in Active
  BY <1>1
(* The worker's own job: no other is active, or it has ended before. *)
<1>6. ASSUME NEW i \in Job, job'[i].status \in Active, Started(i)
      PROVE  job[j].started <= job[i].started
  <2>1. job[i].status \in Active /\ i \in Job
    BY <1>5, <1>6
  <2>2. CASE job[j].status \in Ended
    BY <1>1, <1>6, <2>1, <2>2 DEF TimeInv, StartsInOrder
  <2>3. CASE job[j].status = "running"
    <3>1. i = j
      BY <1>1, <2>1, <2>3 DEF PullInv, OneActiveJob
    <3> QED  BY <1>1, <3>1 DEF Started
  <2> QED  BY <1>1, <2>2, <2>3
<1>7. StartsInOrder'
  <2> SUFFICES ASSUME NEW i \in Job, NEW k \in Job, job'[i].status \in Ended,
                      job'[k].status \in Active, Started(k)'
               PROVE  job'[i].started <= job'[k].started
    BY DEF StartsInOrder
  <2>1. CASE job[i].status \in Ended
    BY <1>1, <1>4, <1>5, <2>1 DEF TimeInv, StartsInOrder
  <2>2. CASE job[i].status \notin Ended
    <3>1. i = j
      BY <1>1, <2>2
    <3> QED  BY <1>1, <1>4, <1>6, <3>1
  <2> QED  BY <2>1, <2>2
<1>8. ASSUME NEW m \in Int, MarkedBefore(m) \/ m = Never \/ m = job[j].started
      PROVE  /\ m <= clock'
             /\ \A i \in Job : job'[i].status \in Active /\ Started(i)' => m <= job'[i].started
  <2>1. CASE MarkedBefore(m)
    BY <1>1, <1>3, <1>4, <1>5, <2>1 DEF MarkedBefore
  <2>2. CASE m = Never
    BY <1>1, <1>3, <1>4, <2>2 DEF Started
  <2>3. CASE m = job[j].started
    BY <1>1, <1>3, <1>4, <1>6, <2>3 DEF TimeInv
  <2> QED  BY <1>8, <2>1, <2>2, <2>3
<1>9. MarkedBefore(watermark)'
  <2>1. watermark' \in Int /\ (MarkedBefore(watermark') \/ watermark' = job[j].started)
    BY <1>1, <1>2 DEF TimeInv, Started
  <2> QED  BY <1>8, <2>1 DEF MarkedBefore
<1>10. \A v \in Worker : MarkedBefore(worker[v].seen)'
  <2> TAKE v \in Worker
  <2>1. worker'[v].seen \in Int /\ (MarkedBefore(worker'[v].seen) \/ worker'[v].seen = Never)
    BY <1>1, <1>2 DEF TimeInv
  <2> QED  BY <1>8, <2>1 DEF MarkedBefore
<1>11. \A i \in Job : Started(i)' => job'[i].started <= clock'
  BY <1>1, <1>3, <1>4 DEF TimeInv
<1>12. \A i \in Job : job'[i].status \in Ended \/ job'[i].cursor # None => Started(i)'
  BY <1>1, <1>4 DEF TimeInv
<1>13. \A i \in Job : job'[i].status \in {"absent", "queued"} => job'[i].started = None
  BY <1>1 DEF TimeInv
<1>14. \A v \in Worker : worker'[v].window \in Windowed \cup {FALSE}
  BY <1>1, <1>2 DEF TimeInv
<1> QED  BY <1>7, <1>9, <1>10, <1>11, <1>12, <1>13, <1>14 DEF TimeInv

LEMMA TimeNext ==
  ASSUME TypeInv, PullInv, TimeInv, [Next]_vars
  PROVE  TimeInv'
<1>1. CASE \E j \in Job : EnqueueJob(j) \/ RequestCancel(j) \/ HeartbeatStale(j)
  BY <1>1, TimeEnvironment
<1>2. CASE \E w \in Worker, j \in Job, window \in Windowed : ClaimJob(w, j, window)
  BY <1>2, TimeClaim
<1>3. CASE \E w \in Worker : Step(w) \/ WorkerDies(w)
  BY <1>3, TimeWorkerStep
<1>4. CASE (\E d \in Doc : ProviderChanges(d)) \/ TimePasses \/ UNCHANGED vars
  <2>1. /\ clock' \in {clock, clock + 1}
        /\ UNCHANGED <<watermark, worker, job>>
    BY <1>4 DEF ProviderChanges, TimePasses, vars
  <2>2. clock' \in Int /\ clock' >= clock
    BY <2>1, Numbers
  <2> QED  BY <2>1, <2>2, TimeStays
<1> QED  BY <1>1, <1>2, <1>3, <1>4 DEF Next
----------------------------------------------------------------------------
(* What was stored stays stored *)

(* From ch, st to ch2, st2 no document that has what changed before s      *)
(* loses it, but by changing anew.                                         *)
Kept(ch, st, ch2, st2, s) ==
  \A d \in Doc :
    \/ ch2[d] = ch[d] /\ (Has(ch, st, d, s) => Has(ch2, st2, d, s))
    \/ ch2[d] >= s

LEMMA KeptHas ==
  ASSUME NEW ch, NEW st, NEW ch2 \in [Doc -> Int], NEW st2, NEW s \in Int,
         Kept(ch, st, ch2, st2, s), NEW d \in Doc
  PROVE  \/ ch2[d] = ch[d] /\ (Has(ch, st, d, s) => Has(ch2, st2, d, s))
         \/ ch2[d] >= s /\ Has(ch2, st2, d, s)
BY DEF Kept, Has

LEMMA ThroughKept ==
  ASSUME NEW ch, NEW st, NEW ch2 \in [Doc -> Int], NEW st2, NEW s \in Int, NEW x,
         Kept(ch, st, ch2, st2, s), Through(ch, st, s, x)
  PROVE  Through(ch2, st2, s, x)
BY KeptHas DEF Through

LEMMA CoversKept ==
  ASSUME NEW ch, NEW st, NEW ch2 \in [Doc -> Int], NEW st2, NEW s \in Int, NEW x, NEW c,
         Kept(ch, st, ch2, st2, s), Covers(ch, st, c, s, x)
  PROVE  Covers(ch2, st2, c, s, x)
<1> SUFFICES ASSUME NEW d \in Doc, d # x, Skips(ch2, c, d)
             PROVE  Has(ch2, st2, d, s)
  BY DEF Covers
<1>1. CASE ch2[d] = ch[d] /\ (Has(ch, st, d, s) => Has(ch2, st2, d, s))
  <2>1. Skips(ch, c, d)
    BY <1>1 DEF Skips
  <2> QED  BY <1>1, <2>1 DEF Covers
<1> QED  BY <1>1, KeptHas

LEMMA CallKept ==
  ASSUME NEW ch, NEW st, NEW ch2 \in [Doc -> Int], NEW st2, NEW s \in Int, NEW b \in Call,
         Kept(ch, st, ch2, st2, s), CallCovers(ch, st, b, s)
  PROVE  CallCovers(ch2, st2, b, s)
<1>1. b.page.doc # None => b.page.at = ch2[b.page.doc] \/ ch2[b.page.doc] >= s
  <2> SUFFICES ASSUME b.page.doc # None
               PROVE  b.page.at = ch2[b.page.doc] \/ ch2[b.page.doc] >= s
    OBVIOUS
  <2>1. b.page.doc \in Doc
    BY DEF Call, Page
  <2>2. b.page.at = ch[b.page.doc] \/ ch[b.page.doc] >= s
    BY DEF CallCovers
  <2> QED  BY <2>1, <2>2, KeptHas
<1>2. b.page.next # None => Covers(ch2, st2, b.page.next, s, b.page.doc)
  BY CoversKept DEF CallCovers
<1>3. /\ b.cursor # None => Covers(ch2, st2, b.cursor, s, None)
      /\ b.first # None => Covers(ch2, st2, b.first, s, None)
  BY CoversKept DEF CallCovers
<1>4. /\ b.pc \in {"check", "store", "beat"} /\ b.page.next = None
         => Through(ch2, st2, s, b.page.doc)
      /\ b.pc = "mark" /\ b.ending = "succeeded" => Through(ch2, st2, s, None)
  BY ThroughKept DEF CallCovers
<1>5. b.pc = "beat" => b.page.doc = None
  BY DEF CallCovers
<1> QED  BY <1>1, <1>2, <1>3, <1>4, <1>5 DEF CallCovers

(* What holds up to s holds up to any time before. *)
LEMMA ThroughBefore ==
  ASSUME NEW ch \in [Doc -> Int], NEW st, NEW s \in Int, NEW t \in Int, t <= s, NEW x,
         Through(ch, st, s, x)
  PROVE  Through(ch, st, t, x)
BY DEF Through, Has

LEMMA ChangedInt ==
  ASSUME TypeInv
  PROVE  changed \in [Doc -> Int]
BY SyncBounds DEF TypeInv, TypeOK, Time

(* A mark reaches less far than its own time. *)
LEMMA MarkReach ==
  ASSUME TypeInv, TimeInv, NEW m \in Time \cup {Never}
  PROVE  /\ OverlapSince(m) \in Int /\ OverlapSince(m) + 1 \in Int
         /\ m \in Time => OverlapSince(m) + 1 <= m
         /\ MarkedBefore(m) => MarkedBefore(OverlapSince(m) + 1)
<1> USE Numbers
<1>1. m = Never => OverlapSince(m) + 1 = 0
  BY DEF OverlapSince, Never
<1>2. m \in Time => OverlapSince(m) = m - Overlap
  BY DEF OverlapSince
<1>3. MarkedBefore(0)
  BY DEF MarkedBefore, Started
<1>4. m \in Int /\ (m \in Time => OverlapSince(m) + 1 <= m)
  BY <1>2
<1>5. OverlapSince(m) \in Int
  BY <1>1, <1>2 DEF OverlapSince, Never
<1>6. ASSUME m \in Time, MarkedBefore(m)
      PROVE  MarkedBefore(OverlapSince(m) + 1)
  <2> DEFINE o == OverlapSince(m) + 1
  <2>1. o \in Int /\ o <= m /\ m \in Int
    BY <1>4, <1>5, <1>6
  <2> HIDE DEF o
  <2>2. ASSUME NEW t \in Int, m <= t
        PROVE  o <= t
    BY <2>1, <2>2
  <2>3. m <= clock /\ clock \in Int
    BY <1>6 DEF MarkedBefore
  <2>4. ASSUME NEW j \in Job, job[j].status \in Active, Started(j)
        PROVE  o <= job[j].started
    <3>1. m <= job[j].started /\ job[j].started \in Int
      BY <1>6, <2>4 DEF MarkedBefore, Started
    <3> QED  BY <2>2, <3>1
  <2>5. MarkedBefore(o)
    BY <2>2, <2>3, <2>4 DEF MarkedBefore
  <2> QED  BY <2>5 DEF o
<1> QED  BY <1>1, <1>3, <1>4, <1>5, <1>6

(* No active job was started before any other. *)
LEMMA StartsMarked ==
  ASSUME TypeInv, PullInv, TimeInv, NEW i \in Job, Started(i)
  PROVE  job[i].started \in Int /\ MarkedBefore(job[i].started)
<1>1. job[i].started \in Time /\ job[i].started \in Int
  BY Numbers DEF Started
<1>2. job[i].status \in Ended \cup Active
  BY <1>1, SyncWorkers DEF TimeInv, TypeInv, TypeOK, JobRow
<1>3. job[i].started <= clock
  BY DEF TimeInv
<1>4. ASSUME NEW j \in Job, job[j].status \in Active, Started(j)
      PROVE  job[i].started <= job[j].started
  <2>1. CASE job[i].status \in Ended
    BY <1>4, <2>1 DEF TimeInv, StartsInOrder
  <2>2. CASE job[i].status \in Active
    BY <1>1, <1>4, <2>2 DEF PullInv, OneActiveJob
  <2> QED  BY <1>2, <2>1, <2>2
<1> QED  BY <1>1, <1>3, <1>4 DEF MarkedBefore

LEMMA LateStays ==
  ASSUME TypeInv, [Next]_vars, slow' # "late"
  PROVE  slow # "late"
<1>1. CASE \E j \in Job : EnqueueJob(j) \/ RequestCancel(j) \/ HeartbeatStale(j)
  BY <1>1 DEF EnqueueJob, RequestCancel, HeartbeatStale
<1>2. CASE \E w \in Worker, j \in Job, window \in Windowed : ClaimJob(w, j, window)
  BY <1>2 DEF ClaimJob
<1>3. CASE \E w \in Worker : Step(w) \/ WorkerDies(w)
  BY <1>3, StepWrites
<1>4. CASE (\E d \in Doc : ProviderChanges(d)) \/ TimePasses \/ UNCHANGED vars
  BY <1>4 DEF ProviderChanges, TimePasses, vars
<1> QED  BY <1>1, <1>2, <1>3, <1>4 DEF Next

(* A page that is stored while its job has not ended is the latest version, *)
(* or the document changed again since the job was started: what any sync, *)
(* before or beside it, has stored and still counts on stays.              *)
LEMMA StoreKeeps ==
  ASSUME TypeInv, PullInv, TimeInv, CoverInv, NEW w \in Worker, StorePage(w),
         slow' # "late", slow # "late", NEW s \in Int, MarkedBefore(s)
  PROVE  Kept(changed, stored, changed', stored', s)
<1> DEFINE p == worker[w].page
<1>1. /\ worker[w].pc = "store" /\ Row(w).status \notin Ended
      /\ stored' = [d \in Doc |-> IF d = p.doc THEN p.at ELSE stored[d]]
      /\ changed' = changed
  BY DEF StorePage, At, provider
<1>2. Busy(w) /\ worker[w].job \in Job /\ worker[w] \in Call
      /\ Started(worker[w].job)
  BY <1>1, BusyAtWork, AtWork DEF Started, Row
<1>3. Row(w).status = "running"
  BY <1>1, <1>2 DEF PullInv, WorkedOnClaimed
<1>4. s <= Row(w).started /\ Row(w).started \in Int
  BY <1>2, <1>3, Numbers DEF MarkedBefore, Row, Started
<1>5. p.doc # None => p.at = changed[p.doc] \/ changed[p.doc] >= Row(w).started
  BY <1>2 DEF CoverInv, CallsCover, CallCovers
<1>6. p.doc \in Doc \cup {None}
  BY <1>2 DEF Call, Page
<1> HIDE DEF p
<1> SUFFICES ASSUME NEW d \in Doc
             PROVE  \/ changed'[d] = changed[d] /\ (Has(changed, stored, d, s) => Has(changed', stored', d, s))
                    \/ changed'[d] >= s
  BY DEF Kept
<1>7. CASE d # p.doc
  BY <1>1, <1>7 DEF Has
<1>8. CASE d = p.doc
  <2>1. stored'[d] = p.at /\ d # None /\ changed[d] \in Int
    BY <1>1, <1>8, SyncWorkers, Numbers
  <2>2. CASE p.at = changed[d]
    BY <1>1, <2>1, <2>2 DEF Has
  <2>3. CASE changed[d] >= Row(w).started
    BY <1>1, <1>4, <2>1, <2>3
  <2> QED  BY <1>5, <1>8, <2>1, <2>2, <2>3
<1> QED  BY <1>7, <1>8

LEMMA NextKeeps ==
  ASSUME TypeInv, PullInv, TimeInv, CoverInv, [Next]_vars, slow' # "late",
         NEW s \in Int, MarkedBefore(s)
  PROVE  Kept(changed, stored, changed', stored', s)
<1>1. ASSUME changed' = changed, stored' = stored
      PROVE  Kept(changed, stored, changed', stored', s)
  BY <1>1 DEF Kept
<1>2. CASE \E w \in Worker : StorePage(w)
  BY <1>2, StoreKeeps, LateStays
<1>3. CASE \E d \in Doc : ProviderChanges(d)
  <2>1. PICK d \in Doc : changed' = [changed EXCEPT ![d] = clock] /\ stored' = stored
    BY <1>3 DEF ProviderChanges
  <2>2. changed'[d] >= s /\ \A e \in Doc : e # d => changed'[e] = changed[e]
    BY <2>1, ChangedInt, Numbers DEF MarkedBefore
  <2> QED  BY <2>1, <2>2 DEF Kept, Has
<1>4. ASSUME NEW w \in Worker, Step(w) \/ WorkerDies(w), ~StorePage(w)
      PROVE  changed' = changed /\ stored' = stored
  BY <1>4
  DEF Step, WorkerDies, ReadJob, ReadSource, SourceUnusable, SeedTotal, SkipTotal,
      PullPage, CheckCancel, Beat, BeatAndLeave, SyncFails, SetSourceSync, FinishJob,
      Return, provider
<1>5. ASSUME \/ \E j \in Job : EnqueueJob(j) \/ RequestCancel(j) \/ HeartbeatStale(j)
             \/ \E w \in Worker, j \in Job, window \in Windowed : ClaimJob(w, j, window)
             \/ TimePasses \/ UNCHANGED vars
      PROVE  changed' = changed /\ stored' = stored
  BY <1>5 DEF EnqueueJob, RequestCancel, HeartbeatStale, ClaimJob, TimePasses, vars, provider
<1> QED  BY <1>1, <1>2, <1>3, <1>4, <1>5 DEF Next

(* So all that holds of the marks, cursors and calls before a step holds of *)
(* the same marks, cursors and calls after it.                             *)
LEMMA Carried ==
  ASSUME TypeInv, PullInv, TimeInv, CoverInv, [Next]_vars, slow' # "late"
  PROVE  /\ Safe(changed', stored', watermark)
         /\ \A w \in Worker : Safe(changed', stored', worker[w].seen)
         /\ \A j \in Job : job[j].cursor # None =>
              Covers(changed', stored', job[j].cursor, job[j].started, None)
         /\ \A w \in Worker : Busy(w) =>
              CallCovers(changed', stored', worker[w], Row(w).started)
<1>1. changed' \in [Doc -> Int] /\ slow # "late"
  <2>1. TypeInv'
    BY TypeNext
  <2> QED  BY <2>1, LateStays, SyncBounds DEF TypeInv, TypeOK, Time
<1>2. \A s \in Int : MarkedBefore(s) => Kept(changed, stored, changed', stored', s)
  BY NextKeeps
<1>3. ASSUME NEW m \in Time \cup {Never}, MarkedBefore(m), Safe(changed, stored, m)
      PROVE  Safe(changed', stored', m)
  BY <1>1, <1>2, <1>3, MarkReach, ThroughKept DEF Safe
<1>4. /\ watermark \in Time \cup {Never}
      /\ \A w \in Worker : worker[w].seen \in Time \cup {Never}
      /\ \A w \in Worker : worker[w] \in Call
  BY DEF TypeInv, TypeOK, Call
<1>5. Safe(changed', stored', watermark)
  BY <1>1, <1>3, <1>4 DEF TimeInv, CoverInv, WatermarkSafe
<1>6. ASSUME NEW w \in Worker
      PROVE  Safe(changed', stored', worker[w].seen)
  BY <1>1, <1>3, <1>4 DEF TimeInv, CoverInv, SeenSafe
<1>7. ASSUME NEW j \in Job, job[j].cursor # None
      PROVE  Covers(changed', stored', job[j].cursor, job[j].started, None)
  <2>1. Started(j)
    BY <1>7 DEF TimeInv
  <2>2. Covers(changed, stored, job[j].cursor, job[j].started, None)
    BY <1>1, <1>7 DEF CoverInv, RowsCover
  <2> QED  BY <1>1, <1>2, <2>1, <2>2, StartsMarked, CoversKept
<1>8. ASSUME NEW w \in Worker, Busy(w)
      PROVE  CallCovers(changed', stored', worker[w], Row(w).started)
  <2>1. worker[w].job \in Job /\ Started(worker[w].job)
    BY <1>8, BusyAtWork, AtWork DEF Started, Row
  <2>2. Row(w).started \in Int /\ MarkedBefore(Row(w).started)
    BY <2>1, StartsMarked DEF Row
  <2>3. CallCovers(changed, stored, worker[w], Row(w).started)
    BY <1>1, <1>8 DEF CoverInv, CallsCover
  <2> QED  BY <1>1, <1>2, <1>4, <2>2, <2>3, CallKept
<1> QED  BY <1>5, <1>6, <1>7, <1>8
----------------------------------------------------------------------------
(* A worker's step covers what it claims *)

(* A call that holds no cursor, no page and no success claims nothing. *)
LEMMA QuietCall ==
  ASSUME NEW ch, NEW st, NEW c, NEW s,
         c.cursor = None, c.first = None, c.page = NoPage,
         c.pc \notin {"check", "store", "beat"},
         c.pc = "mark" => c.ending # "succeeded"
  PROVE  CallCovers(ch, st, c, s)
<1>1. c.page.next = None /\ c.page.doc = None
  BY DEF NoPage
<1> QED  BY <1>1 DEF CallCovers

LEMMA EndFields ==
  ASSUME TypeInv, NEW w \in Worker, NEW pc, NEW status, NEW seen, End(w, pc, status, seen)
  PROVE  /\ worker'[w].cursor = None /\ worker'[w].first = None
         /\ worker'[w].page = NoPage /\ worker'[w].pc = pc /\ worker'[w].ending = status
<1> DEFINE i == Idle
           c == [i EXCEPT !.pc = pc, !.job = worker[w].job, !.seen = seen,
                          !.window = worker[w].window, !.ending = status]
<1>1. i \in Call /\ i.cursor = None /\ i.first = None /\ i.page = NoPage
  BY IdleCall DEF Idle
<1>2. worker'[w] = c
  BY DEF End, TypeInv, TypeOK
<1> HIDE DEF i
<1>3. /\ c.cursor = i.cursor /\ c.first = i.first /\ c.page = i.page
      /\ c.pc = pc /\ c.ending = status
  BY <1>1 DEF Call
<1> HIDE DEF c
<1> QED  BY <1>1, <1>2, <1>3

LEMMA EndCovers ==
  ASSUME TypeInv, NEW w \in Worker, NEW pc \in {"mark", "finish", "done"}, NEW status,
         NEW seen, End(w, pc, status, seen), NEW ch, NEW st, NEW s,
         pc = "mark" => status # "succeeded"
  PROVE  CallCovers(ch, st, worker'[w], s)
BY EndFields, QuietCall

LEMMA IdleCovers ==
  ASSUME TypeInv, NEW w \in Worker, worker' = [worker EXCEPT ![w] = Idle],
         NEW ch, NEW st, NEW s
  PROVE  CallCovers(ch, st, worker'[w], s)
<1>1. worker'[w] = Idle
  BY DEF TypeInv, TypeOK
<1>2. /\ Idle.cursor = None /\ Idle.first = None /\ Idle.page = NoPage
      /\ Idle.pc = "idle"
  BY DEF Idle
<1> QED  BY <1>1, <1>2, QuietCall

(* A call that goes on without a page: its cursors are those of before.    *)
LEMMA CursorCall ==
  ASSUME NEW ch, NEW st, NEW b, NEW c, NEW s, CallCovers(ch, st, b, s),
         c.page = b.page,
         c.pc \notin {"check", "store", "beat", "mark"},
         c.cursor # None => Covers(ch, st, c.cursor, s, None),
         c.first # None => Covers(ch, st, c.first, s, None)
  PROVE  CallCovers(ch, st, c, s)
BY DEF CallCovers

LEMMA ReadJobCovers ==
  ASSUME TypeInv, NEW w \in Worker, ReadJob(w), NEW ch, NEW st, NEW s,
         CallCovers(ch, st, worker[w], s),
         Row(w).cursor # None => Covers(ch, st, Row(w).cursor, s, None)
  PROVE  CallCovers(ch, st, worker'[w], s)
<1> DEFINE b == worker[w]
           c == [b EXCEPT !.pc = "source", !.cursor = Row(w).cursor]
<1>1. b \in Call /\ worker'[w] = c
  BY DEF ReadJob, TypeInv, TypeOK
<1>2. b.first # None => Covers(ch, st, b.first, s, None)
  BY DEF CallCovers
<1> HIDE DEF b
<1>3. c.pc = "source" /\ c.cursor = Row(w).cursor /\ c.first = b.first /\ c.page = b.page
  BY <1>1 DEF Call
<1> HIDE DEF c
<1>4. CallCovers(ch, st, b, s)
  BY DEF b
<1> QED  BY <1>1, <1>2, <1>3, <1>4, CursorCall

(* Without windows, a sync from the first page asks for all that is not    *)
(* known to be stored.                                                     *)
LEMMA FirstPageCovers ==
  ASSUME TypeInv, TimeInv, NEW window \in BOOLEAN, window \in Windowed \cup {FALSE},
         NEW st, NEW s, Safe(changed, st, watermark)
  PROVE  Covers(changed, st, FirstPage(Since(watermark, window)), s, None)
<1> DEFINE since == Since(watermark, window)
<1>1. FirstPage(since).since = since /\ FirstPage(since).from = 1
  BY DEF FirstPage
<1>2. NoWindow => since = OverlapSince(watermark)
  BY DEF NoWindow, Since
<1>3. OverlapSince(watermark) \in Int
  BY MarkReach DEF TypeInv, TypeOK
<1> HIDE DEF since
<1> SUFFICES ASSUME NEW d \in Doc, Skips(changed, FirstPage(since), d)
             PROVE  Has(changed, st, d, s)
  BY DEF Covers, since
<1>4. NoWindow /\ ~(changed[d] > since)
  <2>1. ~(d < 1)
    BY SyncBounds DEF Doc
  <2> QED  BY <1>1, <2>1 DEF Skips
<1>5. changed[d] < OverlapSince(watermark) + 1
  BY <1>2, <1>3, <1>4, Numbers
<1>6. d # None
  BY SyncWorkers
<1> QED  BY <1>4, <1>5, <1>6 DEF Safe, Through, Has

LEMMA ReadSourceCovers ==
  ASSUME TypeInv, TimeInv, NEW w \in Worker, ReadSource(w), NEW st, NEW s,
         CallCovers(changed, st, worker[w], s), Safe(changed, st, watermark)
  PROVE  CallCovers(changed, st, worker'[w], s)
<1> DEFINE b == worker[w]
           first == IF b.cursor # None THEN b.cursor
                    ELSE FirstPage(Since(watermark, b.window))
           c == [b EXCEPT !.pc = "total", !.seen = watermark, !.first = first]
<1>1. /\ b \in Call /\ worker'[w] = c
      /\ b.window \in BOOLEAN /\ b.window \in Windowed \cup {FALSE}
  BY DEF ReadSource, TypeInv, TypeOK, TimeInv, Call
<1>2. b.cursor # None => Covers(changed, st, b.cursor, s, None)
  BY DEF CallCovers
<1>3. Covers(changed, st, first, s, None)
  BY <1>1, <1>2, FirstPageCovers
<1> HIDE DEF b, first
<1>4. c.pc = "total" /\ c.cursor = b.cursor /\ c.first = first /\ c.page = b.page
  BY <1>1 DEF Call
<1> HIDE DEF c
<1>5. CallCovers(changed, st, b, s)
  BY DEF b
<1> QED  BY <1>1, <1>2, <1>3, <1>4, <1>5, CursorCall

LEMMA StartCovers ==
  ASSUME TypeInv, NEW w \in Worker, StartPulling(w), NEW ch, NEW st, NEW s,
         CallCovers(ch, st, worker[w], s)
  PROVE  CallCovers(ch, st, worker'[w], s)
<1> DEFINE b == worker[w]
           c == [b EXCEPT !.pc = "pull", !.first = None, !.cursor = b.first]
<1>1. b \in Call /\ worker'[w] = c
  BY DEF StartPulling, TypeInv, TypeOK
<1>2. b.first # None => Covers(ch, st, b.first, s, None)
  BY DEF CallCovers
<1> HIDE DEF b
<1>3. c.pc = "pull" /\ c.cursor = b.first /\ c.first = None /\ c.page = b.page
  BY <1>1 DEF Call
<1> HIDE DEF c
<1>4. CallCovers(ch, st, b, s)
  BY DEF b
<1> QED  BY <1>1, <1>2, <1>3, <1>4, CursorCall

(* The page pulled is the first from the cursor on: but for it, whatever   *)
(* lies before the next page lay before this one.  When there is no next   *)
(* page, nothing is left.                                                  *)
LEMMA PagesCovered ==
  ASSUME TypeInv, NEW st, NEW s, NEW c \in Cursor, Covers(changed, st, c, s, None),
         NEW d \in Pages(c), \A e \in Pages(c) : d <= e
  PROVE  /\ NextPage(c, d) # None => Covers(changed, st, NextPage(c, d), s, d)
         /\ NextPage(c, d) = None => Through(changed, st, s, d)
<1>1. /\ d \in Doc /\ d \in Int /\ c.from \in Int /\ c.since \in Int
      /\ \A e \in Doc : e \in Int /\ e # None
  BY SyncBounds, SyncWorkers DEF Pages, Doc, Cursor
(* Of the documents a cursor lists, those before d lie before the cursor. *)
<1>2. ASSUME NEW e \in Doc, changed[e] > c.since, e < d
      PROVE  Has(changed, st, e, s)
  <2>1. e \notin Pages(c)
    BY <1>1, <1>2
  <2>2. e < c.from
    BY <1>1, <1>2, <2>1 DEF Pages, Listed
  <2> QED  BY <1>1, <1>2, <2>2 DEF Covers, Skips
<1>3. ASSUME NEW e \in Doc, NoWindow, ~(changed[e] > c.since)
      PROVE  Has(changed, st, e, s)
  BY <1>1, <1>3 DEF Covers, Skips
<1>4. ASSUME NextPage(c, d) # None
      PROVE  Covers(changed, st, NextPage(c, d), s, d)
  <2> DEFINE n == NextPage(c, d)
  <2>1. n = [c EXCEPT !.from = d + 1]
    BY <1>4 DEF NextPage
  <2>2. n.from = d + 1 /\ n.since = c.since
    BY <2>1 DEF Cursor
  <2> HIDE DEF n
  <2> SUFFICES ASSUME NEW e \in Doc, e # d, Skips(changed, n, e)
               PROVE  Has(changed, st, e, s)
    BY DEF Covers, n
  <2>3. CASE e < d + 1 /\ changed[e] > c.since
    <3>1. e < d
      BY <1>1, <2>3
    <3> QED  BY <1>2, <2>3, <3>1
  <2>4. CASE NoWindow /\ ~(changed[e] > c.since)
    BY <1>3, <2>4
  <2> QED  BY <2>2, <2>3, <2>4 DEF Skips
<1>5. ASSUME NextPage(c, d) = None
      PROVE  Through(changed, st, s, d)
  <2>1. ~ \E e \in Pages(c) : e > d
    <3>1. SUFFICES ASSUME \E e \in Pages(c) : e > d
                   PROVE  FALSE
      OBVIOUS
    <3>2. NextPage(c, d) = [c EXCEPT !.from = d + 1]
      BY <3>1 DEF NextPage
    <3>3. [c EXCEPT !.from = d + 1] \in Cursor
      BY <1>1, SyncBounds DEF Cursor, Doc
    <3> QED  BY <1>5, <3>2, <3>3, NullCursor
  <2> SUFFICES ASSUME NoWindow, NEW e \in Doc, e # d
               PROVE  Has(changed, st, e, s)
    BY DEF Through
  <2>2. CASE ~(changed[e] > c.since)
    BY <1>3, <2>2
  <2>3. CASE changed[e] > c.since /\ e < d
    BY <1>2, <2>3
  <2>4. CASE changed[e] > c.since /\ e > d
    <3>1. e \notin Pages(c)
      BY <2>1, <2>4
    <3>2. e < c.from
      BY <1>1, <2>4, <3>1 DEF Pages, Listed
    <3> QED  BY <1>1, <2>4, <3>2 DEF Covers, Skips
  <2> QED  BY <1>1, <2>2, <2>3, <2>4
<1> QED  BY <1>4, <1>5

(* No page at all: nothing is left either. *)
LEMMA NoPagesCovered ==
  ASSUME TypeInv, NEW st, NEW s, NEW c \in Cursor, Covers(changed, st, c, s, None),
         Pages(c) = {}
  PROVE  Through(changed, st, s, None)
<1>1. /\ c.from \in Int /\ \A e \in Doc : e \in Int /\ e # None
  BY SyncBounds, SyncWorkers DEF Doc, Cursor
<1> SUFFICES ASSUME NoWindow, NEW e \in Doc
             PROVE  Has(changed, st, e, s)
  BY DEF Through
<1>2. CASE changed[e] > c.since
  <2>1. e < c.from
    BY <1>1, <1>2 DEF Pages, Listed
  <2> QED  BY <1>1, <1>2, <2>1 DEF Covers, Skips
<1>3. CASE ~(changed[e] > c.since)
  BY <1>1, <1>3 DEF Covers, Skips
<1> QED  BY <1>2, <1>3

LEMMA PullPageCovers ==
  ASSUME TypeInv, NEW w \in Worker, PullPage(w), NEW st, NEW s,
         CallCovers(changed, st, worker[w], s)
  PROVE  CallCovers(changed, st, worker'[w], s)
<1> DEFINE b == worker[w]
<1>1. b \in Call /\ b.pc = "pull" /\ b.cursor \in Cursor
  BY AtWork DEF PullPage, At, TypeInv, Sure
<1>2. /\ Covers(changed, st, b.cursor, s, None)
      /\ b.first # None => Covers(changed, st, b.first, s, None)
  BY <1>1, NullCursor DEF CallCovers
<1>3. PICK p : /\ worker' = [worker EXCEPT ![w].pc = "check", ![w].page = p,
                                           ![w].cursor = None]
               /\ \/ Pages(b.cursor) = {} /\ p = NoPage
                  \/ \E d \in Pages(b.cursor) :
                       /\ \A e \in Pages(b.cursor) : d <= e
                       /\ p = [doc |-> d, at |-> changed[d], next |-> NextPage(b.cursor, d)]
  BY DEF PullPage
<1> DEFINE c == [b EXCEPT !.pc = "check", !.page = p, !.cursor = None]
<1>4. worker'[w] = c
  BY <1>3 DEF TypeInv, TypeOK
<1> HIDE DEF b
<1>5. c.pc = "check" /\ c.cursor = None /\ c.first = b.first /\ c.page = p
  BY <1>1 DEF Call
<1> HIDE DEF c
<1>6. /\ p.next # None => Covers(changed, st, p.next, s, p.doc)
      /\ p.doc # None => p.at = changed[p.doc]
      /\ p.next = None => Through(changed, st, s, p.doc)
  <2>1. CASE Pages(b.cursor) = {} /\ p = NoPage
    <3>1. p.next = None /\ p.doc = None
      BY <2>1 DEF NoPage
    <3>2. Through(changed, st, s, None)
      BY <1>1, <1>2, <2>1, NoPagesCovered
    <3> QED  BY <3>1, <3>2
  <2>2. CASE \E d \in Pages(b.cursor) :
               /\ \A e \in Pages(b.cursor) : d <= e
               /\ p = [doc |-> d, at |-> changed[d], next |-> NextPage(b.cursor, d)]
    <3>1. PICK d \in Pages(b.cursor) :
               /\ \A e \in Pages(b.cursor) : d <= e
               /\ p = [doc |-> d, at |-> changed[d], next |-> NextPage(b.cursor, d)]
      BY <2>2
    <3>2. p.doc = d /\ p.at = changed[d] /\ p.next = NextPage(b.cursor, d)
      BY <3>1
    <3> QED  BY <1>1, <1>2, <3>1, <3>2, PagesCovered
  <2> QED  BY <1>3, <2>1, <2>2
<1> QED  BY <1>2, <1>4, <1>5, <1>6 DEF CallCovers

LEMMA CheckCancelCovers ==
  ASSUME TypeInv, NEW w \in Worker, CheckCancel(w), NEW ch, NEW st, NEW s,
         CallCovers(ch, st, worker[w], s)
  PROVE  CallCovers(ch, st, worker'[w], s)
<1> DEFINE b == worker[w]
           c == [b EXCEPT !.pc = "store"]
<1>1. CASE Row(w).cancel
  BY <1>1, EndCovers DEF CheckCancel
<1>2. CASE ~Row(w).cancel
  <2>1. b \in Call /\ b.pc = "check" /\ worker'[w] = c
    BY <1>2 DEF CheckCancel, At, Go, TypeInv, TypeOK
  <2> HIDE DEF b
  <2>2. c.pc = "store" /\ c.cursor = b.cursor /\ c.first = b.first /\ c.page = b.page
    BY <2>1 DEF Call
  <2> HIDE DEF c
  <2>3. CallCovers(ch, st, b, s)
    BY DEF b
  <2> QED  BY <2>1, <2>2, <2>3 DEF CallCovers
<1> QED  BY <1>1, <1>2

(* When the page is stored, nothing is left to be stored before its next. *)
LEMMA StorePageCovers ==
  ASSUME TypeInv, NEW w \in Worker, StorePage(w), NEW s \in Int,
         CallCovers(changed, stored', worker[w], s)
  PROVE  CallCovers(changed, stored', worker'[w], s)
<1> DEFINE b == worker[w]
           p == b.page
           page == [NoPage EXCEPT !.next = p.next]
           c == [b EXCEPT !.pc = "beat", !.page = page]
<1>1. /\ b \in Call /\ b.pc = "store" /\ worker'[w] = c
      /\ stored' = [d \in Doc |-> IF d = p.doc THEN p.at ELSE stored[d]]
  BY DEF StorePage, At, TypeInv, TypeOK
<1>2. p.doc \in Doc \cup {None} /\ None \notin Doc
  BY <1>1, SyncWorkers DEF Call, Page
<1>3. /\ b.cursor # None => Covers(changed, stored', b.cursor, s, None)
      /\ b.first # None => Covers(changed, stored', b.first, s, None)
      /\ p.next # None => Covers(changed, stored', p.next, s, p.doc)
      /\ p.doc # None => p.at = changed[p.doc] \/ changed[p.doc] >= s
      /\ p.next = None => Through(changed, stored', s, p.doc)
  BY <1>1 DEF CallCovers
<1>4. page.next = p.next /\ page.doc = None
  BY DEF NoPage
<1> HIDE DEF page, p
<1>5. \A d \in Doc : d = p.doc => Has(changed, stored', d, s)
  BY <1>1, <1>2, <1>3, ChangedInt DEF Has
<1>6. /\ p.next # None => Covers(changed, stored', p.next, s, None)
      /\ p.next = None => Through(changed, stored', s, None)
  BY <1>3, <1>5 DEF Covers, Through
<1> HIDE DEF b
<1>7. c.pc = "beat" /\ c.cursor = b.cursor /\ c.first = b.first /\ c.page = page
  BY <1>1 DEF Call
<1> HIDE DEF c
<1> QED  BY <1>1, <1>3, <1>4, <1>6, <1>7 DEF CallCovers

LEMMA BeatCovers ==
  ASSUME TypeInv, NEW w \in Worker, Beat(w), NEW ch, NEW st, NEW s,
         CallCovers(ch, st, worker[w], s)
  PROVE  CallCovers(ch, st, worker'[w], s)
<1> DEFINE b == worker[w]
           p == b.page
           c == [b EXCEPT !.pc = "pull", !.cursor = p.next, !.page = NoPage]
<1>1. b.pc = "beat" /\ b \in Call /\ p.doc = None
  BY DEF Beat, At, TypeInv, TypeOK, CallCovers
<1>2. NoPage.next = None /\ NoPage.doc = None
  BY DEF NoPage
<1>3. CASE p.next = None
  <2>1. Through(ch, st, s, None)
    BY <1>1, <1>3 DEF CallCovers
  <2>2. /\ worker'[w].cursor = None /\ worker'[w].first = None
        /\ worker'[w].page = NoPage /\ worker'[w].pc = "mark"
    BY <1>3, EndFields DEF Beat
  <2> QED  BY <1>2, <2>1, <2>2 DEF CallCovers
<1>4. CASE p.next # None
  <2>1. Covers(ch, st, p.next, s, None)
    BY <1>1, <1>4 DEF CallCovers
  <2>2. b.first # None => Covers(ch, st, b.first, s, None)
    BY DEF CallCovers
  <2>3. worker'[w] = c
    BY <1>4 DEF Beat, TypeInv, TypeOK
  <2> HIDE DEF b, p
  <2>4. c.pc = "pull" /\ c.cursor = p.next /\ c.first = b.first /\ c.page = NoPage
    BY <1>1 DEF Call
  <2> HIDE DEF c
  <2> QED  BY <1>2, <2>1, <2>2, <2>3, <2>4 DEF CallCovers
<1> QED  BY <1>3, <1>4

LEMMA StepCovers ==
  ASSUME TypeInv, TimeInv, NEW w \in Worker, Step(w) \/ WorkerDies(w),
         NEW s \in Int,
         CallCovers(changed, stored', worker[w], s),
         Safe(changed, stored', watermark),
         Row(w).cursor # None => Covers(changed, stored', Row(w).cursor, s, None)
  PROVE  CallCovers(changed, stored', worker'[w], s)
<1>1. CASE ReadJob(w)
  BY <1>1, ReadJobCovers
<1>2. CASE ReadSource(w)
  BY <1>2, ReadSourceCovers
<1>3. CASE SourceUnusable(w)
  <2>1. PICK pc \in {"mark", "finish"} :
          End(w, pc, "failed", IF pc = "mark" THEN watermark ELSE Never)
    BY <1>3 DEF SourceUnusable
  <2>2. PICK seen : End(w, pc, "failed", seen)
    BY <2>1
  <2> QED  BY <2>2, EndCovers
<1>4. CASE SeedTotal(w) \/ SkipTotal(w)
  BY <1>4, StartCovers DEF SeedTotal, SkipTotal
<1>5. CASE PullPage(w)
  BY <1>5, PullPageCovers
<1>6. CASE CheckCancel(w)
  BY <1>6, CheckCancelCovers
<1>7. CASE StorePage(w)
  BY <1>7, StorePageCovers
<1>8. CASE Beat(w)
  BY <1>8, BeatCovers
<1>9. CASE SyncFails(w)
  BY <1>9, EndCovers DEF SyncFails
<1>10. CASE SetSourceSync(w)
  BY <1>10, EndCovers DEF SetSourceSync
<1>11. CASE FinishJob(w)
  <2>1. CASE worker[w].ending = "succeeded"
    BY <1>11, <2>1, EndCovers DEF FinishJob, AfterFinish
  <2>2. CASE worker[w].ending # "succeeded"
    BY <1>11, <2>2, IdleCovers DEF FinishJob, AfterFinish
  <2> QED  BY <2>1, <2>2
<1>12. CASE BeatAndLeave(w) \/ Return(w) \/ WorkerDies(w)
  BY <1>12, IdleCovers DEF BeatAndLeave, Return, WorkerDies
<1> QED
  BY <1>1, <1>2, <1>3, <1>4, <1>5, <1>6, <1>7, <1>8, <1>9, <1>10, <1>11, <1>12 DEF Step

(* What a step writes of the job's cursor lies no further than what the    *)
(* call covers ...                                                         *)
LEMMA StepCursor ==
  ASSUME TypeInv, NEW w \in Worker, Step(w) \/ WorkerDies(w), NEW ch, NEW st, NEW s,
         CallCovers(ch, st, worker[w], s),
         Row(w).cursor # None => Covers(ch, st, Row(w).cursor, s, None)
  PROVE  job'[worker[w].job].cursor # None =>
           Covers(ch, st, job'[worker[w].job].cursor, s, None)
<1> DEFINE j == worker[w].job
           old == job[j]
<1>1. j \in Job /\ old \in JobRow /\ job \in [Job -> JobRow]
  BY StepShape, AtWork DEF Row, TypeInv, TypeOK
<1>2. CASE UNCHANGED job
  BY <1>2 DEF Row
<1>3. ASSUME NEW cursor, Heartbeat(w, cursor)
      PROVE  job'[j].cursor = cursor
  <2> DEFINE r == [old EXCEPT !.cursor = cursor, !.fresh = TRUE]
  <2>1. job'[j] = r
    BY <1>1, <1>3 DEF Heartbeat
  <2> HIDE DEF old
  <2>2. r.cursor = cursor
    BY <1>1 DEF JobRow
  <2> HIDE DEF r, j
  <2> QED  BY <2>1, <2>2
<1>4. CASE SeedTotal(w)
  <2>1. job'[j].cursor = worker[w].cursor
    BY <1>3, <1>4 DEF SeedTotal
  <2> QED  BY <2>1 DEF CallCovers
<1>5. CASE Beat(w) \/ BeatAndLeave(w)
  <2>1. job'[j].cursor = worker[w].page.next /\ worker[w].pc = "beat"
    BY <1>3, <1>5 DEF Beat, BeatAndLeave, At
  <2> QED  BY <2>1 DEF CallCovers
<1>6. CASE FinishJob(w)
  <2> DEFINE r == [old EXCEPT !.fresh = TRUE, !.status = worker[w].ending]
  <2>1. job'[j] = r
    BY <1>1, <1>6 DEF FinishJob
  <2>2. r.cursor = old.cursor
    <3> HIDE DEF old
    <3> QED  BY <1>1 DEF JobRow
  <2>3. job'[j].cursor = Row(w).cursor
    <3> HIDE DEF r
    <3> QED  BY <2>1, <2>2 DEF Row
  <2> QED  BY <2>3
<1>7. ASSUME ~SeedTotal(w), ~Beat(w), ~BeatAndLeave(w), ~FinishJob(w)
      PROVE  UNCHANGED job
  BY <1>7 DEF Step, WorkerDies, ReadJob, ReadSource, SourceUnusable, SkipTotal, PullPage,
              CheckCancel, StorePage, SyncFails, SetSourceSync, Return
<1> QED  BY <1>2, <1>4, <1>5, <1>6, <1>7

(* ... and a watermark is its start when all that changed before is stored. *)
LEMMA StepWatermark ==
  ASSUME TypeInv, TimeInv, NEW w \in Worker, Step(w) \/ WorkerDies(w), NEW st,
         CallCovers(changed, st, worker[w], Row(w).started),
         Safe(changed, st, watermark), Safe(changed, st, worker[w].seen)
  PROVE  Safe(changed, st, watermark')
<1>1. CASE SetSourceSync(w) /\ worker[w].ending = "succeeded"
  <2>1. watermark' = Row(w).started /\ Row(w).started \in Time
    BY <1>1, StepShape, AtWork DEF SetSourceSync
  <2>2. Through(changed, st, Row(w).started, None)
    BY <1>1 DEF CallCovers, SetSourceSync, At
  <2>3. OverlapSince(Row(w).started) + 1 \in Int
        /\ OverlapSince(Row(w).started) + 1 <= Row(w).started
    BY <2>1, MarkReach
  <2> QED  BY <2>1, <2>2, <2>3, ChangedInt, Numbers, ThroughBefore DEF Safe
<1>2. CASE SetSourceSync(w) /\ worker[w].ending # "succeeded"
  BY <1>2 DEF SetSourceSync
<1>3. CASE ~SetSourceSync(w)
  <2>1. watermark' = watermark
    BY <1>3 DEF Step, WorkerDies, ReadJob, ReadSource, SourceUnusable, SeedTotal, SkipTotal,
                PullPage, CheckCancel, StorePage, Beat, BeatAndLeave, SyncFails, FinishJob,
                Return
  <2> QED  BY <2>1
<1> QED  BY <1>1, <1>2, <1>3
----------------------------------------------------------------------------
(* Nothing is left behind *)

LEMMA NeverSafe ==
  ASSUME NEW ch, NEW st, \A d \in Doc : ch[d] \in Int /\ ch[d] >= 0
  PROVE  Safe(ch, st, Never)
<1>1. OverlapSince(Never) + 1 = 0
  BY DEF OverlapSince, Never
<1> QED  BY <1>1 DEF Safe, Through, Has

LEMMA CoverInit ==
  ASSUME Init
  PROVE  CoverInv
<1>1. Idle.job = None /\ Idle.seen = Never
  BY DEF Idle
<1>2. NoJob.cursor = None
  BY DEF NoJob
<1>3. \A d \in Doc : changed[d] = 0
  BY DEF Init
<1>4. Safe(changed, stored, Never)
  BY <1>3, NeverSafe
<1>5. WatermarkSafe
  <2>1. CASE First = Never
    BY <1>4, <2>1 DEF Init, WatermarkSafe
  <2>2. CASE First = 0
    BY <2>2, <1>3 DEF Init, WatermarkSafe, Safe, Through, Has
  <2> QED  BY <2>1, <2>2, SyncBounds
<1>6. SeenSafe
  BY <1>1, <1>4 DEF Init, SeenSafe
<1>7. RowsCover /\ CallsCover
  BY <1>1, <1>2 DEF Init, RowsCover, CallsCover, Busy
<1> QED  BY <1>5, <1>6, <1>7 DEF CoverInv

(* A step that changes no watermark, no cursor, no start and no call. *)
LEMMA CoverStays ==
  ASSUME TypeInv, PullInv, TimeInv, CoverInv, [Next]_vars,
         UNCHANGED <<watermark, worker>>,
         \A j \in Job : /\ job'[j].started = job[j].started
                        /\ job'[j].cursor = job[j].cursor
  PROVE  CoverInv'
<1> SUFFICES ASSUME slow' # "late"
             PROVE  WatermarkSafe' /\ SeenSafe' /\ RowsCover' /\ CallsCover'
  BY DEF CoverInv
<1>1. WatermarkSafe' /\ SeenSafe'
  BY Carried DEF WatermarkSafe, SeenSafe
<1>2. RowsCover'
  BY Carried DEF RowsCover
<1>3. CallsCover'
  <2>1. \A w \in Worker : Busy(w) => Row(w)'.started = Row(w).started
    BY BusyAtWork DEF Row
  <2> QED  BY <2>1, Carried DEF CallsCover, Busy
<1> QED  BY <1>1, <1>2, <1>3

LEMMA CoverEnvironment ==
  ASSUME TypeInv, PullInv, TimeInv, CoverInv, [Next]_vars, NEW j \in Job,
         EnqueueJob(j) \/ RequestCancel(j) \/ HeartbeatStale(j)
  PROVE  CoverInv'
<1>1. job \in [Job -> JobRow]
  BY DEF TypeInv, TypeOK
<1>2. UNCHANGED <<watermark, worker>>
  BY DEF EnqueueJob, RequestCancel, HeartbeatStale
<1>3. PICK r : /\ job' = [job EXCEPT ![j] = r]
               /\ r.started = job[j].started /\ r.cursor = job[j].cursor
  BY EnvironmentRow
<1>4. \A i \in Job : job'[i].started = job[i].started /\ job'[i].cursor = job[i].cursor
  BY <1>1, <1>3
<1> QED  BY <1>2, <1>4, CoverStays

LEMMA CoverClaim ==
  ASSUME TypeInv, PullInv, TimeInv, CoverInv, [Next]_vars,
         NEW w \in Worker, NEW j \in Job, NEW window \in BOOLEAN, ClaimJob(w, j, window)
  PROVE  CoverInv'
<1> SUFFICES ASSUME slow' # "late"
             PROVE  WatermarkSafe' /\ SeenSafe' /\ RowsCover' /\ CallsCover'
  BY DEF CoverInv
<1>1. /\ worker'[w].seen = Never
      /\ worker'[w].cursor = None /\ worker'[w].first = None
      /\ worker'[w].page = NoPage /\ worker'[w].pc = "job"
      /\ \A v \in Worker : v # w => worker'[v] = worker[v]
      /\ job'[j].cursor = job[j].cursor
      /\ job'[j].started = IF job[j].started = None THEN clock ELSE job[j].started
      /\ \A i \in Job : i # j => job'[i] = job[i]
  BY ClaimMarks
<1>2. watermark' = watermark
  BY DEF ClaimJob
(* A job that has a cursor, or a worker, has been started before. *)
<1>3. \A i \in Job : Started(i) => job'[i].started = job[i].started
  BY <1>1, SyncWorkers DEF Started
<1>4. WatermarkSafe'
  BY <1>2, Carried DEF WatermarkSafe
<1>5. SeenSafe'
  <2>1. TypeInv'
    BY TypeNext
  <2>2. \A d \in Doc : changed'[d] \in Int /\ changed'[d] >= 0
    BY <2>1, SyncBounds DEF TypeInv, TypeOK, Time
  <2>3. Safe(changed', stored', Never)
    BY <2>2, NeverSafe
  <2> QED  BY <1>1, <2>3, Carried DEF SeenSafe
<1>6. RowsCover'
  <2>1. \A i \in Job : job[i].cursor # None => Started(i)
    BY DEF TimeInv
  <2> QED  BY <1>1, <1>3, <2>1, Carried DEF RowsCover
<1>7. CallsCover'
  <2> SUFFICES ASSUME NEW v \in Worker, Busy(v)'
               PROVE  CallCovers(changed', stored', worker'[v], Row(v)'.started)
    BY DEF CallsCover
  <2>1. CASE v = w
    BY <1>1, <2>1, QuietCall
  <2>2. CASE v # w
    <3>1. Busy(v) /\ worker'[v] = worker[v]
      BY <1>1, <2>2 DEF Busy
    <3>2. worker[v].job \in Job /\ Started(worker[v].job)
      BY <3>1, BusyAtWork, AtWork DEF Started, Row
    <3>3. Row(v)'.started = Row(v).started
      BY <1>3, <3>1, <3>2 DEF Row
    <3> QED  BY <3>1, <3>3, Carried
  <2> QED  BY <2>1, <2>2
<1> QED  BY <1>4, <1>5, <1>6, <1>7

LEMMA CoverWorkerStep ==
  ASSUME TypeInv, PullInv, TimeInv, CoverInv, [Next]_vars,
         NEW w \in Worker, Step(w) \/ WorkerDies(w)
  PROVE  CoverInv'
<1> SUFFICES ASSUME slow' # "late"
             PROVE  WatermarkSafe' /\ SeenSafe' /\ RowsCover' /\ CallsCover'
  BY DEF CoverInv
<1> DEFINE j == worker[w].job
           s == Row(w).started
<1>1. /\ Busy(w) /\ j \in Job /\ Started(j)
      /\ \A v \in Worker : v # w => worker'[v] = worker[v]
      /\ \A v \in Worker : Busy(v)' => Busy(v) /\ worker'[v].job = worker[v].job
      /\ \A i \in Job : i # j => job'[i] = job[i]
      /\ \A i \in Job : job'[i].started = job[i].started
  BY StepRows
<1>2. changed' = changed /\ s \in Int
  BY <1>1, StepWrites, Numbers DEF provider, Row, Started
<1>3. /\ CallCovers(changed, stored', worker[w], s)
      /\ Safe(changed, stored', watermark)
      /\ Safe(changed, stored', worker[w].seen)
      /\ Row(w).cursor # None => Covers(changed, stored', Row(w).cursor, s, None)
  BY <1>1, <1>2, Carried DEF Row
<1>4. WatermarkSafe'
  BY <1>2, <1>3, StepWatermark DEF WatermarkSafe
<1>5. SeenSafe'
  <2>1. Safe(changed, stored', Never)
    BY NeverSafe, Numbers
  <2>2. worker'[w].seen \in {Never, watermark, worker[w].seen}
    BY StepMarks
  <2>3. Safe(changed, stored', worker'[w].seen)
    BY <1>3, <2>1, <2>2
  <2> QED  BY <1>1, <1>2, <2>3, Carried DEF SeenSafe
<1>6. RowsCover'
  <2> SUFFICES ASSUME NEW i \in Job, job'[i].cursor # None
               PROVE  Covers(changed', stored', job'[i].cursor, job'[i].started, None)
    BY DEF RowsCover
  <2>1. CASE i = j
    <3>1. Covers(changed, stored', job'[j].cursor, s, None)
      BY <1>3, <2>1, StepCursor
    <3> QED  BY <1>1, <1>2, <2>1, <3>1 DEF Row
  <2>2. CASE i # j
    BY <1>1, <2>2, Carried
  <2> QED  BY <2>1, <2>2
<1>7. CallsCover'
  <2> SUFFICES ASSUME NEW v \in Worker, Busy(v)'
               PROVE  CallCovers(changed', stored', worker'[v], Row(v)'.started)
    BY DEF CallsCover
  <2>1. Busy(v) /\ Row(v)'.started = Row(v).started
    BY <1>1, BusyAtWork DEF Row
  <2>2. CASE v = w
    <3>1. CallCovers(changed, stored', worker'[w], s)
      BY <1>2, <1>3, StepCovers
    <3> QED  BY <1>2, <2>1, <2>2, <3>1
  <2>3. CASE v # w
    BY <1>1, <2>1, <2>3, Carried
  <2> QED  BY <2>2, <2>3
<1> QED  BY <1>4, <1>5, <1>6, <1>7

LEMMA CoverNext ==
  ASSUME TypeInv, PullInv, TimeInv, CoverInv, [Next]_vars
  PROVE  CoverInv'
<1>1. CASE \E j \in Job : EnqueueJob(j) \/ RequestCancel(j) \/ HeartbeatStale(j)
  BY <1>1, CoverEnvironment
<1>2. CASE \E w \in Worker, j \in Job, window \in Windowed : ClaimJob(w, j, window)
  BY <1>2, CoverClaim, SyncBounds
<1>3. CASE \E w \in Worker : Step(w) \/ WorkerDies(w)
  BY <1>3, CoverWorkerStep
<1>4. CASE (\E d \in Doc : ProviderChanges(d)) \/ TimePasses \/ UNCHANGED vars
  BY <1>4, CoverStays DEF ProviderChanges, TimePasses, vars
<1> QED  BY <1>1, <1>2, <1>3, <1>4 DEF Next

LEMMA CoversKeptAlong == Spec => [](TypeInv /\ TimeInv /\ CoverInv)
<1>1. Init => PullInv /\ TimeInv /\ CoverInv
  BY PullInit, TimeInit, CoverInit
<1>2. TypeInv /\ PullInv /\ TimeInv /\ CoverInv /\ [Next]_vars
      => PullInv' /\ TimeInv' /\ CoverInv'
  BY PullNext, TimeNext, CoverNext
<1> QED  BY <1>1, <1>2, TypesKept, PTL DEF Spec

LEMMA CursorsTrue ==
  ASSUME TypeInv, CoverInv
  PROVE  CursorCovers
<1> SUFFICES ASSUME slow # "late", NEW j \in Job, job[j].cursor # None, NEW d \in Doc,
                    d < job[j].cursor.from, Listed(d, job[j].cursor.since),
                    changed[d] < job[j].started
             PROVE  stored[d] = changed[d]
  BY DEF CursorCovers
<1>1. Covers(changed, stored, job[j].cursor, job[j].started, None)
  BY DEF CoverInv, RowsCover
<1> QED  BY <1>1, SyncWorkers DEF Covers, Skips, Has, Listed

LEMMA WatermarkTrue ==
  ASSUME TypeInv, TimeInv, CoverInv
  PROVE  NothingLeftBehind
<1> SUFFICES ASSUME slow # "late", NoWindow, NEW d \in Doc,
                    ~Listed(d, OverlapSince(watermark))
             PROVE  stored[d] = changed[d]
  BY DEF NothingLeftBehind, NoWindow
<1>1. Through(changed, stored, OverlapSince(watermark) + 1, None)
  BY DEF CoverInv, WatermarkSafe, Safe
<1>2. changed[d] < OverlapSince(watermark) + 1
  <2>1. OverlapSince(watermark) \in Int /\ changed[d] \in Int
    BY MarkReach, Numbers DEF TypeInv, TypeOK
  <2> QED  BY <2>1 DEF Listed
<1> QED  BY <1>1, <1>2, SyncWorkers DEF Through, Has

(* A resumed sync goes on where the last one stopped, for every number of  *)
(* workers, jobs and documents: what lies before the cursor was stored, as *)
(* it was when the job was started or later.  A worker that was taken for  *)
(* dead may store an old page over a newer one, but of a document that     *)
(* changed after the start, which a takeover keeps.                        *)
THEOREM CursorsCover == Spec => []CursorCovers
<1>1. TypeInv /\ TimeInv /\ CoverInv => CursorCovers
  BY CursorsTrue
<1> QED  BY <1>1, CoversKeptAlong, PTL

(* The watermark never runs ahead of the documents: the start of a sync    *)
(* that is through, or a watermark that a failed one puts back, leaves out *)
(* only what is stored in its latest version, whoever else is at work on   *)
(* the job, until a page is stored after its job has ended.                *)
THEOREM NothingBehind == Spec => []NothingLeftBehind
<1>1. TypeInv /\ TimeInv /\ CoverInv => NothingLeftBehind
  BY WatermarkTrue
<1> QED  BY <1>1, CoversKeptAlong, PTL

(* A sync that is through has fetched all it was to, where no run is ever  *)
(* clamped to a window: the manual sync of ManualSyncBackfills then leaves *)
(* nothing behind, so the nightly window alone is what breaks the promise  *)
(* of finance-sync.service.ts.                                             *)
THEOREM BackfillsUnlessWindowed ==
  ASSUME NoWindow
  PROVE  Spec => []ManualSyncBackfills
<1>1. TypeInv /\ TimeInv /\ CoverInv => ManualSyncBackfills
  <2> SUFFICES ASSUME TypeInv, CoverInv, slow = "none", NEW w \in Worker, At(w, "mark"),
                      worker[w].ending = "succeeded", NEW d \in Doc,
                      changed[d] < Row(w).started
               PROVE  stored[d] = changed[d]
    BY DEF ManualSyncBackfills
  <2>1. Busy(w)
    BY DEF TypeInv, Sure, Busy, At
  <2>2. Through(changed, stored, Row(w).started, None)
    BY <2>1 DEF CoverInv, CallsCover, CallCovers, At
  <2> QED  BY <2>2, SyncWorkers DEF Through, Has
<1> QED  BY <1>1, CoversKeptAlong, PTL
============================================================================
