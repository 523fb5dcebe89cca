------------------------------- MODULE BgJobs -------------------------------
(***************************************************************************)
(* The background-job runtime of src/server/services/bg-runtime.ts: rows   *)
(* of bg_jobs that workers (cron ticks, on-demand advances) claim under a  *)
(* lease and advance one handler step at a time.                           *)
(*                                                                         *)
(* Every statement is a transaction of its own, so every statement is a    *)
(* step.  The lease (LEASE_MS from the last claim or progress) is held or  *)
(* expired; it may expire whenever time passes, for a worker keeps no      *)
(* clock of its own while its handler awaits.  The modules of the job      *)
(* types extend this one and say what a handler does between HandlerStarts *)
(* and Returns.                                                            *)
(***************************************************************************)
EXTENDS Naturals, FiniteSets

CONSTANTS
  Job,     \* rows of bg_jobs, before and after they are inserted
  Worker,  \* calls of advanceJob that may be under way at the same time
  Ref,     \* refId: the domain entities jobs work for
  Cursor,  \* what a handler may persist as its progress
  None     \* SQL null

ASSUME WorkerAssumption == IsFiniteSet(Worker) /\ Worker # {}
ASSUME NullAssumption == None \notin Job \cup Ref \cup Cursor

VARIABLES
  job,     \* the rows: status, lease, cursor, ref
  worker   \* the local state of each advanceJob call

Active == {"queued", "running"}
Terminal == {"done", "failed", "cancelled"}

JobRow == [status : {"absent"} \cup Active \cup Terminal,
           lease : {"none", "held", "expired"},
           cursor : Cursor \cup {None},
           ref : Ref \cup {None}]

NoJob == [status |-> "absent", lease |-> "none", cursor |-> None, ref |-> None]

(* pc: idle; loop (claimed, before the next freshJob); handler (inside     *)
(* handler.advance); result (it returned or threw).  cursor: the one read  *)
(* by freshJob, then the one the handler returned.                         *)
Call == [pc : {"idle", "loop", "handler", "result"},
         id : Job \cup {None},
         cursor : Cursor \cup {None},
         result : {"more", "done", "failed"}]

Parked == [pc |-> "idle", id |-> None, cursor |-> None, result |-> "more"]
----------------------------------------------------------------------------
(* enqueueJob inserts the row of a fresh id. *)
EnqueueJob(j, ref, cursor) ==
  /\ job[j].status = "absent"
  /\ job' = [job EXCEPT ![j] = [status |-> "queued", lease |-> "none",
                                cursor |-> cursor, ref |-> ref]]
  /\ UNCHANGED worker

Claimable(j) ==
  \/ job[j].status = "queued"
  \/ job[j].status = "running" /\ job[j].lease = "expired"

(* Mutant of Claim: the update does not check the claim's precondition. *)
ClaimUnchecked(w, j) ==
  /\ worker[w].pc = "idle"
  /\ job[j].status # "absent"
  /\ job' = [job EXCEPT ![j].status = "running", ![j].lease = "held"]
  /\ worker' = [worker EXCEPT ![w] = [Parked EXCEPT !.pc = "loop", !.id = j]]

(* claim: compare-and-set on the status and the lease; a call that loses   *)
(* returns and leaves no trace.                                            *)
Claim(w, j) ==
  /\ worker[w].pc = "idle"
  /\ Claimable(j)
  /\ job' = [job EXCEPT ![j].status = "running", ![j].lease = "held"]
  /\ worker' = [worker EXCEPT ![w] = [Parked EXCEPT !.pc = "loop", !.id = j]]

(* The loop reads the row again; only a cancelled job stops it, one that   *)
(* another worker has finished does not.                                   *)
HandlerStarts(w) ==
  LET j == worker[w].id
  IN /\ worker[w].pc = "loop"
     /\ job[j].status # "cancelled"
     /\ worker' = [worker EXCEPT ![w].pc = "handler",
                                 ![w].cursor = job[j].cursor]
     /\ UNCHANGED job

SeesCancelled(w) ==
  /\ worker[w].pc = "loop"
  /\ job[worker[w].id].status = "cancelled"
  /\ worker' = [worker EXCEPT ![w] = Parked]
  /\ UNCHANGED job

(* The budget is spent: the job stays running, under a lease. *)
BudgetSpent(w) ==
  /\ worker[w].pc = "loop"
  /\ worker' = [worker EXCEPT ![w] = Parked]
  /\ UNCHANGED job

(* handler.advance returned (more or done, perhaps with an error) or threw. *)
Returns(w, result, cursor) ==
  worker' = [worker EXCEPT ![w].pc = "result", ![w].result = result,
                           ![w].cursor = cursor]

(* Mutant of PersistProgress: the lease is given up with the progress. *)
PersistProgressUnleased(w) ==
  /\ worker[w].pc = "result"
  /\ worker[w].result = "more"
  /\ job' = [job EXCEPT ![worker[w].id].cursor = worker[w].cursor,
                        ![worker[w].id].lease = "none"]
  /\ worker' = [worker EXCEPT ![w].pc = "loop", ![w].cursor = None]

(* persistProgress: by id alone, whoever holds the lease by now. *)
PersistProgress(w) ==
  /\ worker[w].pc = "result"
  /\ worker[w].result = "more"
  /\ job' = [job EXCEPT ![worker[w].id].cursor = worker[w].cursor,
                        ![worker[w].id].lease = "held"]
  /\ worker' = [worker EXCEPT ![w].pc = "loop", ![w].cursor = None]

(* Mutant of Finish: result.done is not looked at. *)
FinishAlways(w) ==
  /\ worker[w].pc = "result"
  /\ job' = [job EXCEPT ![worker[w].id].status = worker[w].result,
                        ![worker[w].id].lease = "none"]
  /\ worker' = [worker EXCEPT ![w] = Parked]

(* finish: by id alone too, so a late worker overwrites any status. *)
Finish(w) ==
  /\ worker[w].pc = "result"
  /\ worker[w].result \in {"done", "failed"}
  /\ job' = [job EXCEPT ![worker[w].id].status = worker[w].result,
                        ![worker[w].id].lease = "none"]
  /\ worker' = [worker EXCEPT ![w] = Parked]

(* cancelJobsByRef *)
CancelJobsByRef(ref) ==
  /\ job' = [j \in Job |->
               IF job[j].ref = ref /\ job[j].status \in Active
                 THEN [job[j] EXCEPT !.status = "cancelled"] ELSE job[j]]
  /\ UNCHANGED worker

(* Time passes: now > leaseUntil. *)
LeaseExpires(j) ==
  /\ job[j].status = "running"
  /\ job[j].lease = "held"
  /\ job' = [job EXCEPT ![j].lease = "expired"]
  /\ UNCHANGED worker

(* The process dies, or the request is aborted. *)
WorkerDies(w) ==
  /\ worker[w].pc # "idle"
  /\ worker' = [worker EXCEPT ![w] = Parked]
  /\ UNCHANGED job

RuntimeInit ==
  /\ job = [j \in Job |-> NoJob]
  /\ worker = [w \in Worker |-> Parked]

RuntimeTypeOK ==
  /\ job \in [Job -> JobRow]
  /\ worker \in [Worker -> Call]

(* Steps of a call other than its handler's. *)
RuntimeStep(w) ==
  \/ HandlerStarts(w) \/ SeesCancelled(w) \/ PersistProgress(w) \/ Finish(w)

(* A lease is up only when nobody works on the job. *)
WorkedOn(j) == \E w \in Worker : worker[w].id = j
============================================================================
