------------------------------ MODULE GroupChat ------------------------------
(***************************************************************************)
(* Group chat (src/server/services/groupchat.service.ts and its routes) on *)
(* the background-job runtime: one run, in which the agents take turns and *)
(* an orchestrator may close.  The handler's progress is not in the job's  *)
(* cursor but in the messages themselves: their number says whose turn it  *)
(* is.  Each query is a step; the model call is the time between two.      *)
(***************************************************************************)
EXTENDS BgJobs, Sequences

CONSTANTS
  NAgents,      \* agents, in orderIndex order
  Rounds,       \* rounds, or None for an "infinite" run
  SafetyTurns,  \* INFINITE_SAFETY_TURNS
  Orchestrated  \* includeOrchestrator

ASSUME AgentsAssumption == NAgents \in Nat \ {0}
ASSUME RoundsAssumption == Rounds \in Nat \cup {None} /\ SafetyTurns \in Nat
ASSUME OrchestratedAssumption == Orchestrated \in BOOLEAN
ASSUME ChatAssumption == Ref # {}

VARIABLES
  run,      \* the run's row: status and currentRound
  msgs,     \* agents of its messages in order of creation, 0 the orchestrator
  turn,     \* what each worker's handler has read
  poster,   \* progress of the request that creates the run
  stopper,  \* progress of the request that cancels it
  overrun   \* history: a lease ran out on a call that was still working

vars == <<job, worker, run, msgs, turn, poster, stopper, overrun>>

RunStatus == {"absent", "draft", "queued", "running", "done", "cancelled"}

Target == IF Rounds = None THEN SafetyTurns ELSE Rounds * NAgents

AgentMsg(m) == m # 0

AgentTurns(ms) == Cardinality({i \in DOMAIN ms : AgentMsg(ms[i])})

Chat == CHOOSE r \in Ref : TRUE

(* at: where the handler is; status, turns, closed: what it read. *)
Turn == [at : {"out", "messages", "mark", "call"}, status : RunStatus,
         turns : Nat, closed : BOOLEAN]

NoTurn == [at |-> "out", status |-> "absent", turns |-> 0, closed |-> FALSE]
----------------------------------------------------------------------------
(* POST /api/workshop/groupchat: the run, its status, then the job, each   *)
(* committed on its own; the request may die in between.                   *)
CreateGroupchatRun ==
  /\ poster = "create"
  /\ run' = [run EXCEPT !.status = "draft"]
  /\ poster' = "queue"
  /\ UNCHANGED <<job, worker, msgs, turn, stopper, overrun>>

QueueRun ==
  /\ poster = "queue"
  /\ run' = [run EXCEPT !.status = "queued"]
  /\ poster' = "enqueue"
  /\ UNCHANGED <<job, worker, msgs, turn, stopper, overrun>>

EnqueueRun ==
  /\ poster = "enqueue"
  /\ \E j \in Job : EnqueueJob(j, Chat, None)
  /\ poster' = "end"
  /\ UNCHANGED <<run, msgs, turn, stopper, overrun>>

PosterDies ==
  /\ poster \in {"queue", "enqueue"}
  /\ poster' = "end"
  /\ UNCHANGED <<job, worker, run, msgs, turn, stopper, overrun>>

(* POST .../cancel: the jobs first, then the run, whatever its status. *)
CancelJobs ==
  /\ stopper = "idle"
  /\ run.status # "absent"
  /\ CancelJobsByRef(Chat)
  /\ stopper' = "mark"
  /\ UNCHANGED <<run, msgs, turn, poster, overrun>>

CancelRun ==
  /\ stopper = "mark"
  /\ run' = [run EXCEPT !.status = "cancelled"]
  /\ stopper' = "idle"
  /\ UNCHANGED <<job, worker, msgs, turn, poster, overrun>>

StopperDies ==
  /\ stopper = "mark"
  /\ stopper' = "idle"
  /\ UNCHANGED <<job, worker, run, msgs, turn, poster, overrun>>
----------------------------------------------------------------------------
(* advanceGroupchat *)

InHandler(w, at) == worker[w].pc = "handler" /\ turn[w].at = at

Leave(w) == turn' = [turn EXCEPT ![w] = NoTurn]

ReadRun(w) ==
  /\ InHandler(w, "out")
  /\ IF run.status = "cancelled"
       THEN Returns(w, "done", None) /\ UNCHANGED turn
       ELSE /\ turn' = [turn EXCEPT ![w].at = "messages",
                                    ![w].status = run.status]
            /\ UNCHANGED worker
  /\ UNCHANGED <<job, run, msgs, poster, stopper, overrun>>

ReadMessages(w) ==
  /\ InHandler(w, "messages")
  /\ turn' = [turn EXCEPT
       ![w].at = IF turn[w].status \in {"draft", "queued"} THEN "mark" ELSE "call",
       ![w].turns = AgentTurns(msgs),
       ![w].closed = \E i \in DOMAIN msgs : ~AgentMsg(msgs[i])]
  /\ UNCHANGED <<job, worker, run, msgs, poster, stopper, overrun>>

MarkRunning(w) ==
  /\ InHandler(w, "mark")
  /\ run' = [run EXCEPT !.status = "running"]
  /\ turn' = [turn EXCEPT ![w].at = "call"]
  /\ UNCHANGED <<job, worker, msgs, poster, stopper, overrun>>

(* Mutants of TurnsDone: one turn too many, one too few. *)
TurnsDoneLate(n) == n > Target
TurnsDoneEarly(n) == n + 1 >= Target

TurnsDone(n) == n >= Target

Speaker(n) == (n % NAgents) + 1

(* The model answered: the message of the agent whose turn it was when the *)
(* messages were read, then currentRound (which is only displayed).        *)
PostTurn(w) ==
  LET n == turn[w].turns
  IN /\ InHandler(w, "call")
     /\ ~TurnsDone(n)
     /\ msgs' = Append(msgs, Speaker(n))
     /\ run' = [run EXCEPT !.round = (n \div NAgents) + 1]
     /\ Leave(w)
     /\ Returns(w, "more", None)
     /\ UNCHANGED <<job, poster, stopper, overrun>>

NeedsOrchestrator(w) == Orchestrated /\ ~turn[w].closed

PostOrchestrator(w) ==
  /\ InHandler(w, "call")
  /\ TurnsDone(turn[w].turns)
  /\ NeedsOrchestrator(w)
  /\ msgs' = Append(msgs, 0)
  /\ turn' = [turn EXCEPT ![w].closed = TRUE]
  /\ UNCHANGED <<job, worker, run, poster, stopper, overrun>>

(* setRunStatus 'done', over a cancellation as over anything else. *)
CompleteRun(w) ==
  /\ InHandler(w, "call")
  /\ TurnsDone(turn[w].turns)
  /\ ~NeedsOrchestrator(w)
  /\ run' = [run EXCEPT !.status = "done"]
  /\ Leave(w)
  /\ Returns(w, "done", None)
  /\ UNCHANGED <<job, msgs, poster, stopper, overrun>>

(* The gateway call fails or times out: the job fails, the run stays. *)
ModelFails(w) ==
  /\ InHandler(w, "call")
  /\ ~TurnsDone(turn[w].turns) \/ NeedsOrchestrator(w)
  /\ Leave(w)
  /\ Returns(w, "failed", None)
  /\ UNCHANGED <<job, run, msgs, poster, stopper, overrun>>

Handler(w) ==
  \/ ReadRun(w) \/ ReadMessages(w) \/ MarkRunning(w) \/ PostTurn(w)
  \/ PostOrchestrator(w) \/ CompleteRun(w) \/ ModelFails(w)
----------------------------------------------------------------------------
chatVars == <<run, msgs, poster, stopper>>

Expire(j) ==
  /\ LeaseExpires(j)
  /\ overrun' = (overrun \/ WorkedOn(j))
  /\ UNCHANGED <<turn, chatVars>>

Dies(w) == WorkerDies(w) /\ Leave(w) /\ UNCHANGED <<overrun, chatVars>>

RunsOut(w) == BudgetSpent(w) /\ UNCHANGED <<turn, overrun, chatVars>>

Work(w) == Handler(w) \/ (RuntimeStep(w) /\ UNCHANGED <<turn, overrun, chatVars>>)

Tick ==
  \E w \in Worker, j \in Job : Claim(w, j) /\ UNCHANGED <<turn, overrun, chatVars>>

Init ==
  /\ RuntimeInit
  /\ run = [status |-> "absent", round |-> 0]
  /\ msgs = << >>
  /\ turn = [w \in Worker |-> NoTurn]
  /\ poster = "create"
  /\ stopper = "idle"
  /\ overrun = FALSE

Next ==
  \/ CreateGroupchatRun \/ QueueRun \/ EnqueueRun \/ PosterDies
  \/ CancelJobs \/ CancelRun \/ StopperDies
  \/ Tick
  \/ \E w \in Worker : Work(w) \/ RunsOut(w) \/ Dies(w)
  \/ \E j \in Job : Expire(j)

Spec == Init /\ [][Next]_vars

(* Ticks come every minute and time passes; a call goes on until it is     *)
(* through, and is not for ever out of budget before its first turn; from  *)
(* some time on, the process stays up.                                     *)
Fairness ==
  /\ \A w \in Worker : SF_vars(Work(w))
  /\ WF_vars(Tick)
  /\ \A j \in Job : WF_vars(Expire(j))
  /\ <>[][\A w \in Worker : ~Dies(w)]_vars

FairSpec == Spec /\ Fairness
----------------------------------------------------------------------------
(* Properties *)

(* Types.  A job never takes the status "more": finish is reached only with *)
(* a result that ends the job.                                             *)
TypeOK ==
  /\ RuntimeTypeOK
  /\ run \in [status : RunStatus, round : Nat]
  /\ msgs \in Seq(0 .. NAgents)
  /\ turn \in [Worker -> Turn]
  /\ poster \in {"create", "queue", "enqueue", "end"}
  /\ stopper \in {"idle", "mark"}
  /\ overrun \in BOOLEAN

(* The cap holds however many workers are on the run at once: each worker  *)
(* but one can overshoot it, once ("hard cap so infinite runs can't bill   *)
(* forever").                                                              *)
TurnsBounded == AgentTurns(msgs) <= Target + Cardinality(Worker) - 1

(* The agents take turns: every message is of the agent whose turn it was  *)
(* after the messages before it ("take round-robin turns on one problem"). *)
RoundRobin ==
  \A i \in DOMAIN msgs :
    AgentMsg(msgs[i]) => msgs[i] = Speaker(AgentTurns(SubSeq(msgs, 1, i - 1)))

(* As long as no lease runs out on a call that is still working, crashes   *)
(* and cancellations do not repeat or skip a turn, and one decision closes *)
(* the run.                                                                *)
TurnsInOrder ==
  ~overrun => RoundRobin /\ Len(msgs) <= AgentTurns(msgs) + 1

(* The orchestrator decides on a complete discussion, whoever runs it. *)
OrchestratorLast ==
  \A i \in DOMAIN msgs : ~AgentMsg(msgs[i]) => AgentTurns(SubSeq(msgs, 1, i)) >= Target

(* Whatever late workers write over it, a job that ended never runs again. *)
JobsStayEnded ==
  [][\A j \in Job : job[j].status \in Terminal => job'[j].status \in Terminal]_vars

(* A job that was enqueued ends, through crashes and lost leases. *)
JobsEnd ==
  \A j \in Job : job[j].status \in Active ~> job[j].status \in Terminal
============================================================================
