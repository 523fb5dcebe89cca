-------------------------- MODULE GroupChatProofs --------------------------
(***************************************************************************)
(* What GroupChat keeps for every number of jobs, workers, agents and      *)
(* rounds.                                                                 *)
(***************************************************************************)
EXTENDS GroupChat, FiniteSetTheorems, SequenceTheorems, TLAPS

USE DEF Active, Terminal, RunStatus
----------------------------------------------------------------------------
(* Types *)

(* A call that is not parked has a job, and a handler that has read        *)
(* something is running: without it a step could write the row of no job.  *)
Placed ==
  \A w \in Worker :
    /\ worker[w].pc = "idle" <=> worker[w].id = None
    /\ turn[w].at # "out" => worker[w].pc = "handler"

TypeInv == TypeOK /\ Placed

(* What a step may do to the local state of one worker. *)
LEMMA PlacedKept ==
  ASSUME TypeInv, NEW w \in Worker, NEW c \in Call, NEW t \in Turn,
         worker' = [worker EXCEPT ![w] = c], turn' = [turn EXCEPT ![w] = t],
         c.pc = "idle" <=> c.id = None, t.at # "out" => c.pc = "handler"
  PROVE  worker' \in [Worker -> Call] /\ turn' \in [Worker -> Turn] /\ Placed'
BY DEF TypeInv, TypeOK, RuntimeTypeOK, Placed

LEMMA RowsKept ==
  ASSUME job \in [Job -> JobRow], NEW j \in Job,
         NEW s \in {"absent"} \cup Active \cup Terminal,
         NEW l \in {"none", "held", "expired"},
         NEW c \in Cursor \cup {None}
  PROVE  /\ [job EXCEPT ![j].status = s, ![j].lease = l] \in [Job -> JobRow]
         /\ [job EXCEPT ![j].cursor = c, ![j].lease = l] \in [Job -> JobRow]
         /\ [job EXCEPT ![j].lease = l] \in [Job -> JobRow]
<1> DEFINE J == job[j]
<1>1. J \in JobRow
  OBVIOUS
<1>2. /\ [J EXCEPT !.status = s, !.lease = l] \in JobRow
      /\ [J EXCEPT !.cursor = c, !.lease = l] \in JobRow
      /\ [J EXCEPT !.lease = l] \in JobRow
  <2> HIDE DEF J
  <2>1. [J EXCEPT !.status = s, !.lease = l] \in JobRow
    BY <1>1 DEF JobRow
  <2>2. [J EXCEPT !.cursor = c, !.lease = l] \in JobRow
    BY <1>1 DEF JobRow
  <2>3. [J EXCEPT !.lease = l] \in JobRow
    BY <1>1 DEF JobRow
  <2> QED  BY <2>1, <2>2, <2>3
<1>3. /\ [job EXCEPT ![j].status = s, ![j].lease = l]
            = [job EXCEPT ![j] = [J EXCEPT !.status = s, !.lease = l]]
      /\ [job EXCEPT ![j].cursor = c, ![j].lease = l]
            = [job EXCEPT ![j] = [J EXCEPT !.cursor = c, !.lease = l]]
      /\ [job EXCEPT ![j].lease = l] = [job EXCEPT ![j] = [J EXCEPT !.lease = l]]
  OBVIOUS
<1> HIDE DEF J
<1> QED  BY <1>2, <1>3

LEMMA ParkedCall == Parked \in Call /\ Parked.pc = "idle" /\ Parked.id = None
BY DEF Parked, Call

(* Steps of a call that leave the rows of the chat alone. *)
LEMMA RuntimeTypes ==
  ASSUME TypeInv, NEW w \in Worker,
         RuntimeStep(w), UNCHANGED <<turn, overrun, chatVars>>
  PROVE  TypeInv'
<1> DEFINE c == worker[w]
<1>1. /\ job \in [Job -> JobRow] /\ worker \in [Worker -> Call]
      /\ turn \in [Worker -> Turn] /\ turn[w] \in Turn
      /\ turn' = [turn EXCEPT ![w] = turn[w]]
      /\ c \in Call /\ c.cursor \in Cursor \cup {None}
      /\ c.result \in {"more", "done", "failed"}
      /\ c.pc # "idle" => c.id \in Job /\ c.id # None
      /\ c.pc # "handler" => turn[w].at = "out"
  BY NullAssumption DEF TypeInv, TypeOK, RuntimeTypeOK, Placed, Call, Turn
<1>2. UNCHANGED <<run, msgs, poster, stopper, turn, overrun>>
  BY DEF chatVars
<1>3. SUFFICES job' \in [Job -> JobRow] /\ worker' \in [Worker -> Call] /\ Placed'
  BY <1>2 DEF TypeInv, TypeOK, RuntimeTypeOK
<1>4. ASSUME worker' = [worker EXCEPT ![w] = Parked], c.pc # "handler"
      PROVE  worker' \in [Worker -> Call] /\ Placed'
  BY <1>1, <1>4, ParkedCall, PlacedKept
<1>5. CASE HandlerStarts(w)
  <2> DEFINE cu == job[c.id].cursor
  <2>1. c.pc = "loop" /\ UNCHANGED job
        /\ worker' = [worker EXCEPT ![w] = [c EXCEPT !.pc = "handler", !.cursor = cu]]
    BY <1>5, <1>1 DEF HandlerStarts
  <2>2. cu \in Cursor \cup {None}
    BY <1>1, <2>1 DEF JobRow
  <2> DEFINE d == [c EXCEPT !.pc = "handler", !.cursor = cu]
  <2>3. d \in Call /\ d.pc = "handler" /\ d.id = c.id
    <3> HIDE DEF c
    <3> QED  BY <1>1, <2>1, <2>2 DEF Call
  <2>4. worker' = [worker EXCEPT ![w] = d]
    BY <2>1
  <2> HIDE DEF d
  <2>5. /\ d.pc = "idle" <=> d.id = None
        /\ turn[w].at # "out" => d.pc = "handler"
    BY <1>1, <2>1, <2>3
  <2>6. worker' \in [Worker -> Call] /\ Placed'
    BY <1>1, <2>3, <2>4, <2>5, PlacedKept
  <2> QED  BY <1>1, <2>1, <2>6
<1>6. CASE SeesCancelled(w)
  BY <1>6, <1>4, <1>1 DEF SeesCancelled
<1>7. CASE PersistProgress(w)
  <2>1. /\ c.pc = "result"
        /\ job' = [job EXCEPT ![c.id].cursor = c.cursor, ![c.id].lease = "held"]
        /\ worker' = [worker EXCEPT ![w] = [c EXCEPT !.pc = "loop", !.cursor = None]]
    BY <1>7, <1>1 DEF PersistProgress
  <2>2. job' \in [Job -> JobRow]
    BY <1>1, <2>1, RowsKept
  <2> DEFINE d == [c EXCEPT !.pc = "loop", !.cursor = None]
  <2>3. d \in Call /\ d.pc = "loop" /\ d.id = c.id
    <3> HIDE DEF c
    <3> QED  BY <1>1, <2>1 DEF Call
  <2>4. worker' = [worker EXCEPT ![w] = d]
    BY <2>1
  <2> HIDE DEF d
  <2>5. /\ d.pc = "idle" <=> d.id = None
        /\ turn[w].at # "out" => d.pc = "handler"
    BY <1>1, <2>1, <2>3
  <2>6. worker' \in [Worker -> Call] /\ Placed'
    BY <1>1, <2>3, <2>4, <2>5, PlacedKept
  <2> QED  BY <2>2, <2>6
<1>8. CASE Finish(w)
  <2>1. /\ c.pc = "result" /\ c.result \in {"done", "failed"}
        /\ job' = [job EXCEPT ![c.id].status = c.result, ![c.id].lease = "none"]
        /\ worker' = [worker EXCEPT ![w] = Parked]
    BY <1>8, <1>1 DEF Finish
  <2>2. job' \in [Job -> JobRow]
    BY <1>1, <2>1, RowsKept
  <2> QED  BY <1>1, <1>4, <2>1, <2>2
<1> QED  BY <1>5, <1>6, <1>7, <1>8 DEF RuntimeStep

(* Steps of the handler. *)
LEMMA TurnCounted == msgs \in Seq(0 .. NAgents) => AgentTurns(msgs) \in Nat
<1> SUFFICES ASSUME msgs \in Seq(0 .. NAgents)
             PROVE  AgentTurns(msgs) \in Nat
  OBVIOUS
<1>1. IsFiniteSet(1 .. Len(msgs))
  BY FS_Interval, LenProperties
<1>2. IsFiniteSet({i \in DOMAIN msgs : AgentMsg(msgs[i])})
  BY <1>1, FS_Subset, LenProperties
<1> QED  BY <1>2, FS_CardinalityType DEF AgentTurns

LEMMA HandlerTypes ==
  ASSUME TypeInv, NEW w \in Worker, Handler(w)
  PROVE  TypeInv'
<1> DEFINE c == worker[w]
           t == turn[w]
<1>1. /\ job \in [Job -> JobRow] /\ worker \in [Worker -> Call]
      /\ turn \in [Worker -> Turn] /\ msgs \in Seq(0 .. NAgents)
      /\ run \in [status : RunStatus, round : Nat]
      /\ c \in Call /\ t \in Turn /\ c.pc = "handler" /\ c.id \in Job
      /\ c.id # None /\ NoTurn \in Turn /\ NoTurn.at = "out"
  BY NullAssumption
  DEF TypeInv, TypeOK, RuntimeTypeOK, Placed, Call, Handler, InHandler, NoTurn, Turn,
      ReadRun, ReadMessages, MarkRunning, PostTurn, PostOrchestrator, CompleteRun, ModelFails
<1>2. UNCHANGED <<job, poster, stopper, overrun>>
  BY DEF Handler, ReadRun, ReadMessages, MarkRunning, PostTurn, PostOrchestrator,
         CompleteRun, ModelFails
<1>3. SUFFICES /\ worker' \in [Worker -> Call] /\ turn' \in [Worker -> Turn] /\ Placed'
               /\ msgs' \in Seq(0 .. NAgents)
               /\ run' \in [status : RunStatus, round : Nat]
  BY <1>2 DEF TypeInv, TypeOK, RuntimeTypeOK
<1>4. ASSUME NEW r \in {"more", "done", "failed"}, Returns(w, r, None), Leave(w)
      PROVE  worker' \in [Worker -> Call] /\ turn' \in [Worker -> Turn] /\ Placed'
  <2> DEFINE d == [c EXCEPT !.pc = "result", !.result = r, !.cursor = None]
  <2>1. d \in Call /\ d.pc = "result" /\ d.id = c.id
    <3> HIDE DEF c
    <3> QED  BY <1>1 DEF Call
  <2>2. worker' = [worker EXCEPT ![w] = d] /\ turn' = [turn EXCEPT ![w] = NoTurn]
    BY <1>1, <1>4 DEF Returns, Leave
  <2> HIDE DEF d
  <2> QED  BY <1>1, <2>1, <2>2, PlacedKept
<1>5. ASSUME NEW u \in Turn, UNCHANGED worker, turn' = [turn EXCEPT ![w] = u]
      PROVE  worker' \in [Worker -> Call] /\ turn' \in [Worker -> Turn] /\ Placed'
  BY <1>1, <1>5, PlacedKept
<1>6. CASE ReadRun(w)
  <2>1. UNCHANGED <<msgs, run>>
    BY <1>6 DEF ReadRun
  <2>2. CASE run.status = "cancelled"
    <3>1. Returns(w, "done", None) /\ t.at = "out" /\ UNCHANGED turn
      BY <1>6, <2>2 DEF ReadRun, InHandler
    <3> DEFINE d == [c EXCEPT !.pc = "result", !.result = "done", !.cursor = None]
    <3>2. d \in Call /\ d.pc = "result" /\ d.id = c.id
      <4> HIDE DEF c
      <4> QED  BY <1>1 DEF Call
    <3>3. worker' = [worker EXCEPT ![w] = d] /\ turn' = [turn EXCEPT ![w] = t]
      BY <1>1, <3>1 DEF Returns
    <3> HIDE DEF d
    <3> QED  BY <1>1, <2>1, <3>1, <3>2, <3>3, PlacedKept
  <2>3. CASE run.status # "cancelled"
    <3> DEFINE u == [t EXCEPT !.at = "messages", !.status = run.status]
    <3>1. u \in Turn
      BY <1>1 DEF Turn
    <3>2. UNCHANGED worker /\ turn' = [turn EXCEPT ![w] = u]
      BY <1>6, <2>3, <1>1 DEF ReadRun
    <3> HIDE DEF u
    <3> QED  BY <1>1, <1>5, <2>1, <3>1, <3>2
  <2> QED  BY <2>2, <2>3
<1>7. CASE ReadMessages(w)
  <2>1. PICK u \in Turn : turn' = [turn EXCEPT ![w] = u]
    <3> DEFINE A == IF t.status \in {"draft", "queued"} THEN "mark" ELSE "call"
               N == AgentTurns(msgs)
               C == \E i \in DOMAIN msgs : ~AgentMsg(msgs[i])
               u == [t EXCEPT !.at = A, !.turns = N, !.closed = C]
    <3>1. A \in {"mark", "call"} /\ N \in Nat /\ C \in BOOLEAN
      BY <1>1, TurnCounted
    <3>2. turn' = [turn EXCEPT ![w] = u]
      BY <1>7, <1>1 DEF ReadMessages
    <3> HIDE DEF A, N, C
    <3>3. u \in Turn
      BY <1>1, <3>1 DEF Turn
    <3> QED  BY <3>2, <3>3
  <2>2. UNCHANGED <<worker, run, msgs>>
    BY <1>7 DEF ReadMessages
  <2> QED  BY <1>1, <1>5, <2>1, <2>2
<1>8. CASE MarkRunning(w)
  <2> DEFINE u == [t EXCEPT !.at = "call"]
  <2>1. u \in Turn
    BY <1>1 DEF Turn
  <2>2. /\ UNCHANGED <<worker, msgs>> /\ turn' = [turn EXCEPT ![w] = u]
        /\ run' = [run EXCEPT !.status = "running"]
    BY <1>8, <1>1 DEF MarkRunning
  <2>3. run' \in [status : RunStatus, round : Nat]
    BY <1>1, <2>2
  <2> HIDE DEF u
  <2> QED  BY <1>1, <1>5, <2>1, <2>2, <2>3
<1>9. CASE PostTurn(w)
  <2> DEFINE n == t.turns
             k == n % NAgents
             q == n \div NAgents
  <2>1. n \in Nat
    BY <1>1 DEF Turn
  <2>2. k \in 0 .. (NAgents - 1) /\ q \in Nat
    BY <2>1, AgentsAssumption
  <2>3. /\ msgs' = Append(msgs, k + 1)
        /\ run' = [run EXCEPT !.round = q + 1]
        /\ Leave(w) /\ Returns(w, "more", None)
    BY <1>9 DEF PostTurn, Speaker
  <2> HIDE DEF n, k, q
  <2>4. msgs' \in Seq(0 .. NAgents)
    BY <1>1, <2>2, <2>3, AgentsAssumption, AppendProperties
  <2>5. run' \in [status : RunStatus, round : Nat]
    <3>1. q + 1 \in Nat /\ run \in [status : RunStatus, round : Nat]
      BY <1>1, <2>2
    <3> QED  BY <2>3, <3>1
  <2> QED  BY <1>4, <2>3, <2>4, <2>5
<1>10. CASE PostOrchestrator(w)
  <2> DEFINE u == [t EXCEPT !.closed = TRUE]
  <2>1. u \in Turn
    BY <1>1 DEF Turn
  <2>2. /\ UNCHANGED <<worker, run>> /\ turn' = [turn EXCEPT ![w] = u]
        /\ msgs' = Append(msgs, 0)
    BY <1>10, <1>1 DEF PostOrchestrator
  <2>3. msgs' \in Seq(0 .. NAgents)
    BY <1>1, <2>2, AgentsAssumption, AppendProperties
  <2> HIDE DEF u
  <2> QED  BY <1>1, <1>5, <2>1, <2>2, <2>3
<1>11. CASE CompleteRun(w)
  <2>1. /\ UNCHANGED msgs /\ run' = [run EXCEPT !.status = "done"]
        /\ Leave(w) /\ Returns(w, "done", None)
    BY <1>11 DEF CompleteRun
  <2>2. run' \in [status : RunStatus, round : Nat]
    BY <1>1, <2>1
  <2> QED  BY <1>1, <1>4, <2>1, <2>2
<1>12. CASE ModelFails(w)
  <2>1. UNCHANGED <<msgs, run>> /\ Leave(w) /\ Returns(w, "failed", None)
    BY <1>12 DEF ModelFails
  <2> QED  BY <1>1, <1>4, <2>1
<1> QED  BY <1>6, <1>7, <1>8, <1>9, <1>10, <1>11, <1>12 DEF Handler

LEMMA TypeInit == Init => TypeInv
<1> SUFFICES ASSUME Init PROVE TypeInv
  OBVIOUS
<1>1. NoJob \in JobRow /\ NoTurn \in Turn
  BY DEF NoJob, JobRow, NoTurn, Turn
<1>2. NoTurn.at = "out"
  BY DEF NoTurn
<1>3. << >> \in Seq(0 .. NAgents)
  BY EmptySeq
<1>4. RuntimeTypeOK
  BY <1>1, ParkedCall DEF Init, RuntimeInit, RuntimeTypeOK
<1>5. Placed
  BY <1>2, ParkedCall DEF Init, RuntimeInit, Placed
<1> QED  BY <1>1, <1>3, <1>4, <1>5 DEF Init, TypeInv, TypeOK

LEMMA TypeStep == TypeInv /\ [Next]_vars => TypeInv'
<1> SUFFICES ASSUME TypeInv, [Next]_vars PROVE TypeInv'
  OBVIOUS
<1>1. /\ job \in [Job -> JobRow] /\ worker \in [Worker -> Call]
      /\ turn \in [Worker -> Turn] /\ Placed
      /\ run \in [status : RunStatus, round : Nat] /\ msgs \in Seq(0 .. NAgents)
      /\ poster \in {"create", "queue", "enqueue", "end"}
      /\ stopper \in {"idle", "mark"} /\ overrun \in BOOLEAN
  BY DEF TypeInv, TypeOK, RuntimeTypeOK
<1>2. ASSUME UNCHANGED <<worker, turn>>
      PROVE  worker' \in [Worker -> Call] /\ turn' \in [Worker -> Turn] /\ Placed'
  BY <1>1, <1>2 DEF Placed
<1>3. CASE CreateGroupchatRun \/ QueueRun \/ PosterDies \/ CancelRun \/ StopperDies
  <2>1. UNCHANGED <<job, worker, turn, msgs, overrun>>
    BY <1>3 DEF CreateGroupchatRun, QueueRun, PosterDies, CancelRun, StopperDies
  <2>2. run' \in [status : RunStatus, round : Nat]
    BY <1>1, <1>3 DEF CreateGroupchatRun, QueueRun, PosterDies, CancelRun, StopperDies
  <2>3. poster' \in {"create", "queue", "enqueue", "end"} /\ stopper' \in {"idle", "mark"}
    BY <1>1, <1>3 DEF CreateGroupchatRun, QueueRun, PosterDies, CancelRun, StopperDies
  <2> QED  BY <1>1, <1>2, <2>1, <2>2, <2>3 DEF TypeInv, TypeOK, RuntimeTypeOK
<1>4. CASE EnqueueRun
  <2>1. PICK j \in Job : EnqueueJob(j, Chat, None)
    BY <1>4 DEF EnqueueRun
  <2>2. Chat \in Ref
    BY ChatAssumption DEF Chat
  <2> DEFINE r == [status |-> "queued", lease |-> "none", cursor |-> None, ref |-> Chat]
  <2>3. r \in JobRow
    BY <2>2 DEF JobRow
  <2>4. job' = [job EXCEPT ![j] = r] /\ UNCHANGED worker
    BY <2>1 DEF EnqueueJob
  <2> HIDE DEF r
  <2>5. job' \in [Job -> JobRow]
    BY <1>1, <2>3, <2>4
  <2>6. UNCHANGED <<worker, run, msgs, turn, stopper, overrun>> /\ poster' = "end"
    BY <1>4, <2>4 DEF EnqueueRun
  <2> QED  BY <1>1, <1>2, <2>5, <2>6 DEF TypeInv, TypeOK, RuntimeTypeOK
<1>5. CASE CancelJobs
  <2>1. job' = [j \in Job |-> IF job[j].ref = Chat /\ job[j].status \in Active
                               THEN [job[j] EXCEPT !.status = "cancelled"] ELSE job[j]]
    BY <1>5 DEF CancelJobs, CancelJobsByRef
  <2>2. ASSUME NEW r \in JobRow PROVE [r EXCEPT !.status = "cancelled"] \in JobRow
    BY <2>2 DEF JobRow
  <2>3. job' \in [Job -> JobRow]
    BY <1>1, <2>1, <2>2
  <2>4. UNCHANGED <<worker, run, msgs, turn, poster, overrun>> /\ stopper' = "mark"
    BY <1>5 DEF CancelJobs, CancelJobsByRef
  <2> QED  BY <1>1, <1>2, <2>3, <2>4 DEF TypeInv, TypeOK, RuntimeTypeOK
<1>6. CASE Tick
  <2>1. PICK w \in Worker, j \in Job : Claim(w, j)
    BY <1>6 DEF Tick
  <2> DEFINE d == [Parked EXCEPT !.pc = "loop", !.id = j]
  <2>2. d \in Call /\ d.pc = "loop" /\ d.id = j /\ j # None
    BY NullAssumption DEF Parked, Call
  <2>3. /\ worker[w].pc = "idle" /\ worker' = [worker EXCEPT ![w] = d]
        /\ job' = [job EXCEPT ![j].status = "running", ![j].lease = "held"]
    BY <2>1 DEF Claim
  <2>4. UNCHANGED <<turn, overrun, run, msgs, poster, stopper>>
    BY <1>6 DEF Tick, chatVars
  <2>5. job' \in [Job -> JobRow]
    BY <1>1, <2>3, RowsKept
  <2>6. turn' = [turn EXCEPT ![w] = turn[w]] /\ turn[w] \in Turn /\ turn[w].at = "out"
    BY <1>1, <2>3, <2>4 DEF Placed
  <2> HIDE DEF d
  <2>7. worker' \in [Worker -> Call] /\ turn' \in [Worker -> Turn] /\ Placed'
    BY <2>2, <2>3, <2>6, PlacedKept
  <2> QED  BY <1>1, <2>4, <2>5, <2>7 DEF TypeInv, TypeOK, RuntimeTypeOK
<1>7. ASSUME NEW w \in Worker, Work(w) \/ RunsOut(w) \/ Dies(w)
      PROVE  TypeInv'
  <2>1. CASE Work(w)
    BY <2>1, HandlerTypes, RuntimeTypes DEF Work
  <2>2. CASE RunsOut(w) \/ Dies(w)
    <3> DEFINE t == IF RunsOut(w) THEN turn[w] ELSE NoTurn
    <3>1. t \in Turn /\ t.at = "out"
      BY <1>1, <2>2 DEF RunsOut, BudgetSpent, Placed, NoTurn, Turn
    <3>2. turn' = [turn EXCEPT ![w] = t]
      BY <1>1, <2>2 DEF RunsOut, Dies, Leave
    <3>3. worker' = [worker EXCEPT ![w] = Parked] /\ UNCHANGED job
      BY <2>2 DEF RunsOut, Dies, BudgetSpent, WorkerDies
    <3>4. UNCHANGED <<overrun, run, msgs, poster, stopper>>
      BY <2>2 DEF RunsOut, Dies, chatVars
    <3> HIDE DEF t
    <3>5. worker' \in [Worker -> Call] /\ turn' \in [Worker -> Turn] /\ Placed'
      BY <3>1, <3>2, <3>3, ParkedCall, PlacedKept
    <3> QED  BY <1>1, <3>3, <3>4, <3>5 DEF TypeInv, TypeOK, RuntimeTypeOK
  <2> QED  BY <1>7, <2>1, <2>2
<1>8. ASSUME NEW j \in Job, Expire(j)
      PROVE  TypeInv'
  <2>1. job' = [job EXCEPT ![j].lease = "expired"] /\ UNCHANGED worker
    BY <1>8 DEF Expire, LeaseExpires
  <2>2. job' \in [Job -> JobRow]
    BY <1>1, <2>1, RowsKept
  <2>3. UNCHANGED <<turn, run, msgs, poster, stopper>> /\ overrun' \in BOOLEAN
    BY <1>1, <1>8 DEF Expire, chatVars, WorkedOn
  <2> QED  BY <1>1, <1>2, <2>1, <2>2, <2>3 DEF TypeInv, TypeOK, RuntimeTypeOK
<1>9. CASE UNCHANGED vars
  BY <1>1, <1>2, <1>9 DEF vars, TypeInv, TypeOK, RuntimeTypeOK
<1> QED  BY <1>3, <1>4, <1>5, <1>6, <1>7, <1>8, <1>9 DEF Next

(* A row has a status of the list, a call in the handler has its job, and  *)
(* what the handler has read is a number of turns: no worker, however late *)
(* or crashed, writes the row of a job it does not hold in its hands.      *)
THEOREM TypesHold == Spec => []TypeOK
<1>1. TypeInv => TypeOK
  BY DEF TypeInv
<1> QED  BY <1>1, TypeInit, TypeStep, PTL DEF Spec
----------------------------------------------------------------------------
(* Jobs stay ended *)

EndsOnce == \A j \in Job : job[j].status \in Terminal => job'[j].status \in Terminal

LEMMA EndedStep == TypeInv /\ [Next]_vars => EndsOnce
<1> SUFFICES ASSUME TypeInv, [Next]_vars, NEW j \in Job, job[j].status \in Terminal
             PROVE  job'[j].status \in Terminal
  BY DEF EndsOnce
<1>1. job \in [Job -> JobRow]
  BY DEF TypeInv, TypeOK, RuntimeTypeOK
<1>2. ASSUME NEW w \in Worker, NEW i \in Job, Claim(w, i)
      PROVE  job'[j].status \in Terminal
  <2>1. i # j /\ job' = [job EXCEPT ![i].status = "running", ![i].lease = "held"]
    BY <1>2 DEF Claim, Claimable
  <2> QED  BY <1>1, <2>1
<1>3. ASSUME NEW i \in Job, EnqueueJob(i, Chat, None)
      PROVE  job'[j].status \in Terminal
  BY <1>1, <1>3 DEF EnqueueJob
<1>4. ASSUME NEW w \in Worker, PersistProgress(w)
      PROVE  job'[j].status \in Terminal
  <2>1. job' = [job EXCEPT ![worker[w].id].cursor = worker[w].cursor,
                           ![worker[w].id].lease = "held"]
    BY <1>4 DEF PersistProgress
  <2>2. job'[j].status = job[j].status
    BY <1>1, <2>1 DEF JobRow
  <2> QED  BY <2>2
<1>5. ASSUME NEW w \in Worker, Finish(w)
      PROVE  job'[j].status \in Terminal
  <2>1. /\ worker[w].result \in {"done", "failed"}
        /\ job' = [job EXCEPT ![worker[w].id].status = worker[w].result,
                              ![worker[w].id].lease = "none"]
    BY <1>5 DEF Finish
  <2>2. job'[j].status \in {job[j].status, worker[w].result}
    BY <1>1, <2>1 DEF JobRow
  <2> QED  BY <2>1, <2>2
<1>6. ASSUME NEW i \in Job, LeaseExpires(i)
      PROVE  job'[j].status \in Terminal
  <2>1. job' = [job EXCEPT ![i].lease = "expired"]
    BY <1>6 DEF LeaseExpires
  <2>2. job'[j].status = job[j].status
    BY <1>1, <2>1 DEF JobRow
  <2> QED  BY <2>2
<1>7. CASE CancelJobs
  BY <1>1, <1>7 DEF CancelJobs, CancelJobsByRef
<1>8. ASSUME UNCHANGED job
      PROVE  job'[j].status \in Terminal
  BY <1>8
<1>9. CASE \/ CreateGroupchatRun \/ QueueRun \/ PosterDies \/ CancelRun \/ StopperDies
           \/ UNCHANGED vars
  BY <1>8, <1>9 DEF CreateGroupchatRun, QueueRun, PosterDies, CancelRun, StopperDies, vars
<1>10. ASSUME NEW w \in Worker, Work(w) \/ RunsOut(w) \/ Dies(w)
       PROVE  job'[j].status \in Terminal
  <2>1. CASE Handler(w)
    BY <1>8, <2>1 DEF Handler, ReadRun, ReadMessages, MarkRunning, PostTurn,
                      PostOrchestrator, CompleteRun, ModelFails
  <2>2. CASE RuntimeStep(w)
    BY <1>4, <1>5, <1>8, <2>2 DEF RuntimeStep, HandlerStarts, SeesCancelled
  <2>3. CASE RunsOut(w) \/ Dies(w)
    BY <1>8, <2>3 DEF RunsOut, Dies, BudgetSpent, WorkerDies
  <2> QED  BY <1>10, <2>1, <2>2, <2>3 DEF Work
<1> QED
  BY <1>2, <1>3, <1>6, <1>7, <1>9, <1>10 DEF Next, EnqueueRun, Tick, Expire

(* A job that ended stays ended: claim takes only queued or running rows,  *)
(* and what a late worker writes by id never gives the row back its life.  *)
THEOREM EndedForGood == Spec => JobsStayEnded
<1>1. EndsOnce => \A j \in Job : job[j].status \in Terminal => job'[j].status \in Terminal
  BY DEF EndsOnce
<1> QED  BY <1>1, TypeInit, TypeStep, EndedStep, PTL DEF Spec, JobsStayEnded
----------------------------------------------------------------------------
(* Counting turns *)

Msg == 0 .. NAgents

LEMMA TargetNat == Target \in Nat
<1>1. ASSUME NEW r \in Nat PROVE r * NAgents \in Nat
  BY <1>1, AgentsAssumption
<1> QED  BY <1>1, RoundsAssumption DEF Target

LEMMA TurnsNat ==
  ASSUME NEW ms \in Seq(Msg)
  PROVE  /\ AgentTurns(ms) \in Nat
         /\ IsFiniteSet({i \in DOMAIN ms : AgentMsg(ms[i])})
<1>1. IsFiniteSet(1 .. Len(ms)) /\ DOMAIN ms = 1 .. Len(ms)
  BY FS_Interval, LenProperties
<1>2. IsFiniteSet({i \in DOMAIN ms : AgentMsg(ms[i])})
  BY <1>1, FS_Subset
<1> QED  BY <1>2, FS_CardinalityType DEF AgentTurns

(* One more message is one more turn, unless it is the orchestrator's. *)
LEMMA TurnsAppend ==
  ASSUME NEW ms \in Seq(Msg), NEW m \in Msg
  PROVE  AgentTurns(Append(ms, m)) = AgentTurns(ms) + (IF AgentMsg(m) THEN 1 ELSE 0)
<1> DEFINE n == Len(ms)
           S == {i \in DOMAIN ms : AgentMsg(ms[i])}
           A == Append(ms, m)
           T == {i \in DOMAIN A : AgentMsg(A[i])}
<1>1. /\ n \in Nat /\ DOMAIN ms = 1 .. n /\ DOMAIN A = 1 .. (n + 1)
      /\ \A i \in 1 .. n : A[i] = ms[i]
      /\ A[n + 1] = m
  BY LenProperties, AppendProperties
<1>2. IsFiniteSet(S)
  BY TurnsNat
<1>3. n + 1 \notin S
  BY <1>1
<1>4. T = IF AgentMsg(m) THEN S \cup {n + 1} ELSE S
  <2> HIDE DEF n, A
  <2> QED  BY <1>1
<1>5. Cardinality(S \cup {n + 1}) = Cardinality(S) + 1 /\ Cardinality(S) \in Nat
  BY <1>2, <1>3, FS_AddElement, FS_CardinalityType
<1>6. AgentTurns(ms) = Cardinality(S) /\ AgentTurns(Append(ms, m)) = Cardinality(T)
  BY DEF AgentTurns
<1> HIDE DEF S, T, n
<1> QED  BY <1>4, <1>5, <1>6

(* What comes before a message does not change. *)
LEMMA PrefixAppend ==
  ASSUME NEW ms \in Seq(Msg), NEW m \in Msg, NEW k \in 0 .. Len(ms)
  PROVE  SubSeq(Append(ms, m), 1, k) = SubSeq(ms, 1, k)
<1> DEFINE A == Append(ms, m)
<1>1. /\ Len(ms) \in Nat /\ A \in Seq(Msg)
      /\ \A i \in 1 .. k : A[i] = ms[i] /\ ms[i] \in Msg /\ A[i] \in Msg
  BY LenProperties, AppendProperties, ElementOfSeq
<1>2. /\ SubSeq(A, 1, k) \in Seq(Msg) /\ SubSeq(ms, 1, k) \in Seq(Msg)
      /\ Len(SubSeq(A, 1, k)) = k /\ Len(SubSeq(ms, 1, k)) = k
      /\ \A i \in 1 .. k : SubSeq(A, 1, k)[i] = A[i] /\ SubSeq(ms, 1, k)[i] = ms[i]
  <2> HIDE DEF A
  <2>1. k \in Int /\ 1 \in Int /\ (IF 1 <= k THEN k - 1 + 1 ELSE 0) = k
        /\ k - 1 + 1 = k /\ \A i \in 1 .. k : 1 + i - 1 = i
    OBVIOUS
  <2>2. /\ SubSeq(A, 1, k) \in Seq(Msg)
        /\ Len(SubSeq(A, 1, k)) = IF 1 <= k THEN k - 1 + 1 ELSE 0
        /\ \A i \in 1 .. k - 1 + 1 : SubSeq(A, 1, k)[i] = A[1 + i - 1]
    BY <1>1, <2>1, SubSeqProperties
  <2>3. /\ SubSeq(ms, 1, k) \in Seq(Msg)
        /\ Len(SubSeq(ms, 1, k)) = IF 1 <= k THEN k - 1 + 1 ELSE 0
        /\ \A i \in 1 .. k - 1 + 1 : SubSeq(ms, 1, k)[i] = ms[1 + i - 1]
    BY <1>1, <2>1, SubSeqProperties
  <2> QED  BY <2>1, <2>2, <2>3
<1> HIDE DEF A
<1> QED  BY <1>1, <1>2, SeqEqual DEF A
----------------------------------------------------------------------------
(* Steps, by what they do to the messages and to what workers have read *)

HasRead(w) == turn[w].at \in {"mark", "call"}

(* What w has read it had read before. *)
ReadStays(w) ==
  HasRead(w)' => /\ HasRead(w)
                 /\ turn'[w].turns = turn[w].turns
                 /\ turn'[w].closed = turn[w].closed

LEMMA ReadStaysOthers ==
  ASSUME TypeInv, NEW w \in Worker, NEW t, turn' = [turn EXCEPT ![w] = t]
  PROVE  \A v \in Worker \ {w} : turn'[v] = turn[v] /\ ReadStays(v)
BY DEF TypeInv, TypeOK, HasRead, ReadStays

LEMMA LeavesReads ==
  ASSUME TypeInv, NEW w \in Worker, Leave(w)
  PROVE  \A v \in Worker : ReadStays(v) /\ ~HasRead(w)'
<1>1. turn' = [turn EXCEPT ![w] = NoTurn] /\ turn'[w] = NoTurn
  BY DEF TypeInv, TypeOK, Leave
<1>2. ~HasRead(w)' /\ ReadStays(w)
  BY <1>1 DEF HasRead, ReadStays, NoTurn
<1> QED  BY <1>1, <1>2, ReadStaysOthers

LEMMA StepKinds ==
  ASSUME TypeInv, [Next]_vars
  PROVE  \/ UNCHANGED msgs /\ \A v \in Worker : ReadStays(v)
         \/ \E w \in Worker : ReadMessages(w) \/ PostTurn(w) \/ PostOrchestrator(w)
<1> DEFINE Quiet == UNCHANGED msgs /\ \A v \in Worker : ReadStays(v)
<1>1. turn \in [Worker -> Turn]
  BY DEF TypeInv, TypeOK
<1>2. ASSUME UNCHANGED <<msgs, turn>> PROVE Quiet
  BY <1>2 DEF ReadStays, HasRead
<1>3. CASE \/ CreateGroupchatRun \/ QueueRun \/ EnqueueRun \/ PosterDies \/ CancelJobs
           \/ CancelRun \/ StopperDies \/ Tick \/ (\E j \in Job : Expire(j)) \/ UNCHANGED vars
  BY <1>2, <1>3 DEF CreateGroupchatRun, QueueRun, EnqueueRun, PosterDies, CancelJobs,
       CancelRun, StopperDies, Tick, Expire, chatVars, vars
<1>4. ASSUME NEW w \in Worker, ReadRun(w) \/ MarkRunning(w)
      PROVE  Quiet
  <2>1. CASE UNCHANGED turn
    BY <1>2, <1>4, <2>1 DEF ReadRun, MarkRunning
  <2>2. CASE ~UNCHANGED turn
    <3>1. PICK t : /\ turn' = [turn EXCEPT ![w] = t]
                   /\ t.at = "messages" \/
                      (HasRead(w) /\ t.turns = turn[w].turns /\ t.closed = turn[w].closed)
      <4>1. CASE ReadRun(w)
        <5> DEFINE t == [turn[w] EXCEPT !.at = "messages", !.status = run.status]
        <5>1. t.at = "messages"
          BY <1>1 DEF Turn
        <5>2. turn' = [turn EXCEPT ![w] = t]
          BY <1>1, <2>2, <4>1 DEF ReadRun
        <5> QED  BY <5>1, <5>2
      <4>2. CASE MarkRunning(w)
        <5> DEFINE t == [turn[w] EXCEPT !.at = "call"]
        <5>1. t.turns = turn[w].turns /\ t.closed = turn[w].closed
          BY <1>1 DEF Turn
        <5>2. turn' = [turn EXCEPT ![w] = t] /\ HasRead(w)
          BY <1>1, <4>2 DEF MarkRunning, HasRead, InHandler
        <5> QED  BY <5>1, <5>2
      <4> QED  BY <1>4, <4>1, <4>2
    <3>2. turn'[w] = t
      BY <1>1, <3>1
    <3>3. ReadStays(w)
      BY <3>1, <3>2 DEF ReadStays, HasRead
    <3>4. UNCHANGED msgs
      BY <1>4 DEF ReadRun, MarkRunning
    <3> QED  BY <3>1, <3>3, <3>4, ReadStaysOthers
  <2> QED  BY <2>1, <2>2
<1>5. ASSUME NEW w \in Worker, CompleteRun(w) \/ ModelFails(w) \/ Dies(w)
      PROVE  Quiet
  BY <1>5, LeavesReads DEF CompleteRun, ModelFails, Dies, chatVars
<1>6. ASSUME NEW w \in Worker, RunsOut(w) \/ (RuntimeStep(w) /\ UNCHANGED <<turn, overrun, chatVars>>)
      PROVE  Quiet
  BY <1>2, <1>6 DEF RunsOut, chatVars
<1> HIDE DEF Quiet
<1>7. ASSUME NEW w \in Worker, Work(w) \/ RunsOut(w) \/ Dies(w)
      PROVE  Quiet \/ ReadMessages(w) \/ PostTurn(w) \/ PostOrchestrator(w)
  <2>1. CASE Handler(w)
    BY <1>4, <1>5, <2>1 DEF Handler
  <2>2. CASE ~Handler(w)
    BY <1>5, <1>6, <1>7, <2>2 DEF Work
  <2> QED  BY <2>1, <2>2
<1> QED  BY <1>3, <1>7 DEF Next, Quiet

(* What the three steps do. *)
LEMMA ReadMessagesDoes ==
  ASSUME TypeInv, NEW w \in Worker, ReadMessages(w)
  PROVE  /\ UNCHANGED msgs /\ ~HasRead(w) /\ HasRead(w)'
         /\ turn'[w].turns = AgentTurns(msgs)
         /\ turn'[w].closed = \E i \in DOMAIN msgs : ~AgentMsg(msgs[i])
         /\ \A v \in Worker \ {w} : turn'[v] = turn[v] /\ ReadStays(v)
<1> DEFINE A == IF turn[w].status \in {"draft", "queued"} THEN "mark" ELSE "call"
           N == AgentTurns(msgs)
           C == \E i \in DOMAIN msgs : ~AgentMsg(msgs[i])
           u == [turn[w] EXCEPT !.at = A, !.turns = N, !.closed = C]
<1>1. turn \in [Worker -> Turn]
  BY DEF TypeInv, TypeOK
<1>2. turn' = [turn EXCEPT ![w] = u] /\ UNCHANGED msgs /\ turn[w].at = "messages"
  BY <1>1 DEF ReadMessages, InHandler
<1>3. A \in {"mark", "call"}
  OBVIOUS
<1> HIDE DEF A, N, C
<1>4. u.at = A /\ u.turns = N /\ u.closed = C
  BY <1>1 DEF Turn
<1> HIDE DEF u
<1>5. turn'[w] = u
  BY <1>1, <1>2
<1> QED  BY <1>2, <1>3, <1>4, <1>5, ReadStaysOthers DEF HasRead, N, C

LEMMA PostTurnDoes ==
  ASSUME TypeInv, NEW w \in Worker, PostTurn(w)
  PROVE  /\ HasRead(w) /\ turn[w].turns \in Nat /\ turn[w].turns < Target
         /\ msgs' = Append(msgs, Speaker(turn[w].turns))
         /\ Speaker(turn[w].turns) \in 1 .. NAgents
         /\ ~HasRead(w)'
         /\ \A v \in Worker \ {w} : turn'[v] = turn[v] /\ ReadStays(v)
<1>1. turn[w].turns \in Nat /\ turn \in [Worker -> Turn]
  BY DEF TypeInv, TypeOK, Turn
<1>2. /\ HasRead(w) /\ ~(turn[w].turns >= Target) /\ Leave(w)
      /\ msgs' = Append(msgs, Speaker(turn[w].turns))
  BY DEF PostTurn, InHandler, HasRead, TurnsDone
<1>3. Speaker(turn[w].turns) \in 1 .. NAgents
  BY <1>1, AgentsAssumption DEF Speaker
<1>4. turn[w].turns < Target
  BY <1>1, <1>2, TargetNat
<1>5. turn' = [turn EXCEPT ![w] = NoTurn] /\ ~HasRead(w)'
  BY <1>2, LeavesReads DEF Leave
<1> QED  BY <1>1, <1>2, <1>3, <1>4, <1>5, ReadStaysOthers

LEMMA PostOrchestratorDoes ==
  ASSUME TypeInv, NEW w \in Worker, PostOrchestrator(w)
  PROVE  /\ HasRead(w) /\ turn[w].turns \in Nat /\ turn[w].turns >= Target
         /\ msgs' = Append(msgs, 0) /\ turn[w].closed = FALSE
         /\ turn'[w].turns = turn[w].turns /\ turn'[w].closed = TRUE
         /\ turn'[w].at = "call"
         /\ \A v \in Worker \ {w} : turn'[v] = turn[v] /\ ReadStays(v)
<1> DEFINE u == [turn[w] EXCEPT !.closed = TRUE]
<1>1. turn[w].turns \in Nat /\ turn[w].closed \in BOOLEAN /\ turn \in [Worker -> Turn]
  BY DEF TypeInv, TypeOK, Turn
<1>2. /\ turn[w].at = "call" /\ turn[w].turns >= Target /\ ~turn[w].closed
      /\ msgs' = Append(msgs, 0) /\ turn' = [turn EXCEPT ![w] = u]
  BY <1>1 DEF PostOrchestrator, InHandler, TurnsDone, NeedsOrchestrator
<1>3. u.turns = turn[w].turns /\ u.closed = TRUE /\ u.at = turn[w].at
  BY <1>1 DEF Turn
<1> HIDE DEF u
<1>4. turn'[w] = u
  BY <1>1, <1>2
<1> QED  BY <1>1, <1>2, <1>3, <1>4, ReadStaysOthers DEF HasRead
----------------------------------------------------------------------------
(* The orchestrator comes last, the cap holds *)

(* Messages are never removed: what a worker read is not more than what    *)
(* there is now.                                                           *)
CountInv == \A w \in Worker : HasRead(w) => turn[w].turns <= AgentTurns(msgs)

(* Workers that are going to post a turn. *)
Pending == {w \in Worker : HasRead(w) /\ turn[w].turns < Target}

(* Each worker that read less than the cap adds at most one turn, and the  *)
(* last to read was below it: TurnsBounded alone does not survive a step,  *)
(* for it does not say how many turns are still on their way.              *)
CapInv == AgentTurns(msgs) + Cardinality(Pending) <= Target + Cardinality(Worker) - 1

ChatInv == TypeInv /\ CountInv /\ CapInv /\ OrchestratorLast

LEMMA PendingFinite ==
  /\ IsFiniteSet(Pending) /\ Cardinality(Pending) \in Nat
  /\ Cardinality(Worker) \in Nat /\ Cardinality(Pending) <= Cardinality(Worker)
<1>1. Pending \subseteq Worker
  BY DEF Pending
<1> QED  BY <1>1, WorkerAssumption, FS_Subset, FS_CardinalityType

LEMMA ChatInit == Init => ChatInv
<1> SUFFICES ASSUME Init PROVE ChatInv
  OBVIOUS
<1>1. TypeInv
  BY TypeInit
<1>2. msgs = << >> /\ \A w \in Worker : ~HasRead(w)
  BY DEF Init, HasRead, NoTurn
<1>3. {i \in DOMAIN msgs : AgentMsg(msgs[i])} = {} /\ Pending = {}
  BY <1>2 DEF Pending
<1>4. AgentTurns(msgs) = 0 /\ Cardinality(Pending) = 0
  BY <1>3, FS_EmptySet DEF AgentTurns
<1>5. Cardinality(Worker) # 0 /\ Cardinality(Worker) \in Nat
  BY WorkerAssumption, FS_EmptySet, FS_CardinalityType
<1>6. CapInv
  BY <1>4, <1>5, TargetNat DEF CapInv
<1>7. CountInv /\ OrchestratorLast
  BY <1>2 DEF CountInv, OrchestratorLast
<1> QED  BY <1>1, <1>6, <1>7 DEF ChatInv

(* Reads that stay do not become more, and what is pending was. *)
LEMMA CountKept ==
  ASSUME CountInv, TypeInv, NEW w \in Worker, ReadStays(w),
         AgentTurns(msgs) \in Nat, AgentTurns(msgs)' \in Nat,
         AgentTurns(msgs)' >= AgentTurns(msgs), HasRead(w)'
  PROVE  turn'[w].turns <= AgentTurns(msgs)'
<1>1. turn[w].turns \in Nat
  BY DEF TypeInv, TypeOK, Turn
<1> QED  BY <1>1 DEF CountInv, ReadStays

LEMMA PendingKept ==
  ASSUME NEW w \in Worker, ReadStays(w), w \in Pending'
  PROVE  w \in Pending
BY DEF Pending, ReadStays, Target

(* One more message: the messages up to any before it are the same. *)
LEMMA OrchestratorKept ==
  ASSUME TypeInv, OrchestratorLast, NEW m \in Msg, msgs' = Append(msgs, m),
         AgentMsg(m) \/ AgentTurns(Append(msgs, m)) >= Target
  PROVE  OrchestratorLast'
<1> DEFINE n == Len(msgs)
<1>1. /\ msgs \in Seq(Msg) /\ n \in Nat /\ DOMAIN msgs = 1 .. n
      /\ DOMAIN msgs' = 1 .. (n + 1) /\ msgs' \in Seq(Msg) /\ Len(msgs') = n + 1
      /\ \A i \in 1 .. n : msgs'[i] = msgs[i]
      /\ msgs'[n + 1] = m
  BY LenProperties, AppendProperties DEF TypeInv, TypeOK, Msg
<1>2. SubSeq(msgs', 1, n + 1) = msgs'
  BY <1>1, SubSeqFull
<1>3. \A i \in 1 .. n : SubSeq(msgs', 1, i) = SubSeq(msgs, 1, i)
  BY <1>1, PrefixAppend
<1>4. SUFFICES ASSUME NEW i \in DOMAIN msgs', ~AgentMsg(msgs'[i])
               PROVE  AgentTurns(SubSeq(msgs', 1, i)) >= Target
  BY DEF OrchestratorLast, Target, AgentMsg, AgentTurns
<1> HIDE DEF n
<1>5. CASE i = n + 1
  BY <1>1, <1>2, <1>4, <1>5
<1>6. CASE i \in 1 .. n
  BY <1>1, <1>3, <1>4, <1>6 DEF OrchestratorLast
<1> QED  BY <1>1, <1>5, <1>6

LEMMA ChatStep == ChatInv /\ [Next]_vars => ChatInv'
<1> SUFFICES ASSUME ChatInv, [Next]_vars PROVE ChatInv'
  OBVIOUS
<1>1. TypeInv /\ TypeInv' /\ CountInv /\ CapInv /\ OrchestratorLast
  BY TypeStep DEF ChatInv
<1>2. /\ msgs \in Seq(Msg) /\ AgentTurns(msgs) \in Nat
      /\ msgs' \in Seq(Msg) /\ AgentTurns(msgs') \in Nat
      /\ \A w \in Worker : turn[w].turns \in Nat
  BY <1>1, TurnsNat DEF TypeInv, TypeOK, Msg, Turn
<1>3. /\ Target' = Target /\ AgentTurns(msgs)' = AgentTurns(msgs')
      /\ Target \in Nat
  BY TargetNat DEF Target, AgentTurns, AgentMsg
<1>4. /\ IsFiniteSet(Pending) /\ Cardinality(Pending) \in Nat
      /\ Cardinality(Worker) \in Nat /\ Cardinality(Worker) > 0
      /\ \A P : P \subseteq Pending => Cardinality(P) <= Cardinality(Pending) /\ Cardinality(P) \in Nat
      /\ Pending' \subseteq Worker
      /\ Cardinality(Pending') <= Cardinality(Worker) /\ Cardinality(Pending') \in Nat
  <2>1. Pending' \subseteq Worker
    BY DEF Pending
  <2>2. Cardinality(Worker) # 0
    BY WorkerAssumption, FS_EmptySet
  <2> QED  BY <2>1, <2>2, PendingFinite, WorkerAssumption, FS_Subset, FS_CardinalityType
<1>5. CASE UNCHANGED msgs /\ \A w \in Worker : ReadStays(w)
  <2>1. CountInv'
    BY <1>1, <1>2, <1>3, <1>5, CountKept DEF CountInv
  <2>2. Pending' \subseteq Pending
    BY <1>4, <1>5, PendingKept
  <2>3. Cardinality(Pending') <= Cardinality(Pending)
    BY <1>4, <2>2
  <2>4. CapInv'
    BY <1>1, <1>2, <1>3, <1>4, <1>5, <2>3 DEF CapInv
  <2>5. OrchestratorLast'
    BY <1>1, <1>3, <1>5 DEF OrchestratorLast, AgentTurns, AgentMsg
  <2> QED  BY <1>1, <2>1, <2>4, <2>5 DEF ChatInv
<1>6. ASSUME NEW w \in Worker, ReadMessages(w)
      PROVE  ChatInv'
  <2>1. /\ UNCHANGED msgs /\ turn'[w].turns = AgentTurns(msgs) /\ ~HasRead(w)
        /\ \A v \in Worker \ {w} : ReadStays(v)
    BY <1>1, <1>6, ReadMessagesDoes
  <2>2. CountInv'
    BY <1>1, <1>2, <1>3, <2>1, CountKept DEF CountInv
  <2>3. CapInv'
    <3>1. CASE AgentTurns(msgs) < Target
      BY <1>2, <1>3, <1>4, <2>1, <3>1 DEF CapInv
    <3>2. CASE AgentTurns(msgs) >= Target
      <4>1. w \notin Pending'
        BY <1>2, <1>3, <2>1, <3>2 DEF Pending
      <4>2. Pending' \subseteq Pending
        BY <1>4, <2>1, <4>1, PendingKept
      <4>3. Cardinality(Pending') <= Cardinality(Pending)
        BY <1>4, <4>2
      <4> QED  BY <1>1, <1>2, <1>3, <1>4, <2>1, <4>3 DEF CapInv
    <3> QED  BY <1>2, <1>3, <3>1, <3>2
  <2>4. OrchestratorLast'
    BY <1>1, <1>3, <2>1 DEF OrchestratorLast, AgentTurns, AgentMsg
  <2> QED  BY <1>1, <2>2, <2>3, <2>4 DEF ChatInv
<1>7. ASSUME NEW w \in Worker, PostTurn(w)
      PROVE  ChatInv'
  <2> DEFINE m == Speaker(turn[w].turns)
  <2>1. /\ HasRead(w) /\ turn[w].turns < Target /\ msgs' = Append(msgs, m)
        /\ m \in 1 .. NAgents /\ ~HasRead(w)' /\ \A v \in Worker \ {w} : ReadStays(v)
    BY <1>1, <1>7, PostTurnDoes
  <2> HIDE DEF m
  <2>2. m \in Msg /\ AgentMsg(m)
    BY <2>1, AgentsAssumption DEF Msg, AgentMsg
  <2>3. AgentTurns(msgs') = AgentTurns(msgs) + 1
    BY <1>2, <2>1, <2>2, TurnsAppend
  <2>4. CountInv'
    BY <1>1, <1>2, <1>3, <2>1, <2>3, CountKept DEF CountInv
  <2>5. w \in Pending /\ w \notin Pending'
    BY <2>1 DEF Pending
  <2>6. Pending' \subseteq Pending \ {w}
    BY <1>4, <2>1, <2>5, PendingKept
  <2>7. Cardinality(Pending') <= Cardinality(Pending) - 1
    <3>1. IsFiniteSet(Pending \ {w}) /\ Cardinality(Pending \ {w}) = Cardinality(Pending) - 1
      BY <1>4, <2>5, FS_RemoveElement
    <3> QED  BY <2>6, <3>1, FS_Subset
  <2>8. CapInv'
    <3>1. AgentTurns(msgs)' + Cardinality(Pending') <= AgentTurns(msgs) + Cardinality(Pending)
      BY <1>2, <1>3, <1>4, <2>3, <2>7
    <3>2. AgentTurns(msgs) + Cardinality(Pending) <= Target + Cardinality(Worker) - 1
      BY <1>1 DEF CapInv
    <3>3. AgentTurns(msgs)' + Cardinality(Pending') <= Target + Cardinality(Worker) - 1
      BY <1>2, <1>3, <1>4, <3>1, <3>2
    <3> QED  BY <1>3, <3>3 DEF CapInv
  <2>9. OrchestratorLast'
    BY <1>1, <2>1, <2>2, OrchestratorKept
  <2> QED  BY <1>1, <2>4, <2>8, <2>9 DEF ChatInv
<1>8. ASSUME NEW w \in Worker, PostOrchestrator(w)
      PROVE  ChatInv'
  <2>1. /\ HasRead(w) /\ turn[w].turns >= Target /\ msgs' = Append(msgs, 0)
        /\ turn'[w].turns = turn[w].turns /\ \A v \in Worker \ {w} : ReadStays(v)
    BY <1>1, <1>8, PostOrchestratorDoes
  <2>2. 0 \in Msg /\ ~AgentMsg(0)
    BY AgentsAssumption DEF Msg, AgentMsg
  <2>3. AgentTurns(msgs') = AgentTurns(msgs)
    BY <1>2, <2>1, <2>2, TurnsAppend
  <2>4. turn[w].turns <= AgentTurns(msgs)
    BY <1>1, <2>1 DEF CountInv
  <2>5. CountInv'
    BY <1>1, <1>2, <1>3, <2>1, <2>3, <2>4, CountKept DEF CountInv
  <2>6. w \notin Pending'
    BY <1>2, <1>3, <2>1 DEF Pending
  <2>7. Pending' \subseteq Pending
    BY <1>4, <2>1, <2>6, PendingKept
  <2>8. Cardinality(Pending') <= Cardinality(Pending)
    BY <1>4, <2>7
  <2>9. CapInv'
    BY <1>1, <1>2, <1>3, <1>4, <2>3, <2>8 DEF CapInv
  <2>10. OrchestratorLast'
    BY <1>1, <1>2, <1>3, <2>1, <2>2, <2>3, <2>4, OrchestratorKept
  <2> QED  BY <1>1, <2>5, <2>9, <2>10 DEF ChatInv
<1> QED  BY <1>1, <1>5, <1>6, <1>7, <1>8, StepKinds

(* The cap: with any number of workers on the run, overlapping as they     *)
(* like, all but one can exceed it, each by one turn.                      *)
THEOREM CapHolds == Spec => []TurnsBounded
<1>1. ChatInv => TurnsBounded
  <2> SUFFICES ASSUME ChatInv PROVE TurnsBounded
    OBVIOUS
  <2>1. AgentTurns(msgs) \in Nat
    BY TurnsNat DEF ChatInv, TypeInv, TypeOK, Msg
  <2> QED  BY <2>1, PendingFinite, TargetNat DEF ChatInv, CapInv, TurnsBounded
<1> QED  BY <1>1, ChatInit, ChatStep, PTL DEF Spec

(* The orchestrator decides on a discussion in which every turn has been   *)
(* taken, whichever worker runs it and whatever it had read before.        *)
THEOREM ClosedWhenComplete == Spec => []OrchestratorLast
<1>1. ChatInv => OrchestratorLast
  BY DEF ChatInv
<1> QED  BY <1>1, ChatInit, ChatStep, PTL DEF Spec
----------------------------------------------------------------------------
(* One job, one call at a time *)

(* The request that creates the run enqueues one job, and calls have it.   *)
OneJob ==
  /\ poster # "end" => \A j \in Job : job[j].status = "absent"
  /\ \A i, j \in Job : job[i].status # "absent" /\ job[j].status # "absent" => i = j
  /\ \A w \in Worker : worker[w].id # None => job[worker[w].id].status # "absent"

(* No lease ran out on a call at work: nobody else has claimed its job, or *)
(* can.                                                                    *)
Alone ==
  /\ \A v, w \in Worker : worker[v].id # None /\ worker[w].id # None => v = w
  /\ \A w \in Worker : worker[w].id # None => ~Claimable(worker[w].id)

IdsStay == \A v \in Worker : worker'[v].id \in {None, worker[v].id}

LEMMA HandlerIds ==
  ASSUME TypeInv, NEW w \in Worker, Handler(w)
  PROVE  UNCHANGED <<job, poster, overrun>> /\ IdsStay
<1>1. worker \in [Worker -> Call]
  BY DEF TypeInv, TypeOK, RuntimeTypeOK
<1>2. UNCHANGED <<job, poster, overrun>>
  BY DEF Handler, ReadRun, ReadMessages, MarkRunning, PostTurn, PostOrchestrator,
         CompleteRun, ModelFails
<1>3. UNCHANGED worker \/ \E r \in {"more", "done", "failed"} : Returns(w, r, None)
  BY DEF Handler, ReadRun, ReadMessages, MarkRunning, PostTurn, PostOrchestrator,
         CompleteRun, ModelFails
<1>4. ASSUME NEW r \in {"more", "done", "failed"}, Returns(w, r, None)
      PROVE  IdsStay
  <2> DEFINE c == worker[w]
             d == [c EXCEPT !.pc = "result", !.result = r, !.cursor = None]
  <2>1. worker' = [worker EXCEPT ![w] = d]
    BY <1>1, <1>4 DEF Returns
  <2>2. d.id = c.id
    <3> HIDE DEF c
    <3>1. c \in Call
      BY <1>1 DEF c
    <3> QED  BY <3>1 DEF Call
  <2> HIDE DEF d
  <2> QED  BY <1>1, <2>1, <2>2 DEF IdsStay
<1> QED  BY <1>2, <1>3, <1>4 DEF IdsStay

(* Steps, by what they do to the rows and to who works on them. *)
LEMMA RowKinds ==
  ASSUME TypeInv, [Next]_vars
  PROVE  \/ UNCHANGED <<job, overrun>> /\ IdsStay /\ (poster' = poster \/ poster # "end")
         \/ EnqueueRun \/ CancelJobs \/ \E j \in Job : Expire(j)
         \/ /\ UNCHANGED <<poster, overrun>>
            /\ \E w \in Worker : \/ \E j \in Job : Claim(w, j)
                                 \/ PersistProgress(w) \/ Finish(w)
<1> DEFINE Quiet == UNCHANGED <<job, overrun>> /\ IdsStay /\ (poster' = poster \/ poster # "end")
<1>1. worker \in [Worker -> Call] /\ Parked.id = None
  BY ParkedCall DEF TypeInv, TypeOK, RuntimeTypeOK
<1>2. CASE \/ CreateGroupchatRun \/ QueueRun \/ PosterDies \/ CancelRun \/ StopperDies
           \/ UNCHANGED vars
  BY <1>2 DEF CreateGroupchatRun, QueueRun, PosterDies, CancelRun, StopperDies, vars, IdsStay
<1>3. ASSUME NEW w \in Worker, Handler(w)
      PROVE  Quiet
  BY <1>3, HandlerIds
<1>4. ASSUME NEW w \in Worker, HandlerStarts(w), UNCHANGED <<overrun, chatVars>>
      PROVE  Quiet
  <2> DEFINE c == worker[w]
             cu == job[c.id].cursor
             d == [c EXCEPT !.pc = "handler", !.cursor = cu]
  <2>1. worker' = [worker EXCEPT ![w] = d]
    BY <1>1, <1>4 DEF HandlerStarts
  <2>2. d.id = c.id
    <3> HIDE DEF c, cu
    <3>1. c \in Call
      BY <1>1 DEF c
    <3> QED  BY <3>1 DEF Call
  <2> HIDE DEF d
  <2>3. IdsStay
    BY <1>1, <2>1, <2>2 DEF IdsStay
  <2> QED  BY <1>4, <2>3 DEF HandlerStarts, chatVars
<1>5. ASSUME NEW w \in Worker, SeesCancelled(w) \/ RunsOut(w) \/ Dies(w),
             UNCHANGED <<overrun, chatVars>>
      PROVE  Quiet
  <2>1. worker' = [worker EXCEPT ![w] = Parked] /\ UNCHANGED job
    BY <1>5 DEF SeesCancelled, RunsOut, BudgetSpent, Dies, WorkerDies
  <2>2. IdsStay
    BY <1>1, <2>1 DEF IdsStay
  <2> QED  BY <1>5, <2>1, <2>2 DEF chatVars
<1> HIDE DEF Quiet
<1>6. ASSUME NEW w \in Worker, Work(w) \/ RunsOut(w) \/ Dies(w)
      PROVE  Quiet \/ (UNCHANGED <<poster, overrun>> /\ (PersistProgress(w) \/ Finish(w)))
  <2>1. CASE Handler(w)
    BY <1>3, <2>1
  <2>2. CASE ~Handler(w)
    BY <1>4, <1>5, <1>6, <2>2 DEF Work, RuntimeStep, RunsOut, Dies, chatVars
  <2> QED  BY <2>1, <2>2
<1>7. CASE Tick
  BY <1>7 DEF Tick, chatVars
<1>8. Quiet \/ EnqueueRun \/ CancelJobs \/ (\E j \in Job : Expire(j))
      \/ /\ UNCHANGED <<poster, overrun>>
         /\ \E w \in Worker : \/ \E j \in Job : Claim(w, j)
                              \/ PersistProgress(w) \/ Finish(w)
  BY <1>2, <1>6, <1>7 DEF Next, Quiet
<1> QED  BY <1>8 DEF Quiet

SoleInv == TypeInv /\ OneJob /\ (overrun \/ Alone)

LEMMA SoleInit == Init => SoleInv
<1> SUFFICES ASSUME Init PROVE SoleInv
  OBVIOUS
<1>1. /\ \A j \in Job : job[j].status = "absent"
      /\ \A w \in Worker : worker[w].id = None
  BY ParkedCall DEF Init, RuntimeInit, NoJob
<1>2. OneJob /\ Alone
  BY <1>1 DEF OneJob, Alone
<1> QED  BY <1>2, TypeInit DEF SoleInv

(* A step that inserts no row. *)
LEMMA SoleKept ==
  ASSUME OneJob, overrun \/ Alone, IdsStay, poster' = poster \/ poster # "end",
         worker \in [Worker -> Call],
         overrun => overrun',
         \A j \in Job : job'[j].status = "absent" <=> job[j].status = "absent",
         \A w \in Worker : worker'[w].id # None /\ ~overrun' /\ ~Claimable(worker[w].id)
                             => ~Claimable(worker[w].id)'
  PROVE  OneJob' /\ (overrun' \/ Alone')
<1>1. OneJob'
  <2>1. ASSUME NEW w \in Worker, worker'[w].id # None
        PROVE  job'[worker'[w].id].status # "absent"
    <3>1. worker'[w].id = worker[w].id /\ worker[w].id \in Job
      BY <2>1 DEF IdsStay, Call
    <3> QED  BY <2>1, <3>1 DEF OneJob
  <2> QED  BY <2>1 DEF OneJob
<1>2. ASSUME ~overrun' PROVE Alone'
  <2>1. Alone
    BY <1>2
  <2>2. ASSUME NEW v \in Worker, NEW w \in Worker, worker'[v].id # None, worker'[w].id # None
        PROVE  v = w
    BY <2>1, <2>2 DEF Alone, IdsStay
  <2>3. ASSUME NEW w \in Worker, worker'[w].id # None
        PROVE  ~Claimable(worker[w].id)' /\ worker'[w].id = worker[w].id
    BY <1>2, <2>1, <2>3 DEF Alone, IdsStay
  <2> QED  BY <2>2, <2>3 DEF Alone, Claimable
<1> QED  BY <1>1, <1>2

LEMMA SoleStep == SoleInv /\ [Next]_vars => SoleInv'
<1> SUFFICES ASSUME SoleInv, [Next]_vars PROVE SoleInv'
  OBVIOUS
<1>1. /\ TypeInv /\ TypeInv' /\ OneJob /\ (overrun \/ Alone)
      /\ job \in [Job -> JobRow] /\ worker \in [Worker -> Call]
      /\ \A w \in Worker : worker[w].id \in Job \cup {None}
  BY TypeStep DEF SoleInv, TypeInv, TypeOK, RuntimeTypeOK, Call
<1>2. CASE UNCHANGED <<job, overrun>> /\ IdsStay /\ (poster' = poster \/ poster # "end")
  <2>1. /\ overrun => overrun'
        /\ \A j \in Job : job'[j].status = "absent" <=> job[j].status = "absent"
        /\ \A w \in Worker : worker'[w].id # None /\ ~overrun' /\ ~Claimable(worker[w].id)
                               => ~Claimable(worker[w].id)'
    BY <1>2 DEF Claimable, IdsStay
  <2> QED  BY <1>1, <1>2, <2>1, SoleKept DEF SoleInv
<1>3. CASE EnqueueRun
  <2>1. PICK j \in Job : EnqueueJob(j, Chat, None)
    BY <1>3 DEF EnqueueRun
  <2>2. /\ UNCHANGED <<worker, overrun>> /\ poster = "enqueue" /\ poster' = "end"
        /\ \A i \in Job \ {j} : job'[i] = job[i]
        /\ job'[j].status = "queued"
    BY <1>1, <1>3, <2>1 DEF EnqueueRun, EnqueueJob
  <2>3. \A i \in Job : job[i].status = "absent"
    BY <1>1, <2>2 DEF OneJob
  <2>4. \A w \in Worker : worker[w].id = None
    BY <1>1, <2>3, NullAssumption DEF OneJob
  <2>5. OneJob' /\ Alone'
    BY <2>2, <2>3, <2>4 DEF OneJob, Alone
  <2> QED  BY <1>1, <2>5 DEF SoleInv
<1>4. CASE CancelJobs
  <2>1. \A j \in Job : job'[j] = job[j] \/ (job[j].status \in Active /\ job'[j].status = "cancelled")
    <3>1. job' = [j \in Job |-> IF job[j].ref = Chat /\ job[j].status \in Active
                                 THEN [job[j] EXCEPT !.status = "cancelled"] ELSE job[j]]
      BY <1>4 DEF CancelJobs, CancelJobsByRef
    <3>2. ASSUME NEW r \in JobRow PROVE [r EXCEPT !.status = "cancelled"].status = "cancelled"
      BY <3>2 DEF JobRow
    <3> QED  BY <1>1, <3>1, <3>2
  <2>2. UNCHANGED <<worker, poster, overrun>>
    BY <1>4 DEF CancelJobs, CancelJobsByRef
  <2> QED  BY <1>1, <2>1, <2>2, SoleKept, NullAssumption DEF SoleInv, IdsStay, Claimable
<1>5. ASSUME NEW j \in Job, Expire(j)
      PROVE  SoleInv'
  <2>1. /\ UNCHANGED <<worker, poster>> /\ overrun' = (overrun \/ WorkedOn(j))
        /\ job[j].status = "running" /\ job' = [job EXCEPT ![j].lease = "expired"]
    BY <1>5 DEF Expire, LeaseExpires, chatVars
  <2>2. /\ \A i \in Job \ {j} : job'[i] = job[i]
        /\ job'[j].status = "running"
    BY <1>1, <2>1 DEF JobRow
  <2>3. ASSUME NEW w \in Worker, worker'[w].id # None, ~overrun'
        PROVE  worker[w].id \in Job \ {j}
    BY <1>1, <2>1, <2>3 DEF WorkedOn
  <2> QED  BY <1>1, <2>1, <2>2, <2>3, SoleKept DEF SoleInv, IdsStay, Claimable
<1>6. ASSUME NEW w \in Worker, NEW j \in Job, Claim(w, j), UNCHANGED <<poster, overrun>>
      PROVE  SoleInv'
  <2> DEFINE d == [Parked EXCEPT !.pc = "loop", !.id = j]
  <2>1. d.id = j /\ j # None
    BY NullAssumption DEF Parked
  <2>2. worker' = [worker EXCEPT ![w] = d] /\ Claimable(j)
        /\ job' = [job EXCEPT ![j].status = "running", ![j].lease = "held"]
    BY <1>6 DEF Claim
  <2> HIDE DEF d
  <2>3. /\ \A i \in Job \ {j} : job'[i] = job[i]
        /\ job'[j].status = "running" /\ job'[j].lease = "held"
        /\ job[j].status # "absent"
    BY <1>1, <2>2 DEF JobRow, Claimable
  <2>4. worker'[w].id = j /\ \A v \in Worker \ {w} : worker'[v] = worker[v]
    BY <1>1, <2>1, <2>2
  <2>5. OneJob'
    BY <1>1, <1>6, <2>1, <2>3, <2>4 DEF OneJob
  <2>6. ASSUME ~overrun' PROVE Alone'
    <3>1. Alone
      BY <1>1, <1>6, <2>6
    <3>2. \A v \in Worker : worker[v].id = None
      <4>1. ASSUME NEW v \in Worker, worker[v].id # None PROVE FALSE
        <5>1. worker[v].id \in Job /\ job[worker[v].id].status # "absent"
          BY <1>1, <4>1 DEF OneJob
        <5>2. worker[v].id = j
          BY <1>1, <2>3, <5>1 DEF OneJob
        <5> QED  BY <2>2, <3>1, <4>1, <5>2 DEF Alone
      <4> QED  BY <4>1
    <3>3. ~Claimable(j)'
      BY <2>3 DEF Claimable
    <3> QED  BY <2>3, <2>4, <3>2 DEF Alone, Claimable
  <2> QED  BY <1>1, <2>5, <2>6 DEF SoleInv
<1>7. ASSUME NEW w \in Worker, PersistProgress(w) \/ Finish(w), UNCHANGED <<poster, overrun>>
      PROVE  SoleInv'
  <2> DEFINE j == worker[w].id
  <2>1. worker[w].pc = "result" /\ j \in Job
    BY <1>1, <1>7 DEF PersistProgress, Finish, TypeInv, Placed
  <2>2. job[j].status # "absent"
    BY <1>1, <2>1, NullAssumption DEF OneJob
  <2>3. /\ \A i \in Job \ {j} : job'[i] = job[i]
        /\ job'[j].status \in {job[j].status, "done", "failed"}
        /\ job'[j].lease # "expired"
    <3>1. CASE PersistProgress(w)
      <4>1. job' = [job EXCEPT ![j].cursor = worker[w].cursor, ![j].lease = "held"]
        BY <3>1 DEF PersistProgress
      <4> HIDE DEF j
      <4> QED  BY <1>1, <2>1, <4>1 DEF JobRow
    <3>2. CASE Finish(w)
      <4>1. /\ job' = [job EXCEPT ![j].status = worker[w].result, ![j].lease = "none"]
            /\ worker[w].result \in {"done", "failed"}
        BY <3>2 DEF Finish
      <4> HIDE DEF j
      <4> QED  BY <1>1, <2>1, <4>1 DEF JobRow
    <3> QED  BY <1>7, <3>1, <3>2
  <2>4. IdsStay
    <3>1. CASE Finish(w)
      BY <1>1, <3>1, ParkedCall DEF Finish, IdsStay
    <3>2. CASE PersistProgress(w)
      <4> DEFINE c == worker[w]
                 d == [c EXCEPT !.pc = "loop", !.cursor = None]
      <4>1. worker' = [worker EXCEPT ![w] = d]
        BY <1>1, <3>2 DEF PersistProgress
      <4>2. d.id = c.id
        <5> HIDE DEF c
        <5>1. c \in Call
          BY <1>1 DEF c
        <5> QED  BY <5>1 DEF Call
      <4> HIDE DEF d
      <4> QED  BY <1>1, <4>1, <4>2 DEF IdsStay
    <3> QED  BY <1>7, <3>1, <3>2
  <2>5. \A i \in Job : job'[i].status = "absent" <=> job[i].status = "absent"
    BY <2>2, <2>3
  <2>6. ASSUME NEW v \in Worker, worker'[v].id # None, ~Claimable(worker[v].id)
        PROVE  ~Claimable(worker[v].id)'
    <3>1. worker[v].id \in Job /\ worker'[v].id = worker[v].id
      BY <1>1, <2>4, <2>6 DEF IdsStay
    <3> QED  BY <2>3, <2>6, <3>1 DEF Claimable
  <2> QED  BY <1>1, <1>7, <2>4, <2>5, <2>6, SoleKept DEF SoleInv
<1> QED  BY <1>1, <1>2, <1>3, <1>4, <1>5, <1>6, <1>7, RowKinds
----------------------------------------------------------------------------
(* Turns in order *)

Closed == \E i \in DOMAIN msgs : ~AgentMsg(msgs[i])

(* What a worker has read is what there is, as nobody else posts: the      *)
(* order and the single closing message follow, and are not inductive      *)
(* without it.                                                             *)
Ordered ==
  /\ \A w \in Worker : HasRead(w) => /\ turn[w].turns = AgentTurns(msgs)
                                     /\ turn[w].closed <=> Closed
  /\ RoundRobin
  /\ Len(msgs) = AgentTurns(msgs) + (IF Closed THEN 1 ELSE 0)

OrderInv == SoleInv /\ (overrun \/ Ordered)

LEMMA OrderInit == Init => OrderInv
<1> SUFFICES ASSUME Init PROVE OrderInv
  OBVIOUS
<1>1. msgs = << >> /\ \A w \in Worker : ~HasRead(w)
  BY DEF Init, HasRead, NoTurn
<1>2. DOMAIN msgs = {} /\ Len(msgs) = 0
  BY <1>1
<1>3. {i \in DOMAIN msgs : AgentMsg(msgs[i])} = {}
  BY <1>2
<1>4. AgentTurns(msgs) = 0
  BY <1>3, FS_EmptySet DEF AgentTurns
<1>5. Ordered
  BY <1>1, <1>2, <1>4 DEF Ordered, RoundRobin, Closed
<1> QED  BY <1>5, SoleInit DEF OrderInv

(* An overrun is never forgotten. *)
LEMMA OverrunStays ==
  ASSUME TypeInv, [Next]_vars, overrun
  PROVE  overrun'
<1>1. EnqueueRun => UNCHANGED overrun
  BY DEF EnqueueRun
<1>2. CancelJobs => UNCHANGED overrun
  BY DEF CancelJobs
<1>3. (\E j \in Job : Expire(j)) => overrun'
  BY DEF Expire
<1> QED  BY <1>1, <1>2, <1>3, RowKinds

LEMMA OneReader ==
  ASSUME TypeInv, Alone, NEW v \in Worker, NEW w \in Worker, HasRead(v), HasRead(w)
  PROVE  v = w
<1>1. worker[v].pc = "handler" /\ worker[w].pc = "handler"
  BY DEF TypeInv, Placed, HasRead
<1>2. worker[v].id # None /\ worker[w].id # None
  BY <1>1 DEF TypeInv, Placed
<1> QED  BY <1>2 DEF Alone

(* One more message. *)
LEMMA RoundRobinKept ==
  ASSUME TypeInv, RoundRobin, NEW m \in Msg, msgs' = Append(msgs, m),
         AgentMsg(m) => m = Speaker(AgentTurns(msgs))
  PROVE  /\ RoundRobin' /\ Len(msgs') = Len(msgs) + 1 /\ Len(msgs) \in Nat
         /\ Closed' <=> Closed \/ ~AgentMsg(m)
<1> DEFINE n == Len(msgs)
<1>1. /\ msgs \in Seq(Msg) /\ n \in Nat /\ DOMAIN msgs = 1 .. n
      /\ DOMAIN msgs' = 1 .. (n + 1) /\ msgs' \in Seq(Msg) /\ Len(msgs') = n + 1
      /\ \A i \in 1 .. n : msgs'[i] = msgs[i]
      /\ msgs'[n + 1] = m
  BY LenProperties, AppendProperties DEF TypeInv, TypeOK, Msg
<1>2. SubSeq(msgs', 1, n) = msgs
  BY <1>1, SubSeqFull, PrefixAppend
<1>3. \A i \in 1 .. n : SubSeq(msgs', 1, i - 1) = SubSeq(msgs, 1, i - 1)
  <2>1. \A i \in 1 .. n : i - 1 \in 0 .. n
    BY <1>1
  <2> QED  BY <1>1, <2>1, PrefixAppend
<1> HIDE DEF n
<1>4. Closed' <=> Closed \/ ~AgentMsg(m)
  BY <1>1 DEF Closed, AgentMsg
<1>5. ASSUME NEW i \in 1 .. (n + 1), AgentMsg(msgs'[i])
      PROVE  msgs'[i] = Speaker(AgentTurns(SubSeq(msgs', 1, i - 1)))
  <2>1. CASE i = n + 1
    <3>1. i - 1 = n
      BY <1>1, <2>1
    <3> QED  BY <1>1, <1>2, <1>5, <2>1, <3>1
  <2>2. CASE i \in 1 .. n
    BY <1>1, <1>3, <1>5, <2>2 DEF RoundRobin
  <2> QED  BY <1>1, <2>1, <2>2
<1>6. RoundRobin'
  BY <1>1, <1>5 DEF RoundRobin, AgentMsg, AgentTurns, Speaker
<1> QED  BY <1>1, <1>4, <1>6 DEF n

LEMMA OrderStep == OrderInv /\ [Next]_vars => OrderInv'
<1> SUFFICES ASSUME OrderInv, [Next]_vars PROVE OrderInv'
  OBVIOUS
<1>1. SoleInv /\ SoleInv' /\ TypeInv
  BY SoleStep DEF OrderInv, SoleInv
<1>2. SUFFICES ASSUME ~overrun' PROVE Ordered'
  BY <1>1 DEF OrderInv
<1>3. Ordered /\ Alone
  BY <1>1, <1>2, OverrunStays DEF OrderInv, SoleInv
<1>4. /\ msgs \in Seq(Msg) /\ AgentTurns(msgs) \in Nat
      /\ AgentTurns(msgs)' = AgentTurns(msgs')
  BY <1>1, TurnsNat DEF TypeInv, TypeOK, Msg, AgentTurns, AgentMsg
<1>5. ASSUME UNCHANGED msgs
      PROVE  /\ RoundRobin' /\ (Closed' <=> Closed) /\ AgentTurns(msgs)' = AgentTurns(msgs)
             /\ Len(msgs)' = AgentTurns(msgs)' + (IF Closed' THEN 1 ELSE 0)
  <2>1. RoundRobin'
    BY <1>3, <1>5 DEF Ordered, RoundRobin, AgentMsg, AgentTurns, Speaker
  <2>2. (Closed' <=> Closed) /\ AgentTurns(msgs)' = AgentTurns(msgs)
    BY <1>5 DEF Closed, AgentMsg, AgentTurns
  <2> QED  BY <1>3, <1>5, <2>1, <2>2 DEF Ordered
<1>6. CASE UNCHANGED msgs /\ \A w \in Worker : ReadStays(w)
  <2>1. ASSUME NEW w \in Worker, HasRead(w)'
        PROVE  turn'[w].turns = AgentTurns(msgs)' /\ (turn'[w].closed <=> Closed')
    BY <1>3, <1>5, <1>6, <2>1 DEF Ordered, ReadStays
  <2> QED  BY <1>5, <1>6, <2>1 DEF Ordered
<1>7. ASSUME NEW w \in Worker, ReadMessages(w)
      PROVE  Ordered'
  <2>1. /\ UNCHANGED msgs /\ turn'[w].turns = AgentTurns(msgs)
        /\ turn'[w].closed = Closed
        /\ \A v \in Worker \ {w} : ReadStays(v)
    BY <1>1, <1>7, ReadMessagesDoes DEF Closed
  <2>2. ASSUME NEW v \in Worker, HasRead(v)'
        PROVE  turn'[v].turns = AgentTurns(msgs)' /\ (turn'[v].closed <=> Closed')
    <3>1. CASE v = w
      BY <1>5, <2>1, <3>1
    <3>2. CASE v # w
      BY <1>3, <1>5, <2>1, <2>2, <3>2 DEF Ordered, ReadStays
    <3> QED  BY <3>1, <3>2
  <2> QED  BY <1>5, <2>1, <2>2 DEF Ordered
<1>8. ASSUME NEW w \in Worker, PostTurn(w)
      PROVE  Ordered'
  <2> DEFINE m == Speaker(turn[w].turns)
  <2>1. /\ HasRead(w) /\ msgs' = Append(msgs, m) /\ m \in 1 .. NAgents
        /\ ~HasRead(w)' /\ \A v \in Worker \ {w} : ReadStays(v)
    BY <1>1, <1>8, PostTurnDoes
  <2>2. m = Speaker(AgentTurns(msgs))
    BY <1>3, <2>1 DEF Ordered
  <2> HIDE DEF m
  <2>3. m \in Msg /\ AgentMsg(m)
    BY <2>1, AgentsAssumption DEF Msg, AgentMsg
  <2>4. AgentTurns(msgs') = AgentTurns(msgs) + 1
    BY <1>4, <2>1, <2>3, TurnsAppend
  <2>5. /\ RoundRobin' /\ Len(msgs') = Len(msgs) + 1 /\ Len(msgs) \in Nat
        /\ Closed' <=> Closed
    BY <1>1, <1>3, <2>1, <2>2, <2>3, RoundRobinKept DEF Ordered
  <2>6. \A v \in Worker : ~HasRead(v)'
    BY <1>1, <1>3, <2>1, OneReader DEF ReadStays
  <2>7. Len(msgs') = AgentTurns(msgs') + (IF Closed' THEN 1 ELSE 0)
    BY <1>3, <1>4, <2>4, <2>5 DEF Ordered
  <2> QED  BY <1>4, <2>5, <2>6, <2>7 DEF Ordered
<1>9. ASSUME NEW w \in Worker, PostOrchestrator(w)
      PROVE  Ordered'
  <2>1. /\ HasRead(w) /\ msgs' = Append(msgs, 0) /\ turn[w].closed = FALSE
        /\ turn'[w].turns = turn[w].turns /\ turn'[w].closed = TRUE
        /\ \A v \in Worker \ {w} : ReadStays(v)
    BY <1>1, <1>9, PostOrchestratorDoes
  <2>2. 0 \in Msg /\ ~AgentMsg(0)
    BY AgentsAssumption DEF Msg, AgentMsg
  <2>3. AgentTurns(msgs') = AgentTurns(msgs)
    BY <1>4, <2>1, <2>2, TurnsAppend
  <2>4. turn[w].turns = AgentTurns(msgs) /\ ~Closed
    BY <1>3, <2>1 DEF Ordered
  <2>5. RoundRobin' /\ Len(msgs') = Len(msgs) + 1 /\ Len(msgs) \in Nat /\ Closed'
    BY <1>1, <1>3, <2>1, <2>2, RoundRobinKept DEF Ordered
  <2>6. \A v \in Worker \ {w} : ~HasRead(v)'
    BY <1>1, <1>3, <2>1, OneReader DEF ReadStays
  <2>7. Len(msgs') = AgentTurns(msgs') + (IF Closed' THEN 1 ELSE 0)
    BY <1>3, <1>4, <2>3, <2>4, <2>5 DEF Ordered
  <2>8. ASSUME NEW v \in Worker, HasRead(v)'
        PROVE  turn'[v].turns = AgentTurns(msgs)' /\ (turn'[v].closed <=> Closed')
    BY <1>4, <2>1, <2>3, <2>4, <2>5, <2>6, <2>8
  <2> QED  BY <1>4, <2>5, <2>7, <2>8 DEF Ordered
<1> QED  BY <1>1, <1>6, <1>7, <1>8, <1>9, StepKinds

(* While no lease runs out on a call at work, the agents speak in turn and *)
(* one decision closes the run: no crash, cancellation, failure or second  *)
(* worker repeats a turn or skips one.                                     *)
THEOREM InOrder == Spec => []TurnsInOrder
<1>1. OrderInv => TurnsInOrder
  <2> SUFFICES ASSUME OrderInv, ~overrun
               PROVE  RoundRobin /\ Len(msgs) <= AgentTurns(msgs) + 1
    BY DEF TurnsInOrder
  <2>1. AgentTurns(msgs) \in Nat
    BY TurnsNat DEF OrderInv, SoleInv, TypeInv, TypeOK, Msg
  <2> QED  BY <2>1 DEF OrderInv, Ordered
<1> QED  BY <1>1, OrderInit, OrderStep, PTL DEF Spec
============================================================================
