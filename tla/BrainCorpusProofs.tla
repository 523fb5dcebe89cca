------------------------- MODULE BrainCorpusProofs -------------------------
(***************************************************************************)
(* What BrainCorpus keeps for any finite set of conversations, and any     *)
(* number of workers, requests and jobs.                                   *)
(***************************************************************************)
EXTENDS BrainCorpus, FiniteSetTheorems, WellFoundedInduction, TLAPS

USE DEF Active, Terminal

Started == {"running"} \cup Terminal
----------------------------------------------------------------------------
(* Facts about the operators *)

(* A set of conversations has a first. *)
LEMMA FirstIn ==
  ASSUME NEW S \in SUBSET Conv, S # {}
  PROVE  First(S) \in S /\ \A d \in S : Order[First(S)] <= Order[d]
<1> DEFINE Before(c) == 0 .. Order[c]
           T == {Before(c) : c \in S}
<1>1. \A c \in S : Order[c] \in Nat
  BY ConvAssumption
<1>2. T \subseteq FiniteSubsetsOf(Nat) /\ T # {}
  <2>1. ASSUME NEW c \in S
        PROVE  IsFiniteSet(Before(c)) /\ Before(c) \subseteq Nat
    BY <1>1, FS_Interval
  <2> QED  BY <2>1 DEF FiniteSubsetsOf
<1>3. \E x \in T : \A y \in T : ~(<<y, x>> \in StrictSubsetOrdering(Nat))
  <2> HIDE DEF T
  <2> QED  BY <1>2, FS_StrictSubsetOrderingWellFounded, WFMin
<1>4. PICK c \in S : \A d \in S : ~(<<Before(d), Before(c)>> \in StrictSubsetOrdering(Nat))
  BY <1>3
<1>5. ASSUME NEW d \in S, ~(Order[c] <= Order[d])
      PROVE  FALSE
  <2>1. /\ Before(d) \subseteq Before(c) /\ Before(c) \subseteq Nat
        /\ Order[c] \in Before(c) /\ Order[c] \notin Before(d)
    BY <1>1, <1>5
  <2> HIDE DEF Before
  <2> QED  BY <1>4, <2>1 DEF StrictSubsetOrdering
<1>6. \E e \in S : \A d \in S : Order[e] <= Order[d]
  BY <1>5
<1> QED  BY <1>6 DEF First

(* The ends of a text are its keys. *)
LEMMA TextShape ==
  ASSUME NEW t \in Text
  PROVE  /\ t \in Seq(Content) /\ DOMAIN t \subseteq Key
         /\ \A k \in DOMAIN t : t[k] \in Content
         /\ t # None
BY TextAssumption DEF Text, Key, Content

LEMMA EmptyHand == Empty \in Hand /\ Sweeping \in Hand
BY DEF Empty, Sweeping, Hand

LEMMA ParkedCall == Parked \in Call /\ Parked.pc = "idle" /\ Parked.id = None
BY DEF Parked, Call

LEMMA QuietIngest == Quiet \in Ingest
BY DEF Quiet, Ingest

LEMMA NoDocumentType == NoDocument \in Document
<1>1. NoChunks \in [{} -> Chunk]
  BY DEF NoChunks
<1> QED  BY <1>1 DEF NoDocument, Document

LEMMA SyncedType ==
  ASSUME NEW t \in Text
  PROVE  Synced(t) \in Document
<1> DEFINE f == [k \in DOMAIN t |-> [content |-> t[k], embedding |-> t[k]]]
<1>1. f \in [DOMAIN t -> Chunk] /\ DOMAIN t \in SUBSET Key
  BY TextShape DEF Chunk
<1> HIDE DEF f
<1>2. f \in UNION {[S -> Chunk] : S \in SUBSET Key}
  BY <1>1
<1>3. Synced(t) = [text |-> t, chunks |-> f]
  BY DEF Synced, f
<1> QED  BY <1>2, <1>3 DEF Document
----------------------------------------------------------------------------
(* Types *)

(* What a call b that has h in hand knows of its job, its cursor and its   *)
(* snapshot.                                                               *)
CallFits(b, h, rows) ==
  /\ b.pc = "idle" <=> b.id = None
  /\ b.pc # "idle" => rows[b.id].status \in Started
  /\ b.pc = "handler" \/ (b.pc = "result" /\ b.result = "more") =>
       CursorFits(rows[b.id].ref, b.cursor)
  /\ h.at # "out" => b.pc = "handler"
  /\ h.at = "sweep" => h.last
  /\ h.at = "persist" <=> h.conv # None
  /\ h.at = "persist" => h.text # << >>
  /\ h.at = "persist" /\ b.cursor.kind = "dirty" =>
       h.last /\ h.conv = First(b.cursor.left)

(* A request has something to enqueue, and merges into dirty jobs. *)
RequestFits(i) ==
  /\ i.at = "idle" <=> i.batch = {}
  /\ i.at = "merge" => i.found \in Job /\ i.read \in Progress /\ i.read.kind = "dirty"

RowFits(row) == row.status # "absent" => CursorFits(row.ref, row.cursor)

TypeInv ==
  /\ TypeOK
  /\ \A w \in Worker : CallFits(worker[w], hand[w], job)
  /\ \A r \in Request : RequestFits(ingest[r])

(* What a step may do to the rows: one that is worked on stays started. *)
RowsFit ==
  /\ job' \in [Job -> JobRow]
  /\ \A j \in Job : RowFits(job'[j])
  /\ \A j \in Job : WorkedOn(j) => job'[j].status \in Started /\ job'[j].ref = job[j].ref

(* What a step may do to the calls. *)
CallsFit ==
  /\ worker' \in [Worker -> Call]
  /\ hand' \in [Worker -> Hand]
  /\ \A w \in Worker : CallFits(worker'[w], hand'[w], job')

(* What worker w's step may do to its call and what it has in hand. *)
Moves(w, b, h) ==
  /\ b \in Call /\ h \in Hand
  /\ worker' = [worker EXCEPT ![w] = b]
  /\ hand' = [hand EXCEPT ![w] = h]

LEMMA AtWork ==
  ASSUME TypeInv, NEW w \in Worker, worker[w].pc # "idle"
  PROVE  /\ worker[w] \in Call /\ hand[w] \in Hand
         /\ worker[w].id \in Job
         /\ job[worker[w].id] \in JobRow
         /\ job[worker[w].id].status \in Started
         /\ WorkedOn(worker[w].id)
BY DEF TypeInv, TypeOK, RuntimeTypeOK, CallFits, Call, WorkedOn

LEMMA InCall ==
  ASSUME TypeInv, NEW w \in Worker, worker[w].pc = "handler"
  PROVE  /\ worker[w].cursor \in Progress
         /\ worker[w].cursor.left \in SUBSET Conv
         /\ worker[w].cursor.kind = "dirty" <=> job[worker[w].id].ref = Dirty
         /\ worker[w].cursor.kind = "dirty" => worker[w].cursor.left # {}
BY DEF TypeInv, CallFits, CursorFits, Progress

(* The calls are as they were. *)
LEMMA CallsStay ==
  ASSUME TypeInv, RowsFit, UNCHANGED <<worker, hand>>
  PROVE  CallsFit
<1>1. worker \in [Worker -> Call] /\ hand \in [Worker -> Hand]
  BY DEF TypeInv, TypeOK, RuntimeTypeOK
<1>2. ASSUME NEW w \in Worker
      PROVE  CallFits(worker[w], hand[w], job')
  <2>1. CallFits(worker[w], hand[w], job)
    BY DEF TypeInv
  <2>2. CASE worker[w].pc = "idle"
    BY <2>1, <2>2 DEF CallFits
  <2>3. CASE worker[w].pc # "idle"
    <3>1. /\ job'[worker[w].id].status \in Started
          /\ job'[worker[w].id].ref = job[worker[w].id].ref
      BY <2>3, AtWork DEF RowsFit
    <3> QED  BY <2>1, <3>1 DEF CallFits
  <2> QED  BY <2>2, <2>3
<1> QED  BY <1>1, <1>2 DEF CallsFit

(* One call moves. *)
LEMMA CallMoves ==
  ASSUME TypeInv, RowsFit, NEW w \in Worker, NEW b, NEW h, Moves(w, b, h),
         CallFits(b, h, job')
  PROVE  CallsFit
<1>1. worker \in [Worker -> Call] /\ hand \in [Worker -> Hand]
  BY DEF TypeInv, TypeOK, RuntimeTypeOK
<1>2. worker' \in [Worker -> Call] /\ hand' \in [Worker -> Hand]
  BY <1>1 DEF Moves
<1>3. ASSUME NEW v \in Worker
      PROVE  CallFits(worker'[v], hand'[v], job')
  <2>1. CASE v = w
    BY <1>1, <2>1 DEF Moves
  <2>2. CASE v # w
    <3>1. worker'[v] = worker[v] /\ hand'[v] = hand[v]
      BY <1>1, <2>2 DEF Moves
    <3>2. CallFits(worker[v], hand[v], job)
      BY DEF TypeInv
    <3>3. CASE worker[v].pc = "idle"
      BY <3>1, <3>2, <3>3 DEF CallFits
    <3>4. CASE worker[v].pc # "idle"
      <4>1. /\ job'[worker[v].id].status \in Started
            /\ job'[worker[v].id].ref = job[worker[v].id].ref
        BY <3>4, AtWork DEF RowsFit
      <4> QED  BY <3>1, <3>2, <4>1 DEF CallFits
    <3> QED  BY <3>3, <3>4
  <2> QED  BY <2>1, <2>2
<1> QED  BY <1>2, <1>3 DEF CallsFit

LEMMA WorkedOnStarted ==
  ASSUME TypeInv, NEW j \in Job, WorkedOn(j)
  PROVE  job[j].status \in Started
<1>1. PICK w \in Worker : worker[w].id = j
  BY DEF WorkedOn
<1>2. j # None
  BY NullAssumption
<1> QED  BY <1>1, <1>2 DEF TypeInv, CallFits

LEMMA RowsStay ==
  ASSUME TypeInv, UNCHANGED job
  PROVE  RowsFit
BY WorkedOnStarted DEF RowsFit, TypeInv, TypeOK, RuntimeTypeOK, RowFits

(* One row changes. *)
LEMMA RowMoves ==
  ASSUME TypeInv, NEW j \in Job, NEW row \in JobRow, RowFits(row),
         job' = [job EXCEPT ![j] = row],
         WorkedOn(j) => row.status \in Started /\ row.ref = job[j].ref
  PROVE  RowsFit
<1>1. job \in [Job -> JobRow]
  BY DEF TypeInv, TypeOK, RuntimeTypeOK
<1>2. \A i \in Job : RowFits(job[i])
  BY DEF TypeInv, TypeOK, RowFits
<1>3. \A i \in Job : job'[i] = IF i = j THEN row ELSE job[i]
  BY <1>1
<1>4. job' \in [Job -> JobRow]
  BY <1>1
<1> QED  BY <1>2, <1>3, <1>4, WorkedOnStarted DEF RowsFit

(* The invariant holds again. *)
LEMMA TypesAgain ==
  ASSUME RowsFit, CallsFit,
         messages' \in [Conv -> Text], corpus' \in [Conv -> Document],
         ingest' \in [Request -> Ingest], \A r \in Request : RequestFits(ingest'[r]),
         excused' \subseteq Conv, events' \in 0 .. MaxEvents
  PROVE  TypeInv'
BY DEF RowsFit, CallsFit, RowFits, TypeInv, TypeOK, RuntimeTypeOK

LEMMA EventCounts ==
  ASSUME TypeInv, Event \/ UNCHANGED events
  PROVE  events' \in 0 .. MaxEvents
BY TextAssumption DEF Event, TypeInv, TypeOK

LEMMA Enqueued ==
  ASSUME TypeInv, NEW ref \in Ref, NEW kind \in {"dirty", "reconcile"},
         NEW left \in SUBSET Conv, Enqueue(ref, kind, left),
         kind = "dirty" <=> ref = Dirty, ref = Dirty => left # {}
  PROVE  RowsFit /\ UNCHANGED worker
<1> DEFINE unused == {j \in Job : job[j].status = "absent"}
           cursor == [kind |-> kind, left |-> left, failed |-> FALSE]
           row == [status |-> "queued", lease |-> "none", cursor |-> cursor, ref |-> ref]
<1>1. PICK j \in unused : EnqueueJob(j, ref, cursor)
  BY DEF Enqueue
<1>2. cursor \in Progress /\ cursor.kind = kind /\ cursor.left = left
  BY DEF Progress
<1>3. job' = [job EXCEPT ![j] = row] /\ UNCHANGED worker
  BY <1>1 DEF EnqueueJob
<1> HIDE DEF cursor
<1>4. row \in JobRow /\ RowFits(row)
  BY <1>2, JobAssumption DEF JobRow, RowFits, CursorFits
<1>5. ~WorkedOn(j)
  BY <1>1, WorkedOnStarted DEF Started
<1> HIDE DEF row
<1> QED  BY <1>3, <1>4, <1>5, RowMoves

(* The steps of requests, of contacts and of the cron. *)
LEMMA InsertTypes ==
  ASSUME TypeInv, InsertMessages
  PROVE  TypeInv'
<1>1. PICK r \in Request : ingest' = [ingest EXCEPT ![r] =
          [Quiet EXCEPT !.at = "look",
                        !.batch = {c \in Conv : messages'[c] # messages[c]}]]
  BY DEF InsertMessages
<1> DEFINE batch == {c \in Conv : messages'[c] # messages[c]}
           i == [Quiet EXCEPT !.at = "look", !.batch = batch]
<1>2. messages' \in [Conv -> Text] /\ messages' # messages
  BY DEF InsertMessages
<1>3. batch # {} /\ batch \in SUBSET Conv
  <2>1. messages \in [Conv -> Text]
    BY DEF TypeInv, TypeOK
  <2> QED  BY <1>2, <2>1
<1>4. ingest' = [ingest EXCEPT ![r] = i]
  BY <1>1
<1> HIDE DEF batch
<1>5. i \in Ingest /\ RequestFits(i)
  BY <1>3 DEF Ingest, Quiet, RequestFits
<1> HIDE DEF i
<1>6. ingest' \in [Request -> Ingest] /\ \A q \in Request : RequestFits(ingest'[q])
  BY <1>4, <1>5 DEF TypeInv, TypeOK
<1>7. RowsFit /\ CallsFit
  BY RowsStay, CallsStay DEF InsertMessages
<1>8. events' \in 0 .. MaxEvents /\ excused' \subseteq Conv /\ corpus' \in [Conv -> Document]
  BY EventCounts DEF InsertMessages, TypeInv, TypeOK
<1> QED  BY <1>2, <1>6, <1>7, <1>8, TypesAgain

(* What a request's later steps leave it with. *)
LEMMA RequestMoves ==
  ASSUME TypeInv, NEW r \in Request, NEW i \in Ingest, RequestFits(i),
         ingest' = [ingest EXCEPT ![r] = i],
         RowsFit, UNCHANGED <<worker, hand, messages, corpus>>,
         excused' \subseteq Conv, Event \/ UNCHANGED events
  PROVE  TypeInv'
<1>1. ingest' \in [Request -> Ingest] /\ \A q \in Request : RequestFits(ingest'[q])
  BY DEF TypeInv, TypeOK
<1>2. CallsFit
  BY CallsStay
<1>3. messages' \in [Conv -> Text] /\ corpus' \in [Conv -> Document]
  BY DEF TypeInv, TypeOK
<1> QED  BY <1>1, <1>2, <1>3, EventCounts, TypesAgain

LEMMA QuietFits == RequestFits(Quiet)
BY DEF Quiet, RequestFits

LEMMA LookTypes ==
  ASSUME TypeInv, NEW r \in Request, Look(r)
  PROVE  TypeInv'
<1> DEFINE old == ingest[r]
           skip == [old EXCEPT !.at = "enqueue"]
           into(j) == [old EXCEPT !.at = "merge", !.found = j, !.read = job[j].cursor]
<1>1. old \in Ingest /\ old.at = "look" /\ RequestFits(old)
  BY DEF Look, TypeInv, TypeOK
<1>2. CASE ingest' = [ingest EXCEPT ![r].at = "enqueue"]
  <2>1. ingest' = [ingest EXCEPT ![r] = skip]
    BY <1>2
  <2> HIDE DEF old
  <2>2. skip \in Ingest /\ RequestFits(skip)
    BY <1>1 DEF Ingest, RequestFits
  <2> HIDE DEF skip
  <2> QED  BY <2>1, <2>2, RequestMoves, RowsStay DEF Look, TypeInv, TypeOK
<1>3. ASSUME NEW j \in ActiveJobs(Dirty), job[j].status = "queued",
             ingest' = [ingest EXCEPT ![r].at = "merge", ![r].found = j,
                                      ![r].read = job[j].cursor]
      PROVE  TypeInv'
  <2>1. ingest' = [ingest EXCEPT ![r] = into(j)]
    BY <1>3
  <2>2. j \in Job /\ job[j].cursor \in Progress /\ job[j].cursor.kind = "dirty"
    BY <1>3 DEF ActiveJobs, TypeInv, TypeOK, CursorFits
  <2> HIDE DEF old
  <2>3. into(j) \in Ingest /\ RequestFits(into(j))
    BY <1>1, <2>2 DEF Ingest, RequestFits
  <2> HIDE DEF into
  <2> QED  BY <2>1, <2>3, RequestMoves, RowsStay DEF Look, TypeInv, TypeOK
<1> QED  BY <1>2, <1>3 DEF Look

(* What a merge leaves in the row it found. *)
LEMMA Merged ==
  ASSUME TypeInv, NEW r \in Request, ingest[r].at = "merge", MergeInto(r),
         job[ingest[r].found].status = "queued",
         job[ingest[r].found].cursor = ingest[r].read
  PROVE  \E j \in Job, row \in JobRow :
           /\ j = ingest[r].found /\ ~WorkedOn(j)
           /\ job' = [job EXCEPT ![j] = row]
           /\ row.status = "queued" /\ row.ref = job[j].ref /\ row.ref = Dirty
           /\ row.cursor.left = job[j].cursor.left \cup ingest[r].batch
           /\ RowFits(row)
<1> DEFINE j == ingest[r].found
           read == ingest[r].read
           batch == ingest[r].batch
           merged == [read EXCEPT !.left = @ \cup batch]
           old == job[j]
           row == [old EXCEPT !.cursor = merged]
<1>1. j \in Job /\ read \in Progress /\ read.kind = "dirty" /\ batch \in SUBSET Conv
  BY DEF TypeInv, TypeOK, RequestFits, Ingest
<1>2. old \in JobRow /\ old.status = "queued" /\ old.cursor = read
  BY <1>1 DEF TypeInv, TypeOK, RuntimeTypeOK
<1>3. CursorFits(old.ref, read)
  BY <1>1, <1>2 DEF TypeInv, TypeOK
<1>4. job' = [job EXCEPT ![j] = row]
  BY DEF MergeInto
<1>5. ~WorkedOn(j)
  BY <1>1, <1>2, WorkedOnStarted DEF Started
<1>6. old.cursor.left = read.left
  BY <1>2
<1> HIDE DEF j, read, batch, old
<1>7. /\ merged \in Progress /\ merged.kind = "dirty"
      /\ merged.left = read.left \cup batch
  BY <1>1 DEF Progress
<1>8. CursorFits(old.ref, merged) /\ old.ref = Dirty
  BY <1>1, <1>3, <1>7 DEF CursorFits
<1> HIDE DEF merged
<1>9. /\ row \in JobRow /\ row.status = "queued" /\ row.ref = old.ref
      /\ row.cursor = merged
  BY <1>2, <1>7, JobAssumption DEF JobRow
<1>10. RowFits(row)
  BY <1>8, <1>9 DEF RowFits
<1> HIDE DEF row
<1> QED  BY <1>1, <1>4, <1>5, <1>6, <1>7, <1>8, <1>9, <1>10 DEF j, batch, old

LEMMA MergeTypes ==
  ASSUME TypeInv, NEW r \in Request, Merge(r)
  PROVE  TypeInv'
<1> DEFINE old == ingest[r]
           skip == [old EXCEPT !.at = "enqueue"]
<1>1. old \in Ingest /\ old.at = "merge" /\ RequestFits(old)
  BY DEF Merge, TypeInv, TypeOK
<1>2. CASE MergeInto(r) /\ job[ingest[r].found].status = "queued"
           /\ job[ingest[r].found].cursor = ingest[r].read
  <2>1. RowsFit
    BY <1>1, <1>2, Merged, RowMoves
  <2>2. ingest' = [ingest EXCEPT ![r] = Quiet]
    BY <1>2 DEF MergeInto
  <2> QED  BY <2>1, <2>2, QuietIngest, QuietFits, RequestMoves DEF Merge, TypeInv, TypeOK
<1>3. CASE ingest' = [ingest EXCEPT ![r].at = "enqueue"] /\ UNCHANGED job
  <2>1. ingest' = [ingest EXCEPT ![r] = skip]
    BY <1>3
  <2> HIDE DEF old
  <2>2. skip \in Ingest /\ RequestFits(skip)
    BY <1>1 DEF Ingest, RequestFits
  <2> HIDE DEF skip
  <2> QED  BY <1>3, <2>1, <2>2, RequestMoves, RowsStay DEF Merge, TypeInv, TypeOK
<1> QED  BY <1>2, <1>3 DEF Merge

LEMMA EnqueueDirtyTypes ==
  ASSUME TypeInv, NEW r \in Request, EnqueueDirty(r)
  PROVE  TypeInv'
<1>1. ingest[r].batch \in SUBSET Conv /\ ingest[r].batch # {}
  BY DEF EnqueueDirty, TypeInv, TypeOK, RequestFits, Ingest
<1>2. RowsFit /\ UNCHANGED worker
  BY <1>1, Enqueued, JobAssumption DEF EnqueueDirty
<1> QED  BY <1>2, QuietIngest, QuietFits, RequestMoves DEF EnqueueDirty, TypeInv, TypeOK

LEMMA IngestFailsTypes ==
  ASSUME TypeInv, NEW r \in Request, IngestFails(r)
  PROVE  TypeInv'
<1>1. ingest[r].batch \in SUBSET Conv
  BY DEF TypeInv, TypeOK, Ingest
<1>2. excused' \subseteq Conv
  BY <1>1 DEF IngestFails, TypeInv, TypeOK
<1> QED  BY <1>2, QuietIngest, QuietFits, RequestMoves, RowsStay DEF IngestFails

LEMMA ChangeTypes ==
  ASSUME TypeInv, NEW c \in Conv, ChangeUnnoticed(c)
  PROVE  TypeInv'
<1>1. \E t \in Text : messages' = [messages EXCEPT ![c] = t]
  BY DEF ChangeUnnoticed, Text
<1>2. messages' \in [Conv -> Text]
  BY <1>1 DEF TypeInv, TypeOK
<1>3. RowsFit /\ CallsFit
  BY RowsStay, CallsStay DEF ChangeUnnoticed
<1>4. /\ events' \in 0 .. MaxEvents /\ excused' \subseteq Conv
      /\ corpus' \in [Conv -> Document] /\ ingest' \in [Request -> Ingest]
      /\ \A r \in Request : RequestFits(ingest'[r])
  BY EventCounts DEF ChangeUnnoticed, TypeInv, TypeOK
<1> QED  BY <1>2, <1>3, <1>4, TypesAgain

(* Only the rows and the calls change, and the corpus. *)
LEMMA WorldStays ==
  ASSUME TypeInv, RowsFit, CallsFit, UNCHANGED <<messages, ingest>>,
         corpus' \in [Conv -> Document], excused' \subseteq Conv,
         Event \/ UNCHANGED events
  PROVE  TypeInv'
<1>1. /\ messages' \in [Conv -> Text] /\ ingest' \in [Request -> Ingest]
      /\ \A r \in Request : RequestFits(ingest'[r])
  BY DEF TypeInv, TypeOK
<1> QED  BY <1>1, EventCounts, TypesAgain

LEMMA EnsureTypes ==
  ASSUME TypeInv, EnsureReconcile
  PROVE  TypeInv'
<1>1. RowsFit /\ UNCHANGED worker
  BY Enqueued, JobAssumption DEF EnsureReconcile
<1> QED  BY <1>1, CallsStay, WorldStays DEF EnsureReconcile, worldVars, TypeInv, TypeOK

LEMMA ForgetTypes ==
  ASSUME TypeInv, NEW j \in Job, Forget(j)
  PROVE  TypeInv'
<1>1. NoJob \in JobRow /\ RowFits(NoJob)
  BY DEF NoJob, JobRow, RowFits
<1>2. RowsFit
  BY <1>1, RowMoves DEF Forget
<1> QED  BY <1>2, CallsStay, WorldStays DEF Forget, worldVars, TypeInv, TypeOK

LEMMA ExpireTypes ==
  ASSUME TypeInv, NEW j \in Job, Expire(j)
  PROVE  TypeInv'
<1> DEFINE old == job[j]
           row == [old EXCEPT !.lease = "expired"]
<1>1. old \in JobRow /\ old.status = "running" /\ RowFits(old)
  BY DEF Expire, LeaseExpires, TypeInv, TypeOK, RuntimeTypeOK, RowFits
<1>2. job' = [job EXCEPT ![j] = row] /\ UNCHANGED worker
  BY DEF Expire, LeaseExpires
<1> HIDE DEF old
<1>3. /\ row \in JobRow /\ row.status = "running" /\ row.ref = old.ref
      /\ row.cursor = old.cursor
  BY <1>1 DEF JobRow
<1> HIDE DEF row
<1>4. RowFits(row) /\ row.ref = job[j].ref
  BY <1>1, <1>3 DEF RowFits, old
<1>5. RowsFit
  BY <1>2, <1>3, <1>4, RowMoves DEF Started
<1>6. UNCHANGED <<hand, messages, ingest, corpus, excused>> /\ (Event \/ UNCHANGED events)
  BY DEF Expire, worldVars
<1> QED  BY <1>2, <1>5, <1>6, CallsStay, WorldStays DEF TypeInv, TypeOK

LEMMA TickTypes ==
  ASSUME TypeInv, Tick
  PROVE  TypeInv'
<1>1. PICK w \in Worker, j \in Job : worker[w].pc = "idle" /\ Claim(w, j)
  BY DEF Tick
<1> DEFINE old == job[j]
           row == [old EXCEPT !.status = "running", !.lease = "held"]
           b == [Parked EXCEPT !.pc = "loop", !.id = j]
<1>2. old \in JobRow /\ RowFits(old) /\ old.status # "absent"
  BY <1>1 DEF Claim, Claimable, TypeInv, TypeOK, RuntimeTypeOK, RowFits
<1>3. job' = [job EXCEPT ![j] = row] /\ worker' = [worker EXCEPT ![w] = b]
  BY <1>1 DEF Claim
<1>4. b \in Call /\ b.pc = "loop" /\ b.id = j
  BY DEF Call, Parked
<1> HIDE DEF old, b
<1>5. /\ row \in JobRow /\ row.status = "running" /\ row.ref = old.ref
      /\ row.cursor = old.cursor
  BY <1>2 DEF JobRow
<1> HIDE DEF row
<1>6. RowFits(row) /\ row.ref = job[j].ref
  BY <1>2, <1>5 DEF RowFits, old
<1>7. RowsFit
  BY <1>3, <1>5, <1>6, RowMoves DEF Started
<1>8. hand[w] \in Hand /\ hand[w].at = "out" /\ hand[w].conv = None
  BY <1>1 DEF TypeInv, TypeOK, CallFits, Hand
<1>9. hand' = [hand EXCEPT ![w] = hand[w]]
  BY DEF Tick, TypeInv, TypeOK
<1>10. job'[j].status \in Started /\ j # None
  BY <1>3, <1>5, NullAssumption DEF TypeInv, TypeOK, RuntimeTypeOK, Started
<1>11. CallFits(b, hand[w], job')
  BY <1>4, <1>8, <1>10 DEF CallFits
<1>12. CallsFit
  BY <1>3, <1>4, <1>7, <1>8, <1>9, <1>11, CallMoves DEF Moves
<1> QED  BY <1>7, <1>12, WorldStays DEF Tick, worldVars, TypeInv, TypeOK
----------------------------------------------------------------------------
(* The steps of a worker *)

(* A call that parks. *)
LEMMA Parks ==
  ASSUME TypeInv, NEW w \in Worker, RowsFit,
         worker' = [worker EXCEPT ![w] = Parked],
         hand' = [hand EXCEPT ![w] = Empty] \/ (hand' = hand /\ worker[w].pc # "handler")
  PROVE  CallsFit
<1>1. CASE hand' = [hand EXCEPT ![w] = Empty]
  <2>1. CallFits(Parked, Empty, job')
    BY ParkedCall DEF CallFits, Empty
  <2> QED  BY <1>1, <2>1, ParkedCall, EmptyHand, CallMoves DEF Moves
<1>2. CASE hand' = hand /\ worker[w].pc # "handler"
  <2>1. hand[w] \in Hand /\ hand[w].at = "out" /\ hand[w].conv = None
    BY <1>2 DEF TypeInv, TypeOK, CallFits, Hand
  <2>2. CallFits(Parked, hand[w], job')
    BY <2>1, ParkedCall DEF CallFits
  <2>3. hand' = [hand EXCEPT ![w] = hand[w]]
    BY <1>2 DEF TypeInv, TypeOK
  <2> QED  BY <2>1, <2>2, <2>3, ParkedCall, CallMoves DEF Moves
<1> QED  BY <1>1, <1>2

LEMMA DiesTypes ==
  ASSUME TypeInv, NEW w \in Worker, Dies(w)
  PROVE  TypeInv'
<1>1. RowsFit /\ CallsFit
  BY RowsStay, Parks DEF Dies, WorkerDies, Leave
<1> QED  BY <1>1, WorldStays DEF Dies, WorkerDies, worldVars, TypeInv, TypeOK

LEMMA RunsOutTypes ==
  ASSUME TypeInv, NEW w \in Worker, RunsOut(w)
  PROVE  TypeInv'
<1>1. RowsFit /\ CallsFit
  BY RowsStay, Parks DEF RunsOut, BudgetSpent
<1> QED  BY <1>1, WorldStays DEF RunsOut, BudgetSpent, worldVars, TypeInv, TypeOK

LEMMA RuntimeTypes ==
  ASSUME TypeInv, NEW w \in Worker, RuntimeStep(w),
         UNCHANGED <<worldVars, events, corpus, hand>>
  PROVE  TypeInv'
<1> DEFINE old == job[worker[w].id]
           call == worker[w]
<1> SUFFICES RowsFit /\ CallsFit
  BY WorldStays DEF worldVars, TypeInv, TypeOK
<1>0. /\ call.pc \in {"loop", "result"} /\ call \in Call /\ call.id \in Job
      /\ old \in JobRow /\ old.status \in Started /\ RowFits(old)
      /\ hand[w] \in Hand /\ hand[w].at = "out" /\ hand[w].conv = None
      /\ call.id # None
  <2>1. call.pc \in {"loop", "result"}
    BY DEF RuntimeStep, HandlerStarts, SeesCancelled, PersistProgress, Finish
  <2>2. hand[w].at = "out" /\ hand[w].conv = None
    BY <2>1 DEF TypeInv, TypeOK, CallFits, Hand
  <2> QED  BY <2>1, <2>2, AtWork, NullAssumption DEF TypeInv, TypeOK, RowFits
<1>1. hand' = [hand EXCEPT ![w] = hand[w]]
  BY DEF TypeInv, TypeOK
<1>2. CASE HandlerStarts(w)
  <2> DEFINE b == [call EXCEPT !.pc = "handler", !.cursor = old.cursor]
  <2>1. worker' = [worker EXCEPT ![w] = b] /\ UNCHANGED job
    BY <1>2 DEF HandlerStarts
  <2>2. CursorFits(old.ref, old.cursor)
    BY <1>0 DEF RowFits, Started
  <2>3. old = job'[call.id]
    BY <2>1
  <2> HIDE DEF call, old
  <2>4. b \in Call /\ b.pc = "handler" /\ b.id = call.id /\ b.cursor = old.cursor
    BY <1>0 DEF Call, JobRow
  <2> HIDE DEF b
  <2>5. CallFits(b, hand[w], job')
    BY <1>0, <2>2, <2>3, <2>4 DEF CallFits
  <2> QED  BY <1>0, <1>1, <2>1, <2>4, <2>5, RowsStay, CallMoves DEF Moves
<1>3. CASE SeesCancelled(w)
  BY <1>0, <1>3, RowsStay, Parks DEF SeesCancelled
<1>4. CASE PersistProgress(w)
  <2> DEFINE row == [old EXCEPT !.cursor = call.cursor, !.lease = "held"]
             b == [call EXCEPT !.pc = "loop", !.cursor = None]
  <2>1. job' = [job EXCEPT ![call.id] = row] /\ worker' = [worker EXCEPT ![w] = b]
    BY <1>4 DEF PersistProgress
  <2>2. CursorFits(old.ref, call.cursor)
    BY <1>4 DEF PersistProgress, TypeInv, CallFits
  <2>3. old = job[call.id]
    OBVIOUS
  <2> HIDE DEF call, old
  <2>4. /\ b \in Call /\ b.pc = "loop" /\ b.id = call.id
        /\ row \in JobRow /\ row.status = old.status /\ row.ref = old.ref
        /\ row.cursor = call.cursor
    BY <1>0 DEF Call, JobRow
  <2> HIDE DEF row, b
  <2>5. RowFits(row)
    BY <2>2, <2>4 DEF RowFits
  <2>6. RowsFit
    BY <1>0, <2>1, <2>3, <2>4, <2>5, RowMoves
  <2>7. job'[call.id] = row
    BY <1>0, <2>1 DEF TypeInv, TypeOK, RuntimeTypeOK
  <2>8. CallFits(b, hand[w], job')
    BY <1>0, <2>4, <2>7 DEF CallFits
  <2> QED  BY <1>0, <1>1, <2>1, <2>4, <2>6, <2>8, CallMoves DEF Moves
<1>5. CASE Finish(w)
  <2> DEFINE row == [old EXCEPT !.status = call.result, !.lease = "none"]
  <2>1. /\ job' = [job EXCEPT ![call.id] = row]
        /\ worker' = [worker EXCEPT ![w] = Parked]
        /\ call.pc = "result" /\ call.result \in {"done", "failed"}
    BY <1>5 DEF Finish
  <2>2. old = job[call.id]
    OBVIOUS
  <2> HIDE DEF call, old
  <2>3. /\ row \in JobRow /\ row.status \in Started /\ row.ref = old.ref
        /\ row.cursor = old.cursor
    BY <1>0, <2>1 DEF JobRow, Started
  <2> HIDE DEF row
  <2>4. RowFits(row)
    BY <1>0, <2>3 DEF RowFits, Started
  <2>5. RowsFit
    BY <1>0, <2>1, <2>2, <2>3, <2>4, RowMoves
  <2>6. worker[w].pc # "handler"
    BY <2>1 DEF call
  <2> QED  BY <2>1, <2>5, <2>6, Parks
<1> QED  BY <1>2, <1>3, <1>4, <1>5 DEF RuntimeStep

(* A handler returns, with nothing in hand. *)
LEMMA ReturnFits ==
  ASSUME TypeInv, NEW w \in Worker, worker[w].pc = "handler",
         NEW result \in {"more", "done", "failed"}, NEW cursor \in Progress \cup {None},
         Returns(w, result, cursor),
         result = "more" => CursorFits(job[worker[w].id].ref, cursor),
         Leave(w), UNCHANGED job
  PROVE  CallsFit
<1> DEFINE old == worker[w]
           b == [old EXCEPT !.pc = "result", !.result = result, !.cursor = cursor]
<1>1. /\ old \in Call /\ old.id \in Job /\ old.id # None
      /\ job[old.id].status \in Started
  BY AtWork, NullAssumption
<1>2. worker' = [worker EXCEPT ![w] = b]
  BY DEF Returns
<1>3. old = worker[w]
  OBVIOUS
<1> HIDE DEF old
<1>4. /\ b \in Call /\ b.pc = "result" /\ b.id = old.id
      /\ b.result = result /\ b.cursor = cursor
  BY <1>1, JobAssumption DEF Call
<1> HIDE DEF b
<1>5. CallFits(b, Empty, job')
  BY <1>1, <1>3, <1>4 DEF CallFits, Empty
<1> QED  BY <1>2, <1>4, <1>5, EmptyHand, RowsStay, CallMoves DEF Moves, Leave

(* After a conversation of a dirty job. *)
LEMMA HandledFits ==
  ASSUME TypeInv, NEW w \in Worker, worker[w].pc = "handler",
         worker[w].cursor.kind = "dirty", NEW failed \in BOOLEAN,
         Handled(w, failed), Leave(w), UNCHANGED job
  PROVE  CallsFit
<1> DEFINE c == worker[w].cursor
           left == c.left \ {First(c.left)}
           noted == c.failed \/ failed
           next == [c EXCEPT !.left = left, !.failed = noted]
<1>1. c \in Progress /\ c.kind = "dirty" /\ job[worker[w].id].ref = Dirty
  BY InCall
<1>2. CASE left = {}
  BY <1>2, ReturnFits DEF Handled
<1>3. CASE left # {}
  <2>1. Returns(w, "more", next)
    BY <1>3 DEF Handled
  <2> HIDE DEF c
  <2>2. left \in SUBSET Conv /\ noted \in BOOLEAN
    BY <1>1 DEF Progress
  <2> HIDE DEF left, noted
  <2>3. next \in Progress /\ next.kind = "dirty" /\ next.left = left
    BY <1>1, <2>2 DEF Progress
  <2> HIDE DEF next
  <2>4. CursorFits(job[worker[w].id].ref, next)
    BY <1>1, <1>3, <2>3 DEF CursorFits
  <2> QED  BY <2>1, <2>3, <2>4, ReturnFits
<1> QED  BY <1>2, <1>3

(* After a page of a scan. *)
LEMMA PagedFits ==
  ASSUME TypeInv, NEW w \in Worker, worker[w].pc = "handler",
         worker[w].cursor.kind = "dirty" => hand[w].last,
         Paged(w), Leave(w), UNCHANGED job
  PROVE  CallsFit
<1> DEFINE c == worker[w].cursor
           beyond == Beyond(hand[w].conv)
           next == [c EXCEPT !.left = beyond]
<1>1. c \in Progress /\ (c.kind = "dirty" <=> job[worker[w].id].ref = Dirty)
  BY InCall
<1>2. CASE hand[w].last
  BY <1>2, ReturnFits DEF Paged
<1>3. CASE ~hand[w].last
  <2>1. Returns(w, "more", next) /\ c.kind # "dirty"
    BY <1>3 DEF Paged
  <2>2. beyond \in SUBSET Conv
    BY DEF Beyond
  <2> HIDE DEF c, beyond
  <2>3. next \in Progress /\ next.kind = c.kind
    BY <1>1, <2>2 DEF Progress
  <2> HIDE DEF next
  <2>4. CursorFits(job[worker[w].id].ref, next)
    BY <1>1, <2>1, <2>3 DEF CursorFits
  <2> QED  BY <2>1, <2>3, <2>4, ReturnFits
<1> QED  BY <1>2, <1>3

(* What Prepare finds: the next conversation that has messages, or none. *)
Found(w) ==
  {c \in worker[w].cursor.left : worker[w].cursor.kind = "dirty" \/ messages[c] # << >>}

Snapshot(w) ==
  LET c == First(Found(w))
      d == corpus[c]
      text == messages[c]
  IN [at |-> "persist", conv |-> c, text |-> text,
      last |-> worker[w].cursor.kind = "dirty" \/ Found(w) \subseteq {c},
      new |-> d.text = None, doc |-> d.text # text,
      changed |-> Changed(d.chunks, text),
      stale |-> DOMAIN d.chunks \ DOMAIN text]

LEMMA Prepares ==
  ASSUME TypeInv, NEW w \in Worker, Prepare(w)
  PROVE  /\ worker[w].pc = "handler" /\ hand[w].at = "out"
         /\ UNCHANGED <<job, worker, messages, corpus, ingest, events>>
         /\ \/ /\ \/ Found(w) = {} \/ messages[First(Found(w))] = << >>
                  \/ worker[w].cursor.kind = "dirty" /\ First(Found(w)) \in Raw
               /\ hand' = [hand EXCEPT ![w] = Sweeping]
               /\ UNCHANGED excused
            \/ /\ Found(w) # {} /\ messages[First(Found(w))] # << >>
               /\ hand' = [hand EXCEPT ![w] = Snapshot(w)]
               /\ excused' = IF HeldByOther(w, First(Found(w)))
                               THEN excused \cup {First(Found(w))} ELSE excused
<1> DEFINE c == First(Found(w))
<1>1. /\ worker[w].pc = "handler" /\ hand[w].at = "out"
      /\ UNCHANGED <<job, worker, messages, corpus, ingest, events>>
  BY DEF Prepare, InHandler
<1>2. LoadRows(w, c) # << >> => LoadRows(w, c) = messages[c]
  BY DEF LoadRows
<1>3. LoadRows(w, c) = << >> =>
        messages[c] = << >> \/ (worker[w].cursor.kind = "dirty" /\ c \in Raw)
  BY DEF LoadRows
<1>4. CASE Found(w) = {} \/ LoadRows(w, c) = << >>
  BY <1>1, <1>3, <1>4 DEF Prepare, Found
<1>5. CASE ~(Found(w) = {} \/ LoadRows(w, c) = << >>)
  BY <1>1, <1>2, <1>5 DEF Prepare, Found, Snapshot
<1> QED  BY <1>4, <1>5

LEMMA DocumentShape ==
  ASSUME NEW d \in Document
  PROVE  /\ d.text \in Text \cup {None}
         /\ DOMAIN d.chunks \subseteq Key
         /\ \A k \in DOMAIN d.chunks : d.chunks[k] \in Chunk
<1>1. PICK S \in SUBSET Key : d.chunks \in [S -> Chunk]
  BY DEF Document
<1> QED  BY <1>1 DEF Document

LEMMA SnapshotFits ==
  ASSUME TypeInv, NEW w \in Worker, worker[w].pc = "handler", Found(w) # {},
         messages[First(Found(w))] # << >>
  PROVE  /\ First(Found(w)) \in Conv /\ First(Found(w)) \in worker[w].cursor.left
         /\ Snapshot(w) \in Hand
         /\ CallFits(worker[w], Snapshot(w), job)
<1> DEFINE c == First(Found(w))
           h == Snapshot(w)
<1>1. Found(w) \in SUBSET Conv /\ worker[w].cursor.left \in SUBSET Conv
  BY InCall DEF Found
<1>2. c \in Found(w) /\ c \in Conv
  BY <1>1, FirstIn
<1>3. messages[c] \in Text /\ corpus[c] \in Document
  BY <1>2 DEF TypeInv, TypeOK
<1>4. DOMAIN messages[c] \subseteq Key /\ DOMAIN corpus[c].chunks \subseteq Key
  BY <1>3, TextShape, DocumentShape
<1>5. /\ Changed(corpus[c].chunks, messages[c]) \subseteq Key
      /\ DOMAIN corpus[c].chunks \ DOMAIN messages[c] \subseteq Key
  BY <1>4 DEF Changed
<1>6. h \in Hand
  BY <1>2, <1>3, <1>5 DEF Snapshot, Hand
<1>7. /\ h.at = "persist" /\ h.conv = c /\ h.text = messages[c]
      /\ worker[w].cursor.kind = "dirty" => h.last
  BY DEF Snapshot
<1>8. worker[w].cursor.kind = "dirty" => c = First(worker[w].cursor.left)
  <2>1. worker[w].cursor.kind = "dirty" => Found(w) = worker[w].cursor.left
    BY DEF Found
  <2> QED  BY <2>1
<1>9. CallFits(worker[w], hand[w], job)
  BY DEF TypeInv
<1>10. c # None /\ c \in worker[w].cursor.left
  BY <1>2, ConvAssumption DEF Found
<1> HIDE DEF c, h
<1>11. CallFits(worker[w], h, job)
  BY <1>7, <1>8, <1>9, <1>10 DEF CallFits, c
<1> QED  BY <1>2, <1>6, <1>10, <1>11 DEF c, h

LEMMA SweepingFits ==
  ASSUME NEW b, NEW h, NEW rows, CallFits(b, h, rows), b.pc = "handler"
  PROVE  CallFits(b, Sweeping, rows)
<1>1. Sweeping.at = "sweep" /\ Sweeping.last /\ Sweeping.conv = None
  BY DEF Sweeping, Empty
<1> HIDE DEF Sweeping
<1> QED  BY <1>1 DEF CallFits

LEMMA PrepareTypes ==
  ASSUME TypeInv, NEW w \in Worker, Prepare(w)
  PROVE  TypeInv'
<1>1. worker[w].pc = "handler"
  BY DEF Prepare, InHandler
<1>2. worker' = [worker EXCEPT ![w] = worker[w]] /\ worker[w] \in Call
  BY <1>1, AtWork DEF Prepare, TypeInv, TypeOK, RuntimeTypeOK
<1>3. RowsFit
  BY RowsStay DEF Prepare
<1>4. CASE /\ hand' = [hand EXCEPT ![w] = Sweeping]
           /\ UNCHANGED excused
  <2>1. CallFits(worker[w], Sweeping, job')
    <3>1. CallFits(worker[w], hand[w], job)
      BY DEF TypeInv
    <3>2. CallFits(worker[w], Sweeping, job)
      BY <1>1, <3>1, SweepingFits
    <3>3. job' = job
      BY Prepares
    <3> QED  BY <3>2, <3>3
  <2>2. CallsFit
    BY <1>2, <1>3, <1>4, <2>1, EmptyHand, CallMoves DEF Moves
  <2> QED  BY <1>3, <1>4, <2>2, WorldStays DEF Prepare, TypeInv, TypeOK
<1>5. CASE /\ Found(w) # {} /\ messages[First(Found(w))] # << >>
           /\ hand' = [hand EXCEPT ![w] = Snapshot(w)]
           /\ excused' \subseteq excused \cup {First(Found(w))}
  <2>1. job' = job
    BY DEF Prepare
  <2>2. CallsFit
    BY <1>1, <1>2, <1>3, <1>5, <2>1, SnapshotFits, CallMoves DEF Moves
  <2>3. excused' \subseteq Conv
    BY <1>1, <1>5, SnapshotFits DEF TypeInv, TypeOK
  <2> QED  BY <1>3, <2>2, <2>3, WorldStays DEF Prepare, TypeInv, TypeOK
<1> QED  BY <1>4, <1>5, Prepares

(* What is written, with its types. *)
LEMMA WrittenFits ==
  ASSUME NEW d \in Document, NEW h \in Hand, h.text \in Text
  PROVE  [text |-> h.text, chunks |-> Written(d.chunks, h)] \in Document
<1> DEFINE S == (DOMAIN d.chunks \ h.stale) \cup DOMAIN h.text
           f == Written(d.chunks, h)
<1>1. S \in SUBSET Key
  BY TextShape, DocumentShape
<1>2. ASSUME NEW k \in S
      PROVE  f[k] \in Chunk
  <2>1. CASE k \in DOMAIN h.text
    <3>1. h.text[k] \in Content
      BY <2>1, TextShape
    <3>2. Embedding(d.chunks, h, k) \in Content \cup {None}
      BY <2>1, <3>1, DocumentShape DEF Embedding, Chunk
    <3>3. f[k] = [content |-> h.text[k], embedding |-> Embedding(d.chunks, h, k)]
      BY <2>1 DEF Written
    <3> QED  BY <3>1, <3>2, <3>3 DEF Chunk
  <2>2. CASE k \notin DOMAIN h.text
    <3>1. k \in DOMAIN d.chunks /\ f[k] = d.chunks[k]
      BY <2>2 DEF Written
    <3> QED  BY <3>1, DocumentShape
  <2> QED  BY <2>1, <2>2
<1>3. f = [k \in S |-> f[k]]
  BY DEF Written
<1> HIDE DEF S, f
<1>4. f \in [S -> Chunk]
  BY <1>2, <1>3
<1> QED  BY <1>1, <1>4 DEF Document, f

(* A snapshot is of a conversation and has a text. *)
LEMMA InHand ==
  ASSUME TypeInv, NEW w \in Worker, hand[w].at = "persist"
  PROVE  /\ hand[w] \in Hand /\ hand[w].conv \in Conv
         /\ hand[w].text \in Text /\ hand[w].text # << >>
         /\ worker[w].pc = "handler"
BY DEF TypeInv, TypeOK, CallFits, Hand

LEMMA PersistTypes ==
  ASSUME TypeInv, NEW w \in Worker, Persist(w)
  PROVE  TypeInv'
<1> DEFINE h == hand[w]
<1>1. /\ worker[w].pc = "handler" /\ h.at = "persist"
      /\ h \in Hand /\ h.conv \in Conv /\ h.text \in Text
  BY InHand DEF Persist, InHandler
<1>2. corpus' \in [Conv -> Document]
  <2>1. corpus \in [Conv -> Document] /\ corpus[h.conv] \in Document
    BY <1>1 DEF TypeInv, TypeOK
  <2>2. [text |-> h.text, chunks |-> Written(corpus[h.conv].chunks, h)] \in Document
    BY <1>1, <2>1, WrittenFits
  <2>3. \/ corpus' = corpus
        \/ corpus' = [corpus EXCEPT ![h.conv] =
               [text |-> h.text, chunks |-> Written(corpus[h.conv].chunks, h)]]
    BY DEF Persist
  <2> HIDE DEF h
  <2> QED  BY <2>1, <2>2, <2>3
<1>3. RowsFit
  BY RowsStay DEF Persist
<1>4. CallsFit
  <2>1. CASE h.last
    <3>1. hand' = [hand EXCEPT ![w] = Sweeping] /\ worker' = worker /\ job' = job
      BY <2>1 DEF Persist
    <3>2. CallFits(worker[w], h, job)
      BY DEF TypeInv
    <3>4. worker' = [worker EXCEPT ![w] = worker[w]] /\ worker[w] \in Call
      BY <3>1 DEF TypeInv, TypeOK, RuntimeTypeOK
    <3>5. CallFits(worker[w], Sweeping, job')
      BY <1>1, <3>1, <3>2, SweepingFits
    <3> QED  BY <1>3, <3>1, <3>4, <3>5, EmptyHand, CallMoves DEF Moves
  <2>2. CASE ~h.last
    <3>1. worker[w].cursor.kind # "dirty"
      BY <1>1, <2>2 DEF TypeInv, CallFits
    <3> QED  BY <1>1, <2>2, <3>1, PagedFits DEF Persist
  <2> QED  BY <2>1, <2>2
<1> QED  BY <1>2, <1>3, <1>4, WorldStays DEF Persist, worldVars, TypeInv, TypeOK

LEMMA SweepTypes ==
  ASSUME TypeInv, NEW w \in Worker, Sweep(w)
  PROVE  TypeInv'
<1>1. worker[w].pc = "handler" /\ hand[w].at = "sweep" /\ hand[w].last
  BY DEF Sweep, InHandler, TypeInv, CallFits
<1>2. corpus' \in [Conv -> Document]
  <2>1. ASSUME NEW d \in Conv
        PROVE  [corpus[d] EXCEPT !.chunks = NoChunks] \in Document /\ corpus[d] \in Document
    <3> DEFINE old == corpus[d]
    <3>1. old \in Document
      BY DEF TypeInv, TypeOK
    <3>2. NoChunks \in UNION {[S -> Chunk] : S \in SUBSET Key}
      BY DEF NoChunks
    <3> HIDE DEF old, NoChunks
    <3>3. [old EXCEPT !.chunks = NoChunks] \in Document
      BY <3>1, <3>2 DEF Document
    <3> QED  BY <3>1, <3>3 DEF old
  <2> QED  BY <2>1 DEF Sweep
<1>3. RowsFit
  BY RowsStay DEF Sweep
<1>4. CASE worker[w].cursor.kind = "dirty"
  <2>1. CallsFit
    BY <1>1, <1>4, HandledFits DEF Sweep
  <2> QED  BY <1>2, <1>3, <2>1, WorldStays DEF Sweep, worldVars, TypeInv, TypeOK
<1>5. CASE worker[w].cursor.kind # "dirty"
  <2>1. CallsFit
    BY <1>1, <1>5, PagedFits DEF Sweep
  <2> QED  BY <1>2, <1>3, <2>1, WorldStays DEF Sweep, worldVars, TypeInv, TypeOK
<1> QED  BY <1>4, <1>5

LEMMA ThrowTypes ==
  ASSUME TypeInv, NEW w \in Worker, worker[w].pc = "handler", Throw(w),
         Event \/ UNCHANGED events
  PROVE  TypeInv'
<1> DEFINE c == worker[w].cursor
<1>1. RowsFit
  BY RowsStay DEF Throw
<1>2. CASE c.kind = "dirty"
  <2>1. CallsFit
    BY <1>2, HandledFits DEF Throw
  <2>2. First(c.left) \in Conv
    BY <1>2, InCall, FirstIn
  <2> QED  BY <1>1, <1>2, <2>1, <2>2, WorldStays DEF Throw, TypeInv, TypeOK
<1>3. CASE c.kind # "dirty"
  <2>1. CallsFit
    BY <1>3, ReturnFits DEF Throw
  <2> QED  BY <1>1, <1>3, <2>1, WorldStays DEF Throw, TypeInv, TypeOK
<1> QED  BY <1>2, <1>3

LEMMA HandlerTypes ==
  ASSUME TypeInv, NEW w \in Worker, Handler(w) \/ HandlerFails(w)
  PROVE  TypeInv'
<1>1. CASE PersistClashes(w) \/ HandlerFails(w)
  BY <1>1, ThrowTypes DEF PersistClashes, HandlerFails, InHandler
<1> QED  BY <1>1, PrepareTypes, PersistTypes, SweepTypes DEF Handler
----------------------------------------------------------------------------
LEMMA TypeInit ==
  ASSUME Init
  PROVE  TypeInv
<1>1. NoJob \in JobRow /\ NoJob.status = "absent"
  BY DEF NoJob, JobRow
<1>2. /\ job \in [Job -> JobRow] /\ worker \in [Worker -> Call]
      /\ \A j \in Job : job[j].status = "absent"
  BY <1>1, ParkedCall DEF Init, RuntimeInit
<1>3. messages \in [Conv -> Text]
  BY TextAssumption DEF Init, Text
<1>4. corpus \in [Conv -> Document]
  BY TextAssumption, NoDocumentType, SyncedType DEF Init, Text
<1>5. hand \in [Worker -> Hand] /\ ingest \in [Request -> Ingest]
  BY EmptyHand, QuietIngest DEF Init
<1>6. \A w \in Worker : CallFits(worker[w], hand[w], job)
  BY ParkedCall DEF Init, RuntimeInit, CallFits, Empty
<1>7. \A r \in Request : RequestFits(ingest[r])
  BY QuietFits DEF Init
<1>8. excused \subseteq Conv /\ events \in 0 .. MaxEvents
  BY TextAssumption DEF Init
<1> QED  BY <1>2, <1>3, <1>4, <1>5, <1>6, <1>7, <1>8 DEF TypeInv, TypeOK, RuntimeTypeOK

LEMMA TypeNext ==
  ASSUME TypeInv, [Next]_vars
  PROVE  TypeInv'
<1>1. CASE UNCHANGED vars
  BY <1>1 DEF vars, worldVars, TypeInv, TypeOK, RuntimeTypeOK, CallFits
<1>2. ASSUME NEW w \in Worker, Work(w)
      PROVE  TypeInv'
  BY <1>2, HandlerTypes, RuntimeTypes DEF Work
<1> QED  BY <1>1, <1>2, InsertTypes, LookTypes, MergeTypes, EnqueueDirtyTypes,
            IngestFailsTypes, ChangeTypes, EnsureTypes, TickTypes, HandlerTypes,
            RunsOutTypes, DiesTypes, ExpireTypes, ForgetTypes DEF Next

LEMMA Typed == Spec => []TypeInv
BY TypeInit, TypeNext, PTL DEF Spec

(* The corpus, its jobs and the calls have their types: a cursor is of its *)
(* job's kind, and no dirty job goes on with nothing left, whoever else    *)
(* works on it.                                                            *)
THEOREM CorpusTypes == Spec => []TypeOK
<1>1. TypeInv => TypeOK
  BY DEF TypeInv
<1> QED  BY <1>1, Typed, PTL
----------------------------------------------------------------------------
(* Embeddings *)

LEMMA CorpusSteps ==
  ASSUME [Next]_vars
  PROVE  corpus' = corpus \/ \E w \in Worker : Persist(w) \/ Sweep(w)
<1>1. ASSUME NEW r \in Request, Look(r) \/ Merge(r) \/ EnqueueDirty(r) \/ IngestFails(r)
      PROVE  corpus' = corpus
  BY <1>1 DEF Look, Merge, EnqueueDirty, IngestFails
<1>2. ASSUME NEW w \in Worker, HandlerFails(w) \/ RunsOut(w) \/ Dies(w)
      PROVE  corpus' = corpus
  BY <1>2 DEF HandlerFails, Throw, RunsOut, Dies
<1>3. ASSUME NEW w \in Worker, Work(w)
      PROVE  corpus' = corpus \/ Persist(w) \/ Sweep(w)
  <2>1. CASE Prepare(w) \/ PersistClashes(w)
    BY <2>1, Prepares DEF Prepare, PersistClashes, Throw
  <2> QED  BY <1>3, <2>1 DEF Work, Handler
<1>4. ASSUME NEW j \in Job, Expire(j) \/ Forget(j)
      PROVE  corpus' = corpus
  BY <1>4 DEF Expire, Forget
<1>5. CASE InsertMessages \/ EnsureReconcile \/ Tick
           \/ (\E c \in Conv : ChangeUnnoticed(c)) \/ UNCHANGED vars
  BY <1>5 DEF InsertMessages, EnsureReconcile, Tick, ChangeUnnoticed, vars
<1> QED  BY <1>1, <1>2, <1>3, <1>4, <1>5 DEF Next

FitChunks(chunks) ==
  \A k \in DOMAIN chunks : chunks[k].embedding \in {None, chunks[k].content}

LEMMA WrittenFitChunks ==
  ASSUME NEW d \in Document, NEW h \in Hand, FitChunks(d.chunks)
  PROVE  FitChunks(Written(d.chunks, h))
<1> DEFINE f == Written(d.chunks, h)
<1>1. SUFFICES ASSUME NEW k \in DOMAIN f
               PROVE  f[k].embedding \in {None, f[k].content}
  BY DEF FitChunks
<1>2. CASE k \in DOMAIN h.text
  <2>1. f[k] = [content |-> h.text[k], embedding |-> Embedding(d.chunks, h, k)]
    BY <1>2 DEF Written
  <2>2. Embedding(d.chunks, h, k) \in {None, h.text[k]}
    BY DEF Embedding, FitChunks
  <2> QED  BY <2>1, <2>2
<1>3. CASE k \notin DOMAIN h.text
  <2>1. k \in DOMAIN d.chunks /\ f[k] = d.chunks[k]
    BY <1>3 DEF Written
  <2> QED  BY <2>1 DEF FitChunks
<1> QED  BY <1>2, <1>3

LEMMA EmbeddingsNext ==
  ASSUME TypeInv, EmbeddingsFit, [Next]_vars
  PROVE  EmbeddingsFit'
<1>1. \A c \in Conv : FitChunks(corpus[c].chunks) /\ corpus[c] \in Document
  BY DEF EmbeddingsFit, FitChunks, TypeInv, TypeOK
<1>2. SUFFICES ASSUME NEW c \in Conv
               PROVE  FitChunks(corpus'[c].chunks)
  BY DEF EmbeddingsFit, FitChunks
<1>3. CASE corpus' = corpus
  BY <1>1, <1>3
<1>4. ASSUME NEW w \in Worker, Persist(w)
      PROVE  FitChunks(corpus'[c].chunks)
  <2> DEFINE h == hand[w]
             d == corpus[c]
             new == [text |-> h.text, chunks |-> Written(d.chunks, h)]
  <2>1. h \in Hand /\ corpus \in [Conv -> Document]
    BY DEF TypeInv, TypeOK
  <2>2. corpus' = corpus \/ corpus' = [corpus EXCEPT ![h.conv] =
            [text |-> h.text, chunks |-> Written(corpus[h.conv].chunks, h)]]
    BY <1>4 DEF Persist
  <2>3. corpus'[c] \in {d, new}
    <3> HIDE DEF h
    <3> QED  BY <2>1, <2>2
  <2>4. FitChunks(d.chunks) /\ FitChunks(new.chunks)
    BY <1>1, <2>1, WrittenFitChunks
  <2> QED  BY <2>3, <2>4
<1>5. ASSUME NEW w \in Worker, Sweep(w)
      PROVE  FitChunks(corpus'[c].chunks)
  <2> DEFINE d == corpus[c]
             swept == [d EXCEPT !.chunks = NoChunks]
  <2>1. corpus'[c] \in {d, swept}
    BY <1>5 DEF Sweep
  <2>2. FitChunks(NoChunks) /\ FitChunks(d.chunks) /\ d \in Document
    BY <1>1 DEF FitChunks, NoChunks
  <2> HIDE DEF d, NoChunks
  <2>3. swept.chunks = NoChunks
    BY <2>2 DEF Document
  <2> QED  BY <2>1, <2>2, <2>3
<1> QED  BY <1>3, <1>4, <1>5, CorpusSteps

LEMMA EmbeddingsInit ==
  ASSUME Init
  PROVE  EmbeddingsFit
<1>1. ASSUME NEW c \in Conv
      PROVE  FitChunks(corpus[c].chunks)
  <2>1. CASE corpus[c] = NoDocument
    BY <2>1 DEF NoDocument, NoChunks, FitChunks
  <2>2. CASE corpus[c] = Synced(Start[c])
    BY <2>2 DEF Synced, FitChunks
  <2> QED  BY <2>1, <2>2 DEF Init
<1> QED  BY <1>1 DEF FitChunks, EmbeddingsFit

(* No chunk ever carries the embedding of another text, whichever snapshot *)
(* is written last and however many workers write.                         *)
THEOREM EmbeddingsOfText == Spec => []EmbeddingsFit
BY Typed, EmbeddingsInit, EmbeddingsNext, PTL DEF Spec
----------------------------------------------------------------------------
(* No change is forgotten *)

(* h is a snapshot of c that is not what c reads as now. *)
Stale(h, c) == h.conv = c /\ h.text # messages[c]

(* What a call b with h in hand will write of its job drops c, and it will *)
(* not bring c up to date before.                                          *)
Passed(b, h, c) ==
  \/ /\ b.pc = "handler"
     /\ \/ c \notin b.cursor.left
        \/ h.at = "sweep" /\ c = First(b.cursor.left)
        \/ Stale(h, c)
  \/ /\ b.pc = "result"
     /\ b.result = "more" => c \notin b.cursor.left

RowCovers(row, c) == row.status \in Active /\ row.ref = Dirty /\ c \in row.cursor.left

(* Job j will still bring c up to date. *)
Covers(j, c) ==
  /\ RowCovers(job[j], c)
  /\ \A w \in Worker : worker[w].id = j => ~Passed(worker[w], hand[w], c)

Kept(c) == Current(c) /\ \A w \in Worker : ~Stale(hand[w], c)

Accounted(c) == Pending(c) \/ (\E j \in Job : Covers(j, c)) \/ Kept(c)

(* A snapshot says what is stored now. *)
Exact(h, c) ==
  h.conv = c =>
    /\ h.doc <=> corpus[c].text # h.text
    /\ h.changed = Changed(corpus[c].chunks, h.text)
    /\ h.stale = DOMAIN corpus[c].chunks \ DOMAIN h.text

Snapshots(c) ==
  /\ \A w, v \in Worker : hand[w].conv = c /\ hand[v].conv = c => w = v
  /\ \A w \in Worker : Exact(hand[w], c)
  /\ messages[c] = << >> => Current(c) /\ \A w \in Worker : hand[w].conv # c

Secure ==
  /\ TypeInv /\ EmbeddingsFit
  /\ \A c \in Conv \ (excused \cup Raw) : Snapshots(c) /\ Accounted(c)

(* An exact snapshot that is fresh brings the conversation up to date. *)
LEMMA FreshPersist ==
  ASSUME TypeInv, EmbeddingsFit, NEW w \in Worker, Persist(w),
         Exact(hand[w], hand[w].conv), hand[w].text = messages[hand[w].conv]
  PROVE  corpus'[hand[w].conv] = Synced(messages[hand[w].conv])
<1> DEFINE h == hand[w]
           c == h.conv
           d == corpus[c]
           t == h.text
           f == Written(d.chunks, h)
<1>1. /\ h \in Hand /\ c \in Conv /\ t \in Text /\ corpus \in [Conv -> Document]
      /\ d \in Document
  BY InHand DEF Persist, InHandler, TypeInv, TypeOK
<1>2. /\ h.doc <=> d.text # t
      /\ h.changed = Changed(d.chunks, t)
      /\ h.stale = DOMAIN d.chunks \ DOMAIN t
  BY DEF Exact
<1>3. \A k \in DOMAIN d.chunks :
        d.chunks[k] \in Chunk /\ d.chunks[k].embedding \in {None, d.chunks[k].content}
  BY <1>1, DocumentShape DEF EmbeddingsFit
<1>4. /\ corpus' = IF NeedsWrite(h)
                    THEN [corpus EXCEPT ![c] = [text |-> t, chunks |-> f]] ELSE corpus
      /\ t = messages[c]
  BY DEF Persist
<1>5. \A k \in DOMAIN t \ h.changed :
        /\ k \in DOMAIN d.chunks
        /\ d.chunks[k] = [content |-> t[k], embedding |-> t[k]]
  <2>1. ASSUME NEW k \in DOMAIN t \ h.changed
        PROVE  /\ k \in DOMAIN d.chunks
               /\ d.chunks[k].content = t[k] /\ d.chunks[k].embedding = t[k]
    BY <1>2, <1>3 DEF Changed
  <2> QED  BY <1>3, <2>1 DEF Chunk
<1>6. CASE NeedsWrite(h)
  <2>1. DOMAIN f = DOMAIN t
    BY <1>2 DEF Written
  <2>2. ASSUME NEW k \in DOMAIN t
        PROVE  f[k] = [content |-> t[k], embedding |-> t[k]]
    <3>1. f[k] = [content |-> t[k], embedding |-> Embedding(d.chunks, h, k)]
      BY DEF Written
    <3>2. Embedding(d.chunks, h, k) = t[k]
      <4>1. CASE k \in h.changed
        BY <4>1 DEF Embedding
      <4>2. CASE k \notin h.changed
        <5>1. k \in DOMAIN d.chunks /\ d.chunks[k] = [content |-> t[k], embedding |-> t[k]]
          BY <1>5, <4>2
        <5>2. d.chunks[k].content = t[k] /\ d.chunks[k].embedding = t[k]
          BY <5>1
        <5> QED  BY <4>2, <5>1, <5>2 DEF Embedding
      <4> QED  BY <4>1, <4>2
    <3> QED  BY <3>1, <3>2
  <2>3. f = [k \in DOMAIN t |-> [content |-> t[k], embedding |-> t[k]]]
    BY <2>1, <2>2 DEF Written
  <2>4. corpus'[c] = [text |-> t, chunks |-> f]
    <3> HIDE DEF c, f, t
    <3> QED  BY <1>1, <1>4, <1>6
  <2> QED  BY <1>4, <2>3, <2>4 DEF Synced
<1>7. CASE ~NeedsWrite(h)
  <2>1. d.text = t /\ h.changed = {} /\ h.stale = {}
    BY <1>2, <1>7 DEF NeedsWrite
  <2>2. DOMAIN d.chunks = DOMAIN t
    BY <1>2, <1>5, <2>1
  <2>3. PICK S \in SUBSET Key : d.chunks \in [S -> Chunk]
    BY <1>1 DEF Document
  <2>4. d.chunks = [k \in DOMAIN t |-> [content |-> t[k], embedding |-> t[k]]]
    <3>1. \A k \in DOMAIN t : d.chunks[k] = [content |-> t[k], embedding |-> t[k]]
      BY <1>5, <2>1
    <3>2. d.chunks = [k \in DOMAIN t |-> d.chunks[k]]
      BY <2>2, <2>3
    <3> QED  BY <3>1, <3>2
  <2>5. d = [text |-> d.text, chunks |-> d.chunks]
    BY <1>1 DEF Document
  <2>6. corpus'[c] = d
    BY <1>4, <1>7
  <2> QED  BY <1>4, <2>1, <2>4, <2>5, <2>6 DEF Synced
<1> QED  BY <1>6, <1>7
----------------------------------------------------------------------------
(* Snapshots *)

(* Nobody takes a new snapshot of c and nothing is stored for it. *)
LEMMA SnapshotsStay ==
  ASSUME NEW c \in Conv, Snapshots(c),
         \A w \in Worker : hand'[w].conv = c => hand'[w] = hand[w],
         corpus'[c] = corpus[c], messages'[c] = messages[c]
  PROVE  Snapshots(c)'
BY DEF Snapshots, Exact, Current, Stale

LEMMA EmptyConv == Empty.conv = None /\ Sweeping.conv = None /\ Empty.at = "out" /\ Sweeping.at = "sweep"
BY DEF Empty, Sweeping

(* What one hand that is emptied leaves of the snapshots of c. *)
LEMMA HandEmptied ==
  ASSUME TypeInv, NEW w \in Worker, NEW c \in Conv,
         hand' \in {[hand EXCEPT ![w] = Empty], [hand EXCEPT ![w] = Sweeping]}
  PROVE  /\ hand'[w].conv = None /\ None # c
         /\ \A v \in Worker \ {w} : hand'[v] = hand[v]
         /\ \A v \in Worker : hand'[v].conv = c => hand'[v] = hand[v] /\ v # w
<1>1. hand \in [Worker -> Hand] /\ None # c
  BY ConvAssumption DEF TypeInv, TypeOK
<1>2. hand'[w] \in {Empty, Sweeping} /\ \A v \in Worker \ {w} : hand'[v] = hand[v]
  BY <1>1
<1> QED  BY <1>1, <1>2, EmptyConv

LEMMA PersistSnapshots ==
  ASSUME TypeInv, NEW w \in Worker, Persist(w), NEW c \in Conv, Snapshots(c)
  PROVE  Snapshots(c)'
<1> DEFINE h == hand[w]
<1>1. h.conv \in Conv /\ messages' = messages /\ corpus \in [Conv -> Document]
  BY InHand DEF Persist, InHandler, worldVars, TypeInv, TypeOK
<1>2. hand' \in {[hand EXCEPT ![w] = Empty], [hand EXCEPT ![w] = Sweeping]}
  BY DEF Persist, Leave
<1>3. CASE h.conv = c
  <2>1. \A v \in Worker : hand'[v].conv # c
    BY <1>2, <1>3, HandEmptied DEF Snapshots
  <2>2. messages[c] # << >>
    BY <1>3 DEF Snapshots
  <2> QED  BY <1>1, <2>1, <2>2 DEF Snapshots, Exact
<1>4. CASE h.conv # c
  <2>1. \/ corpus' = corpus
        \/ corpus' = [corpus EXCEPT ![h.conv] =
               [text |-> h.text, chunks |-> Written(corpus[h.conv].chunks, h)]]
    BY DEF Persist
  <2>2. corpus'[c] = corpus[c]
    <3> HIDE DEF h
    <3> QED  BY <1>1, <1>4, <2>1
  <2> QED  BY <1>1, <1>2, <2>2, HandEmptied, SnapshotsStay
<1> QED  BY <1>3, <1>4

LEMMA SweptCorpus ==
  ASSUME TypeInv, NEW w \in Worker, Sweep(w), NEW c \in Conv
  PROVE  \/ corpus'[c] = corpus[c]
         \/ messages[c] = << >> /\ corpus'[c].chunks = NoChunks
<1> DEFINE d == corpus[c]
           swept == [d EXCEPT !.chunks = NoChunks]
<1>1. corpus'[c] = d \/ (messages[c] = << >> /\ corpus'[c] = swept)
  BY DEF Sweep
<1>2. d \in Document
  BY DEF TypeInv, TypeOK
<1> HIDE DEF d
<1>3. swept.chunks = NoChunks
  BY <1>2 DEF Document
<1> QED  BY <1>1, <1>3 DEF d

LEMMA SweepSnapshots ==
  ASSUME TypeInv, NEW w \in Worker, Sweep(w), NEW c \in Conv, Snapshots(c)
  PROVE  Snapshots(c)'
<1>1. messages' = messages /\ hand' = [hand EXCEPT ![w] = Empty]
  BY DEF Sweep, worldVars, Leave
<1>2. CASE corpus'[c] = corpus[c]
  BY <1>1, <1>2, HandEmptied, SnapshotsStay
<1>3. CASE messages[c] = << >> /\ corpus'[c].chunks = NoChunks
  <2>1. \A v \in Worker : hand'[v].conv # c
    BY <1>1, <1>3, HandEmptied DEF Snapshots
  <2>2. Current(c)'
    BY <1>1, <1>3 DEF Current
  <2> QED  BY <1>1, <2>1, <2>2 DEF Snapshots, Exact
<1> QED  BY <1>2, <1>3, SweptCorpus

LEMMA PrepareSnapshots ==
  ASSUME TypeInv, NEW w \in Worker, Prepare(w), NEW c \in Conv \ excused', Snapshots(c)
  PROVE  Snapshots(c)'
<1>1. messages' = messages /\ corpus' = corpus /\ hand \in [Worker -> Hand]
      /\ worker[w].pc = "handler"
  BY Prepares DEF TypeInv, TypeOK
<1>2. CASE hand' = [hand EXCEPT ![w] = Sweeping]
  BY <1>1, <1>2, HandEmptied, SnapshotsStay
<1>3. CASE /\ Found(w) # {} /\ messages[First(Found(w))] # << >>
           /\ hand' = [hand EXCEPT ![w] = Snapshot(w)]
           /\ excused' = IF HeldByOther(w, First(Found(w)))
                           THEN excused \cup {First(Found(w))} ELSE excused
  <2> DEFINE h == Snapshot(w)
  <2>1. h.conv = First(Found(w)) /\ h.text = messages[h.conv]
        /\ Exact(h, h.conv)
    BY DEF Snapshot, Exact
  <2>2. hand'[w] = h /\ \A v \in Worker \ {w} : hand'[v] = hand[v]
    BY <1>1, <1>3
  <2> HIDE DEF h
  <2>3. CASE h.conv = c
    <3>1. \A v \in Worker \ {w} : hand'[v].conv # c
      BY <1>3, <2>1, <2>2, <2>3 DEF HeldByOther
    <3>2. messages[c] # << >>
      BY <1>3, <2>1, <2>3
    <3>3. \A v \in Worker : Exact(hand'[v], c)
      BY <2>1, <2>2, <2>3, <3>1 DEF Exact
    <3>4. \A v \in Worker : Exact(hand[v], c)'
      BY <1>1, <3>3 DEF Exact
    <3> QED  BY <1>1, <3>1, <3>2, <3>4 DEF Snapshots
  <2>4. CASE h.conv # c
    BY <1>1, <2>2, <2>4, SnapshotsStay
  <2> QED  BY <2>3, <2>4
<1> QED  BY <1>2, <1>3, Prepares

LEMMA InsertSnapshots ==
  ASSUME TypeInv, InsertMessages, NEW c \in Conv, Snapshots(c)
  PROVE  Snapshots(c)'
<1>1. hand' = hand /\ corpus' = corpus
  BY DEF InsertMessages
<1>2. CASE messages'[c] = messages[c]
  BY <1>1, <1>2, SnapshotsStay
<1>3. CASE messages'[c] # messages[c]
  <2>1. Len(messages'[c]) >= Len(messages[c]) /\ messages'[c] \in Text
    BY <1>3 DEF InsertMessages, Extends
  <2>2. messages[c] \in Seq(Content) /\ messages'[c] \in Seq(Content)
    BY <2>1, TextShape DEF TypeInv, TypeOK
  <2>3. messages'[c] # << >>
    <3>1. SUFFICES ASSUME messages'[c] = << >>
                   PROVE  messages[c] = << >>
      BY <1>3
    <3>2. Len(messages'[c]) = 0 /\ Len(messages[c]) \in Nat
      BY <2>2, <3>1
    <3>3. Len(messages[c]) = 0
      BY <2>1, <3>2
    <3> QED  BY <2>2, <3>3
  <2> QED  BY <1>1, <2>3 DEF Snapshots, Exact
<1> QED  BY <1>2, <1>3

(* An unnoticed change is of an excused conversation. *)
LEMMA ChangeOther ==
  ASSUME TypeInv, NEW d \in Conv, ChangeUnnoticed(d), NEW c \in Conv \ excused'
  PROVE  messages'[c] = messages[c]
BY DEF ChangeUnnoticed, TypeInv, TypeOK

LEMMA SnapshotsNext ==
  ASSUME TypeInv, [Next]_vars, NEW c \in Conv \ excused', Snapshots(c)
  PROVE  Snapshots(c)'
<1>1. CASE UNCHANGED <<hand, corpus, messages>>
  BY <1>1, SnapshotsStay
<1>2. ASSUME NEW r \in Request, Look(r) \/ Merge(r) \/ EnqueueDirty(r) \/ IngestFails(r)
      PROVE  UNCHANGED <<hand, corpus, messages>>
  BY <1>2 DEF Look, Merge, EnqueueDirty, IngestFails
<1>3. ASSUME NEW j \in Job, Expire(j) \/ Forget(j)
      PROVE  UNCHANGED <<hand, corpus, messages>>
  BY <1>3 DEF Expire, Forget, worldVars
<1>4. CASE EnsureReconcile \/ Tick \/ UNCHANGED vars
  BY <1>1, <1>4 DEF EnsureReconcile, Tick, vars, worldVars
<1>5. ASSUME NEW d \in Conv, ChangeUnnoticed(d)
      PROVE  Snapshots(c)'
  BY <1>5, ChangeOther, SnapshotsStay DEF ChangeUnnoticed
<1>6. ASSUME NEW w \in Worker, Throw(w) \/ Dies(w)
      PROVE  Snapshots(c)'
  <2>1. hand' = [hand EXCEPT ![w] = Empty] /\ corpus' = corpus /\ messages' = messages
    BY <1>6 DEF Throw, Dies, Leave, worldVars
  <2> QED  BY <2>1, HandEmptied, SnapshotsStay
<1>7. ASSUME NEW w \in Worker, RunsOut(w)
      PROVE  UNCHANGED <<hand, corpus, messages>>
  BY <1>7 DEF RunsOut, worldVars
<1>8. ASSUME NEW w \in Worker, Work(w) \/ HandlerFails(w)
      PROVE  Snapshots(c)'
  <2>1. CASE RuntimeStep(w) /\ UNCHANGED <<worldVars, events, corpus, hand>>
    BY <1>1, <2>1 DEF worldVars
  <2>2. CASE PersistClashes(w) \/ HandlerFails(w)
    BY <1>6, <2>2 DEF PersistClashes, HandlerFails
  <2> QED  BY <1>8, <2>1, <2>2, PrepareSnapshots, PersistSnapshots, SweepSnapshots
           DEF Work, Handler
<1> QED  BY <1>1, <1>2, <1>3, <1>4, <1>5, <1>6, <1>7, <1>8, InsertSnapshots DEF Next
----------------------------------------------------------------------------
(* What accounts for a change *)

LEMMA KeptStays ==
  ASSUME NEW c \in Conv, Kept(c), Current(c)', messages'[c] = messages[c],
         \A w \in Worker : hand'[w].conv = c =>
           hand'[w] = hand[w] \/ hand'[w].text = messages[c]
  PROVE  Kept(c)'
BY DEF Kept, Stale

LEMMA CurrentStays ==
  ASSUME NEW c \in Conv, Current(c), messages'[c] = messages[c], corpus'[c] = corpus[c]
  PROVE  Current(c)'
BY DEF Current

LEMMA PendingStays ==
  ASSUME NEW c \in Conv, Pending(c),
         \A r \in Request : c \in ingest[r].batch => c \in ingest'[r].batch
  PROVE  Pending(c)'
BY DEF Pending

(* Calls and hands stay, and the row still covers c. *)
LEMMA CoversStay ==
  ASSUME NEW c \in Conv, NEW j \in Job, Covers(j, c), UNCHANGED <<worker, hand>>,
         messages'[c] = messages[c], RowCovers(job'[j], c)
  PROVE  Covers(j, c)'
<1>1. ASSUME NEW w \in Worker, Passed(worker[w], hand[w], c)'
      PROVE  Passed(worker[w], hand[w], c)
  BY <1>1 DEF Passed, Stale
<1> QED  BY <1>1 DEF Covers, RowCovers

(* One call moves, and the row still covers c. *)
LEMMA CoversMove ==
  ASSUME TypeInv, NEW c \in Conv, NEW j \in Job, Covers(j, c), NEW w \in Worker,
         \A v \in Worker \ {w} : worker'[v] = worker[v] /\ hand'[v] = hand[v],
         messages'[c] = messages[c], RowCovers(job'[j], c),
         worker'[w].id = j => ~Passed(worker[w], hand[w], c)'
  PROVE  Covers(j, c)'
<1>1. ASSUME NEW v \in Worker \ {w}, Passed(worker[v], hand[v], c)'
      PROVE  Passed(worker[v], hand[v], c)
  BY <1>1 DEF Passed, Stale
<1>2. \A v \in Worker : worker'[v].id = j => ~Passed(worker[v], hand[v], c)'
  BY <1>1 DEF Covers
<1> QED  BY <1>2 DEF Covers, RowCovers

(* A new row covers what it was enqueued with. *)
LEMMA NewCovers ==
  ASSUME TypeInv, NEW c \in Conv, NEW j \in Job, ~WorkedOn(j), UNCHANGED <<worker, hand>>,
         RowCovers(job'[j], c)
  PROVE  Covers(j, c)'
BY DEF Covers, RowCovers, WorkedOn

LEMMA InsertAccounts ==
  ASSUME TypeInv, InsertMessages, NEW c \in Conv, Accounted(c)
  PROVE  Accounted(c)'
<1> DEFINE changed == {d \in Conv : messages'[d] # messages[d]}
           i == [Quiet EXCEPT !.at = "look", !.batch = changed]
<1>1. PICK r \in Request : ingest[r].at = "idle" /\ ingest' = [ingest EXCEPT ![r] = i]
  BY DEF InsertMessages
<1>2. i.batch = changed
  BY DEF Quiet
<1>3. ingest[r].batch = {} /\ ingest'[r] = i
      /\ \A q \in Request \ {r} : ingest'[q] = ingest[q]
  <2> HIDE DEF i
  <2> QED  BY <1>1 DEF TypeInv, TypeOK, RequestFits
<1>4. UNCHANGED <<job, worker, corpus, hand>>
  BY DEF InsertMessages
<1>5. CASE c \in changed
  BY <1>2, <1>3, <1>5 DEF Accounted, Pending
<1>6. CASE messages'[c] = messages[c]
  <2> HIDE DEF i, changed
  <2>1. Pending(c) => Pending(c)'
    BY <1>3, PendingStays
  <2>2. ASSUME NEW j \in Job, Covers(j, c)
        PROVE  Covers(j, c)'
    <3>1. RowCovers(job'[j], c)
      BY <1>4, <2>2 DEF Covers
    <3> QED  BY <1>4, <1>6, <2>2, <3>1, CoversStay
  <2>3. Kept(c) => Kept(c)'
    BY <1>4, <1>6, CurrentStays, KeptStays DEF Kept
  <2> QED  BY <2>1, <2>2, <2>3 DEF Accounted
<1> QED  BY <1>5, <1>6

(* The steps that change rows at most, or requests. *)
LEMMA RowsAccount ==
  ASSUME TypeInv, NEW c \in Conv, Accounted(c), UNCHANGED <<worker, hand, corpus>>,
         messages'[c] = messages[c],
         Pending(c) => Accounted(c)',
         \A j \in Job : RowCovers(job[j], c) => RowCovers(job'[j], c)
  PROVE  Accounted(c)'
<1>1. ASSUME NEW j \in Job, Covers(j, c)
      PROVE  Covers(j, c)'
  <2>1. RowCovers(job'[j], c)
    BY <1>1 DEF Covers
  <2> QED  BY <1>1, <2>1, CoversStay
<1>2. Kept(c) => Kept(c)'
  BY CurrentStays, KeptStays DEF Kept
<1> QED  BY <1>1, <1>2 DEF Accounted

LEMMA MergeAccounts ==
  ASSUME TypeInv, NEW r \in Request, Merge(r), NEW c \in Conv, Accounted(c)
  PROVE  Accounted(c)'
<1>1. /\ ingest[r].at = "merge" /\ ingest \in [Request -> Ingest]
      /\ UNCHANGED <<worker, hand, corpus, messages>>
  BY DEF Merge, TypeInv, TypeOK
<1>2. CASE MergeInto(r) /\ job[ingest[r].found].status = "queued"
           /\ job[ingest[r].found].cursor = ingest[r].read
  <2>1. PICK j \in Job, row \in JobRow :
           /\ ~WorkedOn(j)
           /\ job' = [job EXCEPT ![j] = row]
           /\ row.status = "queued" /\ row.ref = Dirty
           /\ row.cursor.left = job[j].cursor.left \cup ingest[r].batch
    BY <1>1, <1>2, Merged
  <2>2. job'[j] = row /\ \A i \in Job \ {j} : job'[i] = job[i]
    BY <2>1 DEF TypeInv, TypeOK, RuntimeTypeOK
  <2>3. \A i \in Job : RowCovers(job[i], c) => RowCovers(job'[i], c)
    BY <2>1, <2>2 DEF RowCovers
  <2>4. ASSUME Pending(c)
        PROVE  Accounted(c)'
    <3>1. CASE c \in ingest[r].batch
      <4>1. Covers(j, c)'
        BY <1>1, <2>1, <2>2, <3>1, NewCovers DEF RowCovers
      <4> QED  BY <4>1 DEF Accounted
    <3>2. CASE c \notin ingest[r].batch
      <4>1. ingest' = [ingest EXCEPT ![r] = Quiet]
        BY <1>2 DEF MergeInto
      <4>2. Pending(c)'
        BY <1>1, <2>4, <3>2, <4>1 DEF Pending
      <4> QED  BY <4>2 DEF Accounted
    <3> QED  BY <3>1, <3>2
  <2> QED  BY <1>1, <2>3, <2>4, RowsAccount
<1>3. CASE ingest' = [ingest EXCEPT ![r].at = "enqueue"] /\ UNCHANGED job
  <2>1. \A q \in Request : ingest'[q].batch = ingest[q].batch
    BY <1>1, <1>3 DEF Ingest
  <2>2. Pending(c) => Accounted(c)'
    BY <2>1, PendingStays DEF Accounted
  <2> QED  BY <1>1, <1>3, <2>2, RowsAccount
<1> QED  BY <1>2, <1>3 DEF Merge

LEMMA LookAccounts ==
  ASSUME TypeInv, NEW r \in Request, Look(r), NEW c \in Conv, Accounted(c)
  PROVE  Accounted(c)'
<1>1. \A q \in Request : ingest'[q].batch = ingest[q].batch
  <2>1. ingest \in [Request -> Ingest]
    BY DEF TypeInv, TypeOK
  <2>2. CASE ingest' = [ingest EXCEPT ![r].at = "enqueue"]
    BY <2>1, <2>2 DEF Ingest
  <2>3. ASSUME NEW j \in Job,
               ingest' = [ingest EXCEPT ![r].at = "merge", ![r].found = j,
                                        ![r].read = job[j].cursor]
        PROVE  \A q \in Request : ingest'[q].batch = ingest[q].batch
    BY <2>1, <2>3 DEF Ingest
  <2> QED  BY <2>2, <2>3 DEF Look, ActiveJobs
<1>2. Pending(c) => Accounted(c)'
  BY <1>1, PendingStays DEF Accounted
<1> QED  BY <1>2, RowsAccount DEF Look

(* What enqueueing leaves of the rows. *)
LEMMA EnqueuedRows ==
  ASSUME TypeInv, NEW ref, NEW kind, NEW left, Enqueue(ref, kind, left)
  PROVE  /\ \E j \in Job : /\ ~WorkedOn(j) /\ job'[j].status = "queued"
                           /\ job'[j].ref = ref /\ job'[j].cursor.left = left
         /\ \A i \in Job, c \in Conv : RowCovers(job[i], c) => RowCovers(job'[i], c)
         /\ UNCHANGED worker
<1>1. PICK j \in Job : job[j].status = "absent"
        /\ EnqueueJob(j, ref, [kind |-> kind, left |-> left, failed |-> FALSE])
  BY DEF Enqueue
<1>2. ~WorkedOn(j)
  BY <1>1, WorkedOnStarted DEF Started
<1>3. /\ job'[j].status = "queued" /\ job'[j].ref = ref /\ job'[j].cursor.left = left
      /\ \A i \in Job \ {j} : job'[i] = job[i]
      /\ UNCHANGED worker
  BY <1>1 DEF EnqueueJob, TypeInv, TypeOK, RuntimeTypeOK
<1> QED  BY <1>1, <1>2, <1>3 DEF RowCovers

LEMMA EnqueueDirtyAccounts ==
  ASSUME TypeInv, NEW r \in Request, EnqueueDirty(r), NEW c \in Conv, Accounted(c)
  PROVE  Accounted(c)'
<1>1. /\ Enqueue(Dirty, "dirty", ingest[r].batch)
      /\ ingest' = [ingest EXCEPT ![r] = Quiet] /\ ingest \in [Request -> Ingest]
      /\ UNCHANGED <<hand, corpus, messages>>
  BY DEF EnqueueDirty, TypeInv, TypeOK
<1>2. ASSUME Pending(c)
      PROVE  Accounted(c)'
  <2>1. CASE c \in ingest[r].batch
    <3>1. PICK j \in Job : /\ ~WorkedOn(j) /\ job'[j].status = "queued"
                           /\ job'[j].ref = Dirty /\ job'[j].cursor.left = ingest[r].batch
      BY <1>1, EnqueuedRows
    <3>2. Covers(j, c)'
      BY <1>1, <2>1, <3>1, EnqueuedRows, NewCovers DEF RowCovers
    <3> QED  BY <3>2 DEF Accounted
  <2>2. CASE c \notin ingest[r].batch
    <3>1. Pending(c)'
      BY <1>1, <1>2, <2>2 DEF Pending
    <3> QED  BY <3>1 DEF Accounted
  <2> QED  BY <2>1, <2>2
<1> QED  BY <1>1, <1>2, EnqueuedRows, RowsAccount

LEMMA IngestFailsAccounts ==
  ASSUME TypeInv, NEW r \in Request, IngestFails(r), NEW c \in Conv \ excused', Accounted(c)
  PROVE  Accounted(c)'
<1>1. c \notin ingest[r].batch /\ ingest' = [ingest EXCEPT ![r] = Quiet]
      /\ ingest \in [Request -> Ingest]
  BY DEF IngestFails, TypeInv, TypeOK
<1>2. Pending(c) => Pending(c)'
  BY <1>1 DEF Pending
<1>3. Pending(c) => Accounted(c)'
  BY <1>2 DEF Accounted
<1> QED  BY <1>3, RowsAccount DEF IngestFails

LEMMA ChangeAccounts ==
  ASSUME TypeInv, NEW d \in Conv, ChangeUnnoticed(d), NEW c \in Conv \ excused', Accounted(c)
  PROVE  Accounted(c)'
<1>1. messages'[c] = messages[c]
  BY ChangeOther
<1>2. Pending(c) => Accounted(c)'
  BY PendingStays DEF ChangeUnnoticed, Accounted
<1> QED  BY <1>1, <1>2, RowsAccount DEF ChangeUnnoticed

LEMMA EnsureAccounts ==
  ASSUME TypeInv, EnsureReconcile, NEW c \in Conv, Accounted(c)
  PROVE  Accounted(c)'
<1>1. Enqueue(Reconcile, "reconcile", Conv) /\ UNCHANGED <<hand, corpus, messages, ingest>>
  BY DEF EnsureReconcile, worldVars
<1>2. Pending(c) => Accounted(c)'
  BY <1>1, PendingStays DEF Accounted
<1> QED  BY <1>1, <1>2, EnqueuedRows, RowsAccount

LEMMA RowAccounts ==
  ASSUME TypeInv, NEW j \in Job, Expire(j) \/ Forget(j), NEW c \in Conv, Accounted(c)
  PROVE  Accounted(c)'
<1>1. UNCHANGED <<hand, worker, corpus, messages, ingest>>
  BY DEF Expire, LeaseExpires, Forget, worldVars
<1>2. \A i \in Job : RowCovers(job[i], c) => RowCovers(job'[i], c)
  BY DEF Expire, LeaseExpires, Forget, RowCovers, TypeInv, TypeOK, RuntimeTypeOK, JobRow
<1>3. Pending(c) => Accounted(c)'
  BY <1>1, PendingStays DEF Accounted
<1> QED  BY <1>1, <1>2, <1>3, RowsAccount

(* The steps of one call. *)
LEMMA CallAccounts ==
  ASSUME TypeInv, NEW w \in Worker, NEW c \in Conv, Accounted(c),
         \A v \in Worker \ {w} : worker'[v] = worker[v] /\ hand'[v] = hand[v],
         messages'[c] = messages[c], ingest' = ingest,
         \A j \in Job : Covers(j, c) =>
           \/ Kept(c)'
           \/ /\ RowCovers(job'[j], c)
              /\ worker'[w].id = j => ~Passed(worker[w], hand[w], c)',
         Kept(c) => Kept(c)'
  PROVE  Accounted(c)'
<1>1. Pending(c) => Pending(c)'
  BY PendingStays
<1>2. ASSUME NEW j \in Job, Covers(j, c)
      PROVE  Kept(c)' \/ Covers(j, c)'
  BY <1>2, CoversMove
<1> QED  BY <1>1, <1>2 DEF Accounted

(* Hands and documents stay. *)
LEMMA KeptAnyway ==
  ASSUME NEW c \in Conv, Kept(c), UNCHANGED <<hand, corpus, messages>>
  PROVE  Kept(c)'
BY CurrentStays, KeptStays DEF Kept

LEMMA TickAccounts ==
  ASSUME TypeInv, Tick, NEW c \in Conv, Accounted(c)
  PROVE  Accounted(c)'
<1>1. PICK w \in Worker, j \in Job : Claim(w, j)
  BY DEF Tick
<1> DEFINE b == [Parked EXCEPT !.pc = "loop", !.id = j]
<1>2. b.pc = "loop"
  BY DEF Parked
<1>3. worker' = [worker EXCEPT ![w] = b] /\ worker \in [Worker -> Call]
  BY <1>1 DEF Claim, TypeInv, TypeOK, RuntimeTypeOK
<1> HIDE DEF b
<1>4. worker'[w].pc = "loop" /\ \A v \in Worker \ {w} : worker'[v] = worker[v]
  BY <1>2, <1>3
<1>5. ~Passed(worker[w], hand[w], c)'
  BY <1>4 DEF Passed
<1>6. \A i \in Job : RowCovers(job[i], c) => RowCovers(job'[i], c)
  BY <1>1 DEF Claim, RowCovers, TypeInv, TypeOK, RuntimeTypeOK, JobRow
<1>7. UNCHANGED <<hand, corpus, messages, ingest>>
  BY DEF Tick, worldVars
<1> QED  BY <1>4, <1>5, <1>6, <1>7, KeptAnyway, CallAccounts DEF Covers

LEMMA StartsAccounts ==
  ASSUME TypeInv, NEW w \in Worker, HandlerStarts(w), NEW c \in Conv, Accounted(c),
         UNCHANGED <<hand, corpus, messages, ingest>>
  PROVE  Accounted(c)'
<1> DEFINE old == worker[w]
           b == [old EXCEPT !.pc = "handler", !.cursor = job[old.id].cursor]
<1>1. /\ worker' = [worker EXCEPT ![w] = b] /\ job' = job
      /\ worker \in [Worker -> Call] /\ old \in Call
      /\ old.pc = "loop"
  BY DEF HandlerStarts, TypeInv, TypeOK, RuntimeTypeOK
<1>2. hand[w].at = "out" /\ hand[w].conv = None /\ None # c
  BY <1>1, ConvAssumption DEF TypeInv, TypeOK, CallFits, Hand
<1> HIDE DEF old
<1>3. b.pc = "handler" /\ b.cursor = job[b.id].cursor
  BY <1>1 DEF Call
<1> HIDE DEF b
<1>4. worker'[w] = b /\ \A v \in Worker \ {w} : worker'[v] = worker[v]
  BY <1>1
<1>5. ASSUME NEW j \in Job, Covers(j, c), worker'[w].id = j
      PROVE  ~Passed(worker[w], hand[w], c)'
  <2>1. c \in b.cursor.left
    BY <1>3, <1>4, <1>5 DEF Covers, RowCovers
  <2> QED  BY <1>2, <1>3, <1>4, <2>1 DEF Passed, Stale
<1> QED  BY <1>1, <1>4, <1>5, KeptAnyway, CallAccounts DEF Covers

(* A call that parks, or dies with what it had in hand. *)
LEMMA ParkAccounts ==
  ASSUME TypeInv, NEW w \in Worker, worker' = [worker EXCEPT ![w] = Parked],
         hand' = hand \/ hand' = [hand EXCEPT ![w] = Empty],
         NEW c \in Conv, Accounted(c), UNCHANGED <<job, corpus, messages, ingest>>
  PROVE  Accounted(c)'
<1>1. worker'[w] = Parked /\ \A v \in Worker \ {w} : worker'[v] = worker[v]
  BY DEF TypeInv, TypeOK, RuntimeTypeOK
<1>2. \A v \in Worker \ {w} : hand'[v] = hand[v]
  BY HandEmptied
<1>3. ~Passed(worker[w], hand[w], c)'
  BY <1>1, ParkedCall DEF Passed
<1>4. Kept(c) => Kept(c)'
  BY HandEmptied, KeptAnyway, CurrentStays, KeptStays DEF Kept
<1> QED  BY <1>1, <1>2, <1>3, <1>4, CallAccounts DEF Covers

LEMMA ProgressAccounts ==
  ASSUME TypeInv, NEW w \in Worker, PersistProgress(w), NEW c \in Conv, Accounted(c),
         UNCHANGED <<hand, corpus, messages, ingest>>
  PROVE  Accounted(c)'
<1> DEFINE old == worker[w]
           b == [old EXCEPT !.pc = "loop", !.cursor = None]
           was == job[old.id]
           row == [was EXCEPT !.cursor = old.cursor, !.lease = "held"]
<1>1. /\ worker' = [worker EXCEPT ![w] = b] /\ job' = [job EXCEPT ![old.id] = row]
      /\ worker \in [Worker -> Call] /\ job \in [Job -> JobRow]
      /\ old.pc = "result" /\ old.result = "more"
  BY DEF PersistProgress, TypeInv, TypeOK, RuntimeTypeOK
<1>2. old \in Call /\ old.id \in Job /\ was \in JobRow
  BY <1>1, AtWork
<1>3. was = job[old.id]
  OBVIOUS
<1>4. old = worker[w]
  OBVIOUS
<1> HIDE DEF old, was
<1>5. /\ b.pc = "loop" /\ row.status = was.status /\ row.ref = was.ref
      /\ row.cursor = old.cursor
  BY <1>2 DEF Call, JobRow
<1> HIDE DEF b, row
<1>6. worker'[w].pc = "loop" /\ \A v \in Worker \ {w} : worker'[v] = worker[v]
  BY <1>1, <1>5
<1>7. job'[old.id] = row /\ \A i \in Job \ {old.id} : job'[i] = job[i]
  BY <1>1, <1>2
<1>8. ~Passed(worker[w], hand[w], c)'
  BY <1>6 DEF Passed
<1>9. ASSUME NEW j \in Job, Covers(j, c)
      PROVE  RowCovers(job'[j], c)
  <2>1. CASE j = old.id
    <3>1. ~Passed(old, hand[w], c)
      BY <1>4, <1>9, <2>1 DEF Covers
    <3>2. c \in old.cursor.left
      BY <1>1, <3>1 DEF Passed
    <3> QED  BY <1>3, <1>5, <1>7, <1>9, <2>1, <3>2 DEF Covers, RowCovers
  <2>2. CASE j # old.id
    BY <1>7, <1>9, <2>2 DEF Covers
  <2> QED  BY <2>1, <2>2
<1> QED  BY <1>6, <1>8, <1>9, KeptAnyway, CallAccounts

LEMMA FinishAccounts ==
  ASSUME TypeInv, NEW w \in Worker, Finish(w), NEW c \in Conv, Accounted(c),
         UNCHANGED <<hand, corpus, messages, ingest>>
  PROVE  Accounted(c)'
<1>1. /\ worker' = [worker EXCEPT ![w] = Parked]
      /\ worker[w].pc = "result" /\ worker[w].result \in {"done", "failed"}
      /\ \A i \in Job \ {worker[w].id} : job'[i] = job[i]
  BY DEF Finish, TypeInv, TypeOK, RuntimeTypeOK
<1>2. worker'[w] = Parked /\ \A v \in Worker \ {w} : worker'[v] = worker[v]
  BY <1>1 DEF TypeInv, TypeOK, RuntimeTypeOK
<1>3. ~Passed(worker[w], hand[w], c)'
  BY <1>2, ParkedCall DEF Passed
<1>4. ASSUME NEW j \in Job, Covers(j, c)
      PROVE  RowCovers(job'[j], c)
  <2>1. Passed(worker[w], hand[w], c)
    BY <1>1 DEF Passed
  <2>2. worker[w].id # j
    BY <1>4, <2>1 DEF Covers
  <2> QED  BY <1>1, <1>4, <2>2 DEF Covers
<1> QED  BY <1>2, <1>3, <1>4, KeptAnyway, CallAccounts

LEMMA PrepareAccounts ==
  ASSUME TypeInv, NEW w \in Worker, Prepare(w), NEW c \in Conv \ Raw, Snapshots(c), Accounted(c)
  PROVE  Accounted(c)'
<1> DEFINE left == worker[w].cursor.left
<1>1. /\ UNCHANGED <<job, worker, corpus, messages, ingest>> /\ hand \in [Worker -> Hand]
      /\ worker[w].pc = "handler" /\ None # c
  BY Prepares, ConvAssumption DEF TypeInv, TypeOK
<1>2. CASE /\ \/ Found(w) = {} \/ messages[First(Found(w))] = << >>
              \/ worker[w].cursor.kind = "dirty" /\ First(Found(w)) \in Raw
           /\ hand' = [hand EXCEPT ![w] = Sweeping]
  <2>1. /\ hand'[w] = Sweeping /\ Sweeping.conv = None
        /\ \A v \in Worker \ {w} : hand'[v] = hand[v]
    BY <1>1, <1>2, EmptyConv
  <2>2. Kept(c) => Kept(c)'
    BY <1>1, <1>2, HandEmptied, CurrentStays, KeptStays DEF Kept
  <2>3. ASSUME NEW j \in Job, Covers(j, c), worker[w].id = j
        PROVE  Kept(c)' \/ ~Passed(worker[w], hand[w], c)'
    <3>1. job[j].ref = Dirty
      BY <2>3 DEF Covers, RowCovers
    <3>2. worker[w].cursor.kind = "dirty"
      BY <1>1, <2>3, <3>1, InCall
    <3>3. c \in left
      BY <1>1, <2>3 DEF Covers, Passed
    <3>4. Found(w) = left
      BY <3>2 DEF Found
    <3>5. CASE c = First(left)
      <4>1. messages[c] = << >>
        BY <1>2, <3>3, <3>4, <3>5
      <4>2. Kept(c)
        BY <4>1 DEF Snapshots, Kept, Stale
      <4> QED  BY <2>2, <4>2
    <3>6. CASE c # First(left)
      BY <1>1, <2>1, <3>3, <3>6 DEF Passed, Stale
    <3> QED  BY <3>5, <3>6
  <2> QED  BY <1>1, <2>1, <2>2, <2>3, CallAccounts DEF Covers
<1>3. CASE hand' = [hand EXCEPT ![w] = Snapshot(w)]
  <2>1. Snapshot(w).text = messages[Snapshot(w).conv] /\ Snapshot(w).at = "persist"
    BY DEF Snapshot
  <2>2. hand'[w] = Snapshot(w) /\ \A v \in Worker \ {w} : hand'[v] = hand[v]
    BY <1>1, <1>3
  <2>3. Kept(c) => Kept(c)'
    BY <1>1, <2>1, <2>2, CurrentStays, KeptStays DEF Kept
  <2>4. ASSUME NEW j \in Job, Covers(j, c), worker[w].id = j
        PROVE  ~Passed(worker[w], hand[w], c)'
    <3>1. c \in left
      BY <1>1, <2>4 DEF Covers, Passed
    <3> QED  BY <1>1, <2>1, <2>2, <3>1 DEF Passed, Stale
  <2> QED  BY <1>1, <2>2, <2>3, <2>4, CallAccounts DEF Covers
<1> QED  BY <1>2, <1>3, Prepares

(* What a snapshot that is not stale brings up to date. *)
LEMMA PersistKeeps ==
  ASSUME TypeInv, EmbeddingsFit, NEW w \in Worker, Persist(w), NEW c \in Conv,
         Snapshots(c), hand[w].conv = c, ~Stale(hand[w], c)
  PROVE  Kept(c)'
<1>1. hand[w].text = messages[c] /\ messages' = messages /\ messages[c] # << >>
  BY InHand DEF Stale, Persist, InHandler, worldVars
<1>2. corpus'[c] = Synced(messages[c])
  BY <1>1, FreshPersist DEF Snapshots
<1>3. hand' \in {[hand EXCEPT ![w] = Empty], [hand EXCEPT ![w] = Sweeping]}
  BY DEF Persist, Leave
<1>4. \A v \in Worker : hand'[v].conv # c
  BY <1>3, HandEmptied DEF Snapshots
<1> QED  BY <1>1, <1>2, <1>4 DEF Kept, Current, Stale

LEMMA PersistAccounts ==
  ASSUME TypeInv, EmbeddingsFit, NEW w \in Worker, Persist(w), NEW c \in Conv,
         Snapshots(c), Accounted(c)
  PROVE  Accounted(c)'
<1> DEFINE h == hand[w]
           left == worker[w].cursor.left
<1>1. /\ h.conv \in Conv /\ corpus \in [Conv -> Document] /\ worker[w].pc = "handler"
      /\ h.at = "persist" /\ UNCHANGED <<job, messages, ingest>>
  BY InHand DEF Persist, InHandler, worldVars, TypeInv, TypeOK
<1>2. hand' \in {[hand EXCEPT ![w] = Empty], [hand EXCEPT ![w] = Sweeping]}
  BY DEF Persist, Leave
<1>3. /\ \A v \in Worker \ {w} : worker'[v] = worker[v] /\ hand'[v] = hand[v]
      /\ worker'[w].id = worker[w].id
  BY <1>2, HandEmptied DEF Persist, Paged, Returns, TypeInv, TypeOK, RuntimeTypeOK, Call
<1>4. Kept(c) => Kept(c)'
  <2>1. CASE h.conv = c
    BY <2>1, PersistKeeps DEF Kept
  <2>2. CASE h.conv # c
    <3>1. \/ corpus' = corpus
          \/ corpus' = [corpus EXCEPT ![h.conv] =
                 [text |-> h.text, chunks |-> Written(corpus[h.conv].chunks, h)]]
      BY DEF Persist
    <3>2. corpus'[c] = corpus[c]
      <4> HIDE DEF h
      <4> QED  BY <1>1, <2>2, <3>1
    <3> QED  BY <1>1, <1>2, <3>2, HandEmptied, CurrentStays, KeptStays DEF Kept
  <2> QED  BY <2>1, <2>2
<1>5. ASSUME NEW j \in Job, Covers(j, c), worker[w].id = j
      PROVE  Kept(c)' \/ ~Passed(worker[w], hand[w], c)'
  <2>1. ~Passed(worker[w], h, c) /\ job[j].ref = Dirty
    BY <1>5 DEF Covers, RowCovers
  <2>2. c \in left /\ ~Stale(h, c) /\ worker[w].cursor.kind = "dirty"
    BY <1>1, <1>5, <2>1, InCall DEF Passed
  <2>3. h.last /\ h.conv = First(left)
    BY <1>1, <2>2 DEF TypeInv, CallFits
  <2>4. CASE c = First(left)
    BY <2>2, <2>3, <2>4, PersistKeeps
  <2>5. CASE c # First(left)
    <3>1. worker'[w] = worker[w] /\ hand'[w].conv = None /\ None # c
      BY <1>2, <2>3, HandEmptied DEF Persist
    <3> QED  BY <1>1, <2>2, <2>5, <3>1 DEF Passed, Stale
  <2> QED  BY <2>4, <2>5
<1> QED  BY <1>1, <1>3, <1>4, <1>5, CallAccounts DEF Covers

(* Another conversation is still to be handled. *)
LEMMA HandledGoesOn ==
  ASSUME TypeInv, NEW w \in Worker, worker[w].pc = "handler", NEW failed \in BOOLEAN,
         Handled(w, failed), NEW c, c \in worker[w].cursor.left,
         c # First(worker[w].cursor.left)
  PROVE  /\ worker'[w].pc = "result" /\ worker'[w].result = "more"
         /\ c \in worker'[w].cursor.left
<1> DEFINE old == worker[w]
           left == old.cursor.left \ {First(old.cursor.left)}
           noted == old.cursor.failed \/ failed
           next == [old.cursor EXCEPT !.left = left, !.failed = noted]
           b == [old EXCEPT !.pc = "result", !.result = "more", !.cursor = next]
<1>1. c \in left
  OBVIOUS
<1>2. Returns(w, "more", next)
  BY <1>1 DEF Handled
<1>3. worker' = [worker EXCEPT ![w] = b] /\ worker \in [Worker -> Call]
  BY <1>2 DEF Returns, TypeInv, TypeOK, RuntimeTypeOK
<1>4. old \in Call /\ old.cursor \in Progress
  BY AtWork, InCall
<1> HIDE DEF old, left, noted
<1>5. next.left = left
  BY <1>4 DEF Progress
<1> HIDE DEF next
<1>6. b.pc = "result" /\ b.result = "more" /\ b.cursor = next
  BY <1>4 DEF Call
<1> HIDE DEF b
<1> QED  BY <1>1, <1>3, <1>5, <1>6

(* A step that leaves the handler with nothing in hand. *)
LEMMA LeaveAccounts ==
  ASSUME TypeInv, NEW w \in Worker, worker[w].pc = "handler", Leave(w), NEW c \in Conv,
         Accounted(c), UNCHANGED <<job, messages, ingest>>,
         Current(c) => Current(c)',
         NEW result, NEW cursor, NEW failed \in BOOLEAN,
         IF worker[w].cursor.kind = "dirty" THEN Handled(w, failed)
                                            ELSE Returns(w, result, cursor),
         worker[w].cursor.kind = "dirty" /\ c = First(worker[w].cursor.left) =>
           Passed(worker[w], hand[w], c)
  PROVE  Accounted(c)'
<1> DEFINE left == worker[w].cursor.left
<1>1. hand'[w].conv = None /\ None # c /\ \A v \in Worker \ {w} : hand'[v] = hand[v]
  BY HandEmptied DEF Leave
<1>2. /\ \A v \in Worker \ {w} : worker'[v] = worker[v]
      /\ worker'[w].id = worker[w].id
  BY DEF Handled, Returns, TypeInv, TypeOK, RuntimeTypeOK, Call
<1>3. Kept(c) => Kept(c)'
  BY HandEmptied, KeptStays DEF Kept, Leave
<1>4. ASSUME NEW j \in Job, Covers(j, c), worker[w].id = j
      PROVE  ~Passed(worker[w], hand[w], c)'
  <2>1. ~Passed(worker[w], hand[w], c) /\ job[j].ref = Dirty
    BY <1>4 DEF Covers, RowCovers
  <2>2. c \in left /\ worker[w].cursor.kind = "dirty"
    BY <1>4, <2>1, InCall DEF Passed
  <2>3. c # First(left) /\ Handled(w, failed)
    BY <2>1, <2>2
  <2>4. /\ worker'[w].pc = "result" /\ worker'[w].result = "more"
        /\ c \in worker'[w].cursor.left
    BY <2>2, <2>3, HandledGoesOn
  <2> QED  BY <2>4 DEF Passed
<1> QED  BY <1>1, <1>2, <1>3, <1>4, CallAccounts DEF Covers

LEMMA SweepAccounts ==
  ASSUME TypeInv, NEW w \in Worker, Sweep(w), NEW c \in Conv, Accounted(c)
  PROVE  Accounted(c)'
<1>1. /\ worker[w].pc = "handler" /\ hand[w].at = "sweep" /\ hand[w].last /\ Leave(w)
      /\ UNCHANGED <<job, messages, ingest>>
  BY DEF Sweep, InHandler, worldVars, TypeInv, CallFits
<1>2. Current(c) => Current(c)'
  BY <1>1, SweptCorpus DEF Current
<1>3. c = First(worker[w].cursor.left) => Passed(worker[w], hand[w], c)
  BY <1>1 DEF Passed
<1>4. IF worker[w].cursor.kind = "dirty" THEN Handled(w, FALSE)
                                          ELSE Returns(w, "done", None)
  BY <1>1 DEF Sweep, Paged
<1> QED  BY <1>1, <1>2, <1>3, <1>4, LeaveAccounts

LEMMA ThrowAccounts ==
  ASSUME TypeInv, NEW w \in Worker, worker[w].pc = "handler", Throw(w),
         NEW c \in Conv \ excused', Accounted(c)
  PROVE  Accounted(c)'
<1>1. Leave(w) /\ UNCHANGED <<job, messages, ingest, corpus>>
  BY DEF Throw
<1>2. Current(c) => Current(c)'
  BY <1>1, CurrentStays
<1>3. worker[w].cursor.kind = "dirty" => c # First(worker[w].cursor.left)
  BY DEF Throw
<1>4. IF worker[w].cursor.kind = "dirty" THEN Handled(w, TRUE)
                                          ELSE Returns(w, "failed", None)
  BY DEF Throw
<1> QED  BY <1>1, <1>2, <1>3, <1>4, LeaveAccounts

LEMMA AccountedNext ==
  ASSUME TypeInv, EmbeddingsFit, [Next]_vars, NEW c \in Conv \ (excused' \cup Raw),
         Snapshots(c), Accounted(c)
  PROVE  Accounted(c)'
<1>1. CASE UNCHANGED vars
  <2>1. UNCHANGED <<job, worker, hand, corpus, messages, ingest>>
    BY <1>1 DEF vars, worldVars
  <2>2. Pending(c) => Accounted(c)'
    BY <2>1, PendingStays DEF Accounted
  <2> QED  BY <2>1, <2>2, RowsAccount
<1>2. ASSUME NEW r \in Request, Look(r) \/ Merge(r) \/ EnqueueDirty(r) \/ IngestFails(r)
      PROVE  Accounted(c)'
  BY <1>2, LookAccounts, MergeAccounts, EnqueueDirtyAccounts, IngestFailsAccounts
<1>3. ASSUME NEW d \in Conv, ChangeUnnoticed(d)
      PROVE  Accounted(c)'
  BY <1>3, ChangeAccounts
<1>4. ASSUME NEW w \in Worker, RunsOut(w) \/ Dies(w)
      PROVE  Accounted(c)'
  BY <1>4, ParkAccounts DEF RunsOut, BudgetSpent, Dies, WorkerDies, Leave, worldVars
<1>5. ASSUME NEW w \in Worker, PersistClashes(w) \/ HandlerFails(w)
      PROVE  Accounted(c)'
  BY <1>5, ThrowAccounts DEF PersistClashes, HandlerFails, InHandler
<1>6. ASSUME NEW w \in Worker, Work(w)
      PROVE  Accounted(c)'
  <2>1. CASE RuntimeStep(w) /\ UNCHANGED <<worldVars, events, corpus, hand>>
    <3>1. UNCHANGED <<hand, corpus, messages, ingest>>
      BY <2>1 DEF worldVars
    <3>2. CASE SeesCancelled(w)
      BY <3>1, <3>2, ParkAccounts DEF SeesCancelled
    <3> QED  BY <2>1, <3>1, <3>2, StartsAccounts, ProgressAccounts, FinishAccounts
             DEF RuntimeStep
  <2> QED  BY <1>5, <1>6, <2>1, PrepareAccounts, PersistAccounts, SweepAccounts
           DEF Work, Handler
<1>7. ASSUME NEW j \in Job, Expire(j) \/ Forget(j)
      PROVE  Accounted(c)'
  BY <1>7, RowAccounts
<1> QED  BY <1>1, <1>2, <1>3, <1>4, <1>5, <1>6, <1>7, InsertAccounts, EnsureAccounts,
            TickAccounts DEF Next
----------------------------------------------------------------------------
(* What is excused stays excused. *)
LEMMA ExcusedGrows ==
  ASSUME TypeInv, [Next]_vars
  PROVE  excused \subseteq excused'
<1>1. ASSUME NEW r \in Request, Look(r) \/ Merge(r) \/ EnqueueDirty(r) \/ IngestFails(r)
      PROVE  excused \subseteq excused'
  BY <1>1 DEF Look, Merge, EnqueueDirty, IngestFails
<1>2. ASSUME NEW w \in Worker, PersistClashes(w) \/ HandlerFails(w)
      PROVE  excused \subseteq excused'
  BY <1>2 DEF PersistClashes, HandlerFails, Throw
<1>3. ASSUME NEW w \in Worker, Work(w) \/ RunsOut(w) \/ Dies(w)
      PROVE  excused \subseteq excused'
  <2>1. CASE Prepare(w)
    BY <2>1, Prepares
  <2>2. CASE Persist(w) \/ Sweep(w) \/ RunsOut(w) \/ Dies(w)
             \/ UNCHANGED <<worldVars, events, corpus, hand>>
    BY <2>2 DEF Persist, Sweep, RunsOut, Dies, worldVars
  <2> QED  BY <1>2, <1>3, <2>1, <2>2 DEF Work, Handler
<1>4. ASSUME NEW j \in Job, Expire(j) \/ Forget(j)
      PROVE  excused \subseteq excused'
  BY <1>4 DEF Expire, Forget, worldVars
<1>5. CASE InsertMessages \/ EnsureReconcile \/ Tick
           \/ (\E c \in Conv : ChangeUnnoticed(c)) \/ UNCHANGED vars
  BY <1>5 DEF InsertMessages, EnsureReconcile, Tick, ChangeUnnoticed, vars, worldVars
<1> QED  BY <1>1, <1>2, <1>3, <1>4, <1>5 DEF Next

LEMMA SecureInit ==
  ASSUME Init
  PROVE  Secure
<1>1. \A w \in Worker : hand[w].conv = None
  BY EmptyConv DEF Init
<1>2. ASSUME NEW c \in Conv
      PROVE  Snapshots(c) /\ Accounted(c)
  <2>1. None # c
    BY ConvAssumption
  <2>2. Current(c)
    BY DEF Init, Current, NoDocument
  <2> QED  BY <1>1, <2>1, <2>2 DEF Snapshots, Exact, Accounted, Kept, Stale
<1> QED  BY <1>2, TypeInit, EmbeddingsInit DEF Secure

LEMMA SecureNext ==
  ASSUME Secure, [Next]_vars
  PROVE  Secure'
<1>1. TypeInv' /\ EmbeddingsFit'
  BY TypeNext, EmbeddingsNext DEF Secure
<1>2. ASSUME NEW c \in Conv \ (excused' \cup Raw)
      PROVE  Snapshots(c)' /\ Accounted(c)'
  <2>1. c \in Conv \ (excused \cup Raw)
    BY ExcusedGrows DEF Secure
  <2> QED  BY <2>1, SnapshotsNext, AccountedNext DEF Secure
<1> QED  BY <1>1, <1>2 DEF Secure

(* No change of a conversation is forgotten, whatever claims, merges, late *)
(* workers, expired leases and crashes do: it is on its way into a job, in *)
(* an active job, or in the corpus; unless a statement failed or two       *)
(* workers synchronised the conversation at the same time, or its rows are *)
(* stored under names that a dirty key does not match.                     *)
THEOREM ChangesKept == Spec => []NoChangeForgotten
<1>1. Init => Secure
  BY SecureInit
<1>2. Secure /\ [Next]_vars => Secure'
  BY SecureNext
<1>3. Secure => NoChangeForgotten
  <2>1. ASSUME Secure, NEW c \in Conv \ (excused \cup Raw)
        PROVE  Current(c) \/ Pending(c) \/ Queued(c)
    <3>1. Accounted(c)
      BY <2>1 DEF Secure
    <3>2. ASSUME NEW j \in Job, Covers(j, c)
          PROVE  j \in ActiveJobs(Dirty) /\ c \in job[j].cursor.left
      BY <3>2 DEF Covers, RowCovers, ActiveJobs
    <3> QED  BY <3>1, <3>2 DEF Accounted, Kept, Queued
  <2> QED  BY <2>1 DEF NoChangeForgotten
<1> QED  BY <1>1, <1>2, <1>3, PTL DEF Spec
=============================================================================
