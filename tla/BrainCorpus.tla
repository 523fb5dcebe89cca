----------------------------- MODULE BrainCorpus -----------------------------
(***************************************************************************)
(* The brain corpus of one organisation: documents and embedded chunks     *)
(* that follow the messages of its conversations                           *)
(* (src/server/services/brain-corpus.service.ts), kept up to date by dirty *)
(* and reconcile jobs (brain-corpus-jobs.service.ts) on the job runtime.   *)
(*                                                                         *)
(* A conversation has one document (one month), a reconcile page one       *)
(* conversation, and embeddings are stored beside the chunks.  The text of *)
(* a conversation is the sequence of the chunks it is cut into, the        *)
(* contact it is rendered with included.  Each transaction is a step; the  *)
(* embedding call is the time between Prepare and Persist.                 *)
(***************************************************************************)
EXTENDS BgJobs, Sequences

CONSTANTS
  Conv,       \* conversations
  Order,      \* Order[c]: place in the scan order
  Texts,      \* Texts[c]: what c may read as; << >> without messages
  Start,      \* Start[c]: what c reads as at first, and is stored as
  Raw,        \* conversations whose rows name channel or account unnormalized
  Request,    \* calls of insertMessages under way at the same time
  Dirty, Reconcile,  \* DIRTY_REF and RECONCILE_REF
  MaxEvents   \* bound: changes of messages, failures, crashes, lost leases

Progress == [kind : {"dirty", "reconcile"}, left : SUBSET Conv, failed : BOOLEAN]

Text == UNION {Texts[c] : c \in Conv}

Content == UNION {{t[k] : k \in DOMAIN t} : t \in Text}

ASSUME ConvAssumption ==
  /\ IsFiniteSet(Conv) /\ None \notin Conv
  /\ Order \in [Conv -> Nat]
  /\ \A c, d \in Conv : Order[c] = Order[d] => c = d
  /\ Raw \subseteq Conv
ASSUME TextAssumption ==
  /\ \A c \in Conv : Texts[c] \subseteq Seq(Content) /\ Start[c] \in Texts[c]
  /\ Start \in [Conv -> Text]
  /\ None \notin Text /\ None \notin Content
  /\ MaxEvents \in Nat
ASSUME JobAssumption ==
  /\ Cursor = Progress
  /\ Ref = {Dirty, Reconcile} /\ Dirty # Reconcile

VARIABLES
  messages,  \* the text each conversation has now
  corpus,    \* the knowledge document of each conversation, and its chunks
  hand,      \* what each worker's handler has read and found
  ingest,    \* progress of each call of insertMessages
  excused,   \* history: a sync of the conversation failed, or two overlapped
  events     \* how many bounded events there were

worldVars == <<messages, ingest, excused>>

vars == <<job, worker, worldVars, corpus, hand, events>>

Key == UNION {DOMAIN t : t \in Text}

Chunk == [content : Content, embedding : Content \cup {None}]

NoChunks == [k \in {} |-> None]

(* text: what the document was last written from, None without a document. *)
Document == [text : Text \cup {None}, chunks : UNION {[S -> Chunk] : S \in SUBSET Key}]

NoDocument == [text |-> None, chunks |-> NoChunks]

(* The document of a text: every chunk stored and embedded. *)
Synced(text) ==
  [text |-> text,
   chunks |-> [k \in DOMAIN text |-> [content |-> text[k], embedding |-> text[k]]]]

(* The snapshot of a conversation (conv, text), whether the scan ends with *)
(* it (last), and what it differs in from what was stored: no document     *)
(* (new), its text (doc), chunks to embed (changed) and to delete (stale). *)
Hand == [at : {"out", "persist", "sweep"}, conv : Conv \cup {None},
         text : Text \cup {<< >>}, last : BOOLEAN, new : BOOLEAN, doc : BOOLEAN,
         changed : SUBSET Key, stale : SUBSET Key]

Empty == [at |-> "out", conv |-> None, text |-> << >>, last |-> FALSE,
          new |-> FALSE, doc |-> FALSE, changed |-> {}, stale |-> {}]

Sweeping == [Empty EXCEPT !.at = "sweep", !.last = TRUE]

Ingest == [at : {"idle", "look", "merge", "enqueue"}, batch : SUBSET Conv,
           found : Job \cup {None}, read : Progress \cup {None}]

Quiet == [at |-> "idle", batch |-> {}, found |-> None, read |-> None]

First(S) == CHOOSE c \in S : \A d \in S : Order[c] <= Order[d]

ActiveJobs(ref) == {j \in Job : job[j].ref = ref /\ job[j].status \in Active}

Event == events < MaxEvents /\ events' = events + 1

(* enqueueJob, under a new id. *)
Enqueue(ref, kind, left) ==
  LET unused == {j \in Job : job[j].status = "absent"}
  IN /\ unused # {}
     /\ EnqueueJob(CHOOSE j \in unused : TRUE, ref,
                   [kind |-> kind, left |-> left, failed |-> FALSE])
----------------------------------------------------------------------------
(* insertMessages *)

(* More messages never take fewer chunks. *)
Extends(c, t) ==
  t \in Texts[c] /\ Len(t) >= Len(messages[c])

(* The messages of a batch are committed. *)
InsertMessages ==
  LET idle == {r \in Request : ingest[r].at = "idle"}
  IN /\ idle # {}
     /\ Event
     /\ messages' \in [Conv -> Text]
     /\ messages' # messages
     /\ \A c \in Conv : messages'[c] = messages[c] \/ Extends(c, messages'[c])
     /\ ingest' = [ingest EXCEPT ![CHOOSE r \in idle : TRUE] =
          [Quiet EXCEPT !.at = "look",
                        !.batch = {c \in Conv : messages'[c] # messages[c]}]]
     /\ UNCHANGED <<job, worker, corpus, hand, excused>>

(* enqueueConversationBrainChanges: any one queued dirty job. *)
Look(r) ==
  LET queued == {j \in ActiveJobs(Dirty) : job[j].status = "queued"}
  IN /\ ingest[r].at = "look"
     /\ \/ /\ queued = {}
           /\ ingest' = [ingest EXCEPT ![r].at = "enqueue"]
        \/ \E j \in queued :
             ingest' = [ingest EXCEPT ![r].at = "merge", ![r].found = j,
                                      ![r].read = job[j].cursor]
     /\ UNCHANGED <<job, worker, messages, corpus, hand, excused, events>>

MergeInto(r) ==
  LET j == ingest[r].found
      merged == [ingest[r].read EXCEPT !.left = @ \cup ingest[r].batch]
  IN /\ job' = [job EXCEPT ![j].cursor = merged]
     /\ ingest' = [ingest EXCEPT ![r] = Quiet]

(* Mutant of Merge: whatever became of the row. *)
MergeUnchecked(r) ==
  /\ ingest[r].at = "merge"
  /\ MergeInto(r)
  /\ UNCHANGED <<worker, messages, corpus, hand, excused, events>>

(* Into the job that was found, if it is still queued as it was read. *)
Merge(r) ==
  LET row == job[ingest[r].found]
  IN /\ ingest[r].at = "merge"
     /\ IF row.status = "queued" /\ row.cursor = ingest[r].read
          THEN MergeInto(r)
          ELSE /\ ingest' = [ingest EXCEPT ![r].at = "enqueue"]
               /\ UNCHANGED job
     /\ UNCHANGED <<worker, messages, corpus, hand, excused, events>>

EnqueueDirty(r) ==
  /\ ingest[r].at = "enqueue"
  /\ Enqueue(Dirty, "dirty", ingest[r].batch)
  /\ ingest' = [ingest EXCEPT ![r] = Quiet]
  /\ UNCHANGED <<messages, corpus, hand, excused, events>>

(* A statement fails and the error is swallowed, or the process dies. *)
IngestFails(r) ==
  /\ ingest[r].at # "idle"
  /\ excused' = excused \cup ingest[r].batch
  /\ ingest' = [ingest EXCEPT ![r] = Quiet]
  /\ Event
  /\ UNCHANGED <<job, worker, messages, corpus, hand>>

(* Nothing is enqueued when a contact is edited or rows leave the ledger. *)
ChangeUnnoticed(c) ==
  /\ \E t \in Texts[c] \ {messages[c]} : messages' = [messages EXCEPT ![c] = t]
  /\ excused' = excused \cup {c}
  /\ Event
  /\ UNCHANGED <<job, worker, corpus, hand, ingest>>

(* ensureConversationReconcileJob; one cron call at a time. *)
EnsureReconcile ==
  /\ ActiveJobs(Reconcile) = {}
  /\ Enqueue(Reconcile, "reconcile", Conv)
  /\ UNCHANGED <<worldVars, events, corpus, hand>>
----------------------------------------------------------------------------
(* advanceBrainCorpusJob *)

InHandler(w, at) == worker[w].pc = "handler" /\ hand[w].at = at

Leave(w) == hand' = [hand EXCEPT ![w] = Empty]

(* Mutant of Handled: the end of the list is found one step too late. *)
HandledLate(w, failed) ==
  LET c == worker[w].cursor
  IN Returns(w, "more", [c EXCEPT !.left = @ \ {First(c.left)},
                                  !.failed = @ \/ failed])

(* After a conversation of a dirty job: go on, or end with what failed. *)
Handled(w, failed) ==
  LET c == worker[w].cursor
      left == c.left \ {First(c.left)}
      noted == c.failed \/ failed
  IN IF left = {}
       THEN Returns(w, IF noted THEN "failed" ELSE "done", None)
       ELSE Returns(w, "more", [c EXCEPT !.left = left, !.failed = noted])

Beyond(c) == {d \in Conv : Order[d] > Order[c]}

Paged(w) ==
  IF hand[w].last
    THEN Returns(w, "done", None)
    ELSE Returns(w, "more", [worker[w].cursor EXCEPT !.left = Beyond(hand[w].conv)])

(* Who else holds a snapshot of c that it may still write. *)
HeldByOther(w, c) == \E v \in Worker \ {w} : hand[v].conv = c

(* Mutant of Changed: a chunk without an embedding is no reason to write. *)
ChangedContent(chunks, text) ==
  {k \in DOMAIN text : k \notin DOMAIN chunks \/ chunks[k].content # text[k]}

(* The chunks to embed. *)
Changed(chunks, text) ==
  {k \in DOMAIN text :
     \/ k \notin DOMAIN chunks
     \/ chunks[k].content # text[k]
     \/ chunks[k].embedding = None}

(* loadConversationRows.  A dirty conversation's key is normalized and is  *)
(* compared with the names as stored (exactSource); a scan normalizes both *)
(* sides.                                                                  *)
LoadRows(w, c) ==
  IF worker[w].cursor.kind = "dirty" /\ c \in Raw THEN << >> ELSE messages[c]

(* The next dirty conversation (syncConversation), or the next one of the  *)
(* scan that has messages (backfillConversations), against what is stored. *)
Prepare(w) ==
  LET dirty == worker[w].cursor.kind = "dirty"
      found == {c \in worker[w].cursor.left : dirty \/ messages[c] # << >>}
      c == First(found)
      last == dirty \/ found \subseteq {c}
      text == LoadRows(w, c)
      d == corpus[c]
  IN /\ InHandler(w, "out")
     /\ IF found = {} \/ text = << >>
          THEN /\ hand' = [hand EXCEPT ![w] = Sweeping]
               /\ UNCHANGED excused
          ELSE /\ hand' = [hand EXCEPT ![w] =
                    [at |-> "persist", conv |-> c, text |-> text, last |-> last,
                     new |-> d.text = None, doc |-> d.text # text,
                     changed |-> Changed(d.chunks, text),
                     stale |-> DOMAIN d.chunks \ DOMAIN text]]
               /\ excused' = IF HeldByOther(w, c) THEN excused \cup {c} ELSE excused
     /\ UNCHANGED <<job, worker, messages, corpus, ingest, events>>

NeedsWrite(h) == h.doc \/ h.changed # {} \/ h.stale # {}

(* Mutant of Embedding: a stored embedding is kept whatever the content. *)
EmbeddingKept(chunks, h, k) ==
  IF k \in h.changed THEN h.text[k]
  ELSE IF k \in DOMAIN chunks THEN chunks[k].embedding ELSE None

(* The upsert: the new vector if there is one, else the stored one of the  *)
(* same content.                                                           *)
Embedding(chunks, h, k) ==
  IF k \in h.changed THEN h.text[k]
  ELSE IF k \in DOMAIN chunks /\ chunks[k].content = h.text[k]
    THEN chunks[k].embedding ELSE None

Written(chunks, h) ==
  [k \in (DOMAIN chunks \ h.stale) \cup DOMAIN h.text |->
     IF k \in DOMAIN h.text
       THEN [content |-> h.text[k], embedding |-> Embedding(chunks, h, k)]
       ELSE chunks[k]]

(* The document was inserted by another meanwhile: its id is not the one   *)
(* the chunks are inserted for.                                            *)
Clash(w) == hand[w].new /\ corpus[hand[w].conv].text # None

(* persistConversations, whatever was stored since Prepare.  A reconcile   *)
(* page that is not the last is through.                                   *)
Persist(w) ==
  LET h == hand[w]
  IN /\ InHandler(w, "persist")
     /\ ~Clash(w)
     /\ corpus' = IF NeedsWrite(h)
                    THEN [corpus EXCEPT ![h.conv] =
                            [text |-> h.text, chunks |-> Written(@.chunks, h)]]
                    ELSE corpus
     /\ IF h.last
          THEN hand' = [hand EXCEPT ![w] = Sweeping] /\ UNCHANGED worker
          ELSE Leave(w) /\ Paged(w)
     /\ UNCHANGED <<job, worldVars, events>>

(* reconcileDeletedConversationDocuments: of the conversation, or of all   *)
(* at the end of a scan.                                                   *)
Sweep(w) ==
  LET c == worker[w].cursor
      scope == IF c.kind = "dirty" THEN {First(c.left)} ELSE Conv
  IN /\ InHandler(w, "sweep")
     /\ corpus' = [d \in Conv |->
          IF d \in scope /\ messages[d] = << >>
            THEN [corpus[d] EXCEPT !.chunks = NoChunks] ELSE corpus[d]]
     /\ Leave(w)
     /\ IF c.kind = "dirty" THEN Handled(w, FALSE) ELSE Paged(w)
     /\ UNCHANGED <<job, worldVars, events>>

(* A dirty job notes the failure and goes on; a reconcile job ends. *)
Throw(w) ==
  LET c == worker[w].cursor
  IN /\ Leave(w)
     /\ IF c.kind = "dirty"
          THEN Handled(w, TRUE) /\ excused' = excused \cup {First(c.left)}
          ELSE Returns(w, "failed", None) /\ UNCHANGED excused
     /\ UNCHANGED <<job, messages, ingest, corpus>>

PersistClashes(w) ==
  InHandler(w, "persist") /\ Clash(w) /\ Throw(w) /\ UNCHANGED events

(* A statement or the embedding call fails. *)
HandlerFails(w) == worker[w].pc = "handler" /\ Throw(w) /\ Event

Handler(w) ==
  \/ Prepare(w) \/ Persist(w) \/ PersistClashes(w) \/ Sweep(w)
----------------------------------------------------------------------------
Expire(j) ==
  /\ LeaseExpires(j)
  /\ IF WorkedOn(j) THEN Event ELSE UNCHANGED events
  /\ UNCHANGED <<worldVars, corpus, hand>>

Dies(w) == WorkerDies(w) /\ Leave(w) /\ Event /\ UNCHANGED <<worldVars, corpus>>

RunsOut(w) == BudgetSpent(w) /\ UNCHANGED <<worldVars, events, corpus, hand>>

Work(w) ==
  \/ Handler(w)
  \/ RuntimeStep(w) /\ UNCHANGED <<worldVars, events, corpus, hand>>

(* A tick's call, or the cron's, claims a job. *)
Tick ==
  LET idle == {w \in Worker : worker[w].pc = "idle"}
  IN /\ idle # {}
     /\ \E j \in Job : Claim(CHOOSE w \in idle : TRUE, j)
     /\ UNCHANGED <<worldVars, events, corpus, hand>>

(* Rows that ended and that nobody works on or remembers are taken out of  *)
(* the model, so that a few rows are enough.                               *)
Forget(j) ==
  /\ job[j].status \in Terminal
  /\ ~WorkedOn(j)
  /\ \A r \in Request : ingest[r].found # j
  /\ job' = [job EXCEPT ![j] = NoJob]
  /\ UNCHANGED <<worker, worldVars, events, corpus, hand>>

Init ==
  /\ RuntimeInit
  /\ messages = Start
  /\ corpus = [c \in Conv |->
                 IF Start[c] = << >> THEN NoDocument ELSE Synced(Start[c])]
  /\ hand = [w \in Worker |-> Empty]
  /\ ingest = [r \in Request |-> Quiet]
  /\ excused = {}
  /\ events = 0

Next ==
  \/ InsertMessages
  \/ \E r \in Request : Look(r) \/ Merge(r) \/ EnqueueDirty(r) \/ IngestFails(r)
  \/ \E c \in Conv : ChangeUnnoticed(c)
  \/ EnsureReconcile
  \/ Tick
  \/ \E w \in Worker : Work(w) \/ HandlerFails(w) \/ RunsOut(w) \/ Dies(w)
  \/ \E j \in Job : Expire(j) \/ Forget(j)

Spec == Init /\ [][Next]_vars

(* The cron calls come, time passes, and calls that run go on. *)
FairSpec ==
  /\ Spec
  /\ \A w \in Worker : SF_vars(Work(w))
  /\ WF_vars(EnsureReconcile)
  /\ WF_vars(Tick)
  /\ \A j \in Job : WF_vars(Expire(j))
  /\ WF_vars(\E j \in Job : Forget(j))
----------------------------------------------------------------------------
(* Properties *)

CursorFits(ref, cursor) ==
  /\ cursor \in Progress
  /\ cursor.kind = "dirty" <=> ref = Dirty
  /\ ref = Dirty => cursor.left # {}

(* Types.  A job's cursor is of its kind, and a dirty job that is not done *)
(* has a conversation to go on with.                                       *)
TypeOK ==
  /\ RuntimeTypeOK
  /\ \A j \in Job : job[j].status # "absent" => CursorFits(job[j].ref, job[j].cursor)
  /\ messages \in [Conv -> Text]
  /\ corpus \in [Conv -> Document]
  /\ hand \in [Worker -> Hand]
  /\ ingest \in [Request -> Ingest]
  /\ excused \subseteq Conv
  /\ events \in 0 .. MaxEvents

(* No chunk carries the embedding of another text: retrieval would find it *)
(* for what it does not say.                                               *)
EmbeddingsFit ==
  \A c \in Conv : \A k \in DOMAIN corpus[c].chunks :
    LET chunk == corpus[c].chunks[k]
    IN chunk.embedding \in {None, chunk.content}

Current(c) ==
  IF messages[c] = << >> THEN corpus[c].chunks = NoChunks
                         ELSE corpus[c] = Synced(messages[c])

Pending(c) == \E r \in Request : c \in ingest[r].batch

Queued(c) == \E j \in ActiveJobs(Dirty) : c \in job[j].cursor.left

(* A change of a conversation is in the corpus, in an active job or on its *)
(* way into one, however claims and merges interleave; unless a statement  *)
(* failed or two workers synchronised the conversation at the same time,   *)
(* or its rows are stored under names that a dirty key does not match.     *)
NoChangeForgotten ==
  \A c \in Conv \ (excused \cup Raw) : Current(c) \/ Pending(c) \/ Queued(c)

(* Convergence: once failures and crashes end, the corpus comes to agree   *)
(* with the messages, chunks, embeddings and all, and stays so.            *)
CorpusConverges ==
  <>[](\A c \in Conv : Current(c))
============================================================================
