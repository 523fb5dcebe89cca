----------------------- MODULE StockRefinementProofs -----------------------
(***************************************************************************)
(* StockLedger implements StockBook, for any number of sessions, documents *)
(* and bins, when every bin has a row and rebuildBins runs alone.  The     *)
(* argument: what a bin holds is the sum of its ledger rows and what an    *)
(* entry has moved is the sum of its own, so the rows a commit adds change *)
(* both by the same; and what a cancellation has written so far leaves of  *)
(* its entry's movement exactly what it has still to undo.                 *)
(***************************************************************************)
EXTENDS StockLedgerProofs, StockRefinement, FiniteSetTheorems, WellFoundedInduction
----------------------------------------------------------------------------
(* Sums *)

(* What the rows S come to, and the fold that computes it: the rows are    *)
(* taken out of the set one at a time.                                     *)
Tot(S) == MapThenSumSet(LAMBDA r : r.delta, S)

Pick(S) == CHOOSE r \in S : TRUE

Folded(f, S) == IF S = {} THEN 0 ELSE Pick(S).delta + f[S \ {Pick(S)}]

FoldOn(S) == CHOOSE f : f = [T \in SUBSET S |-> Folded(f, T)]

LEMMA TotFold == ASSUME NEW S PROVE Tot(S) = FoldOn(S)[S]
BY DEF Tot, MapThenSumSet, MapThenFoldSet, FoldOn, Folded, Pick

(* A property that fails of some part of a finite set fails of a smallest. *)
LEMMA SmallestPart ==
  ASSUME NEW S, IsFiniteSet(S), NEW Bad \in SUBSET SUBSET S, Bad # {}
  PROVE  \E T \in Bad : \A U \in Bad : ~(U \subseteq T /\ U # T)
<1>1. Bad \subseteq FiniteSubsetsOf(S)
  BY FS_FiniteSubsetsOfFinite
<1>2. PICK T \in Bad : \A U \in Bad : ~(<<U, T>> \in StrictSubsetOrdering(S))
  BY <1>1, FS_StrictSubsetOrderingWellFounded, WFMin
<1> QED
  BY <1>2 DEF StrictSubsetOrdering

LEMMA LeastNumber ==
  ASSUME NEW Bad \in SUBSET Nat, Bad # {}
  PROVE  \E n \in Bad : \A k \in Bad : n <= k
<1>1. PICK n \in Bad : \A k \in Bad : <<k, n>> \notin OpToRel(<, Nat)
  BY WFMin, NatLessThanWellFounded, Zenon
<1>2. \A k \in Bad : ~(k < n)
  BY <1>1, Zenon DEF OpToRel
<1> QED
  BY <1>2

LEMMA PickIn == ASSUME NEW S, S # {} PROVE Pick(S) \in S
BY DEF Pick

(* The fold is a function: it is defined for the small parts first. *)
LEMMA FoldExists ==
  ASSUME NEW S, IsFiniteSet(S)
  PROVE  \E f : f = [T \in SUBSET S |-> Folded(f, T)]
<1> DEFINE Upto(f, n) == \A T \in SUBSET S : Cardinality(T) <= n => f[T] = Folded(f, T)
           Bad == {n \in Nat : ~ \E f : Upto(f, n)}
<1>1. \A T \in SUBSET S :
        /\ IsFiniteSet(T) /\ Cardinality(T) \in Nat /\ Cardinality(T) <= Cardinality(S)
        /\ Cardinality(T) = 0 <=> T = {}
  BY FS_Subset, FS_CardinalityType, FS_EmptySet
<1>2. \A T \in SUBSET S : T # {} =>
        /\ T \ {Pick(T)} \in SUBSET S
        /\ Cardinality(T \ {Pick(T)}) = Cardinality(T) - 1
  BY <1>1, PickIn, FS_RemoveElement
<1>3. 0 \notin Bad
  <2> DEFINE f == [T \in SUBSET S |-> 0]
  <2>1. Upto(f, 0)
    BY <1>1 DEF Folded
  <2> HIDE DEF f, Upto
  <2> QED
    BY <2>1
<1>4. ASSUME NEW n \in Nat, n \notin Bad
      PROVE  n + 1 \notin Bad
  <2>1. PICK f : Upto(f, n)
    BY <1>4
  <2> DEFINE g == [T \in SUBSET S |-> Folded(f, T)]
  <2>2. ASSUME NEW T \in SUBSET S, Cardinality(T) <= n + 1
        PROVE  g[T] = Folded(g, T)
    <3>1. CASE T = {}
      BY <3>1 DEF Folded
    <3>2. CASE T # {}
      <4> DEFINE U == T \ {Pick(T)}
      <4>1. U \in SUBSET S /\ Cardinality(U) <= n
        BY <1>1, <1>2, <2>2, <3>2
      <4> HIDE DEF U
      <4>2. g[U] = f[U]
        BY <2>1, <4>1
      <4> QED
        BY <3>2, <4>2 DEF Folded, U
    <3> QED
      BY <3>1, <3>2
  <2> HIDE DEF g
  <2>3. Upto(g, n + 1)
    BY <2>2
  <2> HIDE DEF Upto
  <2> QED
    BY <2>3
<1>5. Bad = {}
  <2>1. SUFFICES ASSUME Bad # {} PROVE FALSE
    OBVIOUS
  <2>2. PICK n \in Bad : \A k \in Bad : n <= k
    <3> HIDE DEF Upto
    <3> QED
      BY <2>1, LeastNumber
  <2>3. n \in Nat /\ n # 0
    BY <1>3, <2>2
  <2>4. n - 1 \in Nat /\ n - 1 \notin Bad
    BY <2>2, <2>3
  <2> HIDE DEF Bad
  <2> QED
    BY <1>4, <2>2, <2>3, <2>4
<1>6. Cardinality(S) \in Nat
  BY <1>1
<1>7. PICK f : Upto(f, Cardinality(S))
  <2> HIDE DEF Upto
  <2> QED
    BY <1>5, <1>6
<1> DEFINE g == [T \in SUBSET S |-> f[T]]
<1>8. ASSUME NEW T \in SUBSET S
      PROVE  g[T] = Folded(g, T)
  <2>1. f[T] = Folded(f, T)
    BY <1>1, <1>7
  <2> QED
    BY <1>2, <2>1 DEF Folded
<1>9. g = [T \in SUBSET S |-> g[T]]
  OBVIOUS
<1> HIDE DEF g
<1>10. g = [T \in SUBSET S |-> Folded(g, T)]
  BY <1>8, <1>9
<1> QED
  BY <1>10

LEMMA FoldedOn ==
  ASSUME NEW S, IsFiniteSet(S), NEW T \in SUBSET S
  PROVE  FoldOn(S)[T] = Folded(FoldOn(S), T)
<1>1. FoldOn(S) = [U \in SUBSET S |-> Folded(FoldOn(S), U)]
  BY FoldExists DEF FoldOn
<1> QED
  BY <1>1

(* Whatever larger set it is part of, a part folds to the same.            *)
LEMMA FoldUnique ==
  ASSUME NEW S, IsFiniteSet(S), NEW T \in SUBSET S
  PROVE  FoldOn(S)[T] = FoldOn(T)[T]
<1>1. IsFiniteSet(T)
  BY FS_Subset
<1> DEFINE Bad == {U \in SUBSET T : FoldOn(S)[U] # FoldOn(T)[U]}
<1>2. Bad = {}
  <2>1. SUFFICES ASSUME Bad # {} PROVE FALSE
    OBVIOUS
  <2>2. PICK U \in Bad : \A V \in Bad : ~(V \subseteq U /\ V # U)
    <3>1. Bad \in SUBSET SUBSET T
      OBVIOUS
    <3> HIDE DEF Bad
    <3> QED
      BY <1>1, <2>1, SmallestPart, <3>1
  <2>3. /\ FoldOn(S)[U] = Folded(FoldOn(S), U)
        /\ FoldOn(T)[U] = Folded(FoldOn(T), U)
    BY <1>1, FoldedOn
  <2>4. U # {}
    BY <2>3 DEF Folded
  <2>5. FoldOn(S)[U \ {Pick(U)}] = FoldOn(T)[U \ {Pick(U)}]
    BY <2>2, <2>4, PickIn
  <2> QED
    BY <2>2, <2>3, <2>4, <2>5 DEF Folded
<1> QED
  BY <1>2

LEMMA TotEmpty == Tot({}) = 0
<1>1. FoldOn({})[{}] = Folded(FoldOn({}), {})
  BY FS_EmptySet, FoldedOn
<1> QED
  BY <1>1, TotFold DEF Folded

LEMMA TotPick ==
  ASSUME NEW S, IsFiniteSet(S), S # {}
  PROVE  Tot(S) = Pick(S).delta + Tot(S \ {Pick(S)})
<1>1. FoldOn(S)[S] = Pick(S).delta + FoldOn(S)[S \ {Pick(S)}]
  BY FoldedOn DEF Folded
<1>2. FoldOn(S)[S \ {Pick(S)}] = FoldOn(S \ {Pick(S)})[S \ {Pick(S)}]
  BY FoldUnique
<1> QED
  BY <1>1, <1>2, TotFold

Deltas(S) == \A r \in S : r.delta \in Int

LEMMA TotType ==
  ASSUME NEW S, IsFiniteSet(S), Deltas(S)
  PROVE  Tot(S) \in Int
<1> DEFINE Bad == {T \in SUBSET S : Tot(T) \notin Int}
<1>1. Bad = {}
  <2>1. SUFFICES ASSUME Bad # {} PROVE FALSE
    OBVIOUS
  <2>2. PICK T \in Bad : \A U \in Bad : ~(U \subseteq T /\ U # T)
    <3>1. Bad \in SUBSET SUBSET S
      OBVIOUS
    <3> HIDE DEF Bad
    <3> QED
      BY <2>1, SmallestPart, <3>1
  <2>3. T # {}
    BY TotEmpty
  <2>4. Pick(T) \in T /\ Tot(T) = Pick(T).delta + Tot(T \ {Pick(T)})
    BY <2>3, FS_Subset, PickIn, TotPick
  <2>5. Tot(T \ {Pick(T)}) \in Int
    BY <2>2, <2>4
  <2> QED
    BY <2>2, <2>4, <2>5 DEF Deltas
<1> QED
  BY <1>1

(* The order in which the rows are taken out makes no difference.          *)
LEMMA TotRemove ==
  ASSUME NEW S, IsFiniteSet(S), Deltas(S), NEW r \in S
  PROVE  Tot(S) = r.delta + Tot(S \ {r})
<1> DEFINE Bad == {T \in SUBSET S : \E q \in T : Tot(T) # q.delta + Tot(T \ {q})}
<1>1. Bad = {}
  <2>1. SUFFICES ASSUME Bad # {} PROVE FALSE
    OBVIOUS
  <2>2. PICK T \in Bad : \A U \in Bad : ~(U \subseteq T /\ U # T)
    <3>1. Bad \in SUBSET SUBSET S
      OBVIOUS
    <3> HIDE DEF Bad
    <3> QED
      BY <2>1, SmallestPart, <3>1
  <2>3. PICK q \in T : Tot(T) # q.delta + Tot(T \ {q})
    BY <2>2
  <2> DEFINE p == Pick(T)
  <2>4. p \in T /\ Tot(T) = p.delta + Tot(T \ {p})
    BY FS_Subset, PickIn, TotPick
  <2> HIDE DEF p
  <2>5. p # q
    BY <2>3, <2>4
  <2>6. Tot(T \ {p}) = q.delta + Tot((T \ {p}) \ {q})
    BY <2>2, <2>4, <2>5
  <2>7. Tot(T \ {q}) = p.delta + Tot((T \ {q}) \ {p})
    BY <2>2, <2>4, <2>5
  <2>8. Tot((T \ {p}) \ {q}) = Tot((T \ {q}) \ {p})
    <3>1. (T \ {p}) \ {q} = (T \ {q}) \ {p}
      OBVIOUS
    <3> QED
      BY <3>1, Zenon
  <2>9. Tot((T \ {q}) \ {p}) \in Int
    BY FS_Subset, TotType DEF Deltas
  <2>10. p.delta \in Int /\ q.delta \in Int
    BY <2>4 DEF Deltas
  <2> QED
    BY <2>3, <2>4, <2>6, <2>7, <2>8, <2>9, <2>10
<1> QED
  BY <1>1

LEMMA TotAdd ==
  ASSUME NEW S, IsFiniteSet(S), Deltas(S), NEW r, r.delta \in Int, r \notin S
  PROVE  Tot(S \cup {r}) = Tot(S) + r.delta
<1> DEFINE T == S \cup {r}
<1>1. IsFiniteSet(T) /\ Deltas(T) /\ r \in T
  BY FS_AddElement DEF Deltas
<1> HIDE DEF T
<1>2. Tot(T) = r.delta + Tot(T \ {r})
  BY <1>1, TotRemove
<1>3. Tot(T \ {r}) = Tot(S) /\ Tot(S) \in Int
  <2>1. T \ {r} = S
    BY DEF T
  <2> QED
    BY <2>1, TotType, Zenon
<1>4. Tot(T) = Tot(S) + r.delta
  BY <1>2, <1>3
<1> QED
  BY <1>4 DEF T

(* Sums over disjoint sets add up.                                         *)
LEMMA TotUnion ==
  ASSUME NEW A, NEW B, IsFiniteSet(A), IsFiniteSet(B), Deltas(A), Deltas(B),
         A \cap B = {}
  PROVE  Tot(A \cup B) = Tot(A) + Tot(B)
<1> DEFINE Bad == {T \in SUBSET B : Tot(A \cup T) # Tot(A) + Tot(T)}
<1>1. Bad = {}
  <2>1. SUFFICES ASSUME Bad # {} PROVE FALSE
    OBVIOUS
  <2>2. PICK T \in Bad : \A U \in Bad : ~(U \subseteq T /\ U # T)
    <3>1. Bad \in SUBSET SUBSET B
      OBVIOUS
    <3> HIDE DEF Bad
    <3> QED
      BY <2>1, SmallestPart, <3>1
  <2>3. Tot(A) \in Int
    BY TotType
  <2>4. T # {}
    <3>1. SUFFICES ASSUME T = {} PROVE FALSE
      OBVIOUS
    <3>2. A \cup T = A
      BY <3>1
    <3>3. Tot(A \cup T) = Tot(A) /\ Tot(T) = 0
      BY <3>1, <3>2, TotEmpty, Zenon
    <3> QED
      BY <2>2, <2>3, <3>3
  <2>5. PICK r \in T : TRUE
    BY <2>4
  <2> DEFINE U == T \ {r}
  <2>6. U \in SUBSET B /\ U \notin Bad
    BY <2>2, <2>5
  <2>7. IsFiniteSet(U) /\ Deltas(U) /\ Tot(U) \in Int
    BY <2>6, FS_Subset, TotType DEF Deltas
  <2>8. IsFiniteSet(A \cup U) /\ Deltas(A \cup U) /\ Tot(A \cup U) = Tot(A) + Tot(U)
    BY <2>6, <2>7, FS_Union DEF Deltas
  <2>9. r \notin U /\ r \notin A \cup U /\ r.delta \in Int
    BY <2>5 DEF Deltas
  <2> HIDE DEF U
  <2>10. Tot(U \cup {r}) = Tot(U) + r.delta
    BY <2>7, <2>9, TotAdd
  <2>11. Tot((A \cup U) \cup {r}) = Tot(A \cup U) + r.delta
    BY <2>8, <2>9, TotAdd
  <2>12. Tot(U \cup {r}) = Tot(T) /\ Tot((A \cup U) \cup {r}) = Tot(A \cup T)
    <3>1. U \cup {r} = T /\ (A \cup U) \cup {r} = A \cup T
      BY <2>5 DEF U
    <3> QED
      BY <3>1, Zenon
  <2> QED
    BY <2>2, <2>3, <2>7, <2>8, <2>9, <2>10, <2>11, <2>12
<1> QED
  BY <1>1
----------------------------------------------------------------------------
(* A bin is the sum of its ledger rows *)

LEMMA RowsInMonotone ==
  ASSUME NEW S, NEW T, NEW b
  PROVE  RowsIn(S \cup T, b) = RowsIn(S, b) \cup RowsIn(T, b)
BY DEF RowsIn

(* The rows of a bin have different ids, and there are MaxRows of those.    *)
LEMMA ChainedFinite ==
  ASSUME NEW S, S \subseteq Row, NEW q, Chained(S, q)
  PROVE  IsFiniteSet(S) /\ Deltas(S)
<1> DEFINE f == [r \in S |-> r.id]
<1>1. \A r \in S : r.id \in 1 .. MaxRows /\ r.delta \in Int
  BY DEF Row, Id
<1>2. f \in Injection(S, 1 .. MaxRows)
  BY <1>1 DEF Chained, Injection, IsInjective
<1>3. IsFiniteSet(1 .. MaxRows)
  BY BoundAssumption, FS_Interval
<1> QED
  BY <1>1, <1>2, <1>3, FS_Injection DEF Deltas

(* Each row shows the sum of the rows up to it, the latest the sum of all. *)
LEMMA ChainedSum ==
  ASSUME NEW S, S \subseteq Row, NEW q, Chained(S, q)
  PROVE  Tot(S) = q
<1> DEFINE Upto(r) == {p \in S : p.id <= r.id}
           Bad == {n \in Nat : \E r \in S : r.id = n /\ Tot(Upto(r)) # r.after}
<1>1. \A r \in S : r.id \in Nat /\ r.delta \in Int /\ r.after \in Int
  BY BoundAssumption DEF Row, Id
<1>2. IsFiniteSet(S) /\ Deltas(S)
  BY ChainedFinite
<1>3. \A T \in SUBSET S : IsFiniteSet(T) /\ Deltas(T)
  BY <1>2, FS_Subset DEF Deltas
<1>4. Bad = {}
  <2>1. SUFFICES ASSUME Bad # {} PROVE FALSE
    OBVIOUS
  <2>2. PICK n \in Bad : \A k \in Bad : n <= k
    <3>1. Bad \in SUBSET Nat
      OBVIOUS
    <3> HIDE DEF Bad
    <3> QED
      BY <2>1, <3>1, LeastNumber
  <2>3. PICK r \in S : r.id = n /\ Tot(Upto(r)) # r.after
    BY <2>2
  <2>4. CASE r.after = r.delta /\ ~ \E p \in S : p.id < r.id
    <3> DEFINE N == {p \in S : p.id < r.id}
    <3>1. Upto(r) = N \cup {r} /\ r \notin N
      BY <1>1, <2>4 DEF Chained
    <3>2. N = {}
      BY <2>4
    <3>3. IsFiniteSet(N) /\ Deltas(N)
      BY <1>3
    <3> HIDE DEF N
    <3>4. Tot(N \cup {r}) = Tot(N) + r.delta
      BY <1>1, <3>1, <3>3, TotAdd
    <3>5. Tot(N) = 0
      BY <3>2, TotEmpty, Zenon
    <3>6. Tot(Upto(r)) = Tot(N \cup {r})
      BY <3>1, Zenon
    <3> HIDE DEF Upto
    <3> QED
      BY <1>1, <2>3, <2>4, <3>4, <3>5, <3>6
  <2>5. CASE \E p \in S : /\ p.id < r.id
                          /\ r.after = p.after + r.delta
                          /\ ~ \E o \in S : p.id < o.id /\ o.id < r.id
    <3>1. PICK p \in S : /\ p.id < r.id
                         /\ r.after = p.after + r.delta
                         /\ ~ \E o \in S : p.id < o.id /\ o.id < r.id
      BY <2>5
    <3>2. Upto(r) = Upto(p) \cup {r} /\ r \notin Upto(p)
      BY <1>1, <3>1 DEF Chained
    <3>3. Tot(Upto(p)) = p.after
      <4> HIDE DEF Upto
      <4>1. p.id \in Nat /\ ~(n <= p.id)
        BY <1>1, <2>3, <3>1
      <4> QED
        BY <2>2, <4>1
    <3> DEFINE U == Upto(p)
    <3>4. IsFiniteSet(U) /\ Deltas(U)
      BY <1>3
    <3> HIDE DEF U
    <3>5. Tot(U \cup {r}) = Tot(U) + r.delta
      BY <1>1, <3>2, <3>4, TotAdd DEF U
    <3>6. Tot(Upto(r)) = Tot(U \cup {r})
      BY <3>2, Zenon DEF U
    <3> QED
      BY <2>3, <3>1, <3>3, <3>5, <3>6 DEF U
  <2> QED
    BY <2>4, <2>5 DEF Chained
<1>5. PICK last \in S : last.after = q /\ \A p \in S : p.id <= last.id
  BY DEF Chained
<1>6. Upto(last) = S
  BY <1>5
<1>7. Tot(Upto(last)) = q
  BY <1>1, <1>4, <1>5
<1> QED
  BY <1>6, <1>7, Zenon

(* The cached quantity of a bin is the sum of all its ledger rows: what    *)
(* "the ledger is truth" means for a reader who adds the rows up, under    *)
(* the same two conditions.                                                *)
THEOREM BinsAreSums ==
  ASSUME Seeded = Bin, Maintenance
  PROVE  Spec => [](\A b \in Bin : bins[b].qty = Tot(RowsIn(ledger, b)))
<1>1. TypeInv /\ AgreeInv => \A b \in Bin : bins[b].qty = Tot(RowsIn(ledger, b))
  <2> SUFFICES ASSUME TypeInv, AgreeInv, NEW b \in Bin
               PROVE  bins[b].qty = Tot(RowsIn(ledger, b))
    OBVIOUS
  <2>1. RowsIn(ledger, b) \subseteq Row /\ Chained(RowsIn(ledger, b), bins[b].qty)
    BY DEF TypeInv, TypeOK, AgreeInv, RowsIn
  <2> QED
    BY <2>1, ChainedSum
<1> QED
  BY <1>1, TypeInvariance, Agreement, PTL
----------------------------------------------------------------------------
(* What is left of a posting *)

(* The move that takes row r back, and the rows whose move is among moves. *)
Undoing(r) ==
  IF r.delta < 0 THEN Legs(r.id, -r.delta, None, r.bin)
                 ELSE Legs(r.id, r.delta, r.bin, None)

Standing(rows, moves) == {r \in rows : Undoing(r) \in moves}

(* A submission leaves rows; a cancellation's rows so far take the entry's *)
(* movement in each bin down to what it has still to undo.                 *)
Complete(r) ==
  /\ r.pc = "write" => r.moves = {}
  /\ r.op = "submit" =>
       /\ \A m \in r.moves : MoveBins(m) # {}
       /\ r.moves # {} \/ r.buf # {}
  /\ r.op = "cancel" =>
       /\ r.moves \subseteq Reversals(RowsOf(r.ent))
       /\ \A b \in Bin :
            Tot(RowsIn(RowsOf(r.ent) \cup r.buf, b)) =
              Tot(RowsIn(Standing(RowsOf(r.ent), r.moves), b))

Closed == {"submitted", "cancelled"}

BookInv ==
  /\ \A e \in Entry : status[e] \in Closed => RowsOf(e) # {}
  /\ \A t \in Session : Complete(tx[t])

LEMMA IdleComplete == Complete(Idle)
BY DEF Complete, Idle

(* A step that leaves the ledger alone, and closes no entry. *)
LEMMA LocalBook ==
  ASSUME TypeInv, BookInv, NEW t \in Session, NEW r,
         tx' = [tx EXCEPT ![t] = r], UNCHANGED ledger, Complete(r),
         \A e \in Entry : status'[e] \in Closed => status[e] \in Closed
  PROVE  BookInv'
<1>1. \A e : RowsOf(e)' = RowsOf(e)
  BY DEF RowsOf
<1>2. ASSUME NEW s \in Session
      PROVE  Complete(tx[s])'
  <2>1. Complete(tx'[s])
    BY DEF BookInv, TypeInv, TypeOK
  <2> QED
    BY <2>1 DEF Complete, RowsOf
<1>3. ASSUME NEW e \in Entry, status'[e] \in Closed
      PROVE  RowsOf(e)' # {}
  BY <1>1, <1>3 DEF BookInv
<1> QED
  BY <1>2, <1>3 DEF BookInv

LEMMA UndoBook ==
  ASSUME TypeInv, BookInv, NEW t \in Session,
         tx' = [tx EXCEPT ![t] = Idle], UNCHANGED ledger,
         \A e \in Entry : status'[e] \in Closed => status[e] \in Closed
  PROVE  BookInv'
BY IdleComplete, LocalBook

(* Taking locks and waiting for them. *)
LEMMA WaitBook ==
  ASSUME TypeInv, BookInv, NEW t \in Session, NEW r,
         tx' = [tx EXCEPT ![t] = r], UNCHANGED <<status, ledger>>,
         r.op = tx[t].op, r.ent = tx[t].ent, r.moves = tx[t].moves,
         r.buf = tx[t].buf, r.pc = "write" => tx[t].moves = {}
  PROVE  BookInv'
<1>1. Complete(tx[t])
  BY DEF BookInv
<1>2. Complete(r)
  BY <1>1 DEF Complete
<1> QED
  BY <1>2, LocalBook

LEMMA LockingBook ==
  ASSUME TypeInv, BookInv, NEW t \in Session, NEW b \in Bin,
         LockBin(t, b) \/ MissBin(t, b) \/ BlockOnBin(t, b) \/ PutBin(t, b)
  PROVE  BookInv'
<1>1. tx[t] \in Tx
  BY DEF TypeInv, TypeOK
<1>2. tx[t].pc = "write" => tx[t].moves = {}
  BY DEF BookInv, Complete
<1>3. ASSUME NEW q, NEW h, tx' = [tx EXCEPT ![t] = [DoneRead(tx[t], b, q) EXCEPT !.held = h]],
             UNCHANGED <<status, ledger>>
      PROVE  BookInv'
  <2> DEFINE r == [DoneRead(tx[t], b, q) EXCEPT !.held = h]
  <2>1. /\ r.pc = tx[t].pc /\ r.op = tx[t].op /\ r.ent = tx[t].ent
        /\ r.moves = tx[t].moves /\ r.buf = tx[t].buf
    BY <1>1 DEF DoneRead, Done, Tx
  <2> HIDE DEF r
  <2>2. tx' = [tx EXCEPT ![t] = r]
    BY <1>3 DEF r
  <2> QED
    BY <1>2, <1>3, <2>1, <2>2, WaitBook
<1>4. CASE LockBin(t, b)
  BY <1>3, <1>4 DEF LockBin
<1>5. CASE MissBin(t, b)
  <2> DEFINE r == DoneRead(tx[t], b, 0)
  <2>1. /\ r.pc = tx[t].pc /\ r.op = tx[t].op /\ r.ent = tx[t].ent
        /\ r.moves = tx[t].moves /\ r.buf = tx[t].buf
    BY <1>1 DEF DoneRead, Done, Tx
  <2>2. tx' = [tx EXCEPT ![t] = r] /\ UNCHANGED <<status, ledger>>
    BY <1>5 DEF MissBin
  <2> HIDE DEF r
  <2> QED
    BY <1>2, <2>1, <2>2, WaitBook
<1>6. CASE BlockOnBin(t, b)
  <2> DEFINE r == [tx[t] EXCEPT !.want = b]
  <2>1. /\ r.pc = tx[t].pc /\ r.op = tx[t].op /\ r.ent = tx[t].ent
        /\ r.moves = tx[t].moves /\ r.buf = tx[t].buf
    BY <1>1 DEF Tx
  <2>2. tx' = [tx EXCEPT ![t] = r] /\ UNCHANGED <<status, ledger>>
    BY <1>6 DEF BlockOnBin
  <2> HIDE DEF r
  <2> QED
    BY <1>2, <2>1, <2>2, WaitBook
<1>7. CASE PutBin(t, b)
  <2> DEFINE r == [Done(tx[t], b) EXCEPT !.held = tx[t].held \cup {b}]
  <2>1. /\ r.pc = tx[t].pc /\ r.op = tx[t].op /\ r.ent = tx[t].ent
        /\ r.moves = tx[t].moves /\ r.buf = tx[t].buf
    BY <1>1 DEF Done, Tx
  <2>2. tx' = [tx EXCEPT ![t] = r] /\ UNCHANGED <<status, ledger>>
    BY <1>7 DEF PutBin
  <2> HIDE DEF r
  <2> QED
    BY <1>2, <2>1, <2>2, WaitBook
<1> QED
  BY <1>4, <1>5, <1>6, <1>7

LEMMA ProceedBook ==
  ASSUME TypeInv, BookInv, NEW t \in Session, Posted(t) \/ DeleteBins(t)
  PROVE  BookInv'
<1>1. tx[t] \in Tx
  BY DEF TypeInv, TypeOK
<1>2. CASE Posted(t)
  <2> DEFINE r == [tx[t] EXCEPT !.pc = "write", !.need = tx[t].keys]
  <2>1. /\ r.op = tx[t].op /\ r.ent = tx[t].ent
        /\ r.moves = tx[t].moves /\ r.buf = tx[t].buf
    BY <1>1 DEF Tx
  <2>2. /\ tx' = [tx EXCEPT ![t] = r] /\ UNCHANGED <<status, ledger>>
        /\ tx[t].moves = {}
    BY <1>2 DEF Posted
  <2> HIDE DEF r
  <2> QED
    BY <2>1, <2>2, WaitBook
<1>3. CASE DeleteBins(t)
  <2> DEFINE r == [tx[t] EXCEPT !.pc = "work", !.need = {b \in @ : bins[b].there}]
  <2>1. /\ r.op = tx[t].op /\ r.ent = tx[t].ent /\ r.pc = "work"
        /\ r.moves = tx[t].moves /\ r.buf = tx[t].buf
    BY <1>1 DEF Tx
  <2>2. tx' = [tx EXCEPT ![t] = r] /\ UNCHANGED <<status, ledger>>
    BY <1>3 DEF DeleteBins
  <2> HIDE DEF r
  <2> QED
    BY <2>1, <2>2, WaitBook
<1> QED
  BY <1>2, <1>3

(* Each line of a document that can be submitted moves something. *)
LEMMA PostingsMove ==
  ASSUME NEW d \in Doc, Submittable(d)
  PROVE  Postings(d) # {} /\ \A m \in Postings(d) : MoveBins(m) # {}
<1>1. d.type \in EntryType /\ d.lines \in Seq(Line) /\ d.lines # << >>
  BY DocAssumption DEF Submittable
<1>2. 1 \in DOMAIN d.lines
  BY <1>1
<1>3. Postings(d) # {}
  BY <1>2 DEF Postings
<1>4. ASSUME NEW i \in DOMAIN d.lines
      PROVE  MoveBins(ExpandLine(d.type, i, d.lines[i])) # {}
  <2> DEFINE m == ExpandLine(d.type, i, d.lines[i])
  <2>1. ValidLine(d.type, d.lines[i])
    BY DEF Submittable
  <2>2. /\ m.out = IF d.type # "receipt" THEN d.lines[i].from ELSE None
        /\ m.into = IF d.type # "issue" THEN d.lines[i].to ELSE None
    BY DEF ExpandLine, Legs
  <2> HIDE DEF m
  <2>3. m.out # None \/ m.into # None
    BY <1>1, <2>1, <2>2 DEF ValidLine, EntryType
  <2>4. MoveBins(m) # {}
    BY <2>3 DEF MoveBins
  <2> QED
    BY <2>4 DEF m
<1> QED
  BY <1>3, <1>4 DEF Postings

LEMMA ReversalsUndo ==
  ASSUME NEW rows
  PROVE  /\ Reversals(rows) = {Undoing(r) : r \in rows}
         /\ Standing(rows, Reversals(rows)) = rows
         /\ Standing(rows, {}) = {}
BY DEF Reversals, Undoing, Standing

LEMMA RequestBook ==
  ASSUME TypeInv, BookInv, NEW t \in Session, Request(t)
  PROVE  BookInv'
<1> DEFINE OpenDraft(e, op, d) == [Idle EXCEPT !.pc = "read", !.op = op, !.ent = e, !.next = d]
           OpenPosting(e, op, mv) == [Idle EXCEPT !.pc = "work", !.op = op, !.ent = e,
                                        !.moves = mv, !.keys = BinsOf(mv), !.need = BinsOf(mv)]
<1>1. ASSUME NEW e, NEW op, NEW mv, Begin(t, e, op, mv), UNCHANGED <<status, ledger>>,
             op = "submit" => mv # {} /\ \A m \in mv : MoveBins(m) # {},
             op = "cancel" => mv = Reversals(RowsOf(e))
      PROVE  BookInv'
  <2> DEFINE r == OpenPosting(e, op, mv)
  <2>1. r.pc = "work" /\ r.op = op /\ r.ent = e /\ r.moves = mv /\ r.buf = {}
    BY DEF Idle
  <2>2. tx' = [tx EXCEPT ![t] = r]
    BY <1>1 DEF Begin
  <2> HIDE DEF r
  <2>3. ASSUME op = "cancel", NEW b \in Bin
        PROVE  Tot(RowsIn(RowsOf(r.ent) \cup r.buf, b)) =
                 Tot(RowsIn(Standing(RowsOf(r.ent), r.moves), b))
    <3>1. RowsOf(r.ent) \cup r.buf = RowsOf(e)
      BY <2>1
    <3>2. Standing(RowsOf(r.ent), r.moves) = RowsOf(e)
      BY <1>1, <2>1, <2>3, ReversalsUndo, Zenon
    <3> QED
      BY <3>1, <3>2, Zenon
  <2>4. Complete(r)
    BY <1>1, <2>1, <2>3 DEF Complete
  <2> QED
    BY <1>1, <2>2, <2>4, LocalBook
<1>2. ASSUME NEW e, NEW op \in {"update", "delete"}, NEW d, ReadDraft(t, e, op, d)
      PROVE  BookInv'
  <2> DEFINE r == OpenDraft(e, op, d)
  <2>1. r.pc = "read" /\ r.op = op
    BY DEF Idle
  <2>2. tx' = [tx EXCEPT ![t] = r] /\ UNCHANGED <<status, ledger>>
    BY <1>2 DEF ReadDraft
  <2> HIDE DEF r
  <2>3. Complete(r)
    BY <2>1 DEF Complete
  <2> QED
    BY <2>2, <2>3, LocalBook
<1>3. ASSUME NEW e \in Entry, BeginSubmit(t, e)
      PROVE  BookInv'
  <2>1. doc[e] \in Doc /\ Submittable(doc[e])
    BY <1>3 DEF BeginSubmit, TypeInv, DocInv, EntryStatus
  <2>2. Postings(doc[e]) # {} /\ \A m \in Postings(doc[e]) : MoveBins(m) # {}
    BY <2>1, PostingsMove
  <2> QED
    BY <1>1, <1>3, <2>2 DEF BeginSubmit
<1>4. ASSUME NEW e \in Entry, BeginCancel(t, e)
      PROVE  BookInv'
  BY <1>1, <1>4 DEF BeginCancel
<1>5. ASSUME NEW e \in Entry, DeleteEntryRead(t, e)
      PROVE  BookInv'
  BY <1>2, <1>5 DEF DeleteEntryRead
<1>6. ASSUME NEW e \in Entry, NEW d \in Doc, UpdateEntryRead(t, e, d)
      PROVE  BookInv'
  BY <1>2, <1>6 DEF UpdateEntryRead
<1>7. ASSUME NEW scope \in Scope, BeginRebuild(t, scope)
      PROVE  BookInv'
  <2> DEFINE r == [Idle EXCEPT !.pc = "read", !.op = "rebuild", !.seen = Replay,
                               !.keys = {b \in scope : HasRows(b)}, !.need = scope]
  <2>1. r.pc = "read" /\ r.op = "rebuild"
    BY DEF Idle
  <2>2. tx' = [tx EXCEPT ![t] = r] /\ UNCHANGED <<status, ledger>>
    BY <1>7 DEF BeginRebuild
  <2> HIDE DEF r
  <2>3. Complete(r)
    BY <2>1 DEF Complete
  <2> QED
    BY <2>2, <2>3, LocalBook
<1> QED
  BY <1>3, <1>4, <1>5, <1>6, <1>7 DEF Request

(* The move that undoes a row names it and its bin, and takes back what it *)
(* brought.                                                                *)
LEMMA UndoingShape ==
  ASSUME NEW q \in Row
  PROVE  /\ MoveBins(Undoing(q)) = {q.bin}
         /\ Delta(Undoing(q), q.bin) = -q.delta
         /\ \A p \in Row : Undoing(p) = Undoing(q) => p.id = q.id /\ p.bin = q.bin
<1> DEFINE m == Undoing(q)
<1>1. q.delta \in Int /\ q.bin \in Bin /\ q.bin # None
  BY NoneAssumption DEF Row
<1>2. /\ m.no = q.id
      /\ q.delta < 0 => m.qty = -q.delta /\ m.out = None /\ m.into = q.bin
      /\ ~(q.delta < 0) => m.qty = q.delta /\ m.out = q.bin /\ m.into = None
  BY DEF Undoing, Legs
<1>3. ASSUME NEW p \in Row, Undoing(p) = m
      PROVE  p.id = q.id /\ p.bin = q.bin
  <2>1. /\ m.no = p.id
        /\ p.delta < 0 => m.out = None /\ m.into = p.bin
        /\ ~(p.delta < 0) => m.out = p.bin /\ m.into = None
    BY <1>3 DEF Undoing, Legs
  <2>2. p.bin # None
    BY NoneAssumption DEF Row
  <2> HIDE DEF m
  <2> QED
    BY <1>1, <1>2, <2>1, <2>2
<1> HIDE DEF m
<1>4. MoveBins(m) = {q.bin}
  BY <1>1, <1>2 DEF MoveBins
<1>5. Delta(m, q.bin) = -q.delta
  <2>1. CASE q.delta < 0
    BY <1>1, <1>2, <2>1 DEF Delta
  <2>2. CASE ~(q.delta < 0)
    BY <1>1, <1>2, <2>2 DEF Delta
  <2> QED
    BY <2>1, <2>2
<1> QED
  BY <1>3, <1>4, <1>5 DEF m

LEMMA PostMoveBook ==
  ASSUME TypeInv, AgreeInv, BookInv, NEW t \in Session, NEW m \in tx[t].moves,
         PostMove(t, m)
  PROVE  BookInv'
<1>0. tx[t] \in Tx /\ m \in Move
  BY DEF TypeInv, TypeOK, Tx
<1>1. PICK id \in Id : NextId(id) /\ Post(t, m, id)
  BY DEF PostMove
<1> DEFINE new == LedgerRows(t, m, id)
           r == [tx[t] EXCEPT !.moves = @ \ {m}, !.buf = @ \cup new,
                              !.seen = [b \in Bin |-> After(t, m, b)]]
           e == tx[t].ent
           R == RowsOf(e)
<1>2. /\ r.pc = "work" /\ r.op = tx[t].op /\ r.ent = e
      /\ r.moves = tx[t].moves \ {m} /\ r.buf = tx[t].buf \cup new
  BY <1>0 DEF Tx, PostMove, Ready
<1>3. tx' = [tx EXCEPT ![t] = r] /\ UNCHANGED <<status, ledger>>
  BY <1>1 DEF Post, PostMove
<1> HIDE DEF r
<1>4. tx[t].op \in {"submit", "cancel"} /\ Complete(tx[t])
  BY DEF TypeInv, DocInv, SessionOK, Posting, BookInv
<1>5. PostingGood(tx[t]) /\ ReadBins(tx[t]) = tx[t].keys
  BY <1>4 DEF AgreeInv, SessionGood, ReadBins, PostMove, Ready
<1>6. MoveBins(m) \subseteq tx[t].keys
  BY <1>5 DEF PostingGood, BinsOf
<1>7. MoveBins(m) # {} => new # {}
  BY DEF LedgerRows
<1>8. ASSUME r.op = "submit"
      PROVE  r.buf # {} /\ \A n \in r.moves : MoveBins(n) # {}
  BY <1>2, <1>4, <1>7, <1>8 DEF Complete
<1>9. ASSUME r.op = "cancel"
      PROVE  /\ r.moves \subseteq Reversals(R)
             /\ \A b \in Bin : Tot(RowsIn(R \cup r.buf, b)) =
                                 Tot(RowsIn(Standing(R, r.moves), b))
  <2>1. tx[t].moves \subseteq Reversals(R)
    BY <1>2, <1>4, <1>9 DEF Complete
  <2>2. PICK q \in R : m = Undoing(q)
    BY <2>1, ReversalsUndo
  <2>3. R \subseteq ledger /\ R \subseteq Row
    BY DEF RowsOf, TypeInv, TypeOK
  <2>4. q \in Row /\ q.bin \in Bin /\ q.delta \in Int
    BY <2>2, <2>3 DEF Row
  <2>5. /\ MoveBins(m) = {q.bin} /\ Delta(m, q.bin) = -q.delta
        /\ \A p \in R : Undoing(p) = m => p.id = q.id /\ p.bin = q.bin
    BY <2>2, <2>3, <2>4, UndoingShape
  <2> DEFINE row == [id |-> id, ent |-> e, bin |-> q.bin, delta |-> Delta(m, q.bin),
                     after |-> After(t, m, q.bin)]
  <2>6. new = {row} /\ row.bin = q.bin /\ row.delta = -q.delta /\ row.id = id
    BY <2>5 DEF LedgerRows
  <2> HIDE DEF row, new, R
  <2>7. ASSUME NEW b \in Bin
        PROVE  Tot(RowsIn(R \cup r.buf, b)) = Tot(RowsIn(Standing(R, r.moves), b))
    <3> DEFINE A == RowsIn(R \cup tx[t].buf, b)
               B == RowsIn(Standing(R, tx[t].moves), b)
    <3>1. Tot(A) = Tot(B)
      BY <1>2, <1>4, <1>9 DEF Complete, R
    <3>2. CASE b # q.bin
      <4>1. RowsIn(R \cup r.buf, b) = A
        BY <1>2, <2>6, <3>2 DEF RowsIn
      <4>2. RowsIn(Standing(R, r.moves), b) = B
        BY <1>2, <2>5, <3>2 DEF RowsIn, Standing
      <4> QED
        BY <3>1, <4>1, <4>2, Zenon
    <3>3. CASE b = q.bin
      <4>1. Chained(RowsIn(ledger \cup tx[t].buf, b), tx[t].seen[b])
        BY <1>5, <1>6, <2>5, <3>3 DEF PostingGood
      <4>2. Chained(RowsIn(ledger, b), bins[b].qty)
        BY DEF AgreeInv
      <4>3. /\ RowsIn(ledger \cup tx[t].buf, b) \subseteq Row
            /\ RowsIn(ledger, b) \subseteq Row
        BY <1>0 DEF RowsIn, TypeInv, TypeOK, Tx
      <4>4. A \subseteq RowsIn(ledger \cup tx[t].buf, b) /\ B \subseteq RowsIn(ledger, b)
        BY <2>3 DEF RowsIn, Standing
      <4>5. IsFiniteSet(A) /\ Deltas(A) /\ IsFiniteSet(B) /\ Deltas(B)
        BY <4>1, <4>2, <4>3, <4>4, ChainedFinite, FS_Subset DEF Deltas
      <4>6. RowsIn(R \cup r.buf, b) = A \cup {row} /\ row \notin A
        <5>1. RowsIn(R \cup r.buf, b) = A \cup {row}
          BY <1>2, <2>6, <3>3 DEF RowsIn
        <5>2. \A p \in A : p.id < id
          BY <1>1, <2>3 DEF RowsIn, NextId, Written
        <5>3. ~(id < id)
          BY BoundAssumption DEF Id
        <5> QED
          BY <2>6, <5>1, <5>2, <5>3
      <4>7. RowsIn(Standing(R, r.moves), b) = B \ {q} /\ q \in B
        <5>1. q \in B
          BY <2>2, <3>3 DEF RowsIn, Standing
        <5>2. \A p \in B : Undoing(p) = m => p = q
          <6>1. B \subseteq R
            BY DEF RowsIn, Standing
          <6>2. \A p, o \in RowsIn(ledger, b) : p.id = o.id => p = o
            BY <4>2 DEF Chained
          <6> HIDE DEF B
          <6> QED
            BY <2>5, <4>4, <5>1, <6>1, <6>2
        <5>3. RowsIn(Standing(R, r.moves), b) = {p \in B : Undoing(p) # m}
          BY <1>2 DEF RowsIn, Standing
        <5> QED
          BY <2>2, <5>1, <5>2, <5>3
      <4> HIDE DEF A, B
      <4>8. Tot(A \cup {row}) = Tot(A) + row.delta
        BY <2>4, <2>6, <4>5, <4>6, TotAdd
      <4>9. Tot(B) = q.delta + Tot(B \ {q})
        BY <4>5, <4>7, TotRemove
      <4>10. Tot(B \ {q}) \in Int
        BY <4>5, FS_RemoveElement, TotType DEF Deltas
      <4>11. Tot(A \cup {row}) = Tot(B \ {q})
        BY <2>4, <2>6, <3>1, <4>8, <4>9, <4>10
      <4> QED
        BY <4>6, <4>7, <4>11, Zenon
    <3> QED
      BY <3>2, <3>3
  <2> QED
    BY <1>2, <2>1, <2>7
<1>10. Complete(r)
  BY <1>2, <1>8, <1>9 DEF Complete
<1> QED
  BY <1>3, <1>10, LocalBook

(* The rows a posting adds are its own entry's. *)
LEMMA CommitRows ==
  ASSUME TypeInv, NEW t \in Session, CommitPosting(t), NEW e
  PROVE  RowsOf(e)' = RowsOf(e) \cup (IF e = tx[t].ent THEN tx[t].buf ELSE {})
<1>1. \A q \in tx[t].buf : q.ent = tx[t].ent
  BY DEF TypeInv, DocInv, SessionOK
<1>2. ledger' = ledger \cup tx[t].buf
  BY DEF CommitPosting
<1> QED
  BY <1>1, <1>2 DEF RowsOf

LEMMA CommitPostingBook ==
  ASSUME TypeInv, BookInv, NEW t \in Session, CommitPosting(t)
  PROVE  BookInv'
<1>0. Posting(t) /\ SessionOK(t) /\ Complete(tx[t]) /\ tx[t].pc = "write"
  BY DEF CommitPosting, TypeInv, DocInv, Posting, BookInv
<1> PICK e \in Entry : e = tx[t].ent
  BY <1>0 DEF SessionOK, Posting
<1>1. /\ tx'[t] = Idle /\ \A s \in Session \ {t} : tx'[s] = tx[s]
      /\ \A d \in Entry \ {e} : status'[d] = status[d]
  BY DEF CommitPosting, TypeInv, TypeOK
<1>2. RowsOf(e)' # {}
  <2>1. CASE tx[t].op = "submit"
    <3>1. tx[t].buf # {}
      BY <1>0, <2>1 DEF Complete
    <3> QED
      BY <3>1, CommitRows
  <2>2. CASE tx[t].op = "cancel"
    <3>1. RowsOf(e) # {}
      BY <1>0, <2>2 DEF SessionOK, BookInv, Closed
    <3> QED
      BY <3>1, CommitRows
  <2> QED
    BY <1>0, <2>1, <2>2 DEF Posting
<1>3. ASSUME NEW d \in Entry, status'[d] \in Closed
      PROVE  RowsOf(d)' # {}
  <2>1. CASE d = e
    BY <1>2, <2>1
  <2>2. CASE d # e
    <3>1. RowsOf(d)' = RowsOf(d)
      BY <2>2, CommitRows
    <3> QED
      BY <1>1, <1>3, <2>2, <3>1 DEF BookInv
  <2> QED
    BY <2>1, <2>2
<1>4. ASSUME NEW s \in Session
      PROVE  Complete(tx[s])'
  <2>1. CASE s = t
    <3>1. tx'[s].pc = "idle" /\ tx'[s].op = "none"
      BY <1>1, <2>1 DEF Idle
    <3> QED
      BY <3>1 DEF Complete
  <2>2. CASE s # t
    <3> PICK d : d = tx[s].ent
      OBVIOUS
    <3>1. Complete(tx[s]) /\ tx'[s] = tx[s]
      BY <1>1, <2>2 DEF BookInv
    <3>2. tx[s].op = "cancel" => d # e
      BY <1>0, <2>2 DEF TypeInv, DocInv, OneSessionPerEntry, Posting
    <3>3. tx[s].op = "cancel" => RowsOf(d)' = RowsOf(d)
      BY <3>2, CommitRows
    <3> QED
      BY <3>1, <3>3 DEF Complete
  <2> QED
    BY <2>1, <2>2
<1> QED
  BY <1>3, <1>4 DEF BookInv

LEMMA CommitRebuildBook ==
  ASSUME TypeInv, AgreeInv, BookInv, NEW t \in Session, CommitRebuild(t)
  PROVE  BookInv'
<1>1. UNCHANGED <<status, ledger>>
  BY DEF CommitRebuild
<1>2. ASSUME NEW s \in Session
      PROVE  tx'[s].pc = "idle" /\ tx'[s].op = "none"
  <2>1. tx[s] \in Tx /\ (s # t => tx[s] = Idle)
    BY DEF CommitRebuild, AgreeInv, RebuildAlone, SessionGood, TypeInv, TypeOK
  <2>2. CASE s = t
    BY <2>2 DEF CommitRebuild, Idle
  <2>3. CASE s # t
    <3>1. tx'[s] = [Idle EXCEPT !.gone = Idle.gone \/ Idle.want \in tx[t].held]
      BY <2>1, <2>3 DEF CommitRebuild
    <3> QED
      BY <3>1 DEF Idle
  <2> QED
    BY <2>2, <2>3
<1>3. \A s \in Session : Complete(tx[s])'
  BY <1>2 DEF Complete
<1>4. \A e \in Entry : status'[e] \in Closed => RowsOf(e)' # {}
  BY <1>1 DEF BookInv, RowsOf
<1> QED
  BY <1>3, <1>4 DEF BookInv

(* Sessions that end without a trace in the ledger. *)
LEMMA EndingBook ==
  ASSUME TypeInv, BookInv, NEW t \in Session,
         \/ UpdateEntryWrite(t) \/ UpdateEntryRefused(t)
         \/ DeleteEntryWrite(t) \/ DeleteEntryRefused(t)
         \/ \E m \in tx[t].moves : NegativeStock(t, m)
         \/ DeadlockAbort(t) \/ ConnectionLost(t)
  PROVE  BookInv'
<1>1. tx' = [tx EXCEPT ![t] = Idle] /\ UNCHANGED ledger
  BY DEF UpdateEntryWrite, UpdateEntryRefused, DeleteEntryWrite, DeleteEntryRefused,
         NegativeStock, DeadlockAbort, ConnectionLost, Undo
<1>2. status' = status \/ status' = [status EXCEPT ![tx[t].ent] = "deleted"]
  BY DEF UpdateEntryWrite, UpdateEntryRefused, DeleteEntryWrite, DeleteEntryRefused,
         NegativeStock, DeadlockAbort, ConnectionLost, Undo
<1>3. \A e \in Entry : status'[e] \in Closed => status[e] \in Closed
  BY <1>2 DEF Closed, TypeInv, TypeOK
<1> QED
  BY <1>1, <1>3, UndoBook

LEMMA NextBook ==
  ASSUME TypeInv, AgreeInv, BookInv, [Next]_vars
  PROVE  BookInv'
<1>1. CASE UNCHANGED vars
  <2>1. UNCHANGED <<status, ledger, tx>>
    BY <1>1 DEF vars
  <2>2. \A t \in Session : Complete(tx[t])'
    BY <2>1 DEF BookInv, Complete, RowsOf
  <2>3. \A e \in Entry : status'[e] \in Closed => RowsOf(e)' # {}
    BY <2>1 DEF BookInv, RowsOf
  <2> QED
    BY <2>2, <2>3 DEF BookInv
<1>2. ASSUME NEW e \in Entry, NEW d \in Doc, CreateEntry(e, d)
      PROVE  BookInv'
  <2>1. UNCHANGED <<ledger, tx>> /\ status' = [status EXCEPT ![e] = "draft"]
    BY <1>2 DEF CreateEntry
  <2>2. \A t \in Session : Complete(tx[t])'
    BY <2>1 DEF BookInv, Complete, RowsOf
  <2>3. \A f \in Entry : status'[f] \in Closed => RowsOf(f)' # {}
    BY <2>1 DEF BookInv, RowsOf, Closed, TypeInv, TypeOK
  <2> QED
    BY <2>2, <2>3 DEF BookInv
<1>3. ASSUME NEW t \in Session, Request(t) \/ DeadlockAbort(t) \/ ConnectionLost(t)
      PROVE  BookInv'
  BY <1>3, RequestBook, EndingBook
<1>4. ASSUME NEW t \in Session, Step(t)
      PROVE  BookInv'
  <2>1. CASE \/ UpdateEntryWrite(t) \/ UpdateEntryRefused(t)
             \/ DeleteEntryWrite(t) \/ DeleteEntryRefused(t)
             \/ \E m \in tx[t].moves : NegativeStock(t, m)
    BY <2>1, EndingBook
  <2>2. CASE \E b \in Bin : LockBin(t, b) \/ MissBin(t, b) \/ BlockOnBin(t, b) \/ PutBin(t, b)
    BY <2>2, LockingBook
  <2>3. CASE \E m \in tx[t].moves : PostMove(t, m)
    BY <2>3, PostMoveBook
  <2>4. CASE Posted(t) \/ DeleteBins(t) \/ CommitPosting(t) \/ CommitRebuild(t)
    BY <2>4, ProceedBook, CommitPostingBook, CommitRebuildBook
  <2> QED
    BY <1>4, <2>1, <2>2, <2>3, <2>4 DEF Step
<1> QED
  BY <1>1, <1>2, <1>3, <1>4 DEF Next

LEMMA InitBook == Init => BookInv
<1> SUFFICES ASSUME Init PROVE BookInv
  OBVIOUS
<1>1. \A e \in Entry : status[e] \notin Closed
  BY DEF Init, Closed
<1>2. \A t \in Session : Complete(tx[t])
  BY IdleComplete DEF Init
<1> QED
  BY <1>1, <1>2 DEF BookInv
----------------------------------------------------------------------------
(* The steps of the book *)

(* What the rows of e come to in bin b, now and after a step. *)
LEMMA NetTot ==
  ASSUME NEW e, NEW b
  PROVE  /\ Net(e, b) = Tot(RowsIn(RowsOf(e), b))
         /\ Net(e, b)' = Tot(RowsIn(RowsOf(e), b))'
<1>1. Net(e, b) = Tot(RowsIn(RowsOf(e), b))
  BY DEF Net, Tot, RowsIn
<1>2. Net(e, b)' = Tot(RowsIn(RowsOf(e), b))'
  BY DEF Net, Tot, RowsIn
<1> QED
  BY <1>1, <1>2

(* Nothing the book shows has changed. *)
LEMMA QuietBook ==
  ASSUME UNCHANGED ledger, \A b \in Bin : bins'[b].qty = bins[b].qty,
         \A e \in Entry : BookState(e)' = BookState(e)
  PROVE  UNCHANGED Book!vars
<1>1. \A e, b : Net(e, b)' = Net(e, b)
  <2> SUFFICES ASSUME NEW e, NEW b PROVE Net(e, b)' = Net(e, b)
    OBVIOUS
  <2>1. Tot(RowsIn(RowsOf(e), b))' = Tot(RowsIn(RowsOf(e), b))
    BY DEF RowsOf
  <2> QED
    BY <2>1, NetTot
<1> QED
  BY <1>1 DEF Book!vars

LEMMA CommitRebuildQuiet ==
  ASSUME TypeInv, AgreeInv, NEW t \in Session, CommitRebuild(t)
  PROVE  UNCHANGED Book!vars
<1>1. /\ tx[t].held \subseteq tx[t].keys
      /\ \A b \in Bin : tx[t].seen[b] = bins[b].qty
  BY DEF CommitRebuild, AgreeInv, SessionGood
<1>2. \A b \in Bin : bins'[b].qty = bins[b].qty
  BY <1>1 DEF CommitRebuild
<1>3. \A e \in Entry : BookState(e)' = BookState(e)
  BY DEF CommitRebuild, BookState
<1> QED
  BY <1>2, <1>3, QuietBook DEF CommitRebuild

(* An entry that is deleted was open: had it been submitted, its rows would *)
(* have refused.                                                           *)
LEMMA DeleteQuiet ==
  ASSUME TypeInv, BookInv, NEW t \in Session, DeleteEntryWrite(t)
  PROVE  UNCHANGED Book!vars
<1> PICK e \in Entry : e = tx[t].ent
  BY DEF DeleteEntryWrite, TypeInv, DocInv, SessionOK
<1>1. status[e] \notin Closed /\ status' = [status EXCEPT ![e] = "deleted"]
  BY DEF DeleteEntryWrite, BookInv
<1>2. status[e] \in {"absent", "draft", "deleted"}
  BY <1>1 DEF TypeInv, TypeOK, EntryStatus, Closed
<1>3. ASSUME NEW d \in Entry
      PROVE  BookState(d)' = BookState(d)
  <2>1. CASE d = e
    <3>1. status'[d] = "deleted"
      BY <1>1, <2>1 DEF TypeInv, TypeOK
    <3> QED
      BY <1>2, <2>1, <3>1 DEF BookState
  <2>2. CASE d # e
    <3>1. status'[d] = status[d]
      BY <1>1, <2>2 DEF TypeInv, TypeOK
    <3> QED
      BY <3>1 DEF BookState
  <2> QED
    BY <2>1, <2>2
<1> QED
  BY <1>3, QuietBook DEF DeleteEntryWrite

LEMMA CreateQuiet ==
  ASSUME TypeInv, NEW e \in Entry, NEW d \in Doc, CreateEntry(e, d)
  PROVE  UNCHANGED Book!vars
<1>1. ASSUME NEW f \in Entry
      PROVE  BookState(f)' = BookState(f)
  <2>1. CASE f = e
    <3>1. status[f] = "absent" /\ status'[f] = "draft"
      BY <2>1 DEF CreateEntry, TypeInv, TypeOK
    <3> QED
      BY <3>1 DEF BookState
  <2>2. CASE f # e
    <3>1. status'[f] = status[f]
      BY <2>2 DEF CreateEntry, TypeInv, TypeOK
    <3> QED
      BY <3>1 DEF BookState
  <2> QED
    BY <2>1, <2>2
<1> QED
  BY <1>1, QuietBook DEF CreateEntry

(* The rows a commit adds take each bin as far as they take their entry:   *)
(* both bin and entry are sums over the ledger.                            *)
LEMMA CommitMoves ==
  ASSUME TypeInv, AgreeInv, AgreeInv', TypeInv', NEW t \in Session, CommitPosting(t),
         NEW e \in Entry, e = tx[t].ent, NEW b \in Bin
  PROVE  /\ Net(e, b) \in Int /\ Net(e, b)' \in Int
         /\ bins'[b].qty = bins[b].qty + Net(e, b)' - Net(e, b)
<1> DEFINE L == RowsIn(ledger, b)
           M == RowsIn(ledger', b)
           N == M \ L
           E == RowsIn(RowsOf(e), b)
<1>1. L \subseteq Row /\ M \subseteq Row /\ Chained(L, bins[b].qty) /\ Chained(M, bins'[b].qty)
  BY DEF TypeInv, TypeOK, AgreeInv, RowsIn
<1>2. /\ IsFiniteSet(L) /\ Deltas(L) /\ Tot(L) = bins[b].qty
      /\ IsFiniteSet(M) /\ Deltas(M) /\ Tot(M) = bins'[b].qty
  <2> HIDE DEF L, M
  <2> QED
    BY <1>1, ChainedFinite, ChainedSum
<1>3. M = L \cup N /\ L \cap N = {}
  BY DEF CommitPosting, RowsIn
<1>4. E \subseteq L /\ E \cap N = {}
  BY DEF RowsIn, RowsOf
<1>5. RowsIn(RowsOf(e), b)' = E \cup N
  <2>1. \A q \in tx[t].buf : q.ent = e
    BY DEF TypeInv, DocInv, SessionOK
  <2>2. ledger' = ledger \cup tx[t].buf
    BY DEF CommitPosting
  <2> QED
    BY <2>1, <2>2 DEF RowsIn, RowsOf
<1>6. /\ IsFiniteSet(N) /\ Deltas(N) /\ IsFiniteSet(E) /\ Deltas(E)
  BY <1>2, <1>4, FS_Subset DEF Deltas
<1>7. Net(e, b) = Tot(E) /\ Net(e, b)' = Tot(RowsIn(RowsOf(e), b))'
  BY NetTot
<1> HIDE DEF L, M, N, E
<1>8. Tot(L \cup N) = Tot(L) + Tot(N) /\ Tot(E \cup N) = Tot(E) + Tot(N)
  BY <1>2, <1>3, <1>4, <1>6, TotUnion
<1>9. Tot(L) \in Int /\ Tot(N) \in Int /\ Tot(E) \in Int
  BY <1>2, <1>6, TotType
<1>10. Tot(M) = Tot(L \cup N) /\ Net(e, b)' = Tot(E \cup N)
  BY <1>3, <1>5, <1>7, Zenon
<1> QED
  BY <1>2, <1>7, <1>8, <1>9, <1>10

(* A cancellation that commits leaves its entry with no movement.          *)
LEMMA CancelUndoes ==
  ASSUME TypeInv, BookInv, NEW t \in Session, CommitPosting(t), tx[t].op = "cancel",
         NEW e, e = tx[t].ent, NEW b \in Bin
  PROVE  Net(e, b)' = 0
<1>1. /\ tx[t].moves = {}
      /\ Tot(RowsIn(RowsOf(e) \cup tx[t].buf, b)) =
           Tot(RowsIn(Standing(RowsOf(e), tx[t].moves), b))
  BY DEF BookInv, Complete, CommitPosting
<1>2. RowsIn(RowsOf(e), b)' = RowsIn(RowsOf(e) \cup tx[t].buf, b)
  BY CommitRows DEF RowsIn
<1>3. RowsIn(Standing(RowsOf(e), tx[t].moves), b) = {}
  BY <1>1 DEF RowsIn, Standing
<1>4. Tot(RowsIn(Standing(RowsOf(e), tx[t].moves), b)) = 0
  BY <1>3, TotEmpty, Zenon
<1>5. Tot(RowsIn(RowsOf(e), b))' = Tot(RowsIn(RowsOf(e) \cup tx[t].buf, b))
  BY <1>2, Zenon
<1> QED
  BY <1>1, <1>4, <1>5, NetTot

LEMMA CommitImplements ==
  ASSUME TypeInv, TypeInv', AgreeInv, AgreeInv', BookInv, NeverNegative',
         NEW t \in Session, CommitPosting(t)
  PROVE  \E e \in Entry : Book!Submit(e) \/ Book!Cancel(e)
<1>0. tx[t].op \in {"submit", "cancel"} /\ SessionOK(t)
  BY DEF CommitPosting, TypeInv, DocInv
<1> PICK e \in Entry : e = tx[t].ent
  BY <1>0 DEF SessionOK
<1> DEFINE onHand == [b \in Bin |-> bins[b].qty]
           state == [d \in Entry |-> BookState(d)]
           moved == [d \in Entry |-> [b \in Bin |-> Net(d, b)]]
           to == IF tx[t].op = "submit" THEN "posted" ELSE "reversed"
<1>1. /\ BookState(e) = IF tx[t].op = "submit" THEN "open" ELSE "posted"
      /\ BookState(e)' = to
  <2>1. status[e] = IF tx[t].op = "submit" THEN "draft" ELSE "submitted"
    BY <1>0 DEF SessionOK
  <2>2. status'[e] = IF tx[t].op = "submit" THEN "submitted" ELSE "cancelled"
    BY DEF CommitPosting, TypeInv, TypeOK
  <2> QED
    BY <1>0, <2>1, <2>2 DEF BookState
<1>2. ASSUME NEW d \in Entry, d # e
      PROVE  BookState(d)' = BookState(d) /\ \A b \in Bin : Net(d, b)' = Net(d, b)
  <2>1. status'[d] = status[d]
    BY <1>2 DEF CommitPosting, TypeInv, TypeOK
  <2>2. RowsOf(d)' = RowsOf(d)
    BY <1>2, CommitRows
  <2>3. \A b \in Bin : Tot(RowsIn(RowsOf(d), b))' = Tot(RowsIn(RowsOf(d), b))
    BY <2>2
  <2> QED
    BY <2>1, <2>3, NetTot DEF BookState
<1>3. state' = [state EXCEPT ![e] = to]
  BY <1>1, <1>2
<1>4. moved' = [moved EXCEPT ![e] = moved'[e]]
  BY <1>2
<1>5. onHand' = [b \in Bin |-> onHand[b] + moved'[e][b] - moved[e][b]]
  BY CommitMoves
<1>6. \A b \in Bin : onHand'[b] >= 0
  BY DEF NeverNegative
<1>7. CASE tx[t].op = "submit"
  <2>1. Book!Submit(e)
    BY <1>1, <1>3, <1>4, <1>5, <1>6, <1>7 DEF Book!Submit, Book!Moves
  <2> QED
    BY <2>1
<1>8. CASE tx[t].op = "cancel"
  <2>1. moved'[e] = [b \in Bin |-> 0]
    BY <1>8, CancelUndoes
  <2>2. Book!Cancel(e)
    BY <1>1, <1>3, <1>4, <1>5, <1>6, <1>8, <2>1 DEF Book!Cancel, Book!Moves, Book!Nothing
  <2> QED
    BY <2>2
<1> QED
  BY <1>0, <1>7, <1>8

LEMMA InitImplements ==
  ASSUME Init
  PROVE  Book!Init
<1>1. [b \in Bin |-> bins[b].qty] \in [Bin -> Nat]
  BY OpeningAssumption DEF Init
<1>2. \A e \in Entry : BookState(e) = "open"
  BY DEF Init, BookState
<1>3. ASSUME NEW e \in Entry, NEW b \in Bin
      PROVE  Net(e, b) = 0
  <2>1. RowsIn(RowsOf(e), b) = {}
    BY NoneAssumption DEF Init, RowsOf, RowsIn, OpeningRow
  <2> QED
    BY <2>1, NetTot, TotEmpty, Zenon
<1> QED
  BY <1>1, <1>2, <1>3 DEF Book!Init, Book!Nothing

LEMMA NextImplements ==
  ASSUME TypeInv, TypeInv', AgreeInv, AgreeInv', BookInv, NeverNegative', [Next]_vars
  PROVE  [Book!Next]_Book!vars
<1>1. ASSUME UNCHANGED <<status, bins, ledger>>
      PROVE  UNCHANGED Book!vars
  <2>1. \A e \in Entry : BookState(e)' = BookState(e)
    BY <1>1 DEF BookState
  <2> QED
    BY <1>1, <2>1, QuietBook
<1>2. ASSUME NEW e \in Entry, NEW d \in Doc, CreateEntry(e, d)
      PROVE  UNCHANGED Book!vars
  BY <1>2, CreateQuiet
<1>3. ASSUME NEW t \in Session, Request(t) \/ DeadlockAbort(t) \/ ConnectionLost(t)
      PROVE  UNCHANGED Book!vars
  BY <1>1, <1>3
     DEF Request, BeginSubmit, BeginCancel, DeleteEntryRead, UpdateEntryRead, ReadDraft,
         BeginRebuild, DeadlockAbort, ConnectionLost, Undo
<1>4. ASSUME NEW t \in Session, Step(t)
      PROVE  UNCHANGED Book!vars \/ Book!Next
  <2>1. CASE UpdateEntryWrite(t) \/ UpdateEntryRefused(t) \/ DeleteEntryRefused(t)
    BY <1>1, <2>1 DEF UpdateEntryWrite, UpdateEntryRefused, DeleteEntryRefused, Undo
  <2>2. CASE DeleteEntryWrite(t)
    BY <2>2, DeleteQuiet
  <2>3. CASE \E b \in Bin : LockBin(t, b) \/ MissBin(t, b) \/ BlockOnBin(t, b) \/ PutBin(t, b)
    BY <1>1, <2>3 DEF LockBin, MissBin, BlockOnBin, PutBin
  <2>4. CASE \E m \in tx[t].moves : PostMove(t, m) \/ NegativeStock(t, m)
    BY <1>1, <2>4 DEF PostMove, NegativeStock, Undo
  <2>5. CASE Posted(t) \/ DeleteBins(t)
    BY <1>1, <2>5 DEF Posted, DeleteBins
  <2>6. CASE CommitPosting(t)
    BY <2>6, CommitImplements DEF Book!Next
  <2>7. CASE CommitRebuild(t)
    BY <2>7, CommitRebuildQuiet
  <2> QED
    BY <1>4, <2>1, <2>2, <2>3, <2>4, <2>5, <2>6, <2>7 DEF Step
<1>5. CASE UNCHANGED vars
  BY <1>1, <1>5 DEF vars
<1> QED
  BY <1>2, <1>3, <1>4, <1>5 DEF Next

(* Overlapping transactions, row locks and rebuilds come to the atomic     *)
(* steps of StockBook: a document moves its quantities in all its bins at  *)
(* once, when it is submitted, and takes back exactly those, once, when it *)
(* is cancelled - under the two conditions bins and ledger agree under.    *)
THEOREM Implements ==
  ASSUME Seeded = Bin, Maintenance
  PROVE  Spec => ImplementsBook
<1>1. Init => Book!Init
  BY InitImplements
<1>2. Init => BookInv
  BY InitBook
<1>3. TypeInv /\ AgreeInv /\ BookInv /\ [Next]_vars => BookInv'
  BY NextBook
<1>4. /\ TypeInv /\ TypeInv' /\ AgreeInv /\ AgreeInv' /\ BookInv /\ NeverNegative'
      /\ [Next]_vars
      => [Book!Next]_Book!vars
  BY NextImplements
<1> QED
  BY <1>1, <1>2, <1>3, <1>4, TypeInvariance, Agreement, StockNeverNegative, PTL
     DEF Spec, ImplementsBook, Book!Spec
============================================================================
