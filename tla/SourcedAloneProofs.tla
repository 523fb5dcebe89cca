------------------------ MODULE SourcedAloneProofs ------------------------
(***************************************************************************)
(* What SourcedStock keeps as long as one request at a time is at work on a *)
(* ticket or a booking: nothing it has read goes stale, so the reads before *)
(* the writes do what a lock or a unique index would.                      *)
(***************************************************************************)
EXTENDS SourcedStockProofs
----------------------------------------------------------------------------
(* Issues *)

(* What every step does to the issues there are: a source of X may be given *)
(* one, no other is.                                                       *)
IssuesShrink(X) == \A s \in Source \ X : IssuesOf(s)' \subseteq IssuesOf(s)

ReversedStays == \A e \in Entry : state[e] = "reversed" => state'[e] = "reversed"

(* ... and no source is given two. *)
MakesOne == \E e : \A s \in Source : IssuesOf(s)' \subseteq IssuesOf(s) \cup {e}

IssuesStay == IssuesShrink({}) /\ ReversedStays

LEMMA IssuesKept ==
  ASSUME StockTypes, UNCHANGED source, rows' \subseteq rows, ReversedStays
  PROVE  IssuesStay
<1>1. \A s : IssuesOf(s)' \subseteq IssuesOf(s)
  BY DEF IssuesOf, ReversedStays, StockTypes
<1> QED  BY <1>1 DEF IssuesStay, IssuesShrink

LEMMA QuietIssues ==
  ASSUME StockTypes, UNCHANGED <<rows, source, state>>
  PROVE  IssuesStay
BY IssuesKept DEF ReversedStays

LEMMA SubmitIssues ==
  ASSUME StockTypes, NEW e \in Entry, SubmitEntry(e)
  PROVE  IssuesStay
<1>1. state' = [state EXCEPT ![e] = "posted"] /\ state[e] = "open"
  BY DEF SubmitEntry, Book!Submit, Book!Moves
<1>2. ReversedStays
  BY <1>1 DEF ReversedStays, StockTypes
<1> QED  BY <1>2, IssuesKept DEF SubmitEntry, entries

LEMMA CancelIssues ==
  ASSUME StockTypes, NEW e \in Entry, CancelEntry(e)
  PROVE  IssuesStay /\ state'[e] = "reversed"
<1>1. state' = [state EXCEPT ![e] = "reversed"]
  BY DEF CancelEntry, Book!Cancel, Book!Moves
<1>2. ReversedStays /\ state'[e] = "reversed"
  BY <1>1 DEF ReversedStays, StockTypes
<1> QED  BY <1>2, IssuesKept DEF CancelEntry, entries

LEMMA DeleteIssues ==
  ASSUME StockTypes, NEW e \in Entry, DeleteEntry(e)
  PROVE  IssuesStay
BY IssuesKept DEF DeleteEntry, book, ReversedStays

LEMMA UpdateIssues ==
  ASSUME StockTypes, NEW e \in Entry, UpdateEntry(e)
  PROVE  IssuesStay
BY IssuesKept DEF UpdateEntry, book, ReversedStays

LEMMA InsertIssues ==
  ASSUME StockTypes, NEW e, Fresh(e), NEW s \in Source, NEW items, InsertDraft(e, s, items)
  PROVE  IssuesShrink({s}) /\ ReversedStays /\ MakesOne
<1>1. UNCHANGED state /\ e \in Entry /\ rows' = rows \cup {e}
  BY DEF InsertDraft, book, Fresh
<1>2. source'[e] = s /\ \A f \in Entry \ {e} : source'[f] = source[f]
  BY <1>1 DEF InsertDraft, StockTypes
<1>3. \A r \in Source : \A f \in IssuesOf(r)' : f \in IssuesOf(r) \/ (f = e /\ r = s)
  BY <1>1, <1>2 DEF IssuesOf, StockTypes
<1> QED  BY <1>1, <1>3 DEF IssuesShrink, ReversedStays, MakesOne
----------------------------------------------------------------------------
(* The point of sale *)

TillAlone ==
  \A t \in Ticket \ posCrossed : \A c, d \in Till :
    till[c].t = t /\ till[d].t = t => c = d

(* What a ticket's row must be for a request that is at pc, with entry e    *)
(* and warning wn.                                                         *)
Fits(r, pc, e, wn) ==
  /\ pc \in {"find", "resolve", "guard", "insert", "submit"} => r.stamp = None
  /\ pc = "stamp" /\ r.stamp # None => e = r.stamp
  /\ pc \in {"find", "resolve", "guard", "insert", "submit", "stamp"} => r.status # "void"
  /\ pc \in {"shift", "cancel"} => e = r.stamp
  /\ pc = "void" /\ r.stamp # None
       => state[r.stamp] = "reversed" \/ wn = "void_stock_failed"

(* What a request that is alone on its ticket knows. *)
TillKnows(k) ==
  k.t \in Ticket \ posCrossed =>
    /\ Fits(ticket[k.t], k.pc, k.entry, k.warning)
    /\ k.pc = "insert" => IssuesOf(k.t) = {}

(* What a step of request c does to the tickets. *)
TillMoves(c) ==
  /\ \E k : /\ till' = [till EXCEPT ![c] = k]
            /\ TillKnows(k)'
            /\ \/ k.t \in {None, till[c].t} /\ posCrossed' = posCrossed
               \/ \E t \in Ticket :
                    /\ k.t = t
                    /\ posCrossed' = IF OnTicket(t) = {} THEN posCrossed
                                     ELSE posCrossed \cup {t}
  /\ \A t \in Ticket : t # till[c].t => ticket'[t] = ticket[t]
  /\ ReversedStays
  /\ IssuesShrink(IF till[c].pc = "insert" THEN {till[c].t} ELSE {})
  /\ MakesOne

TillInv ==
  /\ TillAlone
  /\ \A c \in Till : TillKnows(till[c])

LEMMA TillInvNext ==
  ASSUME Inv, TillInv, NEW c \in Till, TillMoves(c)
  PROVE  /\ TillInv'
         /\ posCrossed \subseteq posCrossed'
<1>1. PICK k : /\ till' = [till EXCEPT ![c] = k]
               /\ TillKnows(k)'
               /\ \/ k.t \in {None, till[c].t} /\ posCrossed' = posCrossed
                  \/ \E t \in Ticket :
                       /\ k.t = t
                       /\ posCrossed' = IF OnTicket(t) = {} THEN posCrossed
                                        ELSE posCrossed \cup {t}
  BY DEF TillMoves
<1>2. till \in [Till -> TillCall]
  BY DEF Inv, TypeOK, PosTypes
<1>3. till'[c] = k /\ \A d \in Till : d # c => till'[d] = till[d]
  BY <1>1, <1>2
<1>4. posCrossed \subseteq posCrossed'
  BY <1>1
<1>5. ASSUME NEW t \in Ticket \ posCrossed', NEW d \in Till, d # c, till[d].t = t
      PROVE  till[c].t # t /\ k.t # t
  <2>1. till[c].t # t
    BY <1>4, <1>5 DEF TillInv, TillAlone
  <2>2. d \in OnTicket(t) /\ t # None
    BY <1>5, SourcesDiffer DEF OnTicket, Source
  <2> QED  BY <1>1, <1>5, <2>1, <2>2
<1>6. TillAlone'
  <2> SUFFICES ASSUME NEW t \in Ticket \ posCrossed', NEW d \in Till, NEW f \in Till,
                      till'[d].t = t, till'[f].t = t, d # f
               PROVE  FALSE
    BY DEF TillAlone
  <2>1. CASE d = c
    BY <1>3, <1>5, <2>1
  <2>2. CASE f = c
    BY <1>3, <1>5, <2>2
  <2>3. CASE d # c /\ f # c
    BY <1>3, <1>4, <2>3 DEF TillInv, TillAlone
  <2> QED  BY <2>1, <2>2, <2>3
<1>7. \A d \in Till : TillKnows(till[d])'
  <2> TAKE d \in Till
  <2>1. PICK l : l = till'[d]
    OBVIOUS
  <2>2. TillKnows(l)'
    <3>1. CASE d = c
      BY <1>1, <1>3, <2>1, <3>1
    <3>2. CASE d # c
      <4> SUFFICES ASSUME l.t \in Ticket \ posCrossed'
                   PROVE  TillKnows(l)'
        BY DEF TillKnows
      <4>1. l = till[d] /\ l.t \in Ticket \ posCrossed
        BY <1>3, <1>4, <2>1, <3>2
      <4>2. TillKnows(l)
        BY <4>1 DEF TillInv
      <4>3. till[c].t # l.t
        BY <1>5, <3>2, <4>1
      <4>4. ticket'[l.t] = ticket[l.t]
        BY <4>1, <4>3 DEF TillMoves
      <4>5. IssuesOf(l.t)' \subseteq IssuesOf(l.t)
        BY <4>1, <4>3 DEF TillMoves, IssuesShrink, Source
      <4>6. ticket[l.t].stamp # None /\ state[ticket[l.t].stamp] = "reversed"
              => state'[ticket[l.t].stamp] = "reversed"
        BY <4>1, RowShape DEF TillMoves, ReversedStays, Issued, Own
      <4> QED  BY <4>1, <4>2, <4>4, <4>5, <4>6 DEF TillKnows, Fits
    <3> QED  BY <3>1, <3>2
  <2> QED  BY <2>1, <2>2 DEF TillKnows, Fits, IssuesOf
<1> QED  BY <1>4, <1>6, <1>7 DEF TillInv
----------------------------------------------------------------------------
(* The steps of the point of sale *)

(* A step that makes no issue. *)
LEMMA TillMovesOn ==
  ASSUME Inv, TillInv, NEW c \in Till, IssuesStay,
         \A t \in Ticket : t # till[c].t => ticket'[t] = ticket[t],
         NEW k, till' = [till EXCEPT ![c] = k], TillKnows(k)',
         \/ k.t \in {None, till[c].t} /\ posCrossed' = posCrossed
         \/ \E t \in Ticket :
              /\ k.t = t
              /\ posCrossed' = IF OnTicket(t) = {} THEN posCrossed
                               ELSE posCrossed \cup {t}
  PROVE  TillMoves(c)
<1>1. IssuesShrink(IF till[c].pc = "insert" THEN {till[c].t} ELSE {})
  BY DEF IssuesStay, IssuesShrink
<1>2. MakesOne
  BY DEF IssuesStay, IssuesShrink, MakesOne
<1> QED  BY <1>1, <1>2 DEF TillMoves, IssuesStay

LEMMA TillDoneMoves ==
  ASSUME Inv, TillInv, NEW c \in Till, IssuesStay, TillDone(c), UNCHANGED posCrossed,
         \A t \in Ticket : t # till[c].t => ticket'[t] = ticket[t]
  PROVE  TillMoves(c)
<1>1. PICK k : k = TillIdle
  OBVIOUS
<1>2. k.t = None /\ None \notin Ticket
  BY <1>1, SourcesDiffer DEF TillIdle, Source
<1>3. TillKnows(k)'
  BY <1>2 DEF TillKnows
<1> QED  BY <1>1, <1>2, <1>3, TillMovesOn DEF TillDone

LEMMA PosOnlyIssues ==
  ASSUME Inv, PosOnly
  PROVE  IssuesStay /\ UNCHANGED <<state, rows, source>>
BY QuietIssues DEF PosOnly, book, entries, Inv, TypeOK

LEMMA TillWithWarning ==
  ASSUME Inv, NEW c \in Till, NEW pc, NEW e, NEW wn, NEW k, k = TillWith(c, pc, e, wn)
  PROVE  k.pc = pc /\ k.entry = e /\ k.t = till[c].t /\ k.warning = wn
<1>1. PICK b : b = till[c]
  OBVIOUS
<1>2. b \in TillCall
  BY <1>1, TillShape
<1>3. k = [b EXCEPT !.pc = pc, !.entry = e, !.warning = wn]
  BY <1>1 DEF TillWith
<1> QED  BY <1>1, <1>2, <1>3 DEF TillCall

(* A request goes on with its ticket, which stays as it is. *)
LEMMA TillWithMoves ==
  ASSUME Inv, TillInv, NEW c \in Till, IssuesStay, UNCHANGED <<ticket, posCrossed>>,
         NEW pc, pc # "insert", NEW e, NEW wn,
         till' = [till EXCEPT ![c] = TillWith(c, pc, e, wn)],
         NEW t, t = till[c].t,
         t \in Ticket \ posCrossed => Fits(ticket[t], pc, e, wn)'
  PROVE  TillMoves(c)
<1>1. PICK k : k = TillWith(c, pc, e, wn)
  OBVIOUS
<1>2. k.pc = pc /\ k.entry = e /\ k.t = t /\ k.warning = wn
  BY <1>1, TillWithWarning
<1>3. TillKnows(k)'
  BY <1>2 DEF TillKnows, Fits
<1> QED  BY <1>1, <1>2, <1>3, TillMovesOn

LEMMA TillThinksOn ==
  ASSUME Inv, TillInv, NEW c \in Till, PosOnly, UNCHANGED <<ticket, posCrossed>>,
         NEW pc, pc # "insert", NEW e, NEW wn,
         till' = [till EXCEPT ![c] = TillWith(c, pc, e, wn)],
         till[c].t \in Ticket \ posCrossed => Fits(ticket[till[c].t], pc, e, wn)
  PROVE  TillMoves(c)
<1>1. IssuesStay /\ UNCHANGED state
  BY PosOnlyIssues
<1>2. PICK t : t = till[c].t
  OBVIOUS
<1>3. t \in Ticket \ posCrossed => Fits(ticket[t], pc, e, wn)'
  BY <1>1, <1>2 DEF Fits
<1> QED  BY <1>1, <1>2, <1>3, TillWithMoves

(* What the request knows now. *)
LEMMA TillFits ==
  ASSUME Inv, TillInv, NEW c \in Till, till[c].t \in Ticket \ posCrossed
  PROVE  /\ Fits(ticket[till[c].t], till[c].pc, till[c].entry, till[c].warning)
         /\ till[c].pc = "insert" => IssuesOf(till[c].t) = {}
BY DEF TillInv, TillKnows

LEMMA SellsMoves ==
  ASSUME Inv, TillInv, NEW c \in Till, NEW t \in Ticket,
         ReadOpenShift(c, t) \/ PostAgain(c, t) \/ LoadForVoid(c, t)
  PROVE  TillMoves(c)
<1>1. IssuesStay /\ UNCHANGED <<ticket, state>>
  BY PosOnlyIssues DEF ReadOpenShift, PostAgain, LoadForVoid
<1>2. PICK k : /\ TakeUp(c, t, k) /\ k.t = t
               /\ k.pc \in {"sell", "post", "shift"}
               /\ k.pc = "shift" => k.entry = ticket[t].stamp
  <2>1. CASE ReadOpenShift(c, t)
    <3>1. PICK k : k = [TillIdle EXCEPT !.pc = "sell", !.t = t]
      OBVIOUS
    <3>2. k.pc = "sell" /\ k.t = t
      BY <3>1 DEF TillIdle
    <3>3. TakeUp(c, t, k)
      BY <2>1, <3>1 DEF ReadOpenShift
    <3> QED  BY <3>2, <3>3
  <2>2. CASE PostAgain(c, t)
    <3>1. PICK k : k = [TillIdle EXCEPT !.pc = "post", !.t = t]
      OBVIOUS
    <3>2. k.pc = "post" /\ k.t = t
      BY <3>1 DEF TillIdle
    <3>3. TakeUp(c, t, k)
      BY <2>2, <3>1 DEF PostAgain
    <3> QED  BY <3>2, <3>3
  <2>3. CASE LoadForVoid(c, t)
    <3>1. PICK k : k = [TillIdle EXCEPT !.pc = "shift", !.t = t, !.entry = ticket[t].stamp]
      OBVIOUS
    <3>2. k.pc = "shift" /\ k.t = t /\ k.entry = ticket[t].stamp
      BY <3>1 DEF TillIdle
    <3>3. TakeUp(c, t, k)
      BY <2>3, <3>1 DEF LoadForVoid
    <3> QED  BY <3>2, <3>3
  <2> QED  BY <2>1, <2>2, <2>3
<1>5. PICK r : r = ticket[t]
  OBVIOUS
<1>6. TillKnows(k)'
  BY <1>1, <1>2, <1>5 DEF TillKnows, Fits
<1>7. /\ till' = [till EXCEPT ![c] = k]
      /\ posCrossed' = IF OnTicket(t) = {} THEN posCrossed ELSE posCrossed \cup {t}
  BY <1>2 DEF TakeUp
<1> QED  BY <1>1, <1>2, <1>6, <1>7, TillMovesOn

LEMMA CommitSaleMoves ==
  ASSUME Inv, TillInv, NEW c \in Till, CommitSale(c)
  PROVE  TillMoves(c)
<1>1. IssuesStay
  BY PosOnlyIssues DEF CommitSale
<1>2. PICK k : k = TillWith(c, "post", till[c].entry, till[c].warning)
  OBVIOUS
<1>3. k.pc = "post" /\ k.t = till[c].t
  BY <1>2, TillWithWarning
<1>4. till' = [till EXCEPT ![c] = k]
  BY <1>2, TillGoes DEF CommitSale
<1>5. TillKnows(k)'
  BY <1>3 DEF TillKnows, Fits
<1>6. \A t \in Ticket : t # till[c].t => ticket'[t] = ticket[t]
  BY DEF CommitSale, Inv, TypeOK, PosTypes
<1> QED  BY <1>1, <1>3, <1>4, <1>5, <1>6, TillMovesOn DEF CommitSale

LEMMA LoadTicketMoves ==
  ASSUME Inv, TillInv, NEW c \in Till, LoadTicket(c)
  PROVE  TillMoves(c)
<1>1. PICK r : r = ticket[till[c].t]
  OBVIOUS
<1>2. PosOnly /\ UNCHANGED <<ticket, posCrossed>>
  BY DEF LoadTicket
<1>3. CASE TillDone(c)
  BY <1>2, <1>3, TillDoneMoves, PosOnlyIssues
<1>4. CASE ~TillDone(c)
  <2>1. /\ r.status # "void"
        /\ till' = [till EXCEPT ![c].entry = r.stamp,
                      ![c].pc = IF r.stamp = None THEN "find" ELSE "stamp"]
    BY <1>1, <1>4 DEF LoadTicket
  <2>2. PICK pc : pc = IF r.stamp = None THEN "find" ELSE "stamp"
    OBVIOUS
  <2>3. till' = [till EXCEPT ![c] = TillWith(c, pc, r.stamp, till[c].warning)]
    BY <2>1, <2>2, TillEntry
  <2>4. Fits(r, pc, r.stamp, till[c].warning) /\ pc # "insert"
    BY <2>1, <2>2 DEF Fits
  <2> QED  BY <1>1, <1>2, <2>3, <2>4, TillThinksOn
<1> QED  BY <1>3, <1>4

LEMMA FindEntryMoves ==
  ASSUME Inv, TillInv, NEW c \in Till, FindEntry(c)
  PROVE  TillMoves(c)
<1>1. PICK e : e = FindEntryBySource(till[c].t)
  OBVIOUS
<1>2. PICK pc : pc = IF e = None THEN "resolve"
                     ELSE IF state[e] = "posted" THEN "stamp" ELSE "submit"
  OBVIOUS
<1>3. till' = [till EXCEPT ![c] = TillWith(c, pc, e, till[c].warning)]
  BY <1>1, <1>2, TillEntry DEF FindEntry
<1>4. till[c].t \in Ticket \ posCrossed =>
        Fits(ticket[till[c].t], pc, e, till[c].warning)
  BY <1>2, TillFits DEF Fits, FindEntry, TillAt
<1>5. PosOnly /\ UNCHANGED <<ticket, posCrossed>>
  BY DEF FindEntry
<1>6. pc # "insert"
  BY <1>2
<1> QED  BY <1>3, <1>4, <1>5, <1>6, TillThinksOn

(* To store that there is nothing. *)
LEMMA StampNothingMoves ==
  ASSUME Inv, TillInv, NEW c \in Till, PosOnly, UNCHANGED <<ticket, posCrossed>>,
         till[c].pc \in {"resolve", "guard", "submit"},
         NEW wn, StampNothing(c, wn)
  PROVE  TillMoves(c)
<1>1. till' = [till EXCEPT ![c] = TillWith(c, "stamp", None, wn)]
  BY DEF StampNothing, TillWith
<1>2. till[c].t \in Ticket \ posCrossed => Fits(ticket[till[c].t], "stamp", None, wn)
  BY TillFits DEF Fits
<1> QED  BY <1>1, <1>2, TillThinksOn

LEMMA ResolveMoves ==
  ASSUME Inv, TillInv, NEW c \in Till, Resolve(c) \/ SubmitRefused(c)
  PROVE  TillMoves(c)
<1>1. PosOnly /\ UNCHANGED <<ticket, posCrossed>> /\ till[c].pc \in {"resolve", "submit"}
  BY DEF Resolve, SubmitRefused, TillAt
<1>2. CASE \E wn : StampNothing(c, wn)
  BY <1>1, <1>2, StampNothingMoves
<1>3. CASE ~\E wn : StampNothing(c, wn)
  <2>1. TillGo(c, "guard") /\ till[c].pc = "resolve"
    BY <1>3 DEF Resolve, SubmitRefused, TillAt
  <2>2. till' = [till EXCEPT ![c] = TillWith(c, "guard", till[c].entry, till[c].warning)]
    BY <2>1, TillGoes
  <2>3. till[c].t \in Ticket \ posCrossed =>
          Fits(ticket[till[c].t], "guard", till[c].entry, till[c].warning)
    BY <2>1, TillFits DEF Fits
  <2> QED  BY <1>1, <2>2, <2>3, TillThinksOn
<1> QED  BY <1>2, <1>3

LEMMA GuardMoves ==
  ASSUME Inv, TillInv, NEW c \in Till, GuardDuplicate(c)
  PROVE  TillMoves(c)
<1>1. till[c].pc = "guard" /\ UNCHANGED <<ticket, posCrossed>>
  BY DEF GuardDuplicate, TillAt
<1>2. CASE IssuesOf(till[c].t) # {}
  <2>1. PosOnly /\ StampNothing(c, "stock")
    BY <1>2 DEF GuardDuplicate, PosOnly, entries
  <2> QED  BY <1>1, <2>1, StampNothingMoves
<1>3. CASE IssuesOf(till[c].t) = {}
  <2>1. UNCHANGED <<rows, source, state>>
    BY DEF GuardDuplicate, book
  <2>2. IssuesStay
    BY <2>1, QuietIssues DEF Inv, TypeOK
  <2>3. PICK t : t = till[c].t
    OBVIOUS
  <2>4. PICK k : k = [till[c] EXCEPT !.pc = "insert", !.entry = next]
    OBVIOUS
  <2>5. till' = [till EXCEPT ![c] = k]
    BY <1>3, <2>4 DEF GuardDuplicate
  <2>6. k.pc = "insert" /\ k.t = t
    <3>1. PICK b : b = till[c]
      OBVIOUS
    <3> QED  BY <2>3, <2>4, <3>1, TillShape DEF TillCall
  <2>7. IssuesOf(t)' = {}
    BY <1>3, <2>1, <2>3 DEF IssuesOf
  <2>8. t \in Ticket \ posCrossed => ticket[t].stamp = None /\ ticket[t].status # "void"
    BY <1>1, <2>3, TillFits DEF Fits
  <2>9. TillKnows(k)'
    <3> SUFFICES ASSUME t \in Ticket \ posCrossed'
                 PROVE  TillKnows(k)'
      BY <2>6 DEF TillKnows
    <3>1. ticket'[t].stamp = None /\ ticket'[t].status # "void"
      BY <1>1, <2>8
    <3>2. Fits(ticket[t], "insert", k.entry, k.warning)'
      BY <3>1 DEF Fits
    <3> QED  BY <2>6, <2>7, <3>2 DEF TillKnows, IssuesOf
  <2> QED  BY <1>1, <2>2, <2>3, <2>5, <2>6, <2>9, TillMovesOn
<1> QED  BY <1>2, <1>3

LEMMA InsertIssueMoves ==
  ASSUME Inv, TillInv, NEW c \in Till, InsertIssue(c)
  PROVE  TillMoves(c)
<1>1. till[c].pc = "insert" /\ UNCHANGED <<ticket, posCrossed>>
  BY DEF InsertIssue, TillAt
<1>2. PICK e, t : e = till[c].entry /\ t = till[c].t
  OBVIOUS
<1>3. Fresh(e) /\ t \in Source /\ InsertDraft(e, t, Bin)
  BY <1>1, <1>2, TillShape DEF InsertIssue, Inv, TillSure, Source
<1>4. IssuesShrink({t}) /\ ReversedStays /\ MakesOne
  BY <1>3, InsertIssues DEF Inv, TypeOK
<1>5. PICK k : k = TillWith(c, "submit", e, till[c].warning)
  OBVIOUS
<1>6. till' = [till EXCEPT ![c] = k]
  BY <1>2, <1>5, TillGoes DEF InsertIssue
<1>7. k.pc = "submit" /\ k.t = t
  BY <1>2, <1>5, TillWithWarning
<1>8. t \in Ticket \ posCrossed => ticket[t].stamp = None /\ ticket[t].status # "void"
  BY <1>1, <1>2, TillFits DEF Fits
<1>9. TillKnows(k)'
  BY <1>1, <1>7, <1>8 DEF TillKnows, Fits
<1> QED  BY <1>1, <1>2, <1>4, <1>6, <1>7, <1>9 DEF TillMoves

LEMMA SubmitIssueMoves ==
  ASSUME Inv, TillInv, NEW c \in Till, SubmitIssue(c)
  PROVE  TillMoves(c)
<1>1. till[c].pc = "submit" /\ UNCHANGED <<ticket, posCrossed>>
  BY DEF SubmitIssue, TillAt
<1>2. PICK e, t : e = till[c].entry /\ t = till[c].t
  OBVIOUS
<1>3. e \in Entry /\ SubmitEntry(e)
  BY <1>1, <1>2, TillShape DEF SubmitIssue, Inv, TillSure, Own
<1>4. IssuesStay
  BY <1>3, SubmitIssues DEF Inv, TypeOK
<1>5. till' = [till EXCEPT ![c] = TillWith(c, "stamp", e, till[c].warning)]
  BY <1>2, TillGoes DEF SubmitIssue
<1>6. PICK wn : wn = till[c].warning
  OBVIOUS
<1>7. t \in Ticket \ posCrossed => Fits(ticket[t], "stamp", e, wn)'
  BY <1>1, <1>2, TillFits DEF Fits
<1> QED  BY <1>1, <1>2, <1>4, <1>5, <1>6, <1>7, TillWithMoves

LEMMA StampTicketMoves ==
  ASSUME Inv, TillInv, NEW c \in Till, StampTicket(c) \/ MarkVoid(c)
  PROVE  TillMoves(c)
<1>1. TillDone(c) /\ UNCHANGED posCrossed
  BY DEF StampTicket, MarkVoid
<1>2. \A t \in Ticket : t # till[c].t => ticket'[t] = ticket[t]
  BY DEF StampTicket, MarkVoid, Inv, TypeOK, PosTypes
<1>3. IssuesStay
  BY PosOnlyIssues DEF StampTicket, MarkVoid
<1> QED  BY <1>1, <1>2, <1>3, TillDoneMoves

LEMMA ReadShiftMoves ==
  ASSUME Inv, TillInv, NEW c \in Till, ReadShift(c)
  PROVE  TillMoves(c)
<1>1. till[c].pc = "shift" /\ PosOnly /\ UNCHANGED <<ticket, posCrossed>>
  BY DEF ReadShift, TillAt
<1>2. CASE TillDone(c)
  BY <1>1, <1>2, TillDoneMoves, PosOnlyIssues
<1>3. CASE ~TillDone(c)
  <2>1. PICK pc : pc = IF till[c].entry = None THEN "void" ELSE "cancel"
    OBVIOUS
  <2>2. TillGo(c, pc)
    BY <1>3, <2>1 DEF ReadShift
  <2>3. till' = [till EXCEPT ![c] = TillWith(c, pc, till[c].entry, till[c].warning)]
    BY <2>2, TillGoes
  <2>4. till[c].t \in Ticket \ posCrossed =>
          Fits(ticket[till[c].t], pc, till[c].entry, till[c].warning)
    BY <1>1, <2>1, TillFits DEF Fits
  <2>5. pc # "insert"
    BY <2>1
  <2> QED  BY <1>1, <2>3, <2>4, <2>5, TillThinksOn
<1> QED  BY <1>2, <1>3

LEMMA CancelIssueMoves ==
  ASSUME Inv, TillInv, NEW c \in Till, CancelIssue(c)
  PROVE  TillMoves(c)
<1>1. till[c].pc = "cancel" /\ UNCHANGED <<ticket, posCrossed>>
  BY DEF CancelIssue, TillAt
<1>2. PICK e, t, wn : e = till[c].entry /\ t = till[c].t /\ wn = till[c].warning
  OBVIOUS
<1>3. e \in Entry /\ CancelEntry(e)
  BY <1>1, <1>2 DEF CancelIssue, Inv, TillSure, Issued, Own
<1>4. IssuesStay /\ state'[e] = "reversed"
  BY <1>3, CancelIssues DEF Inv, TypeOK
<1>5. till' = [till EXCEPT ![c] = TillWith(c, "void", e, wn)]
  BY <1>2, TillGoes DEF CancelIssue
<1>6. t \in Ticket \ posCrossed => Fits(ticket[t], "void", e, wn)'
  BY <1>1, <1>2, <1>4, TillFits DEF Fits
<1> QED  BY <1>1, <1>2, <1>4, <1>5, <1>6, TillWithMoves

LEMMA CancelRefusedMoves ==
  ASSUME Inv, TillInv, NEW c \in Till, CancelRefused(c)
  PROVE  TillMoves(c)
<1>1. PosOnly /\ UNCHANGED <<ticket, posCrossed>>
  BY DEF CancelRefused
<1>2. till' = [till EXCEPT ![c] = TillWith(c, "void", till[c].entry, "void_stock_failed")]
  <2>1. PICK b : b = till[c]
    OBVIOUS
  <2>2. [b EXCEPT !.pc = "void", !.warning = "void_stock_failed"]
        = [b EXCEPT !.pc = "void", !.entry = b.entry, !.warning = "void_stock_failed"]
    BY <2>1, TillShape DEF TillCall
  <2> QED  BY <2>1, <2>2 DEF CancelRefused, TillWith
<1>3. Fits(ticket[till[c].t], "void", till[c].entry, "void_stock_failed")
  BY DEF Fits
<1> QED  BY <1>1, <1>2, <1>3, TillThinksOn

LEMMA CountTakingsMoves ==
  ASSUME Inv, TillInv, NEW c \in Till, CountTakings(c)
  PROVE  TillMoves(c)
<1>1. PICK k : k = [TillIdle EXCEPT !.pc = "close", !.taken = {t \in Ticket : Standing(t)}]
  OBVIOUS
<1>2. k.t = None /\ None \notin Ticket
  BY <1>1, SourcesDiffer DEF TillIdle, Source
<1>3. till' = [till EXCEPT ![c] = k] /\ UNCHANGED <<ticket, posCrossed>> /\ PosOnly
  BY <1>1 DEF CountTakings
<1>4. TillKnows(k)'
  BY <1>2 DEF TillKnows
<1> QED  BY <1>2, <1>3, <1>4, PosOnlyIssues, TillMovesOn

LEMMA CloseShiftMoves ==
  ASSUME Inv, TillInv, NEW c \in Till, CloseShift(c) \/ RequestEnds(c)
  PROVE  TillMoves(c)
BY TillDoneMoves, PosOnlyIssues DEF CloseShift, RequestEnds

LEMMA PosStepMoves ==
  ASSUME Inv, TillInv, NEW c \in Till, PosStep(c)
  PROVE  TillMoves(c)
BY SellsMoves, CommitSaleMoves, LoadTicketMoves, FindEntryMoves, ResolveMoves, GuardMoves,
   InsertIssueMoves, SubmitIssueMoves, StampTicketMoves, ReadShiftMoves, CancelIssueMoves,
   CancelRefusedMoves, CountTakingsMoves, CloseShiftMoves
   DEF PosStep

----------------------------------------------------------------------------
(* The bookings *)

DeskAlone ==
  \A b \in Booking \ deskCrossed : \A c, d \in Desk :
    desk[c].b = b /\ desk[d].b = b => c = d

(* What the accruals of booking b must be for a request that is at pc and   *)
(* has read the rows open.                                                 *)
Covers(b, pc, open) ==
  /\ pc = "accrue" => Settled(b) = {}
  /\ pc \in {"find", "guard", "insert", "submit", "realize"} => RowsOf(b, "open") \subseteq open

(* What a request that is alone on its booking knows. *)
DeskKnows(k) ==
  k.b \in Booking \ deskCrossed =>
    /\ Covers(k.b, k.pc, k.open)
    /\ k.pc = "insert" => IssuesOf(k.b) = {}

Closed(b) == Settled(b) # {} => RowsOf(b, "open") = {}

(* What a step of request c does to the bookings. *)
DeskMoves(c) ==
  /\ \E k : /\ desk' = [desk EXCEPT ![c] = k]
            /\ DeskKnows(k)'
            /\ \/ k.b \in {None, desk[c].b} /\ deskCrossed' = deskCrossed
               \/ \E b \in Booking :
                    /\ k.b = b
                    /\ deskCrossed' = IF AtDesk(b) = {} THEN deskCrossed
                                      ELSE deskCrossed \cup {b}
  /\ \A b \in Booking : b # desk[c].b => accrual'[b] = accrual[b]
  /\ \A b \in Booking \ deskCrossed' : b = desk[c].b => Closed(b)'
  /\ ReversedStays
  /\ IssuesShrink(IF desk[c].pc = "insert" THEN {desk[c].b} ELSE {})
  /\ MakesOne

DeskInv ==
  /\ DeskAlone
  /\ \A c \in Desk : DeskKnows(desk[c])
  /\ NeverResurrected

LEMMA RowsKept ==
  ASSUME NEW b, accrual'[b] = accrual[b]
  PROVE  /\ \A st : RowsOf(b, st)' = RowsOf(b, st)
         /\ Settled(b)' = Settled(b)
BY DEF RowsOf, Settled

LEMMA DeskInvNext ==
  ASSUME Inv, DeskInv, NEW c \in Desk, DeskMoves(c)
  PROVE  /\ DeskInv'
         /\ deskCrossed \subseteq deskCrossed'
<1>1. PICK k : /\ desk' = [desk EXCEPT ![c] = k]
               /\ DeskKnows(k)'
               /\ \/ k.b \in {None, desk[c].b} /\ deskCrossed' = deskCrossed
                  \/ \E b \in Booking :
                       /\ k.b = b
                       /\ deskCrossed' = IF AtDesk(b) = {} THEN deskCrossed
                                         ELSE deskCrossed \cup {b}
  BY DEF DeskMoves
<1>2. desk \in [Desk -> DeskCall]
  BY DEF Inv, TypeOK, BookingTypes
<1>3. desk'[c] = k /\ \A d \in Desk : d # c => desk'[d] = desk[d]
  BY <1>1, <1>2
<1>4. deskCrossed \subseteq deskCrossed'
  BY <1>1
<1>5. ASSUME NEW b \in Booking \ deskCrossed', NEW d \in Desk, d # c, desk[d].b = b
      PROVE  desk[c].b # b /\ k.b # b
  <2>1. desk[c].b # b
    BY <1>4, <1>5 DEF DeskInv, DeskAlone
  <2>2. d \in AtDesk(b) /\ b # None
    BY <1>5, SourcesDiffer DEF AtDesk, Source
  <2> QED  BY <1>1, <1>5, <2>1, <2>2
<1>6. DeskAlone'
  <2> SUFFICES ASSUME NEW b \in Booking \ deskCrossed', NEW d \in Desk, NEW f \in Desk,
                      desk'[d].b = b, desk'[f].b = b, d # f
               PROVE  FALSE
    BY DEF DeskAlone
  <2>1. CASE d = c
    BY <1>3, <1>5, <2>1
  <2>2. CASE f = c
    BY <1>3, <1>5, <2>2
  <2>3. CASE d # c /\ f # c
    BY <1>3, <1>4, <2>3 DEF DeskInv, DeskAlone
  <2> QED  BY <2>1, <2>2, <2>3
<1>7. \A d \in Desk : DeskKnows(desk[d])'
  <2> TAKE d \in Desk
  <2>1. PICK l : l = desk'[d]
    OBVIOUS
  <2>2. DeskKnows(l)'
    <3>1. CASE d = c
      BY <1>1, <1>3, <2>1, <3>1
    <3>2. CASE d # c
      <4> SUFFICES ASSUME l.b \in Booking \ deskCrossed'
                   PROVE  DeskKnows(l)'
        BY DEF DeskKnows
      <4>1. l = desk[d] /\ l.b \in Booking \ deskCrossed
        BY <1>3, <1>4, <2>1, <3>2
      <4>2. DeskKnows(l)
        BY <4>1 DEF DeskInv
      <4>3. PICK b : b = l.b
        OBVIOUS
      <4>4. desk[c].b # b /\ b \in Booking
        BY <1>5, <3>2, <4>1, <4>3
      <4>5. accrual'[b] = accrual[b]
        BY <4>4 DEF DeskMoves
      <4>6. IssuesOf(b)' \subseteq IssuesOf(b)
        BY <4>4 DEF DeskMoves, IssuesShrink, Source
      <4>7. Covers(b, l.pc, l.open)'
        BY <4>1, <4>2, <4>3, <4>5, RowsKept DEF DeskKnows, Covers
      <4>8. (l.pc = "insert" => IssuesOf(b) = {})'
        BY <4>1, <4>2, <4>3, <4>6 DEF DeskKnows
      <4> QED  BY <4>3, <4>7, <4>8 DEF DeskKnows, Covers, Settled, RowsOf, IssuesOf
    <3> QED  BY <3>1, <3>2
  <2> QED  BY <2>1, <2>2 DEF DeskKnows, Covers, Settled, RowsOf, IssuesOf
<1>8. NeverResurrected'
  <2> SUFFICES ASSUME NEW b \in Booking \ deskCrossed'
               PROVE  Closed(b)'
    BY DEF NeverResurrected, Closed
  <2>1. CASE b = desk[c].b
    BY <2>1 DEF DeskMoves
  <2>2. CASE b # desk[c].b
    <3>1. accrual'[b] = accrual[b]
      BY <2>2 DEF DeskMoves
    <3>2. Closed(b)
      BY <1>4 DEF DeskInv, NeverResurrected, Closed
    <3> QED  BY <3>1, <3>2, RowsKept DEF Closed
  <2> QED  BY <2>1, <2>2
<1> QED  BY <1>4, <1>6, <1>7, <1>8 DEF DeskInv

----------------------------------------------------------------------------
(* The steps of the bookings *)

(* A step that makes no issue and leaves the accruals closed. *)
LEMMA DeskMovesOn ==
  ASSUME Inv, DeskInv, NEW c \in Desk, IssuesStay,
         \A b \in Booking : b # desk[c].b => accrual'[b] = accrual[b],
         \A b \in Booking \ deskCrossed' : b = desk[c].b => Closed(b)',
         NEW k, desk' = [desk EXCEPT ![c] = k], DeskKnows(k)',
         \/ k.b \in {None, desk[c].b} /\ deskCrossed' = deskCrossed
         \/ \E b \in Booking :
              /\ k.b = b
              /\ deskCrossed' = IF AtDesk(b) = {} THEN deskCrossed
                                ELSE deskCrossed \cup {b}
  PROVE  DeskMoves(c)
<1>1. IssuesShrink(IF desk[c].pc = "insert" THEN {desk[c].b} ELSE {}) /\ MakesOne
  BY DEF IssuesStay, IssuesShrink, MakesOne
<1> QED  BY <1>1 DEF DeskMoves, IssuesStay

LEMMA AccrualsKept ==
  ASSUME Inv, DeskInv, UNCHANGED accrual, deskCrossed \subseteq deskCrossed'
  PROVE  \A b \in Booking \ deskCrossed' : Closed(b)'
<1> SUFFICES ASSUME NEW b \in Booking \ deskCrossed'
             PROVE  Closed(b)'
  OBVIOUS
<1>1. Closed(b)
  BY DEF DeskInv, NeverResurrected, Closed
<1> QED  BY <1>1, RowsKept DEF Closed

LEMMA DeskOnlyIssues ==
  ASSUME Inv, DeskOnly
  PROVE  IssuesStay
BY QuietIssues DEF DeskOnly, book, entries, Inv, TypeOK

LEMMA DeskDoneMoves ==
  ASSUME Inv, DeskInv, NEW c \in Desk, DeskOnly, DeskDone(c), UNCHANGED deskCrossed,
         \A b \in Booking : b # desk[c].b => accrual'[b] = accrual[b],
         \A b \in Booking \ deskCrossed' : b = desk[c].b => Closed(b)'
  PROVE  DeskMoves(c)
<1>1. PICK k : k = DeskIdle
  OBVIOUS
<1>2. k.b = None /\ None \notin Booking
  BY <1>1, SourcesDiffer DEF DeskIdle, Source
<1>3. DeskKnows(k)'
  BY <1>2 DEF DeskKnows
<1> QED  BY <1>1, <1>2, <1>3, DeskMovesOn, DeskOnlyIssues DEF DeskDone

(* The request returns, and changed nothing. *)
LEMMA DeskReturnsMoves ==
  ASSUME Inv, DeskInv, NEW c \in Desk, DeskOnly, DeskDone(c), UNCHANGED <<accrual, deskCrossed>>
  PROVE  DeskMoves(c)
<1>1. \A b \in Booking \ deskCrossed' : Closed(b)'
  BY AccrualsKept
<1> QED  BY <1>1, DeskDoneMoves

LEMMA DeskWithFields ==
  ASSUME Inv, NEW c \in Desk, NEW pc, NEW e, NEW open, NEW k, k = DeskWith(c, pc, e, open)
  PROVE  k.pc = pc /\ k.entry = e /\ k.open = open /\ k.b = desk[c].b
<1>1. PICK d : d = desk[c]
  OBVIOUS
<1>2. d \in DeskCall
  BY <1>1, DeskShape
<1>3. k = [d EXCEPT !.pc = pc, !.entry = e, !.open = open]
  BY <1>1 DEF DeskWith
<1> QED  BY <1>1, <1>2, <1>3 DEF DeskCall

(* A request goes on with its booking and writes no accrual. *)
LEMMA DeskWithMoves ==
  ASSUME Inv, DeskInv, NEW c \in Desk, IssuesStay, UNCHANGED <<accrual, deskCrossed>>,
         NEW pc, pc # "insert", NEW e, NEW open,
         desk' = [desk EXCEPT ![c] = DeskWith(c, pc, e, open)],
         NEW b, b = desk[c].b,
         b \in Booking \ deskCrossed => Covers(b, pc, open)
  PROVE  DeskMoves(c)
<1>1. PICK k : k = DeskWith(c, pc, e, open)
  OBVIOUS
<1>2. k.pc = pc /\ k.open = open /\ k.b = b
  BY <1>1, DeskWithFields
<1>3. b \in Booking \ deskCrossed => Covers(b, pc, open)'
  BY RowsKept DEF Covers
<1>4. DeskKnows(k)'
  BY <1>2, <1>3 DEF DeskKnows, Covers, Settled, RowsOf
<1>5. \A d \in Booking \ deskCrossed' : Closed(d)'
  BY AccrualsKept
<1> QED  BY <1>1, <1>2, <1>4, <1>5, DeskMovesOn

(* What the request knows now. *)
LEMMA DeskCovers ==
  ASSUME Inv, DeskInv, NEW c \in Desk, desk[c].b \in Booking \ deskCrossed
  PROVE  /\ Covers(desk[c].b, desk[c].pc, desk[c].open)
         /\ desk[c].pc = "insert" => IssuesOf(desk[c].b) = {}
BY DEF DeskInv, DeskKnows

LEMMA BeginsMoves ==
  ASSUME Inv, DeskInv, NEW c \in Desk, NEW b \in Booking,
         CreateBooking(c, b) \/ AdjustAccrual(c, b) \/ Patch(c, b) \/ Complete(c, b)
  PROVE  DeskMoves(c)
<1>1. IssuesStay /\ UNCHANGED accrual
  BY DeskOnlyIssues DEF CreateBooking, AdjustAccrual, Patch, Complete
<1>2. PICK k : Begin(c, b, k) /\ k.b = b /\ k.pc \in {"settled", "set", "open"}
  <2>1. CASE CreateBooking(c, b) \/ AdjustAccrual(c, b)
    <3>1. PICK items :
            Begin(c, b, [DeskIdle EXCEPT !.pc = "settled", !.b = b, !.items = items])
      BY <2>1 DEF CreateBooking, AdjustAccrual
    <3>2. PICK k : k = [DeskIdle EXCEPT !.pc = "settled", !.b = b, !.items = items]
      OBVIOUS
    <3>3. k.b = b /\ k.pc = "settled"
      BY <3>2 DEF DeskIdle
    <3> QED  BY <3>1, <3>2, <3>3
  <2>2. CASE Patch(c, b)
    <3>1. PICK to : Begin(c, b, [DeskIdle EXCEPT !.pc = "set", !.b = b, !.to = to])
      BY <2>2 DEF Patch
    <3>2. PICK k : k = [DeskIdle EXCEPT !.pc = "set", !.b = b, !.to = to]
      OBVIOUS
    <3>3. k.b = b /\ k.pc = "set"
      BY <3>2 DEF DeskIdle
    <3> QED  BY <3>1, <3>2, <3>3
  <2>3. CASE Complete(c, b)
    <3>1. PICK items :
            Begin(c, b, [DeskIdle EXCEPT !.b = b, !.items = items, !.to = "completed",
                           !.pc = IF booking[b] = "completed" THEN "open" ELSE "set"])
      BY <2>3 DEF Complete
    <3>2. PICK pc : pc = IF booking[b] = "completed" THEN "open" ELSE "set"
      OBVIOUS
    <3>3. PICK k : k = [DeskIdle EXCEPT !.b = b, !.items = items, !.to = "completed", !.pc = pc]
      OBVIOUS
    <3>4. k.b = b /\ k.pc \in {"set", "open"}
      BY <3>2, <3>3 DEF DeskIdle
    <3> QED  BY <3>1, <3>2, <3>3, <3>4
  <2> QED  BY <2>1, <2>2, <2>3
<1>3. /\ desk' = [desk EXCEPT ![c] = k]
      /\ deskCrossed' = IF AtDesk(b) = {} THEN deskCrossed ELSE deskCrossed \cup {b}
  BY <1>2 DEF Begin
<1>4. DeskKnows(k)'
  BY <1>2 DEF DeskKnows, Covers
<1>5. \A d \in Booking \ deskCrossed' : Closed(d)'
  BY <1>1, <1>3, AccrualsKept
<1> QED  BY <1>1, <1>2, <1>3, <1>4, <1>5, DeskMovesOn

LEMMA DeskGoMoves ==
  ASSUME Inv, DeskInv, NEW c \in Desk, DeskOnly, UNCHANGED <<accrual, deskCrossed>>,
         NEW pc, pc # "insert", DeskGo(c, pc),
         desk[c].b \in Booking \ deskCrossed => Covers(desk[c].b, pc, desk[c].open)
  PROVE  DeskMoves(c)
<1>1. desk' = [desk EXCEPT ![c] = DeskWith(c, pc, desk[c].entry, desk[c].open)]
  BY DeskGoes
<1>2. PICK b, e, open : b = desk[c].b /\ e = desk[c].entry /\ open = desk[c].open
  OBVIOUS
<1> QED  BY <1>1, <1>2, DeskWithMoves, DeskOnlyIssues

LEMMA ReadSettledMoves ==
  ASSUME Inv, DeskInv, NEW c \in Desk, ReadSettled(c) \/ DeskRefused(c) \/ DeskEnds(c)
  PROVE  DeskMoves(c)
<1>1. DeskOnly /\ UNCHANGED <<accrual, deskCrossed>>
  BY DEF ReadSettled, DeskRefused, DeskEnds
<1>2. CASE DeskDone(c)
  BY <1>1, <1>2, DeskReturnsMoves
<1>3. CASE ~DeskDone(c)
  <2>1. DeskGo(c, "accrue") /\ Settled(desk[c].b) = {}
    BY <1>3 DEF ReadSettled, DeskRefused, DeskEnds
  <2>2. Covers(desk[c].b, "accrue", desk[c].open)
    BY <2>1 DEF Covers
  <2> QED  BY <1>1, <2>1, <2>2, DeskGoMoves
<1> QED  BY <1>2, <1>3

LEMMA SetStatusMoves ==
  ASSUME Inv, DeskInv, NEW c \in Desk, SetBookingStatus(c)
  PROVE  DeskMoves(c)
<1>1. DeskOnly /\ UNCHANGED <<accrual, deskCrossed>>
  BY DEF SetBookingStatus
<1>2. PICK pc \in {"release", "open"} : DeskGo(c, pc) \/ DeskDone(c)
  BY DEF SetBookingStatus
<1>3. Covers(desk[c].b, pc, desk[c].open)
  BY DEF Covers
<1> QED  BY <1>1, <1>2, <1>3, DeskGoMoves, DeskReturnsMoves

LEMMA AccrueMoves ==
  ASSUME Inv, DeskInv, NEW c \in Desk, Accrue(c)
  PROVE  DeskMoves(c)
<1>1. PICK b \in Booking : b = desk[c].b
  BY DeskShape DEF Accrue, DeskAt
<1>2. PICK g : g = CHOOSE x \in Unused(b) : \A y \in Unused(b) : x <= y
  OBVIOUS
<1>3. PICK items : items = desk[c].items
  OBVIOUS
<1>4. PICK f : f = [a \in Accrual |->
                      IF a[1] = g /\ a[2] \in items
                        THEN [NoAccrual EXCEPT !.status = "open"]
                      ELSE IF accrual[b][a].status = "open" THEN NoAccrual
                      ELSE accrual[b][a]]
  OBVIOUS
<1>5. /\ accrual' = [accrual EXCEPT ![b] = f]
      /\ DeskDone(c) /\ DeskOnly /\ UNCHANGED deskCrossed
  BY <1>1, <1>2, <1>3, <1>4 DEF Accrue
<1>6. accrual'[b] = f /\ \A d \in Booking : d # b => accrual'[d] = accrual[d]
  BY <1>5 DEF Inv, TypeOK, BookingTypes
<1>7. ASSUME b \notin deskCrossed
      PROVE  Closed(b)'
  <2>1. Settled(b) = {}
    BY <1>1, <1>7, DeskCovers DEF Covers, Accrue, DeskAt
  <2>2. [NoAccrual EXCEPT !.status = "open"].status = "open" /\ NoAccrual.status = "absent"
    BY DEF NoAccrual
  <2>3. \A a \in Accrual : f[a].status \notin {"realized", "released"}
    <3> TAKE a \in Accrual
    <3>1. accrual[b][a].status \notin {"realized", "released"}
      BY <2>1 DEF Settled, RowsOf
    <3> QED  BY <1>4, <2>2, <3>1
  <2>4. Settled(b)' = {}
    BY <1>6, <2>3 DEF Settled, RowsOf
  <2> QED  BY <2>4 DEF Closed
<1> QED  BY <1>1, <1>5, <1>6, <1>7, DeskDoneMoves

(* A step after which booking b has no open row. *)
LEMMA NoneOpenMoves ==
  ASSUME Inv, DeskInv, NEW c \in Desk, DeskOnly, DeskDone(c), UNCHANGED deskCrossed,
         NEW b \in Booking, b = desk[c].b, NEW f, accrual' = [accrual EXCEPT ![b] = f],
         b \notin deskCrossed => \A a \in Accrual : f[a].status # "open"
  PROVE  DeskMoves(c)
<1>1. accrual'[b] = f /\ \A d \in Booking : d # b => accrual'[d] = accrual[d]
  BY DEF Inv, TypeOK, BookingTypes
<1>2. b \notin deskCrossed => Closed(b)'
  BY <1>1 DEF Closed, RowsOf
<1> QED  BY <1>1, <1>2, DeskDoneMoves

LEMMA ReleaseMoves ==
  ASSUME Inv, DeskInv, NEW c \in Desk, ReleaseAccruals(c)
  PROVE  DeskMoves(c)
<1>1. PICK b \in Booking : b = desk[c].b
  BY DeskShape DEF ReleaseAccruals, DeskAt
<1>2. PICK f : f = [a \in Accrual |-> IF accrual[b][a].status = "open"
                                        THEN [accrual[b][a] EXCEPT !.status = "released"]
                                        ELSE accrual[b][a]]
  OBVIOUS
<1>3. /\ accrual' = [accrual EXCEPT ![b] = f]
      /\ DeskDone(c) /\ DeskOnly /\ UNCHANGED deskCrossed
  BY <1>1, <1>2 DEF ReleaseAccruals
<1>4. \A a \in Accrual : f[a].status # "open"
  <2> TAKE a \in Accrual
  <2>1. PICK r : r = accrual[b][a]
    OBVIOUS
  <2>2. [r EXCEPT !.status = "released"].status = "released"
    BY <2>1, AccrualShape DEF AccrualRow
  <2> QED  BY <1>2, <2>1, <2>2
<1> QED  BY <1>1, <1>3, <1>4, NoneOpenMoves

LEMMA RealizeMoves ==
  ASSUME Inv, DeskInv, NEW c \in Desk, Realize(c)
  PROVE  DeskMoves(c)
<1>1. PICK b \in Booking : b = desk[c].b
  BY DeskShape DEF Realize, DeskAt
<1>2. PICK e, open : e = desk[c].entry /\ open = desk[c].open
  OBVIOUS
<1>3. PICK f : f = [a \in Accrual |->
          CASE a \notin open \/ accrual[b][a].status # "open" -> accrual[b][a]
            [] a \in open /\ accrual[b][a].status = "open" /\ a[2] \in lines[e] ->
                 [status |-> "realized", entry |-> e]
            [] OTHER -> [accrual[b][a] EXCEPT !.status = "released"]]
  OBVIOUS
<1>4. /\ accrual' = [accrual EXCEPT ![b] = f]
      /\ DeskDone(c) /\ DeskOnly /\ UNCHANGED deskCrossed
  BY <1>1, <1>2, <1>3 DEF Realize
<1>5. ASSUME b \notin deskCrossed, NEW a \in Accrual
      PROVE  f[a].status # "open"
  <2>1. PICK r : r = accrual[b][a]
    OBVIOUS
  <2>2. RowsOf(b, "open") \subseteq open
    BY <1>1, <1>2, <1>5, DeskCovers DEF Covers, Realize, DeskAt
  <2>3. r.status = "open" => a \in open
    BY <2>1, <2>2 DEF RowsOf
  <2>4. [r EXCEPT !.status = "released"].status = "released"
    BY <2>1, AccrualShape DEF AccrualRow
  <2>5. CASE r.status # "open"
    <3>1. f[a] = r
      BY <1>3, <2>1, <2>5
    <3> QED  BY <2>5, <3>1
  <2>6. CASE r.status = "open" /\ a[2] \in lines[e]
    <3>1. f[a] = [status |-> "realized", entry |-> e]
      BY <1>3, <2>1, <2>3, <2>6
    <3> QED  BY <3>1
  <2>7. CASE r.status = "open" /\ a[2] \notin lines[e]
    <3>1. f[a] = [r EXCEPT !.status = "released"]
      BY <1>3, <2>1, <2>3, <2>7
    <3> QED  BY <2>4, <3>1
  <2> QED  BY <2>5, <2>6, <2>7
<1> QED  BY <1>1, <1>4, <1>5, NoneOpenMoves

LEMMA ReadOpenMoves ==
  ASSUME Inv, DeskInv, NEW c \in Desk, ReadOpen(c)
  PROVE  DeskMoves(c)
<1>1. PICK b, e, open : /\ b = desk[c].b /\ e = desk[c].entry
                        /\ open = RowsOf(b, "open")
  OBVIOUS
<1>2. desk' = [desk EXCEPT ![c] = DeskWith(c, "find", e, open)]
  <2>1. PICK k : k = desk[c]
    OBVIOUS
  <2>2. [k EXCEPT !.pc = "find", !.open = open]
        = [k EXCEPT !.pc = "find", !.entry = k.entry, !.open = open]
    BY <2>1, DeskShape DEF DeskCall
  <2> QED  BY <1>1, <2>1, <2>2 DEF ReadOpen, DeskWith
<1>3. Covers(b, "find", open)
  BY <1>1 DEF Covers
<1>4. IssuesStay /\ UNCHANGED <<accrual, deskCrossed>>
  BY DeskOnlyIssues DEF ReadOpen
<1> QED  BY <1>1, <1>2, <1>3, <1>4, DeskWithMoves

LEMMA FindIssueMoves ==
  ASSUME Inv, DeskInv, NEW c \in Desk, FindIssue(c)
  PROVE  DeskMoves(c)
<1>1. desk[c].pc = "find" /\ DeskOnly /\ UNCHANGED <<accrual, deskCrossed>>
  BY DEF FindIssue, DeskAt
<1>2. PICK b, e, open : /\ b = desk[c].b /\ open = desk[c].open
                        /\ e = FindEntryBySource(desk[c].b)
  OBVIOUS
<1>3. ASSUME NEW pc \in {"realize", "submit", "guard"}, b \in Booking \ deskCrossed
      PROVE  Covers(b, pc, open)
  BY <1>1, <1>2, <1>3, DeskCovers DEF Covers
<1>4. CASE e # None
  <2>1. PICK pc : pc = IF state[e] = "posted" THEN "realize" ELSE "submit"
    OBVIOUS
  <2>2. desk' = [desk EXCEPT ![c] = DeskWith(c, pc, e, open)]
    <3>1. PICK k : k = desk[c]
      OBVIOUS
    <3>2. [k EXCEPT !.entry = e, !.pc = pc]
          = [k EXCEPT !.pc = pc, !.entry = e, !.open = k.open]
      BY <3>1, DeskShape DEF DeskCall
    <3>3. desk' = [desk EXCEPT ![c] = [k EXCEPT !.entry = e, !.pc = pc]]
      BY <1>2, <1>4, <2>1, <3>1 DEF FindIssue
    <3> QED  BY <1>2, <3>1, <3>2, <3>3 DEF DeskWith
  <2>3. pc \in {"realize", "submit"} /\ pc # "insert"
    BY <2>1
  <2>4. IssuesStay
    BY <1>1, DeskOnlyIssues
  <2>5. b \in Booking \ deskCrossed => Covers(b, pc, open)
    BY <1>3, <2>3
  <2> QED  BY <1>1, <1>2, <2>2, <2>3, <2>4, <2>5, DeskWithMoves
<1>5. CASE e = None
  <2>1. DeskGo(c, "guard") \/ DeskDone(c)
    BY <1>2, <1>5 DEF FindIssue
  <2> QED  BY <1>1, <1>2, <1>3, <2>1, DeskGoMoves, DeskReturnsMoves
<1> QED  BY <1>4, <1>5

LEMMA DeskGuardMoves ==
  ASSUME Inv, DeskInv, NEW c \in Desk, DeskGuard(c)
  PROVE  DeskMoves(c)
<1>1. desk[c].pc = "guard" /\ UNCHANGED <<accrual, deskCrossed>>
  BY DEF DeskGuard, DeskAt
<1>2. CASE IssuesOf(desk[c].b) # {}
  <2>1. DeskOnly /\ DeskDone(c)
    BY <1>2 DEF DeskGuard, DeskOnly, entries
  <2> QED  BY <1>1, <2>1, DeskReturnsMoves
<1>3. CASE IssuesOf(desk[c].b) = {}
  <2>1. UNCHANGED <<rows, source, state>>
    BY DEF DeskGuard, book
  <2>2. IssuesStay
    BY <2>1, QuietIssues DEF Inv, TypeOK
  <2>3. PICK b, open : b = desk[c].b /\ open = desk[c].open
    OBVIOUS
  <2>4. PICK k : k = [desk[c] EXCEPT !.pc = "insert", !.entry = next]
    OBVIOUS
  <2>5. desk' = [desk EXCEPT ![c] = k]
    BY <1>3, <2>4 DEF DeskGuard
  <2>6. k.pc = "insert" /\ k.b = b /\ k.open = open
    <3>1. PICK d : d = desk[c]
      OBVIOUS
    <3> QED  BY <2>3, <2>4, <3>1, DeskShape DEF DeskCall
  <2>7. IssuesOf(b)' = {}
    BY <1>3, <2>1, <2>3 DEF IssuesOf
  <2>8. b \in Booking \ deskCrossed => Covers(b, "insert", open)'
    BY <1>1, <2>3, DeskCovers, RowsKept DEF Covers
  <2>9. DeskKnows(k)'
    BY <1>1, <2>6, <2>7, <2>8 DEF DeskKnows, IssuesOf, Covers, Settled, RowsOf
  <2>10. \A d \in Booking \ deskCrossed' : Closed(d)'
    BY <1>1, AccrualsKept
  <2> QED  BY <1>1, <2>2, <2>3, <2>5, <2>6, <2>9, <2>10, DeskMovesOn
<1> QED  BY <1>2, <1>3

LEMMA DeskInsertMoves ==
  ASSUME Inv, DeskInv, NEW c \in Desk, DeskInsert(c)
  PROVE  DeskMoves(c)
<1>1. desk[c].pc = "insert" /\ UNCHANGED <<accrual, deskCrossed>>
  BY DEF DeskInsert, DeskAt
<1>2. PICK e, b, open, items :
        e = desk[c].entry /\ b = desk[c].b /\ open = desk[c].open /\ items = ToIssue(c)
  OBVIOUS
<1>3. Fresh(e) /\ b \in Source /\ InsertDraft(e, b, items)
  BY <1>1, <1>2, DeskShape DEF DeskInsert, Inv, DeskSure, Source
<1>4. IssuesShrink({b}) /\ ReversedStays /\ MakesOne
  BY <1>3, InsertIssues DEF Inv, TypeOK
<1>5. PICK k : k = DeskWith(c, "submit", e, open)
  OBVIOUS
<1>6. desk' = [desk EXCEPT ![c] = k]
  BY <1>2, <1>5, DeskGoes DEF DeskInsert
<1>7. k.pc = "submit" /\ k.b = b /\ k.open = open
  BY <1>2, <1>5, DeskWithFields
<1>8. b \in Booking \ deskCrossed => Covers(b, "submit", open)'
  BY <1>1, <1>2, DeskCovers, RowsKept DEF Covers
<1>9. DeskKnows(k)'
  BY <1>1, <1>7, <1>8 DEF DeskKnows, Covers, Settled, RowsOf
<1>10. \A d \in Booking \ deskCrossed' : Closed(d)'
  BY <1>1, AccrualsKept
<1> QED  BY <1>1, <1>2, <1>4, <1>6, <1>7, <1>9, <1>10 DEF DeskMoves

LEMMA DeskSubmitMoves ==
  ASSUME Inv, DeskInv, NEW c \in Desk, DeskSubmit(c)
  PROVE  DeskMoves(c)
<1>1. desk[c].pc = "submit" /\ UNCHANGED <<accrual, deskCrossed>>
  BY DEF DeskSubmit, DeskAt
<1>2. PICK e, b, open : e = desk[c].entry /\ b = desk[c].b /\ open = desk[c].open
  OBVIOUS
<1>3. e \in Entry /\ SubmitEntry(e)
  BY <1>1, <1>2, DeskShape DEF DeskSubmit, Inv, DeskSure, Own
<1>4. IssuesStay
  BY <1>3, SubmitIssues DEF Inv, TypeOK
<1>5. desk' = [desk EXCEPT ![c] = DeskWith(c, "realize", e, open)]
  BY <1>2, DeskGoes DEF DeskSubmit
<1>6. b \in Booking \ deskCrossed => Covers(b, "realize", open)
  BY <1>1, <1>2, DeskCovers DEF Covers
<1> QED  BY <1>1, <1>2, <1>4, <1>5, <1>6, DeskWithMoves

LEMMA DeskStepMoves ==
  ASSUME Inv, DeskInv, NEW c \in Desk, DeskStep(c)
  PROVE  DeskMoves(c)
BY BeginsMoves, ReadSettledMoves, AccrueMoves, SetStatusMoves, ReleaseMoves, ReadOpenMoves,
   FindIssueMoves, DeskGuardMoves, DeskInsertMoves, DeskSubmitMoves, RealizeMoves
   DEF DeskStep

----------------------------------------------------------------------------
(* Both together *)

LEMMA TillInvStays ==
  ASSUME Inv, TillInv, UNCHANGED posVars, ReversedStays, IssuesShrink(Booking)
  PROVE  TillInv'
<1>1. UNCHANGED <<ticket, till, posCrossed>>
  BY DEF posVars
<1>2. TillAlone'
  BY <1>1 DEF TillInv, TillAlone
<1>3. ASSUME NEW c \in Till
      PROVE  TillKnows(till[c])'
  <2>1. PICK k : k = till[c]
    OBVIOUS
  <2>2. TillKnows(k)'
    <3> SUFFICES ASSUME k.t \in Ticket \ posCrossed
                 PROVE  TillKnows(k)'
      BY <1>1 DEF TillKnows
    <3>1. TillKnows(k)
      BY <2>1 DEF TillInv
    <3>2. IssuesOf(k.t)' \subseteq IssuesOf(k.t)
      BY SourcesDiffer DEF IssuesShrink, Source
    <3>3. ticket[k.t].stamp # None /\ state[ticket[k.t].stamp] = "reversed"
            => state'[ticket[k.t].stamp] = "reversed"
      BY RowShape DEF ReversedStays, Issued, Own
    <3>4. UNCHANGED ticket[k.t]
      BY <1>1
    <3> QED  BY <3>1, <3>2, <3>3, <3>4 DEF TillKnows, Fits
  <2> QED  BY <1>1, <2>1, <2>2 DEF TillKnows, Fits, IssuesOf
<1> QED  BY <1>2, <1>3 DEF TillInv

LEMMA DeskInvStays ==
  ASSUME Inv, DeskInv, UNCHANGED deskVars, IssuesShrink(Ticket)
  PROVE  DeskInv'
<1>1. UNCHANGED <<accrual, desk, deskCrossed>>
  BY DEF deskVars
<1>2. DeskAlone' /\ NeverResurrected'
  BY <1>1 DEF DeskInv, DeskAlone, NeverResurrected, Settled, RowsOf
<1>3. ASSUME NEW c \in Desk
      PROVE  DeskKnows(desk[c])'
  <2>1. PICK k : k = desk[c]
    OBVIOUS
  <2>2. DeskKnows(k)'
    <3> SUFFICES ASSUME k.b \in Booking \ deskCrossed
                 PROVE  DeskKnows(k)'
      BY <1>1 DEF DeskKnows
    <3>1. DeskKnows(k)
      BY <2>1 DEF DeskInv
    <3>2. IssuesOf(k.b)' \subseteq IssuesOf(k.b)
      BY SourcesDiffer DEF IssuesShrink, Source
    <3>3. UNCHANGED accrual[k.b]
      BY <1>1
    <3> QED  BY <3>1, <3>2, <3>3, RowsKept DEF DeskKnows, Covers
  <2> QED  BY <1>1, <2>1, <2>2 DEF DeskKnows, Covers, Settled, RowsOf, IssuesOf
<1> QED  BY <1>2, <1>3 DEF DeskInv

OneIssueEach ==
  \A s \in Source \ (posCrossed \cup deskCrossed) : \A e, f \in IssuesOf(s) : e = f

(* An issue is made for a source that had none. *)
LEMMA OneEachKept ==
  ASSUME OneIssueEach, posCrossed \subseteq posCrossed', deskCrossed \subseteq deskCrossed',
         NEW X, IssuesShrink(X), MakesOne,
         \A s \in (Source \cap X) \ (posCrossed \cup deskCrossed) : IssuesOf(s) = {}
  PROVE  OneIssueEach'
<1> SUFFICES ASSUME NEW s \in Source \ (posCrossed' \cup deskCrossed')
             PROVE  \A e, f \in IssuesOf(s)' : e = f
  BY DEF OneIssueEach
<1>1. s \notin posCrossed \cup deskCrossed
  OBVIOUS
<1>2. CASE s \in X
  BY <1>1, <1>2 DEF MakesOne
<1>3. CASE s \notin X
  BY <1>1, <1>3 DEF IssuesShrink, OneIssueEach
<1> QED  BY <1>2, <1>3

(* Who writes a ticket's row. *)
LEMMA TicketWriters ==
  ASSUME NEW c \in Till, PosStep(c)
  PROVE  \/ UNCHANGED ticket
         \/ (CommitSale(c) \/ StampTicket(c) \/ MarkVoid(c)) /\ PosOnly
BY DEF PosStep, ReadOpenShift, PostAgain, LoadForVoid, CommitSale, LoadTicket, FindEntry, Resolve,
  GuardDuplicate, InsertIssue, SubmitIssue, SubmitRefused, StampTicket, ReadShift, CancelIssue,
  CancelRefused, MarkVoid, CountTakings, CloseShift, RequestEnds

(* A row that is written keeps its stamp, and is void only if the stock was *)
(* taken back.                                                             *)
RowKept(t) ==
  LET old == ticket[t]
      new == ticket'[t]
  IN /\ old.stamp # None => new.stamp = old.stamp
     /\ \/ new.status # "void"
        \/ new = old
        \/ new.stamp # None => \/ state[new.stamp] = "reversed"
                               \/ new.warning = "void_stock_failed"

LEMMA CommitSaleRow ==
  ASSUME Inv, TillInv, NEW c \in Till, CommitSale(c), NEW t \in Ticket \ posCrossed
  PROVE  RowKept(t)
<1>1. CASE t # till[c].t
  BY <1>1 DEF CommitSale, Inv, TypeOK, PosTypes, RowKept
<1>2. CASE t = till[c].t
  <2>1. PICK old : old = ticket[t]
    OBVIOUS
  <2>2. old \in TicketRow
    BY <2>1, RowShape
  <2>3. ticket'[t] = [old EXCEPT !.status = "submitted"]
    BY <1>2, <2>1 DEF CommitSale, Inv, TypeOK, PosTypes
  <2>4. ticket'[t].stamp = old.stamp /\ ticket'[t].status = "submitted"
    BY <2>2, <2>3 DEF TicketRow
  <2> QED  BY <2>1, <2>4 DEF RowKept
<1> QED  BY <1>1, <1>2

LEMMA StampTicketRow ==
  ASSUME Inv, TillInv, NEW c \in Till, StampTicket(c), NEW t \in Ticket \ posCrossed
  PROVE  RowKept(t)
<1>1. CASE t # till[c].t
  BY <1>1 DEF StampTicket, Inv, TypeOK, PosTypes, RowKept
<1>2. CASE t = till[c].t
  <2>1. PICK old, e, wn : old = ticket[t] /\ e = till[c].entry /\ wn = till[c].warning
    OBVIOUS
  <2>2. old \in TicketRow
    BY <2>1, RowShape
  <2>3. ticket'[t] = [old EXCEPT !.stamp = e, !.warning = wn]
    BY <1>2, <2>1 DEF StampTicket, Inv, TypeOK, PosTypes
  <2>4. ticket'[t].stamp = e /\ ticket'[t].status = old.status
    BY <2>2, <2>3 DEF TicketRow
  <2>5. old.status # "void" /\ (old.stamp # None => e = old.stamp)
    BY <1>2, <2>1, TillFits DEF Fits, StampTicket, TillAt
  <2> QED  BY <2>1, <2>4, <2>5 DEF RowKept
<1> QED  BY <1>1, <1>2

LEMMA MarkVoidRow ==
  ASSUME Inv, TillInv, NEW c \in Till, MarkVoid(c), NEW t \in Ticket \ posCrossed
  PROVE  RowKept(t)
<1>1. CASE t # till[c].t
  BY <1>1 DEF MarkVoid, Inv, TypeOK, PosTypes, RowKept
<1>2. CASE t = till[c].t
  <2>1. PICK old : old = ticket[t]
    OBVIOUS
  <2>2. PICK wn : wn = IF till[c].warning = "none" THEN old.warning ELSE till[c].warning
    OBVIOUS
  <2>3. old \in TicketRow
    BY <2>1, RowShape
  <2>4. ticket'[t] = [old EXCEPT !.status = "void", !.warning = wn]
    BY <1>2, <2>1, <2>2 DEF MarkVoid, Inv, TypeOK, PosTypes
  <2>5. ticket'[t].stamp = old.stamp /\ ticket'[t].warning = wn
    BY <2>3, <2>4 DEF TicketRow
  <2>6. old.stamp # None => state[old.stamp] = "reversed" \/ wn = "void_stock_failed"
    BY <1>2, <2>1, <2>2, TillFits DEF Fits, MarkVoid, TillAt
  <2> QED  BY <2>1, <2>5, <2>6 DEF RowKept
<1> QED  BY <1>1, <1>2

LEMMA RowsKeep ==
  ASSUME Inv, TillInv, NEW c \in Till, PosStep(c)
  PROVE  \A t \in Ticket \ posCrossed : RowKept(t)
<1>1. UNCHANGED ticket => \A t \in Ticket : RowKept(t)
  BY DEF RowKept
<1> QED  BY <1>1, TicketWriters, CommitSaleRow, StampTicketRow, MarkVoidRow

LEMMA VoidKept ==
  ASSUME Inv, VoidTakesBack, ReversedStays, posCrossed \subseteq posCrossed',
         \A t \in Ticket \ posCrossed : RowKept(t), TypeOK'
  PROVE  VoidTakesBack'
<1> SUFFICES ASSUME NEW t \in Ticket \ posCrossed',
                    ticket'[t].status = "void", ticket'[t].stamp # None
             PROVE  \/ state'[ticket'[t].stamp] = "reversed"
                    \/ ticket'[t].warning = "void_stock_failed"
  BY DEF VoidTakesBack
<1>1. PICK e : e = ticket'[t].stamp
  OBVIOUS
<1>2. e \in Entry
  BY <1>1 DEF TypeOK, PosTypes, TicketRow
<1>3. state[e] = "reversed" \/ ticket'[t].warning = "void_stock_failed"
  BY <1>1 DEF RowKept, VoidTakesBack
<1> QED  BY <1>1, <1>2, <1>3 DEF ReversedStays

AloneInv == Inv /\ TillInv /\ DeskInv /\ OneIssueEach /\ VoidTakesBack

LEMMA AlonePos ==
  ASSUME AloneInv, NEW c \in Till, PosStep(c), UNCHANGED deskVars
  PROVE  AloneInv' /\ \A t \in Ticket \ posCrossed : RowKept(t)
<1> USE DEF AloneInv
<1>1. Inv'
  BY PosStepKeeps
<1>2. TillMoves(c)
  BY PosStepMoves
<1>3. TillInv' /\ posCrossed \subseteq posCrossed'
  BY <1>2, TillInvNext
<1>4. PICK X : X = IF till[c].pc = "insert" THEN {till[c].t} ELSE {}
  OBVIOUS
<1>5. IssuesShrink(X) /\ MakesOne /\ ReversedStays
  BY <1>2, <1>4 DEF TillMoves
<1>6. X \subseteq Ticket
  BY <1>4, TillShape
<1>7. IssuesShrink(Ticket)
  BY <1>5, <1>6 DEF IssuesShrink
<1>8. DeskInv'
  BY <1>7, DeskInvStays
<1>9. OneIssueEach'
  <2>1. \A s \in (Source \cap X) \ (posCrossed \cup deskCrossed) : IssuesOf(s) = {}
    BY <1>4, <1>6, TillFits
  <2> QED  BY <1>3, <1>5, <2>1, OneEachKept DEF deskVars
<1>10. \A t \in Ticket \ posCrossed : RowKept(t)
  BY RowsKeep
<1>11. VoidTakesBack'
  BY <1>1, <1>3, <1>5, <1>10, VoidKept DEF Inv
<1> QED  BY <1>1, <1>3, <1>8, <1>9, <1>10, <1>11

LEMMA AloneDesk ==
  ASSUME AloneInv, NEW c \in Desk, DeskStep(c), UNCHANGED posVars
  PROVE  AloneInv'
<1> USE DEF AloneInv
<1>1. Inv'
  BY DeskStepInv
<1>2. DeskMoves(c)
  BY DeskStepMoves
<1>3. DeskInv' /\ deskCrossed \subseteq deskCrossed'
  BY <1>2, DeskInvNext
<1>4. PICK X : X = IF desk[c].pc = "insert" THEN {desk[c].b} ELSE {}
  OBVIOUS
<1>5. IssuesShrink(X) /\ MakesOne /\ ReversedStays
  BY <1>2, <1>4 DEF DeskMoves
<1>6. X \subseteq Booking
  BY <1>4, DeskShape
<1>7. IssuesShrink(Booking)
  BY <1>5, <1>6 DEF IssuesShrink
<1>8. TillInv'
  BY <1>5, <1>7, TillInvStays
<1>9. OneIssueEach'
  <2>1. \A s \in (Source \cap X) \ (posCrossed \cup deskCrossed) : IssuesOf(s) = {}
    BY <1>4, <1>6, DeskCovers
  <2> QED  BY <1>3, <1>5, <2>1, OneEachKept DEF posVars
<1>10. UNCHANGED <<ticket, posCrossed>>
  BY DEF posVars
<1>11. \A t \in Ticket \ posCrossed : RowKept(t)
  BY <1>10 DEF RowKept
<1>12. VoidTakesBack'
  BY <1>1, <1>5, <1>10, <1>11, VoidKept DEF Inv
<1> QED  BY <1>1, <1>3, <1>8, <1>9, <1>12

(* A step of the stock page, or none. *)
LEMMA AloneStock ==
  ASSUME AloneInv, Inv', IssuesStay, UNCHANGED <<posVars, deskVars>>
  PROVE  AloneInv'
<1> USE DEF AloneInv
<1>1. IssuesShrink(Ticket) /\ IssuesShrink(Booking) /\ ReversedStays /\ MakesOne
  BY DEF IssuesStay, IssuesShrink, MakesOne
<1>2. TillInv' /\ DeskInv'
  BY <1>1, TillInvStays, DeskInvStays
<1>3. UNCHANGED <<ticket, posCrossed, deskCrossed>>
  BY DEF posVars, deskVars
<1>4. OneIssueEach'
  BY <1>1, <1>3, OneEachKept DEF IssuesStay
<1>5. \A t \in Ticket \ posCrossed : RowKept(t)
  BY <1>3 DEF RowKept
<1>6. VoidTakesBack'
  BY <1>1, <1>3, <1>5, VoidKept DEF Inv
<1> QED  BY <1>2, <1>4, <1>6

LEMMA AloneNext ==
  ASSUME AloneInv, [Next]_vars
  PROVE  /\ AloneInv'
         /\ \A t \in Ticket \ posCrossed : RowKept(t)
<1>1. CASE \E c \in Till : PosStep(c) /\ UNCHANGED deskVars
  BY <1>1, AlonePos
<1>2. CASE \E c \in Desk : DeskStep(c) /\ UNCHANGED posVars
  <2>1. AloneInv'
    BY <1>2, AloneDesk
  <2>2. UNCHANGED ticket
    BY <1>2 DEF posVars
  <2> QED  BY <2>1, <2>2 DEF RowKept
<1>3. CASE StockPageActs \/ UNCHANGED vars
  <2>1. UNCHANGED <<posVars, deskVars>>
    BY <1>3 DEF StockPageActs, vars
  <2>2. Inv'
    BY <1>3, StockPageInv, InvStutters DEF AloneInv
  <2>3. StockTypes
    BY DEF AloneInv, Inv, TypeOK
  <2>4. IssuesStay
    <3>1. CASE StockPageActs
      <4>1. PICK e \in Entry : StockPage(e)
        BY <3>1 DEF StockPageActs
      <4> QED  BY <2>3, <4>1, SubmitIssues, CancelIssues, UpdateIssues, DeleteIssues DEF StockPage
    <3>2. CASE UNCHANGED vars
      BY <2>3, <3>2, QuietIssues DEF vars, book, entries
    <3> QED  BY <1>3, <3>1, <3>2
  <2>5. UNCHANGED ticket
    BY <2>1 DEF posVars
  <2> QED  BY <2>1, <2>2, <2>4, <2>5, AloneStock DEF RowKept
<1> QED  BY <1>1, <1>2, <1>3 DEF Next

LEMMA AloneInit == Init => AloneInv
<1> SUFFICES ASSUME Init
             PROVE  AloneInv
  OBVIOUS
<1>1. PICK open \in BOOLEAN : PosInit(open)
  BY DEF Init
<1>2. /\ \A c \in Till : till[c].pc = "idle" /\ till[c].t = None
      /\ \A c \in Desk : desk[c].pc = "idle" /\ desk[c].b = None
  BY <1>1 DEF Init, PosInit, BookingInit, TillIdle, DeskIdle
<1>3. None \notin Ticket /\ None \notin Booking
  BY SourcesDiffer DEF Source
<1>4. TillInv
  BY <1>2, <1>3 DEF TillInv, TillAlone, TillKnows
<1>5. \A b \in Booking : Settled(b) = {}
  BY DEF Init, BookingInit, NoAccrual, Settled, RowsOf
<1>6. DeskInv
  BY <1>2, <1>3, <1>5 DEF DeskInv, DeskAlone, DeskKnows, NeverResurrected
<1>7. OneIssueEach
  BY DEF Init, SourcedInit, OneIssueEach, IssuesOf
<1>8. VoidTakesBack
  BY <1>1 DEF PosInit, VoidTakesBack
<1> QED  BY <1>4, <1>6, <1>7, <1>8, InvInit DEF AloneInv

LEMMA AloneKept == Spec => []AloneInv
<1>1. AloneInv /\ [Next]_vars => AloneInv'
  BY AloneNext
<1> QED  BY <1>1, AloneInit, PTL DEF Spec

----------------------------------------------------------------------------
(* The shift *)

Stands == {t \in Ticket : Standing(t)}

(* Requests whose next step changes what the takings should be, or counts. *)
Unsettling == {"sell", "cancel", "void", "close"}

ShiftInv ==
  ~straddled =>
    /\ \A c, d \in Till : till[c].pc = "close" /\ till[d].pc \in Unsettling => c = d
    /\ \A c \in Till : till[c].pc = "close" =>
         till[c].taken = Stands
    /\ shift.status = "closed" =>
         /\ \A c \in Till : till[c].pc \notin Unsettling
         /\ shift.expected = Stands

TillPc(c, pc) ==
  /\ till'[c].pc = pc
  /\ \A d \in Till : d # c => till'[d] = till[d]

LEMMA PcSet ==
  ASSUME Inv, NEW c \in Till, NEW k, till' = [till EXCEPT ![c] = k]
  PROVE  TillPc(c, k.pc) /\ till'[c] = k
BY DEF Inv, TypeOK, PosTypes, TillPc

LEMMA PcEntry ==
  ASSUME Inv, NEW c \in Till, NEW pc, NEW e,
         till' = [till EXCEPT ![c].entry = e, ![c].pc = pc]
  PROVE  TillPc(c, pc)
<1>1. till' = [till EXCEPT ![c] = TillWith(c, pc, e, till[c].warning)]
  BY TillEntry
<1>2. PICK k : k = TillWith(c, pc, e, till[c].warning)
  OBVIOUS
<1>3. till' = [till EXCEPT ![c] = k]
  BY <1>1, <1>2
<1>4. k.pc = pc
  BY <1>2, TillWithWarning
<1> QED  BY <1>3, <1>4, PcSet

LEMMA PcGo ==
  ASSUME Inv, NEW c \in Till, NEW pc, TillGo(c, pc)
  PROVE  TillPc(c, pc)
<1>1. PICK k : k = TillWith(c, pc, till[c].entry, till[c].warning)
  OBVIOUS
<1>2. till' = [till EXCEPT ![c] = k]
  BY <1>1, TillGoes
<1>3. k.pc = pc
  BY <1>1, TillWithWarning
<1> QED  BY <1>2, <1>3, PcSet

LEMMA PcDone ==
  ASSUME Inv, NEW c \in Till, TillDone(c)
  PROVE  TillPc(c, "idle")
<1>1. PICK k : k = TillIdle
  OBVIOUS
<1>2. k.pc = "idle"
  BY <1>1 DEF TillIdle
<1>3. till' = [till EXCEPT ![c] = k]
  BY <1>1 DEF TillDone
<1> QED  BY <1>2, <1>3, PcSet

LEMMA PcStamp ==
  ASSUME Inv, NEW c \in Till, NEW wn, StampNothing(c, wn)
  PROVE  TillPc(c, "stamp")
<1>1. till' = [till EXCEPT ![c] = TillWith(c, "stamp", None, wn)]
  BY DEF StampNothing, TillWith
<1>2. PICK k : k = TillWith(c, "stamp", None, wn)
  OBVIOUS
<1>3. till' = [till EXCEPT ![c] = k]
  BY <1>1, <1>2
<1>4. k.pc = "stamp"
  BY <1>2, TillWithWarning
<1> QED  BY <1>3, <1>4, PcSet

(* A request that neither counts nor changes what stands, nor is about to   *)
(* if it was not before.                                                   *)
LEMMA ShiftCalm ==
  ASSUME Inv, ShiftInv, NEW c \in Till, NEW pc, TillPc(c, pc),
         UNCHANGED <<shift, straddled>>, \A t \in Ticket : Standing(t)' = Standing(t),
         pc # "close", pc \in Unsettling => till[c].pc \in Unsettling
  PROVE  ShiftInv'
<1>1. Stands' = Stands
  BY DEF Stands
<1>2. ASSUME NEW d \in Till
      PROVE  /\ till'[d].pc = "close" => d # c /\ till'[d] = till[d]
             /\ till'[d].pc \in Unsettling => till[d].pc \in Unsettling
  BY DEF TillPc
<1> SUFFICES ASSUME ~straddled
             PROVE  ShiftInv'
  BY DEF ShiftInv
<1>3. \A d, f \in Till : till'[d].pc = "close" /\ till'[f].pc \in Unsettling => d = f
  BY <1>2 DEF ShiftInv
<1>4. \A d \in Till : till'[d].pc = "close" => till'[d].taken = Stands
  BY <1>2 DEF ShiftInv
<1>5. shift.status = "closed" =>
        /\ \A d \in Till : till'[d].pc \notin Unsettling
        /\ shift.expected = Stands
  BY <1>2 DEF ShiftInv
<1> QED  BY <1>1, <1>3, <1>4, <1>5 DEF ShiftInv, Unsettling

LEMMA ShiftTakesUp ==
  ASSUME Inv, ShiftInv, NEW c \in Till, NEW t \in Ticket,
         ReadOpenShift(c, t) \/ PostAgain(c, t) \/ LoadForVoid(c, t)
  PROVE  ShiftInv'
<1>1. UNCHANGED <<shift, ticket>> /\ \A u \in Ticket : Standing(u)' = Standing(u)
  BY DEF ReadOpenShift, PostAgain, LoadForVoid, Standing
<1>2. CASE ReadOpenShift(c, t)
  <2>1. PICK k : k = [TillIdle EXCEPT !.pc = "sell", !.t = t]
    OBVIOUS
  <2>2. k.pc = "sell"
    BY <2>1 DEF TillIdle
  <2>3. till' = [till EXCEPT ![c] = k]
    BY <1>2, <2>1 DEF ReadOpenShift, TakeUp
  <2>4. TillPc(c, "sell")
    BY <2>2, <2>3, PcSet
  <2> SUFFICES ASSUME ~straddled'
               PROVE  ShiftInv'
    BY DEF ShiftInv
  <2>5. ~straddled /\ shift.status = "open" /\ \A d \in Till : till[d].pc # "close"
    BY <1>2 DEF ReadOpenShift, TillAt
  <2>6. \A d \in Till : till'[d].pc # "close"
    BY <2>4, <2>5 DEF TillPc
  <2> QED  BY <1>1, <2>5, <2>6 DEF ShiftInv
<1>3. CASE PostAgain(c, t) \/ LoadForVoid(c, t)
  <2>1. PICK pc, k : /\ pc \in {"post", "shift"} /\ k.pc = pc
                     /\ till' = [till EXCEPT ![c] = k]
    <3>1. CASE PostAgain(c, t)
      <4>1. PICK k : k = [TillIdle EXCEPT !.pc = "post", !.t = t]
        OBVIOUS
      <4>2. k.pc = "post"
        BY <4>1 DEF TillIdle
      <4> QED  BY <3>1, <4>1, <4>2 DEF PostAgain, TakeUp
    <3>2. CASE LoadForVoid(c, t)
      <4>1. PICK k : k = [TillIdle EXCEPT !.pc = "shift", !.t = t, !.entry = ticket[t].stamp]
        OBVIOUS
      <4>2. k.pc = "shift"
        BY <4>1 DEF TillIdle
      <4> QED  BY <3>2, <4>1, <4>2 DEF LoadForVoid, TakeUp
    <3> QED  BY <1>3, <3>1, <3>2
  <2>2. TillPc(c, pc)
    BY <2>1, PcSet
  <2>3. UNCHANGED straddled
    BY <1>3 DEF PostAgain, LoadForVoid
  <2>4. pc \notin Unsettling /\ pc # "close"
    BY <2>1 DEF Unsettling
  <2> QED  BY <1>1, <2>2, <2>3, <2>4, ShiftCalm
<1> QED  BY <1>2, <1>3

(* The tickets that stand change while no one counts. *)
LEMMA ShiftMoves ==
  ASSUME Inv, ShiftInv, NEW c \in Till, till[c].pc \in {"sell", "void"}, NEW pc,
         TillPc(c, pc), pc \notin Unsettling, UNCHANGED <<shift, straddled>>
  PROVE  ShiftInv'
<1> SUFFICES ASSUME ~straddled
             PROVE  ShiftInv'
  BY DEF ShiftInv
<1>1. till[c].pc \in Unsettling /\ till[c].pc # "close"
  BY DEF Unsettling
<1>2. shift.status # "closed" /\ \A d \in Till : till[d].pc # "close"
  BY <1>1 DEF ShiftInv
<1>3. \A d \in Till : till'[d].pc # "close"
  BY <1>2 DEF TillPc, Unsettling
<1> QED  BY <1>2, <1>3 DEF ShiftInv

LEMMA ShiftSale ==
  ASSUME Inv, ShiftInv, NEW c \in Till, CommitSale(c) \/ MarkVoid(c)
  PROVE  ShiftInv'
<1>1. till[c].pc \in {"sell", "void"} /\ UNCHANGED <<shift, straddled>>
  BY DEF CommitSale, MarkVoid, TillAt
<1>2. PICK pc \in {"post", "idle"} : TillPc(c, pc)
  BY PcGo, PcDone DEF CommitSale, MarkVoid
<1>3. pc \notin Unsettling
  BY <1>2 DEF Unsettling
<1> QED  BY <1>1, <1>2, <1>3, ShiftMoves

LEMMA ShiftStamp ==
  ASSUME Inv, ShiftInv, NEW c \in Till, StampTicket(c)
  PROVE  ShiftInv'
<1>1. \A t \in Ticket : Standing(t)' = Standing(t)
  <2> TAKE t \in Ticket
  <2>1. PICK old, e, wn : old = ticket[t] /\ e = till[c].entry /\ wn = till[c].warning
    OBVIOUS
  <2>2. old \in TicketRow
    BY <2>1, RowShape
  <2>3. ticket'[t] = old \/ ticket'[t] = [old EXCEPT !.stamp = e, !.warning = wn]
    BY <2>1 DEF StampTicket, Inv, TypeOK, PosTypes
  <2>4. [old EXCEPT !.stamp = e, !.warning = wn].status = old.status
    BY <2>2 DEF TicketRow
  <2> QED  BY <2>1, <2>3, <2>4 DEF Standing
<1>2. TillPc(c, "idle") /\ UNCHANGED <<shift, straddled>>
  BY PcDone DEF StampTicket
<1> QED  BY <1>1, <1>2, ShiftCalm DEF Unsettling

LEMMA ShiftVoid ==
  ASSUME Inv, ShiftInv, NEW c \in Till, ReadShift(c)
  PROVE  ShiftInv'
<1>1. UNCHANGED <<shift, ticket>> /\ \A t \in Ticket : Standing(t)' = Standing(t)
  BY DEF ReadShift, Standing
<1> SUFFICES ASSUME ~straddled'
             PROVE  ShiftInv'
  BY DEF ShiftInv
<1>2. ~straddled /\ UNCHANGED straddled /\ \A d \in Till : till[d].pc # "close"
  BY DEF ReadShift, TillAt, Inv, TypeOK, PosTypes
<1>3. CASE shift.status = "open"
  <2>1. PICK pc \in {"void", "cancel"} : TillGo(c, pc)
    BY <1>3 DEF ReadShift
  <2>2. TillPc(c, pc)
    BY <2>1, PcGo
  <2>3. \A d \in Till : till'[d].pc # "close"
    BY <1>2, <2>1, <2>2 DEF TillPc
  <2> QED  BY <1>1, <1>3, <2>3 DEF ShiftInv
<1>4. CASE shift.status # "open"
  <2>1. TillPc(c, "idle")
    BY <1>4, PcDone DEF ReadShift
  <2> QED  BY <1>1, <1>2, <2>1, ShiftCalm DEF Unsettling
<1> QED  BY <1>3, <1>4

(* Steps of the stock: no ticket and no shift. *)
LEMMA ShiftGoes ==
  ASSUME Inv, ShiftInv, NEW c \in Till,
         \/ LoadTicket(c) \/ FindEntry(c) \/ Resolve(c) \/ GuardDuplicate(c)
         \/ InsertIssue(c) \/ SubmitIssue(c) \/ SubmitRefused(c)
         \/ CancelIssue(c) \/ CancelRefused(c) \/ RequestEnds(c)
  PROVE  ShiftInv'
<1>1. UNCHANGED <<shift, ticket, straddled>>
  BY DEF LoadTicket, FindEntry, Resolve, GuardDuplicate, InsertIssue, SubmitIssue, SubmitRefused,
     CancelIssue, CancelRefused, RequestEnds
<1>2. \A t \in Ticket : Standing(t)' = Standing(t)
  BY <1>1 DEF Standing
<1>3. PICK pc : /\ TillPc(c, pc)
                /\ pc # "close"
                /\ pc \in Unsettling => till[c].pc \in Unsettling
  <2>1. CASE LoadTicket(c) \/ RequestEnds(c)
    <3>1. CASE TillDone(c)
      BY <3>1, PcDone DEF Unsettling
    <3>2. CASE ~TillDone(c)
      <4>1. PICK pc, e :
              /\ pc \in {"find", "stamp"}
              /\ till' = [till EXCEPT ![c].entry = e, ![c].pc = pc]
        BY <2>1, <3>2 DEF LoadTicket, RequestEnds
      <4>2. TillPc(c, pc)
        BY <4>1, PcEntry
      <4> QED  BY <4>1, <4>2 DEF Unsettling
    <3> QED  BY <3>1, <3>2
  <2>2. CASE FindEntry(c)
    <3>1. PICK e, pc : /\ e = FindEntryBySource(till[c].t)
                       /\ pc = IF e = None THEN "resolve"
                               ELSE IF state[e] = "posted" THEN "stamp" ELSE "submit"
      OBVIOUS
    <3>2. till' = [till EXCEPT ![c].entry = e, ![c].pc = pc]
      BY <2>2, <3>1 DEF FindEntry
    <3>3. TillPc(c, pc)
      BY <3>2, PcEntry
    <3>4. pc \in {"resolve", "stamp", "submit"}
      BY <3>1
    <3> QED  BY <3>3, <3>4 DEF Unsettling
  <2>3. CASE Resolve(c) \/ SubmitRefused(c)
    BY <2>3, PcGo, PcStamp DEF Resolve, SubmitRefused, Unsettling
  <2>4. CASE GuardDuplicate(c)
    <3>1. CASE IssuesOf(till[c].t) # {}
      BY <2>4, <3>1, PcStamp DEF GuardDuplicate, Unsettling
    <3>2. CASE IssuesOf(till[c].t) = {}
      <4>1. PICK b, k : b = till[c] /\ k = [b EXCEPT !.pc = "insert", !.entry = next]
        OBVIOUS
      <4>2. k.pc = "insert"
        BY <4>1, TillShape DEF TillCall
      <4>3. till' = [till EXCEPT ![c] = k]
        BY <2>4, <3>2, <4>1 DEF GuardDuplicate
      <4> QED  BY <4>2, <4>3, PcSet DEF Unsettling
    <3> QED  BY <3>1, <3>2
  <2>5. CASE InsertIssue(c) \/ SubmitIssue(c)
    BY <2>5, PcGo DEF InsertIssue, SubmitIssue, Unsettling
  <2>6. CASE CancelIssue(c)
    BY <2>6, PcGo DEF CancelIssue, TillAt, Unsettling
  <2>7. CASE CancelRefused(c)
    <3>1. PICK b, k : b = till[c] /\ k = [b EXCEPT !.pc = "void", !.warning = "void_stock_failed"]
      OBVIOUS
    <3>2. k.pc = "void"
      BY <3>1, TillShape DEF TillCall
    <3>3. till' = [till EXCEPT ![c] = k]
      BY <2>7, <3>1 DEF CancelRefused
    <3>4. till[c].pc = "cancel"
      BY <2>7 DEF CancelRefused, TillAt
    <3> QED  BY <3>2, <3>3, <3>4, PcSet DEF Unsettling
  <2> QED  BY <2>1, <2>2, <2>3, <2>4, <2>5, <2>6, <2>7
<1> QED  BY <1>1, <1>2, <1>3, ShiftCalm

LEMMA ShiftCounts ==
  ASSUME Inv, ShiftInv, NEW c \in Till, CountTakings(c)
  PROVE  ShiftInv'
<1>1. PICK S : S = Stands
  OBVIOUS
<1>2. PICK k : k = [TillIdle EXCEPT !.pc = "close", !.taken = S]
  OBVIOUS
<1>3. k.pc = "close" /\ k.taken = S
  BY <1>2 DEF TillIdle
<1>4. till' = [till EXCEPT ![c] = k]
  BY <1>1, <1>2 DEF CountTakings, Stands
<1>5. TillPc(c, "close") /\ till'[c].taken = S
  BY <1>3, <1>4, PcSet
<1>6. Stands' = S
  BY <1>1 DEF CountTakings, Stands, Standing
<1> SUFFICES ASSUME ~straddled'
             PROVE  ShiftInv'
  BY DEF ShiftInv
<1>7. \A d \in Till : till[d].pc \notin Unsettling
  BY DEF CountTakings, Unsettling
<1>8. shift'.status = "open"
  BY DEF CountTakings
<1> QED  BY <1>5, <1>6, <1>7, <1>8 DEF ShiftInv, TillPc, Unsettling

LEMMA ShiftCloses ==
  ASSUME Inv, ShiftInv, NEW c \in Till, CloseShift(c)
  PROVE  ShiftInv'
<1>1. TillPc(c, "idle") /\ UNCHANGED <<ticket, straddled>>
  BY PcDone DEF CloseShift
<1>2. Stands' = Stands
  BY <1>1 DEF Stands, Standing
<1> SUFFICES ASSUME ~straddled
             PROVE  ShiftInv'
  BY <1>1 DEF ShiftInv
<1>3. till[c].pc = "close" /\ till[c].taken = Stands
  BY DEF CloseShift, TillAt, ShiftInv
<1>4. shift'.expected = Stands
  BY <1>3 DEF CloseShift
<1>5. \A d \in Till : d # c => till[d].pc \notin Unsettling
  BY <1>3 DEF ShiftInv
<1>6. \A d \in Till : till'[d].pc \notin Unsettling
  BY <1>1, <1>5 DEF TillPc, Unsettling
<1>7. \A d \in Till : till'[d].pc # "close"
  BY <1>6 DEF Unsettling
<1> QED  BY <1>2, <1>4, <1>6, <1>7 DEF ShiftInv

LEMMA ShiftNext ==
  ASSUME Inv, ShiftInv, [Next]_vars
  PROVE  ShiftInv'
<1>1. CASE \E c \in Till : PosStep(c)
  BY <1>1, ShiftTakesUp, ShiftSale, ShiftStamp, ShiftVoid, ShiftGoes, ShiftCounts, ShiftCloses
     DEF PosStep
<1>2. CASE UNCHANGED posVars
  BY <1>2 DEF posVars, ShiftInv, Stands, Standing
<1> QED  BY <1>1, <1>2 DEF Next, StockPageActs, vars

LEMMA ShiftStart ==
  ASSUME Init
  PROVE  ShiftInv
<1>1. PICK open \in BOOLEAN : PosInit(open)
  BY DEF Init
<1>2. \A c \in Till : till[c].pc = "idle"
  BY <1>1 DEF PosInit, TillIdle
<1>3. Stands = {} /\ shift.expected = {}
  BY <1>1 DEF PosInit, Stands, Standing
<1> QED  BY <1>2, <1>3 DEF ShiftInv, Unsettling
----------------------------------------------------------------------------
(* Theorems *)

(* A ticket or a booking on which one request at a time is at work has one *)
(* issue, although the guard against a second is a read before the insert, *)
(* and although requests end anywhere and the stock page submits, cancels  *)
(* and deletes the same entries.                                           *)
THEOREM OneIssue == Spec => []OneIssuePerSource
<1>1. ASSUME AloneInv
      PROVE  OneIssuePerSource
  <2> SUFFICES ASSUME NEW s \in Source \ (posCrossed \cup deskCrossed)
               PROVE  Cardinality(IssuesOf(s)) <= 1
    BY DEF OneIssuePerSource, IssuesOf
  <2>1. \A e, f \in IssuesOf(s) : e = f
    BY <1>1 DEF AloneInv, OneIssueEach
  <2>2. CASE IssuesOf(s) = {}
    BY <2>2, FS_EmptySet
  <2>3. CASE IssuesOf(s) # {}
    <3>1. PICK e : e \in IssuesOf(s)
      BY <2>3
    <3>2. IssuesOf(s) = {e}
      BY <2>1, <3>1
    <3> QED  BY <3>2, FS_Singleton
  <2> QED  BY <2>2, <2>3
<1> QED  BY <1>1, AloneKept, PTL

(* The stamp of such a ticket is for good: a retry that starts before the  *)
(* stamp is set, or fails after it, does not lose it.                      *)
THEOREM StampsStay == Spec => StampKept
<1>1. ASSUME AloneInv, [Next]_vars
      PROVE  [\A t \in Ticket : t \notin posCrossed /\ ticket[t].stamp # None =>
                ticket'[t].stamp = ticket[t].stamp]_<<posVars, book, entries>>
  BY <1>1, AloneNext DEF RowKept
<1> QED  BY <1>1, AloneKept, PTL DEF Spec, StampKept

(* When such a ticket is void, the issue it was stamped with is taken back *)
(* or the ticket carries the warning: nothing is stamped after the void,   *)
(* and nothing that is taken back comes again.                             *)
THEOREM VoidsTakeBack == Spec => []VoidTakesBack
BY AloneKept, PTL DEF AloneInv

(* No row of such a booking is open beside a settled one: between the read *)
(* that finds nothing settled and the insert nobody settles anything.      *)
THEOREM NotResurrected == Spec => []NeverResurrected
<1>1. AloneInv => NeverResurrected
  BY DEF AloneInv, DeskInv
<1> QED  BY <1>1, AloneKept, PTL

(* The takings a shift was closed with are those of the tickets that stand *)
(* when no sale, void or count met the closing: for any number of tickets, *)
(* retries and voids before and stock postings after it.                   *)
THEOREM ShiftsAddUp == Spec => []ShiftAddsUp
<1>1. Inv /\ ShiftInv /\ [Next]_vars => ShiftInv'
  BY ShiftNext
<1>2. ShiftInv => ShiftAddsUp
  BY DEF ShiftInv, ShiftAddsUp, Stands
<1> QED  BY <1>1, <1>2, ShiftStart, InvKept, PTL DEF Spec

============================================================================
