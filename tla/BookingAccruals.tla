-------------------------- MODULE BookingAccruals --------------------------
(***************************************************************************)
(* The stock a booking is expected to use (stock-accruals.service.ts):     *)
(* accrued when it is made or adjusted, released when it is cancelled,     *)
(* realized, as a stock issue, when it is completed.  Bookings and         *)
(* accruals are written in transactions of their own.                      *)
(***************************************************************************)
EXTENDS SourcedIssue

CONSTANTS
  Desk,     \* requests
  MaxTimes  \* bound: times a booking is accrued

VARIABLES
  booking,     \* status in sched_bookings
  accrual,     \* rows of stk_accruals: of the g-th time b was accrued, for an item
  desk,        \* what each request knows
  deskCrossed  \* history: bookings on which two requests were at work at once

deskVars == <<booking, accrual, desk, deskCrossed>>

Statuses == {"absent", "accepted", "completed", "cancelled", "no_show"}
Releasing == {"cancelled", "no_show"}  \* 'rejected' is as 'cancelled'
Time == 1 .. MaxTimes
Accrual == Time \X Bin

AccrualRow == [status : {"absent", "open", "realized", "released"},
               entry : Entry \cup {None}]
NoAccrual == [status |-> "absent", entry |-> None]

(* pc: the call about to be made.  entry: the issue in hand; open: the     *)
(* open rows that were read; items: what to accrue or to issue; to: the    *)
(* status to set.                                                          *)
DeskCall == [pc : {"idle", "settled", "accrue", "booking", "set", "release",
                   "open", "find", "guard", "insert", "submit", "realize"},
             b : Booking \cup {None}, entry : Entry \cup {None},
             open : SUBSET Accrual, items : SUBSET Bin,
             to : Statuses \cup {None}]

DeskIdle == [pc |-> "idle", b |-> None, entry |-> None, open |-> {},
             items |-> {}, to |-> None]

DeskAt(c, pc) == desk[c].pc = pc

DeskGo(c, pc) == desk' = [desk EXCEPT ![c].pc = pc]

DeskDone(c) == desk' = [desk EXCEPT ![c] = DeskIdle]

AtDesk(b) == {c \in Desk : desk[c].b = b}

Begin(c, b, call) ==
  /\ DeskAt(c, "idle")
  /\ desk' = [desk EXCEPT ![c] = call]
  /\ deskCrossed' = IF AtDesk(b) = {} THEN deskCrossed ELSE deskCrossed \cup {b}

DeskOnly == UNCHANGED <<book, entries>>

RowsOf(b, status) == {a \in Accrual : accrual[b][a].status = status}

Settled(b) == RowsOf(b, "realized") \cup RowsOf(b, "released")
----------------------------------------------------------------------------
(* A booking is made, and accrued after the commit; its accrual is         *)
(* adjusted later.                                                         *)

CreateBooking(c, b) ==
  /\ booking[b] = "absent"
  /\ \E items \in SUBSET Bin \ {{}} :
       Begin(c, b, [DeskIdle EXCEPT !.pc = "settled", !.b = b, !.items = items])
  /\ booking' = [booking EXCEPT ![b] = "accepted"]
  /\ DeskOnly /\ UNCHANGED accrual

AdjustAccrual(c, b) ==
  /\ booking[b] # "absent"
  /\ \E items \in SUBSET Bin \ {{}} :
       Begin(c, b, [DeskIdle EXCEPT !.pc = "settled", !.b = b, !.items = items])
  /\ DeskOnly /\ UNCHANGED <<booking, accrual>>

(* Mutant of ReadSettled: settled rows are not looked for. *)
ReadNothing(c) ==
  /\ DeskAt(c, "settled")
  /\ DeskGo(c, "accrue")
  /\ DeskOnly /\ UNCHANGED <<booking, accrual, deskCrossed>>

(* accrueConsumption reads whether the source is settled ... *)
ReadSettled(c) ==
  /\ DeskAt(c, "settled")
  /\ IF Settled(desk[c].b) = {} THEN DeskGo(c, "accrue") ELSE DeskDone(c)
  /\ DeskOnly /\ UNCHANGED <<booking, accrual, deskCrossed>>

Unused(b) == {g \in Time : \A h \in Time, i \in Bin :
                             h >= g => accrual[b][<<h, i>>].status = "absent"}

(* ... and replaces the open rows. *)
Accrue(c) ==
  LET b == desk[c].b
  IN /\ DeskAt(c, "accrue")
     /\ Unused(b) # {}
     /\ LET g == CHOOSE x \in Unused(b) : \A y \in Unused(b) : x <= y
        IN accrual' = [accrual EXCEPT ![b] = [a \in Accrual |->
             IF a[1] = g /\ a[2] \in desk[c].items
               THEN [NoAccrual EXCEPT !.status = "open"]
             ELSE IF accrual[b][a].status = "open" THEN NoAccrual
             ELSE accrual[b][a]]]
     /\ DeskDone(c)
     /\ DeskOnly /\ UNCHANGED <<booking, deskCrossed>>
----------------------------------------------------------------------------
(* Status changes *)

(* PATCH: any status, whatever the booking's is. *)
Patch(c, b) ==
  /\ booking[b] # "absent"
  /\ \E to \in Statuses \ {"absent"} :
       Begin(c, b, [DeskIdle EXCEPT !.pc = "set", !.b = b, !.to = to])
  /\ DeskOnly /\ UNCHANGED <<booking, accrual>>

(* POST .../complete refuses a booking that is cancelled, and leaves the   *)
(* status of a completed one alone; its dialog may name the items used.    *)
Complete(c, b) ==
  /\ booking[b] \notin {"absent", "cancelled"}
  /\ \E items \in SUBSET Bin :
       Begin(c, b, [DeskIdle EXCEPT !.b = b, !.items = items, !.to = "completed",
                      !.pc = IF booking[b] = "completed" THEN "open" ELSE "set"])
  /\ DeskOnly /\ UNCHANGED <<booking, accrual>>

(* setBookingStatus, by id. *)
SetBookingStatus(c) ==
  LET to == desk[c].to
  IN /\ DeskAt(c, "set")
     /\ booking' = [booking EXCEPT ![desk[c].b] = to]
     /\ CASE to \in Releasing  -> DeskGo(c, "release")
          [] to = "completed"  -> DeskGo(c, "open")
          [] OTHER             -> DeskDone(c)
     /\ DeskOnly /\ UNCHANGED <<accrual, deskCrossed>>

ReleaseAccruals(c) ==
  /\ DeskAt(c, "release")
  /\ accrual' = [accrual EXCEPT ![desk[c].b] =
                   [a \in Accrual |-> IF @[a].status = "open"
                                        THEN [@[a] EXCEPT !.status = "released"]
                                        ELSE @[a]]]
  /\ DeskDone(c)
  /\ DeskOnly /\ UNCHANGED <<booking, deskCrossed>>
----------------------------------------------------------------------------
(* realizeAccruals *)

ReadOpen(c) ==
  /\ DeskAt(c, "open")
  /\ desk' = [desk EXCEPT ![c].pc = "find",
                          ![c].open = RowsOf(desk[c].b, "open")]
  /\ DeskOnly /\ UNCHANGED <<booking, accrual, deskCrossed>>

(* The items of the dialog, or else those of the open rows; with neither   *)
(* there is nothing to issue.                                              *)
ToIssue(c) ==
  IF desk[c].items # {} THEN desk[c].items ELSE {a[2] : a \in desk[c].open}

FindIssue(c) ==
  LET e == FindEntryBySource(desk[c].b)
  IN /\ DeskAt(c, "find")
     /\ CASE e # None -> desk' = [desk EXCEPT ![c].entry = e, ![c].pc =
                                     IF state[e] = "posted" THEN "realize"
                                     ELSE "submit"]
          [] e = None /\ ToIssue(c) # {} -> DeskGo(c, "guard")
          [] OTHER -> DeskDone(c)
     /\ DeskOnly /\ UNCHANGED <<booking, accrual, deskCrossed>>

DeskGuard(c) ==
  /\ DeskAt(c, "guard")
  /\ IF IssuesOf(desk[c].b) # {}
       THEN DeskDone(c) /\ UNCHANGED next
       ELSE /\ Reserve
            /\ desk' = [desk EXCEPT ![c].pc = "insert", ![c].entry = next]
  /\ UNCHANGED <<book, rows, source, lines, booking, accrual, deskCrossed>>

DeskInsert(c) ==
  /\ DeskAt(c, "insert")
  /\ InsertDraft(desk[c].entry, desk[c].b, ToIssue(c))
  /\ DeskGo(c, "submit")
  /\ UNCHANGED <<booking, accrual, deskCrossed>>

DeskSubmit(c) ==
  /\ DeskAt(c, "submit")
  /\ SubmitEntry(desk[c].entry)
  /\ DeskGo(c, "realize")
  /\ UNCHANGED <<booking, accrual, deskCrossed>>

(* Mutant of DeskRefused: the accruals are realized all the same. *)
RealizeRefused(c) ==
  /\ DeskAt(c, "submit")
  /\ ~Submittable(desk[c].entry)
  /\ DeskGo(c, "realize")
  /\ DeskOnly /\ UNCHANGED <<booking, accrual, deskCrossed>>

(* A StockError: the draft stands, the accruals stay open. *)
DeskRefused(c) ==
  /\ DeskAt(c, "submit")
  /\ ~Submittable(desk[c].entry)
  /\ DeskDone(c)
  /\ DeskOnly /\ UNCHANGED <<booking, accrual, deskCrossed>>

(* Mutant of Realize: rows are stamped that are no longer open. *)
RealizeAll(c) ==
  LET e == desk[c].entry
  IN /\ DeskAt(c, "realize")
     /\ accrual' = [accrual EXCEPT ![desk[c].b] = [a \in Accrual |->
          CASE a \notin desk[c].open -> @[a]
            [] a \in desk[c].open /\ a[2] \in lines[e] ->
                 [status |-> "realized", entry |-> e]
            [] OTHER -> [@[a] EXCEPT !.status = "released"]]]
     /\ DeskDone(c)
     /\ DeskOnly /\ UNCHANGED <<booking, deskCrossed>>

(* The rows that were read, as far as they are still open: realized if the *)
(* ledger has their item under the entry, else superseded.  (The ledger    *)
(* keeps an entry's rows when it is cancelled.)                            *)
Realize(c) ==
  LET e == desk[c].entry
  IN /\ DeskAt(c, "realize")
     /\ accrual' = [accrual EXCEPT ![desk[c].b] = [a \in Accrual |->
          CASE a \notin desk[c].open \/ @[a].status # "open" -> @[a]
            [] a \in desk[c].open /\ @[a].status = "open" /\ a[2] \in lines[e] ->
                 [status |-> "realized", entry |-> e]
            [] OTHER -> [@[a] EXCEPT !.status = "released"]]]
     /\ DeskDone(c)
     /\ DeskOnly /\ UNCHANGED <<booking, deskCrossed>>
----------------------------------------------------------------------------
DeskEnds(c) ==
  /\ ~DeskAt(c, "idle")
  /\ DeskDone(c)
  /\ DeskOnly /\ UNCHANGED <<booking, accrual, deskCrossed>>

BookingInit ==
  /\ booking = [b \in Booking |-> "absent"]
  /\ accrual = [b \in Booking |-> [a \in Accrual |-> NoAccrual]]
  /\ desk = [c \in Desk |-> DeskIdle]
  /\ deskCrossed = {}

DeskStep(c) ==
  \/ \E b \in Booking : \/ CreateBooking(c, b) \/ AdjustAccrual(c, b)
                        \/ Patch(c, b) \/ Complete(c, b)
  \/ ReadSettled(c) \/ Accrue(c)
  \/ SetBookingStatus(c) \/ ReleaseAccruals(c)
  \/ ReadOpen(c) \/ FindIssue(c) \/ DeskGuard(c) \/ DeskInsert(c)
  \/ DeskSubmit(c) \/ DeskRefused(c) \/ Realize(c)
  \/ DeskEnds(c)
----------------------------------------------------------------------------
(* Properties *)

BookingTypes ==
  /\ booking \in [Booking -> Statuses]
  /\ accrual \in [Booking -> [Accrual -> AccrualRow]]
  /\ desk \in [Desk -> DeskCall]
  /\ deskCrossed \subseteq Booking

(* A realized accrual names an issue of its booking that moved its item,   *)
(* whoever completes, cancels or adjusts the booking beside it.            *)
RealizedByIssue ==
  \A b \in Booking, a \in Accrual : accrual[b][a].status = "realized" =>
    LET e == accrual[b][a].entry
    IN source[e] = b /\ state[e] # "open" /\ a[2] \in lines[e]

(* "A source with any realized/released row is settled and never           *)
(* resurrected": no row is open beside a settled one (unless two requests  *)
(* were at work on the booking at once).                                   *)
NeverResurrected ==
  \A b \in Booking \ deskCrossed : Settled(b) # {} => RowsOf(b, "open") = {}

(* A settled row stays as it is, whatever requests overlap. *)
SettledRowsStay ==
  [][\A b \in Booking : \A a \in Settled(b) : accrual'[b][a] = accrual[b][a]]_deskVars
============================================================================
