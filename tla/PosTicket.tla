----------------------------- MODULE PosTicket -----------------------------
(***************************************************************************)
(* The point of sale (pos.service.ts): tickets are sold, their stock is    *)
(* issued afterwards (postTicketStock, again by hand if it failed), they   *)
(* are voided, and the shift is counted and closed.  Each database call of *)
(* a request is a step; a request may end between any two.                 *)
(***************************************************************************)
EXTENDS SourcedIssue

CONSTANTS Till  \* requests

VARIABLES
  shift,      \* pos_shifts: the one shift
  ticket,     \* pos_tickets
  till,       \* what each request knows
  posCrossed, \* history: tickets on which two requests were at work at once
  straddled   \* history: a sale, a void or another count met a closing

posVars == <<shift, ticket, till, posCrossed, straddled>>

TicketRow == [status : {"absent", "submitted", "void"},
              stamp : Entry \cup {None},
              warning : {"none", "stock", "void_stock_failed"}]

(* pc: the call about to be made.  entry: the entry in hand, or the stamp  *)
(* that was read; warning: what is to be stored; taken: the tickets whose  *)
(* payments were summed up.                                                *)
TillCall == [pc : {"idle", "sell", "post", "find", "resolve", "guard",
                   "insert", "submit", "stamp",
                   "shift", "cancel", "void", "close"},
             t : Ticket \cup {None}, entry : Entry \cup {None},
             warning : {"none", "stock", "void_stock_failed"},
             taken : SUBSET Ticket]

TillIdle == [pc |-> "idle", t |-> None, entry |-> None, warning |-> "none",
             taken |-> {}]

TillAt(c, pc) == till[c].pc = pc

TillGo(c, pc) == till' = [till EXCEPT ![c].pc = pc]

TillDone(c) == till' = [till EXCEPT ![c] = TillIdle]

OnTicket(t) == {c \in Till : till[c].t = t}

(* A request takes up ticket t. *)
TakeUp(c, t, call) ==
  /\ TillAt(c, "idle")
  /\ till' = [till EXCEPT ![c] = call]
  /\ posCrossed' = IF OnTicket(t) = {} THEN posCrossed ELSE posCrossed \cup {t}

PosOnly == UNCHANGED <<book, entries>>
----------------------------------------------------------------------------
(* A sale *)

(* The open shift is read in the transaction of the sale ... *)
ReadOpenShift(c, t) ==
  /\ ticket[t].status = "absent"
  /\ OnTicket(t) = {}
  /\ shift.status = "open"
  /\ TakeUp(c, t, [TillIdle EXCEPT !.pc = "sell", !.t = t])
  /\ straddled' = (straddled \/ \E d \in Till : TillAt(d, "close"))
  /\ PosOnly /\ UNCHANGED <<shift, ticket>>

(* ... which commits the ticket with its payments; the stock follows. *)
CommitSale(c) ==
  /\ TillAt(c, "sell")
  /\ ticket' = [ticket EXCEPT ![till[c].t].status = "submitted"]
  /\ TillGo(c, "post")
  /\ PosOnly /\ UNCHANGED <<shift, posCrossed, straddled>>
----------------------------------------------------------------------------
(* postTicketStock *)

PostAgain(c, t) ==
  /\ ticket[t].status = "submitted"
  /\ TakeUp(c, t, [TillIdle EXCEPT !.pc = "post", !.t = t])
  /\ PosOnly /\ UNCHANGED <<shift, ticket, straddled>>

(* Mutant of LoadTicket: a stamp is not looked at. *)
LoadTicketAnew(c) ==
  /\ TillAt(c, "post")
  /\ IF ticket[till[c].t].status = "void" THEN TillDone(c) ELSE TillGo(c, "find")
  /\ PosOnly /\ UNCHANGED <<shift, ticket, posCrossed, straddled>>

(* A void ticket is refused, a stamped one is done (but for a warning). *)
LoadTicket(c) ==
  LET row == ticket[till[c].t]
  IN /\ TillAt(c, "post")
     /\ IF row.status = "void" \/ (row.stamp # None /\ row.warning = "none")
          THEN TillDone(c)
          ELSE till' = [till EXCEPT ![c].entry = row.stamp,
                          ![c].pc = IF row.stamp = None THEN "find" ELSE "stamp"]
     /\ PosOnly /\ UNCHANGED <<shift, ticket, posCrossed, straddled>>

FindEntry(c) ==
  LET e == FindEntryBySource(till[c].t)
  IN /\ TillAt(c, "find")
     /\ till' = [till EXCEPT ![c].entry = e,
                   ![c].pc = IF e = None THEN "resolve"
                             ELSE IF state[e] = "posted" THEN "stamp"
                             ELSE "submit"]
     /\ PosOnly /\ UNCHANGED <<shift, ticket, posCrossed, straddled>>

(* To store that there is no entry, with or without a warning. *)
StampNothing(c, warning) ==
  till' = [till EXCEPT ![c].pc = "stamp", ![c].entry = None,
                       ![c].warning = warning]

(* Lines and warehouse: there may be nothing to issue, or nowhere to issue *)
(* it from.                                                                *)
Resolve(c) ==
  /\ TillAt(c, "resolve")
  /\ \/ TillGo(c, "guard")
     \/ StampNothing(c, "none")
     \/ StampNothing(c, "stock")
  /\ PosOnly /\ UNCHANGED <<shift, ticket, posCrossed, straddled>>

GuardDuplicate(c) ==
  /\ TillAt(c, "guard")
  /\ IF IssuesOf(till[c].t) # {}
       THEN StampNothing(c, "stock") /\ UNCHANGED next
       ELSE /\ Reserve
            /\ till' = [till EXCEPT ![c].pc = "insert", ![c].entry = next]
  /\ UNCHANGED <<book, rows, source, lines, shift, ticket, posCrossed, straddled>>

InsertIssue(c) ==
  /\ TillAt(c, "insert")
  /\ InsertDraft(till[c].entry, till[c].t, Bin)
  /\ TillGo(c, "submit")
  /\ UNCHANGED <<shift, ticket, posCrossed, straddled>>

SubmitIssue(c) ==
  /\ TillAt(c, "submit")
  /\ SubmitEntry(till[c].entry)
  /\ TillGo(c, "stamp")
  /\ UNCHANGED <<shift, ticket, posCrossed, straddled>>

(* Mutant of SubmitRefused: the draft is stamped. *)
StampDraft(c) ==
  /\ TillAt(c, "submit")
  /\ ~Submittable(till[c].entry)
  /\ TillGo(c, "stamp")
  /\ PosOnly /\ UNCHANGED <<shift, ticket, posCrossed, straddled>>

(* A StockError: too little stock, or no longer a draft. *)
SubmitRefused(c) ==
  /\ TillAt(c, "submit")
  /\ ~Submittable(till[c].entry)
  /\ StampNothing(c, "stock")
  /\ PosOnly /\ UNCHANGED <<shift, ticket, posCrossed, straddled>>

(* stampTicketStock, by id: whatever has been stamped meanwhile. *)
StampTicket(c) ==
  /\ TillAt(c, "stamp")
  /\ ticket' = [ticket EXCEPT ![till[c].t].stamp = till[c].entry,
                              ![till[c].t].warning = till[c].warning]
  /\ TillDone(c)
  /\ PosOnly /\ UNCHANGED <<shift, posCrossed, straddled>>
----------------------------------------------------------------------------
(* voidTicket.  Its refusal of a ticket that is reconciled to an invoice is *)
(* left out: nothing in the code writes pos_tickets.invoice_provider_ref.  *)

LoadForVoid(c, t) ==
  /\ ticket[t].status = "submitted"
  /\ TakeUp(c, t, [TillIdle EXCEPT !.pc = "shift", !.t = t,
                                   !.entry = ticket[t].stamp])
  /\ PosOnly /\ UNCHANGED <<shift, ticket, straddled>>

(* Mutant of ReadShift: tickets of a closed shift are voided as well. *)
AnyShift(c) ==
  /\ TillAt(c, "shift")
  /\ TillGo(c, IF till[c].entry = None THEN "void" ELSE "cancel")
  /\ straddled' = (straddled \/ \E d \in Till : TillAt(d, "close"))
  /\ PosOnly /\ UNCHANGED <<shift, ticket, posCrossed>>

(* Mutant of ReadShift: the issue is left alone. *)
VoidOnly(c) ==
  /\ TillAt(c, "shift")
  /\ IF shift.status = "open" THEN TillGo(c, "void") ELSE TillDone(c)
  /\ straddled' = (straddled \/ \E d \in Till : TillAt(d, "close"))
  /\ PosOnly /\ UNCHANGED <<shift, ticket, posCrossed>>

(* Tickets of a closed shift are not voided. *)
ReadShift(c) ==
  /\ TillAt(c, "shift")
  /\ IF shift.status = "open"
       THEN TillGo(c, IF till[c].entry = None THEN "void" ELSE "cancel")
       ELSE TillDone(c)
  /\ straddled' = (straddled \/ \E d \in Till : TillAt(d, "close"))
  /\ PosOnly /\ UNCHANGED <<shift, ticket, posCrossed>>

CancelIssue(c) ==
  /\ TillAt(c, "cancel")
  /\ CancelEntry(till[c].entry)
  /\ TillGo(c, "void")
  /\ UNCHANGED <<shift, ticket, posCrossed, straddled>>

(* A StockError is a warning, and the void goes on. *)
CancelRefused(c) ==
  /\ TillAt(c, "cancel")
  /\ ~Cancellable(till[c].entry)
  /\ till' = [till EXCEPT ![c].pc = "void", ![c].warning = "void_stock_failed"]
  /\ PosOnly /\ UNCHANGED <<shift, ticket, posCrossed, straddled>>

(* Mutant of MarkVoid: a status there is none of. *)
MarkCancelled(c) ==
  /\ TillAt(c, "void")
  /\ ticket' = [ticket EXCEPT ![till[c].t].status = "cancelled"]
  /\ TillDone(c)
  /\ PosOnly /\ UNCHANGED <<shift, posCrossed, straddled>>

MarkVoid(c) ==
  /\ TillAt(c, "void")
  /\ ticket' = [ticket EXCEPT ![till[c].t].status = "void",
                              ![till[c].t].warning =
                                 IF till[c].warning = "none" THEN @
                                 ELSE till[c].warning]
  /\ TillDone(c)
  /\ PosOnly /\ UNCHANGED <<shift, posCrossed, straddled>>
----------------------------------------------------------------------------
(* closeShift, one transaction: the payments are summed up, then the shift *)
(* that was found open is closed, by id.                                   *)

Standing(t) == ticket[t].status = "submitted"

CountTakings(c) ==
  /\ TillAt(c, "idle")
  /\ shift.status = "open"
  /\ till' = [till EXCEPT ![c] = [TillIdle EXCEPT !.pc = "close",
                                    !.taken = {t \in Ticket : Standing(t)}]]
  /\ straddled' = (straddled \/ \E d \in Till :
                     till[d].pc \in {"sell", "cancel", "void", "close"})
  /\ PosOnly /\ UNCHANGED <<shift, ticket, posCrossed>>

CloseShift(c) ==
  /\ TillAt(c, "close")
  /\ shift' = [status |-> "closed", expected |-> till[c].taken]
  /\ TillDone(c)
  /\ PosOnly /\ UNCHANGED <<ticket, posCrossed, straddled>>
----------------------------------------------------------------------------
(* The request ends, or fails otherwise than with a StockError. *)
RequestEnds(c) ==
  /\ ~TillAt(c, "idle")
  /\ TillDone(c)
  /\ PosOnly /\ UNCHANGED <<shift, ticket, posCrossed, straddled>>

PosInit(open) ==
  /\ shift = [status |-> IF open THEN "open" ELSE "closed", expected |-> {}]
  /\ ticket = [t \in Ticket |->
                 [status |-> "absent", stamp |-> None, warning |-> "none"]]
  /\ till = [c \in Till |-> TillIdle]
  /\ posCrossed = {}
  /\ straddled = FALSE

PosStep(c) ==
  \/ \E t \in Ticket : ReadOpenShift(c, t) \/ PostAgain(c, t) \/ LoadForVoid(c, t)
  \/ CommitSale(c)
  \/ LoadTicket(c) \/ FindEntry(c) \/ Resolve(c) \/ GuardDuplicate(c)
  \/ InsertIssue(c) \/ SubmitIssue(c) \/ SubmitRefused(c) \/ StampTicket(c)
  \/ ReadShift(c) \/ CancelIssue(c) \/ CancelRefused(c) \/ MarkVoid(c)
  \/ CountTakings(c) \/ CloseShift(c)
  \/ RequestEnds(c)
----------------------------------------------------------------------------
(* Properties *)

PosTypes ==
  /\ shift \in [status : {"open", "closed"}, expected : SUBSET Ticket]
  /\ ticket \in [Ticket -> TicketRow]
  /\ till \in [Till -> TillCall]
  /\ posCrossed \subseteq Ticket
  /\ straddled \in BOOLEAN

(* What a ticket names is an issue that was made for it and did move its   *)
(* stock, whoever else posts, voids or works on the stock page.            *)
StampIsOwnIssue ==
  \A t \in Ticket : ticket[t].stamp # None =>
    source[ticket[t].stamp] = t /\ state[ticket[t].stamp] # "open"

(* A stamp is for good: no later attempt, and no failure of one, loses the *)
(* issue that a void would have to cancel (unless two requests were at     *)
(* work on the ticket at once).                                            *)
StampKept ==
  [][\A t \in Ticket : t \notin posCrossed /\ ticket[t].stamp # None =>
       ticket'[t].stamp = ticket[t].stamp]_<<posVars, book, entries>>

(* A void takes back the stock the ticket was charged with, or says that   *)
(* it could not.                                                           *)
VoidTakesBack ==
  \A t \in Ticket :
    ticket[t].status = "void" /\ t \notin posCrossed /\ ticket[t].stamp # None =>
      \/ state[ticket[t].stamp] = "reversed"
      \/ ticket[t].warning = "void_stock_failed"

(* The takings a shift was closed with are those of the tickets that stand *)
(* (unless a sale, a void or a second count met the closing).              *)
ShiftAddsUp ==
  shift.status = "closed" /\ ~straddled =>
    shift.expected = {t \in Ticket : Standing(t)}

(* The same without exception, as the design has it ("Expected cash = float *)
(* + the cash of non-void tickets", a void "is blocked once the shift is   *)
(* closed").  It does not hold: a sale or a void that read the shift as    *)
(* open commits after the payments were summed up.                         *)
ExpectedIsStanding ==
  shift.status = "closed" => shift.expected = {t \in Ticket : Standing(t)}
============================================================================
