---------------------------- MODULE GatewayLease ----------------------------
(***************************************************************************)
(* The assignment lease of src/server/services/gateway-lease.service.ts:   *)
(* which gateway instance serves one organisation on one build channel.    *)
(* Requests resolve the instance from the lease row (page loads, no        *)
(* network) or revalidate it by probing (a connect failed, a timer).       *)
(*                                                                         *)
(* One (org, channel) pair; pairs do not share rows.  Every SQL statement  *)
(* and every probe is a step.  An instance is up when it would accept a    *)
(* WebSocket upgrade within the probe's time.  A statement may fail; the   *)
(* code swallows that and goes on as if it had found nothing.  The verdict *)
(* is a revalidation's; what the row remembers of the last healthy probe   *)
(* (last_healthy_at, shown with a resolved endpoint) is left out.          *)
(***************************************************************************)
EXTENDS Naturals, FiniteSets

CONSTANTS
  Gateway,   \* instances
  Order,     \* Order[g]: place in (created_at, id) order
  Resolver,  \* requests that may be under way at the same time
  None

ASSUME OrderAssumption ==
  /\ Order \in [Gateway -> Nat]
  /\ \A g, h \in Gateway : Order[g] = Order[h] => g = h
ASSUME ResolverAssumption == IsFiniteSet(Gateway) /\ IsFiniteSet(Resolver)
ASSUME NoneAssumption == None \notin Gateway

VARIABLES
  rows,     \* the gateways assigned to the org on the channel
  lease,    \* the gateway_lease row; gw = None when there is none
  up,       \* the instances that accept upgrades
  call,     \* what each request has read and decided, and its history
  answer    \* what is known of the instance its last call returned

vars == <<rows, lease, up, call, answer>>

Lease == [gw : Gateway \cup {None}, live : BOOLEAN]

Kind == {"resolve", "revalidate"}

(* holder: the lease holder found; left: candidates not yet probed; target: *)
(* the one to take the lease for, or to keep it for, once its probe was    *)
(* fine.  History: calm, no statement of it failed and no row changed;     *)
(* seen, who held a live lease since the call began, as long as it is calm. *)
Call == [pc : {"idle", "read", "check", "renew", "expire", "walk", "acquire", "reread"},
         kind : Kind, cands : SUBSET Gateway, holder : Gateway \cup {None},
         left : SUBSET Gateway, target : Gateway \cup {None},
         seen : SUBSET Gateway, calm : BOOLEAN]

Resting == [pc |-> "idle", kind |-> "resolve", cands |-> {}, holder |-> None,
            left |-> {}, target |-> None, seen |-> {}, calm |-> TRUE]

(* verdict: healthy of a revalidation's answer, "down" when nothing probed  *)
(* healthy, "none" when nothing was asked, and "unknown" of a call that was *)
(* disturbed; held: the instance held a live lease during the call.        *)
Answer == [verdict : {"unknown", "none", "healthy", "down"}, held : BOOLEAN]

NoAnswer == [verdict |-> "unknown", held |-> FALSE]

First(S) == CHOOSE g \in S : \A h \in S : Order[g] <= Order[h]

Holding(l) == IF l.live THEN {l.gw} ELSE {}

At(r, pc) == call[r].pc = pc

Witness(c, l) ==
  [r \in Resolver |->
     IF c[r].pc # "idle" /\ c[r].calm
       THEN [c[r] EXCEPT !.seen = @ \cup Holding(l)] ELSE c[r]]

(* r goes on with the call c and the lease becomes l; every call under way *)
(* is a witness to its holder.                                             *)
Go(r, c, l) ==
  /\ lease' = l
  /\ call' = Witness([call EXCEPT ![r] = c], l)
  /\ UNCHANGED answer

Return(r, c, gw, verdict, l) ==
  /\ lease' = l
  /\ call' = Witness([call EXCEPT ![r] = Resting], l)
  /\ answer' = [answer EXCEPT ![r] =
       IF c.calm /\ c.seen \subseteq c.cands
         THEN [verdict |-> verdict, held |-> gw \in c.seen \cup Holding(l)]
         ELSE NoAnswer]

Disturbed(c) == IF c.pc = "idle" THEN c ELSE [c EXCEPT !.calm = FALSE, !.seen = {}]

(* The call r, after a statement that worked or failed. *)
After(r, works) == IF works THEN call[r] ELSE Disturbed(call[r])
----------------------------------------------------------------------------
(* listChannelCandidates; without a row the answer is null at once. *)
StartCall(r, kind) ==
  /\ At(r, "idle")
  /\ answer' = [answer EXCEPT ![r] = NoAnswer]
  /\ call' = IF rows = {} THEN call
             ELSE [call EXCEPT ![r] = [Resting EXCEPT !.pc = "read", !.kind = kind,
                                         !.cands = rows, !.seen = Holding(lease)]]
  /\ UNCHANGED <<rows, lease, up>>

(* readLease.  A live lease of a gateway the org still has is authority.   *)
ReadLease(r, works) ==
  LET c == After(r, works)
      found == works /\ lease.live /\ lease.gw \in c.cands
  IN /\ At(r, "read")
     /\ CASE c.kind = "resolve" /\ found ->
               Return(r, c, lease.gw, "none", lease)
          [] c.kind = "resolve" /\ ~found ->
               Go(r, [c EXCEPT !.pc = "acquire", !.target = First(c.cands)], lease)
          [] c.kind = "revalidate" /\ found ->
               Go(r, [c EXCEPT !.pc = "check", !.holder = lease.gw], lease)
          [] c.kind = "revalidate" /\ ~found ->
               Go(r, [c EXCEPT !.pc = "walk", !.left = c.cands], lease)
     /\ UNCHANGED <<rows, up>>

(* probeWsUpgrade of the holder *)
CheckHolder(r) ==
  LET c == call[r]
  IN /\ At(r, "check")
     /\ Go(r, IF c.holder \in up
                THEN [c EXCEPT !.pc = "renew", !.target = c.holder]
                ELSE [c EXCEPT !.pc = "expire"], lease)
     /\ UNCHANGED <<rows, up>>

(* Mutant of Takeable: an expired lease of another gateway is respected. *)
TakeableByHolder(gw) == lease.gw \in {None, gw}

(* acquireLease's upsert: over an expired incumbent, or one's own lease.   *)
Takeable(gw) == ~lease.live \/ lease.gw = gw

Taken(gw) == [gw |-> gw, live |-> TRUE]

(* The holder is fine: renew.  What acquireLease returns is not looked at. *)
Renew(r, works) ==
  LET c == After(r, works)
  IN /\ At(r, "renew")
     /\ Return(r, c, c.holder, "healthy",
               IF works /\ Takeable(c.holder) THEN Taken(c.holder) ELSE lease)
     /\ UNCHANGED <<rows, up>>

WalkFrom(c) == [c EXCEPT !.pc = "walk", !.left = c.cands \ {c.holder}]

(* expireLease, scoped to the gateway id. *)
Expire(r, works) ==
  /\ At(r, "expire")
  /\ Go(r, WalkFrom(After(r, works)),
        IF works /\ lease.gw = call[r].holder
          THEN [lease EXCEPT !.live = FALSE] ELSE lease)
  /\ UNCHANGED <<rows, up>>

(* The next candidate is probed. *)
WalkOn(r) ==
  LET c == call[r]
      g == First(c.left)
  IN /\ At(r, "walk")
     /\ c.left # {}
     /\ Go(r, IF g \in up THEN [c EXCEPT !.pc = "acquire", !.target = g]
                          ELSE [c EXCEPT !.left = @ \ {g}], lease)
     /\ UNCHANGED <<rows, up>>

(* Nothing healthy: fail open, on the holder or the first candidate. *)
FailOpen(r) ==
  LET c == call[r]
  IN /\ At(r, "walk")
     /\ c.left = {}
     /\ Return(r, c, IF c.holder # None THEN c.holder ELSE First(c.cands),
               "down", lease)
     /\ UNCHANGED <<rows, up>>

Verdict(c) == IF c.kind = "revalidate" THEN "healthy" ELSE "none"

(* acquireLease: the upsert writes a row or none; an error counts as null. *)
Acquire(r, works) ==
  LET c == After(r, works)
  IN /\ At(r, "acquire")
     /\ IF works /\ ~Takeable(c.target)
          THEN Go(r, [c EXCEPT !.pc = "reread"], lease)
          ELSE Return(r, c, c.target, Verdict(c),
                      IF works THEN Taken(c.target) ELSE lease)
     /\ UNCHANGED <<rows, up>>

(* Mutant of Reread: the loser of the race keeps its own candidate. *)
RereadNothing(r, works) ==
  LET c == After(r, works)
  IN /\ At(r, "reread")
     /\ Return(r, c, c.target, Verdict(c), lease)
     /\ UNCHANGED <<rows, up>>

(* The race was lost: the answer is the winner, if the caller knows it,    *)
(* with the verdict the caller had found for its own candidate.            *)
Reread(r, works) ==
  LET c == After(r, works)
  IN /\ At(r, "reread")
     /\ Return(r, c, IF works /\ lease.gw \in c.cands THEN lease.gw ELSE c.target,
               Verdict(c), lease)
     /\ UNCHANGED <<rows, up>>
----------------------------------------------------------------------------
(* The world *)

(* The calls under way are no longer calm. *)
Disturb(c) == [r \in Resolver |-> Disturbed(c[r])]

(* An operator assigns or withdraws a gateway (gateway.org_id, channel). *)
Reassign(g) ==
  /\ rows' = IF g \in rows THEN rows \ {g} ELSE rows \cup {g}
  /\ call' = Disturb(call)
  /\ UNCHANGED <<lease, up, answer>>

(* Mutant of DeleteGateway: the lease row's gateway is set to null. *)
DeleteGatewayKeepsRow(g) ==
  /\ g \in rows
  /\ rows' = rows \ {g}
  /\ lease' = IF lease.gw = g THEN [lease EXCEPT !.gw = None] ELSE lease
  /\ call' = Disturb(call)
  /\ UNCHANGED <<up, answer>>

(* deleteGateway; its lease row goes with it. *)
DeleteGateway(g) ==
  /\ g \in rows
  /\ rows' = rows \ {g}
  /\ lease' = IF lease.gw = g THEN [gw |-> None, live |-> FALSE] ELSE lease
  /\ call' = Disturb(call)
  /\ UNCHANGED <<up, answer>>

(* An instance comes up or goes down. *)
Toggle(g) ==
  /\ up' = IF g \in up THEN up \ {g} ELSE up \cup {g}
  /\ UNCHANGED <<rows, lease, call, answer>>

(* LEASE_TTL_SECONDS have passed since the last renewal. *)
Lapse ==
  /\ lease.live
  /\ lease' = [lease EXCEPT !.live = FALSE]
  /\ UNCHANGED <<rows, up, call, answer>>

Init ==
  /\ rows \in SUBSET Gateway
  /\ lease = [gw |-> None, live |-> FALSE]
  /\ up \in SUBSET Gateway
  /\ call = [r \in Resolver |-> Resting]
  /\ answer = [r \in Resolver |-> NoAnswer]

Step(r, works) ==
  \/ ReadLease(r, works) \/ CheckHolder(r) \/ Renew(r, works) \/ Expire(r, works)
  \/ WalkOn(r) \/ FailOpen(r) \/ Acquire(r, works) \/ Reread(r, works)

Next ==
  \/ \E r \in Resolver :
       \/ StartCall(r, "resolve") \/ StartCall(r, "revalidate")
       \/ \E works \in BOOLEAN : Step(r, works)
  \/ \E g \in Gateway : Reassign(g) \/ DeleteGateway(g) \/ Toggle(g)
  \/ Lapse

Spec == Init /\ [][Next]_vars

(* Requests go on, browsers and the timer keep revalidating, time passes.  *)
FairSpec ==
  /\ Spec
  /\ \A r \in Resolver : /\ WF_vars(\E works \in BOOLEAN : Step(r, works))
                         /\ WF_vars(StartCall(r, "revalidate"))
  /\ WF_vars(Lapse)
----------------------------------------------------------------------------
(* Properties *)

(* Types.  A live lease always names a gateway (gateway_id is not null and *)
(* the row goes when its gateway does).                                    *)
TypeOK ==
  /\ rows \subseteq Gateway
  /\ lease \in Lease /\ (lease.live => lease.gw # None)
  /\ up \subseteq Gateway
  /\ call \in [Resolver -> Call]
  /\ answer \in [Resolver -> Answer]

(* One instance serves the org: an answer names a gateway that held the    *)
(* live lease at some moment of the call, so callers that overlap follow   *)
(* one lease.  Not so when the answer says that nothing is healthy, when a *)
(* statement failed, when the org's rows changed during the call, or when  *)
(* a gateway that was withdrawn still held the lease.                      *)
AnswerWasHolder ==
  \A r \in Resolver :
    answer[r].verdict \in {"none", "healthy"} => answer[r].held

Fails(r) ==
  \/ ReadLease(r, FALSE) \/ Renew(r, FALSE) \/ Expire(r, FALSE)
  \/ Acquire(r, FALSE) \/ Reread(r, FALSE)

Quiet ==
  /\ UNCHANGED <<rows, up>>
  /\ ~ \E r \in Resolver : Fails(r) \/ StartCall(r, "resolve")

(* Failover: once assignments, instances and the database are stable, some *)
(* instance is up, and no page load takes the lease in between, the lease  *)
(* comes to an instance that is up, again and again.                       *)
FailoverCompletes ==
  <>[][Quiet]_vars /\ <>[](up \cap rows # {})
    => []<>(lease.live /\ lease.gw \in up \cap rows)
============================================================================
