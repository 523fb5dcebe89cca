------------------------- MODULE GatewayLeaseProofs -------------------------
(***************************************************************************)
(* What GatewayLease keeps for any finite sets of gateways and requests.   *)
(***************************************************************************)
EXTENDS GatewayLease, FiniteSetTheorems, WellFoundedInduction, TLAPS

(* Of any candidates there is a first. *)
LEMMA FirstIn ==
  ASSUME NEW S \in SUBSET Gateway, S # {}
  PROVE  First(S) \in S
<1> DEFINE Before(g) == 0 .. Order[g]
           T == {Before(g) : g \in S}
<1>1. \A g \in S : Order[g] \in Nat
  BY OrderAssumption
<1>2. T \subseteq FiniteSubsetsOf(Nat) /\ T # {}
  <2>1. ASSUME NEW g \in S
        PROVE  IsFiniteSet(Before(g)) /\ Before(g) \subseteq Nat
    BY <1>1, FS_Interval
  <2> QED  BY <2>1 DEF FiniteSubsetsOf
<1>3. \E x \in T : \A y \in T : ~(<<y, x>> \in StrictSubsetOrdering(Nat))
  <2> HIDE DEF T
  <2> QED  BY <1>2, FS_StrictSubsetOrderingWellFounded, WFMin
<1>4. PICK g \in S : \A h \in S : ~(<<Before(h), Before(g)>> \in StrictSubsetOrdering(Nat))
  BY <1>3
<1>5. ASSUME NEW h \in S, ~(Order[g] <= Order[h])
      PROVE  FALSE
  <2>1. /\ Before(h) \subseteq Before(g) /\ Before(g) \subseteq Nat
        /\ Order[g] \in Before(g) /\ Order[g] \notin Before(h)
    BY <1>1, <1>5
  <2> HIDE DEF Before
  <2> QED  BY <1>4, <2>1 DEF StrictSubsetOrdering
<1>6. \E f \in S : \A h \in S : Order[f] <= Order[h]
  BY <1>5
<1> QED  BY <1>6 DEF First
----------------------------------------------------------------------------
(* The invariant *)

(* What a call has chosen comes from the candidates it has read. *)
Fits(c) ==
  /\ c.pc # "idle" => c.cands # {}
  /\ c.holder \in c.cands \cup {None}
  /\ c.pc \in {"check", "renew", "expire"} => c.holder # None
  /\ c.pc \in {"renew", "acquire", "reread"} => c.target \in c.cands
  /\ c.left \subseteq c.cands

(* A calm call was a witness to the holder it found, and, once it has lost *)
(* the race for the lease, to whoever has had the lease since.             *)
Knows(c, l) ==
  c.calm =>
    /\ c.holder # None => c.holder \in c.seen
    /\ c.pc = "reread" => l.gw \in c.seen

GoodLease(l) == l \in Lease /\ (l.live => l.gw # None)

GoodAnswer(a) == a \in Answer /\ (a.verdict \in {"none", "healthy"} => a.held)

AnswerInv ==
  /\ rows \subseteq Gateway /\ up \subseteq Gateway
  /\ GoodLease(lease)
  /\ call \in [Resolver -> Call]
  /\ \A r \in Resolver : Fits(call[r]) /\ Knows(call[r], lease)
  /\ answer \in [Resolver -> Answer]
  /\ \A r \in Resolver : GoodAnswer(answer[r])

(* A call that has witnessed the lease l. *)
Grown(c, l) ==
  IF c.pc # "idle" /\ c.calm THEN [c EXCEPT !.seen = @ \cup Holding(l)] ELSE c

LEMMA Held ==
  ASSUME NEW l, GoodLease(l)
  PROVE  Holding(l) \subseteq Gateway /\ (l.live => l.gw \in Holding(l))
BY DEF GoodLease, Holding, Lease

LEMMA GrownFits ==
  ASSUME NEW c \in Call, Fits(c), NEW l, GoodLease(l)
  PROVE  /\ Grown(c, l) \in Call /\ Fits(Grown(c, l))
         /\ Grown(c, l).pc = c.pc /\ Grown(c, l).holder = c.holder
         /\ Grown(c, l).calm = c.calm
         /\ c.seen \subseteq Grown(c, l).seen
         /\ c.pc # "idle" /\ c.calm => Holding(l) \subseteq Grown(c, l).seen
<1>1. CASE c.pc # "idle" /\ c.calm
  <2> DEFINE seen == c.seen \cup Holding(l)
             g == [c EXCEPT !.seen = seen]
  <2>1. seen \in SUBSET Gateway
    BY Held DEF Call
  <2> HIDE DEF seen
  <2>2. /\ g \in Call /\ g.pc = c.pc /\ g.cands = c.cands /\ g.holder = c.holder
        /\ g.left = c.left /\ g.target = c.target /\ g.calm = c.calm /\ g.seen = seen
    BY <2>1 DEF Call
  <2>3. Grown(c, l) = g
    BY <1>1 DEF Grown, seen
  <2> HIDE DEF g
  <2>4. Fits(g)
    BY <2>2 DEF Fits
  <2> QED  BY <2>2, <2>3, <2>4 DEF seen
<1>2. CASE ~(c.pc # "idle" /\ c.calm)
  BY <1>2 DEF Grown
<1> QED  BY <1>1, <1>2

(* A call that does nothing knows what it knew, when the lease goes to     *)
(* another only by being taken.                                            *)
LEMMA GrownKnows ==
  ASSUME NEW c \in Call, Fits(c), NEW l, GoodLease(l), Knows(c, lease),
         l.gw = lease.gw \/ l.live
  PROVE  Knows(Grown(c, l), l)
BY GrownFits, Held DEF Knows

(* One call moves on to c, or to rest, and all witness the lease l. *)
LEMMA CallsGrow ==
  ASSUME AnswerInv, NEW r \in Resolver, NEW c \in Call, Fits(c), NEW l, GoodLease(l),
         l.gw = lease.gw \/ l.live, Knows(Grown(c, l), l),
         call' = Witness([call EXCEPT ![r] = c], l)
  PROVE  /\ call' \in [Resolver -> Call]
         /\ \A q \in Resolver : Fits(call'[q]) /\ Knows(call'[q], l)
<1> DEFINE next == [call EXCEPT ![r] = c]
<1>1. next \in [Resolver -> Call] /\ next[r] = c
      /\ \A q \in Resolver \ {r} : next[q] = call[q]
  BY DEF AnswerInv
<1>2. \A q \in Resolver : Fits(next[q]) /\ Knows(Grown(next[q], l), l)
  <2>1. ASSUME NEW q \in Resolver \ {r}
        PROVE  Fits(call[q]) /\ Knows(Grown(call[q], l), l)
    <3>1. call[q] \in Call /\ Fits(call[q]) /\ Knows(call[q], lease)
      BY DEF AnswerInv
    <3> QED  BY <3>1, GrownKnows
  <2> QED  BY <1>1, <2>1
<1>3. call' = [q \in Resolver |-> Grown(next[q], l)]
  BY DEF Witness, Grown
<1> HIDE DEF next
<1>4. \A q \in Resolver : Grown(next[q], l) \in Call /\ Fits(Grown(next[q], l))
  BY <1>1, <1>2, GrownFits
<1> QED  BY <1>2, <1>3, <1>4

LEMMA GoKeeps ==
  ASSUME AnswerInv, NEW r \in Resolver, NEW c \in Call, Fits(c), NEW l, GoodLease(l),
         l.gw = lease.gw \/ l.live, Knows(Grown(c, l), l),
         Go(r, c, l), UNCHANGED <<rows, up>>
  PROVE  AnswerInv'
<1>1. lease' = l /\ answer' = answer /\ call' = Witness([call EXCEPT ![r] = c], l)
  BY DEF Go
<1> QED  BY <1>1, CallsGrow DEF AnswerInv

LEMMA RestingFits ==
  ASSUME NEW l
  PROVE  Resting \in Call /\ Fits(Resting) /\ Knows(Grown(Resting, l), l)
BY DEF Resting, Call, Kind, Fits, Knows, Grown

(* A call returns a gateway that held the lease, or excuses itself. *)
LEMMA ReturnKeeps ==
  ASSUME AnswerInv, NEW r \in Resolver, NEW c, NEW gw, NEW verdict, NEW l,
         GoodLease(l), l.gw = lease.gw \/ l.live, verdict \in {"none", "healthy", "down"},
         c.calm /\ c.seen \subseteq c.cands =>
           verdict = "down" \/ gw \in c.seen \cup Holding(l),
         Return(r, c, gw, verdict, l), UNCHANGED <<rows, up>>
  PROVE  AnswerInv'
<1> DEFINE a == IF c.calm /\ c.seen \subseteq c.cands
                  THEN [verdict |-> verdict, held |-> gw \in c.seen \cup Holding(l)]
                  ELSE NoAnswer
<1>1. lease' = l /\ call' = Witness([call EXCEPT ![r] = Resting], l)
      /\ answer' = [answer EXCEPT ![r] = a]
  BY DEF Return
<1>2. GoodAnswer(a)
  <2>1. CASE c.calm /\ c.seen \subseteq c.cands
    <3> DEFINE held == gw \in c.seen \cup Holding(l)
               b == [verdict |-> verdict, held |-> held]
    <3>1. held \in BOOLEAN /\ (verdict # "down" => held) /\ a = b
      BY <2>1
    <3> HIDE DEF held
    <3>2. b \in Answer /\ b.verdict = verdict /\ b.held = held
      BY <3>1 DEF Answer
    <3> HIDE DEF a, b
    <3> QED  BY <3>1, <3>2 DEF GoodAnswer
  <2>2. CASE ~(c.calm /\ c.seen \subseteq c.cands)
    BY <2>2 DEF GoodAnswer, Answer, NoAnswer
  <2> QED  BY <2>1, <2>2
<1> HIDE DEF a
<1>3. answer' \in [Resolver -> Answer] /\ \A q \in Resolver : GoodAnswer(answer'[q])
  BY <1>1, <1>2 DEF AnswerInv, GoodAnswer
<1> QED  BY <1>1, <1>3, RestingFits, CallsGrow DEF AnswerInv
----------------------------------------------------------------------------
(* The steps of a call *)

(* The call r, whether its statement worked or failed. *)
LEMMA AfterFits ==
  ASSUME AnswerInv, NEW r \in Resolver, call[r].pc # "idle", NEW works \in BOOLEAN
  PROVE  /\ After(r, works) \in Call /\ Fits(After(r, works))
         /\ Knows(After(r, works), lease)
         /\ After(r, works).kind = call[r].kind /\ After(r, works).pc = call[r].pc
         /\ After(r, works).cands = call[r].cands
         /\ After(r, works).holder = call[r].holder
         /\ After(r, works).target = call[r].target
         /\ works => After(r, works) = call[r]
         /\ ~works => ~After(r, works).calm
<1> DEFINE old == call[r]
           new == [old EXCEPT !.calm = FALSE, !.seen = {}]
<1>1. old \in Call /\ Fits(old) /\ Knows(old, lease)
  BY DEF AnswerInv
<1>2. CASE works
  BY <1>1, <1>2 DEF After
<1>3. CASE ~works
  <2>1. After(r, works) = new
    BY <1>3 DEF After, Disturbed
  <2> HIDE DEF old
  <2>2. /\ new \in Call /\ new.pc = old.pc /\ new.kind = old.kind /\ new.cands = old.cands
        /\ new.holder = old.holder /\ new.left = old.left /\ new.target = old.target
        /\ new.calm = FALSE
    BY <1>1 DEF Call
  <2> HIDE DEF new
  <2> QED  BY <1>1, <1>3, <2>1, <2>2 DEF Fits, Knows, old
<1> QED  BY <1>2, <1>3

LEMMA InCall ==
  ASSUME AnswerInv, NEW r \in Resolver
  PROVE  /\ call[r] \in Call /\ Fits(call[r]) /\ Knows(call[r], lease)
         /\ GoodLease(lease)
         /\ call[r].cands \in SUBSET Gateway
BY DEF AnswerInv, Call

LEMMA StartKeeps ==
  ASSUME AnswerInv, NEW r \in Resolver, NEW kind \in Kind, StartCall(r, kind)
  PROVE  AnswerInv'
<1> DEFINE c == [Resting EXCEPT !.pc = "read", !.kind = kind,
                                !.cands = rows, !.seen = Holding(lease)]
<1>1. answer' = [answer EXCEPT ![r] = NoAnswer] /\ UNCHANGED <<rows, lease, up>>
  BY DEF StartCall
<1>2. answer' \in [Resolver -> Answer] /\ \A q \in Resolver : GoodAnswer(answer'[q])
  BY <1>1 DEF AnswerInv, GoodAnswer, NoAnswer, Answer
<1>3. CASE call' = call
  BY <1>1, <1>2, <1>3 DEF AnswerInv
<1>4. CASE rows # {} /\ call' = [call EXCEPT ![r] = c]
  <2>1. Holding(lease) \in SUBSET Gateway /\ rows \in SUBSET Gateway
    BY Held DEF AnswerInv
  <2>2. c \in Call /\ Fits(c) /\ Knows(c, lease)
    BY <1>4, <2>1 DEF Resting, Call, Fits, Knows
  <2> HIDE DEF c
  <2> QED  BY <1>1, <1>2, <1>4, <2>2 DEF AnswerInv
<1> QED  BY <1>3, <1>4 DEF StartCall

LEMMA ReadKeeps ==
  ASSUME AnswerInv, NEW r \in Resolver, NEW works \in BOOLEAN, ReadLease(r, works)
  PROVE  AnswerInv'
<1> DEFINE c == After(r, works)
           found == works /\ lease.live /\ lease.gw \in c.cands
           take == [c EXCEPT !.pc = "acquire", !.target = First(c.cands)]
           check == [c EXCEPT !.pc = "check", !.holder = lease.gw]
           walk == [c EXCEPT !.pc = "walk", !.left = c.cands]
<1>1. /\ c \in Call /\ c.pc = "read" /\ Fits(c) /\ Knows(c, lease)
      /\ GoodLease(lease) /\ UNCHANGED <<rows, up>>
  BY AfterFits, InCall DEF ReadLease, At
<1>2. \/ found /\ Return(r, c, lease.gw, "none", lease)
      \/ Go(r, take, lease) \/ Go(r, walk, lease)
      \/ found /\ Go(r, check, lease)
  BY <1>1 DEF ReadLease, Call, Kind
<1> HIDE DEF c
<1>3. c.cands \in SUBSET Gateway /\ c.cands # {}
  BY <1>1 DEF Call, Fits
<1>4. CASE found /\ Return(r, c, lease.gw, "none", lease)
  BY <1>1, <1>4, Held, ReturnKeeps
<1>5. CASE Go(r, take, lease)
  <2> DEFINE g == First(c.cands)
  <2>1. g \in c.cands
    BY <1>3, FirstIn
  <2> HIDE DEF g
  <2>2. /\ take \in Call /\ take.pc = "acquire" /\ take.target = g /\ take.cands = c.cands
        /\ take.holder = c.holder /\ take.left = c.left /\ take.calm = c.calm
        /\ take.seen = c.seen
    BY <1>1, <1>3, <2>1 DEF Call, g
  <2> HIDE DEF take
  <2>3. Fits(take) /\ Knows(take, lease)
    BY <1>1, <1>3, <2>1, <2>2 DEF Fits, Knows
  <2> QED  BY <1>1, <1>5, <2>2, <2>3, GrownKnows, GoKeeps
<1>6. CASE Go(r, walk, lease)
  <2>1. /\ walk \in Call /\ walk.pc = "walk" /\ walk.cands = c.cands
        /\ walk.holder = c.holder /\ walk.left = c.cands /\ walk.calm = c.calm
        /\ walk.seen = c.seen
    BY <1>1, <1>3 DEF Call
  <2> HIDE DEF walk
  <2>2. Fits(walk) /\ Knows(walk, lease)
    BY <1>1, <1>3, <2>1 DEF Fits, Knows
  <2> QED  BY <1>1, <1>6, <2>1, <2>2, GrownKnows, GoKeeps
<1>7. CASE found /\ Go(r, check, lease)
  <2>1. /\ check \in Call /\ check.pc = "check" /\ check.cands = c.cands
        /\ check.holder = lease.gw /\ check.left = c.left /\ check.calm = c.calm
    BY <1>1, <1>3, <1>7 DEF Call
  <2> HIDE DEF check
  <2>2. lease.gw \in c.cands /\ lease.gw # None /\ lease.gw \in Holding(lease)
    BY <1>1, <1>7, Held DEF GoodLease
  <2>3. Fits(check)
    BY <1>1, <1>3, <2>1, <2>2 DEF Fits
  <2>4. Knows(Grown(check, lease), lease)
    BY <1>1, <2>1, <2>2, <2>3, GrownFits DEF Knows
  <2> QED  BY <1>1, <1>7, <2>1, <2>3, <2>4, GoKeeps
<1> QED  BY <1>2, <1>4, <1>5, <1>6, <1>7

LEMMA CheckKeeps ==
  ASSUME AnswerInv, NEW r \in Resolver, CheckHolder(r)
  PROVE  AnswerInv'
<1> DEFINE c == call[r]
           keep == [c EXCEPT !.pc = "renew", !.target = c.holder]
           drop == [c EXCEPT !.pc = "expire"]
<1>1. /\ c \in Call /\ c.pc = "check" /\ Fits(c) /\ Knows(c, lease) /\ GoodLease(lease)
      /\ UNCHANGED <<rows, up>>
      /\ Go(r, keep, lease) \/ Go(r, drop, lease)
  BY InCall DEF CheckHolder, At
<1> HIDE DEF c
<1>2. c.holder \in c.cands /\ c.holder # None /\ c.cands # {} /\ c.left \subseteq c.cands
  BY <1>1 DEF Fits
<1>3. /\ keep \in Call /\ keep.pc = "renew" /\ keep.target = c.holder
      /\ keep.cands = c.cands /\ keep.holder = c.holder /\ keep.left = c.left
      /\ keep.calm = c.calm /\ keep.seen = c.seen
  BY <1>1 DEF Call
<1>4. /\ drop \in Call /\ drop.pc = "expire"
      /\ drop.cands = c.cands /\ drop.holder = c.holder /\ drop.left = c.left
      /\ drop.calm = c.calm /\ drop.seen = c.seen
  BY <1>1 DEF Call
<1> HIDE DEF keep, drop
<1>5. /\ Fits(keep) /\ Knows(keep, lease) /\ Fits(drop) /\ Knows(drop, lease)
  BY <1>1, <1>2, <1>3, <1>4 DEF Fits, Knows
<1> QED  BY <1>1, <1>3, <1>4, <1>5, GrownKnows, GoKeeps

LEMMA TakenGood ==
  ASSUME NEW gw \in Gateway
  PROVE  GoodLease(Taken(gw)) /\ Taken(gw).live /\ gw \in Holding(Taken(gw))
BY NoneAssumption DEF GoodLease, Taken, Lease, Holding

LEMMA RenewKeeps ==
  ASSUME AnswerInv, NEW r \in Resolver, NEW works \in BOOLEAN, Renew(r, works)
  PROVE  AnswerInv'
<1> DEFINE c == After(r, works)
           g == c.holder
           l == IF works /\ Takeable(g) THEN Taken(g) ELSE lease
<1>1. /\ c \in Call /\ c.pc = "renew" /\ Fits(c) /\ Knows(c, lease)
      /\ ~works => ~c.calm
      /\ GoodLease(lease) /\ UNCHANGED <<rows, up>>
      /\ Return(r, c, g, "healthy", l)
  BY AfterFits, InCall DEF Renew, At
<1>2. g # None /\ g \in Gateway
  BY <1>1 DEF Fits, Call
<1>3. c.calm => g \in c.seen
  BY <1>1, <1>2 DEF Knows
<1>4. GoodLease(l) /\ (l.gw = lease.gw \/ l.live)
  BY <1>1, <1>2, TakenGood
<1> HIDE DEF c, g, l
<1> QED  BY <1>1, <1>3, <1>4, ReturnKeeps

LEMMA ExpireKeeps ==
  ASSUME AnswerInv, NEW r \in Resolver, NEW works \in BOOLEAN, Expire(r, works)
  PROVE  AnswerInv'
<1> DEFINE c == After(r, works)
           left == c.cands \ {c.holder}
           walk == [c EXCEPT !.pc = "walk", !.left = left]
           l == IF works /\ lease.gw = call[r].holder
                  THEN [lease EXCEPT !.live = FALSE] ELSE lease
<1>1. /\ c \in Call /\ c.pc = "expire" /\ Fits(c) /\ Knows(c, lease)
      /\ GoodLease(lease) /\ UNCHANGED <<rows, up>>
      /\ Go(r, walk, l)
  BY AfterFits, InCall DEF Expire, At, WalkFrom
<1>2. GoodLease(l) /\ l.gw = lease.gw
  BY <1>1 DEF GoodLease, Lease
<1> HIDE DEF c, l
<1>3. left \in SUBSET Gateway /\ left \subseteq c.cands
  BY <1>1 DEF Call
<1> HIDE DEF left
<1>4. /\ walk \in Call /\ walk.pc = "walk" /\ walk.cands = c.cands
      /\ walk.holder = c.holder /\ walk.left = left /\ walk.calm = c.calm
      /\ walk.seen = c.seen
  BY <1>1, <1>3 DEF Call
<1> HIDE DEF walk
<1>5. Fits(walk) /\ Knows(walk, lease)
  BY <1>1, <1>3, <1>4 DEF Fits, Knows
<1> QED  BY <1>1, <1>2, <1>4, <1>5, GrownKnows, GoKeeps

LEMMA WalkKeeps ==
  ASSUME AnswerInv, NEW r \in Resolver, WalkOn(r)
  PROVE  AnswerInv'
<1> DEFINE c == call[r]
           g == First(c.left)
           take == [c EXCEPT !.pc = "acquire", !.target = g]
           on == [c EXCEPT !.left = c.left \ {g}]
<1>1. /\ c \in Call /\ c.pc = "walk" /\ Fits(c) /\ Knows(c, lease) /\ GoodLease(lease)
      /\ UNCHANGED <<rows, up>> /\ c.left # {}
      /\ Go(r, take, lease) \/ Go(r, on, lease)
  BY InCall DEF WalkOn, At
<1> HIDE DEF c
<1>2. c.left \in SUBSET Gateway /\ c.left \subseteq c.cands /\ c.cands # {}
  BY <1>1 DEF Call, Fits
<1>3. g \in c.cands
  BY <1>1, <1>2, FirstIn
<1> HIDE DEF g
<1>4. /\ take \in Call /\ take.pc = "acquire" /\ take.target = g
      /\ take.cands = c.cands /\ take.holder = c.holder /\ take.left = c.left
      /\ take.calm = c.calm /\ take.seen = c.seen
  BY <1>1, <1>3 DEF Call
<1>5. /\ on \in Call /\ on.pc = "walk"
      /\ on.cands = c.cands /\ on.holder = c.holder /\ on.left = c.left \ {g}
      /\ on.calm = c.calm /\ on.seen = c.seen
  BY <1>1, <1>2 DEF Call
<1> HIDE DEF take, on
<1>6. Fits(take) /\ Knows(take, lease) /\ Fits(on) /\ Knows(on, lease)
  BY <1>1, <1>2, <1>3, <1>4, <1>5 DEF Fits, Knows
<1> QED  BY <1>1, <1>4, <1>5, <1>6, GrownKnows, GoKeeps

LEMMA FailOpenKeeps ==
  ASSUME AnswerInv, NEW r \in Resolver, FailOpen(r)
  PROVE  AnswerInv'
BY InCall, ReturnKeeps DEF FailOpen

LEMMA AcquireKeeps ==
  ASSUME AnswerInv, NEW r \in Resolver, NEW works \in BOOLEAN, Acquire(r, works)
  PROVE  AnswerInv'
<1> DEFINE c == After(r, works)
           g == c.target
           lost == [c EXCEPT !.pc = "reread"]
           l == IF works THEN Taken(g) ELSE lease
<1>1. /\ c \in Call /\ c.pc = "acquire" /\ Fits(c) /\ Knows(c, lease)
      /\ ~works => ~c.calm
      /\ GoodLease(lease) /\ UNCHANGED <<rows, up>>
      /\ IF works /\ ~Takeable(g) THEN Go(r, lost, lease) ELSE Return(r, c, g, Verdict(c), l)
  BY AfterFits, InCall DEF Acquire, At
<1>2. g \in c.cands /\ g \in Gateway
  BY <1>1 DEF Fits, Call
<1>3. CASE works /\ ~Takeable(g)
  <2> HIDE DEF c
  <2>1. /\ lost \in Call /\ lost.pc = "reread" /\ lost.cands = c.cands
        /\ lost.holder = c.holder /\ lost.left = c.left /\ lost.target = c.target
        /\ lost.calm = c.calm /\ lost.seen = c.seen
    BY <1>1 DEF Call
  <2> HIDE DEF lost
  <2>2. Fits(lost)
    BY <1>1, <1>2, <2>1 DEF Fits
  <2>3. lease.gw \in Holding(lease)
    BY <1>1, <1>3, Held DEF Takeable
  <2>4. Knows(Grown(lost, lease), lease)
    BY <1>1, <2>1, <2>2, <2>3, GrownFits DEF Knows
  <2> QED  BY <1>1, <1>3, <2>1, <2>2, <2>4, GoKeeps
<1>4. CASE ~(works /\ ~Takeable(g))
  <2>1. GoodLease(l) /\ (l.gw = lease.gw \/ l.live) /\ (works => g \in Holding(l))
    BY <1>1, <1>2, TakenGood
  <2>2. Verdict(c) \in {"healthy", "none"} /\ Return(r, c, g, Verdict(c), l)
    BY <1>1, <1>4 DEF Verdict
  <2> HIDE DEF c, g, l
  <2> QED  BY <1>1, <2>1, <2>2, ReturnKeeps
<1> QED  BY <1>3, <1>4

LEMMA RereadKeeps ==
  ASSUME AnswerInv, NEW r \in Resolver, NEW works \in BOOLEAN, Reread(r, works)
  PROVE  AnswerInv'
<1> DEFINE c == After(r, works)
           gw == IF works /\ lease.gw \in c.cands THEN lease.gw ELSE c.target
<1>1. /\ c \in Call /\ c.pc = "reread" /\ Knows(c, lease)
      /\ ~works => ~c.calm
      /\ GoodLease(lease) /\ UNCHANGED <<rows, up>>
      /\ Return(r, c, gw, Verdict(c), lease)
      /\ Verdict(c) \in {"healthy", "none"}
  BY AfterFits, InCall DEF Reread, At, Verdict
<1>2. c.calm /\ c.seen \subseteq c.cands => gw \in c.seen
  BY <1>1 DEF Knows
<1> HIDE DEF c, gw
<1> QED  BY <1>1, <1>2, ReturnKeeps
----------------------------------------------------------------------------
(* The world *)

(* A disturbed call has chosen what it had, and knows nothing. *)
LEMMA DisturbedFits ==
  ASSUME NEW c \in Call, Fits(c), NEW l
  PROVE  Disturbed(c) \in Call /\ Fits(Disturbed(c))
         /\ (c.pc # "idle" => Knows(Disturbed(c), l))
         /\ (c.pc = "idle" => Disturbed(c) = c)
<1> DEFINE new == [c EXCEPT !.calm = FALSE, !.seen = {}]
<1>1. CASE c.pc = "idle"
  BY <1>1 DEF Disturbed
<1>2. CASE c.pc # "idle"
  <2>1. Disturbed(c) = new
    BY <1>2 DEF Disturbed
  <2>2. /\ new \in Call /\ new.pc = c.pc /\ new.cands = c.cands
        /\ new.holder = c.holder /\ new.left = c.left /\ new.target = c.target
        /\ new.calm = FALSE
    BY DEF Call
  <2> HIDE DEF new
  <2> QED  BY <1>2, <2>1, <2>2 DEF Fits, Knows
<1> QED  BY <1>1, <1>2

LEMMA WorldKeeps ==
  ASSUME AnswerInv, rows' \subseteq Gateway, up' \subseteq Gateway, GoodLease(lease'),
         \/ call' = Disturb(call)
         \/ call' = call /\ lease'.gw = lease.gw,
         UNCHANGED answer
  PROVE  AnswerInv'
<1>1. CASE call' = call /\ lease'.gw = lease.gw
  BY <1>1 DEF AnswerInv, Knows
<1>2. CASE call' = Disturb(call)
  <2>1. ASSUME NEW r \in Resolver
        PROVE  /\ Disturbed(call[r]) \in Call /\ Fits(Disturbed(call[r]))
               /\ Knows(Disturbed(call[r]), lease')
    <3>1. CASE call[r].pc = "idle"
      BY <3>1, InCall, DisturbedFits DEF Knows
    <3>2. CASE call[r].pc # "idle"
      BY <3>2, InCall, DisturbedFits
    <3> QED  BY <3>1, <3>2
  <2> QED  BY <1>2, <2>1 DEF AnswerInv, Disturb
<1> QED  BY <1>1, <1>2

LEMMA InvInit ==
  ASSUME Init
  PROVE  AnswerInv
BY RestingFits DEF Init, AnswerInv, GoodLease, Lease, GoodAnswer, NoAnswer, Answer, Knows, Resting

LEMMA InvNext ==
  ASSUME AnswerInv, [Next]_vars
  PROVE  AnswerInv'
<1>1. ASSUME NEW g \in Gateway, Reassign(g) \/ Toggle(g)
      PROVE  AnswerInv'
  BY <1>1, WorldKeeps DEF Reassign, Toggle, AnswerInv
<1>2. ASSUME NEW g \in Gateway, DeleteGateway(g)
      PROVE  AnswerInv'
  <2>1. GoodLease(lease') /\ rows' \subseteq Gateway
    BY <1>2 DEF DeleteGateway, AnswerInv, GoodLease, Lease
  <2> QED  BY <1>2, <2>1, WorldKeeps DEF DeleteGateway, AnswerInv
<1>3. CASE Lapse
  <2>1. GoodLease(lease') /\ lease'.gw = lease.gw
    BY <1>3 DEF Lapse, AnswerInv, GoodLease, Lease
  <2> QED  BY <1>3, <2>1, WorldKeeps DEF Lapse, AnswerInv
<1>4. CASE UNCHANGED vars
  BY <1>4, WorldKeeps DEF vars, AnswerInv
<1>5. ASSUME NEW r \in Resolver, NEW works \in BOOLEAN, Step(r, works)
      PROVE  AnswerInv'
  BY <1>5, ReadKeeps, CheckKeeps, RenewKeeps, ExpireKeeps, WalkKeeps, FailOpenKeeps,
     AcquireKeeps, RereadKeeps DEF Step
<1>6. ASSUME NEW r \in Resolver, StartCall(r, "resolve") \/ StartCall(r, "revalidate")
      PROVE  AnswerInv'
  BY <1>6, StartKeeps DEF Kind
<1> QED  BY <1>1, <1>2, <1>3, <1>4, <1>5, <1>6 DEF Next

LEMMA Invariant == Spec => []AnswerInv
BY InvInit, InvNext, PTL DEF Spec

(* The rows, the lease and the calls have their types, and a live lease    *)
(* names a gateway, whatever deletions and lost races do.                  *)
THEOREM LeaseTypes == Spec => []TypeOK
<1>1. AnswerInv => TypeOK
  BY DEF AnswerInv, TypeOK, GoodLease
<1> QED  BY <1>1, Invariant, PTL

(* An answer of a call that nothing disturbed names a gateway that held    *)
(* the live lease during the call, however many calls race for it.         *)
THEOREM AnswersHeld == Spec => []AnswerWasHolder
<1>1. AnswerInv => AnswerWasHolder
  BY DEF AnswerInv, AnswerWasHolder, GoodAnswer
<1> QED  BY <1>1, Invariant, PTL
=============================================================================
