------------------------------ MODULE SlotOffers ------------------------------
(***************************************************************************)
(* Slots offered to agents - VTO, PTO, leave, overtime - and the claims    *)
(* that are written into the claimants' days: offers.py in                 *)
(* backend/app/modules/scheduling.                                         *)
(*                                                                         *)
(* As in DayPlans, a request reads the offer, its claims and the agent's   *)
(* day, decides on what it read, and its session is flushed and committed  *)
(* later; an UPDATE sets the columns that changed.  The days are those of  *)
(* DayOps, so a claim and its cancellation do to a day what the code does. *)
(* An agent's day is a row of one date, and every offer is for that date.  *)
(* Staff may claim for any agent, so whose login claims is left out.       *)
(***************************************************************************)
EXTENDS DayOps, FiniteSets

CONSTANTS
    Clients,     \* browser sessions, each with one request at a time
    Agents,      \* agent keys
    Offers,      \* the unique keys of offers: date, queue, kind and times
    Window,      \* [Offers -> [kind, channel, start, end]]
    FirstDays,   \* [Agents -> the day each agent has saved]
    Eligibles,   \* the sets of agents an offer may be opened to
    Capacities,  \* bound: the capacities schedulers ask for of each offer
    Segs,        \* bound: the claims that can be made
    RowIds,      \* bound: row ids, one is used again once no request holds it
    MaxCuts,     \* bound: the letters appended to one id
    Overlap,     \* whether requests of different clients may overlap
    None         \* no row, no request

(* A block's id is a pair: what it was named after, the segment of a claim *)
(* or something else, and how many letters r were appended to that.        *)
BlockRow == [id : Int \X Nat, kind : STRING, start : Int, end : Int]
Day == [start : Int, end : Int, channels : SUBSET BlockRow, breaks : SUBSET BlockRow,
        activities : SUBSET BlockRow, ot : SUBSET BlockRow]

Claim == [offer : Offers, agent : Agents, start : Int, end : Int, status : {"filled", "cancelled"}]
Offer == [id : RowIds, capacity : Nat, status : {"open", "closed"}, eligible : SUBSET Agents]

ASSUME SlotsAssumption ==
    /\ Segs \subseteq Nat /\ Capacities \in [Offers -> SUBSET Nat] /\ MaxCuts \in Nat
    /\ Overlap \in BOOLEAN
    /\ RowIds \subseteq Nat /\ IsFiniteSet(RowIds) /\ IsFiniteSet(Clients)
    /\ Cardinality(RowIds) >= Cardinality(Clients)
    /\ Eligibles \subseteq SUBSET Agents /\ None \notin Agents \cup Offer \cup Claim
    /\ \A o \in Offers : Window[o] \in [kind : STRING, channel : STRING, start : Int, end : Int]
    /\ FirstDays \in [Agents -> Day]
    /\ \A a \in Agents : /\ ValidDay(FirstDays[a])
                         /\ \A x \in FirstDays[a].activities : x.id[1] \notin Segs

VARIABLES
    offers,  \* the rows of schedule_offers
    claims,  \* the rows of schedule_offer_claims, by the segment id they carry
    days,    \* the agents' rows of day_schedule_plans
    req,     \* the request each client has in flight
    kept     \* history: the agents whose day has kept overtime they gave back

vars == <<offers, claims, days, req, kept>>

(* What a request will write: an offer, or a day and a claim.              *)
OfferRequest ==
    [offer : Offers, seen : Offer \cup {None}, row : Offer \cup {None}, agent : {None}, seg : {None}]

DayRequest ==
    [offer : Offers, seen : Offer \cup {None}, row : Offer \cup {None}, agent : Agents,
     before : Day \cup {None}, after : Day \cup {None}, refused : BOOLEAN, seg : Segs, claim : Claim]

FilledOf(o) ==
    {g \in Segs : claims[g] # None /\ claims[g].offer = o /\ claims[g].status = "filled"}

(* The types of all variables; the days that are stored are valid.         *)
TypeOK ==
    /\ offers \in [Offers -> Offer \cup {None}]
    /\ claims \in [Segs -> Claim \cup {None}]
    /\ days \in [Agents -> Day \cup {None}]
    /\ \A a \in Agents : days[a] # None => ValidDay(days[a])
    /\ req \in [Clients -> OfferRequest \cup DayRequest \cup {None}]
    /\ kept \subseteq Agents

-----------------------------------------------------------------------------
(* Where a slot lands in a day *)

(* _place: the block a claim writes, as one of a singleton, or {} if the   *)
(* claimant is not working then, or is working already.                    *)
Stretch(kind, lo, hi) == [kind |-> kind, start |-> lo, end |-> hi]

TimeOff(w, day) ==
    LET lo == IF w.kind = "leave" THEN day.start ELSE Max({w.start, day.start})
        hi == IF w.kind = "leave" THEN day.end ELSE Min({w.end, day.end})
    IN  {b \in {Stretch(w.kind, lo, hi)} : CanMark(day, "activities", lo, hi)}

Overtime(w, day) ==
    LET s == day.start
        e == day.end
        lo == IF (w.start >= s /\ w.start < e /\ e < w.end) \/ (w.start < s /\ w.end > e)
              THEN e ELSE w.start
        hi == IF w.start < s /\ s < w.end /\ w.end <= e THEN s ELSE w.end
    IN  {b \in {Stretch(w.channel, lo, hi)} : CanAddOvertime(day, lo, hi)}

Placed(w, day) == IF w.kind = "ot" THEN Overtime(w, day) ELSE TimeOff(w, day)

(* The day with the block written in.                                      *)
WithBlock(w, day, b, g) ==
    LET x == [id |-> <<g, 0>>, kind |-> b.kind, start |-> b.start, end |-> b.end]
    IN  IF w.kind = "ot" THEN WithOvertime(day, x) ELSE Mark(day, "activities", x)

(* _without_window: overtime without the stretch from s to e; what is left *)
(* on its right gets a new id if something is left on its left too.        *)
WithoutWindow(ot, s, e) ==
    LET hit == {x \in ot : x.start < e /\ s < x.end}
    IN  (ot \ hit)
        \cup {[x EXCEPT !.end = s] : x \in {y \in hit : y.start < s}}
        \cup {[x EXCEPT !.start = e, !.id = IF x.start < s THEN <<@[1], @[2] + 1>> ELSE @] :
                 x \in {y \in hit : y.end > e}}

(* The day a cancelled claim leaves behind.                                *)
WithoutClaim(day, g) ==
    LET c == claims[g]
    IN  IF Window[c.offer].kind = "ot"
        THEN [day EXCEPT !.ot = WithoutWindow(@, c.start, c.end)]
        ELSE [day EXCEPT !.activities = {x \in @ : x.id # <<g, 0>>}]

-----------------------------------------------------------------------------
(* Requests.  A request holds what it has read and what it will write: an  *)
(* offer row, an agent's day and a claim, each as it was and as it will be.*)

Begin(c, q) ==
    /\ req[c] = None
    /\ Overlap \/ \A x \in Clients : req[x] = None
    /\ req' = [req EXCEPT ![c] = q]
    /\ UNCHANGED <<offers, claims, days, kept>>

OfferWrite(o, row) ==
    [offer |-> o, seen |-> offers[o], row |-> row, agent |-> None, seg |-> None]

(* _apply_each writes a day that is there if the new one is valid.         *)
DayWrite(o, a, day, g, claim) ==
    LET refused == days[a] # None /\ ~ValidDay(day)
    IN  [offer |-> o, seen |-> offers[o], row |-> offers[o], agent |-> a, before |-> days[a],
         after |-> IF days[a] = None \/ refused THEN days[a] ELSE day, refused |-> refused,
         seg |-> g, claim |-> claim]

HeldIds(o) ==
    {r.id : r \in (UNION {{req[x].seen, req[x].row} : x \in {y \in Clients :
                             req[y] # None /\ req[y].offer = o}}) \ {None}}

(* Mutant: what is asked for is what is left.                              *)
ResizedLeft(o, n) == n - Cardinality(FilledOf(o))

(* Mutant: nobody looks at who has taken it.                               *)
ResizedAsAsked(o, n) == n

(* An offer opened again keeps the places that are taken.                  *)
Resized(o, n) == Max({n, Cardinality(FilledOf(o))})

(* upsert_offers: opens an offer, or changes the one with the same key.    *)
UpsertOffer(c, o) ==
    \E n \in Capacities[o], E \in Eligibles :
       LET row == [capacity |-> Resized(o, n), status |-> "open", eligible |-> E,
                   id |-> IF offers[o] = None THEN Min(RowIds \ HeldIds(o)) ELSE offers[o].id]
       IN  Begin(c, OfferWrite(o, row))

(* patch_offer: a new capacity, closing and reopening.                     *)
PatchOffer(c, o) ==
    /\ offers[o] # None
    /\ \E n \in Capacities[o] \cup {offers[o].capacity}, st \in {"open", "closed"} :
          /\ n = offers[o].capacity \/ n >= Cardinality(FilledOf(o))
          /\ Begin(c, OfferWrite(o, [offers[o] EXCEPT !.capacity = n, !.status = st]))

(* Mutant: also when it was taken.                                         *)
DeleteOfferTaken(c, o) ==
    /\ offers[o] # None
    /\ Begin(c, OfferWrite(o, None))

(* delete_offer: not once it was taken.                                    *)
DeleteOffer(c, o) ==
    /\ offers[o] # None
    /\ FilledOf(o) = {}
    /\ Begin(c, OfferWrite(o, None))

InFlight == {req[x].seg : x \in {y \in Clients : req[y] # None}}

HasRoom(o) == Cardinality(FilledOf(o)) < offers[o].capacity

(* claim.                                                                  *)
ClaimSlot(c, o, a) ==
    /\ offers[o] # None /\ offers[o].status = "open" /\ a \in offers[o].eligible
    /\ days[a] # None
    /\ \A g \in FilledOf(o) : claims[g].agent # a
    /\ HasRoom(o)
    /\ \E g \in {x \in Segs : claims[x] = None /\ x \notin InFlight}, b \in Placed(Window[o], days[a]) :
          LET day == WithBlock(Window[o], days[a], b, g)
          IN  /\ \A x \in Segs : x < g => claims[x] # None \/ x \in InFlight
              /\ ValidDay(day)
              /\ Begin(c, DayWrite(o, a, day, g,
                     [offer |-> o, agent |-> a, start |-> b.start, end |-> b.end,
                      status |-> "filled"]))

(* cancel_claim: the claim is cancelled whether the day was written or not.*)
CancelClaim(c, g) ==
    /\ claims[g] # None /\ claims[g].status = "filled"
    /\ LET a == claims[g].agent
           day == IF days[a] = None THEN None ELSE WithoutClaim(days[a], g)
       IN  /\ day # None => \A x \in day.ot : x.id[2] <= MaxCuts
           /\ Begin(c, DayWrite(claims[g].offer, a, day, g, [claims[g] EXCEPT !.status = "cancelled"]))

-----------------------------------------------------------------------------
(* The flush and commit of a session *)

SameOffer(q) == offers[q.offer] # None /\ q.seen # None /\ offers[q.offer].id = q.seen.id

CanFlush(q) ==
    /\ q.row # q.seen =>
          \/ q.row = None                              \* DELETE
          \/ q.seen = None /\ offers[q.offer] = None   \* INSERT
          \/ SameOffer(q)                              \* UPDATE
    /\ q.agent # None =>
          /\ q.after # q.before => days[q.agent] # None
          /\ IF q.claim.status = "filled" THEN SameOffer(q) ELSE claims[q.seg] # None

Net(old, new, current) == IF new # old THEN new ELSE current

FlushedOffer(q) ==
    IF q.row = q.seen THEN offers[q.offer]
    ELSE IF q.row = None THEN IF SameOffer(q) THEN None ELSE offers[q.offer]
    ELSE IF q.seen = None THEN q.row
    ELSE [id |-> q.row.id,
          capacity |-> Net(q.seen.capacity, q.row.capacity, offers[q.offer].capacity),
          status   |-> Net(q.seen.status, q.row.status, offers[q.offer].status),
          eligible |-> Net(q.seen.eligible, q.row.eligible, offers[q.offer].eligible)]

FlushedDay(q) ==
    IF q.after = q.before THEN days[q.agent]
    ELSE [days[q.agent] EXCEPT !.ot = Net(q.before.ot, q.after.ot, @),
                               !.activities = Net(q.before.activities, q.after.activities, @)]

(* The claims of an offer that is deleted go with it.                      *)
Commit(c) ==
    /\ req[c] # None
    /\ CanFlush(req[c])
    /\ LET q == req[c]
           row == FlushedOffer(q)
           written == IF q.agent = None THEN claims ELSE [claims EXCEPT ![q.seg] = q.claim]
       IN  /\ offers' = [offers EXCEPT ![q.offer] = row]
           /\ claims' = [g \in Segs |->
                 IF row = None /\ written[g] # None /\ written[g].offer = q.offer THEN None
                 ELSE written[g]]
           /\ days' = IF q.agent = None THEN days ELSE [days EXCEPT ![q.agent] = FlushedDay(q)]
           /\ kept' = IF q.agent # None /\ q.refused THEN kept \cup {q.agent} ELSE kept
    /\ req' = [req EXCEPT ![c] = None]

RollBack(c) ==
    /\ req[c] # None
    /\ req' = [req EXCEPT ![c] = None]
    /\ UNCHANGED <<offers, claims, days, kept>>

-----------------------------------------------------------------------------
(* Schedulers at work on the same days: DayPlans *)

ResetDay(a) ==
    /\ days[a] # None
    /\ days' = [days EXCEPT ![a] = None]
    /\ UNCHANGED <<offers, claims, req, kept>>

Init ==
    /\ offers = [o \in Offers |-> None]
    /\ claims = [g \in Segs |-> None]
    /\ days = FirstDays
    /\ req = [c \in Clients |-> None]
    /\ kept = {}

Next ==
    \/ \E c \in Clients, o \in Offers : UpsertOffer(c, o) \/ PatchOffer(c, o) \/ DeleteOffer(c, o)
    \/ \E c \in Clients, o \in Offers, a \in Agents : ClaimSlot(c, o, a)
    \/ \E c \in Clients, g \in Segs : CancelClaim(c, g)
    \/ \E c \in Clients : Commit(c) \/ RollBack(c)
    \/ \E a \in Agents : ResetDay(a)

Spec == Init /\ [][Next]_vars

-----------------------------------------------------------------------------
(* Properties *)

(* "capacity agents can claim it, first come first served" (models.py:125):*)
(* through opening, closing, resizing, deleting, claiming and cancelling,  *)
(* never more hold a slot than there are.                                  *)
CapacityRespected ==
    \A o \in Offers : offers[o] # None => Cardinality(FilledOf(o)) <= offers[o].capacity

(* The claims an agent holds: of overtime, or of time off.                 *)
ClaimedOf(a, ot) ==
    {g \in Segs : claims[g] # None /\ claims[g].status = "filled" /\ claims[g].agent = a
                     /\ (Window[claims[g].offer].kind = "ot") = ot}

Worked(ot, m) == \E x \in ot : x.start <= m /\ m < x.end

ClaimedAt(a, m) == \E g \in ClaimedOf(a, TRUE) : claims[g].start <= m /\ m < claims[g].end

(* "A claim is written straight into the claimant's day plan" and          *)
(* "Cancelling a claim takes it back out" (offers.py:7-10), and nothing    *)
(* else is lost or left: a day's time off and overtime are what it had at  *)
(* first and those of its filled claims, minute by minute, however they    *)
(* were merged and cut.  Overtime that was given back stays, with no word  *)
(* to anybody, when the day without it is refused (offers.py:458): cutting *)
(* one block twice gives two blocks one id.                                *)
DaysAreTheirClaims ==
    \A a \in Agents : days[a] # None =>
       /\ {x.id[1] : x \in days[a].activities \ FirstDays[a].activities} = ClaimedOf(a, FALSE)
       /\ \A m \in 0 .. DayMinutes - 1 :
             LET due == Worked(FirstDays[a].ot, m) \/ ClaimedAt(a, m)
             IN  /\ due => Worked(days[a].ot, m)
                 /\ Worked(days[a].ot, m) /\ a \notin kept => due
=============================================================================
