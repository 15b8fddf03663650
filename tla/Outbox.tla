------------------------------- MODULE Outbox -------------------------------
(***************************************************************************)
(* Outgoing webhooks: backend/app/modules/connect/webhooks.py and the      *)
(* webhook endpoints of connect/router.py.                                 *)
(*                                                                         *)
(* A request that changes something adds one delivery row per webhook that *)
(* wants the event to its own transaction.  The dispatcher reads a batch   *)
(* of due rows in one session, posts them one after the other, flushes     *)
(* each outcome, and commits once at the end of the batch; administrators  *)
(* send rows by hand in sessions of their own.  What a session has flushed *)
(* is locked until it commits; what it has read may be stale by then.      *)
(*                                                                         *)
(* Times of day, bodies, signatures and URLs are left out: a row that      *)
(* waits for a retry becomes due at some later time.                       *)
(***************************************************************************)
EXTENDS Naturals, FiniteSets

CONSTANTS
    Webhooks,     \* webhook_subscriptions ids (never reused)
    None,         \* no delivery
    Hands,        \* requests of administrators that send something by hand
    MaxEvents,    \* bound: how many events there are, pings included
    MaxAttempts,  \* MAX_ATTEMPTS
    Limit,        \* the limit of dispatch_pending
    MaxActs       \* bound: how often administrators intervene or the server dies

ASSUME NumbersAssumption ==
    /\ MaxEvents \in Nat /\ MaxActs \in Nat
    /\ MaxAttempts \in Nat \ {0} /\ Limit \in Nat \ {0}

VARIABLES
    hooks,    \* the webhooks that exist
    active,   \* those of them that are active
    fresh,    \* webhook ids not used yet
    stamp,    \* created_at of the latest event
    event,    \* what became of the transaction that emitted each event
    stored,   \* the deliveries that have a committed row
    row,      \* the columns of the rows
    work,     \* the batch of the dispatcher
    hand,     \* what is being sent by hand
    posts,    \* history: how often each delivery has left
    byHand,   \* history: the deliveries that were sent by hand
    lost,     \* history: how many batches were rolled back
    acts      \* how often administrators intervened or the server died

tables == <<hooks, active, fresh, stamp, event, stored, row>>
history == <<posts, byHand, lost>>
vars == <<tables, work, hand, history, acts>>

Events == 1 .. MaxEvents

(* A delivery is named by its event, in the order of created_at, and its   *)
(* webhook.                                                                *)
Deliveries == Events \X Webhooks

Statuses == {"pending", "retrying", "delivered", "failed"}
Row == [status : Statuses, attempts : Nat, due : BOOLEAN]

(* A transaction that emits: not begun, under way with the webhooks it     *)
(* emits to, committed, rolled back; or the ping of "Send test".           *)
Over(state) == [state |-> state, to |-> {}]
Emission == [state : {"none", "open", "done", "undone", "ping"}, to : SUBSET Webhooks]

(* The columns of a row that is inserted, and of one that is not there.    *)
New == [status |-> "pending", attempts |-> 0, due |-> TRUE]

(* The dispatcher's session: the rows it has got and what it has read in   *)
(* them, the webhooks that were active then, what is still to be sent,     *)
(* what is being sent and how that ends, and what it has flushed.          *)
Batch == [pc : {"idle", "loop", "posted"},
          got : SUBSET Deliveries, read : [Deliveries -> Row], on : SUBSET Webhooks,
          todo : SUBSET Deliveries, cur : Deliveries \cup {None}, ok : BOOLEAN,
          flushed : SUBSET Deliveries, new : [Deliveries -> Row]]

NoRows == [d \in Deliveries |-> New]
Idle == [pc |-> "idle", got |-> {}, read |-> NoRows, on |-> {}, todo |-> {}, cur |-> None,
         ok |-> FALSE, flushed |-> {}, new |-> NoRows]

(* A request that sends by hand: the row as it was read, and the outcome.  *)
NoHand == [pc |-> "idle", cur |-> None, read |-> New, ok |-> FALSE]
Sending == [pc : {"redeliver", "test"}, cur : Deliveries, read : Row, ok : BOOLEAN]

(* The types of all variables.                                             *)
TypeOK ==
    /\ hooks \subseteq Webhooks
    /\ active \subseteq hooks
    /\ fresh \subseteq Webhooks
    /\ stamp \in Nat
    /\ event \in [Events -> Emission]
    /\ stored \subseteq Deliveries
    /\ row \in [Deliveries -> Row]
    /\ work \in Batch
    /\ hand \in [Hands -> Sending \cup {NoHand}]
    /\ posts \in [Deliveries -> Nat]
    /\ byHand \subseteq Deliveries
    /\ lost \in Nat /\ acts \in Nat

-----------------------------------------------------------------------------
(* Rows *)

(* Mutant: what was refused once is not looked for again.                  *)
IsDueOnce(r) == r.status = "pending" /\ r.due

(* The condition of the query of dispatch_pending.                         *)
IsDue(r) == r.status \in {"pending", "retrying"} /\ r.due

Due == {d \in stored : IsDue(row[d])}

(* Mutant: one attempt too many.                                           *)
OutcomeOneMore(was, ok) ==
    LET n == was.attempts + 1
    IN  [attempts |-> n,
         status |-> IF ok THEN "delivered"
                    ELSE IF n > MaxAttempts THEN "failed" ELSE "retrying",
         due |-> ok /\ was.due]

(* What deliver makes of the row it has read.                              *)
Outcome(was, ok) ==
    LET n == was.attempts + 1
    IN  [attempts |-> n,
         status |-> IF ok THEN "delivered"
                    ELSE IF n >= MaxAttempts THEN "failed" ELSE "retrying",
         due |-> IF ok \/ n >= MaxAttempts THEN was.due ELSE FALSE]

(* What the UPDATE makes of the row as it is: columns that have the value  *)
(* that was read are not written.                                          *)
Merged(now, was, new) ==
    [attempts |-> new.attempts,
     status |-> IF new.status = was.status THEN now.status ELSE new.status,
     due |-> IF new.status = "retrying" THEN new.due ELSE now.due]

Acts == acts < MaxActs /\ acts' = acts + 1

Locked(s) == \E d \in work.flushed : d[2] = s

-----------------------------------------------------------------------------
(* The requests that change something *)

(* Mutant: the deliveries are written in a session of their own.           *)
EmitAtOnce ==
    /\ stamp < MaxEvents
    /\ stamp' = stamp + 1
    /\ event' = [event EXCEPT ![stamp + 1] = [state |-> "open", to |-> active]]
    /\ stored' = stored \cup ({stamp + 1} \X active)
    /\ UNCHANGED <<hooks, active, fresh, row, work, hand, history, acts>>

(* emit, in the transaction of the change: to the webhooks that are active *)
(* now and list the event; without any there is nothing to emit.           *)
Emit ==
    /\ stamp < MaxEvents
    /\ stamp' = stamp + 1
    /\ \E to \in (SUBSET active) \ {{}} :
          event' = [event EXCEPT ![stamp + 1] = [state |-> "open", to |-> to]]
    /\ UNCHANGED <<hooks, active, fresh, stored, row, work, hand, history, acts>>

(* The change and its deliveries are committed together.                   *)
Commit(n) ==
    /\ event[n].state = "open"
    /\ event[n].to \subseteq hooks
    /\ stored' = stored \cup ({n} \X event[n].to)
    /\ event' = [event EXCEPT ![n] = Over("done")]
    /\ UNCHANGED <<hooks, active, fresh, stamp, row, work, hand, history, acts>>

(* The request fails after it has emitted, for a reason of its own or      *)
(* because a webhook it emitted to is gone (foreign key).                  *)
RollBack(n) ==
    /\ event[n].state = "open"
    /\ event' = [event EXCEPT ![n] = Over("undone")]
    /\ UNCHANGED <<hooks, active, fresh, stamp, stored, row, work, hand, history, acts>>

-----------------------------------------------------------------------------
(* The dispatcher *)

(* The batches the query may answer with: ordered by created_at, ties in   *)
(* any order, no more than the limit.                                      *)
IsBatch(B) ==
    /\ B \subseteq Due
    /\ Cardinality(B) <= Limit
    /\ B # Due => Cardinality(B) = Limit
    /\ \A d \in B, e \in Due \ B : d[1] <= e[1]

(* A kick or the poll finds something due: the rows and the webhooks are   *)
(* read, and kept in the session as they are now.                          *)
Select ==
    /\ work.pc = "idle"
    /\ Due # {}
    /\ \E B \in SUBSET Due :
          /\ IsBatch(B)
          /\ work' = [Idle EXCEPT !.pc = "loop", !.got = B, !.todo = B,
                                  !.on = {d[2] : d \in B} \cap active,
                                  !.read = [d \in Deliveries |-> IF d \in B THEN row[d] ELSE New]]
    /\ UNCHANGED <<tables, hand, history, acts>>

IsNext(d) == d \in work.todo /\ \A e \in work.todo : d[1] <= e[1]

(* Deliveries of a paused webhook are passed over.                         *)
Skip(d) ==
    /\ work.pc = "loop"
    /\ IsNext(d)
    /\ d[2] \notin work.on
    /\ work' = [work EXCEPT !.todo = @ \ {d}]
    /\ UNCHANGED <<tables, hand, history, acts>>

(* A delivery leaves; the receiver accepts it, refuses, or cannot be       *)
(* reached in time.                                                        *)
Post(d) ==
    /\ work.pc = "loop"
    /\ IsNext(d)
    /\ d[2] \in work.on
    /\ posts' = [posts EXCEPT ![d] = @ + 1]
    /\ \E ok \in BOOLEAN :
          work' = [work EXCEPT !.pc = "posted", !.todo = @ \ {d}, !.cur = d, !.ok = ok]
    /\ UNCHANGED <<tables, hand, byHand, lost, acts>>

(* The outcome is flushed, not committed.                                  *)
Flush ==
    /\ work.pc = "posted"
    /\ work.cur \in stored
    /\ work' = [work EXCEPT !.pc = "loop", !.cur = None, !.ok = FALSE,
                            !.flushed = @ \cup {work.cur},
                            !.new[work.cur] = Outcome(work.read[work.cur], work.ok)]
    /\ UNCHANGED <<tables, hand, history, acts>>

(* The row was deleted while it was being sent: the UPDATE finds nothing,  *)
(* the batch ends with an exception, and all it has flushed is undone.     *)
FlushRaises ==
    /\ work.pc = "posted"
    /\ work.cur \notin stored
    /\ work' = Idle
    /\ lost' = lost + 1
    /\ UNCHANGED <<tables, hand, posts, byHand, acts>>

Recorded ==
    [d \in Deliveries |->
        IF d \in work.flushed THEN Merged(row[d], work.read[d], work.new[d]) ELSE row[d]]

(* The whole batch is committed at its end.                                *)
CommitBatch ==
    /\ work.pc = "loop"
    /\ work.todo = {}
    /\ row' = Recorded
    /\ work' = Idle
    /\ UNCHANGED <<hooks, active, fresh, stamp, event, stored, hand, history, acts>>

DispatcherStep ==
    \/ Select \/ Flush \/ FlushRaises \/ CommitBatch
    \/ \E d \in work.todo : Skip(d) \/ Post(d)

(* Time passes: a retry becomes due.                                       *)
BackoffEnds(d) ==
    /\ d \in stored
    /\ ~row[d].due
    /\ row' = [row EXCEPT ![d].due = TRUE]
    /\ UNCHANGED <<hooks, active, fresh, stamp, event, stored, work, hand, history, acts>>

-----------------------------------------------------------------------------
(* The endpoints *)

CreateWebhook(s) ==
    /\ s \in fresh
    /\ fresh' = fresh \ {s}
    /\ hooks' = hooks \cup {s}
    /\ active' \in {active, active \cup {s}}
    /\ UNCHANGED <<stamp, event, stored, row, work, hand, history, acts>>

(* Pausing, or turning on again.                                           *)
UpdateWebhook(s) ==
    /\ s \in hooks
    /\ Acts
    /\ ~Locked(s)
    /\ active' = IF s \in active THEN active \ {s} ELSE active \cup {s}
    /\ UNCHANGED <<hooks, fresh, stamp, event, stored, row, work, hand, history>>

(* The deliveries go with the webhook (ON DELETE CASCADE).                 *)
DeleteWebhook(s) ==
    /\ s \in hooks
    /\ Acts
    /\ ~Locked(s)
    /\ \A h \in Hands : hand[h].pc = "test" => hand[h].cur[2] # s
    /\ hooks' = hooks \ {s}
    /\ active' = active \ {s}
    /\ stored' = {d \in stored : d[2] # s}
    /\ row' = [d \in Deliveries |-> IF d[2] = s THEN New ELSE row[d]]
    /\ UNCHANGED <<fresh, stamp, event, work, hand, history>>

(* redeliver: a row is read and sent, whatever its status.                 *)
Redeliver(h, d) ==
    /\ hand[h].pc = "idle"
    /\ Acts
    /\ d \in stored
    /\ posts' = [posts EXCEPT ![d] = @ + 1]
    /\ byHand' = byHand \cup {d}
    /\ \E ok \in BOOLEAN :
          hand' = [hand EXCEPT ![h] = [pc |-> "redeliver", cur |-> d, read |-> row[d], ok |-> ok]]
    /\ UNCHANGED <<tables, work, lost>>

(* test_webhook: a ping for one webhook is added, flushed and sent.        *)
SendTest(h, s) ==
    /\ hand[h].pc = "idle"
    /\ Acts
    /\ stamp < MaxEvents
    /\ s \in hooks
    /\ stamp' = stamp + 1
    /\ event' = [event EXCEPT ![stamp + 1] = Over("ping")]
    /\ posts' = [posts EXCEPT ![<<stamp + 1, s>>] = @ + 1]
    /\ \E ok \in BOOLEAN :
          hand' = [hand EXCEPT ![h] =
                      [pc |-> "test", cur |-> <<stamp + 1, s>>, read |-> New, ok |-> ok]]
    /\ UNCHANGED <<hooks, active, fresh, stored, row, work, byHand, lost>>

(* The outcome is flushed and committed once the rows are free; a row that *)
(* is gone is an error.                                                    *)
RecordByHand(h) ==
    LET d == hand[h].cur
        new == Outcome(hand[h].read, hand[h].ok)
    IN  /\ hand[h].pc # "idle"
        /\ ~Locked(d[2])
        /\ stored' = IF hand[h].pc = "test" THEN stored \cup {d} ELSE stored
        /\ row' = IF hand[h].pc = "test" THEN [row EXCEPT ![d] = new]
                  ELSE IF d \in stored THEN [row EXCEPT ![d] = Merged(@, hand[h].read, new)]
                  ELSE row
        /\ hand' = [hand EXCEPT ![h] = NoHand]
        /\ UNCHANGED <<hooks, active, fresh, stamp, event, work, history, acts>>

(* The server dies: every session is rolled back.                          *)
Crash ==
    /\ Acts
    /\ lost' = lost + 1
    /\ work' = Idle
    /\ hand' = [h \in Hands |-> NoHand]
    /\ event' = [n \in Events |->
                    IF event[n].state = "open" THEN Over("undone") ELSE event[n]]
    /\ UNCHANGED <<hooks, active, fresh, stamp, stored, row, posts, byHand>>

-----------------------------------------------------------------------------
Init ==
    /\ hooks = {} /\ active = {}
    /\ fresh = Webhooks
    /\ stamp = 0
    /\ event = [n \in Events |-> Over("none")]
    /\ stored = {} /\ row = NoRows
    /\ work = Idle
    /\ hand = [h \in Hands |-> NoHand]
    /\ posts = [d \in Deliveries |-> 0]
    /\ byHand = {}
    /\ lost = 0 /\ acts = 0

RequestStep ==
    \/ Emit
    \/ \E n \in Events : Commit(n) \/ RollBack(n)
    \/ \E s \in Webhooks : CreateWebhook(s) \/ UpdateWebhook(s) \/ DeleteWebhook(s)
    \/ \E h \in Hands :
          \/ \E d \in stored : Redeliver(h, d)
          \/ \E s \in Webhooks : SendTest(h, s)
          \/ RecordByHand(h)

Next ==
    \/ DispatcherStep
    \/ \E d \in Deliveries : BackoffEnds(d)
    \/ RequestStep
    \/ Crash

Spec == Init /\ [][Next]_vars

(* run_dispatcher loops for ever and time passes; nobody else has to act.  *)
FairSpec ==
    /\ Spec
    /\ WF_vars(DispatcherStep)
    /\ \A d \in Deliveries : WF_vars(BackoffEnds(d))

-----------------------------------------------------------------------------
(* Properties *)

(* Only what was committed is sent: "an event is only ever sent for a      *)
(* change that was actually committed" (webhooks.py:5), whatever happens   *)
(* to the request after it has emitted, and whoever looks for due rows in  *)
(* between.  Pings are no changes.                                         *)
OnlyCommittedIsSent ==
    \A d \in Deliveries : posts[d] > 0 => event[d[1]].state \in {"done", "ping"}

(* A delivery nobody sends by hand leaves at most MAX_ATTEMPTS times, and  *)
(* once more for every batch whose records were undone: the retry budget   *)
(* survives deleted webhooks, crashes, pauses and tests, since each batch  *)
(* sends a row once and either records it or is lost.                      *)
BudgetHolds ==
    \A d \in Deliveries \ byHand : posts[d] <= MaxAttempts + lost

(* What makes it so.  Rows belong to events that are over;                 *)
Begun(d) == event[d[1]].state \in {"done", "ping"}

EventsBegun ==
    /\ \A n \in Events : event[n].state = "none" <=> n > stamp
    /\ \A d \in Deliveries : ~Begun(d) => d \notin stored /\ posts[d] = 0
    /\ \A d \in work.got : Begun(d)

\* a session works on what it has got, one row after the other;
SessionInv ==
    /\ work.todo \subseteq work.got /\ work.flushed \subseteq work.got \cap stored
    /\ work.todo \cap work.flushed = {}
    /\ work.pc = "posted" => work.cur \in work.got \ (work.todo \cup work.flushed)
    /\ work.pc = "idle" => work.got = {}

\* what is sent by hand is known as such, or is a ping nobody else can see;
HandsInv ==
    \A h \in Hands :
       /\ hand[h].pc # "idle" => hand[h].cur \in Deliveries /\ Begun(hand[h].cur)
       /\ hand[h].pc = "redeliver" => hand[h].cur \in byHand
       /\ hand[h].pc = "test" =>
             /\ hand[h].cur \notin stored \cup work.got
             /\ posts[hand[h].cur] = 1 /\ hand[h].read = New
             /\ \A g \in Hands \ {h} : hand[g].pc # "idle" => hand[g].cur # hand[h].cur

\* rows that are due have attempts left, and nobody but the dispatcher
\* touches those that are not sent by hand;
AttemptsLeft(r) ==
    /\ r.attempts <= MaxAttempts
    /\ r.status \in {"pending", "retrying"} => r.attempts < MaxAttempts

RowsInv ==
    \A d \in Deliveries \ byHand :
       /\ AttemptsLeft(row[d])
       /\ d \in work.got =>
             /\ IsDue(work.read[d]) /\ AttemptsLeft(work.read[d])
             /\ d \in stored => row[d] = work.read[d]
       /\ d \in work.flushed => \E ok \in BOOLEAN : work.new[d] = Outcome(work.read[d], ok)

\* each time a delivery has left is an attempt on record, or in hand, or lost.
InHand(d) == d \in work.flushed \/ (work.pc = "posted" /\ work.cur = d)

PostsInv ==
    \A d \in Deliveries \ byHand :
       /\ d \in stored => posts[d] <= row[d].attempts + lost + (IF InHand(d) THEN 1 ELSE 0)
       /\ d \in work.got =>
             posts[d] <= work.read[d].attempts + lost + (IF InHand(d) THEN 1 ELSE 0)
       /\ posts[d] <= MaxAttempts + lost

OutboxInv == EventsBegun /\ SessionInv /\ HandsInv /\ RowsInv /\ PostsInv

(* A delivery is settled when it was accepted or given up, or while its    *)
(* webhook is paused or gone.                                              *)
Settled(d) ==
    \/ d \notin stored
    \/ row[d].status \in {"delivered", "failed"}
    \/ d[2] \notin active

(* Due rows of paused webhooks, which every batch reads and passes over.   *)
Parked == {d \in Due : d[2] \notin active}

(* While paused webhooks leave room in a batch, every delivery is settled: *)
(* whatever is read before it, skipped, refused, undone or sent by hand    *)
(* ("it also polls every few seconds", webhooks.py:168; README.md:225).    *)
DeliveriesSettle ==
    [](Cardinality(Parked) < Limit) =>
        \A d \in Deliveries : d \in stored ~> Settled(d)
=============================================================================
