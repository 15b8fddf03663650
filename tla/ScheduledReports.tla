-------------------------- MODULE ScheduledReports --------------------------
(***************************************************************************)
(* Scheduled report e-mails: backend/app/modules/reporting/scheduled.py    *)
(* (the background pass) and the subscription endpoints of                 *)
(* scheduled_router.py.                                                    *)
(*                                                                         *)
(* Each application server runs a pass every minute: it lists what is due, *)
(* then takes the subscriptions one by one in their own database sessions, *)
(* moves next_run_at with a conditional UPDATE, commits, and only then     *)
(* sends the e-mail and commits a history row.  Between any two of these   *)
(* statements other servers, the users and crashes may act.                *)
(*                                                                         *)
(* Time counts scheduler minutes.  A subscription's send time, weekdays    *)
(* and time zone are abstracted to the set of moments they name.           *)
(***************************************************************************)
EXTENDS Naturals

CONSTANTS
    Servers,     \* application servers running the background pass
    Subs,        \* subscription ids (never reused)
    Schedules,   \* the sets of moments a subscription may go out at
    Null,        \* SQL NULL
    MaxTime,     \* bound: the clock stops here
    MaxCrashes   \* bound: how often servers die

ASSUME SchedulesAssumption == Schedules \subseteq SUBSET Nat
ASSUME NullAssumption == Null \notin Nat /\ Null \notin Subs
ASSUME BoundsAssumption == MaxTime \in Nat /\ MaxCrashes \in Nat

VARIABLES
    clock,    \* the wall clock
    unused,   \* ids not used yet
    live,     \* ids that have a row in report_subscriptions
    sub,      \* the columns of the rows
    pass,     \* what each server's pass is doing
    mails,    \* history: <<id, moment>> whose e-mail has left
    twice,    \* history: <<id, moment>> whose e-mail has left again
    last,     \* last_status of the rows: the outcome of the latest history row
    crashes   \* how often a server died

reportVars == <<clock, unused, live, sub, pass, mails, twice, last, crashes>>

Times == Nat \cup {Null}
Outcomes == {"sent", "failed"}
SubRow == [active : BOOLEAN, sched : Schedules, next : Times]

(* A pass.  todo pairs each id found due with the moment that made it due, *)
(* which the code does not keep (history); cur and due are the pair being  *)
(* handled, seen and plan its next_run_at and schedule as loaded.          *)
Pass == [pc : {"idle", "loop", "loaded", "claimed", "mailed"},
         now : Nat, todo : SUBSET (Subs \X Nat),
         cur : Subs \cup {Null}, due : Nat, seen : Times,
         plan : SUBSET Nat, outcome : Outcomes]

Looping(now, todo) ==
    [pc |-> "loop", now |-> now, todo |-> todo, cur |-> Null, due |-> 0,
     seen |-> Null, plan |-> {}, outcome |-> "failed"]

IdlePass == [Looping(0, {}) EXCEPT !.pc = "idle"]

(* The types of all variables.                                             *)
ReportsTypeOK ==
    /\ clock \in Nat
    /\ unused \subseteq Subs
    /\ live \subseteq Subs
    /\ sub \in [Subs -> SubRow]
    /\ pass \in [Servers -> Pass]
    /\ mails \subseteq Subs \X Nat
    /\ twice \subseteq Subs \X Nat
    /\ last \in [Subs -> Outcomes \cup {Null}]
    /\ crashes \in Nat

-----------------------------------------------------------------------------
(* Timing *)

(* Mutant: the next moment may be the present one.                         *)
NextRunInclusive(S, t) ==
    IF \E x \in S : x >= t
    THEN CHOOSE x \in S : x >= t /\ \A y \in S : y >= t => x <= y
    ELSE Null

(* next_run: the first moment of the schedule strictly after t.            *)
NextRun(S, t) ==
    IF \E x \in S : x > t
    THEN CHOOSE x \in S : x > t /\ \A y \in S : y > t => x <= y
    ELSE Null

(* Mutant: the query does not leave out NULL.                              *)
IsSendDueNull(r, t) == r.active /\ (IF r.next = Null THEN TRUE ELSE r.next <= t)

(* The listing query of run_due.                                           *)
IsSendDue(r, t) == r.active /\ r.next # Null /\ r.next <= t

(* The columns _apply writes on create and update.                         *)
Applied(S, on) ==
    [active |-> on, sched |-> S, next |-> IF on THEN NextRun(S, clock) ELSE Null]

-----------------------------------------------------------------------------
(* One pass: run_due *)

(* The ids that are due, in a session of their own.                        *)
ListDue(w) ==
    /\ pass[w].pc = "idle"
    /\ pass' = [pass EXCEPT ![w] =
          Looping(clock, {<<s, sub[s].next>> : s \in {x \in live : IsSendDue(sub[x], clock)}})]
    /\ UNCHANGED <<clock, unused, live, sub, mails, twice, last, crashes>>

(* The next id is loaded; one deleted meanwhile is passed over.            *)
Load(w) ==
    /\ pass[w].pc = "loop"
    /\ \E e \in pass[w].todo :
          \/ /\ e[1] \in live
             /\ pass' = [pass EXCEPT ![w].pc = "loaded", ![w].todo = @ \ {e},
                                     ![w].cur = e[1], ![w].due = e[2],
                                     ![w].seen = sub[e[1]].next, ![w].plan = sub[e[1]].sched]
          \/ /\ e[1] \notin live
             /\ pass' = [pass EXCEPT ![w].todo = @ \ {e}]
    /\ UNCHANGED <<clock, unused, live, sub, mails, twice, last, crashes>>

(* Whether the conditional UPDATE finds its row.                           *)
ClaimMatches(w) ==
    /\ pass[w].cur \in live
    /\ sub[pass[w].cur].next = pass[w].seen

(* Mutant: the next moment is counted from the moment that was due.        *)
ClaimedUntilDue(w) == NextRunInclusive(pass[w].plan, pass[w].due)

(* The value the conditional UPDATE writes.                                *)
ClaimedUntil(w) == NextRun(pass[w].plan, pass[w].now)

(* The conditional UPDATE and its commit.                                  *)
ClaimWon(w) ==
    /\ pass[w].pc = "loaded"
    /\ ClaimMatches(w)
    /\ sub' = [sub EXCEPT ![pass[w].cur].next = ClaimedUntil(w)]
    /\ pass' = [pass EXCEPT ![w].pc = "claimed"]
    /\ UNCHANGED <<clock, unused, live, mails, twice, last, crashes>>

ClaimLost(w) ==
    /\ pass[w].pc = "loaded"
    /\ ~ClaimMatches(w)
    /\ pass' = [pass EXCEPT ![w] = Looping(@.now, @.todo)]
    /\ UNCHANGED <<clock, unused, live, sub, mails, twice, last, crashes>>

(* An e-mail for the moment w is handling leaves.                          *)
MailLeaves(w) ==
    LET e == <<pass[w].cur, pass[w].due>>
    IN  /\ mails' = mails \cup {e}
        /\ twice' = IF e \in mails THEN twice \cup {e} ELSE twice

(* The row is read again and the e-mail sent.  A mail error is an outcome; *)
(* after a timeout the e-mail may have left all the same.                  *)
Send(w) ==
    /\ pass[w].pc = "claimed"
    /\ pass[w].cur \in live
    /\ \/ /\ MailLeaves(w)
          /\ \E o \in Outcomes : pass' = [pass EXCEPT ![w].pc = "mailed", ![w].outcome = o]
       \/ /\ UNCHANGED <<mails, twice>>
          /\ pass' = [pass EXCEPT ![w].pc = "mailed", ![w].outcome = "failed"]
    /\ UNCHANGED <<clock, unused, live, sub, last, crashes>>

(* Any other exception - the row is gone on refresh, or the report cannot  *)
(* be built - ends the whole pass; the loop tries again next minute.       *)
SendRaises(w) ==
    /\ pass[w].pc = "claimed"
    /\ pass' = [pass EXCEPT ![w] = IdlePass]
    /\ UNCHANGED <<clock, unused, live, sub, mails, twice, last, crashes>>

(* The history row and its commit.                                         *)
Record(w) ==
    /\ pass[w].pc = "mailed"
    /\ pass[w].cur \in live
    /\ last' = [last EXCEPT ![pass[w].cur] = pass[w].outcome]
    /\ pass' = [pass EXCEPT ![w] = Looping(@.now, @.todo)]
    /\ UNCHANGED <<clock, unused, live, sub, mails, twice, crashes>>

(* The row was deleted while the e-mail was going out: the UPDATE finds    *)
(* nothing and the pass ends with an exception.                            *)
RecordRaises(w) ==
    /\ pass[w].pc = "mailed"
    /\ pass[w].cur \notin live
    /\ pass' = [pass EXCEPT ![w] = IdlePass]
    /\ UNCHANGED <<clock, unused, live, sub, mails, twice, last, crashes>>

(* Nothing left: sleep until the next minute.                              *)
Sleep(w) ==
    /\ pass[w].pc = "loop"
    /\ pass[w].todo = {}
    /\ pass' = [pass EXCEPT ![w] = IdlePass]
    /\ UNCHANGED <<clock, unused, live, sub, mails, twice, last, crashes>>

(* The server dies and is started again: nothing of a pass survives.       *)
ServerDies(w) ==
    /\ pass[w].pc # "idle"
    /\ crashes < MaxCrashes
    /\ crashes' = crashes + 1
    /\ pass' = [pass EXCEPT ![w] = IdlePass]
    /\ UNCHANGED <<clock, unused, live, sub, mails, twice, last>>

ServerStep(w) ==
    \/ ListDue(w) \/ Load(w) \/ ClaimWon(w) \/ ClaimLost(w) \/ Send(w) \/ SendRaises(w)
    \/ Record(w) \/ RecordRaises(w) \/ Sleep(w)

-----------------------------------------------------------------------------
(* The endpoints: each is one transaction *)

CreateSubscription(s) ==
    /\ s \in unused
    /\ \E S \in Schedules, on \in BOOLEAN : sub' = [sub EXCEPT ![s] = Applied(S, on)]
    /\ unused' = unused \ {s}
    /\ live' = live \cup {s}
    /\ UNCHANGED <<clock, pass, mails, twice, last, crashes>>

(* An edit; Pause and Resume are edits of the active flag.                 *)
UpdateSubscription(s) ==
    /\ s \in live
    /\ \E S \in Schedules, on \in BOOLEAN : sub' = [sub EXCEPT ![s] = Applied(S, on)]
    /\ UNCHANGED <<clock, unused, live, pass, mails, twice, last, crashes>>

(* The history rows go with the subscription (ON DELETE CASCADE).          *)
DeleteSubscription(s) ==
    /\ s \in live
    /\ live' = live \ {s}
    /\ last' = [last EXCEPT ![s] = Null]
    /\ UNCHANGED <<clock, unused, sub, pass, mails, twice, crashes>>

(* A manual send: history only, the schedule is left alone.                *)
SendNow(s) ==
    /\ s \in live
    /\ \E o \in Outcomes : last' = [last EXCEPT ![s] = o]
    /\ UNCHANGED <<clock, unused, live, sub, pass, mails, twice, crashes>>

UserStep(s) ==
    CreateSubscription(s) \/ UpdateSubscription(s) \/ DeleteSubscription(s) \/ SendNow(s)

Tick ==
    /\ clock < MaxTime
    /\ clock' = clock + 1
    /\ UNCHANGED <<unused, live, sub, pass, mails, twice, last, crashes>>

-----------------------------------------------------------------------------
ReportsInit ==
    /\ clock = 0
    /\ unused = Subs
    /\ live = {}
    /\ sub \in [Subs -> [active : {FALSE}, sched : Schedules, next : {Null}]]
    /\ pass = [w \in Servers |-> IdlePass]
    /\ mails = {} /\ twice = {}
    /\ last = [s \in Subs |-> Null]
    /\ crashes = 0

ReportsNext ==
    \/ \E w \in Servers : (ServerStep(w) \/ ServerDies(w))
    \/ \E s \in Subs : UserStep(s)
    \/ Tick

ReportsSpec == ReportsInit /\ [][ReportsNext]_reportVars

(* The scheduler loop of every server keeps running; nobody else has to.   *)
ReportsFairSpec == ReportsSpec /\ \A w \in Servers : WF_reportVars(ServerStep(w))

-----------------------------------------------------------------------------
(* Properties *)

(* No send moment of a subscription goes out twice, crashes and restarts   *)
(* between any two statements included: "committed before sending, so a    *)
(* crash can't make it go out twice" (scheduled.py:104).                   *)
OncePerMoment == twice = {}

(* What makes it so while one server runs, crashes and edits included.     *)
PassInHand(w) ==
    pass[w].todo \cup
       (IF pass[w].pc \in {"loaded", "claimed"} THEN {<<pass[w].cur, pass[w].due>>} ELSE {})

\* What went out lies before the subscription's next moment,
MailedBehindNext ==
    \A m \in mails :
       /\ m[2] <= clock
       /\ m[1] \in live /\ sub[m[1]].next # Null => m[2] < sub[m[1]].next

\* before the moments a pass has in hand, and not after the pass began;
MailedBehindPass(w) ==
    pass[w].pc # "idle" =>
       /\ pass[w].now <= clock
       /\ \A m \in mails : m[2] <= pass[w].now
       /\ \A e \in PassInHand(w) : /\ e[2] <= pass[w].now
                               /\ \A m \in mails : m[1] = e[1] => m[2] < e[2]

\* a pass has each subscription in hand once,
InHandOnce(w) ==
    /\ \A e, f \in pass[w].todo : e[1] = f[1] => e = f
    /\ pass[w].pc \in {"loaded", "claimed"} =>
          pass[w].cur # Null /\ \A e \in pass[w].todo : e[1] # pass[w].cur

\* and what it has claimed has moved on.
ClaimedAhead(w) ==
    pass[w].pc = "claimed" /\ pass[w].cur \in live /\ sub[pass[w].cur].next # Null
       => pass[w].due < sub[pass[w].cur].next

(* The claim protocol of the pass, as an inductive invariant of a single   *)
(* server: a moment is in hand only while nothing as late has gone out.    *)
ClaimInv ==
    /\ OncePerMoment
    /\ MailedBehindNext
    /\ \A w \in Servers : MailedBehindPass(w) /\ InHandOnce(w) /\ ClaimedAhead(w)

(* A report that is due is eventually taken up - sent, or moved on - by a  *)
(* scheduler that keeps running, whatever crashed or was raised before.    *)
IsWaiting(s, t) == s \in live /\ IsSendDue(sub[s], clock) /\ sub[s].next = t

DueIsTakenUp == \A s \in Subs, t \in 0 .. MaxTime : IsWaiting(s, t) ~> ~IsWaiting(s, t)
=============================================================================
