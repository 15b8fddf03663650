------------------------- MODULE ServerLoops_proofs -------------------------
(***************************************************************************)
(* Proofs about the two loops of the server that send things.  About       *)
(* ScheduledReports: its types, for any servers, and - while one server    *)
(* runs the pass - that no moment goes out twice, for any set of           *)
(* subscriptions and schedules and any number of crashes.  About Outbox:   *)
(* its types, that only committed events are sent, and the retry budget,   *)
(* for any webhooks, events, limits and bounds.                            *)
(***************************************************************************)
EXTENDS ScheduledReports, Outbox, WellFoundedInduction, TLAPS

-----------------------------------------------------------------------------
(* Scheduled reports: the moments of a schedule, rows and passes *)

(* A non-empty set of naturals has a least element.                        *)
LEMMA LeastNatural ==
    ASSUME NEW L \in SUBSET Nat, L # {}
    PROVE  \E m \in L : \A y \in L : m <= y
<1> DEFINE R == {ss \in Nat \X Nat : ss[1] < ss[2]}
<1>1. IsWellFoundedOn(R, Nat)
  BY NatLessThanWellFounded DEF OpToRel
<1>2. \E x \in L : \A y \in L : ~ (<<y, x>> \in R)
  <2> HIDE DEF R
  <2> QED BY <1>1, WFMin
<1>3. PICK m \in L : \A y \in L : ~ (<<y, m>> \in R)
  BY <1>2
<1>4. ASSUME NEW y \in L PROVE m <= y
  <2>1. <<y, m>> \in Nat \X Nat /\ ~ (<<y, m>> \in R)
    BY <1>3
  <2>2. y \in Nat /\ m \in Nat /\ ~ (y < m)
    BY <2>1
  <2> QED
    BY <2>2
<1> QED
  BY <1>4

(* What next_run returns lies strictly later than the moment it is asked   *)
(* about (scheduled.py:33).                                                *)
LEMMA NextRunIsLater ==
    ASSUME NEW S \in SUBSET Nat, NEW t \in Nat
    PROVE  /\ NextRun(S, t) \in Times
           /\ NextRun(S, t) # Null => NextRun(S, t) \in Nat /\ NextRun(S, t) > t
<1>1. CASE \E x \in S : x > t
  <2> DEFINE L == {y \in S : y > t}
  <2>1. L # {} /\ L \subseteq Nat
    BY <1>1
  <2>2. \E m \in L : \A y \in L : m <= y
    BY <2>1, LeastNatural
  <2>3. \E m \in S : m > t /\ \A y \in S : y > t => m <= y
    BY <2>2
  <2>4. QED
    BY <2>3, <1>1 DEF NextRun, Times
<1>2. CASE ~ \E x \in S : x > t
  BY <1>2 DEF NextRun, Times
<1> QED
  BY <1>1, <1>2

LEMMA AppliedIsRow ==
    ASSUME ReportsTypeOK, NEW S \in Schedules, NEW on \in BOOLEAN
    PROVE  /\ Applied(S, on) \in SubRow
           /\ Applied(S, on).next # Null => Applied(S, on).next > clock
<1>1. S \in SUBSET Nat /\ clock \in Nat
  BY SchedulesAssumption DEF ReportsTypeOK
<1>2. NextRun(S, clock) \in Times /\ (NextRun(S, clock) # Null => NextRun(S, clock) > clock)
  BY <1>1, NextRunIsLater
<1> QED
  BY <1>2 DEF Applied, SubRow, Times

LEMMA IdleIsPass == IdlePass \in Pass
  BY NullAssumption DEF IdlePass, Looping, Pass, Times, Outcomes

LEMMA LoopingIsPass ==
    ASSUME NEW n \in Nat, NEW T \in SUBSET (Subs \X Nat)
    PROVE  Looping(n, T) \in Pass
  BY NullAssumption DEF Looping, Pass, Times, Outcomes

-----------------------------------------------------------------------------
(* Types *)

LEMMA TypesPreserved == ReportsTypeOK /\ [ReportsNext]_reportVars => ReportsTypeOK'
<1> SUFFICES ASSUME ReportsTypeOK, [ReportsNext]_reportVars PROVE ReportsTypeOK'
  OBVIOUS
<1> USE DEF ReportsTypeOK
<1>1. ASSUME NEW w \in Servers, ListDue(w) PROVE ReportsTypeOK'
  <2>1. {<<s, sub[s].next>> : s \in {x \in live : IsSendDue(sub[x], clock)}} \subseteq Subs \X Nat
    BY DEF IsSendDue, SubRow, Times
  <2> QED
    BY <1>1, <2>1, LoopingIsPass DEF ListDue
<1>2. ASSUME NEW w \in Servers, Load(w) PROVE ReportsTypeOK'
  <2>1. PICK e \in pass[w].todo :
             \/ pass' = [pass EXCEPT ![w].pc = "loaded", ![w].todo = @ \ {e},
                                     ![w].cur = e[1], ![w].due = e[2],
                                     ![w].seen = sub[e[1]].next, ![w].plan = sub[e[1]].sched]
             \/ pass' = [pass EXCEPT ![w].todo = @ \ {e}]
    BY <1>2 DEF Load
  <2>2. e[1] \in Subs /\ e[2] \in Nat
    BY DEF Pass
  <2>3. sub[e[1]].next \in Times /\ sub[e[1]].sched \in SUBSET Nat
    BY <2>2, SchedulesAssumption DEF SubRow
  <2>4. pass' \in [Servers -> Pass]
    BY <2>1, <2>2, <2>3 DEF Pass
  <2> QED
    BY <1>2, <2>4 DEF Load
<1>3. ASSUME NEW w \in Servers, ClaimWon(w) PROVE ReportsTypeOK'
  <2>1. ClaimedUntil(w) \in Times
    BY NextRunIsLater DEF ClaimedUntil, Pass
  <2>2. pass[w].cur \in Subs
    BY <1>3 DEF ClaimWon, ClaimMatches
  <2>3. sub' \in [Subs -> SubRow]
    BY <1>3, <2>1, <2>2 DEF ClaimWon, SubRow
  <2>4. pass' \in [Servers -> Pass]
    BY <1>3, SMTT(60) DEF ClaimWon, Pass
  <2> QED
    BY <1>3, <2>3, <2>4 DEF ClaimWon
<1>4. ASSUME NEW w \in Servers, Send(w) PROVE ReportsTypeOK'
  <2>1. pass' \in [Servers -> Pass]
    BY <1>4 DEF Send, Pass, Outcomes
  <2>2. mails' \subseteq Subs \X Nat /\ twice' \subseteq Subs \X Nat
    <3>1. <<pass[w].cur, pass[w].due>> \in Subs \X Nat
      BY <1>4 DEF Send, Pass
    <3> QED
      BY <1>4, <3>1 DEF Send, MailLeaves
  <2> QED
    BY <1>4, <2>1, <2>2 DEF Send
<1>5. ASSUME NEW w \in Servers, Record(w) PROVE ReportsTypeOK'
  <2>1. Looping(pass[w].now, pass[w].todo) \in Pass
    BY LoopingIsPass DEF Pass
  <2>2. last' \in [Subs -> Outcomes \cup {Null}]
    BY <1>5 DEF Record, Pass
  <2> QED
    BY <1>5, <2>1, <2>2 DEF Record
<1>6. ASSUME NEW w \in Servers, ClaimLost(w) PROVE ReportsTypeOK'
  <2>1. Looping(pass[w].now, pass[w].todo) \in Pass
    BY LoopingIsPass DEF Pass
  <2> QED
    BY <1>6, <2>1 DEF ClaimLost
<1>7. ASSUME NEW w \in Servers,
             SendRaises(w) \/ RecordRaises(w) \/ Sleep(w) \/ ServerDies(w)
      PROVE ReportsTypeOK'
  BY <1>7, IdleIsPass DEF SendRaises, RecordRaises, Sleep, ServerDies
<1>8. ASSUME NEW s \in Subs, CreateSubscription(s) \/ UpdateSubscription(s) PROVE ReportsTypeOK'
  <2>1. sub' \in [Subs -> SubRow]
    BY <1>8, AppliedIsRow DEF CreateSubscription, UpdateSubscription
  <2> QED
    BY <1>8, <2>1 DEF CreateSubscription, UpdateSubscription
<1>9. ASSUME NEW s \in Subs, DeleteSubscription(s) \/ SendNow(s) PROVE ReportsTypeOK'
  BY <1>9 DEF DeleteSubscription, SendNow
<1>10. CASE Tick
  BY <1>10, BoundsAssumption DEF Tick
<1>11. CASE UNCHANGED reportVars
  BY <1>11 DEF reportVars
<1> QED
  BY <1>1, <1>2, <1>3, <1>4, <1>5, <1>6, <1>7, <1>8, <1>9, <1>10, <1>11
     DEF ReportsNext, ServerStep, UserStep

(* Every variable keeps its type, for any servers, subscriptions,          *)
(* schedules and bounds.                                                   *)
THEOREM ReportsTypeCorrect == ReportsSpec => []ReportsTypeOK
<1>1. ReportsInit => ReportsTypeOK
  <2> SUFFICES ASSUME ReportsInit PROVE ReportsTypeOK
    OBVIOUS
  <2>1. [active : {FALSE}, sched : Schedules, next : {Null}] \subseteq SubRow
    BY DEF SubRow, Times
  <2>2. sub \in [Subs -> SubRow]
    BY <2>1 DEF ReportsInit
  <2>3. pass \in [Servers -> Pass]
    BY IdleIsPass DEF ReportsInit
  <2> QED
    BY <2>2, <2>3 DEF ReportsInit, ReportsTypeOK
<1> QED
  BY <1>1, TypesPreserved, PTL DEF ReportsSpec

-----------------------------------------------------------------------------
(* One server *)

(* The claim protocol is inductive when Servers is {w}: one step per       *)
(* action, and under it the parts of ClaimInv that action disturbs.        *)
LEMMA ClaimInvPreserved ==
    ASSUME NEW w, Servers = {w}, ReportsTypeOK, ReportsTypeOK', ClaimInv, [ReportsNext]_reportVars
    PROVE  ClaimInv'
<1>0. /\ w \in Servers /\ pass[w] \in Pass /\ clock \in Nat /\ pass = [x \in {w} |-> pass[w]]
      /\ \A m \in mails : m \in Subs \X Nat
      /\ OncePerMoment /\ MailedBehindNext
      /\ MailedBehindPass(w) /\ InHandOnce(w) /\ ClaimedAhead(w)
  BY DEF ReportsTypeOK, ClaimInv
<1>Q. ASSUME OncePerMoment', MailedBehindNext', MailedBehindPass(w)', InHandOnce(w)',
             ClaimedAhead(w)'
      PROVE  ClaimInv'
  BY <1>Q DEF ClaimInv
<1>1. CASE ListDue(w)
  <2> DEFINE D == {<<s, sub[s].next>> : s \in {x \in live : IsSendDue(sub[x], clock)}}
  <2>1. pass'[w] = Looping(clock, D) /\ mails' = mails /\ sub' = sub /\ live' = live
        /\ clock' = clock /\ twice' = twice
    BY <1>0, <1>1 DEF ListDue, ReportsTypeOK
  <2>2. pass'[w].pc = "loop" /\ pass'[w].now = clock /\ pass'[w].todo = D
    BY <2>1 DEF Looping
  <2>3. \A e \in D : /\ e[2] \in Nat /\ e[2] <= clock
                      /\ e[1] \in live /\ sub[e[1]].next = e[2] /\ sub[e[1]].next # Null
    BY <1>0 DEF IsSendDue, ReportsTypeOK, SubRow, Times
  <2>4. MailedBehindPass(w)'
    <3>1. PassInHand(w)' = D
      BY <2>2 DEF PassInHand
    <3>2. \A e \in D : \A m \in mails : m[1] = e[1] => m[2] < e[2]
      BY <1>0, <2>3 DEF MailedBehindNext
    <3>3. \A m \in mails : m[2] <= clock
      BY <1>0 DEF MailedBehindNext
    <3> HIDE DEF D
    <3> QED
      BY <1>0, <2>1, <2>2, <2>3, <3>1, <3>2, <3>3 DEF MailedBehindPass
  <2>5. InHandOnce(w)'
    BY <2>2 DEF InHandOnce
  <2>6. ClaimedAhead(w)'
    BY <2>2 DEF ClaimedAhead
  <2> QED
    BY <1>0, <1>Q, <2>1, <2>4, <2>5, <2>6 DEF OncePerMoment, MailedBehindNext
<1>2. CASE Load(w)
  <2>1. PICK e \in pass[w].todo :
           /\ pass[w].pc = "loop"
           /\ pass'[w].now = pass[w].now /\ pass'[w].todo = pass[w].todo \ {e}
           /\ \/ pass'[w].pc = "loaded" /\ pass'[w].cur = e[1] /\ pass'[w].due = e[2]
              \/ pass'[w].pc = "loop"
    <3>1. PICK e \in pass[w].todo :
             \/ pass' = [pass EXCEPT ![w].pc = "loaded", ![w].todo = @ \ {e},
                                     ![w].cur = e[1], ![w].due = e[2],
                                     ![w].seen = sub[e[1]].next, ![w].plan = sub[e[1]].sched]
             \/ pass' = [pass EXCEPT ![w].todo = @ \ {e}]
      BY <1>2 DEF Load
    <3>2. pass[w].pc = "loop"
      BY <1>2 DEF Load
    <3>3. pass \in [Servers -> Pass] /\ w \in Servers
      BY <1>0 DEF ReportsTypeOK
    <3> WITNESS e \in pass[w].todo
    <3>4. CASE pass' = [pass EXCEPT ![w].todo = @ \ {e}]
      BY <3>2, <3>3, <3>4 DEF Pass
    <3>5. CASE pass' = [pass EXCEPT ![w].pc = "loaded", ![w].todo = @ \ {e},
                                    ![w].cur = e[1], ![w].due = e[2],
                                    ![w].seen = sub[e[1]].next, ![w].plan = sub[e[1]].sched]
      BY <3>2, <3>3, <3>5 DEF Pass
    <3> QED
      BY <3>1, <3>4, <3>5
  <2>2. mails' = mails /\ sub' = sub /\ live' = live /\ clock' = clock /\ twice' = twice
    BY <1>2 DEF Load
  <2>3. e = <<e[1], e[2]>> /\ e[1] \in Subs /\ e[1] # Null
    BY <1>0, NullAssumption DEF Pass
  <2>4. PassInHand(w)' \subseteq PassInHand(w)
    BY <2>1, <2>3 DEF PassInHand
  <2>5. MailedBehindPass(w)'
    BY <1>0, <2>1, <2>2, <2>4 DEF MailedBehindPass
  <2>6. InHandOnce(w)'
    BY <1>0, <2>1, <2>3 DEF InHandOnce
  <2>7. ClaimedAhead(w)'
    BY <2>1 DEF ClaimedAhead
  <2> QED
    BY <1>0, <1>Q, <2>2, <2>5, <2>6, <2>7 DEF OncePerMoment, MailedBehindNext
<1>3. CASE ClaimWon(w)
  <2> DEFINE c == pass[w].cur
  <2>1. /\ pass[w].pc = "loaded" /\ pass'[w].pc = "claimed" /\ c \in live /\ c \in Subs
        /\ pass'[w].now = pass[w].now /\ pass'[w].todo = pass[w].todo
        /\ pass'[w].cur = c /\ pass'[w].due = pass[w].due
        /\ mails' = mails /\ live' = live /\ clock' = clock /\ twice' = twice
    BY <1>0, <1>3 DEF ClaimWon, ClaimMatches, ReportsTypeOK, Pass
  <2>2. sub'[c].next = ClaimedUntil(w) /\ \A s \in Subs \ {c} : sub'[s] = sub[s]
    BY <1>3, <2>1 DEF ClaimWon, ReportsTypeOK, SubRow
  <2>3. ClaimedUntil(w) # Null => ClaimedUntil(w) \in Nat /\ ClaimedUntil(w) > pass[w].now
    BY <1>0, NextRunIsLater DEF ClaimedUntil, Pass
  <2>4. pass[w].now \in Nat /\ pass[w].due \in Nat
    BY <1>0 DEF Pass
  <2>5. PassInHand(w)' = PassInHand(w) /\ <<c, pass[w].due>> \in PassInHand(w)
    BY <2>1 DEF PassInHand
  <2>6. \A m \in mails : m[2] <= pass[w].now
    BY <1>0, <2>1 DEF MailedBehindPass
  <2>7. MailedBehindNext'
    <3> SUFFICES ASSUME NEW m \in mails
                 PROVE  /\ m[2] <= clock
                        /\ m[1] \in live /\ sub'[m[1]].next # Null => m[2] < sub'[m[1]].next
      BY <2>1 DEF MailedBehindNext
    <3>1. m[2] <= clock /\ m[1] \in Subs /\ m[2] \in Nat /\ m[2] <= pass[w].now
      BY <1>0, <2>6 DEF MailedBehindNext
    <3>2. CASE m[1] = c
      BY <2>2, <2>3, <2>4, <3>1, <3>2
    <3>3. CASE m[1] # c
      BY <1>0, <2>2, <3>1, <3>3 DEF MailedBehindNext
    <3> QED
      BY <3>2, <3>3
  <2>8. MailedBehindPass(w)'
    BY <1>0, <2>1, <2>5 DEF MailedBehindPass
  <2>9. InHandOnce(w)'
    BY <1>0, <2>1 DEF InHandOnce
  <2>10. ClaimedAhead(w)'
    <3>1. pass[w].due <= pass[w].now
      BY <1>0, <2>1, <2>5 DEF MailedBehindPass
    <3> QED
      BY <2>1, <2>2, <2>3, <2>4, <3>1 DEF ClaimedAhead
  <2> QED
    BY <1>0, <1>Q, <2>1, <2>7, <2>8, <2>9, <2>10 DEF OncePerMoment
<1>4. CASE Send(w)
  <2> DEFINE f == <<pass[w].cur, pass[w].due>>
  <2>1. /\ pass[w].pc = "claimed" /\ pass'[w].pc = "mailed" /\ pass[w].cur \in live
        /\ pass'[w].now = pass[w].now /\ pass'[w].todo = pass[w].todo
        /\ sub' = sub /\ live' = live /\ clock' = clock
    <3>1. pass[w].pc = "claimed" /\ pass[w].cur \in live
          /\ sub' = sub /\ live' = live /\ clock' = clock
      BY <1>4 DEF Send
    <3>2. \E o \in Outcomes : pass' = [pass EXCEPT ![w].pc = "mailed", ![w].outcome = o]
      BY <1>4 DEF Send, Outcomes
    <3>3. pass'[w].pc = "mailed" /\ pass'[w].now = pass[w].now
          /\ pass'[w].todo = pass[w].todo
      BY <1>0, <3>2 DEF ReportsTypeOK, Pass
    <3> QED
      BY <3>1, <3>3
  <2>2. \/ /\ mails' = mails \cup {f}
           /\ twice' = (IF f \in mails THEN twice \cup {f} ELSE twice)
        \/ mails' = mails /\ twice' = twice
    BY <1>4 DEF Send, MailLeaves
  <2>3. f \in PassInHand(w) /\ PassInHand(w)' \subseteq PassInHand(w)
    BY <2>1 DEF PassInHand
  <2>4. f \notin mails
    <3>1. f \in mails => f[2] < f[2]
      BY <1>0, <2>1, <2>3 DEF MailedBehindPass
    <3>2. pass[w].due \in Nat
      BY <1>0 DEF Pass
    <3> QED
      BY <3>1, <3>2
  <2>5. OncePerMoment'
    BY <1>0, <2>2, <2>4 DEF OncePerMoment
  <2>6. pass[w].now <= clock /\ pass[w].due <= pass[w].now /\ pass[w].now \in Nat
        /\ pass[w].due \in Nat
    BY <1>0, <2>1, <2>3 DEF MailedBehindPass, Pass
  <2>7. MailedBehindNext'
    <3>1. /\ pass[w].due <= clock
          /\ sub[pass[w].cur].next # Null => pass[w].due < sub[pass[w].cur].next
      BY <1>0, <2>1, <2>6 DEF ClaimedAhead
    <3> QED
      BY <1>0, <2>1, <2>2, <3>1 DEF MailedBehindNext
  <2>8. MailedBehindPass(w)'
    <3>1. PassInHand(w)' = pass[w].todo
      BY <2>1 DEF PassInHand
    <3>2. \A e \in pass[w].todo : e[1] # pass[w].cur
      BY <1>0, <2>1 DEF InHandOnce
    <3>3. \A e \in pass[w].todo : \A m \in mails' : m[1] = e[1] => m \in mails
      BY <2>2, <3>2
    <3>4. \A m \in mails' : m[2] <= pass[w].now
      BY <1>0, <2>1, <2>2, <2>6 DEF MailedBehindPass
    <3>5. pass[w].todo \subseteq PassInHand(w)
      BY DEF PassInHand
    <3> QED
      BY <1>0, <2>1, <2>6, <3>1, <3>3, <3>4, <3>5 DEF MailedBehindPass
  <2>9. InHandOnce(w)'
    BY <1>0, <2>1 DEF InHandOnce
  <2>10. ClaimedAhead(w)'
    BY <2>1 DEF ClaimedAhead
  <2> QED
    BY <1>Q, <2>5, <2>7, <2>8, <2>9, <2>10
<1>5. CASE ClaimLost(w) \/ Record(w)
  <2>1. /\ pass[w].pc # "idle" /\ pass'[w].pc = "loop"
        /\ pass'[w].now = pass[w].now /\ pass'[w].todo = pass[w].todo
        /\ mails' = mails /\ sub' = sub /\ live' = live /\ clock' = clock /\ twice' = twice
    BY <1>0, <1>5 DEF ClaimLost, Record, Looping, ReportsTypeOK
  <2>2. PassInHand(w)' \subseteq PassInHand(w)
    BY <2>1 DEF PassInHand
  <2>3. MailedBehindPass(w)'
    BY <1>0, <2>1, <2>2 DEF MailedBehindPass
  <2>4. InHandOnce(w)' /\ ClaimedAhead(w)'
    BY <1>0, <2>1 DEF InHandOnce, ClaimedAhead
  <2> QED
    BY <1>0, <1>Q, <2>1, <2>3, <2>4 DEF OncePerMoment, MailedBehindNext
<1>6. CASE SendRaises(w) \/ RecordRaises(w) \/ Sleep(w) \/ ServerDies(w)
  <2>1. /\ pass'[w].pc = "idle" /\ pass'[w].todo = {}
        /\ mails' = mails /\ sub' = sub /\ live' = live /\ clock' = clock /\ twice' = twice
    BY <1>0, <1>6 DEF SendRaises, RecordRaises, Sleep, ServerDies, IdlePass, Looping, ReportsTypeOK
  <2>2. MailedBehindPass(w)' /\ InHandOnce(w)' /\ ClaimedAhead(w)'
    BY <2>1 DEF MailedBehindPass, InHandOnce, ClaimedAhead
  <2> QED
    BY <1>0, <1>Q, <2>1, <2>2 DEF OncePerMoment, MailedBehindNext
<1>7. ASSUME NEW s \in Subs, CreateSubscription(s) \/ UpdateSubscription(s) PROVE ClaimInv'
  <2>1. PICK S \in Schedules, on \in BOOLEAN : sub' = [sub EXCEPT ![s] = Applied(S, on)]
    BY <1>7 DEF CreateSubscription, UpdateSubscription
  <2>2. /\ live' \subseteq live \cup {s}
        /\ mails' = mails /\ pass' = pass /\ clock' = clock /\ twice' = twice
        /\ \A x \in Subs \ {s} : sub'[x] = sub[x] /\ (x \in live' => x \in live)
    BY <1>7, <2>1 DEF CreateSubscription, UpdateSubscription, ReportsTypeOK
  <2>3. sub'[s].next # Null => sub'[s].next \in Nat /\ sub'[s].next > clock
    BY <2>1, AppliedIsRow DEF ReportsTypeOK, SubRow, Times
  <2>4. MailedBehindNext'
    BY <1>0, <2>2, <2>3 DEF MailedBehindNext
  <2>5. ClaimedAhead(w)'
    <3> SUFFICES ASSUME pass[w].pc = "claimed", pass[w].cur \in live',
                        sub'[pass[w].cur].next # Null
                 PROVE  pass[w].due < sub'[pass[w].cur].next
      BY <2>2 DEF ClaimedAhead
    <3>1. <<pass[w].cur, pass[w].due>> \in PassInHand(w)
      BY DEF PassInHand
    <3>2. pass[w].due <= pass[w].now /\ pass[w].now <= clock
          /\ pass[w].due \in Nat /\ pass[w].now \in Nat
      BY <1>0, <3>1 DEF MailedBehindPass, Pass
    <3>3. pass[w].cur \in Subs
      BY <1>0 DEF InHandOnce, Pass
    <3>4. CASE pass[w].cur = s
      BY <1>0, <2>3, <3>2, <3>4
    <3>5. CASE pass[w].cur # s
      BY <1>0, <2>2, <3>3, <3>5 DEF ClaimedAhead
    <3> QED
      BY <3>4, <3>5
  <2>6. MailedBehindPass(w)' /\ InHandOnce(w)'
    BY <1>0, <2>2 DEF MailedBehindPass, InHandOnce, PassInHand
  <2> QED
    BY <1>0, <1>Q, <2>2, <2>4, <2>5, <2>6 DEF OncePerMoment
<1>8. ASSUME NEW s \in Subs, DeleteSubscription(s) \/ SendNow(s) PROVE ClaimInv'
  <2>1. live' \subseteq live /\ sub' = sub /\ pass' = pass
        /\ mails' = mails /\ clock' = clock /\ twice' = twice
    BY <1>8 DEF DeleteSubscription, SendNow
  <2>2. MailedBehindPass(w)' /\ InHandOnce(w)' /\ ClaimedAhead(w)'
    BY <1>0, <2>1 DEF MailedBehindPass, InHandOnce, ClaimedAhead, PassInHand
  <2> QED
    BY <1>0, <1>Q, <2>1, <2>2 DEF OncePerMoment, MailedBehindNext
<1>9. CASE Tick
  <2>1. clock' = clock + 1 /\ sub' = sub /\ live' = live /\ pass' = pass
        /\ mails' = mails /\ twice' = twice
    BY <1>9 DEF Tick
  <2>2. MailedBehindNext'
    BY <1>0, <2>1 DEF MailedBehindNext
  <2>3. MailedBehindPass(w)'
    <3>1. PassInHand(w)' = PassInHand(w) /\ pass[w].now \in Nat
      BY <1>0, <2>1 DEF PassInHand, Pass
    <3> QED
      BY <1>0, <2>1, <3>1 DEF MailedBehindPass
  <2>4. InHandOnce(w)' /\ ClaimedAhead(w)'
    BY <1>0, <2>1 DEF InHandOnce, ClaimedAhead
  <2> QED
    BY <1>0, <1>Q, <2>1, <2>2, <2>3, <2>4 DEF OncePerMoment
<1>10. CASE UNCHANGED reportVars
  BY <1>10 DEF reportVars, ClaimInv, OncePerMoment, MailedBehindNext, MailedBehindPass,
               InHandOnce, ClaimedAhead, PassInHand
<1> QED
  BY <1>0, <1>1, <1>2, <1>3, <1>4, <1>5, <1>6, <1>7, <1>8, <1>9, <1>10
     DEF ReportsNext, ServerStep, UserStep

(* With one server, no send moment goes out twice, whatever crashes, edits *)
(* and mail errors happen: "committed before sending, so a crash can't     *)
(* make it go out twice" (scheduled.py:104).                               *)
THEOREM OneServerOncePerMoment ==
    ASSUME NEW w, Servers = {w}
    PROVE  ReportsSpec => []OncePerMoment
<1>1. ReportsInit => ClaimInv
  BY DEF ReportsInit, ClaimInv, OncePerMoment, MailedBehindNext, MailedBehindPass, InHandOnce,
         ClaimedAhead, IdlePass, Looping
<1>2. ReportsTypeOK /\ ReportsTypeOK' /\ ClaimInv /\ [ReportsNext]_reportVars => ClaimInv'
  BY ClaimInvPreserved
<1>3. ClaimInv => OncePerMoment
  BY DEF ClaimInv
<1> QED
  BY <1>1, <1>2, <1>3, ReportsTypeCorrect, PTL DEF ReportsSpec

-----------------------------------------------------------------------------
(* Outbox: rows *)

(* deliver makes a row of a row.                                           *)
LEMMA OutcomeType ==
    ASSUME NEW was \in Row, NEW ok \in BOOLEAN
    PROVE  Outcome(was, ok) \in Row
<1>1. was.attempts + 1 \in Nat /\ was.due \in BOOLEAN
  BY DEF Row
<1> DEFINE full == was.attempts + 1 >= MaxAttempts
           s == IF ok THEN "delivered" ELSE IF full THEN "failed" ELSE "retrying"
           d == IF ok \/ full THEN was.due ELSE FALSE
<1>2. s \in Statuses
  BY DEF Statuses
<1>3. d \in BOOLEAN
  BY <1>1
<1>4. Outcome(was, ok) = [attempts |-> was.attempts + 1, status |-> s, due |-> d]
  BY DEF Outcome
<1> HIDE DEF s, d
<1> QED BY <1>1, <1>2, <1>3, <1>4 DEF Row

(* So does the UPDATE of what was flushed.                                 *)
LEMMA MergedType ==
    ASSUME NEW now \in Row, NEW was \in Row, NEW new \in Row
    PROVE  Merged(now, was, new) \in Row
BY DEF Merged, Row, Statuses

(* What was read while attempts were left has one more attempt on record   *)
(* afterwards, and may be due again only while attempts are left.          *)
LEMMA OutcomeCounts ==
    ASSUME NEW was \in Row, NEW ok \in BOOLEAN, was.attempts < MaxAttempts
    PROVE  /\ Outcome(was, ok).attempts = was.attempts + 1
           /\ AttemptsLeft(Outcome(was, ok))
BY NumbersAssumption DEF Outcome, Row, Statuses, AttemptsLeft

(* A row nobody has changed since it was read takes the outcome as it is.  *)
LEMMA MergedUnchanged ==
    ASSUME NEW was \in Row, NEW new \in Row, new.status # "pending"
    PROVE  /\ Merged(was, was, new).attempts = new.attempts
           /\ AttemptsLeft(new) => AttemptsLeft(Merged(was, was, new))
BY NumbersAssumption DEF Merged, Row, Statuses, AttemptsLeft

LEMMA OutcomeStatus ==
    ASSUME NEW was \in Row, NEW ok \in BOOLEAN
    PROVE  Outcome(was, ok).status # "pending"
BY DEF Outcome

LEMMA NewIsRow == New \in Row /\ AttemptsLeft(New) /\ New.attempts = 0
BY NumbersAssumption DEF New, Row, Statuses, AttemptsLeft

-----------------------------------------------------------------------------
(* Types *)

(* The initial state is well typed.                                        *)
LEMMA InitType == Init => TypeOK
BY NewIsRow DEF Init, TypeOK, NoRows, Idle, NoHand, Over, Batch, Sending, Emission, Events

(* The dispatcher keeps the types.                                         *)
LEMMA DispatcherType == TypeOK /\ DispatcherStep => TypeOK'
<1> SUFFICES ASSUME TypeOK, DispatcherStep PROVE TypeOK'
  OBVIOUS
<1> USE DEF TypeOK, tables, history
<1>1. Idle \in Batch
  BY NewIsRow DEF Idle, Batch, NoRows
<1>2. CASE Select
  <2>1. PICK B \in SUBSET Due :
          work' = [Idle EXCEPT !.pc = "loop", !.got = B, !.todo = B,
                               !.on = {d[2] : d \in B} \cap active,
                               !.read = [d \in Deliveries |-> IF d \in B THEN row[d] ELSE New]]
    BY <1>2 DEF Select
  <2>2. B \subseteq Deliveries /\ ({d[2] : d \in B} \cap active) \subseteq Webhooks
    BY DEF Due
  <2>3. [d \in Deliveries |-> IF d \in B THEN row[d] ELSE New] \in [Deliveries -> Row]
    BY NewIsRow, SMTT(20)
  <2>4. work' \in Batch
    BY <1>1, <2>1, <2>2, <2>3 DEF Batch
  <2> QED BY <1>2, <2>4, SMTT(20) DEF Select
<1>3. CASE Flush
  <2>1. Outcome(work.read[work.cur], work.ok) \in Row
    BY <1>3, OutcomeType DEF Flush, Batch
  <2>2. work' \in Batch
    BY <1>3, <2>1, ZenonT(40) DEF Flush, Batch
  <2> QED BY <1>3, <2>2 DEF Flush
<1>4. CASE FlushRaises
  BY <1>1, <1>4 DEF FlushRaises
<1>5. CASE CommitBatch
  <2>1. Recorded \in [Deliveries -> Row]
    BY MergedType DEF Recorded, Batch
  <2> QED BY <1>1, <1>5, <2>1 DEF CommitBatch
<1>6. ASSUME NEW d \in work.todo, Skip(d) PROVE TypeOK'
  <2>1. work' \in Batch
    BY <1>6 DEF Skip, Batch
  <2> QED BY <1>6, <2>1 DEF Skip
<1>7. ASSUME NEW d \in work.todo, Post(d) PROVE TypeOK'
  <2>1. d \in Deliveries
    BY DEF Batch
  <2>4. PICK ok \in BOOLEAN :
          work' = [work EXCEPT !.pc = "posted", !.todo = @ \ {d}, !.cur = d, !.ok = ok]
    BY <1>7 DEF Post
  <2>2. work' \in Batch
    BY <2>1, <2>4 DEF Batch
  <2>3. posts' \in [Deliveries -> Nat]
    BY <1>7, <2>1 DEF Post
  <2> QED BY <1>7, <2>2, <2>3 DEF Post
<1> QED BY <1>2, <1>3, <1>4, <1>5, <1>6, <1>7 DEF DispatcherStep

(* So do requests, administrators, time and crashes.                       *)
LEMMA OthersType ==
    TypeOK /\ (RequestStep \/ Crash \/ \E d \in Deliveries : BackoffEnds(d)) => TypeOK'
<1> SUFFICES ASSUME TypeOK, RequestStep \/ Crash \/ \E d \in Deliveries : BackoffEnds(d)
             PROVE  TypeOK'
  OBVIOUS
<1> USE DEF TypeOK, tables, history
<1>1. /\ \A state \in {"none", "open", "done", "undone", "ping"} : Over(state) \in Emission
      /\ Idle \in Batch
  BY NewIsRow DEF Over, Emission, Idle, Batch, NoRows
<1>2. CASE Emit
  <2>1. PICK to \in (SUBSET active) \ {{}} :
          event' = [event EXCEPT ![stamp + 1] = [state |-> "open", to |-> to]]
    BY <1>2 DEF Emit
  <2>2. [state |-> "open", to |-> to] \in Emission
    BY DEF Emission
  <2>4. event' \in [Events -> Emission]
    BY <2>1, <2>2
  <2>3. event' \in [Events -> Emission] /\ stamp' \in Nat
    BY <1>2, <2>4 DEF Emit
  <2> QED BY <1>2, <2>3 DEF Emit
<1>3. ASSUME NEW n \in Events, Commit(n) PROVE TypeOK'
  <2>1. ({n} \X event[n].to) \subseteq Deliveries
    BY DEF Deliveries, Emission
  <2>2. Over("done") \in Emission
    BY <1>1
  <2>3. event' \in [Events -> Emission] /\ stored' \subseteq Deliveries
    BY <1>3, <2>1, <2>2 DEF Commit
  <2> QED BY <1>3, <2>3 DEF Commit
<1>4. ASSUME NEW n \in Events, RollBack(n) PROVE TypeOK'
  BY <1>1, <1>4 DEF RollBack
<1>5. ASSUME NEW s \in Webhooks, CreateWebhook(s) PROVE TypeOK'
  BY <1>5 DEF CreateWebhook
<1>6. ASSUME NEW s \in Webhooks, UpdateWebhook(s) PROVE TypeOK'
  BY <1>6 DEF UpdateWebhook, Acts
<1>7. ASSUME NEW s \in Webhooks, DeleteWebhook(s) PROVE TypeOK'
  <2>1. row' \in [Deliveries -> Row]
    BY <1>7, NewIsRow DEF DeleteWebhook
  <2> QED BY <1>7, <2>1 DEF DeleteWebhook, Acts
<1>8. ASSUME NEW h \in Hands, NEW d \in stored, Redeliver(h, d) PROVE TypeOK'
  <2>1. PICK ok \in BOOLEAN : hand' = [hand EXCEPT ![h] =
          [pc |-> "redeliver", cur |-> d, read |-> row[d], ok |-> ok]]
    BY <1>8 DEF Redeliver
  <2>2. [pc |-> "redeliver", cur |-> d, read |-> row[d], ok |-> ok] \in Sending
    BY DEF Sending
  <2> QED BY <1>8, <2>1, <2>2 DEF Redeliver, Acts
<1>9. ASSUME NEW h \in Hands, NEW s \in Webhooks, SendTest(h, s) PROVE TypeOK'
  <2>1. <<stamp + 1, s>> \in Deliveries
    BY <1>9, NumbersAssumption DEF SendTest, Deliveries, Events
  <2>2. PICK ok \in BOOLEAN : hand' = [hand EXCEPT ![h] =
          [pc |-> "test", cur |-> <<stamp + 1, s>>, read |-> New, ok |-> ok]]
    BY <1>9 DEF SendTest
  <2>3. [pc |-> "test", cur |-> <<stamp + 1, s>>, read |-> New, ok |-> ok] \in Sending
    BY <2>1, NewIsRow DEF Sending
  <2>5. Over("ping") \in Emission
    BY <1>1
  <2>6. event' = [event EXCEPT ![stamp + 1] = Over("ping")]
    BY <1>9 DEF SendTest
  <2>7. event' \in [Events -> Emission]
    BY <2>5, <2>6
  <2>4. event' \in [Events -> Emission] /\ posts' \in [Deliveries -> Nat]
    BY <1>9, <2>1, <2>7 DEF SendTest
  <2> QED BY <1>9, <2>2, <2>3, <2>4 DEF SendTest, Acts
<1>10. ASSUME NEW h \in Hands, RecordByHand(h) PROVE TypeOK'
  <2> DEFINE d == hand[h].cur
             new == Outcome(hand[h].read, hand[h].ok)
  <2>0. hand[h] \in Sending
    BY <1>10 DEF RecordByHand, NoHand
  <2>1. new \in Row /\ d \in Deliveries /\ Merged(row[d], hand[h].read, new) \in Row
    BY <2>0, OutcomeType, MergedType DEF Sending
  <2> HIDE DEF new
  <2>2. row' \in [Deliveries -> Row]
    BY <1>10, <2>1 DEF RecordByHand, new
  <2>3. stored' \subseteq Deliveries /\ hand' \in [Hands -> Sending \cup {NoHand}]
    BY <1>10, <2>1 DEF RecordByHand
  <2> QED BY <1>10, <2>2, <2>3 DEF RecordByHand
<1>11. ASSUME Crash PROVE TypeOK'
  BY <1>1, <1>11 DEF Crash, Acts
<1>12. ASSUME NEW d \in Deliveries, BackoffEnds(d) PROVE TypeOK'
  <2>1. row' \in [Deliveries -> Row]
    <3>1. [row[d] EXCEPT !.due = TRUE] \in Row
      BY DEF Row
    <3>2. row' = [row EXCEPT ![d] = [row[d] EXCEPT !.due = TRUE]]
      BY <1>12 DEF BackoffEnds
    <3> QED BY <3>1, <3>2
  <2> QED BY <1>12, <2>1 DEF BackoffEnds
<1> QED BY <1>2, <1>3, <1>4, <1>5, <1>6, <1>7, <1>8, <1>9, <1>10, <1>11, <1>12 DEF RequestStep

LEMMA StutterType == TypeOK /\ UNCHANGED vars => TypeOK'
BY DEF TypeOK, vars, tables, history

(* Every variable keeps its type.                                          *)
THEOREM TypeCorrect == Spec => []TypeOK
<1>1. TypeOK /\ [Next]_vars => TypeOK'
  BY DispatcherType, OthersType, StutterType DEF Next
<1> QED BY <1>1, InitType, PTL DEF Spec

-----------------------------------------------------------------------------
(* The invariant *)

IInv == TypeOK /\ OutboxInv

(* It holds while nothing has happened.                                    *)
LEMMA InitInv == Init => OutboxInv
<1> SUFFICES ASSUME Init PROVE OutboxInv
  OBVIOUS
<1> USE DEF Init, Idle, NoRows, NoHand, Over
<1>1. EventsBegun
  BY NumbersAssumption DEF EventsBegun, Begun, Events, Deliveries
<1>2. SessionInv /\ HandsInv
  BY DEF SessionInv, HandsInv
<1>3. RowsInv
  BY NewIsRow DEF RowsInv
<1>4. PostsInv
  BY NumbersAssumption DEF PostsInv
<1> QED BY <1>1, <1>2, <1>3, <1>4 DEF OutboxInv

(* Nothing but the list of webhooks: the invariant does not mention it.    *)
LEMMA HooksInv ==
    ASSUME IInv, UNCHANGED <<stamp, event, stored, row, work, hand, history>>
    PROVE  OutboxInv'
BY DEF IInv, OutboxInv, EventsBegun, SessionInv, HandsInv, RowsInv, PostsInv, Begun, InHand, history

(* A transaction begins to emit: the number is new.                        *)
LEMMA EmitInv == ASSUME IInv, Emit PROVE OutboxInv'
<1> USE DEF IInv, OutboxInv, history
<1>1. PICK to \in (SUBSET active) \ {{}} :
        event' = [event EXCEPT ![stamp + 1] = [state |-> "open", to |-> to]]
  BY DEF Emit
<1>2. stamp \in Nat /\ stamp + 1 \in Events /\ event[stamp + 1].state = "none"
  BY NumbersAssumption DEF Emit, TypeOK, Events, EventsBegun
<1>3. \A d \in Deliveries : Begun(d)' <=> Begun(d)
  BY <1>1, <1>2 DEF Begun, Deliveries, TypeOK
<1>4. \A n \in Events : event'[n].state = "none" <=> n > stamp'
  <2>1. stamp' = stamp + 1
    BY DEF Emit
  <2>2. ASSUME NEW n \in Events, n # stamp + 1 PROVE event'[n].state = "none" <=> n > stamp'
    BY <1>1, <1>2, <2>1, <2>2 DEF EventsBegun, Events, TypeOK
  <2>3. event'[stamp + 1].state # "none"
    BY <1>1, <1>2 DEF TypeOK
  <2> QED BY <1>2, <2>1, <2>2, <2>3
<1>5. EventsBegun'
  BY <1>3, <1>4 DEF Emit, EventsBegun, TypeOK, Batch
<1>6. SessionInv' /\ RowsInv' /\ PostsInv'
  BY DEF Emit, SessionInv, RowsInv, PostsInv, InHand
<1>7. HandsInv'
  BY <1>3 DEF Emit, HandsInv
<1> QED BY <1>5, <1>6, <1>7

(* A transaction commits or is rolled back.                                *)
LEMMA CommitInv == ASSUME IInv, NEW n \in Events, Commit(n) PROVE OutboxInv'
<1> USE DEF IInv, OutboxInv, history
<1>1. event'[n].state = "done" /\ \A m \in Events \ {n} : event'[m] = event[m]
  BY DEF Commit, TypeOK, Over
<1>2. \A d \in Deliveries : Begun(d)' <=> Begun(d) \/ d[1] = n
  BY <1>1 DEF Begun, Deliveries
<1>3. \A d \in Deliveries : d[1] = n => ~Begun(d)
  BY DEF Commit, Begun
<1>4. \A d \in Deliveries : d \in stored' <=> d \in stored \/ (d[1] = n /\ d \in stored')
  BY DEF Commit, Deliveries
<1>5. EventsBegun'
  <2>1. \A m \in Events : event'[m].state = "none" <=> m > stamp'
    BY <1>1 DEF Commit, EventsBegun
  <2>2. \A d \in Deliveries : ~Begun(d)' => d \notin stored' /\ posts'[d] = 0
    BY <1>2, <1>4 DEF Commit, EventsBegun
  <2>3. \A d \in work'.got : Begun(d)'
    BY <1>2 DEF Commit, EventsBegun, TypeOK, Batch
  <2> QED BY <2>1, <2>2, <2>3 DEF EventsBegun
<1>6. SessionInv'
  BY DEF Commit, SessionInv
<1>7. HandsInv'
  BY <1>2, <1>3, <1>4 DEF Commit, HandsInv
<1>8. RowsInv'
  <2>1. ASSUME NEW d \in Deliveries \ byHand, d \in work.got, d \in stored' PROVE d \in stored
    BY <1>3, <1>4, <2>1 DEF EventsBegun
  <2> QED BY <2>1 DEF Commit, RowsInv
<1>9. PostsInv'
  <2>1. \A d \in Deliveries : d \in stored' => d \in stored \/ posts[d] = 0
    BY <1>3, <1>4 DEF EventsBegun
  <2>2. row' = row /\ work' = work /\ posts' = posts /\ byHand' = byHand /\ lost' = lost
    BY DEF Commit
  <2>3. ASSUME NEW d \in Deliveries, posts[d] = 0
        PROVE  posts[d] <= row[d].attempts + lost + (IF InHand(d) THEN 1 ELSE 0)
    <3>1. row[d].attempts \in Nat /\ lost \in Nat
      BY DEF TypeOK, Row
    <3> QED BY <2>3, <3>1
  <2> QED BY <2>1, <2>2, <2>3 DEF PostsInv, InHand
<1> QED BY <1>5, <1>6, <1>7, <1>8, <1>9

LEMMA RollBackInv == ASSUME IInv, NEW n \in Events, RollBack(n) PROVE OutboxInv'
<1> USE DEF IInv, OutboxInv, history
<1>1. event'[n].state = "undone" /\ \A m \in Events \ {n} : event'[m] = event[m]
  BY DEF RollBack, TypeOK, Over
<1>2. \A d \in Deliveries : Begun(d)' <=> Begun(d)
  BY <1>1 DEF RollBack, Begun, Deliveries
<1>3. EventsBegun'
  BY <1>1, <1>2 DEF RollBack, EventsBegun, TypeOK, Batch
<1>4. SessionInv' /\ RowsInv' /\ PostsInv'
  BY DEF RollBack, SessionInv, RowsInv, PostsInv, InHand
<1>5. HandsInv'
  BY <1>2 DEF RollBack, HandsInv
<1> QED BY <1>3, <1>4, <1>5

(* The rows of a webhook go.                                               *)
LEMMA DeleteInv == ASSUME IInv, NEW s \in Webhooks, DeleteWebhook(s) PROVE OutboxInv'
<1> USE DEF IInv, OutboxInv, history
<1>1. stored' \subseteq stored /\ \A d \in stored' : row'[d] = row[d]
  BY DEF DeleteWebhook, TypeOK
<1>2. \A d \in Deliveries : row'[d] \in {row[d], New}
  BY DEF DeleteWebhook
<1>3. EventsBegun'
  BY <1>1 DEF DeleteWebhook, EventsBegun, Begun
<1>4. SessionInv'
  BY DEF DeleteWebhook, SessionInv, Locked
<1>5. HandsInv'
  BY <1>1 DEF DeleteWebhook, HandsInv, Begun
<1>6. RowsInv'
  BY <1>1, <1>2, NewIsRow DEF DeleteWebhook, RowsInv
<1>7. PostsInv'
  BY <1>1 DEF DeleteWebhook, PostsInv, InHand
<1> QED BY <1>3, <1>4, <1>5, <1>6, <1>7

(* A retry becomes due; what the dispatcher has got is due already.        *)
LEMMA BackoffInv == ASSUME IInv, NEW d \in Deliveries, BackoffEnds(d) PROVE OutboxInv'
<1> USE DEF IInv, OutboxInv, history
<1>1. /\ row'[d].attempts = row[d].attempts /\ row'[d].status = row[d].status
      /\ \A e \in Deliveries \ {d} : row'[e] = row[e]
  BY DEF BackoffEnds, TypeOK, Row
<1>2. EventsBegun' /\ SessionInv' /\ HandsInv'
  BY DEF BackoffEnds, EventsBegun, SessionInv, HandsInv, Begun
<1>3. d \notin byHand => d \notin work.got
  BY DEF BackoffEnds, RowsInv, IsDue
<1>4. RowsInv'
  BY <1>1, <1>3 DEF BackoffEnds, RowsInv, AttemptsLeft
<1>5. PostsInv'
  BY <1>1 DEF BackoffEnds, PostsInv, InHand
<1> QED BY <1>2, <1>4, <1>5

(* Somebody sends a row by hand: from now on it is known as such.          *)
LEMMA RedeliverInv == ASSUME IInv, NEW h \in Hands, NEW d \in stored, Redeliver(h, d)
                      PROVE  OutboxInv'
<1> USE DEF IInv, OutboxInv, history
<1>1. d \in Deliveries /\ byHand' = byHand \cup {d}
  BY DEF Redeliver, TypeOK
<1>2. \A e \in Deliveries \ {d} : posts'[e] = posts[e]
  BY DEF Redeliver, TypeOK
<1>3. /\ hand'[h].pc = "redeliver" /\ hand'[h].cur = d
      /\ \A g \in Hands \ {h} : hand'[g] = hand[g]
  BY DEF Redeliver, TypeOK
<1>10. Begun(d)
  <2>1. \A e \in Deliveries : ~Begun(e) => e \notin stored
    BY DEF EventsBegun
  <2> QED BY <1>1, <2>1
<1>8. Begun(d) /\ UNCHANGED <<stamp, event, stored, row, work, lost>>
  BY <1>10 DEF Redeliver, tables
<1>9. \A e \in Deliveries : Begun(e)' <=> Begun(e)
  BY <1>8 DEF Begun
<1>4. EventsBegun'
  BY <1>1, <1>2, <1>8, <1>9 DEF EventsBegun, TypeOK, Batch
<1>5. SessionInv' /\ RowsInv'
  <2>1. SessionInv'
    BY <1>8 DEF SessionInv
  <2>2. RowsInv'
    BY <1>1, <1>8 DEF RowsInv
  <2> QED BY <2>1, <2>2
<1>6. HandsInv'
  <2>1. ASSUME NEW g \in Hands, hand'[g].pc = "test"
        PROVE  g # h /\ hand'[g] = hand[g] /\ hand[g].cur # d
    BY <1>3, <2>1 DEF HandsInv
  <2>2. ASSUME NEW g \in Hands, hand'[g].pc = "test"
        PROVE  /\ hand'[g].cur \notin stored' \cup work'.got
               /\ posts'[hand'[g].cur] = 1 /\ hand'[g].read = New
               /\ \A f \in Hands \ {g} : hand'[f].pc # "idle" => hand'[f].cur # hand'[g].cur
    <3>1. g # h /\ hand'[g] = hand[g] /\ hand[g].cur # d
      BY <2>1, <2>2
    <3>2. hand[g].cur \in Deliveries /\ posts'[hand[g].cur] = posts[hand[g].cur]
      BY <1>2, <2>2, <3>1 DEF HandsInv
    <3>3. /\ hand[g].cur \notin stored \cup work.got
          /\ posts[hand[g].cur] = 1 /\ hand[g].read = New
          /\ \A f \in Hands \ {g} : hand[f].pc # "idle" => hand[f].cur # hand[g].cur
      BY <2>2, <3>1 DEF HandsInv
    <3> QED BY <1>3, <1>8, <3>1, <3>2, <3>3
  <2>3. ASSUME NEW g \in Hands, hand'[g].pc = "redeliver" PROVE hand'[g].cur \in byHand'
    BY <1>1, <1>3, <2>3 DEF HandsInv
  <2>4. ASSUME NEW g \in Hands, hand'[g].pc # "idle"
        PROVE  (hand[g].cur \in Deliveries /\ Begun(hand[g].cur))'
    BY <1>1, <1>3, <1>8, <1>9, <2>4 DEF HandsInv
  <2> QED BY <2>2, <2>3, <2>4 DEF HandsInv
<1>7. PostsInv'
  BY <1>1, <1>2, <1>8 DEF PostsInv, InHand
<1> QED BY <1>4, <1>5, <1>6, <1>7

(* A ping has a number of its own and no row yet.                          *)
LEMMA SendTestInv == ASSUME IInv, NEW h \in Hands, NEW s \in Webhooks, SendTest(h, s)
                     PROVE  OutboxInv'
<1> USE DEF IInv, OutboxInv, history
<1>0. PICK n : n = stamp + 1
  OBVIOUS
<1> DEFINE d == <<n, s>>
<1>1. n \in Events /\ d \in Deliveries /\ event[n].state = "none" /\ stamp \in Nat
  BY <1>0, NumbersAssumption DEF SendTest, TypeOK, Events, EventsBegun, Deliveries
<1>2. event'[n].state = "ping" /\ \A m \in Events \ {n} : event'[m] = event[m]
  BY <1>0, <1>1 DEF SendTest, TypeOK, Over
<1>3. \A e \in Deliveries : Begun(e)' <=> Begun(e) \/ e[1] = n
  BY <1>2 DEF Begun, Deliveries
<1>4. d \notin stored /\ posts[d] = 0 /\ d \notin work.got
  BY <1>1 DEF EventsBegun, Begun
<1>5. posts'[d] = 1 /\ \A e \in Deliveries \ {d} : posts'[e] = posts[e]
  BY <1>0, <1>1, <1>4 DEF SendTest, TypeOK
<1>6. /\ hand'[h].pc = "test" /\ hand'[h].cur = d /\ hand'[h].read = New
      /\ \A g \in Hands \ {h} : hand'[g] = hand[g]
  BY <1>0 DEF SendTest, TypeOK
<1>7. EventsBegun'
  <2>1. stamp' = stamp + 1
    BY DEF SendTest
  <2>2. \A m \in Events : event'[m].state = "none" <=> m > stamp'
    BY <1>0, <1>1, <1>2, <2>1 DEF EventsBegun, Events
  <2>3. \A e \in Deliveries : ~Begun(e)' => e \notin stored' /\ posts'[e] = 0
    BY <1>1, <1>3, <1>5 DEF SendTest, EventsBegun
  <2>4. \A e \in work'.got : Begun(e)'
    BY <1>3 DEF SendTest, EventsBegun, TypeOK, Batch
  <2> QED BY <2>2, <2>3, <2>4 DEF EventsBegun
<1>8. SessionInv' /\ RowsInv'
  BY DEF SendTest, SessionInv, RowsInv
<1>9. HandsInv'
  <2>1. ASSUME NEW g \in Hands \ {h}, hand[g].pc # "idle"
        PROVE  hand[g].cur # d /\ hand[g].cur \in Deliveries /\ Begun(hand[g].cur)
    BY <1>1, <2>1 DEF HandsInv, Begun
  <2>2. Begun(d)'
    BY <1>1, <1>3
  <2>3. ASSUME NEW g \in Hands, hand'[g].pc # "idle"
        PROVE  (hand[g].cur \in Deliveries /\ Begun(hand[g].cur))'
    <3>1. hand'[g].cur \in Deliveries
      BY <1>1, <1>6, <2>1, <2>3
    <3>2. CASE g = h
      BY <1>6, <2>2, <3>1, <3>2 DEF Begun
    <3>3. CASE g # h
      <4>1. hand'[g] = hand[g] /\ Begun(hand[g].cur)
        BY <1>6, <2>1, <2>3, <3>3
      <4> QED BY <1>3, <3>1, <4>1 DEF Begun
    <3> QED BY <3>2, <3>3
  <2>4. ASSUME NEW g \in Hands, hand'[g].pc = "redeliver" PROVE hand'[g].cur \in byHand'
    BY <1>6, <2>4 DEF SendTest, HandsInv
  <2>5. ASSUME NEW g \in Hands, hand'[g].pc = "test"
        PROVE  /\ hand'[g].cur \notin stored' \cup work'.got
               /\ posts'[hand'[g].cur] = 1 /\ hand'[g].read = New
               /\ \A f \in Hands \ {g} : hand'[f].pc # "idle" => hand'[f].cur # hand'[g].cur
    <3>1. CASE g = h
      BY <1>4, <1>5, <1>6, <2>1, <3>1 DEF SendTest
    <3>2. CASE g # h
      <4>1. hand'[g] = hand[g] /\ hand[g].cur # d /\ hand[g].cur \in Deliveries
        BY <1>6, <2>1, <2>5, <3>2
      <4>2. /\ hand[g].cur \notin stored \cup work.got
            /\ posts[hand[g].cur] = 1 /\ hand[g].read = New
            /\ \A f \in Hands \ {g} : hand[f].pc # "idle" => hand[f].cur # hand[g].cur
        BY <2>5, <4>1 DEF HandsInv
      <4>3. stored' = stored /\ work' = work
        BY DEF SendTest
      <4> QED BY <1>5, <1>6, <3>2, <4>1, <4>2, <4>3
    <3> QED BY <3>1, <3>2
  <2> QED BY <2>3, <2>4, <2>5 DEF HandsInv
<1>10. PostsInv'
  BY <1>1, <1>4, <1>5, NumbersAssumption DEF SendTest, PostsInv, InHand, TypeOK
<1> QED BY <1>7, <1>8, <1>9, <1>10

(* What was sent by hand is recorded: a row known as such, or a new one.   *)
LEMMA RecordInv == ASSUME IInv, NEW h \in Hands, RecordByHand(h) PROVE OutboxInv'
<1> USE DEF IInv, OutboxInv, history
<1> DEFINE d == hand[h].cur
           new == Outcome(hand[h].read, hand[h].ok)
<1>1. d \in Deliveries /\ Begun(d) /\ hand[h].pc \in {"redeliver", "test"} /\ hand[h].ok \in BOOLEAN
  BY DEF RecordByHand, HandsInv, TypeOK, Sending, NoHand
<1>2. stored' \subseteq stored \cup {d} /\ \A e \in Deliveries \ {d} : row'[e] = row[e]
  BY <1>1 DEF RecordByHand, TypeOK
<1>3. hand'[h].pc = "idle" /\ \A g \in Hands \ {h} : hand'[g] = hand[g]
  BY DEF RecordByHand, TypeOK, NoHand
<1>4. EventsBegun'
  BY <1>1, <1>2 DEF RecordByHand, EventsBegun, Begun
<1>5. SessionInv'
  BY DEF RecordByHand, SessionInv
<1>6. HandsInv'
  <2>1. ASSUME NEW g \in Hands, hand'[g].pc = "test" PROVE hand'[g].cur # d
    BY <1>1, <1>3, <2>1 DEF HandsInv
  <2>2. ASSUME NEW g \in Hands, hand'[g].pc # "idle" PROVE g # h /\ hand'[g] = hand[g]
    BY <1>3, <2>2
  <2> QED BY <1>2, <2>1, <2>2 DEF RecordByHand, HandsInv, Begun
<1>7. CASE hand[h].pc = "redeliver"
  <2>1. d \in byHand /\ stored' = stored
    BY <1>7 DEF RecordByHand, HandsInv
  <2>2. RowsInv' /\ PostsInv'
    BY <1>2, <2>1 DEF RecordByHand, RowsInv, PostsInv, InHand
  <2> QED BY <1>4, <1>5, <1>6, <2>2
<1>8. CASE hand[h].pc = "test"
  <2>1. d \notin work.got /\ posts[d] = 1 /\ hand[h].read = New
    BY <1>8 DEF HandsInv
  <2>2. AttemptsLeft(new) /\ new.attempts = 1
    BY <1>1, <2>1, NewIsRow, OutcomeCounts, NumbersAssumption DEF AttemptsLeft, New
  <2> HIDE DEF new
  <2>3. row'[d] = new
    BY <1>1, <1>8 DEF RecordByHand, TypeOK, new
  <2>4. RowsInv'
    BY <1>2, <2>1, <2>2, <2>3 DEF RecordByHand, RowsInv
  <2>5. PostsInv'
    <3>1. lost \in Nat /\ posts' = posts /\ lost' = lost /\ byHand' = byHand /\ work' = work
      BY DEF RecordByHand, TypeOK
    <3>2. ASSUME NEW e \in Deliveries \ byHand, e # d, e \in stored' PROVE e \in stored /\ row'[e] = row[e]
      BY <1>2, <3>2
    <3>3. 1 <= 1 + lost + (IF InHand(d) THEN 1 ELSE 0)
      BY <3>1
    <3> QED BY <2>1, <2>2, <2>3, <3>1, <3>2, <3>3 DEF PostsInv, InHand
  <2> QED BY <1>4, <1>5, <1>6, <2>4, <2>5
<1> QED BY <1>1, <1>7, <1>8

(* What a lost batch had in hand is counted as lost.                       *)
LEMMA LostCovers ==
    ASSUME IInv, work' = Idle, lost' = lost + 1, UNCHANGED <<stored, row, posts, byHand>>
    PROVE  PostsInv'
<1> USE DEF IInv, OutboxInv
<1>1. ASSUME NEW d \in Deliveries \ byHand
      PROVE  /\ d \in stored => posts[d] <= row[d].attempts + lost + 1
             /\ posts[d] <= MaxAttempts + lost + 1
  <2>1. /\ posts[d] \in Nat /\ row[d].attempts \in Nat /\ lost \in Nat /\ MaxAttempts \in Nat
    BY NumbersAssumption DEF TypeOK, Row
  <2> QED BY <2>1 DEF PostsInv
<1>2. \A d \in Deliveries : ~InHand(d)' /\ row[d].attempts \in Nat
  BY DEF InHand, Idle, TypeOK, Row
<1>3. lost \in Nat /\ MaxAttempts \in Nat /\ work'.got = {}
  BY NumbersAssumption DEF TypeOK, Idle
<1>4. ASSUME NEW d \in Deliveries \ byHand
      PROVE  /\ d \in stored => posts[d] <= row[d].attempts + lost' + 0
             /\ posts[d] <= MaxAttempts + lost'
  BY <1>1, <1>2, <1>3
<1> QED BY <1>2, <1>3, <1>4 DEF PostsInv

(* The server dies: one more batch is lost, and nothing is in hand.        *)
LEMMA CrashInv == ASSUME IInv, Crash PROVE OutboxInv'
<1> USE DEF IInv, OutboxInv, history
<1>1. work' = Idle /\ lost' = lost + 1 /\ lost \in Nat
  BY DEF Crash, TypeOK
<1>2. \A n \in Events : event'[n].state = IF event[n].state = "open" THEN "undone"
                                         ELSE event[n].state
  BY DEF Crash, Over
<1>3. \A d \in Deliveries : Begun(d)' <=> Begun(d)
  BY <1>2 DEF Begun, Deliveries
<1>4. EventsBegun'
  BY <1>1, <1>2, <1>3 DEF Crash, EventsBegun, Idle
<1>5. SessionInv' /\ HandsInv'
  BY <1>1 DEF Crash, SessionInv, HandsInv, Idle, NoHand
<1>6. RowsInv'
  BY <1>1 DEF Crash, RowsInv, Idle
<1>7. PostsInv'
  BY <1>1, LostCovers DEF Crash
<1> QED BY <1>4, <1>5, <1>6, <1>7

-----------------------------------------------------------------------------
(* The steps of the dispatcher *)

(* A batch is got: all of it is due and as it is stored.                   *)
LEMMA SelectInv == ASSUME IInv, Select PROVE OutboxInv'
<1> USE DEF IInv, OutboxInv, history, tables
<1>1. PICK B \in SUBSET Due :
        work' = [Idle EXCEPT !.pc = "loop", !.got = B, !.todo = B,
                             !.on = {d[2] : d \in B} \cap active,
                             !.read = [d \in Deliveries |-> IF d \in B THEN row[d] ELSE New]]
  BY DEF Select
<1>2. /\ work'.pc = "loop" /\ work'.got = B /\ work'.todo = B /\ work'.flushed = {}
      /\ \A d \in B : d \in Deliveries /\ d \in stored /\ IsDue(row[d])
      /\ \A d \in B : work'.read[d] = row[d]
  BY <1>1 DEF Due, Idle, TypeOK
<1>3. UNCHANGED <<stamp, event, stored, row, hand, posts, byHand, lost>>
  BY DEF Select
<1>4. work.got = {} /\ work.flushed = {} /\ work.pc = "idle"
  BY DEF Select, SessionInv
<1>5. EventsBegun'
  BY <1>2, <1>3 DEF EventsBegun, Begun
<1>6. SessionInv'
  BY <1>2 DEF SessionInv
<1>7. HandsInv'
  BY <1>2, <1>3 DEF HandsInv, Begun
<1>8. RowsInv'
  BY <1>2, <1>3 DEF RowsInv
<1>9. PostsInv'
  BY <1>2, <1>3, <1>4 DEF PostsInv, InHand
<1> QED BY <1>5, <1>6, <1>7, <1>8, <1>9, SMTT(20)

LEMMA SkipInv == ASSUME IInv, NEW d \in work.todo, Skip(d) PROVE OutboxInv'
<1> USE DEF IInv, OutboxInv, history, tables
<1>1. /\ work'.todo = work.todo \ {d} /\ work'.pc = "loop" /\ work.pc = "loop"
      /\ work'.got = work.got /\ work'.read = work.read /\ work'.new = work.new
      /\ work'.flushed = work.flushed
  BY DEF Skip, TypeOK, Batch
<1>2. UNCHANGED <<stamp, event, stored, row, hand, posts, byHand, lost>>
  BY DEF Skip
<1>3. EventsBegun' /\ SessionInv' /\ HandsInv' /\ RowsInv'
  BY <1>1, <1>2 DEF EventsBegun, Begun, SessionInv, HandsInv, RowsInv
<1>4. PostsInv'
  BY <1>1, <1>2 DEF PostsInv, InHand
<1> QED BY <1>3, <1>4

(* A delivery leaves: it had attempts left, and is now in hand.            *)
LEMMA PostInv == ASSUME IInv, NEW d \in work.todo, Post(d) PROVE OutboxInv'
<1> USE DEF IInv, OutboxInv, history, tables
<1>1. /\ work'.todo = work.todo \ {d} /\ work'.pc = "posted" /\ work'.cur = d
      /\ work'.got = work.got /\ work'.read = work.read /\ work'.new = work.new
      /\ work'.flushed = work.flushed /\ work.pc = "loop"
  BY DEF Post, TypeOK, Batch
<1>2. UNCHANGED <<stamp, event, stored, row, hand, byHand, lost>>
  BY DEF Post
<1>3. d \in Deliveries /\ d \in work.got /\ d \notin work.flushed
  BY DEF SessionInv, TypeOK, Batch
<1>4. posts'[d] = posts[d] + 1 /\ \A e \in Deliveries \ {d} : posts'[e] = posts[e]
  BY <1>3 DEF Post, TypeOK
<1>5. \A e \in Deliveries : Begun(e)' <=> Begun(e)
  BY <1>2 DEF Begun
<1>6. Begun(d)
  BY <1>3 DEF EventsBegun
<1>7. EventsBegun'
  BY <1>1, <1>2, <1>4, <1>5, <1>6 DEF EventsBegun, TypeOK, Batch
<1>8. SessionInv' /\ RowsInv'
  BY <1>1, <1>2, <1>3 DEF SessionInv, RowsInv
<1>9. HandsInv'
  BY <1>1, <1>2, <1>3, <1>4 DEF HandsInv, Begun
<1>10. PostsInv'
  <2>1. ASSUME NEW e \in Deliveries \ byHand, e # d
        PROVE  /\ e \in stored => posts[e] <= row[e].attempts + lost + (IF InHand(e) THEN 1 ELSE 0)
               /\ e \in work.got =>
                     posts[e] <= work.read[e].attempts + lost + (IF InHand(e) THEN 1 ELSE 0)
               /\ posts[e] <= MaxAttempts + lost
               /\ InHand(e)' <=> InHand(e)
               /\ posts'[e] = posts[e]
    BY <1>1, <1>4, <2>1 DEF PostsInv, InHand
  <2>2. ~InHand(d) /\ InHand(d)'
    BY <1>1, <1>3 DEF InHand
  <2>3. ASSUME d \notin byHand
        PROVE  /\ d \in stored => posts'[d] <= row[d].attempts + lost + 1
               /\ posts'[d] <= work.read[d].attempts + lost + 1
               /\ posts'[d] <= MaxAttempts + lost
    <3>1. /\ posts[d] \in Nat /\ lost \in Nat /\ MaxAttempts \in Nat
          /\ row[d].attempts \in Nat /\ work.read[d].attempts \in Nat
      BY <1>3, NumbersAssumption DEF TypeOK, Batch, Row
    <3>2. work.read[d].attempts < MaxAttempts
      BY <1>3, <2>3 DEF RowsInv, IsDue, AttemptsLeft
    <3>3. posts[d] <= work.read[d].attempts + lost
      BY <1>3, <2>2, <2>3, <3>1 DEF PostsInv
    <3>4. d \in stored => posts[d] <= row[d].attempts + lost
      BY <1>3, <2>2, <2>3, <3>1 DEF PostsInv
    <3> QED BY <1>4, <3>1, <3>2, <3>3, <3>4
  <2> QED BY <1>1, <1>2, <1>3, <2>1, <2>2, <2>3 DEF PostsInv
<1> QED BY <1>7, <1>8, <1>9, <1>10

(* The outcome is flushed.                                                 *)
LEMMA FlushInv == ASSUME IInv, Flush PROVE OutboxInv'
<1> USE DEF IInv, OutboxInv, history, tables
<1> DEFINE d == work.cur
<1>1. d \in work.got /\ d \in Deliveries /\ d \notin work.todo /\ work.ok \in BOOLEAN
  BY DEF Flush, SessionInv, TypeOK, Batch
<1>2. /\ work'.todo = work.todo /\ work'.pc = "loop" /\ work.pc = "posted"
      /\ work'.got = work.got /\ work'.read = work.read
      /\ work'.flushed = work.flushed \cup {d}
      /\ work'.new[d] = Outcome(work.read[d], work.ok)
      /\ \A e \in Deliveries \ {d} : work'.new[e] = work.new[e]
  BY <1>1 DEF Flush, TypeOK, Batch
<1>3. UNCHANGED <<stamp, event, stored, row, hand, posts, byHand, lost>>
  BY DEF Flush
<1>4. EventsBegun' /\ SessionInv' /\ HandsInv'
  <2>1. d \in stored
    BY DEF Flush
  <2>2. EventsBegun'
    BY <1>2, <1>3 DEF EventsBegun, Begun
  <2>3. SessionInv'
    BY <1>1, <1>2, <1>3, <2>1 DEF SessionInv
  <2>4. HandsInv'
    BY <1>2, <1>3 DEF HandsInv, Begun
  <2> QED BY <2>2, <2>3, <2>4
<1>5. RowsInv'
  BY <1>1, <1>2, <1>3 DEF RowsInv
<1>6. \A e \in Deliveries : InHand(e)' <=> InHand(e)
  BY <1>1, <1>2 DEF InHand
<1>7. PostsInv'
  BY <1>2, <1>3, <1>6 DEF PostsInv
<1> QED BY <1>4, <1>5, <1>7

(* A batch that raises is lost; what it had in hand is counted as lost.    *)
LEMMA RaiseInv == ASSUME IInv, FlushRaises PROVE OutboxInv'
<1> USE DEF IInv, OutboxInv, history, tables
<1>1. work' = Idle /\ lost' = lost + 1 /\ lost \in Nat
  BY DEF FlushRaises, TypeOK
<1>2. UNCHANGED <<stamp, event, stored, row, hand, posts, byHand>>
  BY DEF FlushRaises
<1>3. EventsBegun' /\ SessionInv' /\ HandsInv' /\ RowsInv'
  BY <1>1, <1>2 DEF EventsBegun, Begun, SessionInv, HandsInv, RowsInv, Idle
<1>4. PostsInv'
  BY <1>1, <1>2, LostCovers DEF Idle
<1> QED BY <1>3, <1>4

(* The batch is committed: each row it has flushed has one more attempt.   *)
LEMMA CommitBatchInv == ASSUME IInv, CommitBatch PROVE OutboxInv'
<1> USE DEF IInv, OutboxInv, history, tables
<1>1. work' = Idle /\ row' = Recorded /\ work.pc = "loop"
  BY DEF CommitBatch
<1>2. UNCHANGED <<stamp, event, stored, hand, posts, byHand, lost>>
  BY DEF CommitBatch
<1>3. EventsBegun' /\ SessionInv' /\ HandsInv'
  <2>1. work'.got = {} /\ work'.todo = {} /\ work'.flushed = {} /\ work'.pc = "idle"
    BY <1>1 DEF Idle
  <2>2. EventsBegun'
    BY <1>2, <2>1 DEF EventsBegun, Begun
  <2>3. SessionInv'
    BY <2>1 DEF SessionInv
  <2>4. HandsInv'
    BY <1>2, <2>1 DEF HandsInv, Begun
  <2> QED BY <2>2, <2>3, <2>4
<1>4. ASSUME NEW d \in Deliveries \ byHand, d \in work.flushed, d \in stored
      PROVE  row'[d].attempts = row[d].attempts + 1 /\ AttemptsLeft(row'[d])
  <2>1. d \in work.got /\ row[d] = work.read[d] /\ work.read[d] \in Row
    BY <1>4 DEF SessionInv, RowsInv, TypeOK, Batch
  <2>2. work.read[d].attempts < MaxAttempts
    BY <1>4, <2>1 DEF RowsInv, IsDue, AttemptsLeft
  <2>3. PICK ok \in BOOLEAN : work.new[d] = Outcome(work.read[d], ok)
    BY <1>4 DEF RowsInv
  <2>4. row'[d] = Merged(work.read[d], work.read[d], work.new[d])
    BY <1>1, <1>4, <2>1 DEF Recorded
  <2>5. work.new[d] \in Row /\ work.new[d].status # "pending"
    BY <2>1, <2>3, OutcomeType, OutcomeStatus
  <2>6. work.new[d].attempts = row[d].attempts + 1 /\ AttemptsLeft(work.new[d])
    BY <2>1, <2>2, <2>3, OutcomeCounts
  <2> QED BY <2>1, <2>4, <2>5, <2>6, MergedUnchanged
<1>5. \A d \in Deliveries : d \notin work.flushed => row'[d] = row[d]
  BY <1>1 DEF Recorded
<1>6. work.flushed \subseteq stored /\ work'.got = {} /\ work'.flushed = {} /\ work'.pc = "idle"
  BY <1>1 DEF SessionInv, Idle
<1>7. RowsInv'
  BY <1>2, <1>4, <1>5, <1>6 DEF RowsInv
<1>8. PostsInv'
  <2>1. ASSUME NEW d \in Deliveries \ byHand, d \in stored
        PROVE  posts[d] <= row'[d].attempts + lost + 0
    <3>1. posts[d] \in Nat /\ row[d].attempts \in Nat /\ lost \in Nat
      BY DEF TypeOK, Row
    <3>2. CASE d \in work.flushed
      BY <1>4, <2>1, <3>1, <3>2 DEF PostsInv, InHand
    <3>3. CASE d \notin work.flushed
      BY <1>1, <1>5, <2>1, <3>1, <3>3 DEF PostsInv, InHand
    <3> QED BY <3>2, <3>3
  <2>2. \A d \in Deliveries : ~InHand(d)'
    BY <1>6 DEF InHand
  <2> QED BY <1>2, <1>6, <2>1, <2>2 DEF PostsInv
<1> QED BY <1>3, <1>7, <1>8

-----------------------------------------------------------------------------
(* The theorems *)

LEMMA StutterInv == ASSUME IInv, UNCHANGED vars PROVE OutboxInv'
BY HooksInv DEF vars, tables

(* Every step keeps the invariant.                                         *)
LEMMA StepInv == IInv /\ [Next]_vars => IInv'
<1> SUFFICES ASSUME IInv, [Next]_vars PROVE IInv'
  OBVIOUS
<1>1. TypeOK'
  BY DispatcherType, OthersType, StutterType DEF IInv, Next
<1>2. ASSUME DispatcherStep PROVE OutboxInv'
  <2>1. ASSUME NEW d \in work.todo, Skip(d) \/ Post(d) PROVE OutboxInv'
    BY <2>1, SkipInv, PostInv
  <2> QED BY <1>2, <2>1, SelectInv, FlushInv, RaiseInv, CommitBatchInv DEF DispatcherStep
<1>3. ASSUME RequestStep PROVE OutboxInv'
  <2>1. ASSUME NEW s \in Webhooks, CreateWebhook(s) \/ UpdateWebhook(s) PROVE OutboxInv'
    BY <2>1, HooksInv DEF CreateWebhook, UpdateWebhook
  <2>2. ASSUME NEW s \in Webhooks, DeleteWebhook(s) PROVE OutboxInv'
    BY <2>2, DeleteInv
  <2>3. ASSUME NEW n \in Events, Commit(n) \/ RollBack(n) PROVE OutboxInv'
    BY <2>3, CommitInv, RollBackInv
  <2>4. ASSUME NEW h \in Hands, NEW d \in stored, Redeliver(h, d) PROVE OutboxInv'
    BY <2>4, RedeliverInv
  <2>5. ASSUME NEW h \in Hands, NEW s \in Webhooks, SendTest(h, s) PROVE OutboxInv'
    BY <2>5, SendTestInv
  <2>6. ASSUME NEW h \in Hands, RecordByHand(h) PROVE OutboxInv'
    BY <2>6, RecordInv
  <2> QED BY <1>3, <2>1, <2>2, <2>3, <2>4, <2>5, <2>6, EmitInv DEF RequestStep
<1>4. ASSUME Crash PROVE OutboxInv'
  BY <1>4, CrashInv
<1>5. ASSUME NEW d \in Deliveries, BackoffEnds(d) PROVE OutboxInv'
  BY <1>5, BackoffInv
<1>6. ASSUME UNCHANGED vars PROVE OutboxInv'
  BY <1>6, StutterInv
<1>7. OutboxInv'
  BY <1>2, <1>3, <1>4, <1>5, <1>6 DEF Next
<1> QED BY <1>1, <1>7 DEF IInv

(* The protocol of the outbox holds for ever.                              *)
THEOREM Invariance == Spec => []IInv
<1>1. Init => IInv
  BY InitType, InitInv DEF IInv
<1> QED BY <1>1, StepInv, PTL DEF Spec

(* An event is only ever sent for a change that was committed, whatever    *)
(* becomes of the request, the dispatcher and the server in between.       *)
THEOREM CommittedOnly == Spec => []OnlyCommittedIsSent
<1>1. IInv => OnlyCommittedIsSent
  BY DEF IInv, OutboxInv, EventsBegun, Begun, OnlyCommittedIsSent, TypeOK
<1> QED BY <1>1, Invariance, PTL

(* A delivery nobody sends by hand leaves at most MAX_ATTEMPTS times, and  *)
(* once more for each batch that was lost.                                 *)
THEOREM BudgetIsKept == Spec => []BudgetHolds
<1>1. IInv => BudgetHolds
  BY DEF IInv, OutboxInv, PostsInv, BudgetHolds
<1> QED BY <1>1, Invariance, PTL
=============================================================================
