---------------------------- MODULE SettingsSync ----------------------------
(***************************************************************************)
(* A browser keeping the scheduling configuration (work rules, compliance, *)
(* shift patterns, agents' rules) in step with the server:                 *)
(* frontend/src/lib/settingsSync.ts, with applyServerSettings of           *)
(* store/wfm.ts.                                                           *)
(*                                                                         *)
(* An action is what runs between two awaits.  Several pushes and a pull   *)
(* may be under way at once; nothing keeps them apart.  The server         *)
(* (backend/app/modules/scheduling/settings_service.py) checks a PUT and   *)
(* writes it in two steps.  A setting is its entries (rules, patterns,     *)
(* agents), an entry the set of edits it shows; 0 is in it when the server *)
(* refuses it.                                                             *)
(***************************************************************************)
EXTENDS Naturals

CONSTANTS
    Keys,         \* the settings, numbered in the order a push sends them
    AgentRules,   \* the setting whose entries are those of the roster's agents
    Entries,      \* the agents, and Whole
    Whole,        \* the entry in which a setting that is replaced whole shows edits
    Nothing,      \* JavaScript undefined; no entry
    SavedBefore,  \* the server has the settings when the page is first opened
    MaxCalls,     \* bound: pushes and pulls under way
    MaxEdits,     \* bound: edits in this browser
    MaxTroubles   \* bound: saves by others, requests and answers lost, reloads

ASSUME ConstantsAssumption ==
    /\ Keys \subseteq Nat /\ Whole \in Entries /\ SavedBefore \in BOOLEAN
    /\ {MaxCalls, MaxEdits, MaxTroubles} \subseteq Nat

VARIABLES
    stored,  \* per setting, the server's row
    log,     \* history: the rows the server has stored
    page,    \* everything the page holds
    used     \* how much of each bound is spent

vars == <<stored, log, page, used>>

Slots == 1..MaxCalls
Content == SUBSET Nat
Value == [Entries -> Content \cup {Nothing}]
NoValue == [a \in Entries |-> Nothing]
Row == [version : Nat, value : Value]      \* version 0: no row
NoRow == [version |-> 0, value |-> NoValue]
NoRows == [k \in Keys |-> NoRow]

(* The version and value last in sync; version 0: none.                    *)
Snap == [version : Nat, value : Value \cup {Nothing}]
NoSnap == [version |-> 0, value |-> Nothing]

(* A call; gone is a PUT this page does not wait for.  todo are the keys a *)
(* push still has to save, the first one under way; values what the browser*)
(* held when the push began; rows the ones the server has read for it or   *)
(* answers with; first marks the pull a session starts with.               *)
Call == [kind : {"idle", "push", "pull", "gone"},
         phase : {"sent", "checked", "done", "refused", "failed"},
         todo : SUBSET Keys, values : [Keys -> Value], base : Nat,
         rows : [Keys -> Row], first : BOOLEAN]

Page == [local : [Keys -> Value], snap : [Keys -> Snap],
         timer : BOOLEAN, polls : BOOLEAN, calls : [Slots -> Call],
         status : {"loading", "saving", "synced", "offline", "conflict"}]

(* The types of all variables.                                             *)
TypeOK ==
    /\ stored \in [Keys -> Row]
    /\ log \in [Keys -> SUBSET Row]
    /\ page \in Page
    /\ used \in [edits : Nat, others : Nat, faults : Nat]

Idle == [kind |-> "idle", phase |-> "sent", todo |-> {},
         values |-> [k \in Keys |-> NoValue], base |-> 0,
         rows |-> NoRows, first |-> FALSE]
FirstPull == [Idle EXCEPT !.kind = "pull", !.first = TRUE]

FirstValue == [a \in Entries |-> {}]

Init ==
    LET row == [version |-> 1, value |-> FirstValue]
    IN  /\ stored = [k \in Keys |-> IF SavedBefore THEN row ELSE NoRow]
        /\ log = [k \in Keys |-> IF SavedBefore THEN {row} ELSE {}]
        /\ page = [local |-> [k \in Keys |-> FirstValue],
                   snap |-> [k \in Keys |-> IF SavedBefore THEN row ELSE NoSnap],
                   timer |-> FALSE, polls |-> FALSE,
                   calls |-> [t \in Slots |-> IF t = 1 THEN FirstPull ELSE Idle],
                   status |-> "loading"]
        /\ used = [edits |-> 0, others |-> 0, faults |-> 0]

-----------------------------------------------------------------------------
(* What the page does between two awaits, as functions of the page *)

ChangedHere(p, k) == p.snap[k].value # p.local[k]

(* applyServerSettings: agents' rules go into the roster, which keeps the  *)
(* agents the answer does not have and gets none it has not; the other     *)
(* settings are replaced.                                                  *)
Merge(k, here, there) ==
    IF k # AgentRules THEN there
    ELSE [a \in Entries |-> IF Nothing \in {here[a], there[a]} THEN here[a] ELSE there[a]]

(* Mutant: settings that are not in the answer lose their version.         *)
ApplyServerForgetting(p, rows) ==
    LET local == [k \in Keys |-> IF rows[k].version = 0 THEN p.local[k]
                                 ELSE Merge(k, p.local[k], rows[k].value)]
    IN  IF \A k \in Keys : rows[k].version = 0 THEN p
        ELSE [p EXCEPT
               !.local = local,
               !.snap = [k \in Keys |-> IF rows[k].version = 0 THEN [@[k] EXCEPT !.version = Nothing]
                                      ELSE [version |-> rows[k].version, value |-> local[k]]],
               !.timer = TRUE]

(* applyServer: load rows (version 0: leave the setting alone) and record  *)
(* what is held then.  The store's subscribers see a change and arm the    *)
(* save timer.                                                             *)
ApplyServer(p, rows) ==
    LET local == [k \in Keys |-> IF rows[k].version = 0 THEN p.local[k]
                                 ELSE Merge(k, p.local[k], rows[k].value)]
    IN  IF \A k \in Keys : rows[k].version = 0 THEN p
        ELSE [p EXCEPT
               !.local = local,
               !.snap = [k \in Keys |-> IF rows[k].version = 0 THEN @[k]
                                      ELSE [version |-> rows[k].version, value |-> local[k]]],
               !.timer = TRUE]

(* The setting that comes next.                                            *)
First(todo) == CHOOSE k \in todo : \A j \in todo : k <= j

(* The end of a call; the first pull of a session starts the polling.      *)
Ended(p, s) == [p EXCEPT !.calls[s] = Idle,
                         !.polls = @ \/ p.calls[s].first]

(* The PUT of the first of todo, based on the version known by now.        *)
Sent(p, s, c, todo) ==
    [p EXCEPT !.calls[s] = [c EXCEPT !.kind = "push", !.phase = "sent", !.todo = todo,
                                     !.base = p.snap[First(todo)].version]]

(* push(keys)                                                              *)
Push(p, s, keys) ==
    LET todo == {k \in keys : ChangedHere(p, k)}
    IN  IF todo = {} THEN Ended(p, s)
        ELSE Sent([p EXCEPT !.status = "saving"], s,
                  [Idle EXCEPT !.values = p.local, !.first = p.calls[s].first], todo)

-----------------------------------------------------------------------------
(* The page's actions *)

Free(s) ==
    /\ page.calls[s].kind = "idle"
    /\ \A t \in 1..(s - 1) : page.calls[t].kind # "idle"

Untroubled == used.others + used.faults < MaxTroubles

Becomes(p) == page' = p /\ UNCHANGED <<stored, log, used>>

(* The entry after another change, as the server takes it or not; an entry *)
(* that is not there is made.                                              *)
Changed(entry, e, broken) ==
    ((IF entry = Nothing THEN {} ELSE entry) \ {0})
        \cup {e} \cup (IF broken THEN {0} ELSE {})

(* The entries that are changed; an agent's can be dropped, too.           *)
Parts(k) == IF k = AgentRules THEN Entries ELSE {Whole}
Dropped(k) == IF k = AgentRules THEN {Nothing} ELSE {}

(* A change of work rules, compliance, patterns or agents' rules.  Of the  *)
(* agents' rules the server refuses only week-off days outside a week.     *)
Edit(k, a, broken) ==
    /\ used.edits < MaxEdits
    /\ broken => k # AgentRules
    /\ used' = [used EXCEPT !.edits = @ + 1]
    /\ \E entry \in {Changed(page.local[k][a], used.edits + 1, broken)} \cup Dropped(k) :
          page' = [page EXCEPT !.local[k][a] = entry, !.timer = TRUE]
    /\ UNCHANGED <<stored, log>>

TimerFires(s) ==
    /\ Free(s)
    /\ page.timer
    /\ Becomes(Push([page EXCEPT !.timer = FALSE], s, Keys))

PollFires(s) ==
    /\ Free(s)
    /\ page.polls
    /\ \A t \in Slots : page.calls[t].kind # "pull"
    /\ Becomes([page EXCEPT !.calls[s] = [Idle EXCEPT !.kind = "pull"]])

(* Mutant: what the browser holds when the answer comes counts as saved.   *)
AcknowledgedShown(c) ==
    LET k == First(c.todo)
    IN  [page EXCEPT !.snap[k] = [version |-> c.rows[k].version, value |-> page.local[k]]]

(* The answer of a PUT.  The value recorded as saved is the one sent, not  *)
(* what the browser holds by now.                                          *)
Acknowledged(c) ==
    LET k == First(c.todo)
    IN  [page EXCEPT !.snap[k] = [version |-> c.rows[k].version, value |-> c.values[k]]]

(* Saved: the next setting is sent.  Stale, refused otherwise or not to be *)
(* had: the rest is not sent.                                              *)
PushEnds(s) ==
    LET c == page.calls[s]
        next == c.todo \ {First(c.todo)}
    IN  /\ c.kind = "push"
        /\ \/ /\ c.phase = "done"
              /\ Becomes(IF next # {} THEN Sent(Acknowledged(c), s, c, next)
                         ELSE Ended([Acknowledged(c) EXCEPT !.status = "synced"], s))
           \/ /\ c.phase = "refused"
              /\ Becomes(Ended([ApplyServer(page, c.rows) EXCEPT !.status = "conflict"], s))
           \/ /\ c.phase = "failed"
              /\ Becomes(Ended([page EXCEPT !.status = "offline"], s))

(* pull: which settings to load and which to upload is decided when the    *)
(* rows are here, with what the browser holds by then.                     *)
Taken(c) == {k \in Keys :
    /\ c.rows[k].version \notin {0, page.snap[k].version}
    /\ c.first \/ ~ChangedHere(page, k)}

(* Mutant: a pull does not send what a push could not.                     *)
UploadedMissing(c) == {k \in Keys : c.rows[k].version = 0}

Uploaded(c) == {k \in Keys :
    \/ c.rows[k].version = 0
    \/ c.rows[k].version = page.snap[k].version /\ ChangedHere(page, k)}

PullEnds(s) ==
    LET c == page.calls[s]
        p == ApplyServer(page, [k \in Keys |-> IF k \in Taken(c) THEN c.rows[k] ELSE NoRow])
    IN  /\ c.kind = "pull"
        /\ \/ /\ c.phase = "done"
              /\ Becomes(IF Uploaded(c) # {} THEN Push(p, s, Uploaded(c))
                         ELSE Ended([p EXCEPT !.status = "synced"], s))
           \/ /\ c.phase = "failed"
              /\ Becomes(Ended([page EXCEPT !.status = "offline"], s))

(* A PUT on its way to the server, or in its hands, that nobody waits for. *)
UnderWay(c) == c.kind = "push" /\ c.phase \in {"sent", "checked"}
Unawaited(c) == [c EXCEPT !.kind = "gone", !.first = FALSE]

(* The page is loaded again: the store and the snapshot are as persisted,  *)
(* the server still gets what had been sent.                               *)
PageReloads ==
    LET left == [t \in Slots |->
                    IF UnderWay(page.calls[t]) THEN Unawaited(page.calls[t])
                    ELSE IF page.calls[t].kind = "gone" THEN page.calls[t] ELSE Idle]
    IN  /\ Untroubled
        /\ \E s \in Slots :
              /\ left[s].kind = "idle"
              /\ \A t \in 1..(s - 1) : left[t].kind # "idle"
              /\ page' = [page EXCEPT !.timer = FALSE, !.polls = FALSE,
                             !.status = "loading", !.calls = [left EXCEPT ![s] = FirstPull]]
        /\ used' = [used EXCEPT !.faults = @ + 1]
        /\ UNCHANGED <<stored, log>>

-----------------------------------------------------------------------------
(* The server and the network *)

Answer(s, phase, rows) ==
    page' = [page EXCEPT !.calls[s] =
                IF @.kind = "gone" /\ phase # "checked" THEN Idle
                ELSE [@ EXCEPT !.phase = phase, !.rows = rows]]

(* GET /scheduling/settings                                                *)
ServeRead(s) ==
    /\ page.calls[s].kind = "pull"
    /\ page.calls[s].phase = "sent"
    /\ Answer(s, "done", stored)
    /\ UNCHANGED <<stored, log, used>>

(* PUT /scheduling/settings/{key}.  The value and its base version are     *)
(* checked against the row that is read, which a refusal of the version    *)
(* carries; a value that is already there makes no version.                *)
Broken(value) == \E a \in Entries : value[a] # Nothing /\ 0 \in value[a]

CheckPut(s) ==
    LET c == page.calls[s]
        k == First(c.todo)
        read == [NoRows EXCEPT ![k] = stored[k]]
    IN  /\ c.kind \in {"push", "gone"}
        /\ c.phase = "sent"
        /\ IF Broken(c.values[k]) THEN Answer(s, "failed", NoRows)
           ELSE IF c.base # stored[k].version THEN Answer(s, "refused", read)
           ELSE IF c.base # 0 /\ stored[k].value = c.values[k] THEN Answer(s, "done", read)
           ELSE Answer(s, "checked", read)
        /\ UNCHANGED <<stored, log, used>>

(* The flush.  An INSERT fails when somebody has made the row meanwhile;   *)
(* an UPDATE finds its row by primary key alone.                           *)
StorePut(s) ==
    LET c == page.calls[s]
        k == First(c.todo)
        row == [version |-> c.rows[k].version + 1, value |-> c.values[k]]
    IN  /\ c.phase = "checked"
        /\ IF c.rows[k].version = 0 /\ stored[k].version # 0
           THEN Answer(s, "failed", NoRows) /\ UNCHANGED <<stored, log>>
           ELSE /\ stored' = [stored EXCEPT ![k] = row]
                /\ log' = [log EXCEPT ![k] = @ \cup {row}]
                /\ Answer(s, "done", [NoRows EXCEPT ![k] = row])
        /\ UNCHANGED used

(* Somebody else saves a setting as it is on the server, with an entry     *)
(* changed: their PUT has been checked.                                    *)
OtherSaves(s, k, a) ==
    LET now == stored[k].value
    IN  /\ Untroubled
        /\ Free(s)
        /\ used' = [used EXCEPT !.others = @ + 1]
        /\ \E entry \in {Changed(now[a], MaxEdits + used.others + 1, FALSE)} \cup Dropped(k) :
              page' = [page EXCEPT !.calls[s] =
                  [Idle EXCEPT !.kind = "gone", !.phase = "checked", !.todo = {k},
                               !.values[k] = [now EXCEPT ![a] = entry],
                               !.rows[k] = stored[k]]]
        /\ UNCHANGED <<stored, log>>

(* A request or its answer is lost: the page cannot tell which.  A save    *)
(* the page has given up may still be carried out.                         *)
Lost(s) ==
    LET c == page.calls[s]
        failed == [page EXCEPT !.calls[s] = [c EXCEPT !.phase = "failed", !.rows = NoRows]]
    IN  /\ Untroubled
        /\ c.kind \in {"push", "pull"}
        /\ c.phase # "failed"
        /\ used' = [used EXCEPT !.faults = @ + 1]
        /\ \/ page' = failed
           \/ /\ UnderWay(c)
              /\ \E t \in Slots : Free(t) /\ page' = [failed EXCEPT !.calls[t] = Unawaited(c)]
        /\ UNCHANGED <<stored, log>>

-----------------------------------------------------------------------------
Answered(s) == PushEnds(s) \/ PullEnds(s)
Served(s) == ServeRead(s) \/ CheckPut(s) \/ StorePut(s)

Next ==
    \/ \E k \in Keys, broken \in BOOLEAN : \E a \in Parts(k) : Edit(k, a, broken)
    \/ \E s \in Slots :
          \/ TimerFires(s) \/ PollFires(s) \/ Answered(s) \/ Served(s) \/ Lost(s)
          \/ \E k \in Keys : \E a \in Parts(k) : OtherSaves(s, k, a)
    \/ PageReloads

Spec == Init /\ [][Next]_vars

(* Timers fire, the server answers, and answers reach the page.            *)
FairSpec ==
    /\ Spec
    /\ \A s \in Slots : WF_vars(Answered(s)) /\ WF_vars(Served(s))
    /\ SF_vars(\E s \in Slots : TimerFires(s))
    /\ SF_vars(\E s \in Slots : PollFires(s))

-----------------------------------------------------------------------------
(* Properties *)

(* What the snapshot takes for the server's value of a version is one the  *)
(* server has had in it; of the agents' rules, what both have entries for  *)
(* is (settingsSync.ts:63-64, 84-91, 102-105, wfm.ts:956-974): a pull      *)
(* decides by it which settings to load and which to upload.               *)
Agrees(k, here, there) ==
    IF k # AgentRules THEN here = there
    ELSE \A a \in Entries : here[a] = there[a] \/ Nothing \in {here[a], there[a]}

TrueCopy(snap) == \A k \in Keys :
    snap[k].version # 0 =>
        \E r \in log[k] : r.version = snap[k].version /\ Agrees(k, snap[k].value, r.value)

SnapshotIsTrue == TrueCopy(page.snap)

(* The settings that are replaced whole and the page's copies of them      *)
(* behave as Copies says (settingsSync.ts:1-14).                           *)
ServerCopies == INSTANCE Copies WITH
    history <- [g \in {"settings"} |-> [k \in Keys \ {AgentRules} |-> log[k]]],
    Groups <- {"settings"}, Items <- Keys \ {AgentRules}, Rows <- Row,
    copy <- [k \in Keys \ {AgentRules} |->
        IF page.snap[k].version = 0 THEN Nothing ELSE page.snap[k]]

ImplementsCopies == ServerCopies!Spec

(* Edits of a setting that are not on the server.                          *)
Pending(k) == \E e \in 1..MaxEdits, a \in Entries :
    LET here == page.local[k][a]
        there == stored[k].value[a]
    IN  here # Nothing /\ e \in here /\ (there = Nothing \/ e \notin there)

(* Somebody saved the setting before the edit could be: pulls leave it     *)
(* alone, and nothing sends it.                                            *)
Overtaken(k) == ChangedHere(page, k) /\ page.snap[k].version # stored[k].version

(* The server refuses the setting, or one that is sent before it.          *)
Refusable(k) == \E j \in Keys : j <= k /\ Broken(page.local[j])

(* The roster has an agent the server's rules lack: they count as in sync. *)
KeptHere(k) ==
    /\ k = AgentRules /\ ~ChangedHere(page, k)
    /\ \E a \in Entries : page.local[k][a] # Nothing /\ stored[k].value[a] = Nothing

(* PUTs that overlapped have written one version twice.                    *)
WrittenTwice(k) == \E r, q \in log[k] : r.version = q.version /\ r # q

(* An edit is saved, or gone from the page, or the page tells of a         *)
(* conflict, unless one of the above has come in its way                   *)
(* (settingsSync.ts:93-153, settings_service.py:147-194).                  *)
EditsSettle == \A k \in Keys :
    Pending(k) ~> \/ ~Pending(k) \/ page.status = "conflict"
                  \/ Overtaken(k) \/ Refusable(k) \/ KeptHere(k) \/ WrittenTwice(k)
=============================================================================
