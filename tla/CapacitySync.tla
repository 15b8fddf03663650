---------------------------- MODULE CapacitySync ----------------------------
(***************************************************************************)
(* A browser keeping the capacity plan (the imported sheets and the        *)
(* switches) in step with the server: frontend/src/lib/capacity/sync.ts    *)
(* and store.ts.                                                           *)
(*                                                                         *)
(* One flush runs at a time and sends, in this order, a clearing, whole    *)
(* sheets, cell edits and the switches; checks for other people's changes  *)
(* run beside it.  An action of the page is what happens between two       *)
(* awaits.  The server (backend/app/modules/capacity/service.py) reads and *)
(* checks in one step of a request and writes in a later one.  What a      *)
(* sheet or the switches hold is abstracted to the set of edits they show; *)
(* 0 stands for content the server refuses (422).                          *)
(***************************************************************************)
EXTENDS Naturals, FiniteSets

CONSTANTS
    Sheets,      \* the sheets of a workbook
    Switches,    \* the switches, which are kept like one more item
    Nothing,     \* no value
    OnServer,    \* the items the server has when the tab is opened
    Workbooks,   \* the sets of sheets that a workbook imported here has
    Refusable,   \* the items this browser can fill with content the server refuses
    MaxEdits,    \* bound: imports, edits, switch changes and clearings here
    MaxTroubles  \* bound: changes and clearings by other people and tools,
                 \* requests and answers lost, and page reloads

Items == Sheets \cup {Switches}

ASSUME ConstantsAssumption ==
    /\ Switches \notin Sheets /\ OnServer \subseteq Items
    /\ Workbooks \subseteq SUBSET Sheets /\ Refusable \subseteq Items
    /\ {MaxEdits, MaxTroubles} \subseteq Nat

VARIABLES
    server,   \* the capacity documents
    plan,     \* the capacity store: what the browser shows, persisted too
    ctx,      \* the sync context
    flush,    \* the flush under way
    check,    \* the start or the check (poll) under way
    away,     \* a write in the server's hands that this page does not wait for
    seen,     \* history: every edit that has been on this page
    overlapped, \* history: items written over a row other than the one checked
    used      \* how much of each bound is spent

vars == <<server, plan, ctx, flush, check, away, seen, overlapped, used>>

Content == SUBSET Nat
(* A document is a row of its own: id tells it from the one an item had    *)
(* before a clearing.  Version 0: there is no document.                    *)
Row == [id : Nat, version : Nat, content : Content]
NoRow == [id |-> 0, version |-> 0, content |-> {}]
Writes == {"clear", "whole", "cell", "switches"}
Phases == {"sent", "checked", "done", "refused", "failed"}

(* A flush.  body is what its request carries, todo the entries of me.cells*)
(* still to send and kept what they held when the loop began, rows what the*)
(* server has read for it, and then what the answer carries.               *)
Flush == [pc : {"off", "clear", "whole", "pullWhole", "cell", "pullCell",
                "switches", "pullSwitches", "state"},
          phase : Phases, items : SUBSET Items, base : [Items -> Nat],
          body : [Items -> Content], todo : SUBSET Sheets,
          kept : [Sheets -> Content], rows : [Items -> Row], by : {"timer", "check"}]

(* A check.  items is what it reloads, removed what has to go, state the   *)
(* versions it found first, rows what an answer carries.                   *)
Check == [pc : {"off", "state", "sheets", "switches", "flush"}, phase : Phases,
          starting : BOOLEAN, items : SUBSET Items, removed : SUBSET Sheets,
          state : [Items -> Nat], rows : [Items -> Row]]

(* The context: what waits to be sent, and the versions it is based on.    *)
Context == [versions : [Items -> Nat], cells : [Sheets -> Content],
            dirty : SUBSET Sheets, switchesDirty : BOOLEAN, clear : BOOLEAN,
            timer : BOOLEAN, polls : BOOLEAN, again : BOOLEAN]

(* The types of all variables.                                             *)
TypeOK ==
    /\ server \in [Items -> Row]
    /\ plan \in [Items -> Content \cup {Nothing}]
    /\ ctx \in Context
    /\ flush \in Flush
    /\ check \in Check
    /\ away \in Flush
    /\ seen \in Content
    /\ overlapped \subseteq Items
    /\ used \in [edits : Nat, others : Nat, faults : Nat]

None(x) == [i \in Items |-> x]
NoFlush == [pc |-> "off", phase |-> "sent", items |-> {}, base |-> None(0),
            body |-> None({}), todo |-> {}, kept |-> [s \in Sheets |-> {}],
            rows |-> None(NoRow), by |-> "timer"]
NoCheck == [pc |-> "off", phase |-> "sent", starting |-> FALSE, items |-> {},
            removed |-> {}, state |-> None(0), rows |-> None(NoRow)]
NewCtx == [versions |-> None(0), cells |-> [s \in Sheets |-> {}], dirty |-> {},
           switchesDirty |-> FALSE, clear |-> FALSE, timer |-> FALSE,
           polls |-> FALSE, again |-> FALSE]
Starting == [NoCheck EXCEPT !.pc = "state", !.starting = TRUE]

Init ==
    /\ server = [i \in Items |-> IF i \in OnServer
                                 THEN [id |-> 1, version |-> 1, content |-> {}] ELSE NoRow]
    /\ plan = None({})
    /\ ctx = NewCtx /\ flush = NoFlush /\ check = Starting /\ away = NoFlush
    /\ seen = {0} /\ overlapped = {}
    /\ used = [edits |-> 0, others |-> 0, faults |-> 0]

-----------------------------------------------------------------------------
(* The user's changes *)

Scheduled(c) == [c EXCEPT !.timer = TRUE]

Spend(what) == used' = [used EXCEPT ![what] = @ + 1]

Token == used.edits + 1
Counted == /\ used.edits < MaxEdits
           /\ Spend("edits")
           /\ seen' = seen \cup {Token}

(* importFile: a workbook replaces the sheets it has.  The server may      *)
(* refuse what some of them, broken, hold (too many rows, a month column   *)
(* it cannot read).                                                        *)
Import(S, broken) ==
    /\ Counted
    /\ plan' = [i \in Items |-> IF i \in broken THEN {Token, 0}
                                ELSE IF i \in S THEN {Token} ELSE plan[i]]
    /\ ctx' = Scheduled([ctx EXCEPT !.dirty = @ \cup S,
                            !.cells = [s \in Sheets |-> IF s \in S THEN {} ELSE @[s]]])
    /\ UNCHANGED <<server, flush, check, away, overlapped>>

(* editCell: of a sheet that waits to be sent whole, the cell is not noted.*)
EditCell(s) ==
    /\ plan[s] # Nothing
    /\ Counted
    /\ plan' = [plan EXCEPT ![s] = @ \cup {Token}]
    /\ ctx' = Scheduled(IF s \in ctx.dirty THEN ctx
                        ELSE [ctx EXCEPT !.cells[s] = @ \cup {Token}])
    /\ UNCHANGED <<server, flush, check, away, overlapped>>

(* setConfig, resetConfig: the server may refuse a switch.                 *)
SetSwitches(broken) ==
    /\ Counted
    /\ plan' = [plan EXCEPT ![Switches] = (@ \ {0}) \cup {Token} \cup {0 : i \in broken}]
    /\ ctx' = Scheduled([ctx EXCEPT !.switchesDirty = TRUE])
    /\ UNCHANGED <<server, flush, check, away, overlapped>>

(* clearData                                                               *)
ClearData ==
    /\ Counted
    /\ plan' = [i \in Items |-> IF i \in Sheets THEN Nothing ELSE plan[i]]
    /\ ctx' = Scheduled([ctx EXCEPT !.clear = TRUE, !.dirty = {},
                            !.cells = [s \in Sheets |-> {}]])
    /\ UNCHANGED <<server, flush, check, away, overlapped>>

-----------------------------------------------------------------------------
(* Taking over what the server has *)

(* applyServerSheets and pullConfig: the rows of the items I are taken,    *)
(* then the local copies of removed go.                                    *)
Shown(I, removed, rows) ==
    [i \in Items |-> IF i \in removed THEN Nothing
                     ELSE IF i \in I THEN rows[i].content ELSE plan[i]]

(* Mutant: a sheet that goes leaves no number where its version was.       *)
TakenForgetting(c, I, removed, rows) ==
    [c EXCEPT !.versions = [i \in Items |->
        IF i \in removed THEN Nothing ELSE IF i \in I THEN rows[i].version ELSE @[i]]]

Taken(c, I, removed, rows) ==
    [c EXCEPT !.versions = [i \in Items |->
        IF i \in removed THEN 0 ELSE IF i \in I THEN rows[i].version ELSE @[i]]]

Contents(I, rows) == UNION {rows[i].content : i \in I}

-----------------------------------------------------------------------------
(* The flush *)

(* The parts of a flush follow each other; each is entered when it has     *)
(* something to send, which is read from the plan p shown by then.         *)
Request(f, pc, I, base, body) ==
    [f EXCEPT !.pc = pc, !.phase = "sent", !.items = I,
              !.base = [i \in Items |-> IF i \in I THEN base[i] ELSE 0],
              !.body = [i \in Items |-> IF i \in I THEN body[i] ELSE {}],
              !.rows = None(NoRow)]

StateNext(f) == Request(f, "state", {}, None(0), None({}))

SwitchesNext(c, f, p) ==
    IF c.switchesDirty THEN Request(f, "switches", {Switches}, c.versions, p)
    ELSE StateNext(f)

(* An entry of me.cells is taken out and sent.  The loop goes over a copy  *)
(* of the list (kept); an entry that is still there is sent as it is now.  *)
CellNext(c, f, s, rest) ==
    LET entry == IF c.cells[s] # {} THEN c.cells[s] ELSE f.kept[s]
    IN  [Request(f, "cell", {s}, c.versions, [i \in Items |-> entry]) EXCEPT !.todo = rest]

AskState == [NoCheck EXCEPT !.pc = "state"]

(* What poll sends before it looks.                                        *)
Waiting(c) ==
    c.dirty # {} \/ c.switchesDirty \/ c.clear \/ \E s \in Sheets : c.cells[s] # {}

(* What flush and context can become: pairs, since the order of the cells'  *)
(* sheets is not known here.                                               *)
Pair(f, c) == [flush |-> f, ctx |-> c]

Cells(c, f, S, p) ==
    IF S = {} THEN {Pair(SwitchesNext(c, f, p), c)}
    ELSE {Pair(CellNext(c, f, s, S \ {s}), [c EXCEPT !.cells[s] = {}]) : s \in S}

AfterWhole(c, f, p) ==
    LET S == {s \in Sheets : c.cells[s] # {}}
    IN  Cells(c, [f EXCEPT !.kept = c.cells], S, p)

AfterClear(c, f, p) ==
    LET W == {s \in c.dirty : p[s] # Nothing}
    IN  IF W # {} THEN {Pair(Request(f, "whole", W, c.versions, p), c)}
        ELSE AfterWhole(c, f, p)

(* flush() up to its first await.                                          *)
Begun(c, by, p) ==
    LET f == [NoFlush EXCEPT !.by = by]
    IN  IF c.clear THEN {Pair(Request(f, "clear", {}, None(0), None({})), c)}
        ELSE AfterClear(c, f, p)

Become(pairs) == \E r \in pairs : flush' = r.flush /\ ctx' = r.ctx

(* The end of a flush: a check that waits for it goes on, one that was     *)
(* asked for meanwhile starts.                                             *)
Ended(c) ==
    /\ flush' = NoFlush
    /\ ctx' = [c EXCEPT !.again = FALSE,
                        !.polls = @ \/ (flush.by = "check" /\ check.starting)]
    /\ check' = IF flush.by = "check"
                THEN IF check.starting THEN NoCheck ELSE AskState
                ELSE IF c.again /\ check.pc = "off" THEN AskState ELSE check

(* The save timer; a flush under way makes this call return at once.       *)
TimerFires ==
    /\ ctx.timer
    /\ LET c == [ctx EXCEPT !.timer = FALSE]
       IN  Become(IF flush.pc = "off" THEN Begun(c, "timer", plan) ELSE {Pair(flush, c)})
    /\ UNCHANGED <<server, away, overlapped, plan, check, seen, used>>

(* The answer of each request of a flush.                                  *)
Clearing ==
    /\ flush.pc = "clear" /\ flush.phase = "done"
    /\ Become(AfterClear([ctx EXCEPT !.clear = FALSE,
                              !.versions = [i \in Items |-> IF i \in Sheets THEN 0 ELSE @[i]]],
                         flush, plan))
    /\ UNCHANGED <<server, away, overlapped, plan, check, seen, used>>

Learnt(c) == [c EXCEPT !.versions = [i \in Items |->
    IF i \in flush.items THEN flush.rows[i].version ELSE @[i]]]

WholeSent ==
    LET c == Learnt(ctx)
    IN  /\ flush.pc = "whole" /\ flush.phase = "done"
        /\ Become(AfterWhole([c EXCEPT !.dirty = @ \ flush.items,
                                 !.cells = [s \in Sheets |-> IF s \in flush.items THEN {} ELSE @[s]]],
                             flush, plan))
        /\ UNCHANGED <<server, away, overlapped, plan, check, seen, used>>

CellSent ==
    /\ flush.pc = "cell" /\ flush.phase = "done"
    /\ Become(Cells(Learnt(ctx), flush, flush.todo, plan))
    /\ UNCHANGED <<server, away, overlapped, plan, check, seen, used>>

SwitchesSent ==
    /\ flush.pc = "switches" /\ flush.phase = "done"
    /\ Become({Pair(StateNext(flush), [Learnt(ctx) EXCEPT !.switchesDirty = FALSE])})
    /\ UNCHANGED <<server, away, overlapped, plan, check, seen, used>>

AllSent ==
    /\ flush.pc = "state" /\ flush.phase = "done"
    /\ Ended(ctx)
    /\ UNCHANGED <<server, away, overlapped, plan, seen, used>>

(* A 409, or a 404 for a cell: the server's copy is loaded, and the flush  *)
(* ends with a conflict.                                                   *)
Refused ==
    /\ flush.phase = "refused"
    /\ flush' = Request(flush, CASE flush.pc = "whole" -> "pullWhole"
                                  [] flush.pc = "cell" -> "pullCell"
                                  [] flush.pc = "switches" -> "pullSwitches",
                         flush.items, None(0), None({}))
    /\ ctx' = IF flush.pc = "switches" THEN [ctx EXCEPT !.switchesDirty = FALSE] ELSE ctx
    /\ UNCHANGED <<server, away, overlapped, plan, check, seen, used>>

Reloaded ==
    /\ flush.pc \in {"pullWhole", "pullCell", "pullSwitches"} /\ flush.phase = "done"
    /\ LET c == Taken(ctx, flush.items, {}, flush.rows)
       IN  Ended(IF flush.pc = "pullWhole" THEN [c EXCEPT !.dirty = @ \ flush.items] ELSE c)
    /\ plan' = Shown(flush.items, {}, flush.rows)
    /\ seen' = seen \cup Contents(flush.items, flush.rows)
    /\ UNCHANGED <<server, away, overlapped, used>>

(* Anything else that goes wrong ends the flush; a cell's edits are put    *)
(* back.                                                                   *)
FlushFails ==
    /\ flush.pc # "off" /\ flush.phase = "failed"
    /\ Ended(IF flush.pc = "cell"
             THEN [ctx EXCEPT !.cells = [s \in Sheets |->
                      IF s \in flush.items THEN @[s] \cup flush.body[s] ELSE @[s]]]
             ELSE ctx)
    /\ UNCHANGED <<server, away, overlapped, plan, seen, used>>

-----------------------------------------------------------------------------
(* Checks: starting the sync, and looking for other people's changes *)

(* Mutant: a poll only looks.                                              *)
PollFiresLooking ==
    /\ ctx.polls /\ check.pc = "off"
    /\ IF flush.pc # "off"
       THEN ctx' = [ctx EXCEPT !.again = TRUE] /\ UNCHANGED <<flush, check>>
       ELSE check' = AskState /\ UNCHANGED <<flush, ctx>>
    /\ UNCHANGED <<server, away, overlapped, plan, seen, used>>

(* The poll timer, the live stream or a screen asks for a check.           *)
PollFires ==
    /\ ctx.polls /\ check.pc = "off"
    /\ IF flush.pc # "off"
       THEN ctx' = [ctx EXCEPT !.again = TRUE] /\ UNCHANGED <<flush, check>>
       ELSE IF Waiting(ctx)
       THEN Become(Begun(ctx, "check", plan)) /\ check' = [NoCheck EXCEPT !.pc = "flush"]
       ELSE check' = AskState /\ UNCHANGED <<flush, ctx>>
    /\ UNCHANGED <<server, away, overlapped, plan, seen, used>>

(* A check that has loaded the sheets looks at the switches.               *)
Checked(c) ==
    /\ check' = NoCheck
    /\ ctx' = [c EXCEPT !.polls = TRUE]
    /\ UNCHANGED flush

(* The switches are sent at the start when the server has none.            *)
SwitchesChecked(c, p) ==
    LET d == [c EXCEPT !.switchesDirty = TRUE]
        on == check.state[Switches] # 0
        newer == check.state[Switches] # c.versions[Switches] /\ ~c.switchesDirty
    IN  IF on /\ (check.starting \/ newer)
        THEN /\ check' = [NoCheck EXCEPT !.pc = "switches", !.starting = check.starting,
                                         !.items = {Switches}]
             /\ ctx' = c /\ UNCHANGED flush
        ELSE IF ~on /\ check.starting /\ flush.pc = "off"
        THEN Become(Begun(d, "check", p)) /\ check' = [Starting EXCEPT !.pc = "flush"]
        ELSE Checked(IF ~on /\ check.starting THEN d ELSE c)

(* The answer of GET /capacity/state.                                      *)
StateHere ==
    LET on == {s \in Sheets : check.state[s] # 0}
        here == {s \in Sheets : plan[s] # Nothing}
        changed == {s \in Sheets : /\ check.state[s] # ctx.versions[s]
                                   /\ s \notin ctx.dirty /\ ctx.cells[s] = {}}
        I == IF check.starting THEN on ELSE changed \cap on
        gone == (IF check.starting THEN here ELSE changed) \ on
        shown == Shown({}, gone, check.rows)
        first == check.starting /\ on = {} /\ here # {}
        c == [ctx EXCEPT !.dirty = @ \cup here,
                         !.switchesDirty = check.state[Switches] = 0]
    IN  /\ check.pc = "state" /\ check.phase = "done"
        /\ IF first
           THEN /\ IF flush.pc = "off"
                   THEN Become(Begun(c, "check", plan)) /\ check' = [Starting EXCEPT !.pc = "flush"]
                   ELSE Checked(c)
                /\ UNCHANGED plan
           ELSE IF I # {}
           THEN /\ check' = [check EXCEPT !.pc = "sheets", !.phase = "sent", !.items = I,
                                          !.removed = gone]
                /\ UNCHANGED <<plan, ctx, flush>>
           ELSE /\ plan' = shown
                /\ SwitchesChecked(Taken(ctx, {}, gone, check.rows), shown)
        /\ UNCHANGED <<server, away, overlapped, seen, used>>

(* The sheets asked for are here: they are shown whatever was edited       *)
(* meanwhile, and local sheets the server did not have go.                 *)
SheetsHere ==
    /\ check.pc = "sheets" /\ check.phase = "done"
    /\ LET shown == Shown(check.items, check.removed, check.rows)
       IN  /\ plan' = shown
           /\ SwitchesChecked(Taken(ctx, check.items, check.removed, check.rows), shown)
    /\ seen' = seen \cup Contents(check.items, check.rows)
    /\ UNCHANGED <<server, away, overlapped, used>>

SwitchesHere ==
    /\ check.pc = "switches" /\ check.phase = "done"
    /\ plan' = Shown(check.items, {}, check.rows)
    /\ seen' = seen \cup Contents(check.items, check.rows)
    /\ Checked(Taken(ctx, check.items, {}, check.rows))
    /\ UNCHANGED <<server, away, overlapped, used>>

CheckFails ==
    /\ check.pc \in {"state", "sheets", "switches"} /\ check.phase = "failed"
    /\ check' = NoCheck
    /\ ctx' = [ctx EXCEPT !.polls = TRUE]
    /\ UNCHANGED <<server, away, overlapped, plan, flush, seen, used>>

-----------------------------------------------------------------------------
(* The server *)

Part(I, sv) == [i \in Items |-> IF i \in I THEN sv[i] ELSE NoRow]
Loaded == {s \in Sheets : server[s].version # 0}

(* Mutant: a document that has gone on to another version is overwritten.  *)
StaleNever(w) == {i \in w.items : w.pc = "cell" /\ server[i].version = 0}

(* The items of a write that a check of its versions refuses (409); so is  *)
(* a cell of a sheet that is not there (404).                              *)
Stale(w) ==
    {i \in w.items : \/ server[i].version # w.base[i]
                     \/ w.pc = "cell" /\ server[i].version = 0}

(* The items whose content is refused (422).                               *)
Broken(w) == {i \in w.items : w.pc \in {"whole", "switches"} /\ 0 \in w.body[i]}

(* Switches that are as they were, and an empty plan, are not written.     *)
Written(w) ==
    CASE w.pc = "clear" -> Loaded # {}
      [] w.pc = "switches" -> \/ server[Switches].version = 0
                              \/ server[Switches].content # w.body[Switches]
      [] OTHER -> TRUE

(* What a write can be after the server has read and checked for it.  The  *)
(* sheets of a workbook are checked one by one, in an order not known here.*)
Read(w) ==
    LET I == IF w.pc = "clear" THEN Loaded ELSE w.items
    IN  [w EXCEPT !.phase = IF Written(w) THEN "checked" ELSE "done",
                  !.items = I, !.rows = Part(I, server)]

Answers(w) ==
    {[w EXCEPT !.phase = "refused"] : i \in Stale(w)}
    \cup {[w EXCEPT !.phase = "failed"] : i \in Broken(w) \ Stale(w)}
    \cup (IF Stale(w) \cup Broken(w) = {} THEN {Read(w)} ELSE {})

(* The rows read are written by their ids: a row is not inserted twice, and*)
(* one that has gone is not updated.  Either raises.                       *)
Gone(w, i) == server[i].version = 0 \/ server[i].id # w.rows[i].id

Raises(w) ==
    /\ w.pc # "clear"
    /\ \E i \in w.items : IF w.rows[i].version = 0 THEN server[i].version # 0 ELSE Gone(w, i)

NewRow(w, i) ==
    IF w.pc = "clear" THEN [id |-> server[i].id, version |-> 0, content |-> {}]
    ELSE [id |-> IF w.rows[i].version = 0 THEN server[i].id + 1 ELSE w.rows[i].id,
          version |-> w.rows[i].version + 1,
          content |-> IF w.pc = "cell" THEN w.rows[i].content \cup w.body[i] ELSE w.body[i]]

Stored(w) ==
    [i \in Items |-> IF i \in w.items /\ (w.pc = "clear" => ~Gone(w, i))
                     THEN NewRow(w, i) ELSE server[i]]

Store(w) ==
    /\ server' = Stored(w)
    /\ overlapped' = overlapped \cup {i \in w.items : server[i] # w.rows[i]}

(* PUT /capacity/workbook, PATCH .../rows, PUT /capacity/config and        *)
(* DELETE /capacity/sheets: read and check, then write.                    *)
ServeWrite ==
    /\ flush.pc \in Writes
    /\ \/ /\ flush.phase = "sent" /\ flush' \in Answers(flush)
          /\ UNCHANGED <<server, overlapped>>
       \/ /\ flush.phase = "checked" /\ Raises(flush)
          /\ flush' = [flush EXCEPT !.phase = "failed"]
          /\ UNCHANGED <<server, overlapped>>
       \/ /\ flush.phase = "checked" /\ ~Raises(flush) /\ Store(flush)
          /\ flush' = [flush EXCEPT !.phase = "done", !.rows = Part(flush.items, Stored(flush))]
    /\ UNCHANGED <<plan, ctx, check, away, seen, used>>

(* The same for the write nobody here waits for.                           *)
AwayServed ==
    /\ \/ /\ away.phase = "sent"
          /\ \E w \in Answers(away) : away' = IF w.phase = "checked" THEN w ELSE NoFlush
          /\ UNCHANGED <<server, overlapped>>
       \/ /\ away.phase = "checked" /\ away' = NoFlush
          /\ IF Raises(away) THEN UNCHANGED <<server, overlapped>> ELSE Store(away)
    /\ away.pc # "off"
    /\ UNCHANGED <<plan, ctx, flush, check, seen, used>>

(* GET /capacity/sheets/{id}, /capacity/config and /capacity/state; at the *)
(* start GET /capacity/sheets, which answers with every sheet there is.    *)
Missing(I) == \E i \in I \cap Sheets : server[i].version = 0

ServeFlushRead ==
    /\ flush.pc \in {"pullWhole", "pullCell", "pullSwitches", "state"}
    /\ flush.phase = "sent"
    /\ flush' = IF Missing(flush.items) THEN [flush EXCEPT !.phase = "failed"]
                ELSE [flush EXCEPT !.phase = "done", !.rows = Part(flush.items, server)]
    /\ UNCHANGED <<server, plan, ctx, check, away, seen, overlapped, used>>

ServeCheck ==
    LET I == IF check.starting /\ check.pc = "sheets" THEN Loaded ELSE check.items
    IN  /\ check.pc \in {"state", "sheets", "switches"} /\ check.phase = "sent"
        /\ check' = IF check.pc = "state"
                    THEN [check EXCEPT !.phase = "done",
                                       !.state = [i \in Items |-> server[i].version]]
                    ELSE [check EXCEPT !.phase = IF Missing(I) THEN "failed" ELSE "done",
                                       !.items = I, !.rows = Part(I, server)]
        /\ UNCHANGED <<server, plan, ctx, flush, away, seen, overlapped, used>>

-----------------------------------------------------------------------------
(* Other people, the network, and reloading the page *)

Untroubled == used.others + used.faults < MaxTroubles

(* A request of somebody else's, or of a connected tool, that is read and  *)
(* checked by now.                                                         *)
OtherSends(pc, I, body) ==
    /\ Untroubled /\ away.pc = "off"
    /\ Spend("others")
    /\ away' = [NoFlush EXCEPT !.pc = pc, !.phase = "checked", !.items = I,
                               !.rows = Part(I, server),
                               !.body = [i \in Items |-> IF i \in I THEN body ELSE {}]]
    /\ UNCHANGED <<server, plan, ctx, flush, check, seen, overlapped>>

(* It adds to what it has read.                                            *)
OtherChanges(i) ==
    OtherSends(IF i = Switches THEN "switches" ELSE "whole", {i},
               server[i].content \cup {MaxEdits + used.others + 1})

OtherClears == Loaded # {} /\ OtherSends("clear", Loaded, {})

(* What becomes of a write of this page that is no longer waited for: it   *)
(* never gets to the server, or goes on there.                             *)
Abandoned(w) ==
    [NoFlush EXCEPT !.pc = w.pc, !.phase = w.phase, !.items = w.items, !.base = w.base,
                    !.body = w.body, !.rows = w.rows]

Left ==
    {away} \cup IF away.pc = "off" /\ flush.pc \in Writes /\ flush.phase \in {"sent", "checked"}
                THEN {Abandoned(flush)} ELSE {}

(* A request or its answer is lost: the page cannot tell which.            *)
Lost ==
    /\ Untroubled
    /\ Spend("faults")
    /\ \/ /\ flush.pc # "off" /\ flush.phase # "failed"
          /\ flush' = [flush EXCEPT !.phase = "failed"]
          /\ away' \in Left /\ UNCHANGED check
       \/ /\ check.pc \notin {"off", "flush"} /\ check.phase # "failed"
          /\ check' = [check EXCEPT !.phase = "failed"] /\ UNCHANGED <<flush, away>>
    /\ UNCHANGED <<server, plan, ctx, seen, overlapped>>

(* A page load keeps the plan (IndexedDB) and nothing of the context.      *)
PageReloads ==
    /\ Untroubled
    /\ Spend("faults")
    /\ ctx' = NewCtx /\ flush' = NoFlush /\ check' = Starting
    /\ away' \in Left
    /\ UNCHANGED <<server, plan, seen, overlapped>>

-----------------------------------------------------------------------------
Edits ==
    \/ \E S \in Workbooks : \E broken \in SUBSET (S \cap Refusable) :
          Import(S, broken)
    \/ \E broken \in SUBSET ({Switches} \cap Refusable) : SetSwitches(broken)
    \/ \E s \in Sheets : EditCell(s)
    \/ ClearData

Flushes ==
    \/ Clearing \/ WholeSent \/ CellSent \/ SwitchesSent \/ AllSent
    \/ Refused \/ Reloaded \/ FlushFails

Checks == StateHere \/ SheetsHere \/ SwitchesHere \/ CheckFails

Serves == ServeWrite \/ ServeFlushRead

Next ==
    \/ Edits \/ TimerFires \/ PollFires \/ Flushes \/ Checks
    \/ Serves \/ ServeCheck \/ AwayServed \/ Lost \/ PageReloads
    \/ OtherClears \/ \E i \in Items : OtherChanges(i)

Spec == Init /\ [][Next]_vars

(* The timers fire, the server answers, and answers reach the page.        *)
FairSpec ==
    /\ Spec
    /\ WF_vars(Flushes) /\ WF_vars(Serves) /\ WF_vars(Checks) /\ WF_vars(ServeCheck)
    /\ WF_vars(TimerFires) /\ WF_vars(PollFires)

-----------------------------------------------------------------------------
(* Properties *)

(* What other people and tools put into a document leaves it only by a     *)
(* clearing of the plan, or by a save of a page that has loaded it: every  *)
(* save says which version it replaces, and a version is noted with its    *)
(* content.  Versions say this no more once a request has written over a   *)
(* row other than the one it checked, nor in a sheet loaded again after a  *)
(* clearing, whose versions start at 1 again                               *)
(* (sync.ts:117-143, 307-320, 324-332, 343-350; service.py:302-307).       *)
UnseenIsKept == [][
    \A i \in Items :
        \/ server[i].content \ server'[i].content \subseteq seen
        \/ server'[i].version = 0 \/ server'[i].id > 1
        \/ i \in overlapped']_vars

(* The ways a flush can fail for ever: a sheet waits that has gone from the*)
(* plan (sync.ts:156, 166, 305); the server refuses what a sheet or the    *)
(* switches hold; a sheet's upload is refused for its version, and one of  *)
(* the sheets to load again instead is not there (sync.ts:312-317).        *)
Uploading == {s \in ctx.dirty : plan[s] # Nothing}

Stuck ==
    \/ ctx.dirty # Uploading
    \/ \E s \in Uploading : 0 \in plan[s]
    \/ ctx.switchesDirty /\ 0 \in plan[Switches]
    \/ /\ \E s \in Uploading : server[s].version # ctx.versions[s]
       /\ \E s \in Uploading : server[s].version = 0

(* Short of that, what waits to be sent is sent, or given up for the       *)
(* server's copy, in the end: a timer that fires during a flush is lost,   *)
(* the checks make up for it (sync.ts:262-276, 285-289).                   *)
PendingIsSent == Waiting(ctx) ~> (~Waiting(ctx) \/ Stuck)
=============================================================================
