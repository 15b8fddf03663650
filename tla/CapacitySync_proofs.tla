------------------------ MODULE CapacitySync_proofs ------------------------
(***************************************************************************)
(* What other people put into the capacity plan is overwritten only by a   *)
(* page that has loaded it: the proof, for any sheets, edits and faults.   *)
(*                                                                         *)
(* The predicates take the documents sv, the edits seen sn and the items   *)
(* ov that were written over a row other than the one checked, since an    *)
(* answer reaches the page in a later state than the one it was given in.  *)
(***************************************************************************)
EXTENDS CapacitySync, TLAPS

(* The versions of a document tell its contents apart: it is the first of  *)
(* its item, and every write was over the row it was checked against.      *)
Firm(i, sv, ov) ==
    i \notin ov /\ sv[i].id <= 1 /\ (sv[i].version = 0 => sv[i].id = 0)

(* A noted version is not ahead of the server's, and if it is the server's *)
(* the page has seen the document.                                         *)
Noted(i, v, sv, sn) ==
    /\ v <= sv[i].version
    /\ v = sv[i].version => sv[i].content \subseteq sn

(* An answer carries a document as it is or as it was.                     *)
TrueRow(i, row, sv) ==
    /\ row.version <= sv[i].version
    /\ row.version = sv[i].version => row.content = sv[i].content

OkServer(sv) ==
    /\ sv \in [Items -> Row]
    /\ \A i \in Items : IF sv[i].version = 0 THEN sv[i].content = {} ELSE sv[i].id # 0

OkPlan(p, sn) ==
    /\ p \in [Items -> Content \cup {Nothing}]
    /\ p[Switches] \in Content /\ p[Switches] \subseteq sn
    /\ \A i \in Items : p[i] # Nothing => p[i] \subseteq sn

OkContext(c, sv, sn, ov) ==
    /\ c \in Context
    /\ \A s \in Sheets : c.cells[s] \subseteq sn
    /\ \A i \in Items : Firm(i, sv, ov) => Noted(i, c.versions[i], sv, sn)

Saves == {"whole", "cell", "switches"}

(* Once the server has read and checked for the write w, what it takes out *)
(* of document i has been seen.                                            *)
Safe(w, i, sn) ==
    w.pc \in Saves /\ w.phase \in {"checked", "done"} /\ i \in w.items =>
        w.rows[i].content \subseteq sn \cup w.body[i]

(* A write, of this page or not.                                           *)
OkWrite(w, sv, sn, ov) ==
    /\ w \in Flush
    /\ w.phase = "refused" => w.pc \in Saves
    /\ w.pc = "clear" /\ w.phase = "sent" => w.items = {}
    /\ \A i \in Items : Firm(i, sv, ov) =>
          /\ Noted(i, w.base[i], sv, sn)
          /\ TrueRow(i, w.rows[i], sv)
          /\ Safe(w, i, sn)

(* What a flush sends has been on the page.                                *)
OkFlush(f, sv, sn, ov) ==
    /\ OkWrite(f, sv, sn, ov)
    /\ \A i \in Items : f.body[i] \subseteq sn
    /\ \A s \in Sheets : f.kept[s] \subseteq sn

OkCheck(k, sv, ov) ==
    k \in Check /\ \A i \in Items : Firm(i, sv, ov) => TrueRow(i, k.rows[i], sv)

(* The inductive invariant.                                                *)
CapacityInv ==
    /\ OkServer(server)
    /\ OkPlan(plan, seen)
    /\ OkContext(ctx, server, seen, overlapped)
    /\ OkFlush(flush, server, seen, overlapped)
    /\ OkWrite(away, server, seen, overlapped) /\ away.pc \in Writes \cup {"off"}
    /\ OkCheck(check, server, overlapped)
    /\ seen \in Content /\ 0 \in seen /\ overlapped \subseteq Items
    /\ used \in [edits : Nat, others : Nat, faults : Nat]

-----------------------------------------------------------------------------
(* What stays true when the server goes on and more is seen.               *)

(* No firm document goes back, and a version of it names one content.      *)
Later(sv, sv2, ov, ov2) ==
    \A i \in Items : Firm(i, sv2, ov2) =>
        /\ Firm(i, sv, ov)
        /\ sv[i].version <= sv2[i].version
        /\ sv[i].version = sv2[i].version => sv2[i] = sv[i]

(* A context stays in order when the server goes on.                       *)
LEMMA ContextStays ==
    ASSUME NEW sv, NEW sv2, NEW sn, NEW sn2, NEW ov, NEW ov2, NEW c,
           OkServer(sv), OkServer(sv2), sn \subseteq sn2,
           Later(sv, sv2, ov, ov2), OkContext(c, sv, sn, ov)
    PROVE  OkContext(c, sv2, sn2, ov2)
<1>1. ASSUME NEW i \in Items, Firm(i, sv2, ov2)
      PROVE  Noted(i, c.versions[i], sv2, sn2)
  <2>1. /\ sv[i] \in Row /\ sv2[i] \in Row /\ c.versions[i] \in Nat
        /\ Noted(i, c.versions[i], sv, sn)
        /\ sv[i].version <= sv2[i].version
        /\ sv[i].version = sv2[i].version => sv2[i] = sv[i]
    BY <1>1 DEF OkServer, OkContext, Context, Later
  <2> QED BY <2>1 DEF Noted, Row
<1> QED BY <1>1 DEF OkContext

(* So does a write,                                                        *)
LEMMA WriteStays ==
    ASSUME NEW sv, NEW sv2, NEW sn, NEW sn2, NEW ov, NEW ov2, NEW w,
           OkServer(sv), OkServer(sv2), sn \subseteq sn2,
           Later(sv, sv2, ov, ov2), OkWrite(w, sv, sn, ov)
    PROVE  OkWrite(w, sv2, sn2, ov2)
<1>1. ASSUME NEW i \in Items, Firm(i, sv2, ov2)
      PROVE  /\ Noted(i, w.base[i], sv2, sn2)
             /\ TrueRow(i, w.rows[i], sv2)
             /\ Safe(w, i, sn2)
  <2>1. /\ sv[i] \in Row /\ sv2[i] \in Row /\ w.base[i] \in Nat /\ w.rows[i] \in Row
        /\ Noted(i, w.base[i], sv, sn) /\ TrueRow(i, w.rows[i], sv) /\ Safe(w, i, sn)
        /\ sv[i].version <= sv2[i].version
        /\ sv[i].version = sv2[i].version => sv2[i] = sv[i]
    BY <1>1 DEF OkServer, OkWrite, Flush, Later
  <2>2. Noted(i, w.base[i], sv2, sn2) /\ TrueRow(i, w.rows[i], sv2)
    BY <2>1 DEF Noted, TrueRow, Row
  <2>3. Safe(w, i, sn2)
    BY <2>1 DEF Safe
  <2> QED BY <2>2, <2>3
<1> QED BY <1>1 DEF OkWrite

(* a flush                                                                 *)
LEMMA FlushStays ==
    ASSUME NEW sv, NEW sv2, NEW sn, NEW sn2, NEW ov, NEW ov2, NEW f,
           OkServer(sv), OkServer(sv2), sn \subseteq sn2,
           Later(sv, sv2, ov, ov2), OkFlush(f, sv, sn, ov)
    PROVE  OkFlush(f, sv2, sn2, ov2)
<1>1. OkWrite(f, sv2, sn2, ov2)
  BY WriteStays DEF OkFlush
<1> QED BY <1>1 DEF OkFlush

(* and a check.                                                            *)
LEMMA CheckStays ==
    ASSUME NEW sv, NEW sv2, NEW ov, NEW ov2, NEW k, OkServer(sv), OkServer(sv2),
           Later(sv, sv2, ov, ov2), OkCheck(k, sv, ov)
    PROVE  OkCheck(k, sv2, ov2)
<1>1. ASSUME NEW i \in Items, Firm(i, sv2, ov2)
      PROVE  TrueRow(i, k.rows[i], sv2)
  <2>1. /\ sv[i] \in Row /\ sv2[i] \in Row /\ k.rows[i] \in Row /\ TrueRow(i, k.rows[i], sv)
        /\ sv[i].version <= sv2[i].version
        /\ sv[i].version = sv2[i].version => sv2[i] = sv[i]
    BY <1>1 DEF OkServer, OkCheck, Check, Later
  <2> QED BY <2>1 DEF TrueRow, Row
<1> QED BY <1>1 DEF OkCheck

(* A server that does not move is no earlier than itself.                  *)
LEMMA LaterSame ==
    ASSUME NEW sv, NEW ov, OkServer(sv)
    PROVE  Later(sv, sv, ov, ov)
<1>1. \A i \in Items : sv[i].version <= sv[i].version
  BY DEF OkServer, Row
<1> QED BY <1>1 DEF Later

(* A plan stays in order when more is seen.                                *)
LEMMA PlanStays ==
    ASSUME NEW p, NEW sn, NEW sn2, sn \subseteq sn2, OkPlan(p, sn)
    PROVE  OkPlan(p, sn2)
BY DEF OkPlan

-----------------------------------------------------------------------------
(* The pieces of a flush and of a check.                                   *)

(* Nothing sent, nothing asked: nothing to be wrong about.                 *)
LEMMA FreshIsOk ==
    ASSUME NEW sv, NEW sn, NEW ov, OkServer(sv)
    PROVE  /\ OkFlush(NoFlush, sv, sn, ov)
           /\ \A by \in {"timer", "check"} : OkFlush([NoFlush EXCEPT !.by = by], sv, sn, ov)
           /\ OkContext(NewCtx, sv, sn, ov)
           /\ OkCheck(NoCheck, sv, ov) /\ OkCheck(AskState, sv, ov)
           /\ OkCheck([NoCheck EXCEPT !.pc = "flush"], sv, ov)
           /\ OkCheck([Starting EXCEPT !.pc = "flush"], sv, ov)
           /\ OkCheck(Starting, sv, ov)
           /\ \A starting \in BOOLEAN :
                 OkCheck([NoCheck EXCEPT !.pc = "switches", !.starting = starting,
                                         !.items = {Switches}], sv, ov)
<1>1. ASSUME NEW i \in Items
      PROVE  sv[i] \in Row /\ Noted(i, 0, sv, sn) /\ TrueRow(i, NoRow, sv)
  BY DEF OkServer, Noted, TrueRow, NoRow, Row
<1>2. NoRow \in Row /\ None(NoRow) \in [Items -> Row]
  BY DEF NoRow, Row, None, Content
<1>3. NoFlush \in Flush /\ \A by \in {"timer", "check"} : [NoFlush EXCEPT !.by = by] \in Flush
  BY <1>2 DEF NoFlush, Flush, None, Phases, Content
<1>4. NoCheck \in Check /\ AskState \in Check /\ Starting \in Check
      /\ [NoCheck EXCEPT !.pc = "flush"] \in Check /\ [Starting EXCEPT !.pc = "flush"] \in Check
      /\ \A starting \in BOOLEAN :
            [NoCheck EXCEPT !.pc = "switches", !.starting = starting, !.items = {Switches}] \in Check
  BY <1>2 DEF NoCheck, AskState, Starting, Check, None, Phases, Items
<1>5. NewCtx \in Context
  BY DEF NewCtx, Context, None, Content
<1>6. OkFlush(NoFlush, sv, sn, ov)
      /\ \A by \in {"timer", "check"} : OkFlush([NoFlush EXCEPT !.by = by], sv, sn, ov)
  BY <1>1, <1>3 DEF OkFlush, OkWrite, Safe, NoFlush, None, Saves
<1>7. OkContext(NewCtx, sv, sn, ov)
  BY <1>1, <1>5 DEF OkContext, NewCtx, None
<1>8. /\ OkCheck(NoCheck, sv, ov) /\ OkCheck(AskState, sv, ov) /\ OkCheck(Starting, sv, ov)
      /\ OkCheck([NoCheck EXCEPT !.pc = "flush"], sv, ov)
      /\ OkCheck([Starting EXCEPT !.pc = "flush"], sv, ov)
      /\ \A starting \in BOOLEAN :
            OkCheck([NoCheck EXCEPT !.pc = "switches", !.starting = starting,
                                    !.items = {Switches}], sv, ov)
  BY <1>1, <1>4 DEF OkCheck, NoCheck, AskState, Starting, None
<1> QED BY <1>6, <1>7, <1>8

(* A request whose versions are noted and whose content has been seen.     *)
LEMMA RequestIsOk ==
    ASSUME NEW sv, NEW sn, NEW ov, OkServer(sv), NEW f, OkFlush(f, sv, sn, ov),
           NEW pc \in {"clear", "whole", "pullWhole", "cell", "pullCell",
                       "switches", "pullSwitches", "state"},
           NEW I \in SUBSET Items, NEW base \in [Items -> Nat], NEW body,
           \A i \in I : body[i] \in Content /\ body[i] \subseteq sn,
           \A i \in I : Firm(i, sv, ov) => Noted(i, base[i], sv, sn),
           pc = "clear" => I = {}
    PROVE  OkFlush(Request(f, pc, I, base, body), sv, sn, ov)
<1> DEFINE b == [i \in Items |-> IF i \in I THEN base[i] ELSE 0]
           d == [i \in Items |-> IF i \in I THEN body[i] ELSE {}]
           g == Request(f, pc, I, base, body)
<1>1. b \in [Items -> Nat] /\ d \in [Items -> Content] /\ \A i \in Items : d[i] \subseteq sn
  BY DEF Content
<1>2. ASSUME NEW i \in Items, Firm(i, sv, ov) PROVE Noted(i, b[i], sv, sn)
  <2>1. Noted(i, 0, sv, sn)
    BY DEF OkServer, Noted, Row
  <2> QED BY <1>2, <2>1
<1> HIDE DEF b, d
<1>3. /\ g \in Flush /\ g.pc = pc /\ g.phase = "sent" /\ g.items = I /\ g.base = b /\ g.body = d
      /\ g.kept = f.kept /\ g.rows = None(NoRow)
  <2>1. g = [f EXCEPT !.pc = pc, !.phase = "sent", !.items = I, !.base = b, !.body = d,
                      !.rows = None(NoRow)]
    BY DEF Request, b, d
  <2>2. None(NoRow) \in [Items -> Row]
    BY DEF None, NoRow, Row, Content
  <2> HIDE DEF g
  <2> QED BY <1>1, <2>1, <2>2 DEF OkFlush, OkWrite, Flush, Phases
<1> HIDE DEF g
<1>5. ASSUME NEW i \in Items PROVE TrueRow(i, None(NoRow)[i], sv)
  <2>1. None(NoRow)[i] = NoRow
    BY DEF None
  <2>2. TrueRow(i, NoRow, sv)
    BY DEF NoRow, TrueRow, OkServer, Row
  <2> QED BY <2>1, <2>2
<1>4. OkFlush(g, sv, sn, ov)
  BY <1>1, <1>2, <1>3, <1>5 DEF OkFlush, OkWrite, Safe
<1> QED BY <1>4 DEF g

(* What a flush and a context are together.                                *)
OkPair(r, sv, sn, ov) == OkFlush(r.flush, sv, sn, ov) /\ OkContext(r.ctx, sv, sn, ov)

(* The loop over the cells leaves a flush and a context in order,          *)
LEMMA CellsAreOk ==
    ASSUME NEW sv, NEW sn, NEW ov, OkServer(sv), NEW f, OkFlush(f, sv, sn, ov),
           NEW c, OkContext(c, sv, sn, ov), NEW p, OkPlan(p, sn), NEW S \in SUBSET Sheets
    PROVE  \A r \in Cells(c, f, S, p) : OkPair(r, sv, sn, ov)
<1>0. /\ c \in Context /\ c.versions \in [Items -> Nat] /\ Switches \in Items
      /\ \A s \in Sheets : s \in Items
      /\ p[Switches] \in Content /\ p[Switches] \subseteq sn
  BY DEF OkContext, OkPlan, Context, Items
<1>1. ASSUME NEW s \in S
      PROVE  OkPair(Pair(CellNext(c, f, s, S \ {s}), [c EXCEPT !.cells[s] = {}]), sv, sn, ov)
  <2> DEFINE entry == IF c.cells[s] # {} THEN c.cells[s] ELSE f.kept[s]
             body  == [i \in Items |-> entry]
             g     == Request(f, "cell", {s}, c.versions, body)
             h     == [g EXCEPT !.todo = S \ {s}]
             e     == [c EXCEPT !.cells[s] = {}]
  <2>1. entry \in Content /\ entry \subseteq sn
    BY <1>0 DEF OkFlush, OkWrite, Safe, OkContext, Flush, Context
  <2>2. \A i \in {s} : body[i] \in Content /\ body[i] \subseteq sn
    BY <1>0, <2>1
  <2>3. {s} \in SUBSET Items /\ (\A i \in {s} : Firm(i, sv, ov) => Noted(i, c.versions[i], sv, sn))
    BY <1>0 DEF OkContext
  <2> HIDE DEF body
  <2>4. OkFlush(g, sv, sn, ov)
    BY <1>0, <2>2, <2>3, RequestIsOk
  <2>5. OkFlush(h, sv, sn, ov)
    <3> HIDE DEF g
    <3>1. g \in Flush
      BY <2>4 DEF OkFlush, OkWrite, Safe
    <3>2. /\ h \in Flush /\ h.pc = g.pc /\ h.phase = g.phase /\ h.items = g.items
          /\ h.base = g.base /\ h.body = g.body /\ h.kept = g.kept /\ h.rows = g.rows
      BY <3>1 DEF Flush
    <3> HIDE DEF h
    <3> QED BY <2>4, <3>2 DEF OkFlush, OkWrite, Safe
  <2>6. OkContext(e, sv, sn, ov)
    <3>1. /\ e \in Context /\ e.versions = c.versions
          /\ \A t \in Sheets : e.cells[t] = IF t = s THEN {} ELSE c.cells[t]
      BY <1>0 DEF Context, Content
    <3> HIDE DEF e
    <3> QED BY <3>1 DEF OkContext
  <2>7. CellNext(c, f, s, S \ {s}) = h
    BY DEF CellNext, body
  <2> HIDE DEF e, h
  <2> QED BY <2>5, <2>6, <2>7 DEF OkPair, Pair, e
<1>2. OkPair(Pair(SwitchesNext(c, f, p), c), sv, sn, ov)
  <2>1. OkFlush(StateNext(f), sv, sn, ov)
    <3>1. None(0) \in [Items -> Nat]
      BY DEF None
    <3> QED BY <3>1, RequestIsOk DEF StateNext
  <2>2. CASE c.switchesDirty
    <3>1. OkFlush(Request(f, "switches", {Switches}, c.versions, p), sv, sn, ov)
      BY <1>0, RequestIsOk DEF OkContext
    <3> QED BY <2>2, <3>1 DEF SwitchesNext, OkPair, Pair
  <2>3. CASE ~c.switchesDirty
    BY <2>1, <2>3 DEF SwitchesNext, OkPair, Pair
  <2> QED BY <2>2, <2>3
<1> QED BY <1>1, <1>2 DEF Cells

(* and so does what comes before it: the whole sheets are sent,            *)
LEMMA AfterWholeIsOk ==
    ASSUME NEW sv, NEW sn, NEW ov, OkServer(sv), NEW f, OkFlush(f, sv, sn, ov),
           NEW c, OkContext(c, sv, sn, ov), NEW p, OkPlan(p, sn)
    PROVE  \A r \in AfterWhole(c, f, p) : OkPair(r, sv, sn, ov)
<1> DEFINE g == [f EXCEPT !.kept = c.cells]
<1>1. c.cells \in [Sheets -> Content] /\ f \in Flush
  BY DEF OkContext, Context, OkFlush, OkWrite, Safe
<1>2. /\ g \in Flush /\ g.pc = f.pc /\ g.phase = f.phase /\ g.items = f.items
      /\ g.base = f.base /\ g.body = f.body /\ g.kept = c.cells /\ g.rows = f.rows
  BY <1>1 DEF Flush
<1> HIDE DEF g
<1>3. OkFlush(g, sv, sn, ov)
  BY <1>2 DEF OkFlush, OkWrite, Safe, OkContext
<1>4. \A S \in SUBSET Sheets : \A r \in Cells(c, g, S, p) : OkPair(r, sv, sn, ov)
  BY <1>3, CellsAreOk
<1> QED BY <1>4 DEF AfterWhole, g

(* the clearing is done,                                                   *)
LEMMA AfterClearIsOk ==
    ASSUME NEW sv, NEW sn, NEW ov, OkServer(sv), NEW f, OkFlush(f, sv, sn, ov),
           NEW c, OkContext(c, sv, sn, ov), NEW p, OkPlan(p, sn)
    PROVE  \A r \in AfterClear(c, f, p) : OkPair(r, sv, sn, ov)
<1> DEFINE W == {s \in c.dirty : p[s] # Nothing}
<1>1. /\ W \in SUBSET Items /\ c.versions \in [Items -> Nat]
      /\ \A i \in W : p[i] \in Content /\ p[i] \subseteq sn
  BY DEF OkContext, Context, OkPlan, Items
<1>2. OkFlush(Request(f, "whole", W, c.versions, p), sv, sn, ov)
  <2> HIDE DEF W
  <2> QED BY <1>1, RequestIsOk DEF OkContext
<1>3. \A r \in AfterWhole(c, f, p) : OkPair(r, sv, sn, ov)
  BY AfterWholeIsOk
<1> QED BY <1>2, <1>3 DEF AfterClear, OkPair, Pair

(* the flush begins.                                                       *)
LEMMA BegunIsOk ==
    ASSUME NEW sv, NEW sn, NEW ov, OkServer(sv), NEW by \in {"timer", "check"},
           NEW c, OkContext(c, sv, sn, ov), NEW p, OkPlan(p, sn)
    PROVE  \A r \in Begun(c, by, p) : OkPair(r, sv, sn, ov)
<1> DEFINE f == [NoFlush EXCEPT !.by = by]
<1>1. OkFlush(f, sv, sn, ov)
  BY FreshIsOk
<1> HIDE DEF f
<1>2. \A r \in AfterClear(c, f, p) : OkPair(r, sv, sn, ov)
  BY <1>1, AfterClearIsOk
<1>3. CASE c.clear
  <2>2. None(0) \in [Items -> Nat]
    BY DEF None
  <2>3. OkFlush(Request(f, "clear", {}, None(0), None({})), sv, sn, ov)
    BY <1>1, <2>2, RequestIsOk
  <2> QED BY <1>3, <2>3 DEF Begun, OkPair, Pair, f
<1>4. CASE ~c.clear
  BY <1>2, <1>4 DEF Begun, f
<1> QED BY <1>3, <1>4

(* Taking over rows the server has had, with what they hold seen by now.   *)
LEMMA TakenIsOk ==
    ASSUME NEW sv, NEW sn, NEW ov, OkServer(sv), NEW c, OkContext(c, sv, sn, ov),
           NEW I \in SUBSET Items, NEW removed, NEW rows \in [Items -> Row],
           \A i \in Items : Firm(i, sv, ov) => TrueRow(i, rows[i], sv)
    PROVE  OkContext(Taken(c, I, removed, rows), sv, sn \cup Contents(I, rows), ov)
<1> DEFINE sn2 == sn \cup Contents(I, rows)
           v == [i \in Items |-> IF i \in removed THEN 0
                                 ELSE IF i \in I THEN rows[i].version ELSE c.versions[i]]
           e == Taken(c, I, removed, rows)
<1>1. c \in Context /\ c.versions \in [Items -> Nat] /\ v \in [Items -> Nat]
  BY DEF OkContext, Context, Row
<1>2. /\ e \in Context /\ e.versions = v /\ e.cells = c.cells
  <2>1. e = [c EXCEPT !.versions = v]
    BY DEF Taken
  <2> HIDE DEF e, v
  <2> QED BY <1>1, <2>1 DEF Context
<1>3. ASSUME NEW i \in Items, Firm(i, sv, ov) PROVE Noted(i, v[i], sv, sn2)
  <2>1. sv[i] \in Row /\ (sv[i].version = 0 => sv[i].content = {})
    BY DEF OkServer
  <2>2. CASE i \in removed
    BY <2>1, <2>2 DEF Noted, Row
  <2>3. CASE i \notin removed /\ i \in I
    <3>1. rows[i].content \subseteq sn2 /\ v[i] = rows[i].version
      BY <2>3 DEF Contents
    <3>2. TrueRow(i, rows[i], sv)
      BY <1>3
    <3> HIDE DEF sn2, v
    <3> QED BY <3>1, <3>2 DEF TrueRow, Noted
  <2>4. CASE i \notin removed /\ i \notin I
    <3>1. Noted(i, c.versions[i], sv, sn) /\ v[i] = c.versions[i]
      BY <1>3, <2>4 DEF OkContext
    <3> HIDE DEF v
    <3> QED BY <3>1 DEF Noted
  <2> QED BY <2>2, <2>3, <2>4
<1> HIDE DEF e, v
<1>4. OkContext(e, sv, sn2, ov)
  BY <1>2, <1>3 DEF OkContext
<1> QED BY <1>4 DEF e

(* A plan that shows rows holds what has been seen by then.                *)
LEMMA ShownIsOk ==
    ASSUME OkPlan(plan, seen), NEW I \in SUBSET Items, NEW removed \in SUBSET Sheets,
           NEW rows \in [Items -> Row]
    PROVE  OkPlan(Shown(I, removed, rows), seen \cup Contents(I, rows))
<1> DEFINE p == Shown(I, removed, rows)
<1>1. \A i \in I : rows[i].content \in Content /\ rows[i].content \subseteq Contents(I, rows)
  BY DEF Contents, Row
<1>2. Switches \in Items /\ Switches \notin removed
  BY ConstantsAssumption DEF Items
<1>3. \A i \in Items : p[i] = IF i \in removed THEN Nothing
                              ELSE IF i \in I THEN rows[i].content ELSE plan[i]
  BY DEF Shown
<1>4. p \in [Items -> Content \cup {Nothing}]
  BY <1>1 DEF Shown, OkPlan
<1> HIDE DEF p
<1>5. p[Switches] \in Content /\ p[Switches] \subseteq seen \cup Contents(I, rows)
  BY <1>1, <1>2, <1>3 DEF OkPlan
<1>6. \A i \in Items : p[i] # Nothing => p[i] \subseteq seen \cup Contents(I, rows)
  BY <1>1, <1>3 DEF OkPlan
<1>7. OkPlan(p, seen \cup Contents(I, rows))
  BY <1>4, <1>5, <1>6 DEF OkPlan
<1> QED BY <1>7 DEF p

(* The end of a flush leaves nothing under way of it.                      *)
LEMMA EndedIsOk ==
    ASSUME NEW sv, NEW sn, NEW ov, OkServer(sv), OkCheck(check, sv, ov),
           NEW c, OkContext(c, sv, sn, ov), flush \in Flush, Ended(c)
    PROVE  OkFlush(flush', sv, sn, ov) /\ OkContext(ctx', sv, sn, ov) /\ OkCheck(check', sv, ov)
<1>1. OkFlush(flush', sv, sn, ov)
  BY FreshIsOk DEF Ended
<1>2. OkCheck(check', sv, ov)
  BY FreshIsOk DEF Ended
<1>3. OkContext(ctx', sv, sn, ov)
  <2> DEFINE polls == c.polls \/ (flush.by = "check" /\ check.starting)
             e == [c EXCEPT !.again = FALSE, !.polls = polls]
  <2>1. c \in Context /\ check \in Check
    BY DEF OkContext, OkCheck
  <2>2. e \in Context /\ e.versions = c.versions /\ e.cells = c.cells
    <3>1. polls \in BOOLEAN
      BY <2>1 DEF Context, Check
    <3> HIDE DEF polls
    <3> QED BY <2>1, <3>1 DEF Context
  <2>3. ctx' = e
    BY DEF Ended
  <2> HIDE DEF e
  <2> QED BY <2>2, <2>3 DEF OkContext
<1> QED BY <1>1, <1>2, <1>3

(* A check that goes on to the switches.                                   *)
LEMMA SwitchesCheckedIsOk ==
    ASSUME NEW sv, NEW sn, NEW ov, OkServer(sv), OkFlush(flush, sv, sn, ov),
           OkCheck(check, sv, ov), NEW c, OkContext(c, sv, sn, ov),
           NEW p, OkPlan(p, sn), SwitchesChecked(c, p)
    PROVE  OkFlush(flush', sv, sn, ov) /\ OkContext(ctx', sv, sn, ov) /\ OkCheck(check', sv, ov)
<1> DEFINE d == [c EXCEPT !.switchesDirty = TRUE]
           asks == [NoCheck EXCEPT !.pc = "switches", !.starting = check.starting,
                                   !.items = {Switches}]
           waits == [Starting EXCEPT !.pc = "flush"]
<1>1. c \in Context /\ check \in Check
  BY DEF OkContext, OkCheck
<1>2. d \in Context /\ d.versions = c.versions /\ d.cells = c.cells
  BY <1>1 DEF Context
<1>6. OkCheck(asks, sv, ov) /\ OkCheck(waits, sv, ov)
  <2>1. check.starting \in BOOLEAN
    BY <1>1 DEF Check
  <2> QED BY <2>1, FreshIsOk
<1>4. /\ (check' = asks /\ ctx' = c /\ UNCHANGED flush)
         \/ (Become(Begun(d, "check", p)) /\ check' = waits)
         \/ Checked(c) \/ Checked(d)
  BY DEF SwitchesChecked
<1> HIDE DEF d, asks, waits
<1>5. OkContext(d, sv, sn, ov)
  BY <1>2 DEF OkContext
<1>7. ASSUME NEW e, OkContext(e, sv, sn, ov), Checked(e)
      PROVE  OkFlush(flush', sv, sn, ov) /\ OkContext(ctx', sv, sn, ov) /\ OkCheck(check', sv, ov)
  <2>1. OkContext([e EXCEPT !.polls = TRUE], sv, sn, ov)
    <3> DEFINE g == [e EXCEPT !.polls = TRUE]
    <3>1. g \in Context /\ g.versions = e.versions /\ g.cells = e.cells
      BY <1>7 DEF OkContext, Context
    <3> HIDE DEF g
    <3>2. OkContext(g, sv, sn, ov)
      BY <1>7, <3>1 DEF OkContext
    <3> QED BY <3>2 DEF g
  <2> QED BY <1>7, <2>1, FreshIsOk DEF Checked
<1>8. CASE Become(Begun(d, "check", p)) /\ check' = waits
  <2>1. \A r \in Begun(d, "check", p) : OkPair(r, sv, sn, ov)
    BY <1>5, BegunIsOk
  <2> QED BY <1>6, <1>8, <2>1 DEF Become, OkPair
<1> QED BY <1>4, <1>5, <1>6, <1>7, <1>8

-----------------------------------------------------------------------------
(* Every step keeps the invariant.                                         *)

(* What is spent of a bound is a number.                                   *)
LEMMA SpendIsOk ==
    ASSUME used \in [edits : Nat, others : Nat, faults : Nat],
           NEW what \in {"edits", "others", "faults"}, Spend(what)
    PROVE  used' \in [edits : Nat, others : Nat, faults : Nat]
BY DEF Spend

(* An edit is a number of its own, seen at once.                           *)
LEMMA CountedIsOk ==
    ASSUME CapacityInv, Counted
    PROVE  /\ Token \in Nat /\ {Token} \in Content /\ seen' = seen \cup {Token}
           /\ seen \in Content /\ seen' \in Content /\ seen \subseteq seen'
           /\ {Token} \subseteq seen'
<1>1. used.edits \in Nat /\ seen \in Content
  BY DEF CapacityInv
<1>2. Token \in Nat /\ seen' = seen \cup {Token}
  BY <1>1 DEF Counted, Token
<1> HIDE DEF Token
<1> QED BY <1>1, <1>2 DEF Content

(* A context and a plan that a user's change leaves are in order.          *)
LEMMA EditStep ==
    ASSUME CapacityInv, Counted, UNCHANGED <<server, flush, check, away, overlapped>>,
           OkPlan(plan', seen'), OkContext(ctx', server, seen', overlapped)
    PROVE  CapacityInv'
<1>1. used' \in [edits : Nat, others : Nat, faults : Nat]
  BY SpendIsOk DEF Counted, CapacityInv
<1>2. seen' \in Content /\ seen \subseteq seen' /\ 0 \in seen
  BY CountedIsOk DEF CapacityInv
<1>3. OkServer(server) /\ Later(server, server, overlapped, overlapped)
  BY LaterSame DEF CapacityInv
<1>4. OkFlush(flush, server, seen', overlapped) /\ OkWrite(away, server, seen', overlapped)
  BY <1>2, <1>3, FlushStays, WriteStays DEF CapacityInv
<1> QED BY <1>1, <1>2, <1>3, <1>4 DEF CapacityInv

(* The context of a user's change: only what waits differs.                *)
LEMMA WaitingIsOk ==
    ASSUME NEW sv, NEW sn, NEW ov, NEW c, OkContext(c, sv, sn, ov),
           NEW e \in Context, e.versions = c.versions,
           \A s \in Sheets : e.cells[s] \subseteq sn
    PROVE  OkContext(e, sv, sn, ov) /\ OkContext(Scheduled(e), sv, sn, ov)
<1> DEFINE g == Scheduled(e)
<1>1. /\ g \in Context /\ g.versions = e.versions /\ g.cells = e.cells
  BY DEF Scheduled, Context
<1> HIDE DEF g
<1>2. OkContext(g, sv, sn, ov)
  BY <1>1 DEF OkContext
<1>3. OkContext(e, sv, sn, ov)
  BY DEF OkContext
<1> QED BY <1>2, <1>3 DEF g

(* The user's changes keep the invariant.                                  *)
LEMMA EditsKeep ==
    ASSUME CapacityInv, Edits
    PROVE  CapacityInv'
<1>1. Counted
  BY Zenon DEF Edits, Import, EditCell, SetSwitches, ClearData
<1>2. /\ Token \in Nat /\ seen \in Content /\ seen' = seen \cup {Token}
      /\ {Token} \in Content /\ {Token} \subseteq seen'
  BY <1>1, CountedIsOk
<1>3. OkPlan(plan, seen) /\ OkPlan(plan, seen')
  BY <1>2, PlanStays DEF CapacityInv
<1>4. OkContext(ctx, server, seen', overlapped) /\ ctx \in Context
  <2>1. OkServer(server) /\ Later(server, server, overlapped, overlapped)
    BY LaterSame DEF CapacityInv
  <2> QED BY <1>2, <2>1, ContextStays DEF CapacityInv, OkContext
<1> HIDE DEF Token
<1>5. ASSUME NEW S \in Workbooks, NEW broken \in SUBSET (S \cap Refusable), Import(S, broken)
      PROVE  CapacityInv'
  <2> USE ConstantsAssumption
  <2> DEFINE e == [ctx EXCEPT !.dirty = @ \cup S,
                              !.cells = [s \in Sheets |-> IF s \in S THEN {} ELSE @[s]]]
  <2>1. /\ e \in Context /\ e.versions = ctx.versions
        /\ \A s \in Sheets : e.cells[s] \subseteq ctx.cells[s]
    BY <1>4, Zenon DEF Context, Content
  <2>2. ctx' = Scheduled(e)
    BY <1>5, Zenon DEF Import
  <2> HIDE DEF e
  <2>3. OkContext(ctx', server, seen', overlapped)
    <3>1. \A s \in Sheets : e.cells[s] \subseteq seen'
      BY <1>4, <2>1 DEF OkContext
    <3> QED BY <1>4, <2>1, <2>2, <3>1, WaitingIsOk, Zenon
  <2>4. OkPlan(plan', seen')
    <3>1. Switches \notin S /\ broken \subseteq S
      BY ConstantsAssumption
    <3>2. {Token, 0} \in Content /\ {Token, 0} \subseteq seen'
      BY <1>2 DEF CapacityInv, Content
    <3> QED BY <1>2, <1>3, <1>5, <3>1, <3>2 DEF Import, OkPlan, Items
  <2> QED BY <1>1, <1>5, <2>3, <2>4, EditStep DEF Import, CapacityInv
<1>6. ASSUME NEW s \in Sheets, EditCell(s) PROVE CapacityInv'
  <2> DEFINE e == [ctx EXCEPT !.cells[s] = @ \cup {Token}]
  <2>1. /\ e \in Context /\ e.versions = ctx.versions
        /\ \A t \in Sheets : e.cells[t] \subseteq ctx.cells[t] \cup {Token}
    BY <1>2, <1>4 DEF Context, Content
  <2>2. ctx' = Scheduled(ctx) \/ ctx' = Scheduled(e)
    BY <1>6 DEF EditCell
  <2> HIDE DEF e
  <2>3. OkContext(ctx', server, seen', overlapped)
    <3>1. OkContext(Scheduled(e), server, seen', overlapped)
      <4>1. \A t \in Sheets : e.cells[t] \subseteq seen'
        BY <1>2, <1>4, <2>1 DEF OkContext
      <4> QED BY <1>4, <2>1, <4>1, WaitingIsOk, Zenon
    <3>2. OkContext(Scheduled(ctx), server, seen', overlapped)
      BY <1>4, WaitingIsOk DEF OkContext
    <3> QED BY <2>2, <3>1, <3>2
  <2>4. OkPlan(plan', seen')
    <3>1. Switches # s /\ s \in Items /\ plan[s] \in Content /\ plan[s] \subseteq seen'
      BY <1>3, <1>6, ConstantsAssumption DEF EditCell, OkPlan, Items
    <3>2. plan[s] \cup {Token} \in Content
      BY <1>2, <3>1 DEF Content
    <3> QED BY <1>2, <1>3, <1>6, <3>1, <3>2 DEF EditCell, OkPlan
  <2> QED BY <1>1, <1>6, <2>3, <2>4, EditStep DEF EditCell, CapacityInv
<1>7. ASSUME NEW broken \in SUBSET ({Switches} \cap Refusable), SetSwitches(broken)
      PROVE  CapacityInv'
  <2> DEFINE e == [ctx EXCEPT !.switchesDirty = TRUE]
  <2>1. /\ e \in Context /\ e.versions = ctx.versions
        /\ e.cells = ctx.cells
    BY <1>4 DEF Context
  <2>2. ctx' = Scheduled(e)
    BY <1>7 DEF SetSwitches
  <2> HIDE DEF e
  <2>3. OkContext(ctx', server, seen', overlapped)
    <3>1. \A s \in Sheets : e.cells[s] \subseteq seen'
      BY <1>4, <2>1 DEF OkContext
    <3> QED BY <1>4, <2>1, <2>2, <3>1, WaitingIsOk, Zenon
  <2>4. OkPlan(plan', seen')
    <3> DEFINE new == (plan[Switches] \ {0}) \cup {Token} \cup {0 : i \in broken}
    <3>1. new \in Content /\ new \subseteq seen' /\ Switches \in Items
      BY <1>2, <1>3 DEF Content, OkPlan, Items, CapacityInv
    <3>2. plan' = [plan EXCEPT ![Switches] = new]
      BY <1>7 DEF SetSwitches
    <3> HIDE DEF new
    <3> QED BY <1>2, <1>3, <3>1, <3>2 DEF OkPlan
  <2> QED BY <1>1, <1>7, <2>3, <2>4, EditStep DEF SetSwitches, CapacityInv
<1>8. ASSUME ClearData PROVE CapacityInv'
  <2> DEFINE e == [ctx EXCEPT !.clear = TRUE, !.dirty = {}, !.cells = [s \in Sheets |-> {}]]
  <2>1. /\ e \in Context /\ e.versions = ctx.versions /\ \A s \in Sheets : e.cells[s] = {}
    BY <1>4 DEF Context, Content
  <2>2. ctx' = Scheduled(e)
    BY <1>8 DEF ClearData
  <2> HIDE DEF e
  <2>3. OkContext(ctx', server, seen', overlapped)
    <3>1. \A s \in Sheets : e.cells[s] \subseteq seen'
      BY <2>1
    <3> QED BY <1>4, <2>1, <2>2, <3>1, WaitingIsOk, Zenon
  <2>5. OkPlan(plan', seen')
    <3>1. Switches \notin Sheets
      BY ConstantsAssumption
    <3> QED BY <1>3, <1>8, <3>1 DEF ClearData, OkPlan, Items
  <2> QED BY <1>1, <1>8, <2>3, <2>5, EditStep DEF ClearData
<1> QED BY <1>5, <1>6, <1>7, <1>8 DEF Edits

(* A step of the page that changes neither the server nor a history.       *)
LEMMA PageKeeps ==
    ASSUME CapacityInv, UNCHANGED <<server, away, overlapped, used>>,
           seen' \in Content, seen \subseteq seen', OkPlan(plan', seen'),
           OkContext(ctx', server, seen', overlapped), OkFlush(flush', server, seen', overlapped),
           OkCheck(check', server, overlapped)
    PROVE  CapacityInv'
<1>1. OkWrite(away, server, seen', overlapped)
  BY WriteStays, LaterSame DEF CapacityInv
<1> QED BY <1>1 DEF CapacityInv

(* What the invariant says of the page's parts, with more edits seen too.  *)
LEMMA SeenMore ==
    ASSUME CapacityInv, NEW sn, seen \subseteq sn
    PROVE  /\ OkServer(server) /\ OkPlan(plan, sn) /\ OkContext(ctx, server, sn, overlapped)
           /\ OkFlush(flush, server, sn, overlapped) /\ OkCheck(check, server, overlapped)
           /\ ctx \in Context /\ flush \in Flush /\ check \in Check
<1>1. OkServer(server) /\ Later(server, server, overlapped, overlapped)
  BY LaterSame DEF CapacityInv
<1>2. OkContext(ctx, server, sn, overlapped) /\ OkFlush(flush, server, sn, overlapped)
  BY <1>1, ContextStays, FlushStays DEF CapacityInv
<1>3. OkPlan(plan, sn) /\ OkCheck(check, server, overlapped)
  BY PlanStays DEF CapacityInv
<1> QED BY <1>1, <1>2, <1>3 DEF OkContext, OkFlush, OkWrite, Safe, OkCheck

(* A flush or a check goes on with what it can become.                     *)
LEMMA BecomeKeeps ==
    ASSUME CapacityInv, NEW pairs, Become(pairs),
           \A r \in pairs : OkPair(r, server, seen, overlapped),
           OkCheck(check', server, overlapped), UNCHANGED <<server, away, overlapped, plan, seen, used>>
    PROVE  CapacityInv'
<1>1. OkFlush(flush', server, seen, overlapped) /\ OkContext(ctx', server, seen, overlapped)
  BY DEF Become, OkPair
<1>2. seen \in Content /\ OkPlan(plan, seen)
  BY DEF CapacityInv
<1> QED BY <1>1, <1>2, PageKeeps

(* The save timer,                                                         *)
LEMMA TimerFiresKeeps ==
    ASSUME CapacityInv, TimerFires
    PROVE  CapacityInv'
<1> DEFINE c == [ctx EXCEPT !.timer = FALSE]
<1>0. /\ OkServer(server) /\ OkPlan(plan, seen) /\ OkContext(ctx, server, seen, overlapped)
      /\ OkFlush(flush, server, seen, overlapped) /\ OkCheck(check, server, overlapped)
      /\ ctx \in Context
  BY SeenMore
<1>1. c \in Context /\ c.versions = ctx.versions /\ c.cells = ctx.cells
  BY <1>0 DEF Context
<1>2. /\ Become(IF flush.pc = "off" THEN Begun(c, "timer", plan) ELSE {Pair(flush, c)})
      /\ UNCHANGED <<server, away, overlapped, plan, check, seen, used>>
  BY Zenon DEF TimerFires
<1> HIDE DEF c
<1>3. OkContext(c, server, seen, overlapped)
  BY <1>0, <1>1 DEF OkContext
<1>4. \A r \in Begun(c, "timer", plan) : OkPair(r, server, seen, overlapped)
  BY <1>0, <1>3, BegunIsOk
<1>5. OkPair(Pair(flush, c), server, seen, overlapped)
  BY <1>0, <1>3 DEF OkPair, Pair
<1>6. \A r \in IF flush.pc = "off" THEN Begun(c, "timer", plan) ELSE {Pair(flush, c)} :
         OkPair(r, server, seen, overlapped)
  BY <1>4, <1>5
<1> QED BY <1>0, <1>2, <1>6, BecomeKeeps

(* The versions an answer carries are noted with what they hold.           *)
LEMMA LearntIsOk ==
    ASSUME CapacityInv, flush.pc \in Saves, flush.phase = "done"
    PROVE  OkContext(Learnt(ctx), server, seen, overlapped)
<1> DEFINE v == [i \in Items |-> IF i \in flush.items THEN flush.rows[i].version
                                 ELSE ctx.versions[i]]
           e == Learnt(ctx)
<1>0. /\ OkServer(server) /\ OkContext(ctx, server, seen, overlapped)
      /\ OkFlush(flush, server, seen, overlapped) /\ ctx \in Context /\ flush \in Flush
  BY SeenMore
<1>1. v \in [Items -> Nat]
  BY <1>0 DEF Context, Flush, Row
<1>2. e \in Context /\ e.versions = v /\ e.cells = ctx.cells
  <2>1. e = [ctx EXCEPT !.versions = v]
    BY DEF Learnt
  <2> HIDE DEF e, v
  <2> QED BY <1>0, <1>1, <2>1 DEF Context
<1>3. ASSUME NEW i \in Items, Firm(i, server, overlapped)
      PROVE  Noted(i, v[i], server, seen)
  <2>1. CASE i \in flush.items
    <3>1. TrueRow(i, flush.rows[i], server) /\ flush.rows[i].content \subseteq seen
      <4>1. /\ TrueRow(i, flush.rows[i], server) /\ Safe(flush, i, seen)
            /\ flush.body[i] \subseteq seen
        BY <1>0, <1>3 DEF OkFlush, OkWrite
      <4> QED BY <2>1, <4>1 DEF Safe
    <3>2. v[i] = flush.rows[i].version
      BY <2>1
    <3> HIDE DEF v
    <3> QED BY <3>1, <3>2 DEF TrueRow, Noted
  <2>2. CASE i \notin flush.items
    BY <1>0, <1>3, <2>2 DEF OkContext
  <2> QED BY <2>1, <2>2
<1> HIDE DEF e, v
<1>4. OkContext(e, server, seen, overlapped)
  BY <1>0, <1>2, <1>3 DEF OkContext
<1> QED BY <1>4 DEF e

(* and each answer of a flush keep the invariant: a clearing,              *)
LEMMA ClearingKeeps ==
    ASSUME CapacityInv, Clearing
    PROVE  CapacityInv'
<1> DEFINE v == [i \in Items |-> IF i \in Sheets THEN 0 ELSE ctx.versions[i]]
           e == [ctx EXCEPT !.clear = FALSE, !.versions = v]
<1>0. /\ OkServer(server) /\ OkPlan(plan, seen) /\ OkContext(ctx, server, seen, overlapped)
      /\ OkFlush(flush, server, seen, overlapped) /\ OkCheck(check, server, overlapped)
      /\ ctx \in Context
  BY SeenMore
<1>1. v \in [Items -> Nat]
  BY <1>0 DEF Context
<1>2. /\ Become(AfterClear(e, flush, plan))
      /\ UNCHANGED <<server, away, overlapped, plan, check, seen, used>> /\ flush.pc = "clear"
  BY DEF Clearing
<1> HIDE DEF v
<1>3. e \in Context /\ e.versions = v /\ e.cells = ctx.cells
  BY <1>0, <1>1 DEF Context
<1>4. ASSUME NEW i \in Items, Firm(i, server, overlapped) PROVE Noted(i, v[i], server, seen)
  <2>1. CASE i \in Sheets
    BY <1>0, <2>1 DEF OkServer, Noted, Row, v
  <2>2. CASE i \notin Sheets
    BY <1>0, <1>4, <2>2 DEF OkContext, v
  <2> QED BY <2>1, <2>2
<1> HIDE DEF e
<1>5. OkContext(e, server, seen, overlapped)
  BY <1>0, <1>3, <1>4 DEF OkContext
<1>6. \A r \in AfterClear(e, flush, plan) : OkPair(r, server, seen, overlapped)
  BY <1>0, <1>5, AfterClearIsOk
<1> QED BY <1>0, <1>2, <1>6, BecomeKeeps

(* whole sheets,                                                           *)
LEMMA WholeSentKeeps ==
    ASSUME CapacityInv, WholeSent
    PROVE  CapacityInv'
<1> DEFINE c == Learnt(ctx)
           e == [c EXCEPT !.dirty = @ \ flush.items,
                          !.cells = [s \in Sheets |-> IF s \in flush.items THEN {} ELSE @[s]]]
<1>0. /\ OkServer(server) /\ OkPlan(plan, seen) /\ OkFlush(flush, server, seen, overlapped)
      /\ OkCheck(check, server, overlapped)
  BY SeenMore
<1>1. flush.pc \in Saves /\ flush.phase = "done"
  BY DEF WholeSent, Saves
<1>2. Become(AfterWhole(e, flush, plan)) /\ UNCHANGED <<server, away, overlapped, plan, check, seen, used>>
  BY Zenon DEF WholeSent
<1>3. OkContext(c, server, seen, overlapped)
  BY <1>1, LearntIsOk
<1> HIDE DEF c
<1>4. /\ e \in Context /\ e.versions = c.versions
      /\ \A s \in Sheets : e.cells[s] \subseteq c.cells[s]
  BY <1>3, Zenon DEF OkContext, Context, Content
<1> HIDE DEF e
<1>5. OkContext(e, server, seen, overlapped)
  BY <1>3, <1>4 DEF OkContext
<1>6. \A r \in AfterWhole(e, flush, plan) : OkPair(r, server, seen, overlapped)
  BY <1>0, <1>5, AfterWholeIsOk
<1> QED BY <1>0, <1>2, <1>6, BecomeKeeps

(* a cell's edits,                                                         *)
LEMMA CellSentKeeps ==
    ASSUME CapacityInv, CellSent
    PROVE  CapacityInv'
<1>0. /\ OkServer(server) /\ OkPlan(plan, seen) /\ OkFlush(flush, server, seen, overlapped)
      /\ OkCheck(check, server, overlapped) /\ flush.todo \in SUBSET Sheets
  BY SeenMore DEF Flush
<1>1. flush.pc \in Saves /\ flush.phase = "done"
  BY DEF CellSent, Saves
<1>2. /\ Become(Cells(Learnt(ctx), flush, flush.todo, plan))
      /\ UNCHANGED <<server, away, overlapped, plan, check, seen, used>>
  BY DEF CellSent
<1>3. OkContext(Learnt(ctx), server, seen, overlapped)
  BY <1>1, LearntIsOk
<1>4. \A r \in Cells(Learnt(ctx), flush, flush.todo, plan) : OkPair(r, server, seen, overlapped)
  BY <1>0, <1>3, CellsAreOk
<1> QED BY <1>0, <1>2, <1>4, BecomeKeeps

(* the switches,                                                           *)
LEMMA SwitchesSentKeeps ==
    ASSUME CapacityInv, SwitchesSent
    PROVE  CapacityInv'
<1> DEFINE c == Learnt(ctx)
           e == [c EXCEPT !.switchesDirty = FALSE]
<1>0. /\ OkServer(server) /\ OkFlush(flush, server, seen, overlapped)
      /\ OkCheck(check, server, overlapped)
  BY SeenMore
<1>1. flush.pc \in Saves /\ flush.phase = "done"
  BY DEF SwitchesSent, Saves
<1>2. /\ Become({Pair(StateNext(flush), e)})
      /\ UNCHANGED <<server, away, overlapped, plan, check, seen, used>>
  BY DEF SwitchesSent
<1>3. OkContext(c, server, seen, overlapped)
  BY <1>1, LearntIsOk
<1> HIDE DEF c
<1>4. e \in Context /\ e.versions = c.versions /\ e.cells = c.cells
  BY <1>3 DEF OkContext, Context
<1> HIDE DEF e
<1>5. OkContext(e, server, seen, overlapped)
  BY <1>3, <1>4 DEF OkContext
<1>6. OkFlush(StateNext(flush), server, seen, overlapped)
  <2>1. None(0) \in [Items -> Nat]
    BY DEF None
  <2> QED BY <1>0, <2>1, RequestIsOk DEF StateNext
<1>7. \A r \in {Pair(StateNext(flush), e)} : OkPair(r, server, seen, overlapped)
  BY <1>5, <1>6 DEF OkPair, Pair
<1> QED BY <1>0, <1>2, <1>7, BecomeKeeps

(* the state at the end,                                                   *)
LEMMA AllSentKeeps ==
    ASSUME CapacityInv, AllSent
    PROVE  CapacityInv'
<1>0. /\ OkServer(server) /\ OkPlan(plan, seen) /\ OkContext(ctx, server, seen, overlapped)
      /\ OkCheck(check, server, overlapped) /\ flush \in Flush /\ seen \in Content
  BY SeenMore DEF CapacityInv
<1>1. Ended(ctx) /\ UNCHANGED <<server, away, overlapped, plan, seen, used>>
  BY DEF AllSent
<1>2. /\ OkFlush(flush', server, seen, overlapped) /\ OkContext(ctx', server, seen, overlapped)
      /\ OkCheck(check', server, overlapped)
  BY <1>0, <1>1, EndedIsOk
<1> QED BY <1>0, <1>1, <1>2, PageKeeps

(* a refusal,                                                              *)
LEMMA RefusedKeeps ==
    ASSUME CapacityInv, Refused
    PROVE  CapacityInv'
<1> DEFINE pc == CASE flush.pc = "whole" -> "pullWhole"
                   [] flush.pc = "cell" -> "pullCell"
                   [] flush.pc = "switches" -> "pullSwitches"
           g == Request(flush, pc, flush.items, None(0), None({}))
           e == [ctx EXCEPT !.switchesDirty = FALSE]
<1>0. /\ OkServer(server) /\ OkPlan(plan, seen) /\ OkContext(ctx, server, seen, overlapped)
      /\ OkFlush(flush, server, seen, overlapped) /\ OkCheck(check, server, overlapped)
      /\ flush \in Flush /\ ctx \in Context /\ seen \in Content
  BY SeenMore DEF CapacityInv
<1>1. /\ flush' = g /\ (ctx' = ctx \/ ctx' = e)
      /\ UNCHANGED <<server, away, overlapped, plan, check, seen, used>> /\ flush.phase = "refused"
  BY DEF Refused
<1>2. pc \in {"pullWhole", "pullCell", "pullSwitches"}
  BY <1>0, <1>1 DEF OkFlush, OkWrite, Saves
<1> HIDE DEF pc
<1>3. OkFlush(g, server, seen, overlapped)
  <2>1. flush.items \in SUBSET Items /\ None(0) \in [Items -> Nat]
    BY <1>0 DEF Flush, None
  <2>2. \A i \in flush.items : None({})[i] \in Content /\ None({})[i] \subseteq seen
    BY <2>1 DEF None, Content
  <2>3. \A i \in flush.items : Noted(i, None(0)[i], server, seen)
    BY <1>0, <2>1 DEF None, Noted, OkServer, Row
  <2> QED BY <1>0, <1>2, <2>1, <2>2, <2>3, RequestIsOk
<1> HIDE DEF g
<1>5. OkContext(e, server, seen, overlapped)
  <2>1. e \in Context /\ e.versions = ctx.versions /\ e.cells = ctx.cells
    BY <1>0 DEF Context
  <2> HIDE DEF e
  <2> QED BY <1>0, <2>1 DEF OkContext
<1> HIDE DEF e
<1> QED BY <1>0, <1>1, <1>3, <1>5, PageKeeps

(* the reload after it,                                                    *)
LEMMA ReloadedKeeps ==
    ASSUME CapacityInv, Reloaded
    PROVE  CapacityInv'
<1> DEFINE rows == flush.rows
           I == flush.items
           sn == seen \cup Contents(I, rows)
           c == Taken(ctx, I, {}, rows)
           e == [c EXCEPT !.dirty = @ \ I]
<1>0. /\ rows \in [Items -> Row] /\ I \in SUBSET Items /\ seen \subseteq sn
      /\ seen \in Content
  BY SeenMore DEF Flush, CapacityInv
<1>1. /\ seen' = sn /\ plan' = Shown(I, {}, rows) /\ (Ended(c) \/ Ended(e))
      /\ UNCHANGED <<server, away, overlapped, used>>
  BY DEF Reloaded
<1>2. sn \in Content
  BY <1>0 DEF Contents, Row, Content
<1>3. OkPlan(plan', sn)
  BY <1>0, <1>1, ShownIsOk DEF CapacityInv
<1>4. OkContext(c, server, sn, overlapped)
  <2>1. \A i \in Items : Firm(i, server, overlapped) => TrueRow(i, rows[i], server)
    BY DEF CapacityInv, OkFlush, OkWrite, Safe
  <2> HIDE DEF rows, I
  <2> QED BY <1>0, <2>1, TakenIsOk DEF CapacityInv
<1> HIDE DEF c
<1>5. OkContext(e, server, sn, overlapped)
  <2>1. e \in Context /\ e.versions = c.versions /\ e.cells = c.cells
    BY <1>4 DEF OkContext, Context
  <2> HIDE DEF e
  <2> QED BY <1>4, <2>1 DEF OkContext
<1>6. /\ OkServer(server) /\ OkCheck(check, server, overlapped) /\ flush \in Flush
  BY SeenMore
<1> HIDE DEF e, sn
<1>7. /\ OkFlush(flush', server, sn, overlapped) /\ OkContext(ctx', server, sn, overlapped)
      /\ OkCheck(check', server, overlapped)
  BY <1>1, <1>4, <1>5, <1>6, EndedIsOk
<1> QED BY <1>0, <1>1, <1>2, <1>3, <1>7, PageKeeps

(* and a failure.                                                          *)
LEMMA FlushFailsKeeps ==
    ASSUME CapacityInv, FlushFails
    PROVE  CapacityInv'
<1> DEFINE cells == [s \in Sheets |-> IF s \in flush.items THEN ctx.cells[s] \cup flush.body[s]
                                      ELSE ctx.cells[s]]
           e == [ctx EXCEPT !.cells = cells]
<1>0. /\ OkServer(server) /\ OkPlan(plan, seen) /\ OkContext(ctx, server, seen, overlapped)
      /\ OkFlush(flush, server, seen, overlapped) /\ OkCheck(check, server, overlapped)
      /\ flush \in Flush /\ ctx \in Context /\ seen \in Content
  BY SeenMore DEF CapacityInv
<1>1. (Ended(ctx) \/ Ended(e)) /\ UNCHANGED <<server, away, overlapped, plan, seen, used>>
  BY DEF FlushFails
<1>2. cells \in [Sheets -> Content] /\ \A s \in Sheets : cells[s] \subseteq seen
  <2>1. ASSUME NEW s \in Sheets PROVE cells[s] \in Content /\ cells[s] \subseteq seen
    <3>1. s \in Items /\ ctx.cells[s] \in Content /\ flush.body[s] \in Content
      BY <1>0 DEF Context, Flush, Items
    <3>2. ctx.cells[s] \subseteq seen /\ flush.body[s] \subseteq seen
      BY <1>0, <3>1 DEF OkContext, OkFlush, OkWrite, Safe
    <3>3. cells[s] \subseteq ctx.cells[s] \cup flush.body[s]
      OBVIOUS
    <3> HIDE DEF cells
    <3> QED BY <3>1, <3>2, <3>3 DEF Content
  <2> QED BY <2>1
<1> HIDE DEF cells
<1>3. e \in Context /\ e.versions = ctx.versions /\ e.cells = cells
  BY <1>0, <1>2 DEF Context
<1> HIDE DEF e
<1>4. OkContext(e, server, seen, overlapped)
  BY <1>0, <1>2, <1>3 DEF OkContext
<1>5. /\ OkFlush(flush', server, seen, overlapped) /\ OkContext(ctx', server, seen, overlapped)
      /\ OkCheck(check', server, overlapped)
  BY <1>0, <1>1, <1>4, EndedIsOk
<1> QED BY <1>0, <1>1, <1>5, PageKeeps

(* A check that is asked for,                                              *)
LEMMA PollFiresKeeps ==
    ASSUME CapacityInv, PollFires
    PROVE  CapacityInv'
<1> DEFINE e == [ctx EXCEPT !.again = TRUE]
<1>0. /\ OkServer(server) /\ OkPlan(plan, seen) /\ OkContext(ctx, server, seen, overlapped)
      /\ OkFlush(flush, server, seen, overlapped) /\ OkCheck(check, server, overlapped)
      /\ ctx \in Context /\ seen \in Content
  BY SeenMore DEF CapacityInv
<1>1. UNCHANGED <<server, away, overlapped, plan, seen, used>>
  BY DEF PollFires
<1>2. \/ ctx' = e /\ UNCHANGED <<flush, check>>
      \/ Become(Begun(ctx, "check", plan)) /\ check' = [NoCheck EXCEPT !.pc = "flush"]
      \/ check' = AskState /\ UNCHANGED <<flush, ctx>>
  BY DEF PollFires
<1>3. OkContext(e, server, seen, overlapped)
  <2>1. e \in Context /\ e.versions = ctx.versions /\ e.cells = ctx.cells
    BY <1>0 DEF Context
  <2> HIDE DEF e
  <2> QED BY <1>0, <2>1 DEF OkContext
<1> HIDE DEF e
<1>4. /\ OkCheck(AskState, server, overlapped)
      /\ OkCheck([NoCheck EXCEPT !.pc = "flush"], server, overlapped)
  BY <1>0, FreshIsOk
<1>5. CASE ctx' = e /\ UNCHANGED <<flush, check>>
  BY <1>0, <1>1, <1>3, <1>5, PageKeeps
<1>6. CASE Become(Begun(ctx, "check", plan)) /\ check' = [NoCheck EXCEPT !.pc = "flush"]
  <2>1. \A r \in Begun(ctx, "check", plan) : OkPair(r, server, seen, overlapped)
    BY <1>0, BegunIsOk
  <2> QED BY <1>1, <1>4, <1>6, <2>1, BecomeKeeps
<1>7. CASE check' = AskState /\ UNCHANGED <<flush, ctx>>
  BY <1>0, <1>1, <1>4, <1>7, PageKeeps
<1> QED BY <1>2, <1>5, <1>6, <1>7

(* A check that ends lets the next one come.                               *)
LEMMA CheckedIsOk ==
    ASSUME NEW sv, NEW sn, NEW ov, OkServer(sv), OkFlush(flush, sv, sn, ov),
           NEW c, OkContext(c, sv, sn, ov), Checked(c)
    PROVE  OkFlush(flush', sv, sn, ov) /\ OkContext(ctx', sv, sn, ov) /\ OkCheck(check', sv, ov)
<1> DEFINE e == [c EXCEPT !.polls = TRUE]
<1>1. e \in Context /\ e.versions = c.versions /\ e.cells = c.cells
  BY DEF OkContext, Context
<1>2. ctx' = e /\ UNCHANGED flush /\ check' = NoCheck
  BY DEF Checked
<1> HIDE DEF e
<1>3. OkContext(e, sv, sn, ov)
  BY <1>1 DEF OkContext
<1> QED BY <1>2, <1>3, FreshIsOk

(* the versions a check finds first,                                       *)
LEMMA StateHereKeeps ==
    ASSUME CapacityInv, StateHere
    PROVE  CapacityInv'
<1> DEFINE on == {s \in Sheets : check.state[s] # 0}
           here == {s \in Sheets : plan[s] # Nothing}
           changed == {s \in Sheets : /\ check.state[s] # ctx.versions[s]
                                      /\ s \notin ctx.dirty /\ ctx.cells[s] = {}}
           I == IF check.starting THEN on ELSE changed \cap on
           gone == (IF check.starting THEN here ELSE changed) \ on
           shown == Shown({}, gone, check.rows)
           c == [ctx EXCEPT !.dirty = @ \cup here,
                            !.switchesDirty = check.state[Switches] = 0]
           d == Taken(ctx, {}, gone, check.rows)
           asks == [check EXCEPT !.pc = "sheets", !.phase = "sent", !.items = I,
                                 !.removed = gone]
           waits == [Starting EXCEPT !.pc = "flush"]
<1>0. /\ OkServer(server) /\ OkPlan(plan, seen) /\ OkContext(ctx, server, seen, overlapped)
      /\ OkFlush(flush, server, seen, overlapped) /\ OkCheck(check, server, overlapped)
      /\ ctx \in Context /\ check \in Check /\ seen \in Content
  BY SeenMore DEF CapacityInv
<1>1. UNCHANGED <<server, away, overlapped, seen, used>>
  BY DEF StateHere
<1>2. \/ Become(Begun(c, "check", plan)) /\ check' = waits /\ UNCHANGED plan
      \/ Checked(c) /\ UNCHANGED plan
      \/ check' = asks /\ UNCHANGED <<plan, ctx, flush>>
      \/ plan' = shown /\ SwitchesChecked(d, shown)
  BY Zenon DEF StateHere
<1>3. I \in SUBSET Items /\ gone \in SUBSET Sheets /\ here \in SUBSET Sheets
  BY DEF Items
<1>4. OkPlan(shown, seen) /\ OkContext(d, server, seen, overlapped)
  <2>1. check.rows \in [Items -> Row] /\ Contents({}, check.rows) = {}
    BY <1>0 DEF Check, Contents
  <2>2. seen \cup Contents({}, check.rows) = seen
    BY <2>1
  <2>3. \A i \in Items : Firm(i, server, overlapped) => TrueRow(i, check.rows[i], server)
    BY <1>0 DEF OkCheck
  <2> HIDE DEF gone
  <2>4. OkPlan(shown, seen \cup Contents({}, check.rows))
    BY <1>0, <1>3, <2>1, ShownIsOk
  <2>5. OkContext(d, server, seen \cup Contents({}, check.rows), overlapped)
    BY <1>0, <1>3, <2>1, <2>3, TakenIsOk
  <2> QED BY <2>2, <2>4, <2>5
<1> HIDE DEF shown, d, I, gone, here
<1>5. OkCheck(asks, server, overlapped) /\ OkCheck(waits, server, overlapped)
  <2>1. asks \in Check /\ asks.rows = check.rows
    BY <1>0, <1>3 DEF Check, Phases
  <2>2. OkCheck(waits, server, overlapped)
    BY <1>0, FreshIsOk
  <2> HIDE DEF asks, waits
  <2> QED BY <1>0, <2>1, <2>2 DEF OkCheck
<1>6. OkContext(c, server, seen, overlapped)
  <2>1. c \in Context /\ c.versions = ctx.versions /\ c.cells = ctx.cells
    BY <1>0, <1>3 DEF Context
  <2> HIDE DEF c
  <2> QED BY <1>0, <2>1 DEF OkContext
<1> HIDE DEF c, asks, waits
<1>7. CASE Become(Begun(c, "check", plan)) /\ check' = waits /\ UNCHANGED plan
  <2>1. \A r \in Begun(c, "check", plan) : OkPair(r, server, seen, overlapped)
    BY <1>0, <1>6, BegunIsOk
  <2> QED BY <1>1, <1>5, <1>7, <2>1, BecomeKeeps
<1>8. CASE Checked(c) /\ UNCHANGED plan
  <2>1. /\ OkFlush(flush', server, seen, overlapped) /\ OkContext(ctx', server, seen, overlapped)
        /\ OkCheck(check', server, overlapped)
    BY <1>0, <1>6, <1>8, CheckedIsOk
  <2> QED BY <1>0, <1>1, <1>8, <2>1, PageKeeps
<1>9. CASE check' = asks /\ UNCHANGED <<plan, ctx, flush>>
  BY <1>0, <1>1, <1>5, <1>9, PageKeeps
<1>10. CASE plan' = shown /\ SwitchesChecked(d, shown)
  <2>1. /\ OkFlush(flush', server, seen, overlapped) /\ OkContext(ctx', server, seen, overlapped)
        /\ OkCheck(check', server, overlapped)
    BY <1>0, <1>4, <1>10, SwitchesCheckedIsOk
  <2> QED BY <1>0, <1>1, <1>4, <1>10, <2>1, PageKeeps
<1> QED BY <1>2, <1>7, <1>8, <1>9, <1>10

(* What a check has loaded is shown, noted and seen in one step.           *)
LEMMA LoadedIsOk ==
    ASSUME CapacityInv, NEW removed \in SUBSET Sheets
    PROVE  LET sn == seen \cup Contents(check.items, check.rows)
           IN  /\ sn \in Content /\ seen \subseteq sn
               /\ OkPlan(Shown(check.items, removed, check.rows), sn)
               /\ OkContext(Taken(ctx, check.items, removed, check.rows), server, sn, overlapped)
<1> DEFINE sn == seen \cup Contents(check.items, check.rows)
<1>0. /\ check.rows \in [Items -> Row] /\ check.items \in SUBSET Items
      /\ OkServer(server) /\ OkPlan(plan, seen) /\ OkContext(ctx, server, seen, overlapped)
      /\ seen \in Content
  BY SeenMore DEF Check, CapacityInv
<1>1. sn \in Content /\ seen \subseteq sn
  BY <1>0 DEF Contents, Row, Content
<1>2. \A i \in Items : Firm(i, server, overlapped) => TrueRow(i, check.rows[i], server)
  BY DEF CapacityInv, OkCheck
<1>3. OkContext(Taken(ctx, check.items, removed, check.rows), server, sn, overlapped)
  BY <1>0, <1>2, TakenIsOk
<1>4. OkPlan(Shown(check.items, removed, check.rows), sn)
  BY <1>0, ShownIsOk
<1> QED BY <1>1, <1>3, <1>4

(* the sheets it loads,                                                    *)
LEMMA SheetsHereKeeps ==
    ASSUME CapacityInv, SheetsHere
    PROVE  CapacityInv'
<1> DEFINE sn == seen \cup Contents(check.items, check.rows)
           p == Shown(check.items, check.removed, check.rows)
           c == Taken(ctx, check.items, check.removed, check.rows)
<1>1. /\ plan' = p /\ seen' = sn /\ SwitchesChecked(c, p) /\ UNCHANGED <<server, away, overlapped, used>>
  BY DEF SheetsHere
<1>2. sn \in Content /\ seen \subseteq sn /\ OkPlan(p, sn) /\ OkContext(c, server, sn, overlapped)
  <2>1. check.removed \in SUBSET Sheets
    BY SeenMore DEF Check
  <2> QED BY <2>1, LoadedIsOk
<1> HIDE DEF sn, p, c
<1>3. /\ OkServer(server) /\ OkFlush(flush, server, sn, overlapped) /\ OkCheck(check, server, overlapped)
  BY <1>2, SeenMore
<1>4. /\ OkFlush(flush', server, sn, overlapped) /\ OkContext(ctx', server, sn, overlapped)
      /\ OkCheck(check', server, overlapped)
  BY <1>1, <1>2, <1>3, SwitchesCheckedIsOk
<1> QED BY <1>1, <1>2, <1>4, PageKeeps

(* the switches,                                                           *)
LEMMA SwitchesHereKeeps ==
    ASSUME CapacityInv, SwitchesHere
    PROVE  CapacityInv'
<1> DEFINE sn == seen \cup Contents(check.items, check.rows)
           p == Shown(check.items, {}, check.rows)
           c == Taken(ctx, check.items, {}, check.rows)
<1>1. /\ plan' = p /\ seen' = sn /\ Checked(c) /\ UNCHANGED <<server, away, overlapped, used>>
  BY DEF SwitchesHere
<1>2. sn \in Content /\ seen \subseteq sn /\ OkPlan(p, sn) /\ OkContext(c, server, sn, overlapped)
  BY LoadedIsOk
<1> HIDE DEF sn, p, c
<1>3. OkServer(server) /\ OkFlush(flush, server, sn, overlapped)
  BY <1>2, SeenMore
<1>4. /\ OkFlush(flush', server, sn, overlapped) /\ OkContext(ctx', server, sn, overlapped)
      /\ OkCheck(check', server, overlapped)
  BY <1>1, <1>2, <1>3, CheckedIsOk
<1> QED BY <1>1, <1>2, <1>4, PageKeeps

(* and a failure keep the invariant.                                       *)
LEMMA CheckFailsKeeps ==
    ASSUME CapacityInv, CheckFails
    PROVE  CapacityInv'
<1>1. /\ OkServer(server) /\ OkPlan(plan, seen) /\ OkContext(ctx, server, seen, overlapped)
      /\ OkFlush(flush, server, seen, overlapped) /\ seen \in Content
  BY SeenMore DEF CapacityInv
<1>2. Checked(ctx) /\ UNCHANGED <<server, away, overlapped, plan, seen, used>>
  BY DEF CheckFails, Checked
<1>3. /\ OkFlush(flush', server, seen, overlapped) /\ OkContext(ctx', server, seen, overlapped)
      /\ OkCheck(check', server, overlapped)
  BY <1>1, <1>2, CheckedIsOk
<1> QED BY <1>1, <1>2, <1>3, PageKeeps

-----------------------------------------------------------------------------
(* The server, other people, the network and reloads.                      *)

(* What is on the server is true of it, and so is any part of it.          *)
LEMMA PartIsTrue ==
    ASSUME NEW sv, OkServer(sv), NEW I
    PROVE  /\ Part(I, sv) \in [Items -> Row]
           /\ \A i \in Items : TrueRow(i, Part(I, sv)[i], sv)
<1>1. NoRow \in Row
  BY DEF NoRow, Row, Content
<1>2. Part(I, sv) \in [Items -> Row]
  BY <1>1 DEF Part, OkServer
<1>3. ASSUME NEW i \in Items PROVE TrueRow(i, Part(I, sv)[i], sv)
  <2>1. sv[i] \in Row /\ (sv[i].version = 0 => sv[i].content = {})
    BY DEF OkServer
  <2>2. Part(I, sv)[i] = sv[i] \/ Part(I, sv)[i] = NoRow
    BY DEF Part
  <2>3. TrueRow(i, sv[i], sv) /\ TrueRow(i, NoRow, sv)
    BY <2>1 DEF TrueRow, NoRow, Row
  <2> QED BY <2>2, <2>3
<1> QED BY <1>2, <1>3

(* A write stays in order when its phase, its items and its rows change,   *)
(* if these are in order.                                                  *)
Moves(w, v, phase, I, rows, sv, sn, ov) ==
    /\ OkWrite(w, sv, sn, ov)
    /\ v = [w EXCEPT !.phase = phase, !.items = I, !.rows = rows]
    /\ phase \in Phases \ {"sent"} /\ I \in SUBSET Items /\ rows \in [Items -> Row]
    /\ phase = "refused" => w.pc \in Saves
    /\ \A i \in Items : Firm(i, sv, ov) =>
          /\ TrueRow(i, rows[i], sv)
          /\ w.pc \in Saves /\ phase \in {"checked", "done"} /\ i \in I =>
                rows[i].content \subseteq sn \cup w.body[i]

LEMMA WriteMoves ==
    ASSUME NEW sv, NEW sn, NEW ov, NEW w, NEW v, NEW phase, NEW I, NEW rows,
           Moves(w, v, phase, I, rows, sv, sn, ov)
    PROVE  /\ OkWrite(v, sv, sn, ov)
           /\ v.pc = w.pc /\ v.body = w.body /\ v.kept = w.kept
<1>1. w \in Flush /\ OkWrite(w, sv, sn, ov)
  BY DEF Moves, OkWrite
<1>2. /\ v \in Flush /\ v.pc = w.pc /\ v.phase = phase /\ v.items = I /\ v.rows = rows
      /\ v.base = w.base /\ v.body = w.body /\ v.kept = w.kept
  BY <1>1 DEF Flush, Moves
<1>3. OkWrite(v, sv, sn, ov)
  <2>1. phase \in Phases \ {"sent"} /\ (phase = "refused" => w.pc \in Saves)
    BY DEF Moves
  <2>2. ASSUME NEW i \in Items, Firm(i, sv, ov)
        PROVE  Noted(i, v.base[i], sv, sn) /\ TrueRow(i, v.rows[i], sv) /\ Safe(v, i, sn)
    BY <1>1, <1>2, <2>2 DEF OkWrite, Safe, Moves
  <2> QED BY <1>1, <1>2, <2>1, <2>2 DEF OkWrite
<1> QED BY <1>2, <1>3

(* What comes to nothing keeps its items and its rows.                     *)
LEMMA WriteEnds ==
    ASSUME NEW sv, NEW sn, NEW ov, NEW w, OkWrite(w, sv, sn, ov), NEW phase \in {"refused", "failed"},
           phase = "refused" => w.pc \in Saves, NEW v, v = [w EXCEPT !.phase = phase]
    PROVE  /\ OkWrite(v, sv, sn, ov)
           /\ v.pc = w.pc /\ v.body = w.body /\ v.kept = w.kept
<1>1. w \in Flush
  BY DEF OkWrite
<1>2. v = [w EXCEPT !.phase = phase, !.items = w.items, !.rows = w.rows]
  BY <1>1 DEF Flush
<1>3. Moves(w, v, phase, w.items, w.rows, sv, sn, ov)
  BY <1>1, <1>2 DEF Moves, OkWrite, Flush, Phases
<1> QED BY <1>3, WriteMoves

(* The read and the check of a write: what goes on has been seen as it is. *)
LEMMA AnswersAreOk ==
    ASSUME CapacityInv, NEW w, OkWrite(w, server, seen, overlapped),
           w.pc \in Writes, w.phase = "sent", NEW v \in Answers(w)
    PROVE  /\ OkWrite(v, server, seen, overlapped)
           /\ v.body = w.body /\ v.kept = w.kept /\ v.pc = w.pc
<1>0. /\ OkServer(server) /\ w \in Flush /\ w.rows \in [Items -> Row]
      /\ w.items \in SUBSET Items /\ (w.pc = "clear" => w.items = {})
  BY DEF CapacityInv, OkWrite, Flush
<1>2. CASE v \in {[w EXCEPT !.phase = "refused"] : i \in Stale(w)}
  <2>1. v = [w EXCEPT !.phase = "refused"]
    BY <1>2
  <2>2. w.pc \in Saves
    BY <1>0, <1>2 DEF Stale, Writes, Saves
  <2> QED BY <2>1, <2>2, WriteEnds
<1>3. CASE v \in {[w EXCEPT !.phase = "failed"] : i \in Broken(w) \ Stale(w)}
  <2>1. v = [w EXCEPT !.phase = "failed"]
    BY <1>3
  <2> QED BY <2>1, WriteEnds
<1>4. CASE Stale(w) \cup Broken(w) = {} /\ v = Read(w)
  <2> DEFINE I == IF w.pc = "clear" THEN Loaded ELSE w.items
             rows == Part(I, server)
             phase == IF Written(w) THEN "checked" ELSE "done"
  <2>1. v = [w EXCEPT !.phase = phase, !.items = I, !.rows = rows]
    BY <1>4 DEF Read
  <2>2. I \in SUBSET Items /\ phase \in {"checked", "done"}
    BY <1>0 DEF Loaded, Items
  <2>3. rows \in [Items -> Row] /\ \A i \in Items : TrueRow(i, rows[i], server)
    BY <1>0, PartIsTrue
  <2>4. ASSUME NEW i \in Items, Firm(i, server, overlapped), w.pc \in Saves, i \in I
        PROVE  rows[i].content \subseteq seen
    <3>1. I = w.items /\ rows[i] = server[i]
      BY <2>4 DEF Saves, Part
    <3>2. server[i].version = w.base[i]
      BY <1>4, <2>4, <3>1 DEF Stale
    <3>3. Noted(i, w.base[i], server, seen)
      BY <2>4 DEF OkWrite
    <3> HIDE DEF rows
    <3> QED BY <3>1, <3>2, <3>3 DEF Noted
  <2> HIDE DEF I, rows, phase
  <2>5. Moves(w, v, phase, I, rows, server, seen, overlapped)
    BY <2>1, <2>2, <2>3, <2>4 DEF Moves, Phases
  <2> QED BY <2>5, WriteMoves
<1> QED BY <1>2, <1>3, <1>4 DEF Answers

(* The write itself: each document goes on, or is one the versions tell    *)
(* nothing of, and loses only what has been seen.                          *)
Kept(i) ==
    \/ server[i].content \ server'[i].content \subseteq seen
    \/ server'[i].version = 0 \/ server'[i].id > 1
    \/ i \in overlapped'

LEMMA StoreIsOk ==
    ASSUME CapacityInv, NEW w, OkWrite(w, server, seen, overlapped),
           w.pc \in Writes, w.phase = "checked", ~Raises(w), Store(w)
    PROVE  /\ OkServer(server') /\ Later(server, server', overlapped, overlapped')
           /\ overlapped' \subseteq Items /\ server' = Stored(w)
           /\ \A i \in Items : Kept(i)
           /\ \A i \in w.items : Firm(i, server', overlapped') /\ w.pc \in Saves =>
                 server'[i].content \subseteq seen \cup w.body[i]
<1>0. /\ OkServer(server) /\ w \in Flush /\ w.items \subseteq Items
      /\ overlapped \subseteq Items
      /\ server' = Stored(w)
      /\ overlapped' = overlapped \cup {i \in w.items : server[i] # w.rows[i]}
  BY DEF CapacityInv, OkWrite, Flush, Store
<1>1. ASSUME NEW i \in Items
      PROVE  /\ server'[i] \in Row
             /\ IF server'[i].version = 0 THEN server'[i].content = {} ELSE server'[i].id # 0
             /\ Firm(i, server', overlapped') =>
                   /\ Firm(i, server, overlapped)
                   /\ server[i].version <= server'[i].version
                   /\ server[i].version = server'[i].version => server'[i] = server[i]
                   /\ i \in w.items /\ w.pc \in Saves =>
                         server'[i].content \subseteq seen \cup w.body[i]
             /\ Kept(i)
  <2>0. /\ server[i] \in Row /\ w.rows[i] \in Row /\ w.body[i] \in Content
        /\ server[i].version \in Nat /\ server[i].id \in Nat /\ server[i].content \in Content
        /\ w.rows[i].version \in Nat /\ w.rows[i].id \in Nat /\ w.rows[i].content \in Content
        /\ IF server[i].version = 0 THEN server[i].content = {} ELSE server[i].id # 0
    BY <1>0 DEF OkServer, Flush, Row
  <2>1. server'[i] = IF i \in w.items /\ (w.pc = "clear" => ~Gone(w, i))
                     THEN NewRow(w, i) ELSE server[i]
    BY <1>0 DEF Stored
  <2>2. i \notin overlapped' => i \notin overlapped /\ (i \in w.items => server[i] = w.rows[i])
    BY <1>0
  <2>3. CASE i \notin w.items
    <3>1. server'[i] = server[i]
      BY <2>1, <2>3
    <3> QED BY <2>0, <2>2, <2>3, <3>1 DEF Firm, Kept
  <2>4. CASE i \in w.items /\ w.pc = "clear"
    <3>1. CASE Gone(w, i)
      <4>1. server'[i] = server[i]
        BY <2>1, <2>4, <3>1
      <4> QED BY <2>0, <2>2, <2>4, <4>1 DEF Firm, Kept, Saves
    <3>2. CASE ~Gone(w, i)
      <4>1. server'[i] = [id |-> server[i].id, version |-> 0, content |-> {}]
        BY <2>1, <2>4, <3>2 DEF NewRow
      <4>2. server[i].id # 0
        BY <2>0, <3>2 DEF Gone
      <4>3. server'[i] \in Row /\ server'[i].version = 0 /\ server'[i].content = {}
            /\ server'[i].id = server[i].id
        BY <2>0, <4>1 DEF Row, Content
      <4>4. ~Firm(i, server', overlapped')
        BY <4>2, <4>3 DEF Firm
      <4> QED BY <4>3, <4>4 DEF Kept
    <3> QED BY <3>1, <3>2
  <2>5. CASE i \in w.items /\ w.pc # "clear"
    <3> DEFINE id == IF w.rows[i].version = 0 THEN server[i].id + 1 ELSE w.rows[i].id
               now == IF w.pc = "cell" THEN w.rows[i].content \cup w.body[i] ELSE w.body[i]
    <3>1. server'[i] = [id |-> id, version |-> w.rows[i].version + 1, content |-> now]
      BY <2>1, <2>5 DEF NewRow
    <3>2. now \in Content /\ w.body[i] \subseteq now /\ now \subseteq w.rows[i].content \cup w.body[i]
          /\ (w.pc # "cell" => now = w.body[i]) /\ (w.pc = "cell" => w.rows[i].content \subseteq now)
      BY <2>0 DEF Content
    <3>3. /\ id \in Nat /\ id # 0
          /\ w.rows[i].version = 0 => server[i].version = 0 /\ id = server[i].id + 1
          /\ w.rows[i].version # 0 => server[i].version # 0 /\ id = server[i].id
      BY <2>0, <2>5 DEF Raises, Gone
    <3> HIDE DEF id, now
    <3>4. /\ server'[i] \in Row /\ server'[i].version = w.rows[i].version + 1
          /\ server'[i].version # 0 /\ server'[i].id = id /\ server'[i].content = now
      BY <2>0, <3>1, <3>2, <3>3 DEF Row
    <3>5. w.pc \in Saves
      BY <2>5 DEF Writes, Saves
    <3>6. ASSUME i \notin overlapped', id <= 1
          PROVE  /\ Firm(i, server, overlapped)
                 /\ server'[i].version = server[i].version + 1
                 /\ w.rows[i].content \subseteq seen \cup w.body[i]
                 /\ server[i].content = w.rows[i].content
      <4>1. server[i] = w.rows[i] /\ i \notin overlapped
        BY <2>2, <2>5, <3>6
      <4>2. server[i].id <= 1 /\ (server[i].version = 0 => server[i].id = 0)
        BY <2>0, <3>3, <3>6, <4>1
      <4>3. Firm(i, server, overlapped)
        BY <4>1, <4>2 DEF Firm
      <4>4. Safe(w, i, seen)
        BY <4>3 DEF OkWrite
      <4>5. w.rows[i].content \subseteq seen \cup w.body[i]
        BY <2>5, <3>5, <4>4 DEF Safe
      <4> QED BY <3>4, <4>1, <4>3, <4>5
    <3>7. Kept(i)
      <4>1. CASE i \notin overlapped' /\ id <= 1
        <5>1. server[i].content \ now \subseteq seen
          BY <3>2, <3>6, <4>1
        <5> QED BY <3>4, <5>1 DEF Kept
      <4>2. CASE i \in overlapped' \/ ~(id <= 1)
        BY <3>3, <3>4, <4>2 DEF Kept
      <4> QED BY <4>1, <4>2
    <3>8. Firm(i, server', overlapped') => i \notin overlapped' /\ id <= 1
      BY <3>4 DEF Firm
    <3>9. ASSUME Firm(i, server', overlapped')
          PROVE  /\ Firm(i, server, overlapped)
                 /\ server'[i].version = server[i].version + 1
                 /\ server'[i].content \subseteq seen \cup w.body[i]
      BY <3>2, <3>4, <3>6, <3>8, <3>9
    <3>10. ASSUME Firm(i, server', overlapped')
           PROVE  /\ server[i].version <= server'[i].version
                  /\ server[i].version # server'[i].version
      BY <2>0, <3>9, <3>10
    <3>11. Firm(i, server', overlapped') =>
              /\ Firm(i, server, overlapped)
              /\ server[i].version <= server'[i].version
              /\ server[i].version = server'[i].version => server'[i] = server[i]
              /\ i \in w.items /\ w.pc \in Saves =>
                    server'[i].content \subseteq seen \cup w.body[i]
      BY <3>9, <3>10
    <3>12. /\ server'[i] \in Row
           /\ IF server'[i].version = 0 THEN server'[i].content = {} ELSE server'[i].id # 0
      BY <3>3, <3>4
    <3> QED BY <3>7, <3>11, <3>12
  <2> QED BY <2>3, <2>4, <2>5
<1>2. server' \in [Items -> Row]
  <2>1. server' = [i \in Items |-> server'[i]]
    BY <1>0 DEF Stored
  <2> QED BY <1>1, <2>1
<1>3. OkServer(server')
  BY <1>1, <1>2 DEF OkServer
<1>4. Later(server, server', overlapped, overlapped')
  BY <1>1 DEF Later
<1>5. overlapped' \subseteq Items
  BY <1>0
<1>6. \A i \in Items : Kept(i)
  BY <1>1
<1>7. \A i \in w.items : Firm(i, server', overlapped') /\ w.pc \in Saves =>
         server'[i].content \subseteq seen \cup w.body[i]
  BY <1>0, <1>1
<1> QED BY <1>0, <1>3, <1>4, <1>5, <1>6, <1>7

(* The invariant when the server goes on, with the same page.              *)
LEMMA ServerMoves ==
    ASSUME CapacityInv, NEW sv, OkServer(sv), NEW ov, Later(server, sv, overlapped, ov)
    PROVE  /\ OkContext(ctx, sv, seen, ov) /\ OkFlush(flush, sv, seen, ov)
           /\ OkCheck(check, sv, ov) /\ OkWrite(away, sv, seen, ov)
<1>1. OkServer(server) /\ seen \subseteq seen
  BY DEF CapacityInv
<1> QED BY <1>1, ContextStays, FlushStays, WriteStays, CheckStays DEF CapacityInv

(* A write of the flush that is served,                                    *)
LEMMA ServeWriteKeeps ==
    ASSUME CapacityInv, ServeWrite
    PROVE  CapacityInv' /\ \A i \in Items : Kept(i)
<1> DEFINE rows == Part(flush.items, Stored(flush))
           fails == [flush EXCEPT !.phase = "failed"]
           done == [flush EXCEPT !.phase = "done", !.rows = rows]
<1>0. /\ UNCHANGED <<plan, ctx, check, away, seen, used>> /\ flush.pc \in Writes
      /\ OkFlush(flush, server, seen, overlapped) /\ OkWrite(flush, server, seen, overlapped)
      /\ flush \in Flush /\ flush.rows \in [Items -> Row] /\ flush.items \in SUBSET Items
  BY SeenMore DEF ServeWrite, OkFlush, Flush
<1>1. ASSUME UNCHANGED <<server, overlapped>>, OkFlush(flush', server, seen, overlapped)
      PROVE  CapacityInv' /\ \A i \in Items : Kept(i)
  <2>1. CapacityInv'
    BY <1>0, <1>1 DEF CapacityInv
  <2>2. \A i \in Items : Kept(i)
    BY <1>1 DEF Kept
  <2> QED BY <2>1, <2>2
<1>2. CASE /\ flush.phase = "sent" /\ flush' \in Answers(flush)
           /\ UNCHANGED <<server, overlapped>>
  <2>1. /\ OkWrite(flush', server, seen, overlapped)
        /\ flush'.body = flush.body /\ flush'.kept = flush.kept
    BY <1>0, <1>2, AnswersAreOk
  <2>2. OkFlush(flush', server, seen, overlapped)
    BY <1>0, <2>1 DEF OkFlush
  <2> QED BY <1>1, <1>2, <2>2
<1>3. CASE /\ flush.phase = "checked" /\ flush' = fails
           /\ UNCHANGED <<server, overlapped>>
  <2>4. /\ OkWrite(fails, server, seen, overlapped)
        /\ fails.body = flush.body /\ fails.kept = flush.kept
    BY <1>0, WriteEnds
  <2> HIDE DEF fails
  <2>5. OkFlush(fails, server, seen, overlapped)
    BY <1>0, <2>4 DEF OkFlush
  <2> QED BY <1>1, <1>3, <2>5
<1>4. CASE /\ flush.phase = "checked" /\ ~Raises(flush) /\ Store(flush) /\ flush' = done
  <2>1. /\ OkServer(server') /\ Later(server, server', overlapped, overlapped')
        /\ overlapped' \subseteq Items /\ server' = Stored(flush)
        /\ \A i \in Items : Kept(i)
        /\ \A i \in flush.items : Firm(i, server', overlapped') /\ flush.pc \in Saves =>
              server'[i].content \subseteq seen \cup flush.body[i]
    BY <1>0, <1>4, StoreIsOk
  <2>2. /\ OkContext(ctx, server', seen, overlapped') /\ OkFlush(flush, server', seen, overlapped')
        /\ OkCheck(check, server', overlapped') /\ OkWrite(away, server', seen, overlapped')
    BY <2>1, ServerMoves
  <2>3. rows \in [Items -> Row] /\ \A i \in Items : TrueRow(i, rows[i], server')
    BY <2>1, PartIsTrue
  <2>4. \A i \in flush.items : rows[i] = server'[i]
    BY <1>0, <2>1 DEF Part
  <2>5. done = [flush EXCEPT !.phase = "done", !.items = flush.items, !.rows = rows]
    BY <1>0 DEF Flush
  <2> HIDE DEF rows, done
  <2>7. OkWrite(flush, server', seen, overlapped')
    BY <2>2 DEF OkFlush
  <2>6. Moves(flush, done, "done", flush.items, rows, server', seen, overlapped')
    BY <1>0, <2>1, <2>3, <2>4, <2>5, <2>7 DEF Moves, Phases
  <2>8. /\ OkWrite(done, server', seen, overlapped')
        /\ done.body = flush.body /\ done.kept = flush.kept
    BY <2>6, WriteMoves
  <2>9. OkFlush(done, server', seen, overlapped')
    BY <1>0, <2>8 DEF OkFlush
  <2>10. OkPlan(plan, seen) /\ seen \in Content /\ 0 \in seen
         /\ used \in [edits : Nat, others : Nat, faults : Nat]
    BY DEF CapacityInv
  <2>11. flush' = done /\ plan' = plan /\ ctx' = ctx /\ check' = check /\ away' = away
         /\ seen' = seen /\ used' = used
    BY <1>0, <1>4
  <2>12. CapacityInv'
    BY <2>1, <2>2, <2>9, <2>10, <2>11 DEF CapacityInv
  <2> QED BY <2>1, <2>12
<1> QED BY <1>2, <1>3, <1>4 DEF ServeWrite

(* a write nobody here waits for,                                          *)
LEMMA AwayServedKeeps ==
    ASSUME CapacityInv, AwayServed
    PROVE  CapacityInv' /\ \A i \in Items : Kept(i)
<1>0. /\ UNCHANGED <<plan, ctx, flush, check, seen, used>> /\ away.pc # "off"
      /\ OkWrite(away, server, seen, overlapped) /\ OkServer(server) /\ away.pc \in Writes
  BY DEF AwayServed, CapacityInv
<1>1. ASSUME UNCHANGED <<server, overlapped>>, OkWrite(away', server, seen, overlapped),
             away'.pc \in Writes \cup {"off"}
      PROVE  CapacityInv' /\ \A i \in Items : Kept(i)
  <2>1. CapacityInv'
    BY <1>0, <1>1 DEF CapacityInv
  <2>2. \A i \in Items : Kept(i)
    BY <1>1 DEF Kept
  <2> QED BY <2>1, <2>2
<1>2. /\ \A sv, ov : OkServer(sv) => OkWrite(NoFlush, sv, seen, ov)
      /\ NoFlush.pc = "off"
  BY FreshIsOk DEF OkFlush, NoFlush
<1>3. CASE /\ away.phase = "sent" /\ UNCHANGED <<server, overlapped>>
           /\ \E w \in Answers(away) : away' = IF w.phase = "checked" THEN w ELSE NoFlush
  <2>1. \A w \in Answers(away) : OkWrite(w, server, seen, overlapped) /\ w.pc \in Writes
    BY <1>0, <1>3, AnswersAreOk
  <2> QED BY <1>0, <1>1, <1>2, <1>3, <2>1
<1>4. CASE away' = NoFlush /\ UNCHANGED <<server, overlapped>>
  BY <1>0, <1>1, <1>2, <1>4
<1>5. CASE away.phase = "checked" /\ away' = NoFlush /\ ~Raises(away) /\ Store(away)
  <2>1. /\ OkServer(server') /\ Later(server, server', overlapped, overlapped')
        /\ overlapped' \subseteq Items /\ \A i \in Items : Kept(i)
    BY <1>0, <1>5, StoreIsOk
  <2>2. /\ OkContext(ctx, server', seen, overlapped') /\ OkFlush(flush, server', seen, overlapped')
        /\ OkCheck(check, server', overlapped') /\ OkWrite(NoFlush, server', seen, overlapped')
    BY <1>2, <2>1, ServerMoves
  <2>3. CapacityInv'
    BY <1>0, <1>2, <1>5, <2>1, <2>2 DEF CapacityInv
  <2> QED BY <2>1, <2>3
<1> QED BY <1>3, <1>4, <1>5 DEF AwayServed

(* a read of a flush,                                                      *)
LEMMA ServeFlushReadKeeps ==
    ASSUME CapacityInv, ServeFlushRead
    PROVE  CapacityInv'
<1> DEFINE rows == Part(flush.items, server)
           fails == [flush EXCEPT !.phase = "failed"]
           done == [flush EXCEPT !.phase = "done", !.rows = rows]
<1>1. /\ flush' = fails \/ flush' = done
      /\ UNCHANGED <<server, plan, ctx, check, away, seen, overlapped, used>>
      /\ flush.pc \notin Saves
  BY DEF ServeFlushRead, Saves
<1>2. /\ OkFlush(flush, server, seen, overlapped) /\ OkWrite(flush, server, seen, overlapped)
      /\ flush \in Flush /\ flush.rows \in [Items -> Row] /\ flush.items \in SUBSET Items
      /\ OkServer(server)
  BY SeenMore DEF OkFlush, Flush
<1>3. rows \in [Items -> Row] /\ \A i \in Items : TrueRow(i, rows[i], server)
  BY <1>2, PartIsTrue
<1>4. done = [flush EXCEPT !.phase = "done", !.items = flush.items, !.rows = rows]
  BY <1>2 DEF Flush
<1>7. OkWrite(fails, server, seen, overlapped) /\ fails.body = flush.body /\ fails.kept = flush.kept
  BY <1>2, WriteEnds
<1> HIDE DEF rows, fails, done
<1>5. Moves(flush, done, "done", flush.items, rows, server, seen, overlapped)
  BY <1>1, <1>2, <1>3, <1>4 DEF Moves, Phases
<1>8. OkWrite(done, server, seen, overlapped) /\ done.body = flush.body /\ done.kept = flush.kept
  BY <1>5, WriteMoves
<1>9. OkFlush(fails, server, seen, overlapped) /\ OkFlush(done, server, seen, overlapped)
  BY <1>2, <1>7, <1>8 DEF OkFlush
<1> QED BY <1>1, <1>9 DEF CapacityInv

(* a read of a check,                                                      *)
LEMMA ServeCheckKeeps ==
    ASSUME CapacityInv, ServeCheck
    PROVE  CapacityInv'
<1> DEFINE I == IF check.starting /\ check.pc = "sheets" THEN Loaded ELSE check.items
           phase == IF Missing(I) THEN "failed" ELSE "done"
           part == Part(I, server)
           states == [check EXCEPT !.phase = "done",
                                   !.state = [i \in Items |-> server[i].version]]
           rows == [check EXCEPT !.phase = phase, !.items = I, !.rows = part]
<1>0. OkCheck(check, server, overlapped) /\ check \in Check /\ OkServer(server)
  BY SeenMore
<1>1. UNCHANGED <<server, plan, ctx, flush, away, seen, overlapped, used>>
  BY DEF ServeCheck
<1>2. check' = states \/ check' = rows
  BY DEF ServeCheck
<1>3. OkCheck(states, server, overlapped)
  <2>1. [i \in Items |-> server[i].version] \in [Items -> Nat]
    BY <1>0 DEF OkServer, Row
  <2>2. states \in Check /\ states.rows = check.rows
    BY <1>0, <2>1, Zenon DEF Check, Phases
  <2> HIDE DEF states
  <2> QED BY <1>0, <2>2 DEF OkCheck
<1>4. OkCheck(rows, server, overlapped)
  <2>1. I \in SUBSET Items /\ phase \in Phases
    BY <1>0 DEF Check, Items, Loaded, Phases
  <2>2. part \in [Items -> Row] /\ \A i \in Items : TrueRow(i, part[i], server)
    BY <1>0, PartIsTrue
  <2> HIDE DEF I, phase, part
  <2>3. rows \in Check /\ rows.rows = part
    BY <1>0, <2>1, <2>2 DEF Check
  <2> HIDE DEF rows
  <2> QED BY <2>2, <2>3 DEF OkCheck
<1> HIDE DEF states, rows
<1> QED BY <1>1, <1>2, <1>3, <1>4 DEF CapacityInv

(* a request of somebody else's, which takes nothing out of a document or  *)
(* clears the plan,                                                        *)
LEMMA OtherSendsKeeps ==
    ASSUME CapacityInv, NEW pc \in Writes, NEW I \in SUBSET Items, NEW body \in Content,
           \A i \in I : pc \in Saves => server[i].content \subseteq body,
           OtherSends(pc, I, body)
    PROVE  CapacityInv'
<1> DEFINE rows == Part(I, server)
           what == [i \in Items |-> IF i \in I THEN body ELSE {}]
           w == [NoFlush EXCEPT !.pc = pc, !.phase = "checked", !.items = I, !.rows = rows,
                                !.body = what]
<1>0. OkServer(server)
  BY DEF CapacityInv
<1>1. away' = w /\ UNCHANGED <<server, plan, ctx, flush, check, seen, overlapped>>
  BY DEF OtherSends
<1>2. used' \in [edits : Nat, others : Nat, faults : Nat]
  BY SpendIsOk DEF OtherSends, CapacityInv
<1>3. rows \in [Items -> Row] /\ (\A i \in Items : TrueRow(i, rows[i], server))
      /\ \A i \in I : rows[i] = server[i]
  BY <1>0, PartIsTrue DEF Part
<1>4. what \in [Items -> Content] /\ \A i \in I : what[i] = body
  BY DEF Content
<1>5. NoFlush \in Flush /\ NoFlush.base = None(0)
  BY <1>0, FreshIsOk DEF OkFlush, OkWrite, NoFlush
<1> HIDE DEF rows, what
<1>6. /\ w \in Flush /\ w.pc = pc /\ w.phase = "checked" /\ w.items = I /\ w.rows = rows
      /\ w.body = what /\ w.base = None(0)
  BY <1>3, <1>4, <1>5 DEF Flush, Writes, Phases
<1> HIDE DEF w
<1>7. \A i \in Items : Noted(i, None(0)[i], server, seen)
  BY <1>0 DEF None, Noted, OkServer, Row
<1>8. \A i \in Items : Safe(w, i, seen)
  BY <1>3, <1>4, <1>6 DEF Safe
<1>9. OkWrite(w, server, seen, overlapped)
  BY <1>3, <1>6, <1>7, <1>8 DEF OkWrite
<1> QED BY <1>1, <1>2, <1>6, <1>9 DEF CapacityInv

LEMMA OthersKeep ==
    ASSUME CapacityInv, OtherClears \/ \E i \in Items : OtherChanges(i)
    PROVE  CapacityInv'
<1>0. server \in [Items -> Row] /\ used.others \in Nat /\ Loaded \in SUBSET Items
  BY DEF CapacityInv, OkServer, Loaded, Items
<1>1. CASE OtherClears
  <2>1. "clear" \in Writes /\ "clear" \notin Saves /\ {} \in Content
    BY DEF Writes, Saves, Content
  <2>2. OtherSends("clear", Loaded, {})
    BY <1>1 DEF OtherClears
  <2> QED BY <1>0, <2>1, <2>2, OtherSendsKeeps
<1>2. ASSUME NEW i \in Items, OtherChanges(i) PROVE CapacityInv'
  <2> DEFINE pc == IF i = Switches THEN "switches" ELSE "whole"
             body == server[i].content \cup {MaxEdits + used.others + 1}
  <2>1. pc \in Writes /\ {i} \in SUBSET Items
    BY DEF Writes
  <2>2. body \in Content /\ \A j \in {i} : server[j].content \subseteq body
    BY <1>0, ConstantsAssumption DEF Row, Content
  <2>3. OtherSends(pc, {i}, body)
    BY <1>2 DEF OtherChanges
  <2> HIDE DEF pc, body
  <2> QED BY <2>1, <2>2, <2>3, OtherSendsKeeps
<1> QED BY <1>1, <1>2

(* What is left of a flush in the server's hands is in order.              *)
LEMMA LeftIsOk ==
    ASSUME CapacityInv, NEW w \in Left
    PROVE  OkWrite(w, server, seen, overlapped) /\ w.pc \in Writes \cup {"off"}
<1>1. CASE w = away
  BY <1>1 DEF CapacityInv
<1>2. CASE w = Abandoned(flush) /\ flush.pc \in Writes
  <2>0. flush \in Flush /\ OkWrite(flush, server, seen, overlapped)
    BY SeenMore DEF OkFlush
  <2>1. NoFlush \in Flush
    BY FreshIsOk DEF CapacityInv, OkFlush, OkWrite
  <2>2. /\ w \in Flush /\ w.pc = flush.pc /\ w.phase = flush.phase /\ w.items = flush.items
        /\ w.base = flush.base /\ w.body = flush.body /\ w.rows = flush.rows
    BY <1>2, <2>0, <2>1 DEF Abandoned, Flush
  <2> QED BY <1>2, <2>0, <2>2 DEF OkWrite, Safe
<1> QED BY <1>1, <1>2 DEF Left

(* a loss,                                                                 *)
LEMMA LostKeeps ==
    ASSUME CapacityInv, Lost
    PROVE  CapacityInv'
<1> DEFINE f == [flush EXCEPT !.phase = "failed"]
           k == [check EXCEPT !.phase = "failed"]
<1>0. /\ OkFlush(flush, server, seen, overlapped) /\ OkCheck(check, server, overlapped)
      /\ OkWrite(flush, server, seen, overlapped) /\ flush \in Flush /\ check \in Check
      /\ flush.rows \in [Items -> Row] /\ flush.items \in SUBSET Items
  BY SeenMore DEF OkFlush, Flush
<1>1. /\ UNCHANGED <<server, plan, ctx, seen, overlapped>>
      /\ \/ flush' = f /\ UNCHANGED check /\ away' \in Left
         \/ check' = k /\ UNCHANGED <<flush, away>>
  BY DEF Lost
<1>2. used' \in [edits : Nat, others : Nat, faults : Nat]
  BY SpendIsOk DEF Lost, CapacityInv
<1>3. OkFlush(f, server, seen, overlapped)
  <2>4. OkWrite(f, server, seen, overlapped) /\ f.body = flush.body /\ f.kept = flush.kept
    BY <1>0, WriteEnds
  <2> HIDE DEF f
  <2> QED BY <1>0, <2>4 DEF OkFlush
<1>4. OkCheck(k, server, overlapped)
  <2>1. k \in Check /\ k.rows = check.rows
    BY <1>0 DEF Check, Phases
  <2> HIDE DEF k
  <2> QED BY <1>0, <2>1 DEF OkCheck
<1>5. OkWrite(away', server, seen, overlapped) /\ away'.pc \in Writes \cup {"off"}
  BY <1>1, LeftIsOk DEF CapacityInv
<1> HIDE DEF f, k
<1> QED BY <1>1, <1>2, <1>3, <1>4, <1>5 DEF CapacityInv

(* and a page load keep the invariant.                                     *)
LEMMA PageReloadsKeeps ==
    ASSUME CapacityInv, PageReloads
    PROVE  CapacityInv'
<1>1. /\ ctx' = NewCtx /\ flush' = NoFlush /\ check' = Starting /\ away' \in Left
      /\ UNCHANGED <<server, plan, seen, overlapped>>
  BY Zenon DEF PageReloads
<1>2. used' \in [edits : Nat, others : Nat, faults : Nat]
  BY SpendIsOk DEF PageReloads, CapacityInv
<1>3. OkServer(server)
  BY DEF CapacityInv
<1>4. /\ OkContext(NewCtx, server, seen, overlapped) /\ OkFlush(NoFlush, server, seen, overlapped)
      /\ OkCheck(Starting, server, overlapped) /\ OkWrite(away', server, seen, overlapped)
      /\ away'.pc \in Writes \cup {"off"}
  BY <1>1, <1>3, FreshIsOk, LeftIsOk
<1> QED BY <1>1, <1>2, <1>4 DEF CapacityInv

-----------------------------------------------------------------------------
(* The invariant holds at first,                                           *)
LEMMA InitIsOk == Init => CapacityInv
<1> SUFFICES ASSUME Init PROVE CapacityInv
  OBVIOUS
<1>1. OkServer(server)
  BY DEF Init, OkServer, Row, NoRow, Content
<1>2. OkPlan(plan, seen)
  BY DEF Init, OkPlan, None, Content, Items
<1>3. seen \in Content /\ 0 \in seen /\ overlapped \subseteq Items
      /\ used \in [edits : Nat, others : Nat, faults : Nat]
  BY DEF Init, Content
<1>4. /\ OkContext(ctx, server, seen, overlapped) /\ OkFlush(flush, server, seen, overlapped)
      /\ OkCheck(check, server, overlapped) /\ OkWrite(away, server, seen, overlapped)
  BY <1>1, FreshIsOk DEF Init, OkFlush
<1>5. away.pc = "off"
  BY DEF Init, NoFlush
<1> QED BY <1>1, <1>2, <1>3, <1>4, <1>5 DEF CapacityInv

(* and every step keeps it.                                                *)
LEMMA NextKeeps == CapacityInv /\ [Next]_vars => CapacityInv'
<1> SUFFICES ASSUME CapacityInv, [Next]_vars PROVE CapacityInv'
  OBVIOUS
<1>1. CASE Edits
  BY <1>1, EditsKeep
<1>2. CASE TimerFires \/ PollFires
  BY <1>2, TimerFiresKeeps, PollFiresKeeps
<1>3. CASE Flushes
  BY <1>3, ClearingKeeps, WholeSentKeeps, CellSentKeeps, SwitchesSentKeeps, AllSentKeeps,
     RefusedKeeps, ReloadedKeeps, FlushFailsKeeps DEF Flushes
<1>4. CASE Checks
  BY <1>4, StateHereKeeps, SheetsHereKeeps, SwitchesHereKeeps, CheckFailsKeeps DEF Checks
<1>5. CASE Serves \/ ServeCheck \/ AwayServed
  BY <1>5, ServeWriteKeeps, ServeFlushReadKeeps, ServeCheckKeeps, AwayServedKeeps DEF Serves
<1>6. CASE Lost \/ PageReloads
  BY <1>6, LostKeeps, PageReloadsKeeps
<1>7. CASE OtherClears \/ \E i \in Items : OtherChanges(i)
  BY <1>7, OthersKeep
<1>8. CASE UNCHANGED vars
  BY <1>8 DEF vars, CapacityInv
<1> QED BY <1>1, <1>2, <1>3, <1>4, <1>5, <1>6, <1>7, <1>8 DEF Next

(* The inductive invariant holds in every reachable state: versions the    *)
(* page has noted, and answers and writes under way, are true of the       *)
(* documents whose versions tell their contents apart.                     *)
THEOREM Invariance == Spec => []CapacityInv
BY InitIsOk, NextKeeps, PTL DEF Spec

(* Every variable keeps its type, whatever the bounds (sync.ts:85-104).    *)
THEOREM TypeCorrect == Spec => []TypeOK
<1>1. CapacityInv => TypeOK
  BY DEF CapacityInv, TypeOK, OkServer, OkPlan, OkContext, OkFlush, OkWrite, OkCheck
<1> QED BY <1>1, Invariance, PTL

(* Whatever requests overlap, of this page and of others, and whatever is  *)
(* lost: what other people put into a document leaves it only by a clearing*)
(* or by a save of a page that has loaded it, unless the document was      *)
(* written over a row other than the one checked, or is not the first of   *)
(* its item (sync.ts:307-350, service.py:302-307, 380-398).                *)
THEOREM UnseenChangesAreKept == Spec => UnseenIsKept
<1> DEFINE AllKept == \A i \in Items : Kept(i)
<1>1. ASSUME CapacityInv, [Next]_vars PROVE AllKept
  <2>1. CASE UNCHANGED server
    BY <2>1 DEF Kept
  <2>2. CASE ServeWrite
    BY <1>1, <2>2, ServeWriteKeeps
  <2>3. CASE AwayServed
    BY <1>1, <2>3, AwayServedKeeps
  <2>4. CASE OtherClears \/ \E i \in Items : OtherChanges(i)
    BY <2>1, <2>4, Zenon DEF OtherClears, OtherChanges, OtherSends
  <2>5. CASE Edits
    BY <2>1, <2>5, Zenon DEF Edits, Import, EditCell, SetSwitches, ClearData
  <2>6. CASE TimerFires \/ PollFires \/ ServeFlushRead \/ ServeCheck \/ Lost \/ PageReloads
    BY <2>1, <2>6, Zenon DEF TimerFires, PollFires, ServeFlushRead, ServeCheck, Lost, PageReloads
  <2>7. CASE Flushes
    BY <2>1, <2>7, Zenon DEF Flushes, Clearing, WholeSent, CellSent, SwitchesSent, AllSent,
       Refused, Reloaded, FlushFails
  <2>8. CASE Checks
    BY <2>1, <2>8, Zenon DEF Checks, StateHere, SheetsHere, SwitchesHere, CheckFails
  <2>9. CASE UNCHANGED vars
    BY <2>1, <2>9 DEF vars
  <2> HIDE DEF AllKept
  <2> QED BY <1>1, <2>2, <2>3, <2>4, <2>5, <2>6, <2>7, <2>8, <2>9, Zenon DEF Next, Serves
<1>2. CapacityInv /\ [Next]_vars => [AllKept]_vars
  BY <1>1
<1>3. UnseenIsKept <=> [][AllKept]_vars
  BY DEF UnseenIsKept, Kept
<1> QED BY <1>2, <1>3, Invariance, PTL DEF Spec
=============================================================================
