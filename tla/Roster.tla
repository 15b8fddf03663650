-------------------------------- MODULE Roster --------------------------------
(***************************************************************************)
(* Who is on the roster, and on which work rule: hiring, leaving, coming   *)
(* back, schedule imports, and the shift patterns generated from work rules*)
(* (frontend/src/store/wfm.ts).  An agent's pattern is abstracted to the   *)
(* work rule it comes from, and a rule to its version.                     *)
(***************************************************************************)
EXTENDS Naturals, Sequences, FiniteSets, SequencesExt

CONSTANTS
    People, Rules,
    NoRule,      \* the rule of an agent whose pattern is an ordinary one
    Never,       \* the last working day of somebody who stays
    Staff,       \* who is employed at first
    LastDay,     \* bound: days that pass
    MaxOps       \* bound: changes made by users and by the server

ASSUME ConstantsAssumption ==
    /\ IsFiniteSet(People) /\ Staff \subseteq People /\ NoRule \notin Rules
    /\ LastDay \in Nat \ {0} /\ MaxOps \in Nat /\ Never \notin Nat

VARIABLES
    agents,     \* the roster
    board,      \* whom the real-time board shows
    ends,       \* the last working day in everybody's profile
    former,     \* those who have left, as they were
    rules,      \* the version of each work rule, 0 for none
    patterns,   \* the patterns generated, with the version of their rule
    today,
    imported,   \* history: who was imported after they had left
    stray,      \* history: rules of those who came back since patterns were made
    byHand,     \* history: generated patterns changed or removed by hand
    ops         \* how much of MaxOps is spent

vars == <<agents, board, ends, former, rules, patterns, today, imported, stray, byHand, ops>>

Agent == [id : People, rule : Rules \cup {NoRule}]
Ids(seq) == {seq[i].id : i \in DOMAIN seq}
Known == Ids(agents) \cup DOMAIN former

(* The items of a sequence at the places in K, in their order.             *)
Place(K, k) == CHOOSE i \in K : Cardinality({j \in K : j < i}) = k - 1
Kept(seq, K) == [k \in 1 .. Cardinality(K) |-> seq[Place(K, k)]]

(* The roster, and the board, without some people.                         *)
Except(seq, S) == Kept(seq, {i \in DOMAIN seq : seq[i].id \notin S})
OffBoard(seq, S) == Kept(seq, {i \in DOMAIN seq : seq[i] \notin S})

(* What find gets, of a roster that may list somebody twice.               *)
First(p) == agents[CHOOSE i \in DOMAIN agents : agents[i].id = p
                      /\ \A j \in DOMAIN agents : agents[j].id = p => i <= j]

(* agents with g changed for each of the ids in S.                         *)
OnRule(seq, S, r) == [i \in DOMAIN seq |-> IF seq[i].id \in S THEN [seq[i] EXCEPT !.rule = r]
                                           ELSE seq[i]]

Init ==
    /\ agents = SetToSeq({[id |-> p, rule |-> NoRule] : p \in Staff})
    /\ board = [i \in DOMAIN agents |-> agents[i].id]
    /\ ends = [p \in People |-> Never]
    /\ former = [p \in {} |-> p]
    /\ rules = [r \in Rules |-> 1]
    /\ patterns = [r \in {} |-> 0]
    /\ today = 1
    /\ imported = {} /\ stray = {} /\ byHand = {} /\ ops = 0

Counted == ops < MaxOps /\ ops' = ops + 1

-----------------------------------------------------------------------------
(* Employment *)

Terminated(end, p) == end[p] # Never /\ end[p] < today

(* Mutants: those who come back are missing on the board; those who have   *)
(* left once and were imported since stay.                                 *)
SettledOffBoard(end, past) ==
    LET leaving == {p \in Ids(agents) : Terminated(end, p)}
        returning == {p \in DOMAIN past : ~Terminated(end, p)}
    IN  /\ agents' = Except(agents, leaving) \o SetToSeq({past[p] : p \in returning})
        /\ board' = OffBoard(board, leaving)
        /\ former' = [p \in (DOMAIN past \ returning) \cup leaving |->
                         IF p \in leaving THEN [id |-> p, rule |-> NoRule] ELSE past[p]]
        /\ imported' = imported \ leaving
        /\ stray' = stray \cup {past[p].rule : p \in returning}

SettledOnce(end, past) ==
    LET leaving == {p \in Ids(agents) \ DOMAIN past : Terminated(end, p)}
        returning == {p \in DOMAIN past : ~Terminated(end, p)}
        back == SetToSeq({past[p] : p \in returning})
    IN  /\ agents' = Except(agents, leaving) \o back
        /\ board' = OffBoard(board, leaving)
                        \o [i \in DOMAIN back |-> back[i].id]
        /\ former' = [p \in (DOMAIN past \ returning) \cup leaving |->
                         IF p \in leaving THEN [id |-> p, rule |-> NoRule] ELSE past[p]]
        /\ imported' = imported \ leaving
        /\ stray' = stray \cup {past[p].rule : p \in returning}

(* settle: those past their last working day leave, those whose last day   *)
(* was cleared or moved come back, at the end; past is who had left before.*)
Settled(end, past) ==
    LET leaving == {p \in Ids(agents) : Terminated(end, p)}
        returning == {p \in DOMAIN past : ~Terminated(end, p)}
        back == SetToSeq({past[p] : p \in returning})
        Latest(p) == agents[CHOOSE i \in DOMAIN agents : agents[i].id = p
                              /\ \A j \in DOMAIN agents : agents[j].id = p => j <= i]
    IN  IF leaving \cup returning = {} THEN former' = past /\ UNCHANGED <<agents, board, imported, stray>>
        ELSE /\ agents' = Except(agents, leaving) \o back
             /\ board' = OffBoard(board, leaving) \o [i \in DOMAIN back |-> back[i].id]
             /\ former' = [p \in (DOMAIN past \ returning) \cup leaving |->
                              IF p \in leaving THEN Latest(p) ELSE past[p]]
             /\ imported' = imported \ leaving
             /\ stray' = stray \cup {past[p].rule : p \in returning}

(* addAgent and applyAutoSchedule: with a pattern of the list.             *)
AddAgent(p, r) ==
    /\ p \notin Known /\ ends[p] = Never
    /\ r \in {NoRule} \cup DOMAIN patterns
    /\ Counted
    /\ agents' = Append(agents, [id |-> p, rule |-> r])
    /\ board' = Append(board, p)
    /\ UNCHANGED <<ends, former, rules, patterns, today, imported, stray, byHand>>

(* Who has left as well as being on the roster becomes who is on it.       *)
SavedFormer(p) == [q \in DOMAIN former |-> IF q = p /\ p \in Ids(agents) THEN First(p) ELSE former[q]]

SaveEmployeeProfile(p, end) ==
    /\ p \in Known
    /\ Counted
    /\ ends' = [ends EXCEPT ![p] = end]
    /\ Settled(ends', SavedFormer(p))
    /\ UNCHANGED <<rules, patterns, today, byHand>>

(* At load, on a timer, and as midnight passes.                            *)
SettleEmployment ==
    /\ Settled(ends, former)
    /\ UNCHANGED <<ends, rules, patterns, today, byHand, ops>>

(* Mutant: the deleted employee's profile leaves a hole.                   *)
DeleteEmployeeWhole(p) ==
    /\ p \in Known /\ Terminated(ends, p)
    /\ Counted
    /\ agents' = Except(agents, {p})
    /\ board' = OffBoard(board, {p})
    /\ ends' = [q \in People \ {p} |-> ends[q]]
    /\ former' = [q \in DOMAIN former \ {p} |-> former[q]]
    /\ imported' = imported \ {p}
    /\ UNCHANGED <<rules, patterns, today, stray, byHand>>

(* deleteEmployee, which the profile page offers of those who have left.   *)
DeleteEmployee(p) ==
    /\ p \in Known /\ Terminated(ends, p)
    /\ Counted
    /\ agents' = Except(agents, {p})
    /\ board' = OffBoard(board, {p})
    /\ ends' = [ends EXCEPT ![p] = Never]
    /\ former' = [q \in DOMAIN former \ {p} |-> former[q]]
    /\ imported' = imported \ {p}
    /\ UNCHANGED <<rules, patterns, today, stray, byHand>>

(* setAgents: the people of an imported file are the roster; it has shifts *)
(* but no patterns.                                                        *)
SetAgents(S) ==
    /\ Counted
    /\ agents' = SetToSeq({[id |-> p, rule |-> NoRule] : p \in S})
    /\ board' = [i \in DOMAIN agents' |-> agents'[i].id]
    /\ imported' = S \cap DOMAIN former
    /\ UNCHANGED <<ends, former, rules, patterns, today, stray, byHand>>

Midnight ==
    /\ today < LastDay
    /\ today' = today + 1
    /\ UNCHANGED <<agents, board, ends, former, rules, patterns, imported, stray, byHand, ops>>

-----------------------------------------------------------------------------
(* Work rules *)

(* Mutant: the patterns are made from the rules as they were.              *)
WithRulePatternsBefore(seq, rs) ==
    [r \in {seq[i].rule : i \in DOMAIN seq} \cap {r \in Rules : rs[r] # 0} |-> rules[r]]

(* withRulePatterns: the patterns of the rules that somebody on the roster *)
(* is on, made anew; the others go.                                        *)
WithRulePatterns(seq, rs) ==
    [r \in {seq[i].rule : i \in DOMAIN seq} \cap {r \in Rules : rs[r] # 0} |-> rs[r]]

Ruled(seq, rs) ==
    /\ agents' = seq /\ rules' = rs
    /\ patterns' = WithRulePatterns(seq, rs)
    /\ byHand' = {} /\ stray' = {}
    /\ UNCHANGED <<board, ends, former, today, imported>>

(* A new rule has an id nobody is on.                                      *)
Unused(r) ==
    \A g \in {agents[i] : i \in DOMAIN agents} \cup {former[p] : p \in DOMAIN former} : g.rule # r

AddWorkRule(r) ==
    /\ rules[r] = 0 /\ Unused(r)
    /\ Counted
    /\ rules' = [rules EXCEPT ![r] = 1]
    /\ UNCHANGED <<agents, board, ends, former, patterns, today, imported, stray, byHand>>

Updated(rs, r) == [rs EXCEPT ![r] = IF @ = 0 THEN 0 ELSE @ + 1]

UpdateWorkRule(r) == rules[r] # 0 /\ Counted /\ Ruled(agents, Updated(rules, r))

OffRule(seq, r) ==
    [i \in DOMAIN seq |-> IF seq[i].rule = r THEN [seq[i] EXCEPT !.rule = NoRule] ELSE seq[i]]

RemoveWorkRule(r) ==
    rules[r] # 0 /\ Counted /\ Ruled(OffRule(agents, r), [rules EXCEPT ![r] = 0])

AssignWorkRule(S, r) ==
    /\ r # NoRule => rules[r] # 0
    /\ Counted
    /\ Ruled(OnRule(agents, S, r), rules)

(* importWorkRules: a rule is updated or added, and people are put on it.  *)
ImportWorkRules(S, r) ==
    /\ rules[r] = 0 => Unused(r)
    /\ Counted /\ Ruled(OnRule(agents, S, r), [rules EXCEPT ![r] = @ + 1])

(* applyServerSettings: rules, and who is on which, as somebody else has   *)
(* saved them; the two are settings of their own and may not fit together. *)
ApplyServerSettings(S, r, q, version) ==
    Counted /\ Ruled(OnRule(agents, S, r), [rules EXCEPT ![q] = version])

(* updateShiftPattern and removeShiftPattern of a generated pattern.       *)
ChangePatternByHand(r) ==
    /\ r \in DOMAIN patterns
    /\ Counted
    /\ patterns' \in {[patterns EXCEPT ![r] = 0], [q \in DOMAIN patterns \ {r} |-> patterns[q]]}
    /\ byHand' = byHand \cup {r}
    /\ UNCHANGED <<agents, board, ends, former, rules, today, imported, stray>>

(* swapShifts: two agents exchange their patterns.                         *)
Swap(p, q) ==
    /\ {p, q} \subseteq Ids(agents) /\ p # q
    /\ Counted
    /\ agents' = [i \in DOMAIN agents |->
           CASE agents[i].id = p -> [agents[i] EXCEPT !.rule = First(q).rule]
             [] agents[i].id = q -> [agents[i] EXCEPT !.rule = First(p).rule]
             [] OTHER -> agents[i]]
    /\ UNCHANGED <<board, ends, former, rules, patterns, today, imported, stray, byHand>>

-----------------------------------------------------------------------------
Next ==
    \/ \E p \in People, r \in Rules \cup {NoRule} : AddAgent(p, r)
    \/ \E p \in People, end \in {Never} \cup 0..LastDay : SaveEmployeeProfile(p, end)
    \/ SettleEmployment \/ Midnight
    \/ \E p \in People : DeleteEmployee(p)
    \/ \E S \in (SUBSET People) \ {{}} : SetAgents(S)
    \/ \E r \in Rules : AddWorkRule(r) \/ UpdateWorkRule(r) \/ RemoveWorkRule(r)
    \/ \E S \in SUBSET People, r \in Rules \cup {NoRule} : AssignWorkRule(S, r)
    \/ \E S \in SUBSET People, r \in Rules : ImportWorkRules(S, r)
    \/ \E S \in SUBSET People, r \in Rules \cup {NoRule}, q \in Rules, version \in 0..3 :
           ApplyServerSettings(S, r, q, version)
    \/ \E r \in Rules : ChangePatternByHand(r)
    \/ \E p, q \in People : Swap(p, q)

Spec == Init /\ [][Next]_vars

(* The app settles employment on a timer.                                  *)
FairSpec == Spec /\ WF_vars(SettleEmployment)

-----------------------------------------------------------------------------
(* Properties *)

(* The types of all variables.                                             *)
TypeOK ==
    /\ agents \in Seq(Agent) /\ board \in Seq(People)
    /\ ends \in [People -> Nat \cup {Never}]
    /\ DOMAIN former \subseteq People /\ \A p \in DOMAIN former : former[p] \in Agent
    /\ rules \in [Rules -> Nat]
    /\ DOMAIN patterns \subseteq Rules
    /\ today \in 1..LastDay /\ ops \in Nat
    /\ imported \subseteq People /\ byHand \subseteq Rules /\ stray \subseteq Rules \cup {NoRule}

(* The real-time board shows exactly the roster, and nobody twice; nobody  *)
(* is both on the roster and among those who have left, imports of people  *)
(* who have left aside (wfm.ts:173-203, 659-742, 755-760).                 *)
BoardIsRoster ==
    /\ Len(board) = Len(agents) /\ {board[i] : i \in DOMAIN board} = Ids(agents)
    /\ \A i \in DOMAIN agents : \A j \in DOMAIN agents :
           i # j /\ agents[i].id = agents[j].id => agents[i].id \in imported
    /\ (Ids(agents) \cap DOMAIN former) \subseteq imported

(* Whoever is past their last working day comes off the roster, unless that*)
(* day is moved (wfm.ts:173-203, 721-725; automation-runner.tsx:39-45).    *)
LeaversLeave == \A p \in People :
    (p \in Ids(agents) /\ Terminated(ends, p))
        ~> ~(p \in Ids(agents) /\ Terminated(ends, p))

Fresh(g) == g.rule \in DOMAIN patterns /\ patterns[g.rule] = rules[g.rule]

OnARule(g) == g.rule # NoRule /\ rules[g.rule] # 0

(* Whoever is on a work rule has its pattern, made from the rule as it is  *)
(* now, unless the pattern was changed by hand or somebody has come back on*)
(* that rule since patterns were last made (wfm.ts:295-305, 844-974).      *)
PatternsFollowRules == \A i \in DOMAIN agents :
    OnARule(agents[i]) /\ agents[i].rule \notin byHand \cup stray => Fresh(agents[i])
===============================================================================
