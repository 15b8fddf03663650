----------------------------- MODULE MCDayEdits -----------------------------
(* Instances of DayEdits for TLC, in slots of half the shortest block.     *)
EXTENDS DayEdits

MCBlock(i, kind, from, to) == [id |-> i, kind |-> kind, start |-> from, end |-> to]

MCShift(from, to, zones, channels) ==
    [start |-> from, end |-> to, channels |-> channels, breaks |-> {}, activities |-> {}, ot |-> {},
     noBreak |-> zones]

MCNoIds == [l \in Layers |-> {}]
MCKinds == [channels |-> {"phone", "chat"}, breaks |-> {"break"}, activities |-> {"meeting"},
            ot |-> {"phone", "chat"}]

MCRule(length, breaks, zones) == [length |-> length, breaks |-> breaks, zones |-> zones]
MCBreak(kind, minutes) == [kind |-> kind, minutes |-> minutes]

(* Edits inside a shift: two channels that share an edge, a break over it. *)
MCInside ==
    [ids  |-> [MCNoIds EXCEPT !.channels = {1, 2}, !.breaks = {1}],
     kinds |-> MCKinds,
     uses |-> {"mark", "move"}, drags |-> {"shift"} \cup Layers,
     defaults |-> <<<<"chat">>>>, rules |-> <<{}>>,
     days |-> <<[MCShift(1, 7, <<1, 1>>, {MCBlock(1, "chat", 1, 4), MCBlock(2, "phone", 4, 7)})
                    EXCEPT !.breaks = {MCBlock(1, "break", 3, 5)}]>>]

(* Channels entered in the schedule dialog, and drags among them.          *)
MCEntered ==
    [MCInside EXCEPT !.uses = {"schedule"}, !.defaults = <<<<"chat", "phone">>>>,
                     !.ids = [MCNoIds EXCEPT !.channels = {1, 2}],
                     !.days = <<MCShift(2, 6, <<0, 0>>, {MCBlock(1, "chat", 2, 6)})>>]

(* A day with one channel and room around it, for overtime.                *)
MCOvertime ==
    [MCEntered EXCEPT !.ids = [MCNoIds EXCEPT !.channels = {1}, !.ot = {1, 2}],
                      !.kinds.channels = {"chat"}, !.defaults = <<<<"chat">>>>,
                      !.uses = {"overtime"}]

(* Overtime of any length entered in the schedule dialog, and dragged.     *)
MCEnteredOvertime ==
    [MCOvertime EXCEPT !.uses = {"schedule"}, !.drags = {"ot"}, !.ids.ot = {1}, !.kinds.ot = {"chat"}]

(* Two agents, one on a shorter shift, who follow each other's activities. *)
MCFollowers ==
    [MCInside EXCEPT !.ids  = [MCNoIds EXCEPT !.activities = {1}],
                     !.uses = {"mark"}, !.drags = {"activities"},
                     !.defaults = <<<<"chat">>, <<"chat">>>>, !.rules = <<{}, {}>>,
                     !.days = <<MCShift(1, 7, <<0, 0>>, {}), MCShift(1, 6, <<0, 0>>, {})>>]

(* Two agents whose shifts are dragged together over their breaks; one     *)
(* of them has a no-break zone.                                            *)
MCPair ==
    [MCFollowers EXCEPT !.ids = [MCNoIds EXCEPT !.breaks = {1}], !.uses = {},
                        !.drags = {"shift"},
                        !.days = <<[MCShift(1, 5, <<0, 0>>, {}) EXCEPT !.breaks = {MCBlock(1, "break", 2, 4)}],
                                   [MCShift(2, 7, <<1, 0>>, {}) EXCEPT !.breaks = {MCBlock(1, "break", 3, 5)}]>>]

(* An agent on a work rule, with meetings and overtime, and one whose rule *)
(* runs past midnight.                                                     *)
MCRuled(start) ==
    [MCInside EXCEPT
       !.ids  = [MCNoIds EXCEPT !.channels = {1}, !.breaks = {1}, !.activities = {1}, !.ot = {1}],
       !.uses = {"align", "mark", "overtime", "move"}, !.drags = {},
       !.kinds.ot = {"chat"},
       !.rules = <<{[rule |-> MCRule(6, <<MCBreak("break", 2)>>, <<1, 2>>), start |-> start]}>>,
       !.days = <<MCShift(2, 6, <<1, 2>>, {MCBlock(1, "chat", 2, 6)})>>]

MCLate == [MCRuled(4) EXCEPT !.uses = {"align"}]

(* Three agents whose channels are planned, on shifts that begin at        *)
(* different times, the first with overtime and the second in a meeting.   *)
MCPlanned(x, y, z) ==
    [MCInside EXCEPT
       !.ids  = [MCNoIds EXCEPT !.channels = {1, 2, 3, 4}, !.activities = {1}, !.ot = {1}],
       !.kinds.channels = {"phone", "chat", "email"},
       !.uses = {"plan", "align"}, !.drags = {},
       !.defaults = <<<<"phone">>, <<"phone">>, <<"chat">>>>, !.rules = <<{}, {}, {}>>,
       !.days = <<[MCShift(x, x + 4, <<0, 0>>, {MCBlock(1, "phone", x, x + 4)})
                      EXCEPT !.ot = {MCBlock(1, "phone", x + 4, x + 6)}],
                  [MCShift(y, y + 5, <<0, 0>>, {MCBlock(1, "chat", y, y + 5)})
                      EXCEPT !.activities = {MCBlock(1, "meeting", y + 1, y + 3)}],
                  MCShift(z, z + 6, <<0, 0>>, {MCBlock(1, "email", z, z + 6)})>>]

MCTeams ==
    {MCInside, MCEntered, MCOvertime, MCEnteredOvertime, MCFollowers, MCPair, MCRuled(1), MCLate}
    \cup {MCPlanned(x, y, z) : x \in 0 .. 2, y \in {0, 2}, z \in {0, 2}}
MCDrags == {-8, -1, 1, 8}
MCDeltas == {-1, 1}
MCNeeds == {<<1, 2, 1, 0>>, <<2, 0, 3, 1>>}
MCRules ==
    [length : 4 .. 7, zones : (0 .. 2) \X (0 .. 2),
     breaks : UNION {[1 .. n -> [kind : {"break", "lunch"}, minutes : 1 .. 2]] : n \in 0 .. 2}]
MCCompliance == [breakAfter |-> {4}, maxContinuous |-> {4}, lunchAfter |-> {5}, minLunch |-> 2]
=============================================================================
