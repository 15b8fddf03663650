---------------------------- MODULE MCSlotOffers ----------------------------
(* Instances of SlotOffers for TLC.                                        *)
EXTENDS SlotOffers

MCSlot(kind, from, to) == [kind |-> kind, channel |-> "phone", start |-> from, end |-> to]

MCShift(from, to, ot) ==
    [start |-> from, end |-> to, channels |-> {}, breaks |-> {}, activities |-> {}, ot |-> ot]

MCOvertime(from) == [id |-> <<from + 10, 0>>, kind |-> "phone", start |-> from, end |-> from + 1]

(* A short shift and a long one; time off that reaches beyond the long; and*)
(* overtime slots that straddle the end of the one and fill the gaps of    *)
(* overtime after the other, so that blocks are merged, and cut twice.     *)
MCWindow ==
    [vto |-> MCSlot("vto", 2, 5), leave |-> MCSlot("leave", 0, 7),
     late |-> MCSlot("ot", 3, 4), later |-> MCSlot("ot", 5, 6)]
MCDays == [a1 |-> MCShift(1, 2, {MCOvertime(2), MCOvertime(4), MCOvertime(6)}),
           a2 |-> MCShift(1, 4, {})]

(* The last slot is the one that suits both agents.                       *)
MCCapacities == [vto |-> {1}, late |-> {1}, later |-> {1, 2}]

MCAnyone == {DOMAIN MCDays}
=============================================================================
