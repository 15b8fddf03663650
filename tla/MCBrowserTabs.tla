---------------------------- MODULE MCBrowserTabs ----------------------------
(* Instances of BrowserTabs for TLC.                                       *)
EXTENDS BrowserTabs, TLC

CONSTANTS a, b, early

MCDates == {1, 2}
MCShiftOf == early :> "07-15"
MCRoster == a :> [shift |-> "07-15", pattern |-> early, off |-> {}]
MCBoth == MCRoster @@ b :> [shift |-> "12-20", pattern |-> NoPattern, off |-> {2}]
MCNoSwap == [from |-> a, to |-> a, status |-> "none"]
MCSwap == [from |-> a, to |-> b, status |-> "Pending"]
=============================================================================
