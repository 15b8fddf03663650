------------------------------- MODULE Copies -------------------------------
(***************************************************************************)
(* What keeping a browser in step with the server promises, without calls, *)
(* timers and failures (frontend/src/lib/scheduleSync.ts:1-14,             *)
(* frontend/src/lib/settingsSync.ts:1-14): a save gives each item it names *)
(* the version after one the item has had, touches no other item, and      *)
(* takes nothing back of what the server has held; what a browser takes    *)
(* for the server's copy of an item is a row the server really had, or     *)
(* acknowledged.                                                           *)
(***************************************************************************)
EXTENDS Naturals

CONSTANTS
    Groups,     \* what is kept together: the days of a date, the settings
    Items,      \* what is versioned: an agent's day, a setting
    Rows,       \* an item's versions, with their contents
    Nothing     \* no copy is known

VARIABLES
    history,   \* the rows the server has stored, or answered a save with
    copy       \* per item, the row taken for the server's

vars == <<history, copy>>

(* What is known at one time is of one group.                              *)
Faithful == \E g \in Groups : \A i \in Items :
    copy[i] # Nothing => copy[i] \in history[g][i]

Init == history \in [Groups -> [Items -> SUBSET Rows]] /\ Faithful

(* One save: the row as it is stored, and as its author is told it is.     *)
Grown(old, new) == \E r, q \in new :
    /\ {r, q} \subseteq Rows
    /\ new = old \cup {r, q}
    /\ r.version = q.version
    /\ \/ r.version = 1
       \/ \E o \in old : r.version = o.version + 1

(* Somebody saves the items I of a group.                                  *)
Save(g, I) ==
    /\ \A h \in Groups, i \in Items :
           IF h = g /\ i \in I THEN Grown(history[h][i], history'[h][i])
           ELSE history'[h][i] = history[h][i]
    /\ UNCHANGED copy

(* The browser learns of, or forgets, the server's copies.                 *)
Learn == UNCHANGED history /\ Faithful'

Next == Learn \/ \E g \in Groups, I \in SUBSET Items : Save(g, I)

Spec == Init /\ [][Next]_vars
=============================================================================
