-------------------------------- MODULE Custody --------------------------------
(***************************************************************************)
(* Where the Discord grant of a linked account may be.  Discord replaces   *)
(* a grant on every refresh, and tells its successor to one caller only;   *)
(* so each grant is in one pair of hands, in the stored row, or lost.      *)
(*                                                                         *)
(* There are no requests, polls, attempts or expiries here: Grant, which   *)
(* has them, implements this specification.                                *)
(***************************************************************************)
EXTENDS Naturals

VARIABLES
    issued,    \* the number of the last grant Discord issued
    live,      \* grants whose refresh token Discord accepts
    withdrawn, \* grants of an access the account's owner has withdrawn
    row,       \* the stored grant, or NoGrant
    hands,     \* grants that somebody has been told and has yet to store
    lost       \* grants that will never be stored, or may not have been

vars == <<issued, live, withdrawn, row, hands, lost>>

NoGrant == 0

Init ==
    /\ issued = 1
    /\ live = {1}
    /\ withdrawn = {}
    /\ row = 1
    /\ hands = {}
    /\ lost = {}

\* A new grant is told to somebody, or its answer is lost.
Tell ==
    /\ issued' = issued + 1
    /\ \/ hands' = hands \cup {issued + 1} /\ UNCHANGED lost
       \/ lost' = lost \cup {issued + 1} /\ UNCHANGED hands
    /\ UNCHANGED <<withdrawn, row>>

\* A refresh spends grant g, which is in nobody's hands.
Refresh(g) ==
    /\ g \in live \ hands
    /\ live' = (live \ {g}) \cup {issued + 1}
    /\ Tell

\* The owner authorizes the app (again).
Authorize ==
    /\ live' = live \cup {issued + 1}
    /\ Tell

\* Grant g is stored, and whoever had it is done with it; a write that was
\* reported to have failed leaves it in their hands.
Store(g) ==
    /\ g \in hands
    /\ row' = g
    /\ hands' \in {hands, hands \ {g}}
    /\ UNCHANGED <<issued, live, withdrawn, lost>>

\* Whoever had g has given up, whether or not their last write took effect.
Lose(g) ==
    /\ g \in hands
    /\ row' \in {row, g}
    /\ hands' = hands \ {g}
    /\ lost' = lost \cup {g}
    /\ UNCHANGED <<issued, live, withdrawn>>

Withdraw ==
    /\ withdrawn' = 1 .. issued
    /\ live' = {}
    /\ UNCHANGED <<issued, row, hands, lost>>

Erase ==
    /\ row' = NoGrant
    /\ UNCHANGED <<issued, live, withdrawn, hands, lost>>

Next ==
    \/ \E g \in live : Refresh(g)
    \/ Authorize
    \/ \E g \in hands : Store(g) \/ Lose(g)
    \/ Withdraw
    \/ Erase

Spec == Init /\ [][Next]_vars
=============================================================================
