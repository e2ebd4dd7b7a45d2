----------------------------- MODULE TokenCustody -----------------------------
(***************************************************************************)
(* What the handling of a single-use refresh token promises: the current   *)
(* token is in the row of the connection, or one keeper carries its        *)
(* successor back to the row. Two keepers would mean that one of them has  *)
(* spent a token that the other still needs. "void" is a token given up.   *)
(***************************************************************************)
EXTENDS Naturals

CONSTANT Keeper     \* who may exchange the token

VARIABLES token, keeper

vars == <<token, keeper>>

Init == token \in {0, 1} /\ keeper = "row"

\* A keeper spends the token in the row and holds its successor.
Exchange(k) == keeper = "row" /\ keeper' = k /\ token' > token

\* The successor is written to the row.
Store == keeper \in Keeper /\ keeper' = "row" /\ token' = token

GiveUp == keeper' = "void" /\ token' = 0

Next == (\E k \in Keeper : Exchange(k)) \/ Store \/ GiveUp

Spec == Init /\ [][Next]_vars

=============================================================================
