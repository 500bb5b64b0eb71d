------------------------------- MODULE PairSwap -------------------------------
(***************************************************************************)
(* What the joint settlement of a pair promises its two traders: one        *)
(* statement settles it, at most once, only one both signed, and a trader   *)
(* is credited with that statement and no other.                            *)
(***************************************************************************)
EXTENDS Naturals

CONSTANTS Traders, Statements, None

VARIABLES signed,     \* statements each trader has signed
          settled,    \* the statement that settled the pair, or None
          credited    \* statements each trader was credited with

swapVars == <<signed, settled, credited>>

SwapInit ==
  /\ signed = [t \in Traders |-> {}]
  /\ settled = None
  /\ credited = [t \in Traders |-> {}]

SwapSign(t) ==
  /\ \E k \in Statements : signed' = [signed EXCEPT ![t] = @ \cup {k}]
  /\ UNCHANGED <<settled, credited>>

SwapSettle ==
  /\ settled = None
  /\ settled' \in {k \in Statements : \A t \in Traders : k \in signed[t]}
  /\ UNCHANGED <<signed, credited>>

SwapCredit(t) ==
  /\ settled # None
  /\ credited' = [credited EXCEPT ![t] = {settled}]
  /\ UNCHANGED <<signed, settled>>

SwapNext == SwapSettle \/ \E t \in Traders : SwapSign(t) \/ SwapCredit(t)

SwapSpec == SwapInit /\ [][SwapNext]_swapVars
=============================================================================
