------------------------------- MODULE MCLedger -------------------------------
(***************************************************************************)
(* Instances of CashLedger for TLC: deposits, withdrawals and restarts.     *)
(***************************************************************************)
EXTENDS CashLedger, TLC

CONSTANTS alice, bob, usdt, g, r1

\* One cash seeded at genesis, which a withdrawal can spend before a restart seeds again.
OneSeed == {Cash(alice, usdt, 1, g)}
=============================================================================
