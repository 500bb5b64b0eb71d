------------------------------ MODULE MCWallet ------------------------------
\* One wallet for TLC: two cash of token1 and one of token2; or, unequal, the smaller first.
EXTENDS TraderWallet

Note(token, amt, r) == [owner |-> Me, token |-> token, amt |-> amt, r |-> r]
MCGenesis == <<Note(Token1, 2, 1), Note(Token1, 2, 2), Note(Token2, 4, 3)>>
MCMixed == <<Note(Token1, 2, 1), Note(Token1, 3, 2)>>
=============================================================================
