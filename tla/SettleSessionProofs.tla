------------------------- MODULE SettleSessionProofs -------------------------
(***************************************************************************)
(* Type correctness of SettleSession, and, when the chain answers within    *)
(* the confirmation window, recovery runs at rest and every flush succeeds: *)
(* whatever the chain can land is on both disks, and the joint settlement   *)
(* implements the swap, for any number of sessions and crashes.             *)
(***************************************************************************)
EXTENDS SettleSession, TLAPS

\* An attempt whose prover is connected.
InSession == {"agreed", "witnessed", "signed", "proved", "confirming"}

\* The statement of the last session can still matter.
Live == landed # None \/ mempool # {} \/ \E t \in Traders : session[t] # None

\* No prover works on a statement but the last.
OnlyTheLast ==
  \A t \in Traders :
    /\ session[t] \in {None, sessions}
    /\ phase[t] \in InSession => session[t] = sessions /\ sessions # None
    /\ phase[t] \notin InSession \cup {"off"} => session[t] = None

\* What is opened is signed by both traders, and so is what is submitted or has landed: the
\* last statement.
SignedByBoth ==
  /\ \A t \in Traders :
       /\ signed[t] \subseteq 1 .. sessions
       /\ phase[t] \in {"signed", "proved", "confirming"} => sessions \in signed[t]
       /\ phase[t] = "off" /\ session[t] # None => sessions \in signed[t]
       /\ phase[t] \in {"proved", "confirming"} => \A u \in Traders : sessions \in signed[u]
  /\ \A k \in opened : \A u \in Traders : k \in signed[u]
  /\ mempool \subseteq {sessions}
  /\ mempool # {} => \A u \in Traders : sessions \in signed[u]
  /\ landed # None => landed = sessions /\ \A u \in Traders : sessions \in signed[u]

\* A submission keeps one trader from a new session until the chain answers it, and after
\* the settlement none begins.
Held(t) == phase[t] \in {"confirming", "off"} \/ (phase[t] = "idle" /\ recovery[t] = "due")
NoNewSession ==
  /\ mempool # {} /\ landed = None => \E t \in Traders : Held(t)
  /\ landed # None => \E t \in Traders : phase[t] \notin Listening

\* The wallets hold what landed, and so do the files.
Credited ==
  /\ \A t \in Traders : wallet[t] \subseteq {landed} \ {None}
  /\ saved = wallet

\* Recovery asks about a witness it has read.
AskedAfterReading ==
  \A t \in Traders : phase[t] # "off" /\ recovery[t] = "asked" => asked[t] # None

\* Recovery and the attempts exclude one another; nothing can land while it asks.
RecoveryAtRest ==
  \A t \in Traders :
    /\ phase[t] \in Attempting => recovery[t] = "done"
    /\ phase[t] # "off" /\ recovery[t] = "asked" =>
         /\ asked[t] = witness[t]
         /\ landed = None => mempool = {} /\ \A u \in Traders : session[u] = None

\* A signature is out only after the witness is on disk, where it stays.
WitnessFirst ==
  \A t \in Traders :
    /\ phase[t] \in InSession \ {"agreed"} => witness[t] = sessions
    /\ Live /\ sessions \in signed[t] => witness[t] = sessions \/ sessions \in wallet[t]

TInv == TypeOK /\ OnlyTheLast /\ AskedAfterReading
IInv == SignedByBoth /\ NoNewSession /\ Credited /\ RecoveryAtRest /\ WitnessFirst

-----------------------------------------------------------------------------
(* Type correctness.  A signature or a credit of no statement at all would break it: a
   prover that is connected works on a statement, and recovery asks about one. *)

\* The type invariant holds at first.
LEMMA TypeInit == Init => TInv
  BY SessionAssumption
  DEF Init, TInv, TypeOK, OnlyTheLast, AskedAfterReading, InSession, Statements, None, Attempting

\* Every step keeps the type of every variable.
LEMMA TypeStep ==
  ASSUME TInv, [Next]_vars
  PROVE  TypeOK'
<1>s. Statements \subseteq Nat /\ None \notin Statements /\ MaxSessions \in Nat /\ MaxQueue \in Nat
      /\ MaxCrashes \in Nat /\ FlushResults \subseteq BOOLEAN
  BY SessionAssumption DEF Statements, None
<1>1. ASSUME NEW k \in Statements, OpenProof(k) \/ Land(k) \/ Reject(k) PROVE TypeOK'
  BY <1>1, <1>s DEF TInv, TypeOK, OnlyTheLast, AskedAfterReading, InSession, Attempting,
    OpenProof, Land, Reject, chain, desk, books, start, proofs
<1>2. ASSUME NEW t \in Traders, Poll(t) PROVE TypeOK'
  BY <1>2, <1>s DEF TInv, TypeOK, OnlyTheLast, AskedAfterReading, InSession, Attempting, Poll,
    chain, books, start, proofs
<1>3. ASSUME NEW t \in Traders, Skip(t) PROVE TypeOK'
  BY <1>3, <1>s DEF TInv, TypeOK, OnlyTheLast, AskedAfterReading, InSession, Attempting, Skip,
    chain, books, start, proofs
<1>4. ASSUME NEW t \in Traders, Start(t) PROVE TypeOK'
  BY <1>4, <1>s DEF TInv, TypeOK, OnlyTheLast, AskedAfterReading, InSession, Attempting, Start,
    chain, books, start, proofs
<1>5. ASSUME NEW t \in Traders, Due(t) PROVE TypeOK'
  BY <1>5, <1>s DEF TInv, TypeOK, OnlyTheLast, AskedAfterReading, InSession, Attempting, Due,
    chain, books, start, proofs
<1>6. ASSUME NEW t \in Traders, Refuse(t) PROVE TypeOK'
  BY <1>6, <1>s DEF TInv, TypeOK, OnlyTheLast, AskedAfterReading, InSession, Attempting, Refuse,
    chain, books, start, proofs
<1>7. ASSUME NEW t \in Traders, Register(t) PROVE TypeOK'
  BY <1>7, <1>s DEF TInv, TypeOK, OnlyTheLast, AskedAfterReading, InSession, Attempting,
    Register, desk, books, start, proofs
<1>8. ASSUME NEW t \in Traders, RegisterRejected(t) PROVE TypeOK'
  BY <1>8, <1>s DEF TInv, TypeOK, OnlyTheLast, AskedAfterReading, InSession, Attempting,
    RegisterRejected, GivesUp, chain, books, start, proofs
<1>9. ASSUME NEW t \in Traders, Meet(t) PROVE TypeOK'
  BY <1>9, <1>s DEF TInv, TypeOK, OnlyTheLast, AskedAfterReading, InSession, Attempting, Meet,
    chain, desk, books, start, proofs
<1>10. ASSUME NEW t \in Traders, WriteWitness(t) PROVE TypeOK'
  BY <1>10, <1>s DEF TInv, TypeOK, OnlyTheLast, AskedAfterReading, InSession, Attempting,
    WriteWitness, chain, desk, start, proofs
<1>11. ASSUME NEW t \in Traders, Sign(t) PROVE TypeOK'
  BY <1>11, <1>s DEF TInv, TypeOK, OnlyTheLast, AskedAfterReading, InSession, Attempting, Sign,
    chain, desk, books, start
<1>12. ASSUME NEW t \in Traders, Finish(t) PROVE TypeOK'
  BY <1>12, <1>s DEF TInv, TypeOK, OnlyTheLast, AskedAfterReading, InSession, Attempting,
    Finish, Verifies, chain, desk, books, start, proofs
<1>13. ASSUME NEW t \in Traders, Submit(t) PROVE TypeOK'
  BY <1>13, <1>s DEF TInv, TypeOK, OnlyTheLast, AskedAfterReading, InSession, Attempting,
    Submit, desk, books, start, proofs
<1>14. ASSUME NEW t \in Traders, Credit(t) PROVE TypeOK'
  BY <1>14, <1>s DEF TInv, TypeOK, OnlyTheLast, AskedAfterReading, InSession, Attempting,
    Credit, Confirmed, Books, chain, start, proofs
<1>15. ASSUME NEW t \in Traders, TimesOut(t) PROVE TypeOK'
  BY <1>15, <1>s DEF TInv, TypeOK, OnlyTheLast, AskedAfterReading, InSession, Attempting,
    TimesOut, GivesUp, Bounded, WindowOpen, chain, books, start, proofs
<1>16. ASSUME NEW t \in Traders, Fails(t) PROVE TypeOK'
  BY <1>16, <1>s DEF TInv, TypeOK, OnlyTheLast, AskedAfterReading, InSession, Attempting, Fails,
    GivesUp, chain, books, start, proofs
<1>17. ASSUME NEW t \in Traders, Crash(t) PROVE TypeOK'
  BY <1>17, <1>s DEF TInv, TypeOK, OnlyTheLast, AskedAfterReading, InSession, Attempting, Crash,
    chain, proofs
<1>18. ASSUME NEW t \in Traders, Restart(t) PROVE TypeOK'
  BY <1>18, <1>s DEF TInv, TypeOK, OnlyTheLast, AskedAfterReading, InSession, Attempting,
    Restart, chain, desk, books, proofs
<1>19. ASSUME NEW t \in Traders, Ask(t) PROVE TypeOK'
  BY <1>19, <1>s DEF TInv, TypeOK, OnlyTheLast, AskedAfterReading, InSession, Attempting, Ask,
    NoWitness, AtRest, chain, desk, books, proofs
<1>20. ASSUME NEW t \in Traders, NoAnswer(t) PROVE TypeOK'
  BY <1>20, <1>s DEF TInv, TypeOK, OnlyTheLast, AskedAfterReading, InSession, Attempting,
    NoAnswer, chain, desk, books, proofs
<1>21. ASSUME NEW t \in Traders, Recover(t) PROVE TypeOK'
  BY <1>21, <1>s DEF TInv, TypeOK, OnlyTheLast, AskedAfterReading, InSession, Attempting,
    Recover, Books, Exists, chain, desk, proofs
<1>22. ASSUME NEW t \in Traders, Discard(t) PROVE TypeOK'
  BY <1>22, <1>s DEF TInv, TypeOK, OnlyTheLast, AskedAfterReading, InSession, Attempting,
    Discard, chain, desk, proofs
<1>23. ASSUME Agree PROVE TypeOK'
  BY <1>23, <1>s DEF TInv, TypeOK, Agree, Statements, Attempting, chain, desk, start, books
<1>24. ASSUME UNCHANGED vars PROVE TypeOK'
  BY <1>24 DEF TInv, TypeOK, OnlyTheLast, AskedAfterReading, InSession, Attempting, vars, chain,
    desk, books, start, proofs
<1> QED BY <1>1, <1>2, <1>3, <1>4, <1>5, <1>6, <1>7, <1>8, <1>9, <1>10, <1>11, <1>12, <1>13,
    <1>14, <1>15, <1>16, <1>17, <1>18, <1>19, <1>20, <1>21, <1>22, <1>23, <1>24 DEF Next

\* No prover but those of the last session has a statement.
LEMMA OnlyTheLastStep ==
  ASSUME TInv, [Next]_vars
  PROVE  OnlyTheLast'
<1>s. Statements \subseteq Nat /\ None \notin Statements /\ MaxSessions \in Nat
  BY SessionAssumption DEF Statements, None
<1>1. ASSUME NEW t \in Traders, Poll(t) \/ Skip(t) \/ Due(t) \/ Ask(t) \/ NoAnswer(t) \/
     Recover(t) \/ Discard(t) PROVE OnlyTheLast'
  BY <1>1, <1>s DEF TInv, TypeOK, OnlyTheLast, InSession, Attempting, Poll, Skip, Due, Ask,
    NoWitness, AtRest, NoAnswer, Recover, Books, Exists, Discard, chain, books, start, proofs,
    desk
<1>2. ASSUME NEW k \in Statements, OpenProof(k) \/ Land(k) \/ Reject(k) PROVE OnlyTheLast'
  BY <1>2, <1>s DEF TInv, TypeOK, OnlyTheLast, InSession, Attempting, OpenProof, Land, Reject,
    chain, desk, books, start, proofs
<1>3. ASSUME NEW t \in Traders, Start(t) PROVE OnlyTheLast'
  BY <1>3, <1>s DEF TInv, TypeOK, OnlyTheLast, InSession, Attempting, Start, chain, books,
    start, proofs
<1>4. ASSUME NEW t \in Traders, Refuse(t) PROVE OnlyTheLast'
  BY <1>4, <1>s DEF TInv, TypeOK, OnlyTheLast, InSession, Attempting, Refuse, chain, books,
    start, proofs
<1>5. ASSUME NEW t \in Traders, Register(t) PROVE OnlyTheLast'
  BY <1>5, <1>s DEF TInv, TypeOK, OnlyTheLast, InSession, Attempting, Register, desk, books,
    start, proofs
<1>6. ASSUME NEW t \in Traders, RegisterRejected(t) PROVE OnlyTheLast'
  BY <1>6, <1>s DEF TInv, TypeOK, OnlyTheLast, InSession, Attempting, RegisterRejected, GivesUp,
    chain, books, start, proofs
<1>7. ASSUME NEW t \in Traders, Meet(t) PROVE OnlyTheLast'
  BY <1>7, <1>s DEF TInv, TypeOK, OnlyTheLast, InSession, Attempting, Meet, chain, desk, books,
    start, proofs
<1>8. ASSUME NEW t \in Traders, WriteWitness(t) PROVE OnlyTheLast'
  BY <1>8, <1>s DEF TInv, TypeOK, OnlyTheLast, InSession, Attempting, WriteWitness, chain, desk,
    start, proofs
<1>9. ASSUME NEW t \in Traders, Sign(t) PROVE OnlyTheLast'
  BY <1>9, <1>s DEF TInv, TypeOK, OnlyTheLast, InSession, Attempting, Sign, chain, desk, books,
    start
<1>10. ASSUME NEW t \in Traders, Finish(t) PROVE OnlyTheLast'
  BY <1>10, <1>s DEF TInv, TypeOK, OnlyTheLast, InSession, Attempting, Finish, Verifies, chain,
    desk, books, start, proofs
<1>11. ASSUME NEW t \in Traders, Submit(t) PROVE OnlyTheLast'
  BY <1>11, <1>s DEF TInv, TypeOK, OnlyTheLast, InSession, Attempting, Submit, desk, books,
    start, proofs
<1>12. ASSUME NEW t \in Traders, Credit(t) PROVE OnlyTheLast'
  BY <1>12, <1>s DEF TInv, TypeOK, OnlyTheLast, InSession, Attempting, Credit, Confirmed, Books,
    chain, start, proofs
<1>13. ASSUME NEW t \in Traders, TimesOut(t) PROVE OnlyTheLast'
  BY <1>13, <1>s DEF TInv, TypeOK, OnlyTheLast, InSession, Attempting, TimesOut, GivesUp,
    Bounded, WindowOpen, chain, books, start, proofs
<1>14. ASSUME NEW t \in Traders, Fails(t) PROVE OnlyTheLast'
  BY <1>14, <1>s DEF TInv, TypeOK, OnlyTheLast, InSession, Attempting, Fails, GivesUp, chain,
    books, start, proofs
<1>15. ASSUME NEW t \in Traders, Crash(t) PROVE OnlyTheLast'
  BY <1>15, <1>s DEF TInv, TypeOK, OnlyTheLast, InSession, Attempting, Crash, chain, proofs
<1>16. ASSUME NEW t \in Traders, Restart(t) PROVE OnlyTheLast'
  BY <1>16, <1>s DEF TInv, TypeOK, OnlyTheLast, InSession, Attempting, Restart, chain, desk,
    books, proofs
<1>17. ASSUME Agree PROVE OnlyTheLast'
  BY <1>17, <1>s DEF TInv, TypeOK, OnlyTheLast, InSession, Agree, Statements, None, chain, desk, start, books
<1>18. ASSUME UNCHANGED vars PROVE OnlyTheLast'
  BY <1>18 DEF TInv, TypeOK, OnlyTheLast, InSession, Attempting, vars, chain, desk, books,
    start, proofs
<1> QED BY <1>1, <1>2, <1>3, <1>4, <1>5, <1>6, <1>7, <1>8, <1>9, <1>10, <1>11, <1>12, <1>13,
    <1>14, <1>15, <1>16, <1>17, <1>18 DEF Next

\* Recovery asks only after it has read a witness.
LEMMA AskedStep ==
  ASSUME TInv, [Next]_vars
  PROVE  AskedAfterReading'
<1>1. ASSUME NEW t \in Traders, Poll(t) \/ Skip(t) \/ Due(t) PROVE AskedAfterReading'
  BY <1>1 DEF TInv, TypeOK, AskedAfterReading, Attempting, Poll, Skip, Due, chain, books, start,
    proofs
<1>2. ASSUME NEW t \in Traders, NoAnswer(t) \/ Recover(t) \/ Discard(t) PROVE AskedAfterReading'
  BY <1>2 DEF TInv, TypeOK, AskedAfterReading, Attempting, NoAnswer, Recover, Books, Exists,
    Discard, chain, desk, books, proofs
<1>3. ASSUME NEW k \in Statements, OpenProof(k) \/ Land(k) \/ Reject(k) PROVE AskedAfterReading'
  BY <1>3 DEF TInv, TypeOK, AskedAfterReading, Attempting, OpenProof, Land, Reject, chain, desk,
    books, start, proofs
<1>4. ASSUME NEW t \in Traders, Start(t) PROVE AskedAfterReading'
  BY <1>4 DEF TInv, TypeOK, AskedAfterReading, Attempting, Start, chain, books, start, proofs
<1>5. ASSUME NEW t \in Traders, Refuse(t) PROVE AskedAfterReading'
  BY <1>5 DEF TInv, TypeOK, AskedAfterReading, Attempting, Refuse, chain, books, start, proofs
<1>6. ASSUME NEW t \in Traders, Register(t) PROVE AskedAfterReading'
  BY <1>6 DEF TInv, TypeOK, AskedAfterReading, Attempting, Register, desk, books, start, proofs
<1>7. ASSUME NEW t \in Traders, RegisterRejected(t) PROVE AskedAfterReading'
  BY <1>7 DEF TInv, TypeOK, AskedAfterReading, Attempting, RegisterRejected, GivesUp, chain,
    books, start, proofs
<1>8. ASSUME NEW t \in Traders, Meet(t) PROVE AskedAfterReading'
  BY <1>8 DEF TInv, TypeOK, AskedAfterReading, Attempting, Meet, chain, desk, books, start,
    proofs
<1>9. ASSUME NEW t \in Traders, WriteWitness(t) PROVE AskedAfterReading'
  BY <1>9 DEF TInv, TypeOK, AskedAfterReading, Attempting, WriteWitness, chain, desk, start,
    proofs
<1>10. ASSUME NEW t \in Traders, Sign(t) PROVE AskedAfterReading'
  BY <1>10 DEF TInv, TypeOK, AskedAfterReading, Attempting, Sign, chain, desk, books, start
<1>11. ASSUME NEW t \in Traders, Finish(t) PROVE AskedAfterReading'
  BY <1>11 DEF TInv, TypeOK, AskedAfterReading, Attempting, Finish, Verifies, chain, desk,
    books, start, proofs
<1>12. ASSUME NEW t \in Traders, Submit(t) PROVE AskedAfterReading'
  BY <1>12 DEF TInv, TypeOK, AskedAfterReading, Attempting, Submit, desk, books, start, proofs
<1>13. ASSUME NEW t \in Traders, Credit(t) PROVE AskedAfterReading'
  BY <1>13 DEF TInv, TypeOK, AskedAfterReading, Attempting, Credit, Confirmed, Books, chain,
    start, proofs
<1>14. ASSUME NEW t \in Traders, TimesOut(t) PROVE AskedAfterReading'
  BY <1>14 DEF TInv, TypeOK, AskedAfterReading, Attempting, TimesOut, GivesUp, Bounded,
    WindowOpen, chain, books, start, proofs
<1>15. ASSUME NEW t \in Traders, Fails(t) PROVE AskedAfterReading'
  BY <1>15 DEF TInv, TypeOK, AskedAfterReading, Attempting, Fails, GivesUp, chain, books, start,
    proofs
<1>16. ASSUME NEW t \in Traders, Crash(t) PROVE AskedAfterReading'
  BY <1>16 DEF TInv, TypeOK, AskedAfterReading, Attempting, Crash, chain, proofs
<1>17. ASSUME NEW t \in Traders, Restart(t) PROVE AskedAfterReading'
  BY <1>17 DEF TInv, TypeOK, AskedAfterReading, Attempting, Restart, chain, desk, books, proofs
<1>18. ASSUME NEW t \in Traders, Ask(t) PROVE AskedAfterReading'
  BY <1>18 DEF TInv, TypeOK, AskedAfterReading, Attempting, Ask, NoWitness, AtRest, chain, desk,
    books, proofs
<1>19. ASSUME Agree PROVE AskedAfterReading'
  BY <1>19 DEF TInv, TypeOK, AskedAfterReading, Attempting, Agree, chain, desk, books, start
<1>20. ASSUME UNCHANGED vars PROVE AskedAfterReading'
  BY <1>20 DEF TInv, TypeOK, AskedAfterReading, Attempting, vars, chain, desk, books, start,
    proofs
<1> QED BY <1>1, <1>2, <1>3, <1>4, <1>5, <1>6, <1>7, <1>8, <1>9, <1>10, <1>11, <1>12, <1>13,
    <1>14, <1>15, <1>16, <1>17, <1>18, <1>19, <1>20 DEF Next

\* Every table of the two applications and of the chain holds values of its type, with any
\* number of sessions and crashes, and whatever fails.
THEOREM TypeCorrect == Spec => []TypeOK
<1>1. TInv /\ [Next]_vars => TInv'
  BY TypeStep, OnlyTheLastStep, AskedStep DEF TInv
<1>2. TInv => TypeOK
  BY DEF TInv
<1> QED BY <1>1, <1>2, TypeInit, PTL DEF Spec

-----------------------------------------------------------------------------
(* What the chain can land is recoverable.  Each part of IInv is kept under the assumptions
   that its step needs; those of Prompt, Quiet and FlushResults are in the statements. *)

\* The parts of the inductive invariant hold at first.
LEMMA IInvInit == Init => IInv
  BY SessionAssumption
  DEF Init, IInv, SignedByBoth, NoNewSession, Credited, RecoveryAtRest, WitnessFirst, Live, Traders,
    InSession, Attempting, Listening, Held, None

\* When a session begins nothing is submitted and nothing has landed.
LEMMA AgreeIsFresh ==
  ASSUME NoNewSession, Agree
  PROVE  mempool = {} /\ landed = None
  BY DEF NoNewSession, Agree, Held, Listening

\* What can land is the last statement, signed by both traders.
LEMMA SignedStep ==
  ASSUME TInv, SignedByBoth, NoNewSession, [Next]_vars
  PROVE  SignedByBoth'
<1>s. Statements \subseteq Nat /\ None \notin Statements
  BY DEF Statements, None
<1>1. ASSUME NEW t \in Traders, Poll(t) PROVE SignedByBoth'
  BY <1>1, <1>s DEF TInv, TypeOK, OnlyTheLast, SignedByBoth, InSession, Attempting, Poll, chain,
    books, start, proofs
<1>2. ASSUME NEW t \in Traders, Skip(t) PROVE SignedByBoth'
  BY <1>2, <1>s DEF TInv, TypeOK, OnlyTheLast, SignedByBoth, InSession, Attempting, Skip, chain,
    books, start, proofs
<1>3. ASSUME NEW t \in Traders, Start(t) PROVE SignedByBoth'
  BY <1>3, <1>s DEF TInv, TypeOK, OnlyTheLast, SignedByBoth, InSession, Attempting, Start,
    chain, books, start, proofs
<1>4. ASSUME NEW t \in Traders, Due(t) PROVE SignedByBoth'
  BY <1>4, <1>s DEF TInv, TypeOK, OnlyTheLast, SignedByBoth, InSession, Attempting, Due, chain,
    books, start, proofs
<1>5. ASSUME NEW t \in Traders, Refuse(t) PROVE SignedByBoth'
  BY <1>5, <1>s DEF TInv, TypeOK, OnlyTheLast, SignedByBoth, InSession, Attempting, Refuse,
    chain, books, start, proofs
<1>6. ASSUME NEW t \in Traders, Register(t) PROVE SignedByBoth'
  BY <1>6, <1>s DEF TInv, TypeOK, OnlyTheLast, SignedByBoth, InSession, Attempting, Register,
    desk, books, start, proofs
<1>7. ASSUME NEW t \in Traders, RegisterRejected(t) PROVE SignedByBoth'
  BY <1>7, <1>s DEF TInv, TypeOK, OnlyTheLast, SignedByBoth, InSession, Attempting,
    RegisterRejected, GivesUp, chain, books, start, proofs
<1>8. ASSUME NEW t \in Traders, Meet(t) PROVE SignedByBoth'
  BY <1>8, <1>s DEF TInv, TypeOK, OnlyTheLast, SignedByBoth, InSession, Attempting, Meet, chain,
    desk, books, start, proofs
<1>9. ASSUME NEW t \in Traders, WriteWitness(t) PROVE SignedByBoth'
  BY <1>9, <1>s DEF TInv, TypeOK, OnlyTheLast, SignedByBoth, InSession, Attempting,
    WriteWitness, chain, desk, start, proofs
<1>10. ASSUME NEW t \in Traders, Sign(t) PROVE SignedByBoth'
  <2>1. session[t] = sessions /\ sessions \in Nat \ {0}
    BY <1>10 DEF TInv, TypeOK, OnlyTheLast, InSession, Sign, None
  <2>2. signed' = [signed EXCEPT ![t] = signed[t] \cup {sessions}]
        /\ phase' = [phase EXCEPT ![t] = "signed"]
        /\ UNCHANGED <<mempool, landed, sessions, session, opened>>
    BY <1>10, <2>1 DEF Sign, chain
  <2>3. \A u \in Traders : signed'[u] = signed[u] \cup (IF u = t THEN {sessions} ELSE {})
                           /\ phase'[u] = IF u = t THEN "signed" ELSE phase[u]
    BY <2>2 DEF TInv, TypeOK
  <2> QED BY <2>1, <2>2, <2>3 DEF SignedByBoth
<1>11. ASSUME NEW t \in Traders, Finish(t) PROVE SignedByBoth'
  BY <1>11, <1>s DEF TInv, TypeOK, OnlyTheLast, SignedByBoth, InSession, Attempting, Finish,
    Verifies, chain, desk, books, start, proofs
<1>12. ASSUME NEW t \in Traders, Submit(t) PROVE SignedByBoth'
  BY <1>12, <1>s DEF TInv, TypeOK, OnlyTheLast, SignedByBoth, InSession, Attempting, Submit,
    desk, books, start, proofs
<1>13. ASSUME NEW t \in Traders, Credit(t) PROVE SignedByBoth'
  BY <1>13, <1>s DEF TInv, TypeOK, OnlyTheLast, SignedByBoth, InSession, Attempting, Credit,
    Confirmed, Books, chain, start, proofs
<1>14. ASSUME NEW t \in Traders, TimesOut(t) PROVE SignedByBoth'
  BY <1>14, <1>s DEF TInv, TypeOK, OnlyTheLast, SignedByBoth, InSession, Attempting, TimesOut,
    GivesUp, Bounded, WindowOpen, chain, books, start, proofs
<1>15. ASSUME NEW t \in Traders, Fails(t) PROVE SignedByBoth'
  BY <1>15, <1>s DEF TInv, TypeOK, OnlyTheLast, SignedByBoth, InSession, Attempting, Fails,
    GivesUp, chain, books, start, proofs
<1>16. ASSUME NEW t \in Traders, Crash(t) PROVE SignedByBoth'
  BY <1>16, <1>s DEF TInv, TypeOK, OnlyTheLast, SignedByBoth, InSession, Attempting, Crash,
    chain, proofs
<1>17. ASSUME NEW t \in Traders, Restart(t) PROVE SignedByBoth'
  BY <1>17, <1>s DEF TInv, TypeOK, OnlyTheLast, SignedByBoth, InSession, Attempting, Restart,
    chain, desk, books, proofs
<1>18. ASSUME NEW t \in Traders, Ask(t) PROVE SignedByBoth'
  BY <1>18, <1>s DEF TInv, TypeOK, OnlyTheLast, SignedByBoth, InSession, Attempting, Ask,
    NoWitness, AtRest, chain, desk, books, proofs
<1>19. ASSUME NEW t \in Traders, NoAnswer(t) PROVE SignedByBoth'
  BY <1>19, <1>s DEF TInv, TypeOK, OnlyTheLast, SignedByBoth, InSession, Attempting, NoAnswer,
    chain, desk, books, proofs
<1>20. ASSUME NEW t \in Traders, Recover(t) PROVE SignedByBoth'
  BY <1>20, <1>s DEF TInv, TypeOK, OnlyTheLast, SignedByBoth, InSession, Attempting, Recover,
    Books, Exists, chain, desk, proofs
<1>21. ASSUME NEW t \in Traders, Discard(t) PROVE SignedByBoth'
  BY <1>21, <1>s DEF TInv, TypeOK, OnlyTheLast, SignedByBoth, InSession, Attempting, Discard,
    chain, desk, proofs
<1>22. ASSUME Agree PROVE SignedByBoth'
  <2>1. mempool = {} /\ landed = None
    BY <1>22, AgreeIsFresh
  <2>2. sessions \in Nat /\ sessions' = sessions + 1 /\ 1 .. sessions \subseteq 1 .. sessions'
    BY <1>22, SessionAssumption DEF TInv, TypeOK, Agree
  <2> QED BY <1>22, <1>s, <2>1, <2>2 DEF SignedByBoth, Agree, chain, desk, start, books
<1>23. ASSUME NEW k \in Statements, OpenProof(k) PROVE SignedByBoth'
  BY <1>23, <1>s DEF TInv, TypeOK, OnlyTheLast, SignedByBoth, OpenProof, Proving, chain, desk, start, books
<1>24. ASSUME NEW k \in Statements, Land(k) PROVE SignedByBoth'
  BY <1>24, <1>s DEF TInv, TypeOK, OnlyTheLast, SignedByBoth, InSession, Attempting, Land, desk,
    books, start, proofs
<1>25. ASSUME NEW k \in Statements, Reject(k) PROVE SignedByBoth'
  BY <1>25, <1>s DEF TInv, TypeOK, OnlyTheLast, SignedByBoth, InSession, Attempting, Reject,
    desk, books, start, proofs
<1>26. ASSUME UNCHANGED vars PROVE SignedByBoth'
  BY <1>26 DEF TInv, TypeOK, OnlyTheLast, SignedByBoth, InSession, Attempting, vars, chain,
    desk, books, start, proofs
<1> QED BY <1>1, <1>2, <1>3, <1>4, <1>5, <1>6, <1>7, <1>8, <1>9, <1>10, <1>11, <1>12, <1>13,
    <1>14, <1>15, <1>16, <1>17, <1>18, <1>19, <1>20, <1>21, <1>22, <1>23, <1>24, <1>25, <1>26
    DEF Next

\* As long as a submission is open, and after the settlement, no session begins.
LEMMA NoNewSessionStep ==
  ASSUME TInv, NoNewSession, Prompt, Quiet, [Next]_vars
  PROVE  NoNewSession'
<1>1. ASSUME NEW t \in Traders, Poll(t) \/ Skip(t) \/ Due(t) PROVE NoNewSession'
  BY <1>1 DEF TInv, TypeOK, NoNewSession, Held, Listening, InSession, Attempting, Poll, Skip,
    Due, chain, books, start, proofs
<1>2. ASSUME NEW k \in Statements, OpenProof(k) \/ Land(k) \/ Reject(k) PROVE NoNewSession'
  BY <1>2 DEF TInv, TypeOK, NoNewSession, Held, Listening, InSession, Attempting, OpenProof,
    Land, Reject, chain, desk, books, start, proofs
<1>3. ASSUME NEW t \in Traders, Start(t) PROVE NoNewSession'
  BY <1>3 DEF TInv, TypeOK, NoNewSession, Held, Listening, InSession, Attempting, Start, chain,
    books, start, proofs
<1>4. ASSUME NEW t \in Traders, Refuse(t) PROVE NoNewSession'
  BY <1>4 DEF TInv, TypeOK, NoNewSession, Held, Listening, InSession, Attempting, Refuse, chain,
    books, start, proofs
<1>5. ASSUME NEW t \in Traders, Register(t) PROVE NoNewSession'
  BY <1>5 DEF TInv, TypeOK, NoNewSession, Held, Listening, InSession, Attempting, Register,
    desk, books, start, proofs
<1>6. ASSUME NEW t \in Traders, RegisterRejected(t) PROVE NoNewSession'
  BY <1>6 DEF TInv, TypeOK, NoNewSession, Held, Listening, InSession, Attempting,
    RegisterRejected, GivesUp, chain, books, start, proofs
<1>7. ASSUME NEW t \in Traders, Meet(t) PROVE NoNewSession'
  BY <1>7 DEF TInv, TypeOK, NoNewSession, Held, Listening, InSession, Attempting, Meet, chain,
    desk, books, start, proofs
<1>8. ASSUME NEW t \in Traders, WriteWitness(t) PROVE NoNewSession'
  BY <1>8 DEF TInv, TypeOK, NoNewSession, Held, Listening, InSession, Attempting, WriteWitness,
    chain, desk, start, proofs
<1>9. ASSUME NEW t \in Traders, Sign(t) PROVE NoNewSession'
  BY <1>9 DEF TInv, TypeOK, NoNewSession, Held, Listening, InSession, Attempting, Sign, chain,
    desk, books, start
<1>10. ASSUME NEW t \in Traders, Finish(t) PROVE NoNewSession'
  BY <1>10 DEF TInv, TypeOK, NoNewSession, Held, Listening, InSession, Attempting, Finish,
    Verifies, chain, desk, books, start, proofs
<1>11. ASSUME NEW t \in Traders, Submit(t) PROVE NoNewSession'
  BY <1>11 DEF TInv, TypeOK, NoNewSession, Held, Listening, InSession, Attempting, Submit, desk,
    books, start, proofs
<1>12. ASSUME NEW t \in Traders, Credit(t) PROVE NoNewSession'
  BY <1>12 DEF TInv, TypeOK, NoNewSession, Held, Listening, InSession, Attempting, Credit,
    Confirmed, Books, chain, start, proofs
<1>13. ASSUME NEW t \in Traders, TimesOut(t) PROVE NoNewSession'
  BY <1>13 DEF TInv, TypeOK, NoNewSession, Held, Listening, InSession, Attempting, WindowOpen, TimesOut,
    GivesUp, Bounded, WindowOpen, chain, books, start, proofs
<1>14. ASSUME NEW t \in Traders, Fails(t) PROVE NoNewSession'
  BY <1>14 DEF TInv, TypeOK, NoNewSession, Held, Listening, InSession, Attempting, Fails,
    GivesUp, chain, books, start, proofs
<1>15. ASSUME NEW t \in Traders, Crash(t) PROVE NoNewSession'
  BY <1>15 DEF TInv, TypeOK, NoNewSession, Held, Listening, InSession, Attempting, Crash, chain,
    proofs
<1>16. ASSUME NEW t \in Traders, Restart(t) PROVE NoNewSession'
  BY <1>16 DEF TInv, TypeOK, NoNewSession, Held, Listening, InSession, Attempting, Restart,
    chain, desk, books, proofs
<1>17. ASSUME NEW t \in Traders, Ask(t) PROVE NoNewSession'
  BY <1>17 DEF TInv, TypeOK, NoNewSession, Held, Listening, InSession, Attempting, AtRest, Ask,
    NoWitness, AtRest, chain, desk, books, proofs
<1>18. ASSUME NEW t \in Traders, NoAnswer(t) PROVE NoNewSession'
  BY <1>18 DEF TInv, TypeOK, NoNewSession, Held, Listening, InSession, Attempting, NoAnswer,
    chain, desk, books, proofs
<1>19. ASSUME NEW t \in Traders, Recover(t) PROVE NoNewSession'
  BY <1>19 DEF TInv, TypeOK, NoNewSession, Held, Listening, InSession, Attempting, Recover,
    Books, Exists, chain, desk, proofs
<1>20. ASSUME NEW t \in Traders, Discard(t) PROVE NoNewSession'
  BY <1>20 DEF TInv, TypeOK, NoNewSession, Held, Listening, InSession, Attempting, Discard,
    chain, desk, proofs
<1>21. ASSUME Agree PROVE NoNewSession'
  BY <1>21 DEF TInv, TypeOK, NoNewSession, Held, Listening, InSession, Attempting, Agree, chain,
    desk, books, start
<1>22. ASSUME UNCHANGED vars PROVE NoNewSession'
  BY <1>22 DEF TInv, TypeOK, NoNewSession, Held, Listening, InSession, Attempting, vars, chain,
    desk, books, start, proofs
<1> QED BY <1>1, <1>2, <1>3, <1>4, <1>5, <1>6, <1>7, <1>8, <1>9, <1>10, <1>11, <1>12, <1>13,
    <1>14, <1>15, <1>16, <1>17, <1>18, <1>19, <1>20, <1>21, <1>22 DEF Next

\* The wallets, and the files, hold nothing but what landed.
LEMMA CreditedStep ==
  ASSUME TInv, SignedByBoth, Credited, FlushResults \subseteq {TRUE}, [Next]_vars
  PROVE  Credited'
<1>1. ASSUME NEW t \in Traders, Poll(t) \/ Skip(t) \/ Due(t) \/ Start(t) \/ Refuse(t) \/ Meet(t)
     PROVE Credited'
  BY <1>1 DEF TInv, TypeOK, Credited, Poll, Skip, Due, Start, Refuse, Meet, chain, books, start,
    proofs, desk
<1>2. ASSUME NEW t \in Traders, Register(t) \/ RegisterRejected(t) \/ TimesOut(t) \/ Fails(t)
     PROVE Credited'
  BY <1>2 DEF TInv, TypeOK, Credited, Register, RegisterRejected, GivesUp, TimesOut, Bounded,
    WindowOpen, Fails, desk, books, start, proofs, chain
<1>3. ASSUME NEW t \in Traders, WriteWitness(t) \/ Sign(t) \/ Finish(t) \/ Submit(t)
     PROVE Credited'
  BY <1>3 DEF TInv, TypeOK, Credited, WriteWitness, Sign, Finish, Verifies, Submit, chain, desk,
    start, proofs, books
<1>4. ASSUME NEW t \in Traders, Restart(t) \/ Ask(t) \/ NoAnswer(t) \/ Discard(t)
     PROVE Credited'
  BY <1>4 DEF TInv, TypeOK, Credited, Restart, Ask, NoWitness, AtRest, NoAnswer, Discard, chain,
    desk, books, proofs
<1>5. ASSUME NEW k \in Statements, OpenProof(k) \/ Land(k) \/ Reject(k) PROVE Credited'
  BY <1>5 DEF TInv, TypeOK, Credited, OpenProof, Land, Reject, chain, desk, books, start, proofs
<1>6. ASSUME NEW t \in Traders, Credit(t) PROVE Credited'
  BY <1>6 DEF TInv, TypeOK, OnlyTheLast, SignedByBoth, Credited, InSession, Credit, Confirmed, Books, chain
<1>7. ASSUME NEW t \in Traders, Crash(t) PROVE Credited'
  BY <1>7 DEF TInv, TypeOK, Credited, Crash, chain, proofs
<1>8. ASSUME NEW t \in Traders, Recover(t) PROVE Credited'
  BY <1>8 DEF TInv, TypeOK, AskedAfterReading, Credited, Recover, Books, Exists, chain
<1>9. ASSUME Agree PROVE Credited'
  BY <1>9 DEF TInv, TypeOK, Credited, Agree, chain, desk, books, start
<1>10. ASSUME UNCHANGED vars PROVE Credited'
  BY <1>10 DEF TInv, TypeOK, Credited, vars, chain, desk, books, start, proofs
<1> QED BY <1>1, <1>2, <1>3, <1>4, <1>5, <1>6, <1>7, <1>8, <1>9, <1>10 DEF Next

\* No attempt runs before recovery is done, and none lands while it asks.
LEMMA RecoveryStep ==
  ASSUME TInv, RecoveryAtRest, Quiet, [Next]_vars
  PROVE  RecoveryAtRest'
<1>1. ASSUME NEW t \in Traders, Poll(t) \/ Skip(t) \/ Due(t) PROVE RecoveryAtRest'
  BY <1>1 DEF TInv, TypeOK, OnlyTheLast, AskedAfterReading, RecoveryAtRest, InSession,
    Attempting, Poll, Skip, Due, chain, books, start, proofs
<1>2. ASSUME NEW t \in Traders, Start(t) PROVE RecoveryAtRest'
  BY <1>2 DEF TInv, TypeOK, OnlyTheLast, AskedAfterReading, RecoveryAtRest, InSession,
    Attempting, Start, chain, books, start, proofs
<1>3. ASSUME NEW t \in Traders, Refuse(t) PROVE RecoveryAtRest'
  BY <1>3 DEF TInv, TypeOK, OnlyTheLast, AskedAfterReading, RecoveryAtRest, InSession,
    Attempting, Refuse, chain, books, start, proofs
<1>4. ASSUME NEW t \in Traders, Register(t) PROVE RecoveryAtRest'
  BY <1>4 DEF TInv, TypeOK, OnlyTheLast, AskedAfterReading, RecoveryAtRest, InSession,
    Attempting, Register, desk, books, start, proofs
<1>5. ASSUME NEW t \in Traders, RegisterRejected(t) PROVE RecoveryAtRest'
  BY <1>5 DEF TInv, TypeOK, OnlyTheLast, AskedAfterReading, RecoveryAtRest, InSession,
    Attempting, RegisterRejected, GivesUp, chain, books, start, proofs
<1>6. ASSUME NEW t \in Traders, Meet(t) PROVE RecoveryAtRest'
  BY <1>6 DEF TInv, TypeOK, OnlyTheLast, AskedAfterReading, RecoveryAtRest, InSession,
    Attempting, Meet, chain, desk, books, start, proofs
<1>7. ASSUME NEW t \in Traders, WriteWitness(t) PROVE RecoveryAtRest'
  BY <1>7 DEF TInv, TypeOK, OnlyTheLast, AskedAfterReading, RecoveryAtRest, InSession,
    Attempting, WriteWitness, chain, desk, start, proofs
<1>8. ASSUME NEW t \in Traders, Sign(t) PROVE RecoveryAtRest'
  BY <1>8 DEF TInv, TypeOK, OnlyTheLast, AskedAfterReading, RecoveryAtRest, InSession,
    Attempting, Sign, chain, desk, books, start
<1>9. ASSUME NEW t \in Traders, Finish(t) PROVE RecoveryAtRest'
  BY <1>9 DEF TInv, TypeOK, OnlyTheLast, AskedAfterReading, RecoveryAtRest, InSession,
    Attempting, Finish, Verifies, chain, desk, books, start, proofs
<1>10. ASSUME NEW t \in Traders, Submit(t) PROVE RecoveryAtRest'
  BY <1>10 DEF TInv, TypeOK, OnlyTheLast, AskedAfterReading, RecoveryAtRest, InSession,
    Attempting, Submit, desk, books, start, proofs
<1>11. ASSUME NEW t \in Traders, Credit(t) PROVE RecoveryAtRest'
  BY <1>11 DEF TInv, TypeOK, OnlyTheLast, AskedAfterReading, RecoveryAtRest, InSession,
    Attempting, Credit, Confirmed, Books, chain, start, proofs
<1>12. ASSUME NEW t \in Traders, TimesOut(t) PROVE RecoveryAtRest'
  BY <1>12 DEF TInv, TypeOK, OnlyTheLast, AskedAfterReading, RecoveryAtRest, InSession,
    Attempting, TimesOut, GivesUp, Bounded, WindowOpen, chain, books, start, proofs
<1>13. ASSUME NEW t \in Traders, Fails(t) PROVE RecoveryAtRest'
  BY <1>13 DEF TInv, TypeOK, OnlyTheLast, AskedAfterReading, RecoveryAtRest, InSession,
    Attempting, Fails, GivesUp, chain, books, start, proofs
<1>14. ASSUME NEW t \in Traders, Crash(t) PROVE RecoveryAtRest'
  BY <1>14 DEF TInv, TypeOK, OnlyTheLast, AskedAfterReading, RecoveryAtRest, InSession,
    Attempting, Crash, chain, proofs
<1>15. ASSUME NEW t \in Traders, Restart(t) PROVE RecoveryAtRest'
  BY <1>15 DEF TInv, TypeOK, OnlyTheLast, AskedAfterReading, RecoveryAtRest, InSession,
    Attempting, Restart, chain, desk, books, proofs
<1>16. ASSUME NEW t \in Traders, Ask(t) PROVE RecoveryAtRest'
  BY <1>16 DEF TInv, TypeOK, OnlyTheLast, AskedAfterReading, RecoveryAtRest, InSession,
    Attempting, Ask, NoWitness, AtRest, chain, desk, books, proofs
<1>17. ASSUME NEW t \in Traders, NoAnswer(t) PROVE RecoveryAtRest'
  BY <1>17 DEF TInv, TypeOK, OnlyTheLast, AskedAfterReading, RecoveryAtRest, InSession,
    Attempting, NoAnswer, chain, desk, books, proofs
<1>18. ASSUME NEW t \in Traders, Recover(t) PROVE RecoveryAtRest'
  BY <1>18 DEF TInv, TypeOK, OnlyTheLast, AskedAfterReading, RecoveryAtRest, InSession,
    Attempting, Recover, Books, Exists, chain, desk, proofs
<1>19. ASSUME NEW t \in Traders, Discard(t) PROVE RecoveryAtRest'
  BY <1>19 DEF TInv, TypeOK, OnlyTheLast, AskedAfterReading, RecoveryAtRest, InSession,
    Attempting, Discard, chain, desk, proofs
<1>20. ASSUME Agree PROVE RecoveryAtRest'
  BY <1>20 DEF TInv, TypeOK, OnlyTheLast, AskedAfterReading, RecoveryAtRest, InSession,
    Attempting, Agree, chain, desk, books, start
<1>21. ASSUME NEW k \in Statements, OpenProof(k) PROVE RecoveryAtRest'
  BY <1>21 DEF TInv, TypeOK, OnlyTheLast, AskedAfterReading, RecoveryAtRest, InSession,
    Attempting, OpenProof, chain, desk, books, start
<1>22. ASSUME NEW k \in Statements, Land(k) PROVE RecoveryAtRest'
  BY <1>22 DEF TInv, TypeOK, OnlyTheLast, AskedAfterReading, RecoveryAtRest, InSession,
    Attempting, Land, desk, books, start, proofs
<1>23. ASSUME NEW k \in Statements, Reject(k) PROVE RecoveryAtRest'
  BY <1>23 DEF TInv, TypeOK, OnlyTheLast, AskedAfterReading, RecoveryAtRest, InSession,
    Attempting, Reject, desk, books, start, proofs
<1>24. ASSUME UNCHANGED vars PROVE RecoveryAtRest'
  BY <1>24 DEF TInv, TypeOK, OnlyTheLast, AskedAfterReading, RecoveryAtRest, InSession,
    Attempting, vars, chain, desk, books, start, proofs
<1> QED BY <1>1, <1>2, <1>3, <1>4, <1>5, <1>6, <1>7, <1>8, <1>9, <1>10, <1>11, <1>12, <1>13,
    <1>14, <1>15, <1>16, <1>17, <1>18, <1>19, <1>20, <1>21, <1>22, <1>23, <1>24 DEF Next

\* A witness leaves the disk only when its statement is dead or credited.
LEMMA WitnessStep ==
  ASSUME TInv, IInv, Quiet, [Next]_vars
  PROVE  WitnessFirst'
<1>s. Statements \subseteq Nat /\ None \notin Statements
  BY DEF Statements, None
<1>1. ASSUME NEW t \in Traders, Poll(t) \/ Skip(t) \/ Due(t) \/ Start(t) PROVE WitnessFirst'
  BY <1>1, <1>s DEF TInv, TypeOK, OnlyTheLast, IInv, WitnessFirst, Live, InSession, Attempting,
    Poll, Skip, Due, Start, chain, books, start, proofs
<1>2. ASSUME NEW t \in Traders, Refuse(t) PROVE WitnessFirst'
  BY <1>2, <1>s DEF TInv, TypeOK, OnlyTheLast, IInv, WitnessFirst, Live, InSession, Attempting,
    Refuse, chain, books, start, proofs
<1>3. ASSUME NEW t \in Traders, Register(t) PROVE WitnessFirst'
  BY <1>3, <1>s DEF TInv, TypeOK, OnlyTheLast, IInv, WitnessFirst, Live, InSession, Attempting,
    Register, desk, books, start, proofs
<1>4. ASSUME NEW t \in Traders, RegisterRejected(t) PROVE WitnessFirst'
  BY <1>4, <1>s DEF TInv, TypeOK, OnlyTheLast, IInv, WitnessFirst, Live, InSession, Attempting,
    RegisterRejected, GivesUp, chain, books, start, proofs
<1>5. ASSUME NEW t \in Traders, Meet(t) PROVE WitnessFirst'
  BY <1>5, <1>s DEF TInv, TypeOK, OnlyTheLast, IInv, WitnessFirst, Live, InSession, Attempting,
    Meet, chain, desk, books, start, proofs
<1>6. ASSUME NEW t \in Traders, WriteWitness(t) PROVE WitnessFirst'
  BY <1>6, <1>s DEF TInv, TypeOK, OnlyTheLast, IInv, WitnessFirst, Live, InSession, Attempting,
    WriteWitness, chain, desk, start, proofs
<1>7. ASSUME NEW t \in Traders, Sign(t) PROVE WitnessFirst'
  BY <1>7, <1>s DEF TInv, TypeOK, OnlyTheLast, IInv, WitnessFirst, Live, InSession, Attempting,
    Sign, chain, desk, books, start
<1>8. ASSUME NEW t \in Traders, Finish(t) PROVE WitnessFirst'
  BY <1>8, <1>s DEF TInv, TypeOK, OnlyTheLast, IInv, WitnessFirst, Live, InSession, Attempting,
    Finish, Verifies, chain, desk, books, start, proofs
<1>9. ASSUME NEW t \in Traders, Submit(t) PROVE WitnessFirst'
  BY <1>9, <1>s DEF TInv, TypeOK, OnlyTheLast, IInv, WitnessFirst, Live, InSession, Attempting,
    Submit, desk, books, start, proofs
<1>10. ASSUME NEW t \in Traders, Credit(t) PROVE WitnessFirst'
  BY <1>10, <1>s DEF TInv, TypeOK, OnlyTheLast, IInv, SignedByBoth, WitnessFirst, Live, InSession, Credit,
    Confirmed, Books, chain, proofs
<1>11. ASSUME NEW t \in Traders, TimesOut(t) PROVE WitnessFirst'
  BY <1>11, <1>s DEF TInv, TypeOK, OnlyTheLast, IInv, WitnessFirst, Live, InSession, Attempting,
    TimesOut, GivesUp, Bounded, WindowOpen, chain, books, start, proofs
<1>12. ASSUME NEW t \in Traders, Fails(t) PROVE WitnessFirst'
  BY <1>12, <1>s DEF TInv, TypeOK, OnlyTheLast, IInv, WitnessFirst, Live, InSession, Attempting,
    Fails, GivesUp, chain, books, start, proofs
<1>13. ASSUME NEW t \in Traders, Crash(t) PROVE WitnessFirst'
  BY <1>13, <1>s DEF TInv, TypeOK, OnlyTheLast, IInv, Credited, WitnessFirst, Live, InSession, Crash, chain, proofs
<1>14. ASSUME NEW t \in Traders, Restart(t) PROVE WitnessFirst'
  BY <1>14, <1>s DEF TInv, TypeOK, OnlyTheLast, IInv, WitnessFirst, Live, InSession, Attempting,
    Restart, chain, desk, books, proofs
<1>15. ASSUME NEW t \in Traders, Ask(t) PROVE WitnessFirst'
  BY <1>15, <1>s DEF TInv, TypeOK, OnlyTheLast, IInv, WitnessFirst, Live, InSession, Attempting,
    Ask, NoWitness, AtRest, chain, desk, books, proofs
<1>16. ASSUME NEW t \in Traders, NoAnswer(t) PROVE WitnessFirst'
  BY <1>16, <1>s DEF TInv, TypeOK, OnlyTheLast, IInv, WitnessFirst, Live, InSession, Attempting,
    NoAnswer, chain, desk, books, proofs
<1>17. ASSUME NEW t \in Traders, Recover(t) PROVE WitnessFirst'
  BY <1>17, <1>s DEF TInv, TypeOK, IInv, SignedByBoth, RecoveryAtRest, WitnessFirst, Live, InSession,
    Attempting, Recover, Exists, Books, chain, proofs
<1>18. ASSUME NEW t \in Traders, Discard(t) PROVE WitnessFirst'
  BY <1>18, <1>s DEF TInv, TypeOK, AskedAfterReading, IInv, SignedByBoth, RecoveryAtRest, WitnessFirst, Live,
    InSession, Attempting, Discard, Exists, chain, proofs
<1>19. ASSUME Agree PROVE WitnessFirst'
  BY <1>19, <1>s, AgreeIsFresh
  DEF TInv, TypeOK, OnlyTheLast, IInv, SignedByBoth, WitnessFirst, Live, InSession, Agree, chain, desk, start, books
<1>20. ASSUME NEW k \in Statements, OpenProof(k) PROVE WitnessFirst'
  BY <1>20, <1>s DEF TInv, TypeOK, OnlyTheLast, IInv, WitnessFirst, Live, InSession, Attempting,
    OpenProof, chain, desk, books, start
<1>21. ASSUME NEW k \in Statements, Land(k) PROVE WitnessFirst'
  BY <1>21, <1>s DEF TInv, TypeOK, OnlyTheLast, IInv, WitnessFirst, Live, InSession, Attempting,
    Land, desk, books, start, proofs
<1>22. ASSUME NEW k \in Statements, Reject(k) PROVE WitnessFirst'
  BY <1>22, <1>s DEF TInv, TypeOK, OnlyTheLast, IInv, WitnessFirst, Live, InSession, Attempting,
    Reject, desk, books, start, proofs
<1>23. ASSUME UNCHANGED vars PROVE WitnessFirst'
  BY <1>23 DEF TInv, TypeOK, OnlyTheLast, IInv, WitnessFirst, Live, InSession, Attempting, vars,
    chain, desk, books, start, proofs
<1> QED BY <1>1, <1>2, <1>3, <1>4, <1>5, <1>6, <1>7, <1>8, <1>9, <1>10, <1>11, <1>12, <1>13,
    <1>14, <1>15, <1>16, <1>17, <1>18, <1>19, <1>20, <1>21, <1>22, <1>23 DEF Next

\* The inductive step of IInv.
LEMMA IInvStep ==
  ASSUME TInv, IInv, [Next]_vars, Prompt, Quiet, FlushResults \subseteq {TRUE}
  PROVE  IInv'
<1>1. SignedByBoth' /\ NoNewSession' /\ RecoveryAtRest' /\ Credited'
  BY SignedStep, NoNewSessionStep, RecoveryStep, CreditedStep DEF IInv
<1>2. WitnessFirst'
  BY WitnessStep
<1> QED BY <1>1, <1>2 DEF IInv

\* What can land is the last statement, it is live, and both traders signed it.
LEMMA OnlyTheLastCanLand ==
  ASSUME TInv, SignedByBoth, NEW k \in Statements, CanLand(k)
  PROVE  k = sessions /\ Live /\ \A t \in Traders : sessions \in signed[t]
<1>s. None \notin Statements
  BY DEF Statements, None
<1>1. CASE landed = k
  BY <1>1, <1>s DEF SignedByBoth, Live
<1>2. CASE k \in mempool
  BY <1>2 DEF SignedByBoth, Live
<1>3. ASSUME NEW t \in Traders, session[t] = k, phase[t] = "proved" \/ (k \in opened)
      PROVE  k = sessions /\ Live /\ \A u \in Traders : sessions \in signed[u]
  BY <1>3, <1>s DEF TInv, OnlyTheLast, SignedByBoth, Live
<1>4. CASE \A t \in Traders : Proving(t, k)
  BY <1>4, <1>s DEF TInv, OnlyTheLast, SignedByBoth, Live, Proving, Traders
<1> QED BY <1>1, <1>2, <1>3, <1>4 DEF CanLand

\* IInv implies the property.
LEMMA WitnessedFromIInv ==
  ASSUME TInv, IInv
  PROVE  LandableIsWitnessed
<1> SUFFICES ASSUME NEW k \in Statements, CanLand(k), NEW t \in Traders
             PROVE  witness[t] = k \/ k \in wallet[t]
  BY DEF LandableIsWitnessed
<1>1. k = sessions /\ Live /\ sessions \in signed[t]
  BY OnlyTheLastCanLand DEF IInv
<1> QED BY <1>1 DEF IInv, WitnessFirst

\* The invariants together.
LEMMA Invariants ==
  ASSUME Prompt, Quiet, FlushResults \subseteq {TRUE}
  PROVE  Spec => [](TInv /\ IInv)
<1>1. Init => TInv /\ IInv
  BY TypeInit, IInvInit
<1>2. TInv /\ IInv /\ [Next]_vars => (TInv /\ IInv)'
  BY TypeStep, OnlyTheLastStep, AskedStep, IInvStep DEF TInv
<1> QED BY <1>1, <1>2, PTL DEF Spec

\* If the chain answers within the confirmation window, recovery runs at rest and every flush
\* succeeds, then whatever the chain can still land, or has landed, both traders can open,
\* through any number of sessions, failures and crashes.
THEOREM LandableStaysWitnessed ==
  ASSUME Prompt, Quiet, FlushResults \subseteq {TRUE}
  PROVE  Spec => []LandableIsWitnessed
<1>1. TInv /\ IInv => LandableIsWitnessed
  BY WitnessedFromIInv
<1> QED BY <1>1, Invariants, PTL

-----------------------------------------------------------------------------
(* The joint settlement implements the swap. *)

\* The initial states map to initial states.
LEMMA SwapInitially == Init => Swap!SwapInit
  BY DEF Init, Swap!SwapInit

\* A signature is a signature of the swap.
LEMMA SignIsSwapSign ==
  ASSUME TInv, NEW t \in Traders, Sign(t)
  PROVE  Swap!SwapSign(t)
<1>1. session[t] \in Statements
  BY SessionAssumption DEF TInv, TypeOK, OnlyTheLast, InSession, Sign, Statements
<1> QED BY <1>1 DEF Sign, books, chain, Swap!SwapSign

\* What the chain executes settles the swap.
LEMMA LandIsSwapSettle ==
  ASSUME NEW k \in Statements, Land(k)
  PROVE  Swap!SwapSettle
<1>1. landed = None /\ landed' = k /\ k \in {j \in Statements : \A t \in Traders : j \in signed[t]}
  BY DEF Land
<1>2. UNCHANGED <<signed, wallet>>
  BY DEF Land, proofs, books
<1> QED BY <1>1, <1>2 DEF Swap!SwapSettle

\* A trader is credited with what settled the swap, after the confirmation or by recovery.
LEMMA CreditIsSwapCredit ==
  ASSUME TInv, IInv, NEW t \in Traders, Credit(t) \/ Recover(t)
  PROVE  Swap!SwapCredit(t)
<1>1. landed # None /\ UNCHANGED <<signed, landed>>
  BY DEF TInv, TypeOK, AskedAfterReading, Credit, Confirmed, Recover, Exists, chain, proofs
<1>2. \E k \in {landed} : wallet' = [wallet EXCEPT ![t] = wallet[t] \cup {k}]
  <2>1. CASE Credit(t)
    BY <2>1, <1>1 DEF TInv, OnlyTheLast, InSession, IInv, SignedByBoth, Credit, Confirmed, Books
  <2>2. CASE Recover(t)
    BY <2>2 DEF Recover, Exists, Books
  <2> QED BY <2>1, <2>2
<1>3. wallet' = [wallet EXCEPT ![t] = {landed}]
  BY <1>2 DEF TInv, TypeOK, IInv, Credited
<1> QED BY <1>1, <1>3 DEF Swap!SwapCredit

\* A crash loses no credit: the file has it.
LEMMA CrashIsStutter ==
  ASSUME TInv, IInv, NEW t \in Traders, Crash(t)
  PROVE  UNCHANGED <<signed, landed, wallet>>
<1>1. wallet' = wallet
  BY DEF TInv, TypeOK, IInv, Credited, Crash
<1> QED BY <1>1 DEF Crash, chain, proofs

\* Every other step is none of the swap.
LEMMA OthersStutter ==
  ASSUME [Next]_vars,
         ~\E t \in Traders : Sign(t) \/ Credit(t) \/ Recover(t) \/ Crash(t),
         ~\E k \in Statements : Land(k)
  PROVE  UNCHANGED <<signed, landed, wallet>>
<1>1. ASSUME NEW t \in Traders, Poll(t) \/ Skip(t) \/ Start(t) \/ Due(t) \/ Refuse(t) \/ Register(t)
      PROVE  UNCHANGED <<signed, landed, wallet>>
  BY <1>1 DEF Poll, Skip, Start, Due, Refuse, Register, chain, proofs, books
<1>2. ASSUME NEW t \in Traders, RegisterRejected(t) \/ Meet(t) \/ TimesOut(t) \/ Fails(t) \/ Restart(t)
      PROVE  UNCHANGED <<signed, landed, wallet>>
  BY <1>2 DEF RegisterRejected, Meet, TimesOut, Fails, Restart, GivesUp, chain, proofs, books
<1>3. ASSUME NEW t \in Traders, WriteWitness(t) \/ Finish(t) \/ Submit(t) \/ Ask(t) \/ NoAnswer(t)
                                \/ Discard(t)
      PROVE  UNCHANGED <<signed, landed, wallet>>
  BY <1>3 DEF WriteWitness, Finish, Submit, Ask, NoAnswer, Discard, chain, proofs, books
<1>4. ASSUME Agree PROVE UNCHANGED <<signed, landed, wallet>>
  BY <1>4 DEF Agree, chain, books
<1>5. ASSUME NEW k \in Statements, OpenProof(k) \/ Reject(k)
      PROVE  UNCHANGED <<signed, landed, wallet>>
  BY <1>5 DEF OpenProof, Reject, chain, proofs, books
<1>6. CASE UNCHANGED vars
  BY <1>6 DEF vars, chain, proofs, books
<1> QED BY <1>1, <1>2, <1>3, <1>4, <1>5, <1>6 DEF Next

\* Every step of the applications and of the chain is a step of the swap, or none of it.
LEMMA StepRefines ==
  ASSUME TInv, IInv, [Next]_vars
  PROVE  [Swap!SwapNext]_Swap!swapVars
<1>1. ASSUME NEW t \in Traders, Sign(t) PROVE Swap!SwapNext
  BY <1>1, SignIsSwapSign DEF Swap!SwapNext
<1>2. ASSUME NEW t \in Traders, Credit(t) \/ Recover(t) PROVE Swap!SwapNext
  BY <1>2, CreditIsSwapCredit DEF Swap!SwapNext
<1>3. ASSUME NEW k \in Statements, Land(k) PROVE Swap!SwapNext
  BY <1>3, LandIsSwapSettle DEF Swap!SwapNext
<1>4. ASSUME NEW t \in Traders, Crash(t) PROVE UNCHANGED Swap!swapVars
  BY <1>4, CrashIsStutter DEF Swap!swapVars
<1>5. ASSUME ~\E t \in Traders : Sign(t) \/ Credit(t) \/ Recover(t) \/ Crash(t),
             ~\E k \in Statements : Land(k)
      PROVE  UNCHANGED Swap!swapVars
  BY <1>5, OthersStutter DEF Swap!swapVars
<1> QED BY <1>1, <1>2, <1>3, <1>4, <1>5

\* Under the same assumptions the joint settlement implements the swap: one statement at
\* most settles the pair, both traders signed it, and a wallet is never credited with another
\* nor loses it.
THEOREM SettlementImplementsSwap ==
  ASSUME Prompt, Quiet, FlushResults \subseteq {TRUE}
  PROVE  Spec => SwapRefined
<1>1. TInv /\ IInv /\ [Next]_vars => [Swap!SwapNext]_Swap!swapVars
  BY StepRefines
<1> QED BY <1>1, Invariants, SwapInitially, PTL DEF Spec, SwapRefined, Swap!SwapSpec

=============================================================================
