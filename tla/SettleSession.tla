---------------------------- MODULE SettleSession ----------------------------
(***************************************************************************)
(* The settlement of one matched pair by the desktop applications of its    *)
(* two traders: the poller that dispatches it, the serial settle coroutine  *)
(* (app/desktop/src/main.rs), the attempt it runs (app/ui/src/settle.rs),   *)
(* the prover sessions of both sides (cozk2p), the chain as the clients see *)
(* it, crashes, and the recovery at startup.  Amounts are left out: a       *)
(* statement is the number of the session that drew its blindings, so two   *)
(* statements of one pair never open each other.                            *)
(***************************************************************************)
EXTENDS Naturals

CONSTANTS
  Maker, Taker,      \* the two traders; the maker dials, the taker listens
  Survivors,         \* the traders whose order outlives the fill
  MaxSessions,       \* bound: connected prover sessions
  MaxQueue,          \* bound: dispatches waiting in the channel of one coroutine
  MaxCrashes,        \* bound: crashes of an application
  FlushResults,      \* what cash_store.flush may return (the callers ignore it)
  Prompt,            \* the chain answers a submission within the confirmation window
  Quiet              \* startup recovery runs while nothing of the pair is under way

Traders == {Maker, Taker}
None == 0
Statements == 1 .. MaxSessions

ASSUME SessionAssumption ==
  /\ Maker # Taker
  /\ Survivors \in SUBSET Traders
  /\ MaxSessions \in Nat /\ MaxQueue \in Nat /\ MaxCrashes \in Nat
  /\ FlushResults \in SUBSET BOOLEAN
  /\ Prompt \in BOOLEAN /\ Quiet \in BOOLEAN

VARIABLES
  \* The chain.
  rows,       \* traders with a settlement address registered for the pair
  mempool,    \* statements submitted and not yet executed
  landed,     \* the statement that settled the pair, or None
  \* The application of each trader, in memory.
  crossed,    \* the two limit prices differ: this pair can never settle jointly
  phase,      \* what its settle coroutine does
  queued,     \* dispatches of the order waiting in the coroutine's channel
  resting,    \* retry_after has not passed
  refused,    \* unsettleable_ids holds the order
  own,        \* own_order_ids holds the order
  reach,      \* the peer address it read is the one the peer listens on now
  wallet,     \* statements credited to the cash records
  recovery,   \* progress of the recovery at startup
  asked,      \* the witness that recovery read before it asked the node
  \* The provers, and what they released.
  sessions,   \* number of sessions connected so far
  session,    \* the statement its prover works on, or None
  signed,     \* statements its signature left the prover for
  opened,     \* statements whose proof both provers opened
  \* Disk.
  witness,    \* witness.json in the session directory of the order, or None
  saved,      \* statements credited in the cash file
  crashes

chain  == <<rows, mempool, landed>>
desk   == <<queued, resting, refused, own>>
books  == <<wallet, saved, witness>>
start  == <<recovery, asked>>
proofs == <<sessions, signed, opened>>
vars == <<chain, crossed, phase, desk, reach, start, proofs, session, books, crashes>>

Peer(t) == CHOOSE u \in Traders : u # t

Attempting == {"settling", "waiting", "connecting", "agreed", "witnessed", "signed",
               "proved", "confirming"}
Listening == {"waiting", "connecting"}

Init ==
  /\ rows = {} /\ mempool = {} /\ landed = None
  /\ crossed \in BOOLEAN
  /\ phase = [t \in Traders |-> "idle"]
  /\ queued = [t \in Traders |-> 0]
  /\ resting = [t \in Traders |-> FALSE]
  /\ refused = [t \in Traders |-> FALSE]
  /\ own = [t \in Traders |-> TRUE]
  /\ reach = [t \in Traders |-> FALSE]
  /\ recovery = [t \in Traders |-> "due"]
  /\ asked = [t \in Traders |-> None]
  /\ sessions = 0
  /\ session = [t \in Traders |-> None]
  /\ signed = [t \in Traders |-> {}]
  /\ opened = {}
  /\ witness = [t \in Traders |-> None]
  /\ wallet = [t \in Traders |-> {}]
  /\ saved = [t \in Traders |-> {}]
  /\ crashes = 0

-----------------------------------------------------------------------------
(* Dispatch: the poller (or an event of the chain) and the serial coroutine. *)

\* The chain lists the order as Matched with its counterparty.
Listed == landed = None

\* A Matched order is the trader's own and is not being settled.
Poll(t) ==
  /\ phase[t] = "idle" /\ Listed
  /\ own[t] /\ ~refused[t] /\ ~resting[t]
  /\ queued[t] < MaxQueue
  /\ queued' = [queued EXCEPT ![t] = @ + 1]
  /\ UNCHANGED <<chain, crossed, phase, resting, refused, own, reach, start, proofs, session,
                 books, crashes>>

\* The coroutine takes a dispatch: it drops one that is refused or not yet due.
Skip(t) ==
  /\ phase[t] = "idle" /\ queued[t] > 0
  /\ refused[t] \/ resting[t]
  /\ queued' = [queued EXCEPT ![t] = @ - 1]
  /\ UNCHANGED <<chain, crossed, phase, resting, refused, own, reach, start, proofs, session,
                 books, crashes>>

Start(t) ==
  /\ phase[t] = "idle" /\ queued[t] > 0
  /\ ~refused[t] /\ ~resting[t]
  /\ Quiet => recovery[t] = "done"
  /\ queued' = [queued EXCEPT ![t] = @ - 1]
  /\ phase' = [phase EXCEPT ![t] = "settling"]
  /\ UNCHANGED <<chain, crossed, resting, refused, own, reach, start, proofs, session, books,
                 crashes>>

\* retry_after passes.
Due(t) ==
  /\ resting[t]
  /\ resting' = [resting EXCEPT ![t] = FALSE]
  /\ UNCHANGED <<chain, crossed, phase, queued, refused, own, reach, start, proofs, session,
                 books, crashes>>

-----------------------------------------------------------------------------
(* One attempt, up to the prover. *)

\* CrossPrice: never retried.
Refuse(t) ==
  /\ phase[t] = "settling" /\ crossed
  /\ refused' = [refused EXCEPT ![t] = TRUE]
  /\ phase' = [phase EXCEPT ![t] = "idle"]
  /\ UNCHANGED <<chain, crossed, queued, resting, own, reach, start, proofs, session, books,
                 crashes>>

\* The chain takes the address only while the pair is matched.
Register(t) ==
  /\ phase[t] = "settling" /\ ~crossed
  /\ landed = None
  /\ rows' = rows \cup {t}
  /\ phase' = [phase EXCEPT ![t] = "waiting"]
  /\ UNCHANGED <<mempool, landed, crossed, desk, reach, start, proofs, session, books, crashes>>

\* The chain has an address of the counterparty.
Rendezvous(t) == Peer(t) \in rows

\* Any row of the counterparty ends the wait, the one of an earlier attempt too.
Meet(t) ==
  /\ phase[t] = "waiting" /\ Rendezvous(t)
  /\ reach' = [reach EXCEPT ![t] = phase[Peer(t)] \in Listening]
  /\ phase' = [phase EXCEPT ![t] = "connecting"]
  /\ UNCHANGED <<chain, crossed, desk, start, proofs, session, books, crashes>>

\* The attempt is over: the prover is killed, its port closed, the order rests.
GivesUp(t) ==
  /\ phase' = [phase EXCEPT ![t] = "idle"]
  /\ resting' = [resting EXCEPT ![t] = TRUE]
  /\ session' = [session EXCEPT ![t] = None]
  /\ reach' = [u \in Traders |-> FALSE]
  /\ UNCHANGED <<chain, crossed, queued, refused, own, start, proofs, books, crashes>>

RegisterRejected(t) ==
  /\ phase[t] = "settling" /\ ~crossed
  /\ landed # None
  /\ GivesUp(t)

-----------------------------------------------------------------------------
(* The session of the two provers. *)

\* The maker reaches the listening taker; the two agree on the public statement,
\* compare, draw blindings and exchange commitments: nothing of it is kept.
Agree ==
  /\ \A t \in Traders : phase[t] = "connecting"
  /\ reach[Maker]
  /\ sessions < MaxSessions
  /\ sessions' = sessions + 1
  /\ session' = [t \in Traders |-> sessions']
  /\ phase' = [t \in Traders |-> "agreed"]
  /\ UNCHANGED <<chain, crossed, desk, reach, start, signed, opened, books, crashes>>

\* witness.json of the attempt before is overwritten.
WriteWitness(t) ==
  /\ phase[t] = "agreed"
  /\ phase' = [phase EXCEPT ![t] = "witnessed"]
  /\ witness' = [witness EXCEPT ![t] = session[t]]
  /\ UNCHANGED <<chain, crossed, desk, reach, start, proofs, session, wallet, saved, crashes>>

\* The host signs; the maker's signature crosses first.
Sign(t) ==
  /\ phase[t] = "witnessed"
  /\ t = Taker => session[t] \in signed[Maker]
  /\ signed' = [signed EXCEPT ![t] = @ \cup {session[t]}]
  /\ phase' = [phase EXCEPT ![t] = "signed"]
  /\ UNCHANGED <<chain, crossed, desk, reach, start, sessions, opened, session, books, crashes>>

\* A prover whose application crashed after it signed may run on.
Proving(t, k) == session[t] = k /\ phase[t] \in {"signed", "off"}

\* Both provers are needed to open the proof.
OpenProof(k) ==
  /\ k \notin opened
  /\ \A t \in Traders : Proving(t, k)
  /\ opened' = opened \cup {k}
  /\ UNCHANGED <<chain, crossed, phase, desk, reach, start, sessions, signed, session, books,
                 crashes>>

\* Both traders signed the statement.
Verifies(k) == \A t \in Traders : k \in signed[t]

\* result.json is read and both signatures verify.
Finish(t) ==
  /\ phase[t] = "signed" /\ session[t] \in opened
  /\ Verifies(session[t])
  /\ phase' = [phase EXCEPT ![t] = "proved"]
  /\ UNCHANGED <<chain, crossed, desk, reach, start, proofs, session, books, crashes>>

-----------------------------------------------------------------------------
(* Submission, the chain, confirmation. *)

\* Best effort: an error of the submission is only shown.
Submit(t) ==
  /\ phase[t] = "proved"
  /\ mempool' \in {mempool, mempool \cup {session[t]}}
  /\ phase' = [phase EXCEPT ![t] = "confirming"]
  /\ UNCHANGED <<rows, landed, crossed, desk, reach, start, proofs, session, books, crashes>>

\* The chain executes a statement both traders signed, while the pair is matched, and
\* drops the addresses of the pair.
Land(k) ==
  /\ k \in mempool /\ landed = None
  /\ \A t \in Traders : k \in signed[t]
  /\ landed' = k
  /\ mempool' = mempool \ {k}
  /\ rows' = {}
  /\ UNCHANGED <<crossed, phase, desk, reach, start, proofs, session, books, crashes>>

\* "not Matched".
Reject(k) ==
  /\ k \in mempool /\ landed # None
  /\ mempool' = mempool \ {k}
  /\ UNCHANGED <<rows, landed, crossed, phase, desk, reach, start, proofs, session, books,
                 crashes>>

\* The order reads Done, whoever settled it, or carries the new commitment of this
\* attempt.
\* Mut: the submission is taken for the confirmation.
MutConfirmedAtOnce(t) == phase[t] = "confirming"
\* Mut: the relisted order is not looked at.
MutConfirmedDone(t) == landed # None /\ t \notin Survivors
Confirmed(t) == landed # None /\ (t \in Survivors => landed = session[t])

\* The records of statement k enter the wallet; the flush may fail unnoticed.
Books(t, k) ==
  /\ wallet' = [wallet EXCEPT ![t] = @ \cup {k}]
  /\ \E ok \in FlushResults : saved' = IF ok THEN [saved EXCEPT ![t] = wallet'[t]] ELSE saved

\* Ok: the records are kept, then the session directory is removed.
Credit(t) ==
  /\ phase[t] = "confirming" /\ Confirmed(t)
  /\ Books(t, session[t])
  /\ witness' = [witness EXCEPT ![t] = None]
  /\ phase' = [phase EXCEPT ![t] = "idle"]
  /\ session' = [session EXCEPT ![t] = None]
  /\ resting' = [resting EXCEPT ![t] = FALSE]
  /\ reach' = [u \in Traders |-> FALSE]
  /\ UNCHANGED <<chain, crossed, queued, refused, own, start, proofs, crashes>>

-----------------------------------------------------------------------------
(* How an attempt fails. *)

\* The waits the code bounds: 90 s for the row of the peer, 60 s to connect, 120 s for the
\* signature of the host and ten minutes for the whole prover, 60 s to confirm.
\* Mut: no watchdog over the prover.
MutBounded == {"waiting", "connecting", "confirming"}
Bounded == {"waiting", "connecting", "agreed", "witnessed", "signed", "confirming"}

\* The confirmation window is open until the chain answered what was submitted.
WindowOpen(t) == Prompt /\ (mempool # {} \/ Confirmed(t))

TimesOut(t) ==
  /\ phase[t] \in Bounded
  /\ phase[t] = "confirming" => ~WindowOpen(t)
  /\ GivesUp(t)

\* Any call of the attempt may fail, and so may the prover.
Fails(t) ==
  /\ phase[t] \in Attempting \ {"confirming"}
  /\ GivesUp(t)

-----------------------------------------------------------------------------
(* Crash, restart, recovery. *)

\* Memory is lost, own_order_ids with it; a prover past its signature may live on.
Crash(t) ==
  /\ phase[t] # "off" /\ crashes < MaxCrashes
  /\ crashes' = crashes + 1
  /\ session' = [session EXCEPT ![t] = IF phase[t] = "signed" THEN @ ELSE None]
  /\ phase' = [phase EXCEPT ![t] = "off"]
  /\ queued' = [queued EXCEPT ![t] = 0]
  /\ resting' = [resting EXCEPT ![t] = FALSE]
  /\ refused' = [refused EXCEPT ![t] = FALSE]
  /\ own' = [own EXCEPT ![t] = FALSE]
  /\ reach' = [u \in Traders |-> FALSE]
  /\ wallet' = [wallet EXCEPT ![t] = saved[t]]
  /\ asked' = [asked EXCEPT ![t] = None]
  /\ UNCHANGED <<chain, crossed, recovery, proofs, witness, saved>>

Restart(t) ==
  /\ phase[t] = "off"
  /\ phase' = [phase EXCEPT ![t] = "idle"]
  /\ session' = [session EXCEPT ![t] = None]
  /\ recovery' = [recovery EXCEPT ![t] = "due"]
  /\ UNCHANGED <<chain, crossed, desk, reach, asked, proofs, books, crashes>>

\* Nothing of the pair is under way anywhere.
AtRest == mempool = {} /\ \A u \in Traders : session[u] = None

\* Mut: a directory without a witness is examined too.
MutNoWitness(t) == FALSE
NoWitness(t) == witness[t] = None

\* try_recover_session reads the witness and asks the node for the cash it would own.
Ask(t) ==
  /\ phase[t] # "off" /\ recovery[t] = "due"
  /\ Quiet => AtRest
  /\ asked' = [asked EXCEPT ![t] = witness[t]]
  /\ recovery' = [recovery EXCEPT ![t] = IF NoWitness(t) THEN "done" ELSE "asked"]
  /\ UNCHANGED <<chain, crossed, phase, desk, reach, proofs, session, books, crashes>>

\* InProgress: the node did not answer.
NoAnswer(t) ==
  /\ phase[t] # "off" /\ recovery[t] = "asked"
  /\ recovery' = [recovery EXCEPT ![t] = "done"]
  /\ UNCHANGED <<chain, crossed, phase, desk, reach, asked, proofs, session, books, crashes>>

\* The account holds the cash the statement would pay.
\* Mut: a session is stale when it is not credited yet.
MutExists(t) == landed = asked[t] /\ asked[t] \in wallet[t]
Exists(t) == landed = asked[t]

\* The cash exists: the statement landed.
Recover(t) ==
  /\ phase[t] # "off" /\ recovery[t] = "asked" /\ Exists(t)
  /\ Books(t, asked[t])
  /\ witness' = [witness EXCEPT ![t] = None]
  /\ recovery' = [recovery EXCEPT ![t] = "done"]
  /\ UNCHANGED <<chain, crossed, phase, desk, reach, asked, proofs, session, crashes>>

\* It does not: the directory is removed, whatever it holds by now.
Discard(t) ==
  /\ phase[t] # "off" /\ recovery[t] = "asked" /\ ~Exists(t)
  /\ witness' = [witness EXCEPT ![t] = None]
  /\ recovery' = [recovery EXCEPT ![t] = "done"]
  /\ UNCHANGED <<chain, crossed, phase, desk, reach, asked, proofs, session, wallet, saved,
                 crashes>>

-----------------------------------------------------------------------------
Next ==
  \/ \E t \in Traders :
       \/ Poll(t) \/ Skip(t) \/ Start(t) \/ Due(t)
       \/ Refuse(t) \/ Register(t) \/ RegisterRejected(t) \/ Meet(t)
       \/ WriteWitness(t) \/ Sign(t) \/ Finish(t) \/ Submit(t) \/ Credit(t)
       \/ TimesOut(t) \/ Fails(t)
       \/ Crash(t) \/ Restart(t)
       \/ Ask(t) \/ NoAnswer(t) \/ Recover(t) \/ Discard(t)
  \/ Agree
  \/ \E k \in Statements : OpenProof(k) \/ Land(k) \/ Reject(k)

Spec == Init /\ [][Next]_vars

\* Tokio runs every task that can run and every timer fires; the chain executes what it
\* took.  Nothing is assumed of faults, of users or of the peer.
Fairness ==
  /\ \A t \in Traders :
       WF_vars(Refuse(t) \/ Register(t) \/ RegisterRejected(t) \/ Submit(t) \/ Credit(t)
               \/ TimesOut(t))
  /\ \A k \in Statements : WF_vars(Land(k) \/ Reject(k))

FairSpec == Spec /\ Fairness

-----------------------------------------------------------------------------
(* Properties. *)

\* Type invariant.
TypeOK ==
  /\ rows \in SUBSET Traders /\ mempool \in SUBSET Statements
  /\ landed \in Statements \cup {None}
  /\ crossed \in BOOLEAN
  /\ phase \in [Traders -> Attempting \cup {"idle", "off"}]
  /\ queued \in [Traders -> 0 .. MaxQueue]
  /\ resting \in [Traders -> BOOLEAN] /\ refused \in [Traders -> BOOLEAN]
  /\ own \in [Traders -> BOOLEAN] /\ reach \in [Traders -> BOOLEAN]
  /\ recovery \in [Traders -> {"due", "asked", "done"}]
  /\ asked \in [Traders -> Statements \cup {None}]
  /\ sessions \in 0 .. MaxSessions
  /\ session \in [Traders -> Statements \cup {None}]
  /\ signed \in [Traders -> SUBSET Statements] /\ opened \in SUBSET Statements
  /\ witness \in [Traders -> Statements \cup {None}]
  /\ wallet \in [Traders -> SUBSET Statements] /\ saved \in [Traders -> SUBSET Statements]
  /\ crashes \in 0 .. MaxCrashes

\* The statement can still settle the pair: it did, it is submitted, or a prover holds or
\* can still obtain its proof.
CanLand(k) ==
  \/ landed = k
  \/ landed = None /\ k \in mempool
  \/ landed = None /\ \E t \in Traders : session[t] = k /\ phase[t] = "proved"
  \/ landed = None /\ k \in opened /\ \E t \in Traders : session[t] = k /\ phase[t] = "signed"
  \/ landed = None /\ \A t \in Traders : Proving(t, k)

\* Whatever the chain can still land, both traders can open: its blindings are in the
\* witness file of the order or already in the wallet.
LandableIsWitnessed ==
  \A k \in Statements : CanLand(k) =>
    \A t \in Traders : witness[t] = k \/ k \in wallet[t]

\* session.rs:22-23, "everything the chain can ever land is recoverable from my disk first".
LandedIsRecoverable ==
  landed # None => \A t \in Traders : witness[t] = landed \/ landed \in wallet[t]

\* The serial coroutine is never held for ever: an attempt ends whatever the peer does.
AttemptsEnd == \A t \in Traders : phase[t] \in Attempting ~> phase[t] \notin Attempting

\* A trader that waits for a settled pair is credited with the statement that landed, not
\* with one of an earlier attempt, unless its application crashes.
ConfirmedIsCredited ==
  \A t \in Traders :
    phase[t] = "confirming" /\ landed # None ~> landed \in wallet[t] \/ phase[t] = "off"

\* The joint settlement implements the swap: at most one statement settles the pair, one
\* both traders signed, and no wallet is ever credited with another.
Swap == INSTANCE PairSwap WITH settled <- landed, credited <- wallet
SwapRefined == Swap!SwapSpec
=============================================================================
