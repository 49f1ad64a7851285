---------------------------- MODULE MakerRecovery ----------------------------
(***************************************************************************)
(* One Taproot hop of a maker after the taker has gone quiet: the recovery *)
(* loop of `recover_from_swap` (hashlock path, then timelock path), the    *)
(* block chain it races on, and a crash or an error between any two steps. *)
(*                                                                         *)
(* The outgoing contract, just broadcast when the model starts, can be     *)
(* claimed by the next hop once confirmed and refunded by the maker from   *)
(* TOut on; the incoming one is confirmed, can be swept by the maker once  *)
(* it knows the preimage, and is refunded by the previous hop from TIn on. *)
(***************************************************************************)
EXTENDS Naturals

CONSTANTS
  TOut,       \* the outgoing contract's timelock (an absolute height)
  Step,       \* REFUND_LOCKTIME_STEP
  Reaction,   \* MIN_CONTRACT_REACTION_TIME
  Lag,        \* bound: blocks that may arrive before the loop completes a pass
  Delay,      \* bound: blocks that may arrive before a broadcast spend confirms
  MaxHeight   \* bound on the chain's height

TIn == TOut + Step

ASSUME SizesAssumption ==
  /\ TOut \in Nat /\ Step \in Nat /\ Reaction \in Nat
  /\ Lag \in Nat \ {0} /\ Delay \in Nat \ {0} /\ MaxHeight \in Nat

\* The reaction time leaves room for what recovery needs in the worst case: the
\* start, three passes, and the confirmation of the claim and of the sweep; or, when
\* the outgoing contract itself is slow to confirm, three passes and three
\* confirmations.
ASSUME MarginAssumption ==
  /\ 4 * Lag + 2 * Delay < Reaction
  /\ 3 * Lag + 3 * Delay <= Reaction
  /\ Reaction <= Step

VARIABLES
  height,     \* height of the chain's tip
  outgoing,   \* the outgoing contract: pending (unconfirmed), live, claimed
              \* (the preimage is public), refunded
  incoming,   \* the incoming contract: live, swept, lost (refunded upstream)
  outPool,    \* broadcast spends of the outgoing contract
  inPool,     \* broadcast spends of the incoming contract
  outAge,     \* blocks the outgoing contract's next confirmation has been awaited
  inAge,      \* the same for the incoming contract
  outCoin,    \* on disk: is the outgoing swapcoin in the wallet
  inCoin,     \* on disk: the incoming swapcoin: plain, preimage (known), absent
  pc,         \* where the recovery thread is
  lag,        \* blocks since the thread last completed a pass
  stopped     \* history: what has stopped recovery so far: a wait for a confirmation
              \* that failed, an error of the backend, a restart without a thread

chain == <<height, outgoing, incoming, outPool, inPool, outAge, inAge>>
disk  == <<outCoin, inCoin>>
vars  == <<chain, disk, pc, lag, stopped>>

Steps == {"idle", "check", "hashlock", "timelock", "waitSweep", "cleanup",
          "waitRefund", "done", "dead"}
Waiting == {"waitSweep", "waitRefund"}

\* Mutant of PastDeadline: the reaction time is left out.
PastDeadlineNoMargin == TOut + Step < height

\* past_refund_deadline for a Taproot swap, and the negation of check_sweep_margin.
PastDeadline == TOut + Step < height + Reaction

\* The contract is broadcast right after check_sweep_margin.
Init ==
  /\ height \in 0..TIn /\ ~PastDeadline
  /\ outgoing = "pending" /\ incoming = "live"
  /\ outPool = {} /\ inPool = {}
  /\ outAge = 0 /\ inAge = 0
  /\ outCoin = TRUE /\ inCoin = "plain"
  /\ pc = "idle" /\ lag = 0
  /\ stopped = {}

-----------------------------------------------------------------------------
(* The chain and the other parties *)

\* The next hop publishes the preimage.
Claim ==
  /\ outgoing = "live" /\ "claim" \notin outPool
  /\ outPool' = outPool \cup {"claim"}
  /\ UNCHANGED <<height, outgoing, incoming, inPool, outAge, inAge, disk, pc, lag, stopped>>

\* The previous hop takes its coins back.
UpstreamRefund ==
  /\ height >= TIn
  /\ incoming = "live" /\ "refund" \notin inPool
  /\ inPool' = inPool \cup {"refund"}
  /\ UNCHANGED <<height, outgoing, incoming, outPool, outAge, inAge, disk, pc, lag, stopped>>

\* The thread has something to do: it is past the idle stage, and any transaction
\* it waits for has confirmed or been displaced.
Due ==
  \/ pc \in {"check", "hashlock", "timelock", "cleanup"}
  \/ pc = "idle" /\ PastDeadline
  \/ pc = "waitSweep" /\ incoming # "live"
  \/ pc = "waitRefund" /\ outgoing # "live"

\* What the next block may make of each contract.
OutNext ==
  IF outgoing = "pending" THEN {"live"}
  ELSE {r \in {"claimed", "refunded"} :
          /\ outgoing = "live"
          /\ (IF r = "claimed" THEN "claim" ELSE "refund") \in outPool}

InNext ==
  {r \in {"swept", "lost"} :
     /\ incoming = "live"
     /\ (IF r = "swept" THEN "sweep" ELSE "refund") \in inPool}

\* A contract keeps its state when nothing is awaited, or for less than Delay blocks.
Stays(next, age) == next = {} \/ age + 1 < Delay

NewBlock ==
  /\ height < MaxHeight
  /\ Due => lag < Lag
  /\ height' = height + 1
  /\ outgoing' \in OutNext \cup (IF Stays(OutNext, outAge) THEN {outgoing} ELSE {})
  /\ incoming' \in InNext \cup (IF Stays(InNext, inAge) THEN {incoming} ELSE {})
  /\ outAge' = IF OutNext # {} /\ outgoing' = outgoing THEN outAge + 1 ELSE 0
  /\ inAge' = IF InNext # {} /\ incoming' = incoming THEN inAge + 1 ELSE 0
  /\ outPool' = IF outgoing' = "live" THEN outPool ELSE {}
  /\ inPool' = IF incoming' = "live" THEN inPool ELSE {}
  /\ lag' = IF Due THEN lag + 1 ELSE lag
  /\ UNCHANGED <<disk, pc, stopped>>

-----------------------------------------------------------------------------
(* The recovery thread *)

Goto(step) == pc' = step

\* The idle checker drains the swap: the taker has been quiet for the idle timeout,
\* or the refund deadline is near.
StartRecovery ==
  /\ pc = "idle"
  /\ Goto("check") /\ lag' = 0
  /\ UNCHANGED <<chain, disk, stopped>>

\* check_for_preimage: a confirmed claim is found, one in the mempool may be.  A query
\* that fails starts the pass again and changes nothing.
CheckForPreimage ==
  /\ pc = "check"
  /\ \/ /\ outgoing = "claimed" \/ "claim" \in outPool
        /\ inCoin' = IF inCoin = "plain" THEN "preimage" ELSE inCoin
     \/ outgoing # "claimed" /\ UNCHANGED inCoin
  /\ Goto("hashlock")
  /\ UNCHANGED <<chain, outCoin, lag, stopped>>

\* A node that already has a conflicting spend may refuse the new one.
Accepted(pool, tx) == pool \subseteq {tx}

\* sweep_incoming_swapcoins broadcasts the sweep and waits for it.
Sweep ==
  /\ pc = "hashlock" /\ inCoin = "preimage"
  /\ incoming = "live"
  /\ inPool' = inPool \cup {"sweep"}
  /\ Goto("waitSweep") /\ lag' = 0
  /\ UNCHANGED <<height, outgoing, incoming, outPool, outAge, inAge, disk, stopped>>

\* No preimage yet, no output left to sweep, or the sweep was refused.
SkipSweep ==
  /\ pc = "hashlock"
  /\ inCoin = "preimage" => incoming # "live" \/ ~Accepted(inPool, "sweep")
  /\ Goto("timelock")
  /\ UNCHANGED <<chain, disk, lag, stopped>>

\* The sweep is confirmed: the incoming coin leaves the wallet ...
SweepConfirmed ==
  /\ pc = "waitSweep" /\ incoming = "swept"
  /\ inCoin' = "absent"
  /\ Goto("cleanup")
  /\ UNCHANGED <<chain, outCoin, lag, stopped>>

\* ... then the outgoing one, and the thread is done.
CleanUp ==
  /\ pc = "cleanup"
  /\ outCoin' = FALSE
  /\ Goto("done")
  /\ UNCHANGED <<chain, inCoin, lag, stopped>>

\* all_swap_contracts_resolved: no contract output is unspent, mempool included.
Resolved ==
  /\ outgoing \in {"claimed", "refunded"} \/ outPool # {}
  /\ incoming # "live" \/ inPool # {}

\* The end of a pass in which the wallet reported a recovered or dropped coin.
Conclude == Goto(IF Resolved THEN "done" ELSE "check")

\* Mutant of TimelockIdle: the pass waits for the incoming contract's timelock.
TimelockIdleLonger ==
  /\ pc = "timelock"
  /\ \/ height < TIn + lag \/ ~outCoin
     \/ outgoing = "pending"
     \/ outgoing = "live" /\ ~Accepted(outPool, "refund")
  /\ Goto("check") /\ lag' = 0
  /\ UNCHANGED <<chain, disk, stopped>>

\* recover_timelocked_swapcoins: before the timelock, with no outgoing coin in the
\* wallet, with the contract unconfirmed, or when the node refuses the refund, the
\* pass ends with nothing done.  The height was read earlier in the pass, so it may
\* be that of any tip since the pass began.
TimelockIdle ==
  /\ pc = "timelock"
  /\ \/ height < TOut + lag \/ ~outCoin
     \/ outgoing = "pending"
     \/ outgoing = "live" /\ ~Accepted(outPool, "refund")
  /\ Goto("check") /\ lag' = 0
  /\ UNCHANGED <<chain, disk, stopped>>

\* Mutant of Refund: the contract's confirmation is not checked.
RefundUnconfirmed ==
  /\ pc = "timelock"
  /\ height >= TOut /\ outCoin
  /\ outgoing \in {"pending", "live"}
  /\ outPool' = outPool \cup {"refund"}
  /\ Goto("waitRefund") /\ lag' = 0
  /\ UNCHANGED <<height, outgoing, incoming, inPool, outAge, inAge, disk, stopped>>

\* The contract is confirmed and its timelock has passed: the refund is broadcast.
Refund ==
  /\ pc = "timelock"
  /\ height >= TOut /\ outCoin
  /\ outgoing = "live"
  /\ outPool' = outPool \cup {"refund"}
  /\ Goto("waitRefund") /\ lag' = 0
  /\ UNCHANGED <<height, outgoing, incoming, inPool, outAge, inAge, disk, stopped>>

\* ensure_contract_on_chain answers Discarded: a confirmed transaction has spent
\* the contract, and the outgoing coin is dropped.
Discard ==
  /\ pc = "timelock"
  /\ height >= TOut /\ outCoin
  /\ outgoing \in {"claimed", "refunded"}
  /\ outCoin' = FALSE
  /\ Conclude /\ lag' = 0
  /\ UNCHANGED <<chain, inCoin, stopped>>

RefundConfirmed ==
  /\ pc = "waitRefund" /\ outgoing = "refunded"
  /\ outCoin' = FALSE
  /\ Conclude /\ lag' = 0
  /\ UNCHANGED <<chain, inCoin, stopped>>

\* wait_for_tx_confirmation gives up: a conflicting spend won, or the confirmation
\* deadline passed.  The error ends the thread.
WaitFails ==
  /\ pc \in Waiting
  /\ Goto("dead") /\ stopped' = stopped \cup {"wait"}
  /\ UNCHANGED <<chain, disk, lag>>

\* The node does not answer, or the wallet file cannot be written: the error ends the
\* thread too.
BackendFails ==
  /\ pc \in {"check", "hashlock", "timelock", "cleanup"}
  /\ Goto("dead") /\ stopped' = stopped \cup {"backend"}
  /\ UNCHANGED <<chain, disk, lag>>

\* Crash and start_server: find_unfinished_swapcoins decides whether a thread
\* starts.  A group without an outgoing coin has no timelock, and its thread ends
\* with an error.
Reboot ==
  /\ Goto(IF outCoin THEN "check" ELSE IF inCoin = "absent" THEN "done" ELSE "dead")
  /\ stopped' = IF ~outCoin /\ inCoin # "absent" THEN stopped \cup {"restart"} ELSE stopped
  /\ lag' = IF pc \in Waiting \cup {"idle"} THEN 0 ELSE lag
  /\ UNCHANGED <<chain, disk>>

Thread ==
  \/ StartRecovery \/ CheckForPreimage
  \/ Sweep \/ SkipSweep \/ SweepConfirmed \/ CleanUp
  \/ TimelockIdle \/ Refund \/ Discard \/ RefundConfirmed

Next == Claim \/ UpstreamRefund \/ NewBlock \/ Thread \/ WaitFails \/ BackendFails \/ Reboot

Spec == Init /\ [][Next]_vars

-----------------------------------------------------------------------------
(* Properties *)

\* Every variable has its type; in particular no pass is later than Lag blocks, no
\* confirmation later than Delay blocks, and recovery never spends an outgoing contract
\* that is not confirmed.
TypeOK ==
  /\ height \in Nat
  /\ outgoing \in {"pending", "live", "claimed", "refunded"}
  /\ incoming \in {"live", "swept", "lost"}
  /\ outPool \subseteq {"claim", "refund"}
  /\ outgoing = "pending" => outPool = {}
  /\ inPool \subseteq {"sweep", "refund"}
  /\ outAge \in 0..(Delay - 1) /\ inAge \in 0..(Delay - 1)
  /\ outCoin \in BOOLEAN
  /\ inCoin \in {"plain", "preimage", "absent"}
  /\ pc \in Steps
  /\ lag \in 0..Lag
  /\ stopped \subseteq {"wait", "backend", "restart"}

Lost == outgoing = "claimed" /\ incoming = "lost"

\* What recover_from_swap promises: if the next hop claims the outgoing contract, the
\* preimage it publishes lets the maker sweep the incoming one, so a maker whose node
\* answers never ends with the outgoing contract claimed and the incoming one refunded
\* upstream.
HopAtomic == "backend" \notin stopped => ~Lost

\* The loop keeps that promise as long as it runs: across crashes and restarts at any
\* step, a maker loses a hop only after a recovery thread ended with an error, or a
\* restart found no outgoing swapcoin to start one from.
LossNeedsStop == stopped = {} => ~Lost

\* By the time the previous hop can take the incoming contract back, the outgoing one is
\* settled: recovery refunded it or saw it claimed, so no claim can come later.
SettledInTime == height >= TIn /\ stopped = {} => outgoing \in {"claimed", "refunded"}
=============================================================================
