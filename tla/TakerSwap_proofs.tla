-------------------------- MODULE TakerSwap_proofs --------------------------
(***************************************************************************)
(* Theorems about TakerSwap, for every route length, number of spares and  *)
(* of funding transactions, and for both protocols: the types; that the    *)
(* wallet file can recover every live contract of the current funding,     *)
(* whatever fails and wherever the process ends; and that the recovery     *)
(* loop ends only when there is nothing left to do.                        *)
(*                                                                         *)
(* Then, of a taker who waits for confirmations: that it gives its keys    *)
(* away only for an incoming contract it can claim, and that TakerSwap     *)
(* implements AtomicSwap.  With required_confirms = 0 the taker does not   *)
(* wait for the last maker's funding, and neither holds.                   *)
(***************************************************************************)
EXTENDS TakerSwap_steps

-----------------------------------------------------------------------------
(* The funding that is created, sent and held *)

\* Funding that was created and not sent is in the wallet file, and the recovery loop of
\* an earlier swap does not drop it.
LEMMA StepCreated == TypeOK /\ Counted /\ PhaseOf /\ Before /\ Future /\ Created /\
    [Next]_vars => Created'
<1> SUFFICES ASSUME TypeOK, Counted, PhaseOf, Before, Future, Created, [Next]_vars PROVE
    Created'
  OBVIOUS
<1>0. /\ gen \in 0..Spares /\ Spares \in Nat
      /\ out \in [Coins -> {"none", "funded", "published", "refunded", "paid", "taken"}]
  BY SizesAssumption DEF TypeOK
<1>00. Current \subseteq Coins /\ (\A c \in Current : c[1] = gen) /\ <<gen, 1>> \in Current
  BY <1>0, CurrentCoins
<1> USE <1>0
<1>1. CASE Prepare
  BY <1>1 DEF Prepare, params, wallet, chain, peers, Created, Current, Legacy, First,
  Later, Resting
<1>2. CASE Negotiate
  BY <1>2 DEF Negotiate, params, wallet, chain, peers, Created, Current, Legacy, First,
  Later, Resting
<1>3. CASE StartSwap
  BY <1>3, <1>00 DEF StartSwap, Legacy, Funded, ExchangeStart, params, chain, peers,
  Before, Start, Created, Current, First, Later, Resting
<1>4. CASE Talks
  BY <1>4, TalksFrame DEF Created, Current, Legacy, First, Later, PhaseOf
<1>5. CASE Notes
  BY <1>5, NotesFrame DEF Created, Current, Legacy, First, Later, Resting
<1>6. CASE Replies
  BY <1>6, RepliesFrame DEF Created, Current, Legacy, First, Later, Resting
<1>7. CASE SaveBeforeBroadcast
  BY <1>7, <1>00 DEF SaveBeforeBroadcast, params, memory, tracker, chain, peers, Created,
  Current, Legacy, First, Later, Resting
<1>8. CASE SendFunding
  BY <1>8 DEF SendFunding, params, memory, wallet, tracker, peers, Created, Current,
  Legacy, First, Later, Resting
<1>9. CASE NextMakerFails
  BY <1>9 DEF NextMakerFails, params, wallet, tracker, chain, peers, PhaseOf, Created,
  Current, Legacy, First, Later, Resting
<1>10. CASE Handover
  BY <1>10 DEF Handover, params, wallet, tracker, chain, Created, Current, Legacy, First,
  Later, Resting
<1>11. CASE HandoverFails
  BY <1>11 DEF HandoverFails, params, memory, wallet, tracker, chain, FailAndRecover,
  Forget, Created, Current, Legacy, First, Later, Resting
<1>12. CASE Settle
  BY <1>12 DEF Settle, params, memory, tracker, peers, Created, Current, Legacy, First,
  Later, Resting
<1>13. CASE Complete
  BY <1>13 DEF Complete, params, chain, peers, Created, Current, Legacy, First, Later,
  Resting
<1>14. CASE ExchangeFails
  BY <1>14 DEF ExchangeFails, FailAndRecover, Forget, params, chain, Created, Current,
  Legacy, First, Later, Resting
<1>15. CASE SettleNone
  BY <1>15 DEF SettleNone, FailAndRecover, peers, Forget, params, chain, Created, Current,
  Legacy, First, Later, Resting
<1>16. CASE SubstituteFirst
  <2>1. \A c \in Current' : c \in Coins /\ c[1] = gen' /\ out'[c] = "none"
    BY <1>16, FreshCurrent
  <2>2. \A c \in Current' : wOut'[c] = "bare"
    BY <1>16, <2>1 DEF SubstituteFirst, Funded
  <2>. QED
    BY <1>16, <2>1, <2>2 DEF SubstituteFirst, params, Created, Legacy
<1>17. CASE SettleFails
  BY <1>17 DEF SettleFails, params, memory, wallet, tracker, chain, peers, Created,
  Current, Legacy, First, Later, Resting
<1>18. CASE LoopClaims
  BY <1>18 DEF LoopClaims, loopFrame, params, memory, peers, Created, Current, Legacy,
  First, Later, Resting
<1>19. CASE LoopCleansUp
  BY <1>19, <1>00 DEF LoopCleansUp, Resolved, loopFrame, params, memory, peers, Created,
  Current, Legacy, First, Later, Resting
<1>20. ASSUME NEW S \in SUBSET Coins, LoopRefunds(S) PROVE Created'
  BY <1>20, <1>00 DEF LoopRefunds, RefundPass, Dropped, loopFrame, Due, Recovered, params,
  memory, peers, Created, Current, Legacy, First, Later, Resting
<1>21. CASE Restart
  BY <1>21 DEF Restart, params, memory, peers, Created, Current, Legacy, First, Later,
  Resting
<1>22. CASE Drops
  BY <1>22, DropsFrame DEF Created, Current, Legacy, First, Later, Resting
<1>23. CASE Watches
  BY <1>23, WatchesFrame DEF Created, Current, Legacy, First, Later, Resting
<1>24. CASE LastMakerFunds
  BY <1>24 DEF LastMakerFunds, others, params, memory, wallet, tracker, peers, Created,
  Current, Legacy, First, Later, Resting
<1>25. CASE LastMakerPublishes
  BY <1>25 DEF LastMakerPublishes, others, params, memory, wallet, tracker, peers, Created,
  Current, Legacy, First, Later, Resting
<1>26. CASE RipenIncoming
  BY <1>26 DEF RipenIncoming, others, params, memory, wallet, tracker, peers, Created,
  Current, Legacy, First, Later, Resting
<1>27. CASE LastMakerRefunds
  BY <1>27 DEF LastMakerRefunds, others, params, memory, wallet, tracker, peers, Created,
  Current, Legacy, First, Later, Resting
<1>28. ASSUME NEW e \in Coins, FirstMakerPublishes(e) PROVE Created'
  BY <1>28 DEF FirstMakerPublishes, others, params, memory, wallet, tracker, peers,
  Created, Current, Legacy, First, Later, Resting
<1>29. ASSUME NEW e \in Coins, FirstMakerTakes(e) PROVE Created'
  BY <1>29 DEF FirstMakerTakes, others, params, memory, wallet, tracker, peers, Created,
  Current, Legacy, First, Later, Resting
<1>30. ASSUME NEW e \in Coins, Ripen(e) PROVE Created'
  BY <1>30 DEF Ripen, others, params, memory, wallet, tracker, peers, Created, Current,
  Legacy, First, Later, Resting
<1>31. CASE UNCHANGED vars
  BY <1>31 DEF vars, params, memory, wallet, tracker, chain, peers, Created, Current,
  Legacy, First, Later, Resting
<1>. QED
  BY <1>1, <1>2, <1>3, <1>4, <1>5, <1>6, <1>7, <1>8, <1>9, <1>10, <1>11, <1>12, <1>13,
  <1>14, <1>15, <1>16, <1>17, <1>18, <1>19, <1>20, <1>21, <1>22, <1>23, <1>24, <1>25,
  <1>26, <1>27, <1>28, <1>29, <1>30, <1>31
     DEF Next, Exchange, Finish, Trouble, Loop, Others, Talks, Notes, Replies, Drops, Watches

\* While funding is broadcast the wallet file holds all it takes to recover it: the
\* wallet's lock keeps the recovery loop out.
LEMMA StepSending == TypeOK /\ ByProtocol /\ PhaseOf /\ Created /\ Sending /\ [Next]_vars
    => Sending'
<1> SUFFICES ASSUME TypeOK, ByProtocol, PhaseOf, Created, Sending, [Next]_vars PROVE Sending'
  OBVIOUS
<1>0. /\ gen \in 0..Spares /\ Spares \in Nat
      /\ out \in [Coins -> {"none", "funded", "published", "refunded", "paid", "taken"}]
  BY SizesAssumption DEF TypeOK
<1>00. Current \subseteq Coins /\ (\A c \in Current : c[1] = gen) /\ <<gen, 1>> \in Current
  BY <1>0, CurrentCoins
<1> USE <1>0
<1>1. CASE Prepare
  BY <1>1 DEF Prepare, params, wallet, chain, peers, Sending, Current, Legacy, Later,
  Resting
<1>2. CASE Negotiate
  BY <1>2 DEF Negotiate, params, wallet, chain, peers, Sending, Current, Legacy, Later,
  Resting
<1>3. CASE StartSwap
  BY <1>3 DEF StartSwap, Legacy, ExchangeStart, params, chain, peers, Sending, Current,
  Later, Resting
<1>4. CASE Talks
  BY <1>4, TalksFrame DEF Sending, Current, Legacy, Later, Resting
<1>5. CASE Announce
  BY <1>5 DEF Announce, params, wallet, chain, peers, Created, ByProtocol, PhaseOf, First,
  Sending, Current, Legacy, Later, Resting
<1>6. CASE AllSent
  BY <1>6 DEF AllSent, params, wallet, chain, peers, Sending, Current, Legacy, Later,
  Resting
<1>7. CASE ContractsExchanged
  BY <1>7 DEF ContractsExchanged, params, wallet, chain, peers, Sending, Current, Legacy,
  Later, Resting
<1>8. CASE BeginFinalize
  BY <1>8 DEF BeginFinalize, params, wallet, chain, peers, Sending, Current, Legacy, Later,
  Resting
<1>9. CASE Forwarded
  BY <1>9 DEF Forwarded, params, wallet, chain, peers, Sending, Current, Legacy, Later,
  Resting
<1>10. CASE Replies
  BY <1>10, RepliesFrame DEF Sending, Current, Legacy, Later, Resting
<1>11. CASE SaveBeforeBroadcast
  BY <1>11, <1>00 DEF SaveBeforeBroadcast, params, memory, tracker, chain, peers,
  ByProtocol, Sending, Current, Legacy, Later, Resting
<1>12. CASE SendFunding
  BY <1>12 DEF SendFunding, params, memory, wallet, tracker, peers, Sending, Current,
  Legacy, Later, Resting
<1>13. CASE NextMakerFails
  BY <1>13 DEF NextMakerFails, params, wallet, tracker, chain, peers, Sending, Current,
  Legacy, Later, Resting
<1>14. CASE Handover
  BY <1>14 DEF Handover, params, wallet, tracker, chain, Sending, Current, Legacy, Later,
  Resting
<1>15. CASE HandoverFails
  BY <1>15 DEF HandoverFails, params, memory, wallet, tracker, chain, FailAndRecover,
  Forget, Sending, Current, Legacy, Later, Resting
<1>16. CASE Settle
  BY <1>16 DEF Settle, params, memory, tracker, peers, Sending, Current, Legacy, Later,
  Resting
<1>17. CASE Complete
  BY <1>17 DEF Complete, params, chain, peers, Sending, Current, Legacy, Later, Resting
<1>18. CASE ExchangeFails
  BY <1>18 DEF ExchangeFails, FailAndRecover, Forget, params, chain, Sending, Current,
  Legacy, Later, Resting
<1>19. CASE SettleNone
  BY <1>19 DEF SettleNone, FailAndRecover, peers, Forget, params, chain, Sending, Current,
  Legacy, Later, Resting
<1>20. CASE SubstituteFirst
  BY <1>20 DEF SubstituteFirst, Legacy, ExchangeStart, params, tracker, chain, peers,
  Sending, Current, Later, Resting
<1>21. CASE SettleFails
  BY <1>21 DEF SettleFails, params, memory, wallet, tracker, chain, peers, Sending,
  Current, Legacy, Later, Resting
<1>22. CASE LoopClaims
  BY <1>22 DEF LoopClaims, loopFrame, params, memory, peers, Sending, Current, Legacy,
  Later, Resting
<1>23. CASE LoopCleansUp
  BY <1>23 DEF LoopCleansUp, Unlocked, loopFrame, params, memory, peers, Sending, Current,
  Legacy, Later, Resting
<1>24. ASSUME NEW S \in SUBSET Coins, LoopRefunds(S) PROVE Sending'
  BY <1>24 DEF LoopRefunds, Unlocked, loopFrame, params, memory, peers, Sending, Current,
  Legacy, Later, Resting
<1>25. CASE Restart
  BY <1>25 DEF Restart, params, memory, peers, Sending, Current, Legacy, Later, Resting
<1>26. CASE Drops
  BY <1>26, DropsFrame DEF Sending, Current, Legacy, Later, Resting
<1>27. CASE Watches
  BY <1>27, WatchesFrame DEF Sending, Current, Legacy, Later, Resting
<1>28. CASE World
  BY <1>28, WorldFrame DEF Sending, Current, Legacy, Later, Resting
<1>29. CASE UNCHANGED vars
  BY <1>29 DEF vars, params, memory, wallet, tracker, chain, peers, Sending, Current,
  Legacy, Later, Resting
<1>. QED
  BY <1>1, <1>2, <1>3, <1>4, <1>5, <1>6, <1>7, <1>8, <1>9, <1>10, <1>11, <1>12, <1>13,
  <1>14, <1>15, <1>16, <1>17, <1>18, <1>19, <1>20, <1>21, <1>22, <1>23, <1>24, <1>25,
  <1>26, <1>27, <1>28, <1>29
     DEF Next, Exchange, Finish, Trouble, Loop, Others, Talks, Replies, Drops, Watches, World

\* A Taproot contract is published by its funding transaction.
LEMMA StepOnlyLegacy == TypeOK /\ OnlyLegacy /\ [Next]_vars => OnlyLegacy'
<1> SUFFICES ASSUME TypeOK, OnlyLegacy, [Next]_vars PROVE OnlyLegacy'
  OBVIOUS
<1>0. /\ gen \in 0..Spares /\ Spares \in Nat
      /\ out \in [Coins -> {"none", "funded", "published", "refunded", "paid", "taken"}]
  BY SizesAssumption DEF TypeOK
<1> USE <1>0
<1>1. CASE Prepare
  BY <1>1 DEF Prepare, params, wallet, chain, peers, OnlyLegacy, Legacy
<1>2. CASE Negotiate
  BY <1>2 DEF Negotiate, params, wallet, chain, peers, OnlyLegacy, Legacy
<1>3. CASE StartSwap
  BY <1>3 DEF StartSwap, params, chain, peers, OnlyLegacy, Legacy
<1>4. CASE Talks
  BY <1>4, TalksFrame DEF OnlyLegacy, Legacy
<1>5. CASE Notes
  BY <1>5, NotesFrame DEF OnlyLegacy, Legacy
<1>6. CASE Replies
  BY <1>6, RepliesFrame DEF OnlyLegacy, Legacy
<1>7. CASE SaveBeforeBroadcast
  BY <1>7 DEF SaveBeforeBroadcast, params, memory, tracker, chain, peers, OnlyLegacy,
  Legacy
<1>8. CASE SendFunding
  BY <1>8 DEF SendFunding, Unsent, params, memory, wallet, tracker, peers, OnlyLegacy,
  Legacy
<1>9. CASE NextMakerFails
  BY <1>9 DEF NextMakerFails, params, wallet, tracker, chain, peers, OnlyLegacy, Legacy
<1>10. CASE Handover
  BY <1>10 DEF Handover, params, wallet, tracker, chain, OnlyLegacy, Legacy
<1>11. CASE HandoverFails
  BY <1>11 DEF HandoverFails, params, memory, wallet, tracker, chain, FailAndRecover,
  Forget, OnlyLegacy, Legacy
<1>12. CASE Settle
  BY <1>12 DEF Settle, params, memory, tracker, peers, OnlyLegacy, Legacy
<1>13. CASE Complete
  BY <1>13 DEF Complete, params, chain, peers, OnlyLegacy, Legacy
<1>14. CASE ExchangeFails
  BY <1>14 DEF ExchangeFails, FailAndRecover, Forget, params, chain, OnlyLegacy, Legacy
<1>15. CASE SettleNone
  BY <1>15 DEF SettleNone, FailAndRecover, peers, Forget, params, chain, OnlyLegacy, Legacy
<1>16. CASE SubstituteFirst
  BY <1>16 DEF SubstituteFirst, params, tracker, chain, peers, OnlyLegacy, Legacy
<1>17. CASE SettleFails
  BY <1>17 DEF SettleFails, params, memory, wallet, tracker, chain, peers, OnlyLegacy,
  Legacy
<1>18. CASE LoopClaims
  BY <1>18 DEF LoopClaims, loopFrame, params, memory, peers, OnlyLegacy, Legacy
<1>19. CASE LoopCleansUp
  BY <1>19 DEF LoopCleansUp, loopFrame, params, memory, peers, OnlyLegacy, Legacy
<1>20. ASSUME NEW S \in SUBSET Coins, LoopRefunds(S) PROVE OnlyLegacy'
  BY <1>20 DEF LoopRefunds, RefundPass, loopFrame, Recovered, params, memory, peers,
  OnlyLegacy, Legacy
<1>21. CASE Restart
  BY <1>21 DEF Restart, RecoverWallet, params, memory, peers, RefundPass, Recovered,
  OnlyLegacy, Legacy
<1>22. CASE Drops
  BY <1>22, DropsFrame DEF OnlyLegacy, Legacy
<1>23. CASE Watches
  BY <1>23, WatchesFrame DEF OnlyLegacy, Legacy
<1>24. CASE LastMakerFunds
  BY <1>24 DEF LastMakerFunds, others, params, memory, wallet, tracker, peers, OnlyLegacy,
  Legacy
<1>25. CASE LastMakerPublishes
  BY <1>25 DEF LastMakerPublishes, others, params, memory, wallet, tracker, peers,
  OnlyLegacy, Legacy
<1>26. CASE RipenIncoming
  BY <1>26 DEF RipenIncoming, others, params, memory, wallet, tracker, peers, OnlyLegacy,
  Legacy
<1>27. CASE LastMakerRefunds
  BY <1>27 DEF LastMakerRefunds, others, params, memory, wallet, tracker, peers,
  OnlyLegacy, Legacy
<1>28. ASSUME NEW e \in Coins, FirstMakerPublishes(e) PROVE OnlyLegacy'
  BY <1>28 DEF FirstMakerPublishes, others, params, memory, wallet, tracker, peers,
  OnlyLegacy, Legacy
<1>29. ASSUME NEW e \in Coins, FirstMakerTakes(e) PROVE OnlyLegacy'
  BY <1>29 DEF FirstMakerTakes, others, params, memory, wallet, tracker, peers, OnlyLegacy,
  Legacy
<1>30. ASSUME NEW e \in Coins, Ripen(e) PROVE OnlyLegacy'
  BY <1>30 DEF Ripen, others, params, memory, wallet, tracker, peers, OnlyLegacy, Legacy
<1>31. CASE UNCHANGED vars
  BY <1>31 DEF vars, params, memory, wallet, tracker, chain, peers, OnlyLegacy, Legacy
<1>. QED
  BY <1>1, <1>2, <1>3, <1>4, <1>5, <1>6, <1>7, <1>8, <1>9, <1>10, <1>11, <1>12, <1>13,
  <1>14, <1>15, <1>16, <1>17, <1>18, <1>19, <1>20, <1>21, <1>22, <1>23, <1>24, <1>25,
  <1>26, <1>27, <1>28, <1>29, <1>30, <1>31
     DEF Next, Exchange, Finish, Trouble, Loop, Others, Talks, Notes, Replies, Drops, Watches

\* No step leaves a live contract of the current funding without a coin that can recover
\* it, unless the incoming coins are claimed: a failure saves the signed coins, a pass of
\* the recovery loop drops only coins of spent contracts, cleanup waits for every spend,
\* and a completed swap was paid.
LEMMA StepBacked == TypeOK /\ Counted /\ ByProtocol /\ PhaseOf /\ Signed /\ Before /\
    Future /\ Sending /\ OnlyLegacy /\ Handed /\ Paid /\ Backed /\ [Next]_vars => Backed'
<1> SUFFICES ASSUME TypeOK, Counted, ByProtocol, PhaseOf, Signed, Before, Future,
    Sending, OnlyLegacy, Handed, Paid, Backed, [Next]_vars PROVE Backed'
  OBVIOUS
<1>0. /\ gen \in 0..Spares /\ Spares \in Nat
      /\ out \in [Coins -> {"none", "funded", "published", "refunded", "paid", "taken"}]
  BY SizesAssumption DEF TypeOK
<1>00. Current \subseteq Coins /\ (\A c \in Current : c[1] = gen) /\ <<gen, 1>> \in Current
  BY <1>0, CurrentCoins
<1> USE <1>0
<1>1. CASE Prepare
  BY <1>1 DEF Prepare, params, wallet, chain, peers, Backed, Live, Held, Current
<1>2. CASE Negotiate
  BY <1>2, <1>00 DEF Negotiate, params, wallet, chain, peers, Backed, Live, Held, Current
<1>3. CASE StartSwap
  BY <1>3, <1>00 DEF StartSwap, Funded, params, chain, peers, Before, Start, Backed, Live,
  Held, Current
<1>4. CASE Talks
  BY <1>4, TalksFrame DEF Backed, Live, Held, Current
<1>5. CASE Notes
  BY <1>5, NotesFrame DEF Backed, Live, Held, Current
<1>6. CASE Replies
  BY <1>6, RepliesFrame DEF Backed, Live, Held, Current
<1>7. CASE SaveBeforeBroadcast
  BY <1>7, <1>00 DEF SaveBeforeBroadcast, params, memory, tracker, chain, peers, Backed,
  Live, Held, Current
<1>8. CASE SendFunding
  BY <1>8, <1>00 DEF SendFunding, Legacy, Unsent, params, memory, wallet, tracker, peers,
  Sending, Backed, Live, Held, Current
<1>9. CASE NextMakerFails
  BY <1>9 DEF NextMakerFails, params, wallet, tracker, chain, peers, Backed, Live, Held,
  Current
<1>10. CASE Handover
  BY <1>10 DEF Handover, Sent, params, wallet, tracker, chain, Backed, Live, Held, Current
<1>11. CASE HandoverFails
  <2>1. Legacy => signed
    BY <1>11 DEF HandoverFails, Signed, Ends
  <2>2. CASE UNCHANGED <<memory, wallet, chain>>
    BY <1>11, <2>2 DEF HandoverFails, Sent, memory, wallet, chain, Backed, Live, Held, Current
  <2>3. CASE FailAndRecover
    BY <2>1, <2>3, FailHolds DEF Backed
  <2>. QED
    BY <1>11, <2>2, <2>3 DEF HandoverFails
<1>12. CASE Settle
  BY <1>12 DEF Settle, Claim, params, memory, tracker, peers, Backed, Live, Held, Current
<1>13. CASE Complete
  BY <1>13, <1>00 DEF Complete, params, chain, peers, Handed, Paid, Backed, Live, Held,
  Current
<1>14. CASE ExchangeFails
  <2>1. Legacy => signed
    BY <1>14 DEF ExchangeFails, ExchangeSteps, Unfunded, ByProtocol, PhaseOf, Signed, Later
  <2>. QED
    BY <1>14, <2>1, FailHolds DEF ExchangeFails, Backed
<1>15. CASE SettleNone
  <2>1. Legacy => signed
    BY <1>15 DEF SettleNone, Signed, Ends
  <2>. QED
    BY <1>15, <2>1, FailHolds DEF SettleNone, Backed
<1>16. CASE SubstituteFirst
  BY <1>16, FreshCurrent DEF Backed, Live
<1>17. CASE SettleFails
  BY <1>17 DEF SettleFails, params, memory, wallet, tracker, chain, peers, Backed, Live,
  Held, Current
<1>18. CASE LoopClaims
  BY <1>18 DEF LoopClaims, Claim, loopFrame, params, memory, peers, Backed, Live, Held,
  Current
<1>19. CASE LoopCleansUp
  BY <1>19, <1>00 DEF LoopCleansUp, Resolved, loopFrame, params, memory, peers, Backed,
  Live, Held, Current
<1>20. ASSUME NEW S \in SUBSET Coins, LoopRefunds(S) PROVE Backed'
  BY <1>20, <1>00 DEF LoopRefunds, RefundPass, Dropped, loopFrame, Due, Recovered, params,
  memory, peers, Backed, Live, Held, Current
<1>21. CASE Restart
  <2>1. PICK S \in SUBSET Coins : RefundPass(S)
    BY <1>21 DEF Restart, RecoverWallet
  <2>2. gen' = gen /\ given' = given /\ Current' = Current
    BY <1>21 DEF Restart, memory, peers, Current
  <2>3. inc \in {"claimed", "swept"} => inc' \in {"claimed", "swept"}
    BY <1>21 DEF Restart, RecoverWallet, Claim
  <2>. QED
    BY <1>00, <2>1, <2>2, <2>3, PassHolds DEF Backed
<1>22. CASE SubstituteFails
  BY <1>22, FreshCurrent DEF Backed, Live
<1>23. CASE Abort
  BY <1>23 DEF Abort, params, wallet, chain, peers, Backed, Live, Held, Current
<1>24. CASE Crash
  BY <1>24 DEF Crash, Exit, tracker, params, wallet, chain, peers, Backed, Live, Held,
  Current
<1>25. CASE Shutdown
  BY <1>25 DEF Shutdown, Exit, params, wallet, chain, peers, Backed, Live, Held, Current
<1>26. CASE Watches
  BY <1>26, WatchesFrame DEF Backed, Live, Held, Current
<1>27. CASE LastMakerFunds
  BY <1>27 DEF LastMakerFunds, others, params, memory, wallet, tracker, peers, Backed,
  Live, Held, Current
<1>28. CASE LastMakerPublishes
  BY <1>28 DEF LastMakerPublishes, others, params, memory, wallet, tracker, peers, Backed,
  Live, Held, Current
<1>29. CASE RipenIncoming
  BY <1>29 DEF RipenIncoming, others, params, memory, wallet, tracker, peers, Backed, Live,
  Held, Current
<1>30. CASE LastMakerRefunds
  BY <1>30 DEF LastMakerRefunds, others, params, memory, wallet, tracker, peers, Backed,
  Live, Held, Current
<1>31. ASSUME NEW e \in Coins, FirstMakerPublishes(e) PROVE Backed'
  BY <1>31 DEF FirstMakerPublishes, others, params, memory, wallet, tracker, peers, Backed,
  Live, Held, Current
<1>32. ASSUME NEW e \in Coins, FirstMakerTakes(e) PROVE Backed'
  BY <1>32 DEF FirstMakerTakes, others, params, memory, wallet, tracker, peers, Backed,
  Live, Held, Current
<1>33. ASSUME NEW e \in Coins, Ripen(e) PROVE Backed'
  BY <1>33 DEF Ripen, others, params, memory, wallet, tracker, peers, Backed, Live, Held,
  Current
<1>34. CASE UNCHANGED vars
  BY <1>34 DEF vars, params, memory, wallet, tracker, chain, peers, Backed, Live, Held,
  Current
<1>. QED
  BY <1>1, <1>2, <1>3, <1>4, <1>5, <1>6, <1>7, <1>8, <1>9, <1>10, <1>11, <1>12, <1>13,
  <1>14, <1>15, <1>16, <1>17, <1>18, <1>19, <1>20, <1>21, <1>22, <1>23, <1>24, <1>25,
  <1>26, <1>27, <1>28, <1>29, <1>30, <1>31, <1>32, <1>33, <1>34
     DEF Next, Exchange, Finish, Trouble, Loop, Others, Talks, Notes, Replies, Watches

-----------------------------------------------------------------------------
(* The theorems *)

\* TypeOK is the conjunction of its parts.
LEMMA TypeParts ==
  TypeOK <=> /\ PcOK /\ CountersOK /\ PhasesOK /\ FlagsOK
             /\ IncomingOK /\ ThreadsOK /\ CoinsOK /\ ChainOK
BY DEF TypeOK, PcOK, CountersOK, PhasesOK, FlagsOK, IncomingOK, ThreadsOK, CoinsOK, ChainOK

\* A taker that has just been asked for a swap satisfies the invariant.
LEMMA InitIInv == Init => IInv
<1> SUFFICES ASSUME Init PROVE IInv
  OBVIOUS
<1>1. TypeOK
  <2>1. backlog \in BOOLEAN /\ signed \in BOOLEAN /\ revealed \in BOOLEAN /\ watcher \in BOOLEAN
    <3>1. backlog \in BOOLEAN
      BY SizesAssumption DEF Init
    <3>2. signed = FALSE /\ revealed = FALSE /\ watcher = TRUE
      BY DEF Init
    <3>. QED
      BY <3>1, <3>2, Zenon
  <2>2. PcOK /\ PhasesOK /\ IncomingOK /\ ThreadsOK
    BY DEF Init, PcOK, PhasesOK, IncomingOK, ThreadsOK
  <2>3. CountersOK
    BY SizesAssumption DEF Init, CountersOK
  <2>4. CoinsOK /\ ChainOK
    BY DEF Init, CoinsOK, ChainOK
  <2>. QED
    BY <2>1, <2>2, <2>3, <2>4, TypeParts DEF FlagsOK
<1>2. Counted
  BY SizesAssumption DEF Init, Counted
<1>3. ByProtocol /\ PhaseOf /\ FirstHop /\ Signed /\ Handed /\ Paid /\ Keyed
  BY DEF Init, ByProtocol, PhaseOf, FirstHop, Signed, Handed, Paid, Keyed, Later, Ends,
     ExchangeSteps
<1>4. Before /\ Future /\ Created /\ Sending /\ OnlyLegacy
  BY DEF Init, Before, Future, Created, Sending, OnlyLegacy, First
<1>5. Backed
  BY CurrentCoins, <1>1 DEF Init, Backed, Live, TypeOK
<1>. QED
  BY <1>1, <1>2, <1>3, <1>4, <1>5 DEF IInv

\* Every step preserves the invariant.
LEMMA StepIInv == IInv /\ [Next]_vars => IInv'
<1> SUFFICES ASSUME IInv, [Next]_vars PROVE IInv'
  OBVIOUS
<1>1. TypeOK'
  <2>1. /\ PcOK /\ CountersOK /\ PhasesOK /\ FlagsOK
        /\ IncomingOK /\ ThreadsOK /\ CoinsOK /\ ChainOK
    BY TypeParts DEF IInv
  <2>2. PcOK' /\ CountersOK' /\ PhasesOK' /\ FlagsOK'
    BY <2>1, StepPcOK, StepCountersOK, StepPhasesOK, StepFlagsOK DEF IInv
  <2>3. IncomingOK' /\ ThreadsOK' /\ CoinsOK' /\ ChainOK'
    BY <2>1, StepIncomingOK, StepThreadsOK, StepCoinsOK, StepChainOK DEF IInv
  <2>. QED
    BY <2>2, <2>3 DEF TypeOK, PcOK, CountersOK, PhasesOK, FlagsOK, IncomingOK, ThreadsOK,
       CoinsOK, ChainOK
<1>2. Counted' /\ ByProtocol' /\ PhaseOf' /\ FirstHop' /\ Signed'
  BY StepCounted, StepByProtocol, StepPhaseOf, StepFirstHop, StepSigned DEF IInv
<1>3. Before' /\ Future' /\ Created' /\ Sending' /\ OnlyLegacy'
  BY StepBefore, StepFuture, StepCreated, StepSending, StepOnlyLegacy DEF IInv
<1>4. Handed' /\ Paid' /\ Keyed' /\ Backed'
  BY StepHanded, StepPaid, StepKeyed, StepBacked DEF IInv
<1>. QED
  BY <1>1, <1>2, <1>3, <1>4 DEF IInv

\* The invariant holds in every state of a swap.
THEOREM Invariant == Spec => []IInv
BY InitIInv, StepIInv, PTL DEF Spec

\* The types and bounds hold throughout: in particular substitutions and attempts at
\* finalization never exceed the spares and MAX_FINALIZE_RETRIES.
THEOREM TypeCorrect == Spec => []TypeOK
<1>1. IInv => TypeOK
  BY DEF IInv
<1>. QED
  BY Invariant, <1>1, PTL

\* Until the incoming coins are claimed, the wallet file can recover every live contract of
\* the current funding, at every point where the process may end.
THEOREM AlwaysFundingHeld == Spec => []FundingHeld
<1>1. IInv => FundingHeld
  BY DEF IInv, Backed, FundingHeld
<1>. QED
  BY Invariant, <1>1, PTL

\* Only the check for confirmed spends ends the recovery loop.
LEMMA OnlyCleanupEnds ==
  [Next]_vars /\ loop # "done" /\ loop' = "done" => LoopCleansUp
<1> SUFFICES ASSUME [Next]_vars, loop # "done", loop' = "done" PROVE LoopCleansUp
  OBVIOUS
<1>1. CASE Prepare
  BY <1>1 DEF Prepare, params, wallet, chain, peers
<1>2. CASE Negotiate
  BY <1>2 DEF Negotiate, params, wallet, chain, peers
<1>3. CASE StartSwap
  BY <1>3 DEF StartSwap, params, chain, peers
<1>4. CASE Talks
  BY <1>4, TalksFrame
<1>5. CASE Notes
  BY <1>5, NotesFrame
<1>6. CASE Replies
  BY <1>6, RepliesFrame
<1>7. CASE SaveBeforeBroadcast
  BY <1>7 DEF SaveBeforeBroadcast, params, memory, tracker, chain, peers
<1>8. CASE SendFunding
  BY <1>8 DEF SendFunding, params, memory, wallet, tracker, peers
<1>9. CASE NextMakerFails
  BY <1>9 DEF NextMakerFails, params, wallet, tracker, chain, peers
<1>10. CASE Handover
  BY <1>10 DEF Handover, params, wallet, tracker, chain
<1>11. CASE HandoverFails
  BY <1>11 DEF HandoverFails, params, memory, wallet, tracker, chain, FailAndRecover,
  Forget
<1>12. CASE Settle
  BY <1>12 DEF Settle, params, memory, tracker, peers
<1>13. CASE Complete
  BY <1>13 DEF Complete, params, chain, peers
<1>14. CASE ExchangeFails
  BY <1>14 DEF ExchangeFails, FailAndRecover, Forget, params, chain
<1>15. CASE SettleNone
  BY <1>15 DEF SettleNone, FailAndRecover, peers, Forget, params, chain
<1>16. CASE SubstituteFirst
  BY <1>16 DEF SubstituteFirst, params, tracker, chain, peers
<1>17. CASE SettleFails
  BY <1>17 DEF SettleFails, params, memory, wallet, tracker, chain, peers
<1>18. CASE LoopClaims
  BY <1>18 DEF LoopClaims, loopFrame, params, memory, peers
<1>19. CASE LoopCleansUp
  BY <1>19 DEF LoopCleansUp, loopFrame, params, memory, peers
<1>20. ASSUME NEW S \in SUBSET Coins, LoopRefunds(S) PROVE LoopCleansUp
  BY <1>20 DEF LoopRefunds, loopFrame, params, memory, peers
<1>21. CASE Restart
  BY <1>21 DEF Restart, RecoverWallet, params, memory, peers
<1>22. CASE SubstituteFails
  BY <1>22 DEF SubstituteFails, Forget, params, chain, peers
<1>23. CASE Abort
  BY <1>23 DEF Abort, Forget, params, wallet, chain, peers
<1>24. CASE Crash
  BY <1>24 DEF Crash, Exit, tracker, Forget, params, wallet, chain, peers
<1>25. CASE Shutdown
  BY <1>25 DEF Shutdown, Exit, Forget, params, wallet, chain, peers
<1>26. CASE Watches
  BY <1>26, WatchesFrame
<1>27. CASE World
  BY <1>27, WorldFrame
<1>28. CASE UNCHANGED vars
  BY <1>28 DEF vars, params, memory, wallet, tracker, chain, peers
<1>. QED
  BY <1>1, <1>2, <1>3, <1>4, <1>5, <1>6, <1>7, <1>8, <1>9, <1>10, <1>11, <1>12, <1>13,
  <1>14, <1>15, <1>16, <1>17, <1>18, <1>19, <1>20, <1>21, <1>22, <1>23, <1>24, <1>25,
  <1>26, <1>27, <1>28
     DEF Next, Exchange, Finish, Trouble, Loop, Others, Talks, Notes, Replies, Watches, World

\* The recovery loop ends only with every contract of the current funding spent or handed
\* over.
THEOREM LoopDoneMeansSettled == Spec => DoneMeansSettled
<1>1. IInv /\ [Next]_vars
        => [loop # "done" /\ loop' = "done" => \A c \in Current : Live(c) => c \in given]_vars
  <2> SUFFICES ASSUME IInv, [Next]_vars, loop # "done", loop' = "done",
                      NEW c \in Current, Live(c)
               PROVE  c \in given
    OBVIOUS
  <2>1. LoopCleansUp /\ c \in Coins
    BY OnlyCleanupEnds, CurrentCoins DEF IInv, TypeOK
  <2>2. ~Held(c)
    BY <2>1 DEF LoopCleansUp, Resolved, Live, Held
  <2>. QED
    BY <2>2 DEF IInv, Backed
<1>. QED
  BY Invariant, <1>1, PTL DEF Spec, DoneMeansSettled

-----------------------------------------------------------------------------
(* What the taker knows when it gives its keys away *)

\* A maker is asked to fund its hop only after a funding of the taker's is out.
Asked ==
  asked > 0 \/ pc \in Later \/ (pc = "senderSigs" /\ phase = "FundsBroadcast")
    => \E c \in Coins : out[c] # "none"

\* The wallet file can claim the incoming contract, or it is spent.
Holds == wIn \in {"claim", "keyed"} \/ inc \in {"claimed", "swept", "lost"}

\* No key is given before finalization.
NotGiven == pc \in Start \cup ExchangeSteps \cup {"exchanged", "finalize"} => given = {}

\* After the wait for the last maker's funding the incoming contract is on-chain, ...
Offered == pc \in {"incoming", "lastSigs", "exchanged"} \cup Ends => inc # "none"

\* ... and when the contracts are exchanged the incoming coins are in memory and saved.
Saved ==
  pc \in {"exchanged"} \cup Ends \/ (pc = "makerFunding" /\ ~Legacy /\ hop + 1 = Makers)
    => incoming \in {"claim", "keyed"} /\ Holds

\* Keys that were given away are covered by an incoming contract the wallet file can
\* claim, or that was spent.
Covered == given # {} => inc # "none" /\ Holds

\* Who has what of the spent contracts, and why: the preimage, ...
Preimage == revealed => inc = "claimed"
\* ... the outgoing contracts, ...
Taken == \A c \in Coins : out[c] \in {"paid", "taken"} => c \in given \/ revealed
\* ... and the incoming one once its timelock passed.
Ripened == ripeIn # "no" => pc \in Resting /\ inc \in {"published", "lost", "claimed"}
Lost == inc = "lost" => ripeIn # "no"
\* An open incoming contract is looked after, or the sweep after finalization failed.
Attended ==
  pc = "idle" /\ given # {} /\ inc \in {"funded", "published"} /\ loop # "on"
    => phase = "PrivkeysForwarded"
\* The loop loses the race for it only to a contract it has the funding output's key of.
Late == ripeIn \in {"loop", "idle"} /\ given # {} => Legacy /\ wIn = "keyed"

KInv ==
  /\ IInv
  /\ Asked /\ NotGiven /\ Offered /\ Saved /\ Covered
  /\ Preimage /\ Taken /\ Ripened /\ Lost /\ Attended /\ Late

-----------------------------------------------------------------------------
(* What the handover of the keys rests on *)

\* A maker is asked to fund its hop only after the taker's own funding went out.
LEMMA StepAsked == TypeOK /\ PhaseOf /\ FirstHop /\ Asked /\ [Next]_vars => Asked'
<1> SUFFICES ASSUME TypeOK, PhaseOf, FirstHop, Asked, [Next]_vars PROVE Asked'
  OBVIOUS
<1>0. /\ gen \in 0..Spares /\ Spares \in Nat
      /\ out \in [Coins -> {"none", "funded", "published", "refunded", "paid", "taken"}]
  BY SizesAssumption DEF TypeOK
<1>00. Current \subseteq Coins /\ (\A c \in Current : c[1] = gen) /\ <<gen, 1>> \in Current
  BY <1>0, CurrentCoins
<1> USE <1>0
<1>1. CASE Prepare
  BY <1>1 DEF Prepare, params, wallet, chain, peers, Asked, Later, Resting
<1>2. CASE Negotiate
  BY <1>2 DEF Negotiate, params, wallet, chain, peers, Asked, Later, Resting
<1>3. CASE StartSwap
  BY <1>3 DEF StartSwap, Legacy, ExchangeStart, params, chain, peers, Asked, Later, Resting
<1>4. CASE SenderSigs
  BY <1>4 DEF SenderSigs, Advance, peers, params, wallet, tracker, chain, FirstHop,
  PhaseOf, ExchangeSteps, Unfunded, Asked, Later, Resting
<1>5. CASE ConfirmFunding
  BY <1>5 DEF ConfirmFunding, Advance, peers, params, wallet, tracker, chain, Asked, Later,
  Resting
<1>6. CASE ProofOfFunding
  BY <1>6 DEF ProofOfFunding, Advance, peers, params, wallet, tracker, chain, Asked, Later,
  Resting
<1>7. CASE NextSigs
  BY <1>7 DEF NextSigs, Advance, peers, params, wallet, tracker, chain, Asked, Later,
  Resting
<1>8. CASE PrevSigs
  BY <1>8 DEF PrevSigs, Advance, peers, params, wallet, tracker, chain, Asked, Later,
  Resting
<1>9. CASE CombinedSigs
  BY <1>9 DEF CombinedSigs, Advance, params, wallet, tracker, chain, Asked, Later, Resting
<1>10. CASE ContractData
  BY <1>10 DEF ContractData, Advance, params, wallet, tracker, chain, Asked, Later, Resting
<1>11. CASE MakerFunding
  BY <1>11 DEF MakerFunding, NextHop, Advance, peers, params, wallet, tracker, chain,
  Asked, Later, Resting
<1>12. CASE MakerContract
  BY <1>12 DEF MakerContract, NextHop, Advance, peers, params, wallet, tracker, chain,
  Asked, Later, Resting
<1>13. CASE CreateIncoming
  BY <1>13 DEF CreateIncoming, Advance, peers, params, wallet, tracker, chain, Asked,
  Later, Resting
<1>14. CASE Announce
  BY <1>14 DEF Announce, params, wallet, chain, peers, Asked, Later, Resting
<1>15. CASE AllSent
  BY <1>15, <1>00 DEF AllSent, Unsent, params, wallet, chain, peers, Asked, Later, Resting
<1>16. CASE ContractsExchanged
  BY <1>16 DEF ContractsExchanged, params, wallet, chain, peers, Asked, Later, Resting
<1>17. CASE BeginFinalize
  BY <1>17 DEF BeginFinalize, params, wallet, chain, peers, Asked, Later, Resting
<1>18. CASE Forwarded
  BY <1>18 DEF Forwarded, params, wallet, chain, peers, Asked, Later, Resting
<1>19. CASE ContractReply
  BY <1>19 DEF ContractReply, params, tracker, chain, peers, Asked, Later, Resting
<1>20. CASE LastSigs
  BY <1>20 DEF LastSigs, params, tracker, chain, peers, Asked, Later, Resting
<1>21. CASE KeepKeys
  BY <1>21 DEF KeepKeys, params, memory, tracker, chain, peers, Asked, Later, Resting
<1>22. CASE SaveBeforeBroadcast
  BY <1>22 DEF SaveBeforeBroadcast, params, memory, tracker, chain, peers, Asked, Later,
  Resting
<1>23. CASE SendFunding
  BY <1>23 DEF SendFunding, Unsent, params, memory, wallet, tracker, peers, Asked, Later,
  Resting
<1>24. CASE NextMakerFails
  BY <1>24 DEF NextMakerFails, params, wallet, tracker, chain, peers, Asked, Later, Resting
<1>25. CASE Handover
  BY <1>25 DEF Handover, params, wallet, tracker, chain, Asked, Later, Resting
<1>26. CASE HandoverFails
  BY <1>26 DEF HandoverFails, params, memory, wallet, tracker, chain, FailAndRecover,
  Forget, Asked, Later, Resting
<1>27. CASE Settle
  BY <1>27 DEF Settle, params, memory, tracker, peers, Asked, Later, Resting
<1>28. CASE Complete
  BY <1>28 DEF Complete, params, chain, peers, Asked, Later, Resting
<1>29. CASE ExchangeFails
  BY <1>29 DEF ExchangeFails, FailAndRecover, Forget, params, chain, Asked, Later, Resting
<1>30. CASE SettleNone
  BY <1>30 DEF SettleNone, FailAndRecover, peers, Forget, params, chain, Asked, Later,
  Resting
<1>31. CASE SubstituteFirst
  BY <1>31 DEF SubstituteFirst, Legacy, ExchangeStart, params, tracker, chain, peers,
  ExchangeSteps, Unfunded, PhaseOf, Asked, Later, Resting
<1>32. CASE SettleFails
  BY <1>32 DEF SettleFails, params, memory, wallet, tracker, chain, peers, Asked, Later,
  Resting
<1>33. CASE LoopClaims
  BY <1>33 DEF LoopClaims, loopFrame, params, memory, peers, Asked, Later, Resting
<1>34. CASE LoopCleansUp
  BY <1>34 DEF LoopCleansUp, loopFrame, params, memory, peers, Asked, Later, Resting
<1>35. ASSUME NEW S \in SUBSET Coins, LoopRefunds(S) PROVE Asked'
  BY <1>35 DEF LoopRefunds, RefundPass, loopFrame, Recovered, params, memory, peers, Asked,
  Later, Resting
<1>36. CASE Restart
  BY <1>36 DEF Restart, RecoverWallet, params, memory, peers, RefundPass, Recovered, Asked,
  Later, Resting
<1>37. CASE Drops
  BY <1>37, DropsFrame DEF Asked, Later, Resting
<1>38. CASE Watches
  BY <1>38, WatchesFrame DEF Asked, Later, Resting
<1>39. CASE LastMakerFunds
  BY <1>39 DEF LastMakerFunds, others, params, memory, wallet, tracker, peers, Asked,
  Later, Resting
<1>40. CASE LastMakerPublishes
  BY <1>40 DEF LastMakerPublishes, others, params, memory, wallet, tracker, peers, Asked,
  Later, Resting
<1>41. CASE RipenIncoming
  BY <1>41 DEF RipenIncoming, others, params, memory, wallet, tracker, peers, Asked, Later,
  Resting
<1>42. CASE LastMakerRefunds
  BY <1>42 DEF LastMakerRefunds, others, params, memory, wallet, tracker, peers, Asked,
  Later, Resting
<1>43. ASSUME NEW e \in Coins, FirstMakerPublishes(e) PROVE Asked'
  BY <1>43 DEF FirstMakerPublishes, others, params, memory, wallet, tracker, peers, Asked,
  Later, Resting
<1>44. ASSUME NEW e \in Coins, FirstMakerTakes(e) PROVE Asked'
  BY <1>44 DEF FirstMakerTakes, others, params, memory, wallet, tracker, peers, Asked,
  Later, Resting
<1>45. ASSUME NEW e \in Coins, Ripen(e) PROVE Asked'
  BY <1>45 DEF Ripen, others, params, memory, wallet, tracker, peers, Asked, Later, Resting
<1>46. CASE UNCHANGED vars
  BY <1>46 DEF vars, params, memory, wallet, tracker, chain, peers, Asked, Later, Resting
<1>. QED
  BY <1>1, <1>2, <1>3, <1>4, <1>5, <1>6, <1>7, <1>8, <1>9, <1>10, <1>11, <1>12, <1>13,
  <1>14, <1>15, <1>16, <1>17, <1>18, <1>19, <1>20, <1>21, <1>22, <1>23, <1>24, <1>25,
  <1>26, <1>27, <1>28, <1>29, <1>30, <1>31, <1>32, <1>33, <1>34, <1>35, <1>36, <1>37,
  <1>38, <1>39, <1>40, <1>41, <1>42, <1>43, <1>44, <1>45, <1>46
     DEF Next, Exchange, Finish, Trouble, Loop, Others, Drops, Watches

\* No key leaves the taker before finalization.
LEMMA StepNotGiven == NotGiven /\ [Next]_vars => NotGiven'
<1> SUFFICES ASSUME NotGiven, [Next]_vars PROVE NotGiven'
  OBVIOUS
<1>1. CASE Prepare
  BY <1>1 DEF Prepare, params, wallet, chain, peers, NotGiven, Start, ExchangeSteps, Later,
  Resting
<1>2. CASE Negotiate
  BY <1>2 DEF Negotiate, params, wallet, chain, peers, NotGiven, Start, ExchangeSteps,
  Later, Resting
<1>3. CASE StartSwap
  BY <1>3 DEF StartSwap, Legacy, ExchangeStart, params, chain, peers, NotGiven, Start,
  ExchangeSteps, Later, Resting
<1>4. CASE Talks
  BY <1>4, TalksFrame DEF NotGiven, Start, ExchangeSteps, Later, Resting
<1>5. CASE Announce
  BY <1>5 DEF Announce, params, wallet, chain, peers, NotGiven, Start, ExchangeSteps,
  Later, Resting
<1>6. CASE AllSent
  BY <1>6 DEF AllSent, params, wallet, chain, peers, NotGiven, Start, ExchangeSteps, Later,
  Resting
<1>7. CASE ContractsExchanged
  BY <1>7 DEF ContractsExchanged, params, wallet, chain, peers, NotGiven, Start,
  ExchangeSteps, Later, Resting
<1>8. CASE BeginFinalize
  BY <1>8 DEF BeginFinalize, params, wallet, chain, peers, NotGiven, Start, ExchangeSteps,
  Later, Resting
<1>9. CASE Forwarded
  BY <1>9 DEF Forwarded, params, wallet, chain, peers, NotGiven, Start, ExchangeSteps,
  Later, Resting
<1>10. CASE ContractReply
  BY <1>10 DEF ContractReply, params, tracker, chain, peers, NotGiven, Start,
  ExchangeSteps, Later, Resting
<1>11. CASE LastSigs
  BY <1>11 DEF LastSigs, params, tracker, chain, peers, NotGiven, Start, ExchangeSteps,
  Later, Resting
<1>12. CASE KeepKeys
  BY <1>12 DEF KeepKeys, params, memory, tracker, chain, peers, NotGiven, Start,
  ExchangeSteps, Later, Resting
<1>13. CASE SaveBeforeBroadcast
  BY <1>13 DEF SaveBeforeBroadcast, params, memory, tracker, chain, peers, NotGiven, Start,
  ExchangeSteps, Later, Resting
<1>14. CASE SendFunding
  BY <1>14 DEF SendFunding, params, memory, wallet, tracker, peers, NotGiven, Start,
  ExchangeSteps, Later, Resting
<1>15. CASE NextMakerFails
  BY <1>15 DEF NextMakerFails, params, wallet, tracker, chain, peers, NotGiven, Start,
  ExchangeSteps, Later, Resting
<1>16. CASE Handover
  BY <1>16 DEF Handover, params, wallet, tracker, chain, NotGiven, Start, ExchangeSteps,
  Later, Resting
<1>17. CASE HandoverFails
  BY <1>17 DEF HandoverFails, params, memory, wallet, tracker, chain, FailAndRecover,
  Forget, NotGiven, Start, ExchangeSteps, Later, Resting
<1>18. CASE Settle
  BY <1>18 DEF Settle, params, memory, tracker, peers, NotGiven, Start, ExchangeSteps,
  Later, Resting
<1>19. CASE Complete
  BY <1>19 DEF Complete, params, chain, peers, NotGiven, Start, ExchangeSteps, Later,
  Resting
<1>20. CASE ExchangeFails
  BY <1>20 DEF ExchangeFails, FailAndRecover, Forget, params, chain, NotGiven, Start,
  ExchangeSteps, Later, Resting
<1>21. CASE SettleNone
  BY <1>21 DEF SettleNone, FailAndRecover, peers, Forget, params, chain, NotGiven, Start,
  ExchangeSteps, Later, Resting
<1>22. CASE SubstituteFirst
  BY <1>22 DEF SubstituteFirst, Legacy, ExchangeStart, params, tracker, chain, peers,
  NotGiven, Start, ExchangeSteps, Later, Resting
<1>23. CASE SettleFails
  BY <1>23 DEF SettleFails, params, memory, wallet, tracker, chain, peers, NotGiven, Start,
  ExchangeSteps, Later, Resting
<1>24. CASE LoopClaims
  BY <1>24 DEF LoopClaims, loopFrame, params, memory, peers, NotGiven, Start,
  ExchangeSteps, Later, Resting
<1>25. CASE LoopCleansUp
  BY <1>25 DEF LoopCleansUp, loopFrame, params, memory, peers, NotGiven, Start,
  ExchangeSteps, Later, Resting
<1>26. ASSUME NEW S \in SUBSET Coins, LoopRefunds(S) PROVE NotGiven'
  BY <1>26 DEF LoopRefunds, loopFrame, params, memory, peers, NotGiven, Start,
  ExchangeSteps, Later, Resting
<1>27. CASE Restart
  BY <1>27 DEF Restart, params, memory, peers, NotGiven, Start, ExchangeSteps, Later,
  Resting
<1>28. CASE Drops
  BY <1>28, DropsFrame DEF NotGiven, Start, ExchangeSteps, Later, Resting
<1>29. CASE Watches
  BY <1>29, WatchesFrame DEF NotGiven, Start, ExchangeSteps, Later, Resting
<1>30. CASE World
  BY <1>30, WorldFrame DEF NotGiven, Start, ExchangeSteps, Later, Resting
<1>31. CASE UNCHANGED vars
  BY <1>31 DEF vars, params, memory, wallet, tracker, chain, peers, NotGiven, Start,
  ExchangeSteps, Later, Resting
<1>. QED
  BY <1>1, <1>2, <1>3, <1>4, <1>5, <1>6, <1>7, <1>8, <1>9, <1>10, <1>11, <1>12, <1>13,
  <1>14, <1>15, <1>16, <1>17, <1>18, <1>19, <1>20, <1>21, <1>22, <1>23, <1>24, <1>25,
  <1>26, <1>27, <1>28, <1>29, <1>30, <1>31
     DEF Next, Exchange, Finish, Trouble, Loop, Others, Talks, Drops, Watches, World

\* With confirmations required, the exchange ends only with the last maker's funding
\* on-chain.
LEMMA StepOffered == Confirms > 0 /\ TypeOK /\ Offered /\ [Next]_vars => Offered'
<1> SUFFICES ASSUME Confirms > 0, TypeOK, Offered, [Next]_vars PROVE Offered'
  OBVIOUS
<1>0. Makers \in Nat /\ hop \in 0..Makers - 1
  BY SizesAssumption DEF TypeOK
<1> USE <1>0
<1>1. CASE Prepare
  BY <1>1 DEF Prepare, params, wallet, chain, peers, Offered, Ends, Later, Resting
<1>2. CASE Negotiate
  BY <1>2 DEF Negotiate, params, wallet, chain, peers, Offered, Ends, Later, Resting
<1>3. CASE StartSwap
  BY <1>3 DEF StartSwap, Legacy, ExchangeStart, params, chain, peers, Offered, Ends, Later,
  Resting
<1>4. CASE SenderSigs
  BY <1>4 DEF SenderSigs, Advance, peers, params, wallet, tracker, chain, Offered, Ends,
  Later, Resting
<1>5. CASE ConfirmFunding
  BY <1>5 DEF ConfirmFunding, Advance, peers, params, wallet, tracker, chain, Offered,
  Ends, Later, Resting
<1>6. CASE ProofOfFunding
  BY <1>6 DEF ProofOfFunding, Advance, peers, params, wallet, tracker, chain, Offered,
  Ends, Later, Resting
<1>7. CASE NextSigs
  BY <1>7 DEF NextSigs, Advance, peers, params, wallet, tracker, chain, Offered, Ends,
  Later, Resting
<1>8. CASE PrevSigs
  BY <1>8 DEF PrevSigs, Advance, peers, params, wallet, tracker, chain, Offered, Ends,
  Later, Resting
<1>9. CASE CombinedSigs
  BY <1>9 DEF CombinedSigs, Advance, params, wallet, tracker, chain, Offered, Ends, Later,
  Resting
<1>10. CASE ContractData
  BY <1>10 DEF ContractData, Advance, params, wallet, tracker, chain, Offered, Ends, Later,
  Resting
<1>11. CASE MakerFunding
  BY <1>11 DEF MakerFunding, NextHop, Advance, peers, params, wallet, tracker, chain,
  Offered, Ends, Later, Resting
<1>12. CASE MakerContract
  BY <1>12 DEF MakerContract, NextHop, Advance, peers, params, wallet, tracker, chain,
  Offered, Ends, Later, Resting
<1>13. CASE CreateIncoming
  BY <1>13 DEF CreateIncoming, Advance, peers, params, wallet, tracker, chain, Offered,
  Ends, Later, Resting
<1>14. CASE Announce
  BY <1>14 DEF Announce, params, wallet, chain, peers, Offered, Ends, Later, Resting
<1>15. CASE AllSent
  BY <1>15 DEF AllSent, params, wallet, chain, peers, Offered, Ends, Later, Resting
<1>16. CASE ContractsExchanged
  BY <1>16 DEF ContractsExchanged, params, wallet, chain, peers, Offered, Ends, Later,
  Resting
<1>17. CASE BeginFinalize
  BY <1>17 DEF BeginFinalize, params, wallet, chain, peers, Offered, Ends, Later, Resting
<1>18. CASE Forwarded
  BY <1>18 DEF Forwarded, params, wallet, chain, peers, Offered, Ends, Later, Resting
<1>19. CASE ContractReply
  BY <1>19 DEF ContractReply, params, tracker, chain, peers, Offered, Ends, Later, Resting
<1>20. CASE LastSigs
  BY <1>20 DEF LastSigs, params, tracker, chain, peers, Offered, Ends, Later, Resting
<1>21. CASE KeepKeys
  BY <1>21 DEF KeepKeys, params, memory, tracker, chain, peers, Offered, Ends, Later,
  Resting
<1>22. CASE SaveBeforeBroadcast
  BY <1>22 DEF SaveBeforeBroadcast, params, memory, tracker, chain, peers, Offered, Ends,
  Later, Resting
<1>23. CASE SendFunding
  BY <1>23 DEF SendFunding, params, memory, wallet, tracker, peers, Offered, Ends, Later,
  Resting
<1>24. CASE NextMakerFails
  BY <1>24 DEF NextMakerFails, params, wallet, tracker, chain, peers, Offered, Ends, Later,
  Resting
<1>25. CASE Handover
  BY <1>25 DEF Handover, params, wallet, tracker, chain, Offered, Ends, Later, Resting
<1>26. CASE HandoverFails
  BY <1>26 DEF HandoverFails, params, memory, wallet, tracker, chain, FailAndRecover,
  Forget, Offered, Ends, Later, Resting
<1>27. CASE Settle
  BY <1>27 DEF Settle, Claim, params, memory, tracker, peers, Offered, Ends, Later, Resting
<1>28. CASE Complete
  BY <1>28 DEF Complete, params, chain, peers, Offered, Ends, Later, Resting
<1>29. CASE ExchangeFails
  BY <1>29 DEF ExchangeFails, FailAndRecover, Forget, params, chain, Offered, Ends, Later,
  Resting
<1>30. CASE SettleNone
  BY <1>30 DEF SettleNone, FailAndRecover, peers, Forget, params, chain, Offered, Ends,
  Later, Resting
<1>31. CASE SubstituteFirst
  BY <1>31 DEF SubstituteFirst, Legacy, ExchangeStart, params, tracker, chain, peers,
  Offered, Ends, Later, Resting
<1>32. CASE SettleFails
  BY <1>32 DEF SettleFails, params, memory, wallet, tracker, chain, peers, Offered, Ends,
  Later, Resting
<1>33. CASE LoopClaims
  BY <1>33 DEF LoopClaims, Claim, loopFrame, params, memory, peers, Offered, Ends, Later,
  Resting
<1>34. CASE LoopCleansUp
  BY <1>34 DEF LoopCleansUp, loopFrame, params, memory, peers, Offered, Ends, Later,
  Resting
<1>35. ASSUME NEW S \in SUBSET Coins, LoopRefunds(S) PROVE Offered'
  BY <1>35 DEF LoopRefunds, loopFrame, params, memory, peers, Offered, Ends, Later, Resting
<1>36. CASE Restart
  BY <1>36 DEF Restart, params, memory, peers, Offered, Ends, Later, Resting
<1>37. CASE Drops
  BY <1>37, DropsFrame DEF Offered, Ends, Later, Resting
<1>38. CASE Watches
  BY <1>38, WatchesFrame DEF Offered, Ends, Later, Resting
<1>39. CASE LastMakerFunds
  BY <1>39 DEF LastMakerFunds, others, params, memory, wallet, tracker, peers, Offered,
  Ends, Later, Resting
<1>40. CASE LastMakerPublishes
  BY <1>40 DEF LastMakerPublishes, others, params, memory, wallet, tracker, peers, Offered,
  Ends, Later, Resting
<1>41. CASE RipenIncoming
  BY <1>41 DEF RipenIncoming, others, params, memory, wallet, tracker, peers, Offered,
  Ends, Later, Resting
<1>42. CASE LastMakerRefunds
  BY <1>42 DEF LastMakerRefunds, others, params, memory, wallet, tracker, peers, Offered,
  Ends, Later, Resting
<1>43. ASSUME NEW e \in Coins, FirstMakerPublishes(e) PROVE Offered'
  BY <1>43 DEF FirstMakerPublishes, others, params, memory, wallet, tracker, peers,
  Offered, Ends, Later, Resting
<1>44. ASSUME NEW e \in Coins, FirstMakerTakes(e) PROVE Offered'
  BY <1>44 DEF FirstMakerTakes, others, params, memory, wallet, tracker, peers, Offered,
  Ends, Later, Resting
<1>45. ASSUME NEW e \in Coins, Ripen(e) PROVE Offered'
  BY <1>45 DEF Ripen, others, params, memory, wallet, tracker, peers, Offered, Ends, Later,
  Resting
<1>46. CASE UNCHANGED vars
  BY <1>46 DEF vars, params, memory, wallet, tracker, chain, peers, Offered, Ends, Later,
  Resting
<1>. QED
  BY <1>1, <1>2, <1>3, <1>4, <1>5, <1>6, <1>7, <1>8, <1>9, <1>10, <1>11, <1>12, <1>13,
  <1>14, <1>15, <1>16, <1>17, <1>18, <1>19, <1>20, <1>21, <1>22, <1>23, <1>24, <1>25,
  <1>26, <1>27, <1>28, <1>29, <1>30, <1>31, <1>32, <1>33, <1>34, <1>35, <1>36, <1>37,
  <1>38, <1>39, <1>40, <1>41, <1>42, <1>43, <1>44, <1>45, <1>46
     DEF Next, Exchange, Finish, Trouble, Loop, Others, Drops, Watches

\* The incoming coins are in memory and in the wallet file when the exchange ends, and stay
\* there until they are spent.
LEMMA StepSaved == TypeOK /\ ByProtocol /\ Saved /\ [Next]_vars => Saved'
<1> SUFFICES ASSUME TypeOK, ByProtocol, Saved, [Next]_vars PROVE Saved'
  OBVIOUS
<1>0. Makers \in Nat /\ hop \in 0..Makers - 1
  BY SizesAssumption DEF TypeOK
<1> USE <1>0
<1>1. CASE Prepare
  BY <1>1 DEF Prepare, params, wallet, chain, peers, Saved, Holds, Ends, Legacy
<1>2. CASE Negotiate
  BY <1>2 DEF Negotiate, params, wallet, chain, peers, Saved, Holds, Ends, Legacy
<1>3. CASE StartSwap
  BY <1>3 DEF StartSwap, Legacy, ExchangeStart, params, chain, peers, Saved, Holds, Ends
<1>4. CASE SenderSigs
  BY <1>4 DEF SenderSigs, Advance, peers, params, wallet, tracker, chain, ByProtocol,
  Saved, Holds, Ends, Legacy
<1>5. CASE ConfirmFunding
  BY <1>5 DEF ConfirmFunding, Advance, peers, params, wallet, tracker, chain, ByProtocol,
  Saved, Holds, Ends, Legacy
<1>6. CASE ProofOfFunding
  BY <1>6 DEF ProofOfFunding, Advance, peers, params, wallet, tracker, chain, ByProtocol,
  Saved, Holds, Ends, Legacy
<1>7. CASE NextSigs
  BY <1>7 DEF NextSigs, Advance, peers, params, wallet, tracker, chain, ByProtocol, Saved,
  Holds, Ends, Legacy
<1>8. CASE PrevSigs
  BY <1>8 DEF PrevSigs, Advance, peers, params, wallet, tracker, chain, ByProtocol, Saved,
  Holds, Ends, Legacy
<1>9. CASE CombinedSigs
  BY <1>9 DEF CombinedSigs, Advance, params, wallet, tracker, chain, ByProtocol, Saved,
  Holds, Ends, Legacy
<1>10. CASE ContractData
  BY <1>10 DEF ContractData, Advance, params, wallet, tracker, chain, ByProtocol, Saved,
  Holds, Ends, Legacy
<1>11. CASE MakerFunding
  BY <1>11 DEF MakerFunding, NextHop, Advance, peers, params, wallet, tracker, chain,
  ByProtocol, Saved, Holds, Ends, Legacy
<1>12. CASE MakerContract
  BY <1>12 DEF MakerContract, NextHop, Advance, peers, params, wallet, tracker, chain,
  ByProtocol, Saved, Holds, Ends, Legacy
<1>13. CASE CreateIncoming
  BY <1>13 DEF CreateIncoming, Advance, peers, params, wallet, tracker, chain, ByProtocol,
  Saved, Holds, Ends, Legacy
<1>14. CASE Announce
  BY <1>14 DEF Announce, params, wallet, chain, peers, Saved, Holds, Ends, Legacy
<1>15. CASE AllSent
  BY <1>15 DEF AllSent, params, wallet, chain, peers, Saved, Holds, Ends, Legacy
<1>16. CASE ContractsExchanged
  BY <1>16 DEF ContractsExchanged, params, wallet, chain, peers, Saved, Holds, Ends, Legacy
<1>17. CASE BeginFinalize
  BY <1>17 DEF BeginFinalize, params, wallet, chain, peers, Saved, Holds, Ends, Legacy
<1>18. CASE Forwarded
  BY <1>18 DEF Forwarded, params, wallet, chain, peers, Saved, Holds, Ends, Legacy
<1>19. CASE ContractReply
  BY <1>19 DEF ContractReply, params, tracker, chain, peers, Saved, Holds, Ends, Legacy
<1>20. CASE LastSigs
  BY <1>20 DEF LastSigs, params, tracker, chain, peers, Saved, Holds, Ends, Legacy
<1>21. CASE KeepKeys
  BY <1>21 DEF KeepKeys, params, memory, tracker, chain, peers, Saved, Holds, Ends, Legacy
<1>22. CASE SaveBeforeBroadcast
  BY <1>22 DEF SaveBeforeBroadcast, params, memory, tracker, chain, peers, Saved, Holds,
  Ends, Legacy
<1>23. CASE SendFunding
  BY <1>23 DEF SendFunding, params, memory, wallet, tracker, peers, Saved, Holds, Ends,
  Legacy
<1>24. CASE NextMakerFails
  BY <1>24 DEF NextMakerFails, params, wallet, tracker, chain, peers, Saved, Holds, Ends,
  Legacy
<1>25. CASE Handover
  BY <1>25 DEF Handover, params, wallet, tracker, chain, Saved, Holds, Ends, Legacy
<1>26. CASE HandoverFails
  BY <1>26 DEF HandoverFails, params, memory, wallet, tracker, chain, FailAndRecover,
  Forget, Saved, Holds, Ends, Legacy
<1>27. CASE Settle
  BY <1>27 DEF Settle, Claim, params, memory, tracker, peers, Saved, Holds, Ends, Legacy
<1>28. CASE Complete
  BY <1>28 DEF Complete, params, chain, peers, Saved, Holds, Ends, Legacy
<1>29. CASE ExchangeFails
  BY <1>29 DEF ExchangeFails, FailAndRecover, Forget, params, chain, Saved, Holds, Ends,
  Legacy
<1>30. CASE SettleNone
  BY <1>30 DEF SettleNone, FailAndRecover, peers, Forget, params, chain, Saved, Holds,
  Ends, Legacy
<1>31. CASE SubstituteFirst
  BY <1>31 DEF SubstituteFirst, Legacy, ExchangeStart, params, tracker, chain, peers,
  Saved, Holds, Ends
<1>32. CASE SettleFails
  BY <1>32 DEF SettleFails, params, memory, wallet, tracker, chain, peers, Saved, Holds,
  Ends, Legacy
<1>33. CASE LoopClaims
  BY <1>33 DEF LoopClaims, Claim, loopFrame, params, memory, peers, Saved, Holds, Ends,
  Legacy
<1>34. CASE LoopCleansUp
  BY <1>34 DEF LoopCleansUp, loopFrame, params, memory, peers, Saved, Holds, Ends, Legacy
<1>35. ASSUME NEW S \in SUBSET Coins, LoopRefunds(S) PROVE Saved'
  BY <1>35 DEF LoopRefunds, loopFrame, params, memory, peers, Saved, Holds, Ends, Legacy
<1>36. CASE Restart
  BY <1>36 DEF Restart, params, memory, peers, Saved, Holds, Ends, Legacy
<1>37. CASE Drops
  BY <1>37, DropsFrame DEF Saved, Ends, Resting
<1>38. CASE Watches
  BY <1>38, WatchesFrame DEF Saved, Holds, Ends, Legacy
<1>39. CASE LastMakerFunds
  BY <1>39 DEF LastMakerFunds, others, params, memory, wallet, tracker, peers, Saved,
  Holds, Ends, Legacy
<1>40. CASE LastMakerPublishes
  BY <1>40 DEF LastMakerPublishes, others, params, memory, wallet, tracker, peers, Saved,
  Holds, Ends, Legacy
<1>41. CASE RipenIncoming
  BY <1>41 DEF RipenIncoming, others, params, memory, wallet, tracker, peers, Saved, Holds,
  Ends, Legacy
<1>42. CASE LastMakerRefunds
  BY <1>42 DEF LastMakerRefunds, others, params, memory, wallet, tracker, peers, Saved,
  Holds, Ends, Legacy
<1>43. ASSUME NEW e \in Coins, FirstMakerPublishes(e) PROVE Saved'
  BY <1>43 DEF FirstMakerPublishes, others, params, memory, wallet, tracker, peers, Saved,
  Holds, Ends, Legacy
<1>44. ASSUME NEW e \in Coins, FirstMakerTakes(e) PROVE Saved'
  BY <1>44 DEF FirstMakerTakes, others, params, memory, wallet, tracker, peers, Saved,
  Holds, Ends, Legacy
<1>45. ASSUME NEW e \in Coins, Ripen(e) PROVE Saved'
  BY <1>45 DEF Ripen, others, params, memory, wallet, tracker, peers, Saved, Holds, Ends,
  Legacy
<1>46. CASE UNCHANGED vars
  BY <1>46 DEF vars, params, memory, wallet, tracker, chain, peers, Saved, Holds, Ends,
  Legacy
<1>. QED
  BY <1>1, <1>2, <1>3, <1>4, <1>5, <1>6, <1>7, <1>8, <1>9, <1>10, <1>11, <1>12, <1>13,
  <1>14, <1>15, <1>16, <1>17, <1>18, <1>19, <1>20, <1>21, <1>22, <1>23, <1>24, <1>25,
  <1>26, <1>27, <1>28, <1>29, <1>30, <1>31, <1>32, <1>33, <1>34, <1>35, <1>36, <1>37,
  <1>38, <1>39, <1>40, <1>41, <1>42, <1>43, <1>44, <1>45, <1>46
     DEF Next, Exchange, Finish, Trouble, Loop, Others, Drops, Watches

\* Keys that were given away are covered by an incoming contract the wallet file can claim:
\* a failure saves what is in memory over what the file has.
LEMMA StepCovered == NotGiven /\ Offered /\ Saved /\ Covered /\ [Next]_vars => Covered'
<1> SUFFICES ASSUME NotGiven, Offered, Saved, Covered, [Next]_vars PROVE Covered'
  OBVIOUS
<1>1. CASE Prepare
  BY <1>1 DEF Prepare, params, wallet, chain, peers, Covered, Holds
<1>2. CASE Negotiate
  BY <1>2 DEF Negotiate, params, wallet, chain, peers, Covered, Holds
<1>3. CASE StartSwap
  BY <1>3 DEF StartSwap, params, chain, peers, Covered, Holds
<1>4. CASE Talks
  BY <1>4, TalksFrame DEF Covered, Holds
<1>5. CASE Notes
  BY <1>5, NotesFrame DEF Covered, Holds
<1>6. CASE ContractReply
  BY <1>6 DEF ContractReply, params, tracker, chain, peers, NotGiven, ExchangeSteps,
  Covered, Holds
<1>7. CASE LastSigs
  BY <1>7 DEF LastSigs, params, tracker, chain, peers, NotGiven, ExchangeSteps, Covered,
  Holds
<1>8. CASE KeepKeys
  BY <1>8 DEF KeepKeys, params, memory, tracker, chain, peers, Saved, Ends, Covered, Holds
<1>9. CASE SaveBeforeBroadcast
  BY <1>9 DEF SaveBeforeBroadcast, params, memory, tracker, chain, peers, Covered, Holds
<1>10. CASE SendFunding
  BY <1>10 DEF SendFunding, params, memory, wallet, tracker, peers, Covered, Holds
<1>11. CASE NextMakerFails
  BY <1>11 DEF NextMakerFails, params, wallet, tracker, chain, peers, Covered, Holds
<1>12. CASE Handover
  BY <1>12 DEF Handover, params, wallet, tracker, chain, Offered, Saved, Ends, Covered,
  Holds
<1>13. CASE HandoverFails
  BY <1>13 DEF HandoverFails, params, memory, wallet, tracker, chain, FailAndRecover,
  Offered, Saved, Ends, Covered, Holds
<1>14. CASE Settle
  BY <1>14 DEF Settle, Claim, params, memory, tracker, peers, Covered, Holds
<1>15. CASE Complete
  BY <1>15 DEF Complete, params, chain, peers, Covered, Holds
<1>16. CASE ExchangeFails
  BY <1>16 DEF ExchangeFails, FailAndRecover, params, chain, NotGiven, Covered, Holds
<1>17. CASE SettleNone
  BY <1>17 DEF SettleNone, FailAndRecover, peers, params, chain, Saved, Ends, Covered,
  Holds
<1>18. CASE SubstituteFirst
  BY <1>18 DEF SubstituteFirst, params, tracker, chain, peers, Covered, Holds
<1>19. CASE SettleFails
  BY <1>19 DEF SettleFails, params, memory, wallet, tracker, chain, peers, Covered, Holds
<1>20. CASE LoopClaims
  BY <1>20 DEF LoopClaims, Claim, loopFrame, params, memory, peers, Covered, Holds
<1>21. CASE LoopCleansUp
  BY <1>21 DEF LoopCleansUp, loopFrame, params, memory, peers, Covered, Holds
<1>22. ASSUME NEW S \in SUBSET Coins, LoopRefunds(S) PROVE Covered'
  BY <1>22 DEF LoopRefunds, loopFrame, params, memory, peers, Covered, Holds
<1>23. CASE Restart
  BY <1>23 DEF Restart, RecoverWallet, params, memory, peers, Claim, Covered, Holds
<1>24. CASE Drops
  BY <1>24, DropsFrame DEF Covered, Holds
<1>25. CASE Watches
  BY <1>25, WatchesFrame DEF Covered, Holds
<1>26. CASE LastMakerFunds
  BY <1>26 DEF LastMakerFunds, others, params, memory, wallet, tracker, peers, Covered,
  Holds
<1>27. CASE LastMakerPublishes
  BY <1>27 DEF LastMakerPublishes, others, params, memory, wallet, tracker, peers, Covered,
  Holds
<1>28. CASE RipenIncoming
  BY <1>28 DEF RipenIncoming, others, params, memory, wallet, tracker, peers, Covered,
  Holds
<1>29. CASE LastMakerRefunds
  BY <1>29 DEF LastMakerRefunds, others, params, memory, wallet, tracker, peers, Covered,
  Holds
<1>30. ASSUME NEW e \in Coins, FirstMakerPublishes(e) PROVE Covered'
  BY <1>30 DEF FirstMakerPublishes, others, params, memory, wallet, tracker, peers,
  Covered, Holds
<1>31. ASSUME NEW e \in Coins, FirstMakerTakes(e) PROVE Covered'
  BY <1>31 DEF FirstMakerTakes, others, params, memory, wallet, tracker, peers, Covered,
  Holds
<1>32. ASSUME NEW e \in Coins, Ripen(e) PROVE Covered'
  BY <1>32 DEF Ripen, others, params, memory, wallet, tracker, peers, Covered, Holds
<1>33. CASE UNCHANGED vars
  BY <1>33 DEF vars, params, memory, wallet, tracker, chain, peers, Covered, Holds
<1>. QED
  BY <1>1, <1>2, <1>3, <1>4, <1>5, <1>6, <1>7, <1>8, <1>9, <1>10, <1>11, <1>12, <1>13,
  <1>14, <1>15, <1>16, <1>17, <1>18, <1>19, <1>20, <1>21, <1>22, <1>23, <1>24, <1>25,
  <1>26, <1>27, <1>28, <1>29, <1>30, <1>31, <1>32, <1>33
     DEF Next, Exchange, Finish, Trouble, Loop, Others, Talks, Notes, Drops, Watches

-----------------------------------------------------------------------------
(* Who takes what *)

\* The preimage is public only by the taker's own claim.
LEMMA StepPreimage == Preimage /\ [Next]_vars => Preimage'
<1> SUFFICES ASSUME Preimage, [Next]_vars PROVE Preimage'
  OBVIOUS
<1>1. CASE Prepare
  BY <1>1 DEF Prepare, params, wallet, chain, peers, Preimage
<1>2. CASE Negotiate
  BY <1>2 DEF Negotiate, params, wallet, chain, peers, Preimage
<1>3. CASE StartSwap
  BY <1>3 DEF StartSwap, params, chain, peers, Preimage
<1>4. CASE Talks
  BY <1>4, TalksFrame DEF Preimage
<1>5. CASE Notes
  BY <1>5, NotesFrame DEF Preimage
<1>6. CASE Replies
  BY <1>6, RepliesFrame DEF Preimage
<1>7. CASE SaveBeforeBroadcast
  BY <1>7 DEF SaveBeforeBroadcast, params, memory, tracker, chain, peers, Preimage
<1>8. CASE SendFunding
  BY <1>8 DEF SendFunding, params, memory, wallet, tracker, peers, Preimage
<1>9. CASE NextMakerFails
  BY <1>9 DEF NextMakerFails, params, wallet, tracker, chain, peers, Preimage
<1>10. CASE Handover
  BY <1>10 DEF Handover, params, wallet, tracker, chain, Preimage
<1>11. CASE HandoverFails
  BY <1>11 DEF HandoverFails, params, memory, wallet, tracker, chain, FailAndRecover,
  Preimage
<1>12. CASE Settle
  BY <1>12 DEF Settle, Claim, params, memory, tracker, peers, CanClaim, Preimage
<1>13. CASE Complete
  BY <1>13 DEF Complete, params, chain, peers, Preimage
<1>14. CASE ExchangeFails
  BY <1>14 DEF ExchangeFails, FailAndRecover, params, chain, Preimage
<1>15. CASE SettleNone
  BY <1>15 DEF SettleNone, FailAndRecover, peers, params, chain, Preimage
<1>16. CASE SubstituteFirst
  BY <1>16 DEF SubstituteFirst, params, tracker, chain, peers, Preimage
<1>17. CASE SettleFails
  BY <1>17 DEF SettleFails, params, memory, wallet, tracker, chain, peers, Preimage
<1>18. CASE LoopClaims
  BY <1>18 DEF LoopClaims, Claim, loopFrame, CanClaim, params, memory, peers, Preimage
<1>19. CASE LoopCleansUp
  BY <1>19 DEF LoopCleansUp, loopFrame, params, memory, peers, Preimage
<1>20. ASSUME NEW S \in SUBSET Coins, LoopRefunds(S) PROVE Preimage'
  BY <1>20 DEF LoopRefunds, loopFrame, params, memory, peers, Preimage
<1>21. CASE Restart
  BY <1>21 DEF Restart, RecoverWallet, params, memory, peers, Claim, CanClaim, Preimage
<1>22. CASE Drops
  BY <1>22, DropsFrame DEF Preimage
<1>23. CASE Watches
  BY <1>23, WatchesFrame DEF Preimage
<1>24. CASE LastMakerFunds
  BY <1>24 DEF LastMakerFunds, others, params, memory, wallet, tracker, peers, Preimage
<1>25. CASE LastMakerPublishes
  BY <1>25 DEF LastMakerPublishes, others, params, memory, wallet, tracker, peers, Preimage
<1>26. CASE RipenIncoming
  BY <1>26 DEF RipenIncoming, others, params, memory, wallet, tracker, peers, Preimage
<1>27. CASE LastMakerRefunds
  BY <1>27 DEF LastMakerRefunds, others, params, memory, wallet, tracker, peers, Preimage
<1>28. ASSUME NEW e \in Coins, FirstMakerPublishes(e) PROVE Preimage'
  BY <1>28 DEF FirstMakerPublishes, others, params, memory, wallet, tracker, peers,
  Preimage
<1>29. ASSUME NEW e \in Coins, FirstMakerTakes(e) PROVE Preimage'
  BY <1>29 DEF FirstMakerTakes, others, params, memory, wallet, tracker, peers, Preimage
<1>30. ASSUME NEW e \in Coins, Ripen(e) PROVE Preimage'
  BY <1>30 DEF Ripen, others, params, memory, wallet, tracker, peers, Preimage
<1>31. CASE UNCHANGED vars
  BY <1>31 DEF vars, params, memory, wallet, tracker, chain, peers, Preimage
<1>. QED
  BY <1>1, <1>2, <1>3, <1>4, <1>5, <1>6, <1>7, <1>8, <1>9, <1>10, <1>11, <1>12, <1>13,
  <1>14, <1>15, <1>16, <1>17, <1>18, <1>19, <1>20, <1>21, <1>22, <1>23, <1>24, <1>25,
  <1>26, <1>27, <1>28, <1>29, <1>30, <1>31
     DEF Next, Exchange, Finish, Trouble, Loop, Others, Talks, Notes, Replies, Drops, Watches

\* The first maker takes a contract with its key or with the preimage only.
LEMMA StepTaken == TypeOK /\ Taken /\ [Next]_vars => Taken'
<1> SUFFICES ASSUME TypeOK, Taken, [Next]_vars PROVE Taken'
  OBVIOUS
<1>0. out \in [Coins -> {"none", "funded", "published", "refunded", "paid", "taken"}]
  BY DEF TypeOK
<1> USE <1>0
<1>1. CASE Prepare
  BY <1>1 DEF Prepare, params, wallet, chain, peers, Taken
<1>2. CASE Negotiate
  BY <1>2 DEF Negotiate, params, wallet, chain, peers, Taken
<1>3. CASE StartSwap
  BY <1>3 DEF StartSwap, params, chain, peers, Taken
<1>4. CASE Talks
  BY <1>4, TalksFrame DEF Taken
<1>5. CASE Notes
  BY <1>5, NotesFrame DEF Taken
<1>6. CASE Replies
  BY <1>6, RepliesFrame DEF Taken
<1>7. CASE SaveBeforeBroadcast
  BY <1>7 DEF SaveBeforeBroadcast, params, memory, tracker, chain, peers, Taken
<1>8. CASE SendFunding
  BY <1>8 DEF SendFunding, Unsent, params, memory, wallet, tracker, peers, Taken
<1>9. CASE NextMakerFails
  BY <1>9 DEF NextMakerFails, params, wallet, tracker, chain, peers, Taken
<1>10. CASE Handover
  BY <1>10 DEF Handover, Sent, params, wallet, tracker, chain, Taken
<1>11. CASE HandoverFails
  BY <1>11, SMTT(20) DEF HandoverFails, Sent, params, memory, wallet, tracker, chain, FailAndRecover,
  Taken
<1>12. CASE Settle
  BY <1>12 DEF Settle, Claim, params, memory, tracker, peers, Taken
<1>13. CASE Complete
  BY <1>13 DEF Complete, params, chain, peers, Taken
<1>14. CASE ExchangeFails
  BY <1>14 DEF ExchangeFails, FailAndRecover, params, chain, Taken
<1>15. CASE SettleNone
  BY <1>15 DEF SettleNone, FailAndRecover, peers, params, chain, Taken
<1>16. CASE SubstituteFirst
  BY <1>16 DEF SubstituteFirst, params, tracker, chain, peers, Taken
<1>17. CASE SettleFails
  BY <1>17 DEF SettleFails, params, memory, wallet, tracker, chain, peers, Taken
<1>18. CASE LoopClaims
  BY <1>18 DEF LoopClaims, Claim, loopFrame, params, memory, peers, Taken
<1>19. CASE LoopCleansUp
  BY <1>19 DEF LoopCleansUp, loopFrame, params, memory, peers, Taken
<1>20. ASSUME NEW S \in SUBSET Coins, LoopRefunds(S) PROVE Taken'
  BY <1>20 DEF LoopRefunds, RefundPass, loopFrame, Recovered, params, memory, peers, Taken
<1>21. CASE Restart
  <2>1. PICK S \in SUBSET Coins : RefundPass(S)
    BY <1>21 DEF Restart, RecoverWallet
  <2>2. \A c \in Coins : out'[c] \in {"paid", "taken"} => out[c] \in {"paid", "taken"}
    BY <2>1 DEF RefundPass, Recovered
  <2>3. given' = given
    BY <1>21 DEF Restart, peers
  <2>4. revealed => revealed'
    <3>1. Claim \/ revealed' = revealed
      BY <1>21 DEF Restart, RecoverWallet
    <3>. QED
      BY <3>1 DEF Claim
  <2>. QED
    BY <2>2, <2>3, <2>4 DEF Taken
<1>22. CASE Drops
  BY <1>22, DropsFrame DEF Taken
<1>23. CASE Watches
  BY <1>23, WatchesFrame DEF Taken
<1>24. CASE LastMakerFunds
  BY <1>24 DEF LastMakerFunds, others, params, memory, wallet, tracker, peers, Taken
<1>25. CASE LastMakerPublishes
  BY <1>25 DEF LastMakerPublishes, others, params, memory, wallet, tracker, peers, Taken
<1>26. CASE RipenIncoming
  BY <1>26 DEF RipenIncoming, others, params, memory, wallet, tracker, peers, Taken
<1>27. CASE LastMakerRefunds
  BY <1>27 DEF LastMakerRefunds, others, params, memory, wallet, tracker, peers, Taken
<1>28. ASSUME NEW e \in Coins, FirstMakerPublishes(e) PROVE Taken'
  BY <1>28 DEF FirstMakerPublishes, others, params, memory, wallet, tracker, peers, Taken
<1>29. ASSUME NEW e \in Coins, FirstMakerTakes(e) PROVE Taken'
  BY <1>29 DEF FirstMakerTakes, others, params, memory, wallet, tracker, peers, Taken
<1>30. ASSUME NEW e \in Coins, Ripen(e) PROVE Taken'
  BY <1>30 DEF Ripen, others, params, memory, wallet, tracker, peers, Taken
<1>31. CASE UNCHANGED vars
  BY <1>31 DEF vars, params, memory, wallet, tracker, chain, peers, Taken
<1>. QED
  BY <1>1, <1>2, <1>3, <1>4, <1>5, <1>6, <1>7, <1>8, <1>9, <1>10, <1>11, <1>12, <1>13,
  <1>14, <1>15, <1>16, <1>17, <1>18, <1>19, <1>20, <1>21, <1>22, <1>23, <1>24, <1>25,
  <1>26, <1>27, <1>28, <1>29, <1>30, <1>31
     DEF Next, Exchange, Finish, Trouble, Loop, Others, Talks, Notes, Replies, Drops, Watches

\* The incoming timelock passes only over a swap nobody works on, and its contract then
\* goes to the taker by preimage or back to the last maker.
LEMMA StepRipened == Ripened /\ [Next]_vars => Ripened'
<1> SUFFICES ASSUME Ripened, [Next]_vars PROVE Ripened'
  OBVIOUS
<1>1. CASE Prepare
  BY <1>1 DEF Prepare, params, wallet, chain, peers, Ripened, Resting
<1>2. CASE Negotiate
  BY <1>2 DEF Negotiate, params, wallet, chain, peers, Ripened, Resting
<1>3. CASE StartSwap
  BY <1>3 DEF StartSwap, params, chain, peers, Ripened, Resting
<1>4. CASE Talks
  BY <1>4, TalksFrame DEF Ripened, Resting, Later
<1>5. CASE Notes
  BY <1>5, NotesFrame DEF Ripened, Resting
<1>6. CASE Replies
  BY <1>6, RepliesFrame DEF Ripened, Resting
<1>7. CASE SaveBeforeBroadcast
  BY <1>7 DEF SaveBeforeBroadcast, params, memory, tracker, chain, peers, Ripened, Resting
<1>8. CASE SendFunding
  BY <1>8 DEF SendFunding, params, memory, wallet, tracker, peers, Ripened, Resting
<1>9. CASE NextMakerFails
  BY <1>9 DEF NextMakerFails, params, wallet, tracker, chain, peers, Ripened, Resting
<1>10. CASE Handover
  BY <1>10 DEF Handover, params, wallet, tracker, chain, Ripened, Resting
<1>11. CASE HandoverFails
  BY <1>11 DEF HandoverFails, params, memory, wallet, tracker, chain, FailAndRecover,
  Ripened, Resting
<1>12. CASE Settle
  BY <1>12 DEF Settle, Claim, params, memory, tracker, peers, CanClaim, Ripened, Resting
<1>13. CASE Complete
  BY <1>13 DEF Complete, params, chain, peers, Ripened, Resting
<1>14. CASE ExchangeFails
  BY <1>14 DEF ExchangeFails, FailAndRecover, params, chain, ExchangeSteps, Ripened,
  Resting
<1>15. CASE SettleNone
  BY <1>15 DEF SettleNone, FailAndRecover, peers, params, chain, Ripened, Resting
<1>16. CASE SubstituteFirst
  BY <1>16 DEF SubstituteFirst, params, tracker, chain, peers, ExchangeSteps, Ripened,
  Resting
<1>17. CASE SettleFails
  BY <1>17 DEF SettleFails, params, memory, wallet, tracker, chain, peers, Ripened, Resting
<1>18. CASE LoopClaims
  BY <1>18 DEF LoopClaims, Claim, loopFrame, CanClaim, params, memory, peers, Ripened,
  Resting
<1>19. CASE LoopCleansUp
  BY <1>19 DEF LoopCleansUp, loopFrame, params, memory, peers, Ripened, Resting
<1>20. ASSUME NEW S \in SUBSET Coins, LoopRefunds(S) PROVE Ripened'
  BY <1>20 DEF LoopRefunds, loopFrame, params, memory, peers, Ripened, Resting
<1>21. CASE Restart
  BY <1>21 DEF Restart, RecoverWallet, params, memory, peers, Claim, CanClaim, Ripened,
  Resting
<1>22. CASE Drops
  BY <1>22, DropsFrame DEF Ripened, Resting
<1>23. CASE Watches
  BY <1>23, WatchesFrame DEF Ripened, Resting
<1>24. CASE LastMakerFunds
  BY <1>24 DEF LastMakerFunds, others, params, memory, wallet, tracker, peers, Ripened,
  Resting
<1>25. CASE LastMakerPublishes
  BY <1>25 DEF LastMakerPublishes, others, params, memory, wallet, tracker, peers, Ripened,
  Resting
<1>26. CASE RipenIncoming
  BY <1>26 DEF RipenIncoming, Busy, others, params, memory, wallet, tracker, peers,
  Ripened, Resting
<1>27. CASE LastMakerRefunds
  BY <1>27 DEF LastMakerRefunds, others, params, memory, wallet, tracker, peers, Ripened,
  Resting
<1>28. ASSUME NEW e \in Coins, FirstMakerPublishes(e) PROVE Ripened'
  BY <1>28 DEF FirstMakerPublishes, others, params, memory, wallet, tracker, peers,
  Ripened, Resting
<1>29. ASSUME NEW e \in Coins, FirstMakerTakes(e) PROVE Ripened'
  BY <1>29 DEF FirstMakerTakes, others, params, memory, wallet, tracker, peers, Ripened,
  Resting
<1>30. ASSUME NEW e \in Coins, Ripen(e) PROVE Ripened'
  BY <1>30 DEF Ripen, others, params, memory, wallet, tracker, peers, Ripened, Resting
<1>31. CASE UNCHANGED vars
  BY <1>31 DEF vars, params, memory, wallet, tracker, chain, peers, Ripened, Resting
<1>. QED
  BY <1>1, <1>2, <1>3, <1>4, <1>5, <1>6, <1>7, <1>8, <1>9, <1>10, <1>11, <1>12, <1>13,
  <1>14, <1>15, <1>16, <1>17, <1>18, <1>19, <1>20, <1>21, <1>22, <1>23, <1>24, <1>25,
  <1>26, <1>27, <1>28, <1>29, <1>30, <1>31
     DEF Next, Exchange, Finish, Trouble, Loop, Others, Talks, Notes, Replies, Drops, Watches

\* The last maker takes the incoming contract back only after its timelock.
LEMMA StepLost == Lost /\ [Next]_vars => Lost'
<1> SUFFICES ASSUME Lost, [Next]_vars PROVE Lost'
  OBVIOUS
<1>1. CASE Prepare
  BY <1>1 DEF Prepare, params, wallet, chain, peers, Lost
<1>2. CASE Negotiate
  BY <1>2 DEF Negotiate, params, wallet, chain, peers, Lost
<1>3. CASE StartSwap
  BY <1>3 DEF StartSwap, params, chain, peers, Lost
<1>4. CASE Talks
  BY <1>4, TalksFrame DEF Lost
<1>5. CASE Notes
  BY <1>5, NotesFrame DEF Lost
<1>6. CASE Replies
  BY <1>6, RepliesFrame DEF Lost
<1>7. CASE SaveBeforeBroadcast
  BY <1>7 DEF SaveBeforeBroadcast, params, memory, tracker, chain, peers, Lost
<1>8. CASE SendFunding
  BY <1>8 DEF SendFunding, params, memory, wallet, tracker, peers, Lost
<1>9. CASE NextMakerFails
  BY <1>9 DEF NextMakerFails, params, wallet, tracker, chain, peers, Lost
<1>10. CASE Handover
  BY <1>10 DEF Handover, params, wallet, tracker, chain, Lost
<1>11. CASE HandoverFails
  BY <1>11 DEF HandoverFails, params, memory, wallet, tracker, chain, FailAndRecover, Lost
<1>12. CASE Settle
  BY <1>12 DEF Settle, Claim, params, memory, tracker, peers, CanClaim, Lost
<1>13. CASE Complete
  BY <1>13 DEF Complete, params, chain, peers, Lost
<1>14. CASE ExchangeFails
  BY <1>14 DEF ExchangeFails, FailAndRecover, params, chain, Lost
<1>15. CASE SettleNone
  BY <1>15 DEF SettleNone, FailAndRecover, peers, params, chain, Lost
<1>16. CASE SubstituteFirst
  BY <1>16 DEF SubstituteFirst, params, tracker, chain, peers, Lost
<1>17. CASE SettleFails
  BY <1>17 DEF SettleFails, params, memory, wallet, tracker, chain, peers, Lost
<1>18. CASE LoopClaims
  BY <1>18 DEF LoopClaims, Claim, loopFrame, CanClaim, params, memory, peers, Lost
<1>19. CASE LoopCleansUp
  BY <1>19 DEF LoopCleansUp, loopFrame, params, memory, peers, Lost
<1>20. ASSUME NEW S \in SUBSET Coins, LoopRefunds(S) PROVE Lost'
  BY <1>20 DEF LoopRefunds, loopFrame, params, memory, peers, Lost
<1>21. CASE Restart
  BY <1>21 DEF Restart, RecoverWallet, params, memory, peers, Claim, CanClaim, Lost
<1>22. CASE Drops
  BY <1>22, DropsFrame DEF Lost
<1>23. CASE Watches
  BY <1>23, WatchesFrame DEF Lost
<1>24. CASE LastMakerFunds
  BY <1>24 DEF LastMakerFunds, others, params, memory, wallet, tracker, peers, Lost
<1>25. CASE LastMakerPublishes
  BY <1>25 DEF LastMakerPublishes, others, params, memory, wallet, tracker, peers, Lost
<1>26. CASE RipenIncoming
  BY <1>26 DEF RipenIncoming, others, params, memory, wallet, tracker, peers, Lost
<1>27. CASE LastMakerRefunds
  BY <1>27 DEF LastMakerRefunds, others, params, memory, wallet, tracker, peers, Lost
<1>28. ASSUME NEW e \in Coins, FirstMakerPublishes(e) PROVE Lost'
  BY <1>28 DEF FirstMakerPublishes, others, params, memory, wallet, tracker, peers, Lost
<1>29. ASSUME NEW e \in Coins, FirstMakerTakes(e) PROVE Lost'
  BY <1>29 DEF FirstMakerTakes, others, params, memory, wallet, tracker, peers, Lost
<1>30. ASSUME NEW e \in Coins, Ripen(e) PROVE Lost'
  BY <1>30 DEF Ripen, others, params, memory, wallet, tracker, peers, Lost
<1>31. CASE UNCHANGED vars
  BY <1>31 DEF vars, params, memory, wallet, tracker, chain, peers, Lost
<1>. QED
  BY <1>1, <1>2, <1>3, <1>4, <1>5, <1>6, <1>7, <1>8, <1>9, <1>10, <1>11, <1>12, <1>13,
  <1>14, <1>15, <1>16, <1>17, <1>18, <1>19, <1>20, <1>21, <1>22, <1>23, <1>24, <1>25,
  <1>26, <1>27, <1>28, <1>29, <1>30, <1>31
     DEF Next, Exchange, Finish, Trouble, Loop, Others, Talks, Notes, Replies, Drops, Watches

\* A swap whose keys were given away and whose incoming contract is open has the recovery
\* loop, unless its sweep returned an error or the process is down.
LEMMA StepAttended == PhaseOf /\ NotGiven /\ Covered /\ Paid /\ Attended /\ [Next]_vars
    => Attended'
<1> SUFFICES ASSUME PhaseOf, NotGiven, Covered, Paid, Attended, [Next]_vars PROVE Attended'
  OBVIOUS
<1>1. CASE Prepare
  BY <1>1 DEF Prepare, params, wallet, chain, peers, NotGiven, Start, Attended
<1>2. CASE Negotiate
  BY <1>2 DEF Negotiate, params, wallet, chain, peers, NotGiven, Start, Attended
<1>3. CASE StartSwap
  BY <1>3 DEF StartSwap, Legacy, ExchangeStart, params, chain, peers, NotGiven, Start,
  Attended
<1>4. CASE Talks
  BY <1>4, TalksFrame DEF Attended, Later
<1>5. CASE Notes
  BY <1>5, NotesFrame DEF Attended
<1>6. CASE Replies
  BY <1>6, RepliesFrame DEF Attended
<1>7. CASE SaveBeforeBroadcast
  BY <1>7 DEF SaveBeforeBroadcast, params, memory, tracker, chain, peers, Attended
<1>8. CASE SendFunding
  BY <1>8 DEF SendFunding, params, memory, wallet, tracker, peers, Attended
<1>9. CASE NextMakerFails
  BY <1>9 DEF NextMakerFails, params, wallet, tracker, chain, peers, Attended
<1>10. CASE Handover
  BY <1>10 DEF Handover, params, wallet, tracker, chain, Attended
<1>11. CASE HandoverFails
  BY <1>11 DEF HandoverFails, params, memory, wallet, tracker, chain, FailAndRecover,
  Forget, Attended
<1>12. CASE Settle
  BY <1>12 DEF Settle, params, memory, tracker, peers, Attended
<1>13. CASE Complete
  BY <1>13 DEF Complete, params, chain, peers, Paid, Attended
<1>14. CASE ExchangeFails
  BY <1>14 DEF ExchangeFails, FailAndRecover, Forget, params, chain, Attended
<1>15. CASE SettleNone
  BY <1>15 DEF SettleNone, FailAndRecover, peers, Forget, params, chain, Attended
<1>16. CASE SubstituteFirst
  BY <1>16 DEF SubstituteFirst, Legacy, ExchangeStart, params, tracker, chain, peers,
  Attended
<1>17. CASE SettleFails
  BY <1>17 DEF SettleFails, params, memory, wallet, tracker, chain, peers, PhaseOf,
  Attended
<1>18. CASE LoopClaims
  BY <1>18 DEF LoopClaims, Claim, loopFrame, params, memory, peers, Attended
<1>19. CASE LoopCleansUp
  BY <1>19 DEF LoopCleansUp, Resolved, loopFrame, params, memory, peers, Covered, Holds,
  Attended
<1>20. ASSUME NEW S \in SUBSET Coins, LoopRefunds(S) PROVE Attended'
  BY <1>20 DEF LoopRefunds, loopFrame, params, memory, peers, Attended
<1>21. CASE Restart
  BY <1>21 DEF Restart, RecoverWallet, params, memory, peers, Claim, Covered, Holds,
  Attended
<1>22. CASE SubstituteFails
  BY <1>22 DEF SubstituteFails, params, chain, peers, NotGiven, ExchangeSteps, Attended
<1>23. CASE Abort
  BY <1>23 DEF Abort, params, wallet, chain, peers, NotGiven, ExchangeSteps, Attended
<1>24. CASE Crash
  BY <1>24 DEF Crash, Exit, tracker, params, wallet, chain, peers, Attended
<1>25. CASE Shutdown
  BY <1>25 DEF Shutdown, Exit, params, wallet, chain, peers, Attended
<1>26. CASE Watches
  BY <1>26, WatchesFrame DEF Attended
<1>27. CASE LastMakerFunds
  BY <1>27 DEF LastMakerFunds, others, params, memory, wallet, tracker, peers, Covered,
  Attended
<1>28. CASE LastMakerPublishes
  BY <1>28 DEF LastMakerPublishes, others, params, memory, wallet, tracker, peers, Attended
<1>29. CASE RipenIncoming
  BY <1>29 DEF RipenIncoming, others, params, memory, wallet, tracker, peers, Attended
<1>30. CASE LastMakerRefunds
  BY <1>30 DEF LastMakerRefunds, others, params, memory, wallet, tracker, peers, Attended
<1>31. ASSUME NEW e \in Coins, FirstMakerPublishes(e) PROVE Attended'
  BY <1>31 DEF FirstMakerPublishes, others, params, memory, wallet, tracker, peers,
  Attended
<1>32. ASSUME NEW e \in Coins, FirstMakerTakes(e) PROVE Attended'
  BY <1>32 DEF FirstMakerTakes, others, params, memory, wallet, tracker, peers, Attended
<1>33. ASSUME NEW e \in Coins, Ripen(e) PROVE Attended'
  BY <1>33 DEF Ripen, others, params, memory, wallet, tracker, peers, Attended
<1>34. CASE UNCHANGED vars
  BY <1>34 DEF vars, params, memory, wallet, tracker, chain, peers, Attended
<1>. QED
  BY <1>1, <1>2, <1>3, <1>4, <1>5, <1>6, <1>7, <1>8, <1>9, <1>10, <1>11, <1>12, <1>13,
  <1>14, <1>15, <1>16, <1>17, <1>18, <1>19, <1>20, <1>21, <1>22, <1>23, <1>24, <1>25,
  <1>26, <1>27, <1>28, <1>29, <1>30, <1>31, <1>32, <1>33, <1>34
     DEF Next, Exchange, Finish, Trouble, Loop, Others, Talks, Notes, Replies, Watches

\* If the incoming timelock passes under a running loop after keys were given away, the
\* contract was one whose funding output the taker had the key of.
LEMMA StepLate == TypeOK /\ Ripened /\ Covered /\ Attended /\ Late /\ [Next]_vars => Late'
<1> SUFFICES ASSUME TypeOK, Ripened, Covered, Attended, Late, [Next]_vars PROVE Late'
  OBVIOUS
<1>1. CASE Prepare
  BY <1>1 DEF Prepare, params, wallet, chain, peers, Late, Legacy
<1>2. CASE Negotiate
  BY <1>2 DEF Negotiate, params, wallet, chain, peers, Late, Legacy
<1>3. CASE StartSwap
  BY <1>3 DEF StartSwap, params, chain, peers, Late, Legacy
<1>4. CASE Talks
  BY <1>4, TalksFrame DEF Late, Legacy
<1>5. CASE Notes
  BY <1>5, NotesFrame DEF Late, Legacy
<1>6. CASE Replies
  BY <1>6, RepliesFrame DEF Late, Legacy, Ripened, Resting
<1>7. CASE SaveBeforeBroadcast
  BY <1>7 DEF SaveBeforeBroadcast, params, memory, tracker, chain, peers, Late, Legacy
<1>8. CASE SendFunding
  BY <1>8 DEF SendFunding, params, memory, wallet, tracker, peers, Late, Legacy
<1>9. CASE NextMakerFails
  BY <1>9 DEF NextMakerFails, params, wallet, tracker, chain, peers, Late, Legacy
<1>10. CASE Handover
  BY <1>10 DEF Handover, params, wallet, tracker, chain, Ripened, Resting, Late, Legacy
<1>11. CASE HandoverFails
  BY <1>11 DEF HandoverFails, params, memory, wallet, tracker, chain, FailAndRecover,
  Ripened, Resting, Late, Legacy
<1>12. CASE Settle
  BY <1>12 DEF Settle, params, memory, tracker, peers, Ripened, Resting, Late, Legacy
<1>13. CASE Complete
  BY <1>13 DEF Complete, params, chain, peers, Late, Legacy
<1>14. CASE ExchangeFails
  BY <1>14 DEF ExchangeFails, FailAndRecover, params, chain, Ripened, Resting,
  ExchangeSteps, Late, Legacy
<1>15. CASE SettleNone
  BY <1>15 DEF SettleNone, FailAndRecover, peers, params, chain, Ripened, Resting, Late,
  Legacy
<1>16. CASE SubstituteFirst
  BY <1>16 DEF SubstituteFirst, params, tracker, chain, peers, Late, Legacy
<1>17. CASE SettleFails
  BY <1>17 DEF SettleFails, params, memory, wallet, tracker, chain, peers, Late, Legacy
<1>18. CASE LoopClaims
  BY <1>18 DEF LoopClaims, Claim, loopFrame, CanClaim, params, memory, peers, Ripened,
  Late, Legacy
<1>19. CASE LoopCleansUp
  BY <1>19 DEF LoopCleansUp, loopFrame, params, memory, peers, Late, Legacy
<1>20. ASSUME NEW S \in SUBSET Coins, LoopRefunds(S) PROVE Late'
  BY <1>20 DEF LoopRefunds, loopFrame, params, memory, peers, Late, Legacy
<1>21. CASE Restart
  BY <1>21 DEF Restart, RecoverWallet, params, memory, peers, Claim, CanClaim, Ripened,
  Late, Legacy
<1>22. CASE Drops
  BY <1>22, DropsFrame DEF Late, Legacy
<1>23. CASE Watches
  BY <1>23, WatchesFrame DEF Late, Legacy
<1>24. CASE LastMakerFunds
  BY <1>24 DEF LastMakerFunds, others, params, memory, wallet, tracker, peers, Late, Legacy
<1>25. CASE LastMakerPublishes
  BY <1>25 DEF LastMakerPublishes, others, params, memory, wallet, tracker, peers, Late,
  Legacy
<1>26. CASE RipenIncoming
  BY <1>26 DEF RipenIncoming, Busy, others, CanClaim, params, memory, wallet, tracker,
  peers, Covered, Holds, Attended, Late, Legacy
<1>27. CASE LastMakerRefunds
  BY <1>27 DEF LastMakerRefunds, others, params, memory, wallet, tracker, peers, Late,
  Legacy
<1>28. ASSUME NEW e \in Coins, FirstMakerPublishes(e) PROVE Late'
  BY <1>28 DEF FirstMakerPublishes, others, params, memory, wallet, tracker, peers, Late,
  Legacy
<1>29. ASSUME NEW e \in Coins, FirstMakerTakes(e) PROVE Late'
  BY <1>29 DEF FirstMakerTakes, others, params, memory, wallet, tracker, peers, Late,
  Legacy
<1>30. ASSUME NEW e \in Coins, Ripen(e) PROVE Late'
  BY <1>30 DEF Ripen, others, params, memory, wallet, tracker, peers, Late, Legacy
<1>31. CASE UNCHANGED vars
  BY <1>31 DEF vars, params, memory, wallet, tracker, chain, peers, Late, Legacy
<1>. QED
  BY <1>1, <1>2, <1>3, <1>4, <1>5, <1>6, <1>7, <1>8, <1>9, <1>10, <1>11, <1>12, <1>13,
  <1>14, <1>15, <1>16, <1>17, <1>18, <1>19, <1>20, <1>21, <1>22, <1>23, <1>24, <1>25,
  <1>26, <1>27, <1>28, <1>29, <1>30, <1>31
     DEF Next, Exchange, Finish, Trouble, Loop, Others, Talks, Notes, Replies, Drops, Watches

-----------------------------------------------------------------------------
(* The invariant *)

\* A taker that has just been asked for a swap has given nothing away.
LEMMA InitKInv == Init => KInv
<1> SUFFICES ASSUME Init PROVE KInv
  OBVIOUS
<1>1. IInv
  BY InitIInv
<1>2. Asked /\ NotGiven /\ Offered /\ Saved /\ Covered
  BY SMTT(20) DEF Init, Asked, NotGiven, Offered, Saved, Covered, Later, Ends
<1>3. Preimage /\ Taken /\ Ripened /\ Lost /\ Attended /\ Late
  BY DEF Init, Preimage, Taken, Ripened, Lost, Attended, Late
<1>. QED
  BY <1>1, <1>2, <1>3 DEF KInv

\* Every step preserves the invariant, if confirmations are waited for.
LEMMA StepKInv == Confirms > 0 /\ KInv /\ [Next]_vars => KInv'
<1> SUFFICES ASSUME Confirms > 0, KInv, [Next]_vars PROVE KInv'
  OBVIOUS
<1>1. IInv'
  BY StepIInv DEF KInv
<1>2. Asked' /\ NotGiven' /\ Offered' /\ Saved' /\ Covered'
  BY StepAsked, StepNotGiven, StepOffered, StepSaved, StepCovered DEF KInv, IInv
<1>3. Preimage' /\ Taken' /\ Ripened' /\ Lost' /\ Attended' /\ Late'
  BY StepPreimage, StepTaken, StepRipened, StepLost, StepAttended, StepLate DEF KInv, IInv
<1>. QED
  BY <1>1, <1>2, <1>3 DEF KInv

\* The invariant holds in every state of a swap whose confirmations are waited for.
THEOREM KeyInvariant == ASSUME Confirms > 0 PROVE Spec => []KInv
<1>1. KInv /\ [Next]_vars => KInv'
  BY StepKInv
<1>. QED
  BY InitKInv, <1>1, PTL DEF Spec

\* Keys leave the taker only for an incoming contract that is on-chain and that the wallet
\* file can claim.
THEOREM AlwaysKeysForIncoming == ASSUME Confirms > 0 PROVE Spec => []KeysOnlyForIncoming
<1>1. KInv => KeysOnlyForIncoming
  BY DEF KInv, Covered, Holds, KeysOnlyForIncoming
<1>. QED
  BY KeyInvariant, <1>1, PTL

\* The taker pays without being paid only if the incoming timelock passed while its process
\* was down or after a sweep that returned an error, or if the last maker published a
\* contract whose funding output the taker had the key of.
THEOREM AlwaysNoLoss == ASSUME Confirms > 0 PROVE Spec => []NoLoss
<1>1. KInv => NoLoss
  <2> SUFFICES ASSUME KInv, inc = "lost", NEW c \in Coins, out[c] \in {"paid", "taken"}
               PROVE  ripeIn \in {"down", "unswept"} \/ (Legacy /\ wIn = "keyed")
    BY DEF NoLoss
  <2>1. given # {}
    BY DEF KInv, Taken, Preimage
  <2>2. ripeIn \in {"loop", "down", "idle", "unswept"}
    BY DEF KInv, IInv, TypeOK, Lost
  <2>. QED
    BY <2>1, <2>2 DEF KInv, Late
<1>. QED
  BY KeyInvariant, <1>1, PTL

-----------------------------------------------------------------------------
(* The refinement of AtomicSwap *)

\* Steps that touch neither contracts nor keys are stuttering steps of AtomicSwap.
LEMMA SameSwap == UNCHANGED <<out, inc, revealed, given>> => UNCHANGED Swap!vars
BY DEF Swap!vars, Live

\* The claim of the incoming contract cedes every outgoing one if it publishes the preimage.
LEMMA ClaimMaps ==
  ASSUME TypeOK, Claim, UNCHANGED given,
         NEW R \in SUBSET Coins, \A c \in R : Live(c),
         \A c \in Coins : IF c \in R THEN out'[c] = "refunded"
                          ELSE /\ Live(c)' <=> Live(c)
                               /\ out'[c] = "refunded" <=> out[c] = "refunded"
                               /\ out'[c] = "none" <=> out[c] = "none"
  PROVE  \E S \in SUBSET Coins : Swap!Claim(S, R)
<1>1. inc \in {"funded", "published"} /\ inc' \in {"swept", "claimed"}
  BY DEF Claim, CanClaim
<1>2. revealed => revealed'
  BY DEF Claim
<1>3. \A c \in R : ~Live(c)'
  BY DEF Live
<1>4. CASE revealed'
  <2>1. Swap!Claim(Coins, R)
    BY <1>1, <1>2, <1>3, <1>4 DEF Swap!Claim, TypeOK
  <2>. QED
    BY <2>1
<1>5. CASE ~revealed'
  <2>1. Swap!Claim({}, R)
    BY <1>1, <1>2, <1>3, <1>5 DEF Swap!Claim
  <2>. QED
    BY <2>1
<1>. QED
  BY <1>4, <1>5

\* A pass over the outgoing coins returns the matured contracts and leaves the others as
\* AtomicSwap sees them.
LEMMA PassMaps ==
  ASSUME TypeOK, NEW S \in SUBSET Coins, RefundPass(S)
  PROVE  \E R \in SUBSET Coins :
           /\ \A c \in R : Live(c)
           /\ \A c \in Coins : IF c \in R THEN out'[c] = "refunded"
                               ELSE /\ Live(c)' <=> Live(c)
                                    /\ out'[c] = "refunded" <=> out[c] = "refunded"
                                    /\ out'[c] = "none" <=> out[c] = "none"
<1> DEFINE R == {c \in S : out[c] = "published" /\ c \in ripe}
<1>1. R \in SUBSET Coins /\ \A c \in R : Live(c)
  BY DEF Live
<1>2. ASSUME NEW c \in Coins
      PROVE  IF c \in R THEN out'[c] = "refunded"
             ELSE /\ Live(c)' <=> Live(c)
                  /\ out'[c] = "refunded" <=> out[c] = "refunded"
                  /\ out'[c] = "none" <=> out[c] = "none"
  <2>1. out'[c] = IF c \in S THEN Recovered(c) ELSE out[c]
    BY DEF RefundPass
  <2>. QED
    BY <2>1 DEF Recovered, Live
<1>. QED
  BY <1>1, <1>2

\* Such a pass alone returns coins.
LEMMA ReturnMaps ==
  ASSUME TypeOK, NEW S \in SUBSET Coins, RefundPass(S), UNCHANGED <<inc, revealed, given>>
  PROVE  \E R \in SUBSET Coins : Swap!Return(R)
<1>1. PICK R \in SUBSET Coins :
           /\ \A c \in R : Live(c)
           /\ \A c \in Coins : IF c \in R THEN out'[c] = "refunded"
                               ELSE /\ Live(c)' <=> Live(c)
                                    /\ out'[c] = "refunded" <=> out[c] = "refunded"
                                    /\ out'[c] = "none" <=> out[c] = "none"
  BY PassMaps
<1>2. \A c \in R : ~Live(c)'
  BY <1>1 DEF Live
<1>. QED
  BY <1>1, <1>2 DEF Swap!Return

\* Giving keys away cedes the contracts of the current funding, against an incoming contract
\* that is there.
LEMMA CedeMaps ==
  ASSUME TypeOK, inc # "none", given' \in {given, given \cup Current},
         UNCHANGED <<out, inc, revealed>>
  PROVE  [Swap!Next]_Swap!vars
<1>1. Current \subseteq Coins
  BY CurrentCoins DEF TypeOK
<1>2. CASE revealed \/ given' = given
  BY <1>2 DEF Swap!vars, Live
<1>3. CASE ~revealed /\ given' = given \cup Current
  <2>1. Swap!Cede(Current)
    BY <1>3 DEF Swap!Cede, Live
  <2>. QED
    BY <1>1, <2>1 DEF Swap!Next
<1>. QED
  BY <1>2, <1>3

\* Every step of the taker, of its threads and of the other parties is a step of AtomicSwap
\* or leaves its state alone.
LEMMA StepAtomic == KInv /\ [Next]_vars => [Swap!Next]_Swap!vars
<1> SUFFICES ASSUME KInv, [Next]_vars PROVE [Swap!Next]_Swap!vars
  OBVIOUS
<1>0. TypeOK
  BY DEF KInv, IInv
<1>1. CASE Prepare
  BY <1>1, SameSwap DEF Prepare, params, wallet, chain, peers
<1>2. CASE Negotiate
  BY <1>2, SameSwap DEF Negotiate, params, wallet, chain, peers
<1>3. CASE StartSwap
  BY <1>3, SameSwap DEF StartSwap, params, chain, peers
<1>4. CASE Talks
  BY <1>4, TalksFrame, SameSwap
<1>5. CASE Notes
  BY <1>5, NotesFrame, SameSwap
<1>6. CASE Replies
  BY <1>6, RepliesFrame, SameSwap
<1>7. CASE SaveBeforeBroadcast
  BY <1>7, SameSwap DEF SaveBeforeBroadcast, params, memory, tracker, chain, peers
<1>8. CASE SendFunding
  <2>1. PICK c \in Unsent : out' = [out EXCEPT ![c] = IF Legacy THEN "funded" ELSE "published"]
    BY <1>8, SameSwap DEF SendFunding
  <2>2. /\ c \in Coins /\ out[c] = "none" 
        /\ out \in [Coins -> {"none", "funded", "published", "refunded", "paid", "taken"}]
    BY <1>0, CurrentCoins DEF Unsent, TypeOK
  <2>3. UNCHANGED <<inc, revealed, given>>
    BY <1>8, SameSwap DEF SendFunding, peers
  <2>4. \A d \in Coins : d # c => out'[d] = out[d]
    BY <2>1, <2>2
  <2>5. Live(c)' /\ ~Live(c)
    BY <2>1, <2>2 DEF Live
  <2>6. Swap!Lock({c})
    BY <2>2, <2>3, <2>4, <2>5 DEF Swap!Lock, Live
  <2>. QED
    BY <2>2, <2>6 DEF Swap!Next
<1>9. CASE NextMakerFails
  BY <1>9, SameSwap DEF NextMakerFails, params, wallet, tracker, chain, peers
<1>10. CASE Handover
  <2>1. inc # "none"
    BY <1>10, SameSwap DEF Handover, KInv, Offered, Ends
  <2>. QED
    BY <1>10, <1>0, <2>1, CedeMaps DEF Handover, Sent, chain
<1>11. CASE HandoverFails
  <2>1. inc # "none"
    BY <1>11, SameSwap DEF HandoverFails, KInv, Offered, Ends
  <2>2. UNCHANGED <<out, inc, revealed>>
    BY <1>11, SameSwap DEF HandoverFails, FailAndRecover, chain
  <2>. QED
    BY <1>11, <1>0, <2>1, <2>2, CedeMaps DEF HandoverFails, Sent
<1>12. CASE Settle
  <2>1. \E S \in SUBSET Coins : Swap!Claim(S, {})
    BY <1>12, <1>0, ClaimMaps DEF Settle, peers, Live
  <2>. QED
    BY <2>1 DEF Swap!Next
<1>13. CASE Complete
  BY <1>13, SameSwap DEF Complete, params, chain, peers
<1>14. CASE ExchangeFails
  BY <1>14, SameSwap DEF ExchangeFails, FailAndRecover, params, chain
<1>15. CASE SettleNone
  BY <1>15, SameSwap DEF SettleNone, FailAndRecover, peers, params, chain
<1>16. CASE SubstituteFirst
  BY <1>16, SameSwap DEF SubstituteFirst, params, tracker, chain, peers
<1>17. CASE SettleFails
  BY <1>17, SameSwap DEF SettleFails, params, memory, wallet, tracker, chain, peers
<1>18. CASE LoopClaims
  <2>1. \E S \in SUBSET Coins : Swap!Claim(S, {})
    BY <1>18, <1>0, ClaimMaps DEF LoopClaims, loopFrame, peers, Live
  <2>. QED
    BY <2>1 DEF Swap!Next
<1>19. CASE LoopCleansUp
  BY <1>19, SameSwap DEF LoopCleansUp, loopFrame, params, memory, peers
<1>20. ASSUME NEW S \in SUBSET Coins, LoopRefunds(S) PROVE [Swap!Next]_Swap!vars
  <2>1. \E R \in SUBSET Coins : Swap!Return(R)
    BY <1>20, <1>0, ReturnMaps DEF LoopRefunds, loopFrame, peers
  <2>. QED
    BY <2>1 DEF Swap!Next
<1>21. CASE Restart
  <2>1. PICK S \in SUBSET Coins : RefundPass(S)
    BY <1>21, SameSwap DEF Restart, RecoverWallet
  <2>2. given' = given
    BY <1>21, SameSwap DEF Restart, peers
  <2>3. CASE Claim
    <3>1. \E Q, R \in SUBSET Coins : Swap!Claim(Q, R)
      BY <1>0, <2>1, <2>2, <2>3, PassMaps, ClaimMaps
    <3>. QED
      BY <3>1 DEF Swap!Next
  <2>4. CASE UNCHANGED <<wIn, inc, revealed>>
    <3>1. \E R \in SUBSET Coins : Swap!Return(R)
      BY <1>0, <2>1, <2>2, <2>4, ReturnMaps
    <3>. QED
      BY <3>1 DEF Swap!Next
  <2>. QED
    BY <1>21, <2>3, <2>4 DEF Restart, RecoverWallet
<1>22. CASE Drops
  BY <1>22, DropsFrame, SameSwap
<1>23. CASE Watches
  BY <1>23, WatchesFrame, SameSwap
<1>24. CASE LastMakerFunds
  <2>1. \E c \in Coins : out[c] # "none"
    BY <1>24, SizesAssumption DEF LastMakerFunds, KInv, Asked
  <2>2. Swap!Offer
    BY <1>24, <2>1 DEF LastMakerFunds, others, peers, Swap!Offer, Live
  <2>. QED
    BY <2>2 DEF Swap!Next
<1>25. CASE LastMakerPublishes
  BY <1>25, SameSwap DEF LastMakerPublishes, others, peers, Swap!vars, Live
<1>26. CASE RipenIncoming
  BY <1>26, SameSwap DEF RipenIncoming, others, params, memory, wallet, tracker, peers
<1>27. CASE LastMakerRefunds
  <2>1. Swap!Withdraw
    BY <1>27, SameSwap DEF LastMakerRefunds, others, peers, Swap!Withdraw, Live
  <2>. QED
    BY <2>1 DEF Swap!Next
<1>28. ASSUME NEW e \in Coins, FirstMakerPublishes(e) PROVE [Swap!Next]_Swap!vars
  <2>1. \A c \in Coins : /\ Live(c)' <=> Live(c)
                         /\ out'[c] = "refunded" <=> out[c] = "refunded"
                         /\ out'[c] = "none" <=> out[c] = "none"
    BY <1>28, <1>0 DEF FirstMakerPublishes, Live, TypeOK
  <2>. QED
    BY <1>28, <2>1 DEF FirstMakerPublishes, others, peers, Swap!vars
<1>29. ASSUME NEW e \in Coins, FirstMakerTakes(e) PROVE [Swap!Next]_Swap!vars
  <2>1. Live(e) /\ (revealed \/ e \in given) /\ out'[e] \in {"taken", "paid"}
    BY <1>29, <1>0 DEF FirstMakerTakes, Live, TypeOK
  <2>2. \A c \in Coins : c # e => out'[c] = out[c]
    BY <1>29, <1>0 DEF FirstMakerTakes, TypeOK
  <2>3. UNCHANGED <<inc, revealed, given>>
    BY <1>29, SameSwap DEF FirstMakerTakes, others, peers
  <2>4. Swap!Pay(e)
    BY <2>1, <2>2, <2>3 DEF Swap!Pay, Live
  <2>. QED
    BY <2>4 DEF Swap!Next
<1>30. ASSUME NEW e \in Coins, Ripen(e) PROVE [Swap!Next]_Swap!vars
  BY <1>30, SameSwap DEF Ripen, others, params, memory, wallet, tracker, peers
<1>31. CASE UNCHANGED vars
  BY <1>31, SameSwap DEF vars, params, memory, wallet, tracker, chain, peers
<1>. QED
  BY <1>1, <1>2, <1>3, <1>4, <1>5, <1>6, <1>7, <1>8, <1>9, <1>10, <1>11, <1>12, <1>13,
  <1>14, <1>15, <1>16, <1>17, <1>18, <1>19, <1>20, <1>21, <1>22, <1>23, <1>24, <1>25,
  <1>26, <1>27, <1>28, <1>29, <1>30, <1>31
     DEF Next, Exchange, Finish, Trouble, Loop, Others, Talks, Notes, Replies, Drops, Watches

\* The taker's swap keeps the promise of AtomicSwap: a contract is taken from it only after
\* it was ceded, and it cedes only against an incoming contract that is on-chain.
THEOREM Refinement == ASSUME Confirms > 0 PROVE Spec => Atomic
<1>1. Init => Swap!Init
  BY DEF Init, Swap!Init, Live
<1>. QED
  BY KeyInvariant, StepAtomic, <1>1, PTL DEF Spec, Atomic, Swap!Spec
=============================================================================
