-------------------------- MODULE TakerSwap_steps --------------------------
(***************************************************************************)
(* The inductive invariant behind the theorems of TakerSwap_proofs, and    *)
(* that every step of the taker, its threads and the other parties keeps   *)
(* its first parts: the types, where the taker's thread is, and that no    *)
(* funding is on-chain before it is created.                               *)
(*                                                                         *)
(* The invariant follows the funding through the taker's steps: nothing is *)
(* on-chain of funding that is not created, created funding is saved, sent *)
(* funding is saved in the form its recovery needs, and from then on only  *)
(* a spend, or the claim that pays for it, lets a coin go.                 *)
(***************************************************************************)
EXTENDS TakerSwap, TLAPS

\* Steps of the taker's thread: before start_swap; of the exchange, before and after the
\* funding is sent; of finalization; and outside the calls.
Start == {"new", "negotiate", "ready"}
Later == {"confirm", "proof", "nextSigs", "prevSigs", "combinedSigs", "contractData",
          "contractReply", "makerFunding", "incoming", "lastSigs", "exchanged"}
Ends == {"finalize", "handover", "forwarded", "keep", "settle", "complete"}
Resting == {"idle", "down"}
First == {"senderSigs", "broadcast", "announce"}

\* Each substitution of the first maker uses a spare up.
Counted == gen + spares <= Spares /\ (pc = "new" => gen = 0)

\* The phase in memory, by the step the taker's thread is in.
PhaseOf ==
  /\ pc = "senderSigs" => phase \in {"FundingCreated", "FundsBroadcast"}
  /\ pc \in {"broadcast", "announce"} => phase = "FundingCreated"
  /\ pc = "send" => phase = IF Legacy THEN "FundingCreated" ELSE "FundsBroadcast"
  /\ pc \in Later \cup {"unwatched"} => phase = "FundsBroadcast"
  /\ pc \in {"keep", "settle", "complete"} => phase = "PrivkeysForwarded"

\* The steps of the two protocols.
ByProtocol ==
  /\ pc \in {"senderSigs", "broadcast", "proof", "nextSigs", "prevSigs", "combinedSigs",
             "incoming", "lastSigs"} => Legacy
  /\ pc \in {"announce", "unwatched", "contractData", "contractReply"} => ~Legacy

\* Until the funding is recorded the exchange is with the first maker.
FirstHop == pc = "ready" \/ (pc \in ExchangeSteps /\ phase \in Unfunded) => hop = 0

\* From the first maker's signatures on, the coins in memory carry them.
Signed ==
  Legacy => /\ pc \in {"broadcast", "send"} \cup Later \cup Ends => signed
            /\ pc = "senderSigs" /\ phase = "FundsBroadcast" => signed

\* Nothing is on-chain before start_swap, nor of a generation not created yet.
Before == pc \in Start => ripe = {} /\ \A c \in Coins : out[c] = "none"
Future == \A c \in Coins : c[1] > gen => out[c] = "none"

\* Created funding is in the wallet file and not on-chain until it is sent, ...
Created ==
  pc \in First /\ phase = "FundingCreated" =>
    \A c \in Current : wOut[c] = "bare" /\ out[c] = "none" /\ (Legacy \/ c \notin ripe)

\* ... and is sent when the wallet file has all it takes to get it back.
Sending == pc = "send" => \A c \in Current : wOut[c] = IF Legacy THEN "signed" ELSE "bare"

\* A Taproot contract has no funding output of its own.
OnlyLegacy == \A c \in Coins : out[c] = "funded" => Legacy

\* A live contract of the current funding has its coin, or was handed over and paid for.
Backed ==
  \A c \in Current : Live(c) => Held(c) \/ (c \in given /\ inc \in {"claimed", "swept"})

\* After the first maker's turn in the handover it has the keys; a completed swap is paid.
Handed ==
  pc \in {"forwarded", "keep", "settle", "complete"} \/ (pc = "handover" /\ hop > 0)
    => Current \subseteq given
Paid == pc = "complete" => inc \in {"claimed", "swept"}

\* The keys of the incoming coins are in memory when they are saved.
Keyed == pc \in {"forwarded", "keep"} => incoming = "keyed"


\* TypeOK in parts.
PcOK ==
  pc \in ExchangeSteps \cup {"new", "negotiate", "ready", "exchanged", "finalize", "handover",
                             "forwarded", "keep", "settle", "complete", "idle", "down"}
CountersOK ==
  /\ hop \in 0..Makers - 1 /\ attempt \in 0..Attempts /\ asked \in 0..Makers
  /\ spares \in 0..Spares /\ gen \in 0..Spares
PhasesOK ==
  /\ phase \in Unfunded \cup {"none", "FundsBroadcast", "ContractsExchanged", "Finalizing",
                              "PrivkeysForwarded", "Completed"}
  /\ saved \in Unfunded \cup {"none", "FundsBroadcast", "ContractsExchanged", "Finalizing",
                              "PrivkeysForwarded", "Completed", "Failed"}
  /\ recovery \in {"NotStarted", "OutgoingRecovered", "CleanedUp"}
FlagsOK ==
  signed \in BOOLEAN /\ revealed \in BOOLEAN /\ watcher \in BOOLEAN /\ backlog \in BOOLEAN
IncomingOK ==
  /\ incoming \in {"none", "bare", "claim", "keyed"}
  /\ wIn \in {"absent", "bare", "claim", "keyed"}
ThreadsOK ==
  /\ alarm \in {"off", "quiet", "unknown", "breached"}
  /\ loop \in {"off", "on", "done"}
  /\ ripeIn \in {"no", "loop", "down", "idle", "unswept"}
CoinsOK ==
  /\ wOut \in [Coins -> {"absent", "bare", "signed"}]
  /\ out \in [Coins -> {"none", "funded", "published", "refunded", "paid", "taken"}]
ChainOK ==
  /\ proto \in Protocols /\ payment \in Payments
  /\ inc \in {"none", "funded", "published", "claimed", "swept", "lost"}
  /\ ripe \subseteq Coins /\ given \subseteq Coins

IInv ==
  /\ TypeOK
  /\ Counted /\ ByProtocol /\ PhaseOf /\ FirstHop /\ Signed
  /\ Before /\ Future /\ Created /\ Sending /\ OnlyLegacy
  /\ Handed /\ Paid /\ Keyed /\ Backed

-----------------------------------------------------------------------------
(* The actions in groups, and what each group leaves alone *)

Talks == SenderSigs \/ ConfirmFunding \/ ProofOfFunding \/ NextSigs \/ PrevSigs \/ CombinedSigs
         \/ ContractData \/ MakerFunding \/ MakerContract \/ CreateIncoming
Notes == Announce \/ AllSent \/ ContractsExchanged \/ BeginFinalize \/ Forwarded
Replies == ContractReply \/ LastSigs \/ KeepKeys
Drops == SubstituteFails \/ Abort \/ Crash \/ Shutdown
Watches == DetectorPolls \/ WatcherExits \/ BacklogResolves
World == LastMakerFunds \/ LastMakerPublishes \/ RipenIncoming \/ LastMakerRefunds
         \/ \E c \in Coins : FirstMakerPublishes(c) \/ FirstMakerTakes(c) \/ Ripen(c)

\* What the messages of the contract exchange leave alone: all but the thread's place
\* and what it keeps in memory about the route.
LEMMA TalksFrame ==
  Talks =>
    /\ UNCHANGED <<proto, payment, attempt, phase, spares, gen, wOut, wIn, saved, recovery, out,
                       inc, ripe, ripeIn, revealed, given, watcher, alarm, loop, backlog>>
    /\ pc \in Later \cup {"senderSigs"} /\ pc' \in Later \cup {"broadcast", "senderSigs"}
<1> SUFFICES ASSUME Talks
             PROVE  /\ UNCHANGED <<proto, payment, attempt, phase, spares, gen, wOut, wIn, saved, recovery, out,
                       inc, ripe, ripeIn, revealed, given, watcher, alarm, loop, backlog>>
                    /\ pc \in Later \cup {"senderSigs"} /\ pc' \in Later \cup {"broadcast", "senderSigs"}
  OBVIOUS
<1>1. CASE SenderSigs
  BY <1>1 DEF SenderSigs, Legacy, Advance, peers, params, wallet, tracker, chain, Later
<1>2. CASE ConfirmFunding
  BY <1>2 DEF ConfirmFunding, Advance, Legacy, peers, params, wallet, tracker, chain, Later
<1>3. CASE ProofOfFunding
  BY <1>3 DEF ProofOfFunding, Advance, peers, params, wallet, tracker, chain, Later
<1>4. CASE NextSigs
  BY <1>4 DEF NextSigs, Advance, peers, params, wallet, tracker, chain, Later
<1>5. CASE PrevSigs
  BY <1>5 DEF PrevSigs, Advance, peers, params, wallet, tracker, chain, Later
<1>6. CASE CombinedSigs
  BY <1>6 DEF CombinedSigs, Advance, params, wallet, tracker, chain, Later
<1>7. CASE ContractData
  BY <1>7 DEF ContractData, Advance, params, wallet, tracker, chain, Later
<1>8. CASE MakerFunding
  BY <1>8 DEF MakerFunding, Legacy, NextHop, Advance, peers, params, wallet, tracker,
  chain, Later
<1>9. CASE MakerContract
  BY <1>9 DEF MakerContract, Legacy, NextHop, Advance, peers, params, wallet, tracker,
  chain, Later
<1>10. CASE CreateIncoming
  BY <1>10 DEF CreateIncoming, Advance, peers, params, wallet, tracker, chain, Later
<1>. QED
  BY <1>1, <1>2, <1>3, <1>4, <1>5, <1>6, <1>7, <1>8, <1>9, <1>10 DEF Talks

\* What the calls that record a new phase leave alone.
LEMMA NotesFrame ==
  Notes =>
    /\ UNCHANGED <<proto, payment, spares, gen, signed, incoming, wOut, wIn, recovery, out, inc,
                       ripe, ripeIn, revealed, given, asked, watcher, alarm, loop, backlog>>
    /\ pc \in {"announce", "send", "exchanged", "finalize", "forwarded"}
    /\ pc' \in {"send", "confirm", "finalize", "handover", "keep"}
<1> SUFFICES ASSUME Notes
             PROVE  /\ UNCHANGED <<proto, payment, spares, gen, signed, incoming, wOut, wIn, recovery, out, inc,
                       ripe, ripeIn, revealed, given, asked, watcher, alarm, loop, backlog>>
                    /\ pc \in {"announce", "send", "exchanged", "finalize", "forwarded"}
                    /\ pc' \in {"send", "confirm", "finalize", "handover", "keep"}
  OBVIOUS
<1>1. CASE Announce
  BY <1>1 DEF Announce, params, wallet, chain, peers
<1>2. CASE AllSent
  BY <1>2 DEF AllSent, params, wallet, chain, peers
<1>3. CASE ContractsExchanged
  BY <1>3 DEF ContractsExchanged, params, wallet, chain, peers
<1>4. CASE BeginFinalize
  BY <1>4 DEF BeginFinalize, params, wallet, chain, peers
<1>5. CASE Forwarded
  BY <1>5 DEF Forwarded, params, wallet, chain, peers
<1>. QED
  BY <1>1, <1>2, <1>3, <1>4, <1>5 DEF Notes

\* What the steps that save the incoming coins leave alone.
LEMMA RepliesFrame ==
  Replies =>
    /\ UNCHANGED <<proto, payment, hop, attempt, phase, spares, gen, signed, wOut, saved, recovery,
                       out, inc, ripe, ripeIn, revealed, given, asked, watcher, loop, backlog>>
    /\ pc \in {"contractReply", "lastSigs", "keep"} /\ pc' \in {"makerFunding", "exchanged", "settle"}
<1> SUFFICES ASSUME Replies
             PROVE  /\ UNCHANGED <<proto, payment, hop, attempt, phase, spares, gen, signed, wOut, saved, recovery,
                       out, inc, ripe, ripeIn, revealed, given, asked, watcher, loop, backlog>>
                    /\ pc \in {"contractReply", "lastSigs", "keep"} /\ pc' \in {"makerFunding", "exchanged", "settle"}
  OBVIOUS
<1>1. CASE ContractReply
  BY <1>1 DEF ContractReply, params, tracker, chain, peers
<1>2. CASE LastSigs
  BY <1>2 DEF LastSigs, params, tracker, chain, peers
<1>3. CASE KeepKeys
  BY <1>3 DEF KeepKeys, params, memory, tracker, chain, peers
<1>. QED
  BY <1>1, <1>2, <1>3 DEF Replies

\* What a swap that is given up, or a process that ends, leaves alone, and that the
\* swap's memory is gone.
LEMMA DropsFrame ==
  Drops =>
    /\ UNCHANGED <<proto, payment, wIn, out, inc, ripe, ripeIn, revealed, given, asked, watcher, backlog>>
    /\ phase' = "none" /\ incoming' = "none" /\ spares' = 0 /\ hop' = 0 /\ attempt' = 0
    /\ pc' \in Resting
<1> SUFFICES ASSUME Drops
             PROVE  /\ UNCHANGED <<proto, payment, wIn, out, inc, ripe, ripeIn, revealed, given, asked, watcher, backlog>>
                    /\ phase' = "none" /\ incoming' = "none" /\ spares' = 0 /\ hop' = 0 /\ attempt' = 0
                    /\ pc' \in Resting
  OBVIOUS
<1>1. CASE SubstituteFails
  BY <1>1 DEF SubstituteFails, Forget, params, chain, peers, Resting
<1>2. CASE Abort
  BY <1>2 DEF Abort, Forget, params, wallet, chain, peers, Resting
<1>3. CASE Crash
  BY <1>3 DEF Crash, Exit, tracker, Forget, params, wallet, chain, peers, Resting
<1>4. CASE Shutdown
  BY <1>4 DEF Shutdown, Exit, Forget, params, wallet, chain, peers, Resting
<1>. QED
  BY <1>1, <1>2, <1>3, <1>4 DEF Drops

\* The breach detector, the watch service and an earlier swap's contracts touch none of
\* the swap's state.
LEMMA WatchesFrame ==
  Watches =>
    /\ UNCHANGED <<proto, payment, pc, hop, attempt, phase, spares, gen, signed, incoming, wOut, wIn,
                       saved, recovery, out, inc, ripe, ripeIn, revealed, given, asked, loop>>
<1> SUFFICES ASSUME Watches
             PROVE  /\ UNCHANGED <<proto, payment, pc, hop, attempt, phase, spares, gen, signed, incoming, wOut, wIn,
                       saved, recovery, out, inc, ripe, ripeIn, revealed, given, asked, loop>>
  OBVIOUS
<1>1. CASE DetectorPolls
  BY <1>1 DEF DetectorPolls, params, memory, wallet, tracker, chain, peers
<1>2. CASE WatcherExits
  BY <1>2 DEF WatcherExits, params, memory, wallet, tracker, chain, peers
<1>3. CASE BacklogResolves
  BY <1>3 DEF BacklogResolves, params, memory, wallet, tracker, chain, peers
<1>. QED
  BY <1>1, <1>2, <1>3 DEF Watches

\* What the other parties and the chain do to the contracts leaves the taker's own state
\* alone.
LEMMA WorldFrame ==
  World =>
    /\ UNCHANGED <<proto, payment, pc, hop, attempt, phase, spares, gen, signed, incoming, wOut, wIn,
                       saved, recovery, revealed, given, asked, watcher, alarm, loop, backlog>>
<1> SUFFICES ASSUME World
             PROVE  /\ UNCHANGED <<proto, payment, pc, hop, attempt, phase, spares, gen, signed, incoming, wOut, wIn,
                       saved, recovery, revealed, given, asked, watcher, alarm, loop, backlog>>
  OBVIOUS
<1>1. CASE LastMakerFunds
  BY <1>1 DEF LastMakerFunds, others, params, memory, wallet, tracker, peers
<1>2. CASE LastMakerPublishes
  BY <1>2 DEF LastMakerPublishes, others, params, memory, wallet, tracker, peers
<1>3. CASE RipenIncoming
  BY <1>3 DEF RipenIncoming, others, params, memory, wallet, tracker, peers
<1>4. CASE LastMakerRefunds
  BY <1>4 DEF LastMakerRefunds, others, params, memory, wallet, tracker, peers
<1>5. ASSUME NEW e \in Coins, FirstMakerPublishes(e)
      PROVE  UNCHANGED <<proto, payment, pc, hop, attempt, phase, spares, gen, signed, incoming, wOut, wIn,
                       saved, recovery, revealed, given, asked, watcher, alarm, loop, backlog>>
  BY <1>5 DEF FirstMakerPublishes, others, params, memory, wallet, tracker, peers
<1>6. ASSUME NEW e \in Coins, FirstMakerTakes(e)
      PROVE  UNCHANGED <<proto, payment, pc, hop, attempt, phase, spares, gen, signed, incoming, wOut, wIn,
                       saved, recovery, revealed, given, asked, watcher, alarm, loop, backlog>>
  BY <1>6 DEF FirstMakerTakes, others, params, memory, wallet, tracker, peers
<1>7. ASSUME NEW e \in Coins, Ripen(e)
      PROVE  UNCHANGED <<proto, payment, pc, hop, attempt, phase, spares, gen, signed, incoming, wOut, wIn,
                       saved, recovery, revealed, given, asked, watcher, alarm, loop, backlog>>
  BY <1>7 DEF Ripen, others, params, memory, wallet, tracker, peers
<1>. QED
  BY <1>1, <1>2, <1>3, <1>4, <1>5, <1>6, <1>7 DEF World

-----------------------------------------------------------------------------
(* Types *)

\* The coins of the current funding are coins of the swap, and there is one.
LEMMA CurrentCoins ==
  ASSUME gen \in 0..Spares
  PROVE  Current \subseteq Coins /\ (\A c \in Current : c[1] = gen) /\ <<gen, 1>> \in Current
BY SizesAssumption DEF Current, Coins

\* Every call of the taker's API goes from one of its known steps to another.
LEMMA StepPcOK == PcOK /\ [Next]_vars => PcOK'
<1> SUFFICES ASSUME PcOK, [Next]_vars PROVE PcOK'
  OBVIOUS
<1>1. CASE Prepare
  BY <1>1 DEF Prepare, params, wallet, chain, peers, PcOK, ExchangeSteps, Later, Resting
<1>2. CASE Negotiate
  BY <1>2 DEF Negotiate, params, wallet, chain, peers, PcOK, ExchangeSteps, Later, Resting
<1>3. CASE StartSwap
  BY <1>3 DEF StartSwap, Legacy, ExchangeStart, params, chain, peers, PcOK, ExchangeSteps,
  Later, Resting
<1>4. CASE Talks
  BY <1>4, TalksFrame DEF PcOK, ExchangeSteps, Later, Resting
<1>5. CASE Notes
  BY <1>5, NotesFrame DEF PcOK, ExchangeSteps, Later, Resting
<1>6. CASE Replies
  BY <1>6, RepliesFrame DEF PcOK, ExchangeSteps, Later, Resting
<1>7. CASE SaveBeforeBroadcast
  BY <1>7 DEF SaveBeforeBroadcast, params, memory, tracker, chain, peers, PcOK,
  ExchangeSteps, Later, Resting
<1>8. CASE SendFunding
  BY <1>8 DEF SendFunding, params, memory, wallet, tracker, peers, PcOK, ExchangeSteps,
  Later, Resting
<1>9. CASE NextMakerFails
  BY <1>9 DEF NextMakerFails, params, wallet, tracker, chain, peers, PcOK, ExchangeSteps,
  Later, Resting
<1>10. CASE Handover
  BY <1>10 DEF Handover, params, wallet, tracker, chain, PcOK, ExchangeSteps, Later,
  Resting
<1>11. CASE HandoverFails
  BY <1>11 DEF HandoverFails, params, memory, wallet, tracker, chain, FailAndRecover,
  Forget, PcOK, ExchangeSteps, Later, Resting
<1>12. CASE Settle
  BY <1>12 DEF Settle, params, memory, tracker, peers, PcOK, ExchangeSteps, Later, Resting
<1>13. CASE Complete
  BY <1>13 DEF Complete, params, chain, peers, PcOK, ExchangeSteps, Later, Resting
<1>14. CASE ExchangeFails
  BY <1>14 DEF ExchangeFails, FailAndRecover, Forget, params, chain, PcOK, ExchangeSteps,
  Later, Resting
<1>15. CASE SettleNone
  BY <1>15 DEF SettleNone, FailAndRecover, peers, Forget, params, chain, PcOK,
  ExchangeSteps, Later, Resting
<1>16. CASE SubstituteFirst
  BY <1>16 DEF SubstituteFirst, Legacy, ExchangeStart, params, tracker, chain, peers, PcOK,
  ExchangeSteps, Later, Resting
<1>17. CASE SettleFails
  BY <1>17 DEF SettleFails, params, memory, wallet, tracker, chain, peers, PcOK,
  ExchangeSteps, Later, Resting
<1>18. CASE LoopClaims
  BY <1>18 DEF LoopClaims, loopFrame, params, memory, peers, PcOK, ExchangeSteps, Later,
  Resting
<1>19. CASE LoopCleansUp
  BY <1>19 DEF LoopCleansUp, loopFrame, params, memory, peers, PcOK, ExchangeSteps, Later,
  Resting
<1>20. ASSUME NEW S \in SUBSET Coins, LoopRefunds(S) PROVE PcOK'
  BY <1>20 DEF LoopRefunds, loopFrame, params, memory, peers, PcOK, ExchangeSteps, Later,
  Resting
<1>21. CASE Restart
  BY <1>21 DEF Restart, params, memory, peers, PcOK, ExchangeSteps, Later, Resting
<1>22. CASE Drops
  BY <1>22, DropsFrame DEF PcOK, ExchangeSteps, Later, Resting
<1>23. CASE Watches
  BY <1>23, WatchesFrame DEF PcOK, ExchangeSteps, Later, Resting
<1>24. CASE World
  BY <1>24, WorldFrame DEF PcOK, ExchangeSteps, Later, Resting
<1>25. CASE UNCHANGED vars
  BY <1>25 DEF vars, params, memory, wallet, tracker, chain, peers, PcOK, ExchangeSteps,
  Later, Resting
<1>. QED
  BY <1>1, <1>2, <1>3, <1>4, <1>5, <1>6, <1>7, <1>8, <1>9, <1>10, <1>11, <1>12, <1>13,
  <1>14, <1>15, <1>16, <1>17, <1>18, <1>19, <1>20, <1>21, <1>22, <1>23, <1>24, <1>25
     DEF Next, Exchange, Finish, Trouble, Loop, Others, Talks, Notes, Replies, Drops, Watches, World

\* The counters of makers, attempts, spares and generations stay in bounds: a generation
\* is created against a spare, an attempt only below MAX_FINALIZE_RETRIES.
LEMMA StepCountersOK == CountersOK /\ Counted /\ [Next]_vars => CountersOK'
<1> SUFFICES ASSUME CountersOK, Counted, [Next]_vars PROVE CountersOK'
  OBVIOUS
<1>0. Makers \in Nat \ {0} /\ Attempts \in Nat \ {0} /\ Spares \in Nat
  BY SizesAssumption
<1> USE <1>0
<1>1. CASE Prepare
  BY <1>1 DEF Prepare, params, wallet, chain, peers, CountersOK
<1>2. CASE Negotiate
  BY <1>2 DEF Negotiate, HasSpare, params, wallet, chain, peers, CountersOK
<1>3. CASE StartSwap
  BY <1>3 DEF StartSwap, params, chain, peers, CountersOK
<1>4. CASE SenderSigs
  BY <1>4 DEF SenderSigs, Advance, peers, params, wallet, tracker, chain, CountersOK
<1>5. CASE ConfirmFunding
  BY <1>5 DEF ConfirmFunding, Advance, peers, params, wallet, tracker, chain, CountersOK
<1>6. CASE ProofOfFunding
  BY <1>6 DEF ProofOfFunding, Advance, peers, params, wallet, tracker, chain, CountersOK
<1>7. CASE NextSigs
  BY <1>7 DEF NextSigs, Advance, peers, params, wallet, tracker, chain, CountersOK
<1>8. CASE PrevSigs
  BY <1>8 DEF PrevSigs, Advance, peers, params, wallet, tracker, chain, CountersOK
<1>9. CASE CombinedSigs
  BY <1>9 DEF CombinedSigs, Advance, params, wallet, tracker, chain, CountersOK
<1>10. CASE ContractData
  BY <1>10 DEF ContractData, Advance, params, wallet, tracker, chain, CountersOK
<1>11. CASE MakerFunding
  BY <1>11 DEF MakerFunding, NextHop, Advance, peers, params, wallet, tracker, chain,
  CountersOK
<1>12. CASE MakerContract
  BY <1>12 DEF MakerContract, NextHop, Advance, peers, params, wallet, tracker, chain,
  CountersOK
<1>13. CASE CreateIncoming
  BY <1>13 DEF CreateIncoming, Advance, peers, params, wallet, tracker, chain, CountersOK
<1>14. CASE Announce
  BY <1>14 DEF Announce, params, wallet, chain, peers, CountersOK
<1>15. CASE AllSent
  BY <1>15 DEF AllSent, params, wallet, chain, peers, CountersOK
<1>16. CASE ContractsExchanged
  BY <1>16 DEF ContractsExchanged, params, wallet, chain, peers, CountersOK
<1>17. CASE BeginFinalize
  BY <1>17 DEF BeginFinalize, params, wallet, chain, peers, CountersOK
<1>18. CASE Forwarded
  BY <1>18 DEF Forwarded, params, wallet, chain, peers, CountersOK
<1>19. CASE Replies
  BY <1>19, RepliesFrame DEF CountersOK
<1>20. CASE SaveBeforeBroadcast
  BY <1>20 DEF SaveBeforeBroadcast, params, memory, tracker, chain, peers, CountersOK
<1>21. CASE SendFunding
  BY <1>21 DEF SendFunding, params, memory, wallet, tracker, peers, CountersOK
<1>22. CASE NextMakerFails
  BY <1>22 DEF NextMakerFails, params, wallet, tracker, chain, peers, CountersOK
<1>23. CASE Handover
  BY <1>23 DEF Handover, params, wallet, tracker, chain, CountersOK
<1>24. CASE HandoverFails
  BY <1>24 DEF HandoverFails, params, memory, wallet, tracker, chain, FailAndRecover,
  Forget, CountersOK
<1>25. CASE Settle
  BY <1>25 DEF Settle, params, memory, tracker, peers, CountersOK
<1>26. CASE Complete
  BY <1>26 DEF Complete, params, chain, peers, CountersOK
<1>27. CASE ExchangeFails
  BY <1>27 DEF ExchangeFails, FailAndRecover, Forget, params, chain, CountersOK
<1>28. CASE SettleNone
  BY <1>28 DEF SettleNone, FailAndRecover, peers, Forget, params, chain, CountersOK
<1>29. CASE SubstituteFirst
  BY <1>29 DEF SubstituteFirst, HasSpare, params, tracker, chain, peers, Counted,
  CountersOK
<1>30. CASE SettleFails
  BY <1>30 DEF SettleFails, params, memory, wallet, tracker, chain, peers, CountersOK
<1>31. CASE LoopClaims
  BY <1>31 DEF LoopClaims, loopFrame, params, memory, peers, CountersOK
<1>32. CASE LoopCleansUp
  BY <1>32 DEF LoopCleansUp, loopFrame, params, memory, peers, CountersOK
<1>33. ASSUME NEW S \in SUBSET Coins, LoopRefunds(S) PROVE CountersOK'
  BY <1>33 DEF LoopRefunds, loopFrame, params, memory, peers, CountersOK
<1>34. CASE Restart
  BY <1>34 DEF Restart, params, memory, peers, CountersOK
<1>35. CASE SubstituteFails
  BY <1>35 DEF SubstituteFails, HasSpare, Forget, params, chain, peers, Counted, CountersOK
<1>36. CASE Abort
  BY <1>36 DEF Abort, Forget, params, wallet, chain, peers, CountersOK
<1>37. CASE Crash
  BY <1>37 DEF Crash, Exit, tracker, Forget, params, wallet, chain, peers, CountersOK
<1>38. CASE Shutdown
  BY <1>38 DEF Shutdown, Exit, Forget, params, wallet, chain, peers, CountersOK
<1>39. CASE Watches
  BY <1>39, WatchesFrame DEF CountersOK
<1>40. CASE World
  BY <1>40, WorldFrame DEF CountersOK
<1>41. CASE UNCHANGED vars
  BY <1>41 DEF vars, params, memory, wallet, tracker, chain, peers, CountersOK
<1>. QED
  BY <1>1, <1>2, <1>3, <1>4, <1>5, <1>6, <1>7, <1>8, <1>9, <1>10, <1>11, <1>12, <1>13,
  <1>14, <1>15, <1>16, <1>17, <1>18, <1>19, <1>20, <1>21, <1>22, <1>23, <1>24, <1>25,
  <1>26, <1>27, <1>28, <1>29, <1>30, <1>31, <1>32, <1>33, <1>34, <1>35, <1>36, <1>37,
  <1>38, <1>39, <1>40, <1>41
     DEF Next, Exchange, Finish, Trouble, Loop, Others, Replies, Watches, World

\* The swap's phase in memory and in the tracker file stays one of SwapPhase's.
LEMMA StepPhasesOK == PhasesOK /\ [Next]_vars => PhasesOK'
<1> SUFFICES ASSUME PhasesOK, [Next]_vars PROVE PhasesOK'
  OBVIOUS
<1>1. CASE Prepare
  BY <1>1 DEF Prepare, params, wallet, chain, peers, PhasesOK, Unfunded
<1>2. CASE Negotiate
  BY <1>2 DEF Negotiate, params, wallet, chain, peers, PhasesOK, Unfunded
<1>3. CASE StartSwap
  BY <1>3 DEF StartSwap, params, chain, peers, PhasesOK, Unfunded
<1>4. CASE Talks
  BY <1>4, TalksFrame DEF PhasesOK, Unfunded
<1>5. CASE Announce
  BY <1>5 DEF Announce, params, wallet, chain, peers, PhasesOK, Unfunded
<1>6. CASE AllSent
  BY <1>6 DEF AllSent, params, wallet, chain, peers, PhasesOK, Unfunded
<1>7. CASE ContractsExchanged
  BY <1>7 DEF ContractsExchanged, params, wallet, chain, peers, PhasesOK, Unfunded
<1>8. CASE BeginFinalize
  BY <1>8 DEF BeginFinalize, params, wallet, chain, peers, PhasesOK, Unfunded
<1>9. CASE Forwarded
  BY <1>9 DEF Forwarded, params, wallet, chain, peers, PhasesOK, Unfunded
<1>10. CASE Replies
  BY <1>10, RepliesFrame DEF PhasesOK, Unfunded
<1>11. CASE SaveBeforeBroadcast
  BY <1>11 DEF SaveBeforeBroadcast, params, memory, tracker, chain, peers, PhasesOK,
  Unfunded
<1>12. CASE SendFunding
  BY <1>12 DEF SendFunding, params, memory, wallet, tracker, peers, PhasesOK, Unfunded
<1>13. CASE NextMakerFails
  BY <1>13 DEF NextMakerFails, params, wallet, tracker, chain, peers, PhasesOK, Unfunded
<1>14. CASE Handover
  BY <1>14 DEF Handover, params, wallet, tracker, chain, PhasesOK, Unfunded
<1>15. CASE HandoverFails
  BY <1>15 DEF HandoverFails, params, memory, wallet, tracker, chain, FailAndRecover,
  PersistFailure, Forget, PhasesOK, Unfunded
<1>16. CASE Settle
  BY <1>16 DEF Settle, params, memory, tracker, peers, PhasesOK, Unfunded
<1>17. CASE Complete
  BY <1>17 DEF Complete, params, chain, peers, PhasesOK, Unfunded
<1>18. CASE ExchangeFails
  BY <1>18 DEF ExchangeFails, FailAndRecover, PersistFailure, Forget, params, chain,
  PhasesOK, Unfunded
<1>19. CASE SettleNone
  BY <1>19 DEF SettleNone, FailAndRecover, peers, PersistFailure, Forget, params, chain,
  PhasesOK, Unfunded
<1>20. CASE SubstituteFirst
  BY <1>20 DEF SubstituteFirst, params, tracker, chain, peers, PhasesOK, Unfunded
<1>21. CASE SettleFails
  BY <1>21 DEF SettleFails, params, memory, wallet, tracker, chain, peers, PhasesOK,
  Unfunded
<1>22. CASE LoopClaims
  BY <1>22 DEF LoopClaims, Outcome, loopFrame, params, memory, peers, PhasesOK, Unfunded
<1>23. CASE LoopCleansUp
  BY <1>23 DEF LoopCleansUp, loopFrame, params, memory, peers, PhasesOK, Unfunded
<1>24. ASSUME NEW S \in SUBSET Coins, LoopRefunds(S) PROVE PhasesOK'
  BY <1>24 DEF LoopRefunds, Outcome, loopFrame, params, memory, peers, PhasesOK, Unfunded
<1>25. CASE Restart
  BY <1>25 DEF Restart, CleanupIncomplete, params, memory, peers, PhasesOK, Unfunded
<1>26. CASE SubstituteFails
  BY <1>26 DEF SubstituteFails, Forget, params, chain, peers, PhasesOK, Unfunded
<1>27. CASE Abort
  BY <1>27 DEF Abort, Forget, params, wallet, chain, peers, PhasesOK, Unfunded
<1>28. CASE Crash
  BY <1>28 DEF Crash, Exit, tracker, Forget, params, wallet, chain, peers, PhasesOK,
  Unfunded
<1>29. CASE Shutdown
  BY <1>29 DEF Shutdown, Exit, Forget, params, wallet, chain, peers, PhasesOK, Unfunded
<1>30. CASE Watches
  BY <1>30, WatchesFrame DEF PhasesOK, Unfunded
<1>31. CASE World
  BY <1>31, WorldFrame DEF PhasesOK, Unfunded
<1>32. CASE UNCHANGED vars
  BY <1>32 DEF vars, params, memory, wallet, tracker, chain, peers, PhasesOK, Unfunded
<1>. QED
  BY <1>1, <1>2, <1>3, <1>4, <1>5, <1>6, <1>7, <1>8, <1>9, <1>10, <1>11, <1>12, <1>13,
  <1>14, <1>15, <1>16, <1>17, <1>18, <1>19, <1>20, <1>21, <1>22, <1>23, <1>24, <1>25,
  <1>26, <1>27, <1>28, <1>29, <1>30, <1>31, <1>32
     DEF Next, Exchange, Finish, Trouble, Loop, Others, Talks, Replies, Watches, World

\* The flags stay flags.
LEMMA StepFlagsOK == FlagsOK /\ [Next]_vars => FlagsOK'
<1> SUFFICES ASSUME FlagsOK, [Next]_vars PROVE FlagsOK'
  OBVIOUS
<1>1. CASE Prepare
  BY <1>1 DEF Prepare, params, wallet, chain, peers, FlagsOK
<1>2. CASE Negotiate
  BY <1>2 DEF Negotiate, params, wallet, chain, peers, FlagsOK
<1>3. CASE StartSwap
  BY <1>3 DEF StartSwap, params, chain, peers, FlagsOK
<1>4. CASE SenderSigs
  BY <1>4 DEF SenderSigs, Advance, peers, params, wallet, tracker, chain, FlagsOK
<1>5. CASE ConfirmFunding
  BY <1>5 DEF ConfirmFunding, Advance, peers, params, wallet, tracker, chain, FlagsOK
<1>6. CASE ProofOfFunding
  BY <1>6 DEF ProofOfFunding, Advance, peers, params, wallet, tracker, chain, FlagsOK
<1>7. CASE NextSigs
  BY <1>7 DEF NextSigs, Advance, peers, params, wallet, tracker, chain, FlagsOK
<1>8. CASE PrevSigs
  BY <1>8 DEF PrevSigs, Advance, peers, params, wallet, tracker, chain, FlagsOK
<1>9. CASE CombinedSigs
  BY <1>9 DEF CombinedSigs, Advance, params, wallet, tracker, chain, FlagsOK
<1>10. CASE ContractData
  BY <1>10 DEF ContractData, Advance, params, wallet, tracker, chain, FlagsOK
<1>11. CASE MakerFunding
  BY <1>11 DEF MakerFunding, NextHop, Advance, peers, params, wallet, tracker, chain,
  FlagsOK
<1>12. CASE MakerContract
  BY <1>12 DEF MakerContract, NextHop, Advance, peers, params, wallet, tracker, chain,
  FlagsOK
<1>13. CASE CreateIncoming
  BY <1>13 DEF CreateIncoming, Advance, peers, params, wallet, tracker, chain, FlagsOK
<1>14. CASE Notes
  BY <1>14, NotesFrame DEF FlagsOK
<1>15. CASE Replies
  BY <1>15, RepliesFrame DEF FlagsOK
<1>16. CASE SaveBeforeBroadcast
  BY <1>16 DEF SaveBeforeBroadcast, params, memory, tracker, chain, peers, FlagsOK
<1>17. CASE SendFunding
  BY <1>17 DEF SendFunding, params, memory, wallet, tracker, peers, FlagsOK
<1>18. CASE NextMakerFails
  BY <1>18 DEF NextMakerFails, params, wallet, tracker, chain, peers, FlagsOK
<1>19. CASE Handover
  BY <1>19 DEF Handover, params, wallet, tracker, chain, FlagsOK
<1>20. CASE HandoverFails
  BY <1>20 DEF HandoverFails, params, memory, wallet, tracker, chain, FailAndRecover,
  Forget, FlagsOK
<1>21. CASE Settle
  BY <1>21 DEF Settle, Claim, params, memory, tracker, peers, FlagsOK
<1>22. CASE Complete
  BY <1>22 DEF Complete, params, chain, peers, FlagsOK
<1>23. CASE ExchangeFails
  BY <1>23 DEF ExchangeFails, FailAndRecover, Forget, params, chain, FlagsOK
<1>24. CASE SettleNone
  BY <1>24 DEF SettleNone, FailAndRecover, peers, Forget, params, chain, FlagsOK
<1>25. CASE SubstituteFirst
  BY <1>25 DEF SubstituteFirst, params, tracker, chain, peers, FlagsOK
<1>26. CASE SettleFails
  BY <1>26 DEF SettleFails, params, memory, wallet, tracker, chain, peers, FlagsOK
<1>27. CASE LoopClaims
  BY <1>27 DEF LoopClaims, Claim, loopFrame, params, memory, peers, FlagsOK
<1>28. CASE LoopCleansUp
  BY <1>28 DEF LoopCleansUp, loopFrame, params, memory, peers, FlagsOK
<1>29. ASSUME NEW S \in SUBSET Coins, LoopRefunds(S) PROVE FlagsOK'
  BY <1>29 DEF LoopRefunds, loopFrame, params, memory, peers, FlagsOK
<1>30. CASE Restart
  BY <1>30 DEF Restart, RecoverWallet, params, memory, peers, Claim, FlagsOK
<1>31. CASE SubstituteFails
  BY <1>31 DEF SubstituteFails, Forget, params, chain, peers, FlagsOK
<1>32. CASE Abort
  BY <1>32 DEF Abort, Forget, params, wallet, chain, peers, FlagsOK
<1>33. CASE Crash
  BY <1>33 DEF Crash, Exit, tracker, Forget, params, wallet, chain, peers, FlagsOK
<1>34. CASE Shutdown
  BY <1>34 DEF Shutdown, Exit, Forget, params, wallet, chain, peers, FlagsOK
<1>35. CASE DetectorPolls
  BY <1>35 DEF DetectorPolls, params, memory, wallet, tracker, chain, peers, FlagsOK
<1>36. CASE WatcherExits
  BY <1>36 DEF WatcherExits, params, memory, wallet, tracker, chain, peers, FlagsOK
<1>37. CASE BacklogResolves
  BY <1>37 DEF BacklogResolves, params, memory, wallet, tracker, chain, peers, FlagsOK
<1>38. CASE World
  BY <1>38, WorldFrame DEF FlagsOK
<1>39. CASE UNCHANGED vars
  BY <1>39 DEF vars, params, memory, wallet, tracker, chain, peers, FlagsOK
<1>. QED
  BY <1>1, <1>2, <1>3, <1>4, <1>5, <1>6, <1>7, <1>8, <1>9, <1>10, <1>11, <1>12, <1>13,
  <1>14, <1>15, <1>16, <1>17, <1>18, <1>19, <1>20, <1>21, <1>22, <1>23, <1>24, <1>25,
  <1>26, <1>27, <1>28, <1>29, <1>30, <1>31, <1>32, <1>33, <1>34, <1>35, <1>36, <1>37,
  <1>38, <1>39
     DEF Next, Exchange, Finish, Trouble, Loop, Others, Notes, Replies, World

\* The incoming coins, in memory and in the wallet file, stay in one of their forms;
\* finalize_swap saves them only when they are there.
LEMMA StepIncomingOK == Keyed /\ IncomingOK /\ [Next]_vars => IncomingOK'
<1> SUFFICES ASSUME Keyed, IncomingOK, [Next]_vars PROVE IncomingOK'
  OBVIOUS
<1>1. CASE Prepare
  BY <1>1 DEF Prepare, params, wallet, chain, peers, IncomingOK
<1>2. CASE Negotiate
  BY <1>2 DEF Negotiate, params, wallet, chain, peers, IncomingOK
<1>3. CASE StartSwap
  BY <1>3 DEF StartSwap, params, chain, peers, IncomingOK
<1>4. CASE SenderSigs
  BY <1>4 DEF SenderSigs, Advance, peers, params, wallet, tracker, chain, IncomingOK
<1>5. CASE ConfirmFunding
  BY <1>5 DEF ConfirmFunding, Advance, peers, params, wallet, tracker, chain, IncomingOK
<1>6. CASE ProofOfFunding
  BY <1>6 DEF ProofOfFunding, Advance, peers, params, wallet, tracker, chain, IncomingOK
<1>7. CASE NextSigs
  BY <1>7 DEF NextSigs, Advance, peers, params, wallet, tracker, chain, IncomingOK
<1>8. CASE PrevSigs
  BY <1>8 DEF PrevSigs, Advance, peers, params, wallet, tracker, chain, IncomingOK
<1>9. CASE CombinedSigs
  BY <1>9 DEF CombinedSigs, Advance, params, wallet, tracker, chain, IncomingOK
<1>10. CASE ContractData
  BY <1>10 DEF ContractData, Advance, params, wallet, tracker, chain, IncomingOK
<1>11. CASE MakerFunding
  BY <1>11 DEF MakerFunding, NextHop, Advance, peers, params, wallet, tracker, chain,
  IncomingOK
<1>12. CASE MakerContract
  BY <1>12 DEF MakerContract, NextHop, Advance, peers, params, wallet, tracker, chain,
  IncomingOK
<1>13. CASE CreateIncoming
  BY <1>13 DEF CreateIncoming, Advance, peers, params, wallet, tracker, chain, IncomingOK
<1>14. CASE Notes
  BY <1>14, NotesFrame DEF IncomingOK
<1>15. CASE ContractReply
  BY <1>15 DEF ContractReply, params, tracker, chain, peers, IncomingOK
<1>16. CASE LastSigs
  BY <1>16 DEF LastSigs, params, tracker, chain, peers, IncomingOK
<1>17. CASE KeepKeys
  BY <1>17 DEF KeepKeys, params, memory, tracker, chain, peers, Keyed, IncomingOK
<1>18. CASE SaveBeforeBroadcast
  BY <1>18 DEF SaveBeforeBroadcast, params, memory, tracker, chain, peers, IncomingOK
<1>19. CASE SendFunding
  BY <1>19 DEF SendFunding, params, memory, wallet, tracker, peers, IncomingOK
<1>20. CASE NextMakerFails
  BY <1>20 DEF NextMakerFails, params, wallet, tracker, chain, peers, IncomingOK
<1>21. CASE Handover
  BY <1>21 DEF Handover, params, wallet, tracker, chain, IncomingOK
<1>22. CASE HandoverFails
  BY <1>22 DEF HandoverFails, params, memory, wallet, tracker, chain, FailAndRecover,
  Forget, IncomingOK
<1>23. CASE Settle
  BY <1>23 DEF Settle, Claim, params, memory, tracker, peers, IncomingOK
<1>24. CASE Complete
  BY <1>24 DEF Complete, params, chain, peers, IncomingOK
<1>25. CASE ExchangeFails
  BY <1>25 DEF ExchangeFails, FailAndRecover, Forget, params, chain, IncomingOK
<1>26. CASE SettleNone
  BY <1>26 DEF SettleNone, FailAndRecover, peers, Forget, params, chain, IncomingOK
<1>27. CASE SubstituteFirst
  BY <1>27 DEF SubstituteFirst, params, tracker, chain, peers, IncomingOK
<1>28. CASE SettleFails
  BY <1>28 DEF SettleFails, params, memory, wallet, tracker, chain, peers, IncomingOK
<1>29. CASE LoopClaims
  BY <1>29 DEF LoopClaims, Claim, loopFrame, params, memory, peers, IncomingOK
<1>30. CASE LoopCleansUp
  BY <1>30 DEF LoopCleansUp, loopFrame, params, memory, peers, IncomingOK
<1>31. ASSUME NEW S \in SUBSET Coins, LoopRefunds(S) PROVE IncomingOK'
  BY <1>31 DEF LoopRefunds, loopFrame, params, memory, peers, IncomingOK
<1>32. CASE Restart
  BY <1>32 DEF Restart, RecoverWallet, params, memory, peers, Claim, IncomingOK
<1>33. CASE Drops
  BY <1>33, DropsFrame DEF IncomingOK
<1>34. CASE Watches
  BY <1>34, WatchesFrame DEF IncomingOK
<1>35. CASE World
  BY <1>35, WorldFrame DEF IncomingOK
<1>36. CASE UNCHANGED vars
  BY <1>36 DEF vars, params, memory, wallet, tracker, chain, peers, IncomingOK
<1>. QED
  BY <1>1, <1>2, <1>3, <1>4, <1>5, <1>6, <1>7, <1>8, <1>9, <1>10, <1>11, <1>12, <1>13,
  <1>14, <1>15, <1>16, <1>17, <1>18, <1>19, <1>20, <1>21, <1>22, <1>23, <1>24, <1>25,
  <1>26, <1>27, <1>28, <1>29, <1>30, <1>31, <1>32, <1>33, <1>34, <1>35, <1>36
     DEF Next, Exchange, Finish, Trouble, Loop, Others, Notes, Drops, Watches, World

\* The keys the last maker handed over stay in memory until finalize_swap saves them.
LEMMA StepKeyed == Keyed /\ [Next]_vars => Keyed'
<1> SUFFICES ASSUME Keyed, [Next]_vars PROVE Keyed'
  OBVIOUS
<1>1. CASE Prepare
  BY <1>1 DEF Prepare, params, wallet, chain, peers, Keyed, Later, Resting
<1>2. CASE Negotiate
  BY <1>2 DEF Negotiate, params, wallet, chain, peers, Keyed, Later, Resting
<1>3. CASE StartSwap
  BY <1>3 DEF StartSwap, Legacy, ExchangeStart, params, chain, peers, Keyed, Later, Resting
<1>4. CASE Talks
  BY <1>4, TalksFrame DEF Keyed, Later, Resting
<1>5. CASE Announce
  BY <1>5 DEF Announce, params, wallet, chain, peers, Keyed, Later, Resting
<1>6. CASE AllSent
  BY <1>6 DEF AllSent, params, wallet, chain, peers, Keyed, Later, Resting
<1>7. CASE ContractsExchanged
  BY <1>7 DEF ContractsExchanged, params, wallet, chain, peers, Keyed, Later, Resting
<1>8. CASE BeginFinalize
  BY <1>8 DEF BeginFinalize, params, wallet, chain, peers, Keyed, Later, Resting
<1>9. CASE Forwarded
  BY <1>9 DEF Forwarded, params, wallet, chain, peers, Keyed, Later, Resting
<1>10. CASE ContractReply
  BY <1>10 DEF ContractReply, params, tracker, chain, peers, Keyed, Later, Resting
<1>11. CASE LastSigs
  BY <1>11 DEF LastSigs, params, tracker, chain, peers, Keyed, Later, Resting
<1>12. CASE KeepKeys
  BY <1>12 DEF KeepKeys, params, memory, tracker, chain, peers, Keyed, Later, Resting
<1>13. CASE SaveBeforeBroadcast
  BY <1>13 DEF SaveBeforeBroadcast, params, memory, tracker, chain, peers, Keyed, Later,
  Resting
<1>14. CASE SendFunding
  BY <1>14 DEF SendFunding, params, memory, wallet, tracker, peers, Keyed, Later, Resting
<1>15. CASE NextMakerFails
  BY <1>15 DEF NextMakerFails, params, wallet, tracker, chain, peers, Keyed, Later, Resting
<1>16. CASE Handover
  BY <1>16 DEF Handover, params, wallet, tracker, chain, Keyed, Later, Resting
<1>17. CASE HandoverFails
  BY <1>17 DEF HandoverFails, params, memory, wallet, tracker, chain, FailAndRecover,
  Forget, Keyed, Later, Resting
<1>18. CASE Settle
  BY <1>18 DEF Settle, params, memory, tracker, peers, Keyed, Later, Resting
<1>19. CASE Complete
  BY <1>19 DEF Complete, params, chain, peers, Keyed, Later, Resting
<1>20. CASE ExchangeFails
  BY <1>20 DEF ExchangeFails, FailAndRecover, Forget, params, chain, Keyed, Later, Resting
<1>21. CASE SettleNone
  BY <1>21 DEF SettleNone, FailAndRecover, peers, Forget, params, chain, Keyed, Later,
  Resting
<1>22. CASE SubstituteFirst
  BY <1>22 DEF SubstituteFirst, Legacy, ExchangeStart, params, tracker, chain, peers,
  Keyed, Later, Resting
<1>23. CASE SettleFails
  BY <1>23 DEF SettleFails, params, memory, wallet, tracker, chain, peers, Keyed, Later,
  Resting
<1>24. CASE LoopClaims
  BY <1>24 DEF LoopClaims, loopFrame, params, memory, peers, Keyed, Later, Resting
<1>25. CASE LoopCleansUp
  BY <1>25 DEF LoopCleansUp, loopFrame, params, memory, peers, Keyed, Later, Resting
<1>26. ASSUME NEW S \in SUBSET Coins, LoopRefunds(S) PROVE Keyed'
  BY <1>26 DEF LoopRefunds, loopFrame, params, memory, peers, Keyed, Later, Resting
<1>27. CASE Restart
  BY <1>27 DEF Restart, params, memory, peers, Keyed, Later, Resting
<1>28. CASE Drops
  BY <1>28, DropsFrame DEF Keyed, Later, Resting
<1>29. CASE Watches
  BY <1>29, WatchesFrame DEF Keyed, Later, Resting
<1>30. CASE World
  BY <1>30, WorldFrame DEF Keyed, Later, Resting
<1>31. CASE UNCHANGED vars
  BY <1>31 DEF vars, params, memory, wallet, tracker, chain, peers, Keyed, Later, Resting
<1>. QED
  BY <1>1, <1>2, <1>3, <1>4, <1>5, <1>6, <1>7, <1>8, <1>9, <1>10, <1>11, <1>12, <1>13,
  <1>14, <1>15, <1>16, <1>17, <1>18, <1>19, <1>20, <1>21, <1>22, <1>23, <1>24, <1>25,
  <1>26, <1>27, <1>28, <1>29, <1>30, <1>31
     DEF Next, Exchange, Finish, Trouble, Loop, Others, Talks, Drops, Watches, World

\* The detector and the recovery loop stay in one of their states; the incoming timelock
\* passes only while no thread can sweep.
LEMMA StepThreadsOK == ThreadsOK /\ [Next]_vars => ThreadsOK'
<1> SUFFICES ASSUME ThreadsOK, [Next]_vars PROVE ThreadsOK'
  OBVIOUS
<1>1. CASE Prepare
  BY <1>1 DEF Prepare, params, wallet, chain, peers, ThreadsOK
<1>2. CASE Negotiate
  BY <1>2 DEF Negotiate, params, wallet, chain, peers, ThreadsOK
<1>3. CASE StartSwap
  BY <1>3 DEF StartSwap, params, chain, peers, ThreadsOK
<1>4. CASE Talks
  BY <1>4, TalksFrame DEF ThreadsOK
<1>5. CASE Notes
  BY <1>5, NotesFrame DEF ThreadsOK
<1>6. CASE ContractReply
  BY <1>6 DEF ContractReply, params, tracker, chain, peers, ThreadsOK
<1>7. CASE LastSigs
  BY <1>7 DEF LastSigs, params, tracker, chain, peers, ThreadsOK
<1>8. CASE KeepKeys
  BY <1>8 DEF KeepKeys, params, memory, tracker, chain, peers, ThreadsOK
<1>9. CASE SaveBeforeBroadcast
  BY <1>9 DEF SaveBeforeBroadcast, params, memory, tracker, chain, peers, ThreadsOK
<1>10. CASE SendFunding
  BY <1>10 DEF SendFunding, params, memory, wallet, tracker, peers, ThreadsOK
<1>11. CASE NextMakerFails
  BY <1>11 DEF NextMakerFails, params, wallet, tracker, chain, peers, ThreadsOK
<1>12. CASE Handover
  BY <1>12 DEF Handover, params, wallet, tracker, chain, ThreadsOK
<1>13. CASE HandoverFails
  BY <1>13 DEF HandoverFails, params, memory, wallet, tracker, chain, FailAndRecover,
  Forget, ThreadsOK
<1>14. CASE Settle
  BY <1>14 DEF Settle, params, memory, tracker, peers, ThreadsOK
<1>15. CASE Complete
  BY <1>15 DEF Complete, params, chain, peers, ThreadsOK
<1>16. CASE ExchangeFails
  BY <1>16 DEF ExchangeFails, FailAndRecover, Forget, params, chain, ThreadsOK
<1>17. CASE SettleNone
  BY <1>17 DEF SettleNone, FailAndRecover, peers, Forget, params, chain, ThreadsOK
<1>18. CASE SubstituteFirst
  BY <1>18 DEF SubstituteFirst, params, tracker, chain, peers, ThreadsOK
<1>19. CASE SettleFails
  BY <1>19 DEF SettleFails, params, memory, wallet, tracker, chain, peers, ThreadsOK
<1>20. CASE LoopClaims
  BY <1>20 DEF LoopClaims, loopFrame, params, memory, peers, ThreadsOK
<1>21. CASE LoopCleansUp
  BY <1>21 DEF LoopCleansUp, loopFrame, params, memory, peers, ThreadsOK
<1>22. ASSUME NEW S \in SUBSET Coins, LoopRefunds(S) PROVE ThreadsOK'
  BY <1>22 DEF LoopRefunds, loopFrame, params, memory, peers, ThreadsOK
<1>23. CASE Restart
  BY <1>23 DEF Restart, RecoverWallet, params, memory, peers, ThreadsOK
<1>24. CASE SubstituteFails
  BY <1>24 DEF SubstituteFails, Forget, params, chain, peers, ThreadsOK
<1>25. CASE Abort
  BY <1>25 DEF Abort, Forget, params, wallet, chain, peers, ThreadsOK
<1>26. CASE Crash
  BY <1>26 DEF Crash, Exit, tracker, Forget, params, wallet, chain, peers, ThreadsOK
<1>27. CASE Shutdown
  BY <1>27 DEF Shutdown, Exit, Forget, params, wallet, chain, peers, ThreadsOK
<1>28. CASE DetectorPolls
  BY <1>28 DEF DetectorPolls, params, memory, wallet, tracker, chain, peers, ThreadsOK
<1>29. CASE WatcherExits
  BY <1>29 DEF WatcherExits, params, memory, wallet, tracker, chain, peers, ThreadsOK
<1>30. CASE BacklogResolves
  BY <1>30 DEF BacklogResolves, params, memory, wallet, tracker, chain, peers, ThreadsOK
<1>31. CASE LastMakerFunds
  BY <1>31 DEF LastMakerFunds, others, params, memory, wallet, tracker, peers, ThreadsOK
<1>32. CASE LastMakerPublishes
  BY <1>32 DEF LastMakerPublishes, others, params, memory, wallet, tracker, peers,
  ThreadsOK
<1>33. CASE RipenIncoming
  BY <1>33 DEF RipenIncoming, Busy, others, params, memory, wallet, tracker, peers,
  ThreadsOK
<1>34. CASE LastMakerRefunds
  BY <1>34 DEF LastMakerRefunds, others, params, memory, wallet, tracker, peers, ThreadsOK
<1>35. ASSUME NEW e \in Coins, FirstMakerPublishes(e) PROVE ThreadsOK'
  BY <1>35 DEF FirstMakerPublishes, others, params, memory, wallet, tracker, peers,
  ThreadsOK
<1>36. ASSUME NEW e \in Coins, FirstMakerTakes(e) PROVE ThreadsOK'
  BY <1>36 DEF FirstMakerTakes, others, params, memory, wallet, tracker, peers, ThreadsOK
<1>37. ASSUME NEW e \in Coins, Ripen(e) PROVE ThreadsOK'
  BY <1>37 DEF Ripen, others, params, memory, wallet, tracker, peers, ThreadsOK
<1>38. CASE UNCHANGED vars
  BY <1>38 DEF vars, params, memory, wallet, tracker, chain, peers, ThreadsOK
<1>. QED
  BY <1>1, <1>2, <1>3, <1>4, <1>5, <1>6, <1>7, <1>8, <1>9, <1>10, <1>11, <1>12, <1>13,
  <1>14, <1>15, <1>16, <1>17, <1>18, <1>19, <1>20, <1>21, <1>22, <1>23, <1>24, <1>25,
  <1>26, <1>27, <1>28, <1>29, <1>30, <1>31, <1>32, <1>33, <1>34, <1>35, <1>36, <1>37, <1>38
     DEF Next, Exchange, Finish, Trouble, Loop, Others, Talks, Notes

\* The wallet file and the chain keep an entry for every outgoing contract.
LEMMA StepCoinsOK == CoinsOK /\ [Next]_vars => CoinsOK'
<1> SUFFICES ASSUME CoinsOK, [Next]_vars PROVE CoinsOK'
  OBVIOUS
<1>1. CASE Prepare
  BY <1>1 DEF Prepare, params, wallet, chain, peers, CoinsOK
<1>2. CASE Negotiate
  BY <1>2 DEF Negotiate, params, wallet, chain, peers, CoinsOK
<1>3. CASE StartSwap
  BY <1>3 DEF StartSwap, Funded, params, chain, peers, CoinsOK
<1>4. CASE Talks
  BY <1>4, TalksFrame DEF CoinsOK
<1>5. CASE Notes
  BY <1>5, NotesFrame DEF CoinsOK
<1>6. CASE Replies
  BY <1>6, RepliesFrame DEF CoinsOK
<1>7. CASE SaveBeforeBroadcast
  BY <1>7 DEF SaveBeforeBroadcast, params, memory, tracker, chain, peers, CoinsOK
<1>8. CASE SendFunding
  BY <1>8 DEF SendFunding, Unsent, params, memory, wallet, tracker, peers, CoinsOK
<1>9. CASE NextMakerFails
  BY <1>9 DEF NextMakerFails, params, wallet, tracker, chain, peers, CoinsOK
<1>10. CASE Handover
  BY <1>10 DEF Handover, params, wallet, tracker, chain, CoinsOK
<1>11. CASE HandoverFails
  BY <1>11 DEF HandoverFails, params, memory, wallet, tracker, chain, FailAndRecover,
  CoinsOK
<1>12. CASE Settle
  BY <1>12 DEF Settle, params, memory, tracker, peers, CoinsOK
<1>13. CASE Complete
  BY <1>13 DEF Complete, params, chain, peers, CoinsOK
<1>14. CASE ExchangeFails
  BY <1>14 DEF ExchangeFails, FailAndRecover, params, chain, CoinsOK
<1>15. CASE SettleNone
  BY <1>15 DEF SettleNone, FailAndRecover, peers, params, chain, CoinsOK
<1>16. CASE SubstituteFirst
  BY <1>16 DEF SubstituteFirst, Funded, params, tracker, chain, peers, CoinsOK
<1>17. CASE SettleFails
  BY <1>17 DEF SettleFails, params, memory, wallet, tracker, chain, peers, CoinsOK
<1>18. CASE LoopClaims
  BY <1>18 DEF LoopClaims, loopFrame, params, memory, peers, CoinsOK
<1>19. CASE LoopCleansUp
  BY <1>19 DEF LoopCleansUp, loopFrame, params, memory, peers, CoinsOK
<1>20. ASSUME NEW S \in SUBSET Coins, LoopRefunds(S) PROVE CoinsOK'
  BY <1>20 DEF LoopRefunds, RefundPass, loopFrame, Recovered, params, memory, peers,
  CoinsOK
<1>21. CASE Restart
  BY <1>21 DEF Restart, RecoverWallet, params, memory, peers, RefundPass, Recovered,
  CoinsOK
<1>22. CASE SubstituteFails
  BY <1>22 DEF SubstituteFails, params, chain, peers, CoinsOK
<1>23. CASE Abort
  BY <1>23 DEF Abort, params, wallet, chain, peers, CoinsOK
<1>24. CASE Crash
  BY <1>24 DEF Crash, Exit, tracker, params, wallet, chain, peers, CoinsOK
<1>25. CASE Shutdown
  BY <1>25 DEF Shutdown, Exit, params, wallet, chain, peers, CoinsOK
<1>26. CASE Watches
  BY <1>26, WatchesFrame DEF CoinsOK
<1>27. CASE LastMakerFunds
  BY <1>27 DEF LastMakerFunds, others, params, memory, wallet, tracker, peers, CoinsOK
<1>28. CASE LastMakerPublishes
  BY <1>28 DEF LastMakerPublishes, others, params, memory, wallet, tracker, peers, CoinsOK
<1>29. CASE RipenIncoming
  BY <1>29 DEF RipenIncoming, others, params, memory, wallet, tracker, peers, CoinsOK
<1>30. CASE LastMakerRefunds
  BY <1>30 DEF LastMakerRefunds, others, params, memory, wallet, tracker, peers, CoinsOK
<1>31. ASSUME NEW e \in Coins, FirstMakerPublishes(e) PROVE CoinsOK'
  BY <1>31 DEF FirstMakerPublishes, others, params, memory, wallet, tracker, peers, CoinsOK
<1>32. ASSUME NEW e \in Coins, FirstMakerTakes(e) PROVE CoinsOK'
  BY <1>32 DEF FirstMakerTakes, others, params, memory, wallet, tracker, peers, CoinsOK
<1>33. ASSUME NEW e \in Coins, Ripen(e) PROVE CoinsOK'
  BY <1>33 DEF Ripen, others, params, memory, wallet, tracker, peers, CoinsOK
<1>34. CASE UNCHANGED vars
  BY <1>34 DEF vars, params, memory, wallet, tracker, chain, peers, CoinsOK
<1>. QED
  BY <1>1, <1>2, <1>3, <1>4, <1>5, <1>6, <1>7, <1>8, <1>9, <1>10, <1>11, <1>12, <1>13,
  <1>14, <1>15, <1>16, <1>17, <1>18, <1>19, <1>20, <1>21, <1>22, <1>23, <1>24, <1>25,
  <1>26, <1>27, <1>28, <1>29, <1>30, <1>31, <1>32, <1>33, <1>34
     DEF Next, Exchange, Finish, Trouble, Loop, Others, Talks, Notes, Replies, Watches

\* Only contracts of the swap ripen or have their keys given away, and the incoming one
\* stays in one of its states.
LEMMA StepChainOK == CountersOK /\ ChainOK /\ [Next]_vars => ChainOK'
<1> SUFFICES ASSUME CountersOK, ChainOK, [Next]_vars PROVE ChainOK'
  OBVIOUS
<1>0. Current \subseteq Coins
  BY CurrentCoins DEF CountersOK
<1> USE <1>0
<1>1. CASE Prepare
  BY <1>1 DEF Prepare, params, wallet, chain, peers, ChainOK
<1>2. CASE Negotiate
  BY <1>2 DEF Negotiate, params, wallet, chain, peers, ChainOK
<1>3. CASE StartSwap
  BY <1>3 DEF StartSwap, params, chain, peers, ChainOK
<1>4. CASE Talks
  BY <1>4, TalksFrame DEF ChainOK
<1>5. CASE Notes
  BY <1>5, NotesFrame DEF ChainOK
<1>6. CASE Replies
  BY <1>6, RepliesFrame DEF ChainOK
<1>7. CASE SaveBeforeBroadcast
  BY <1>7 DEF SaveBeforeBroadcast, params, memory, tracker, chain, peers, ChainOK
<1>8. CASE SendFunding
  BY <1>8 DEF SendFunding, params, memory, wallet, tracker, peers, ChainOK
<1>9. CASE NextMakerFails
  BY <1>9 DEF NextMakerFails, params, wallet, tracker, chain, peers, ChainOK
<1>10. CASE Handover
  BY <1>10 DEF Handover, Sent, params, wallet, tracker, chain, ChainOK
<1>11. CASE HandoverFails
  BY <1>11 DEF HandoverFails, Sent, params, memory, wallet, tracker, chain, FailAndRecover,
  ChainOK
<1>12. CASE Settle
  BY <1>12 DEF Settle, Claim, params, memory, tracker, peers, ChainOK
<1>13. CASE Complete
  BY <1>13 DEF Complete, params, chain, peers, ChainOK
<1>14. CASE ExchangeFails
  BY <1>14 DEF ExchangeFails, FailAndRecover, params, chain, ChainOK
<1>15. CASE SettleNone
  BY <1>15 DEF SettleNone, FailAndRecover, peers, params, chain, ChainOK
<1>16. CASE SubstituteFirst
  BY <1>16 DEF SubstituteFirst, params, tracker, chain, peers, ChainOK
<1>17. CASE SettleFails
  BY <1>17 DEF SettleFails, params, memory, wallet, tracker, chain, peers, ChainOK
<1>18. CASE LoopClaims
  BY <1>18 DEF LoopClaims, Claim, loopFrame, params, memory, peers, ChainOK
<1>19. CASE LoopCleansUp
  BY <1>19 DEF LoopCleansUp, loopFrame, params, memory, peers, ChainOK
<1>20. ASSUME NEW S \in SUBSET Coins, LoopRefunds(S) PROVE ChainOK'
  BY <1>20 DEF LoopRefunds, loopFrame, params, memory, peers, ChainOK
<1>21. CASE Restart
  BY <1>21 DEF Restart, RecoverWallet, params, memory, peers, Claim, ChainOK
<1>22. CASE Drops
  BY <1>22, DropsFrame DEF ChainOK
<1>23. CASE Watches
  BY <1>23, WatchesFrame DEF ChainOK
<1>24. CASE LastMakerFunds
  BY <1>24 DEF LastMakerFunds, others, params, memory, wallet, tracker, peers, ChainOK
<1>25. CASE LastMakerPublishes
  BY <1>25 DEF LastMakerPublishes, others, params, memory, wallet, tracker, peers, ChainOK
<1>26. CASE RipenIncoming
  BY <1>26 DEF RipenIncoming, others, params, memory, wallet, tracker, peers, ChainOK
<1>27. CASE LastMakerRefunds
  BY <1>27 DEF LastMakerRefunds, others, params, memory, wallet, tracker, peers, ChainOK
<1>28. ASSUME NEW e \in Coins, FirstMakerPublishes(e) PROVE ChainOK'
  BY <1>28 DEF FirstMakerPublishes, others, params, memory, wallet, tracker, peers, ChainOK
<1>29. ASSUME NEW e \in Coins, FirstMakerTakes(e) PROVE ChainOK'
  BY <1>29 DEF FirstMakerTakes, others, params, memory, wallet, tracker, peers, ChainOK
<1>30. ASSUME NEW e \in Coins, Ripen(e) PROVE ChainOK'
  BY <1>30 DEF Ripen, others, params, memory, wallet, tracker, peers, ChainOK
<1>31. CASE UNCHANGED vars
  BY <1>31 DEF vars, params, memory, wallet, tracker, chain, peers, ChainOK
<1>. QED
  BY <1>1, <1>2, <1>3, <1>4, <1>5, <1>6, <1>7, <1>8, <1>9, <1>10, <1>11, <1>12, <1>13,
  <1>14, <1>15, <1>16, <1>17, <1>18, <1>19, <1>20, <1>21, <1>22, <1>23, <1>24, <1>25,
  <1>26, <1>27, <1>28, <1>29, <1>30, <1>31
     DEF Next, Exchange, Finish, Trouble, Loop, Others, Talks, Notes, Replies, Drops, Watches

-----------------------------------------------------------------------------
(* Where the taker's thread is *)

\* A substitution of the first maker takes the spare it uses off the list.
LEMMA StepCounted == TypeOK /\ Counted /\ [Next]_vars => Counted'
<1> SUFFICES ASSUME TypeOK, Counted, [Next]_vars PROVE Counted'
  OBVIOUS
<1>0. spares \in 0..Spares /\ gen \in 0..Spares /\ Spares \in Nat
  BY SizesAssumption DEF TypeOK
<1> USE <1>0
<1>1. CASE Prepare
  BY <1>1 DEF Prepare, params, wallet, chain, peers, Counted, Later
<1>2. CASE Negotiate
  BY <1>2 DEF Negotiate, HasSpare, params, wallet, chain, peers, Counted, Later
<1>3. CASE StartSwap
  BY <1>3 DEF StartSwap, ExchangeStart, params, chain, peers, Counted, Later
<1>4. CASE Talks
  BY <1>4, TalksFrame DEF Counted, Later
<1>5. CASE Notes
  BY <1>5, NotesFrame DEF Counted, Later
<1>6. CASE Replies
  BY <1>6, RepliesFrame DEF Counted, Later
<1>7. CASE SaveBeforeBroadcast
  BY <1>7 DEF SaveBeforeBroadcast, params, memory, tracker, chain, peers, Counted, Later
<1>8. CASE SendFunding
  BY <1>8 DEF SendFunding, params, memory, wallet, tracker, peers, Counted, Later
<1>9. CASE NextMakerFails
  BY <1>9 DEF NextMakerFails, params, wallet, tracker, chain, peers, Counted, Later
<1>10. CASE Handover
  BY <1>10 DEF Handover, params, wallet, tracker, chain, Counted, Later
<1>11. CASE HandoverFails
  BY <1>11 DEF HandoverFails, params, memory, wallet, tracker, chain, FailAndRecover,
  Forget, Counted, Later
<1>12. CASE Settle
  BY <1>12 DEF Settle, params, memory, tracker, peers, Counted, Later
<1>13. CASE Complete
  BY <1>13 DEF Complete, params, chain, peers, Counted, Later
<1>14. CASE ExchangeFails
  BY <1>14 DEF ExchangeFails, FailAndRecover, Forget, params, chain, Counted, Later
<1>15. CASE SettleNone
  BY <1>15 DEF SettleNone, FailAndRecover, peers, Forget, params, chain, Counted, Later
<1>16. CASE SubstituteFirst
  BY <1>16 DEF SubstituteFirst, HasSpare, ExchangeStart, params, tracker, chain, peers,
  Counted, Later
<1>17. CASE SettleFails
  BY <1>17 DEF SettleFails, params, memory, wallet, tracker, chain, peers, Counted, Later
<1>18. CASE LoopClaims
  BY <1>18 DEF LoopClaims, loopFrame, params, memory, peers, Counted, Later
<1>19. CASE LoopCleansUp
  BY <1>19 DEF LoopCleansUp, loopFrame, params, memory, peers, Counted, Later
<1>20. ASSUME NEW S \in SUBSET Coins, LoopRefunds(S) PROVE Counted'
  BY <1>20 DEF LoopRefunds, loopFrame, params, memory, peers, Counted, Later
<1>21. CASE Restart
  BY <1>21 DEF Restart, params, memory, peers, Counted, Later
<1>22. CASE SubstituteFails
  BY <1>22 DEF SubstituteFails, HasSpare, Forget, params, chain, peers, Counted, Later
<1>23. CASE Abort
  BY <1>23 DEF Abort, Forget, params, wallet, chain, peers, Counted, Later
<1>24. CASE Crash
  BY <1>24 DEF Crash, Exit, tracker, Forget, params, wallet, chain, peers, Counted, Later
<1>25. CASE Shutdown
  BY <1>25 DEF Shutdown, Exit, Forget, params, wallet, chain, peers, Counted, Later
<1>26. CASE Watches
  BY <1>26, WatchesFrame DEF Counted, Later
<1>27. CASE World
  BY <1>27, WorldFrame DEF Counted, Later
<1>28. CASE UNCHANGED vars
  BY <1>28 DEF vars, params, memory, wallet, tracker, chain, peers, Counted, Later
<1>. QED
  BY <1>1, <1>2, <1>3, <1>4, <1>5, <1>6, <1>7, <1>8, <1>9, <1>10, <1>11, <1>12, <1>13,
  <1>14, <1>15, <1>16, <1>17, <1>18, <1>19, <1>20, <1>21, <1>22, <1>23, <1>24, <1>25,
  <1>26, <1>27, <1>28
     DEF Next, Exchange, Finish, Trouble, Loop, Others, Talks, Notes, Replies, Watches, World

\* The phase follows the steps of start_swap and finalize_swap, in both protocols.
LEMMA StepPhaseOf == ByProtocol /\ PhaseOf /\ FirstHop /\ [Next]_vars => PhaseOf'
<1> SUFFICES ASSUME ByProtocol, PhaseOf, FirstHop, [Next]_vars PROVE PhaseOf'
  OBVIOUS
<1>1. CASE Prepare
  BY <1>1 DEF Prepare, params, wallet, chain, peers, PhaseOf, Legacy, Later, Resting
<1>2. CASE Negotiate
  BY <1>2 DEF Negotiate, params, wallet, chain, peers, PhaseOf, Legacy, Later, Resting
<1>3. CASE StartSwap
  BY <1>3 DEF StartSwap, Legacy, ExchangeStart, params, chain, peers, PhaseOf, Later,
  Resting
<1>4. CASE SenderSigs
  BY <1>4 DEF SenderSigs, Advance, peers, params, wallet, tracker, chain, FirstHop,
  ExchangeSteps, Unfunded, PhaseOf, Legacy, Later, Resting
<1>5. CASE ConfirmFunding
  BY <1>5 DEF ConfirmFunding, Advance, peers, params, wallet, tracker, chain, PhaseOf,
  Legacy, Later, Resting
<1>6. CASE ProofOfFunding
  BY <1>6 DEF ProofOfFunding, Advance, peers, params, wallet, tracker, chain, PhaseOf,
  Legacy, Later, Resting
<1>7. CASE NextSigs
  BY <1>7 DEF NextSigs, Advance, peers, params, wallet, tracker, chain, PhaseOf, Legacy,
  Later, Resting
<1>8. CASE PrevSigs
  BY <1>8 DEF PrevSigs, Advance, peers, params, wallet, tracker, chain, PhaseOf, Legacy,
  Later, Resting
<1>9. CASE CombinedSigs
  BY <1>9 DEF CombinedSigs, Advance, params, wallet, tracker, chain, PhaseOf, Legacy,
  Later, Resting
<1>10. CASE ContractData
  BY <1>10 DEF ContractData, Advance, params, wallet, tracker, chain, PhaseOf, Legacy,
  Later, Resting
<1>11. CASE MakerFunding
  BY <1>11 DEF MakerFunding, NextHop, Advance, peers, params, wallet, tracker, chain,
  PhaseOf, Legacy, Later, Resting
<1>12. CASE MakerContract
  BY <1>12 DEF MakerContract, NextHop, Advance, peers, params, wallet, tracker, chain,
  PhaseOf, Legacy, Later, Resting
<1>13. CASE CreateIncoming
  BY <1>13 DEF CreateIncoming, Advance, peers, params, wallet, tracker, chain, PhaseOf,
  Legacy, Later, Resting
<1>14. CASE Announce
  BY <1>14 DEF Announce, params, wallet, chain, peers, ByProtocol, PhaseOf, Legacy, Later,
  Resting
<1>15. CASE AllSent
  BY <1>15 DEF AllSent, params, wallet, chain, peers, PhaseOf, Legacy, Later, Resting
<1>16. CASE ContractsExchanged
  BY <1>16 DEF ContractsExchanged, params, wallet, chain, peers, PhaseOf, Legacy, Later,
  Resting
<1>17. CASE BeginFinalize
  BY <1>17 DEF BeginFinalize, params, wallet, chain, peers, PhaseOf, Legacy, Later, Resting
<1>18. CASE Forwarded
  BY <1>18 DEF Forwarded, params, wallet, chain, peers, PhaseOf, Legacy, Later, Resting
<1>19. CASE ContractReply
  BY <1>19 DEF ContractReply, params, tracker, chain, peers, PhaseOf, Legacy, Later,
  Resting
<1>20. CASE LastSigs
  BY <1>20 DEF LastSigs, params, tracker, chain, peers, PhaseOf, Legacy, Later, Resting
<1>21. CASE KeepKeys
  BY <1>21 DEF KeepKeys, params, memory, tracker, chain, peers, PhaseOf, Legacy, Later,
  Resting
<1>22. CASE SaveBeforeBroadcast
  BY <1>22 DEF SaveBeforeBroadcast, params, memory, tracker, chain, peers, ByProtocol,
  PhaseOf, Legacy, Later, Resting
<1>23. CASE SendFunding
  BY <1>23 DEF SendFunding, params, memory, wallet, tracker, peers, PhaseOf, Legacy, Later,
  Resting
<1>24. CASE NextMakerFails
  BY <1>24 DEF NextMakerFails, params, wallet, tracker, chain, peers, PhaseOf, Legacy,
  Later, Resting
<1>25. CASE Handover
  BY <1>25 DEF Handover, params, wallet, tracker, chain, PhaseOf, Legacy, Later, Resting
<1>26. CASE HandoverFails
  BY <1>26 DEF HandoverFails, params, memory, wallet, tracker, chain, FailAndRecover,
  Forget, PhaseOf, Legacy, Later, Resting
<1>27. CASE Settle
  BY <1>27 DEF Settle, params, memory, tracker, peers, PhaseOf, Legacy, Later, Resting
<1>28. CASE Complete
  BY <1>28 DEF Complete, params, chain, peers, PhaseOf, Legacy, Later, Resting
<1>29. CASE ExchangeFails
  BY <1>29 DEF ExchangeFails, FailAndRecover, Forget, params, chain, PhaseOf, Legacy,
  Later, Resting
<1>30. CASE SettleNone
  BY <1>30 DEF SettleNone, FailAndRecover, peers, Forget, params, chain, PhaseOf, Legacy,
  Later, Resting
<1>31. CASE SubstituteFirst
  BY <1>31 DEF SubstituteFirst, Legacy, ExchangeStart, params, tracker, chain, peers,
  ExchangeSteps, Unfunded, PhaseOf, Later, Resting
<1>32. CASE SettleFails
  BY <1>32 DEF SettleFails, params, memory, wallet, tracker, chain, peers, PhaseOf, Legacy,
  Later, Resting
<1>33. CASE LoopClaims
  BY <1>33 DEF LoopClaims, loopFrame, params, memory, peers, PhaseOf, Legacy, Later,
  Resting
<1>34. CASE LoopCleansUp
  BY <1>34 DEF LoopCleansUp, loopFrame, params, memory, peers, PhaseOf, Legacy, Later,
  Resting
<1>35. ASSUME NEW S \in SUBSET Coins, LoopRefunds(S) PROVE PhaseOf'
  BY <1>35 DEF LoopRefunds, loopFrame, params, memory, peers, PhaseOf, Legacy, Later,
  Resting
<1>36. CASE Restart
  BY <1>36 DEF Restart, params, memory, peers, PhaseOf, Legacy, Later, Resting
<1>37. CASE Drops
  BY <1>37, DropsFrame DEF PhaseOf, Legacy, Later, Resting
<1>38. CASE Watches
  BY <1>38, WatchesFrame DEF PhaseOf, Legacy, Later, Resting
<1>39. CASE World
  BY <1>39, WorldFrame DEF PhaseOf, Legacy, Later, Resting
<1>40. CASE UNCHANGED vars
  BY <1>40 DEF vars, params, memory, wallet, tracker, chain, peers, PhaseOf, Legacy, Later,
  Resting
<1>. QED
  BY <1>1, <1>2, <1>3, <1>4, <1>5, <1>6, <1>7, <1>8, <1>9, <1>10, <1>11, <1>12, <1>13,
  <1>14, <1>15, <1>16, <1>17, <1>18, <1>19, <1>20, <1>21, <1>22, <1>23, <1>24, <1>25,
  <1>26, <1>27, <1>28, <1>29, <1>30, <1>31, <1>32, <1>33, <1>34, <1>35, <1>36, <1>37,
  <1>38, <1>39, <1>40
     DEF Next, Exchange, Finish, Trouble, Loop, Others, Drops, Watches, World

\* A Legacy swap never gets into a step of the Taproot exchange, nor the other way round.
LEMMA StepByProtocol == ByProtocol /\ [Next]_vars => ByProtocol'
<1> SUFFICES ASSUME ByProtocol, [Next]_vars PROVE ByProtocol'
  OBVIOUS
<1>1. CASE Prepare
  BY <1>1 DEF Prepare, params, wallet, chain, peers, ByProtocol, Legacy, Resting
<1>2. CASE Negotiate
  BY <1>2 DEF Negotiate, params, wallet, chain, peers, ByProtocol, Legacy, Resting
<1>3. CASE StartSwap
  BY <1>3 DEF StartSwap, Legacy, ExchangeStart, params, chain, peers, ByProtocol, Resting
<1>4. CASE SenderSigs
  BY <1>4 DEF SenderSigs, Advance, peers, params, wallet, tracker, chain, ByProtocol,
  Legacy, Resting
<1>5. CASE ConfirmFunding
  BY <1>5 DEF ConfirmFunding, Advance, peers, params, wallet, tracker, chain, ByProtocol,
  Legacy, Resting
<1>6. CASE ProofOfFunding
  BY <1>6 DEF ProofOfFunding, Advance, peers, params, wallet, tracker, chain, ByProtocol,
  Legacy, Resting
<1>7. CASE NextSigs
  BY <1>7 DEF NextSigs, Advance, peers, params, wallet, tracker, chain, ByProtocol, Legacy,
  Resting
<1>8. CASE PrevSigs
  BY <1>8 DEF PrevSigs, Advance, peers, params, wallet, tracker, chain, ByProtocol, Legacy,
  Resting
<1>9. CASE CombinedSigs
  BY <1>9 DEF CombinedSigs, Advance, params, wallet, tracker, chain, ByProtocol, Legacy,
  Resting
<1>10. CASE ContractData
  BY <1>10 DEF ContractData, Advance, params, wallet, tracker, chain, ByProtocol, Legacy,
  Resting
<1>11. CASE MakerFunding
  BY <1>11 DEF MakerFunding, NextHop, Advance, peers, params, wallet, tracker, chain,
  ByProtocol, Legacy, Resting
<1>12. CASE MakerContract
  BY <1>12 DEF MakerContract, NextHop, Advance, peers, params, wallet, tracker, chain,
  ByProtocol, Legacy, Resting
<1>13. CASE CreateIncoming
  BY <1>13 DEF CreateIncoming, Advance, peers, params, wallet, tracker, chain, ByProtocol,
  Legacy, Resting
<1>14. CASE Announce
  BY <1>14 DEF Announce, params, wallet, chain, peers, ByProtocol, Legacy, Resting
<1>15. CASE AllSent
  BY <1>15 DEF AllSent, params, wallet, chain, peers, ByProtocol, Legacy, Resting
<1>16. CASE ContractsExchanged
  BY <1>16 DEF ContractsExchanged, params, wallet, chain, peers, ByProtocol, Legacy,
  Resting
<1>17. CASE BeginFinalize
  BY <1>17 DEF BeginFinalize, params, wallet, chain, peers, ByProtocol, Legacy, Resting
<1>18. CASE Forwarded
  BY <1>18 DEF Forwarded, params, wallet, chain, peers, ByProtocol, Legacy, Resting
<1>19. CASE ContractReply
  BY <1>19 DEF ContractReply, params, tracker, chain, peers, ByProtocol, Legacy, Resting
<1>20. CASE LastSigs
  BY <1>20 DEF LastSigs, params, tracker, chain, peers, ByProtocol, Legacy, Resting
<1>21. CASE KeepKeys
  BY <1>21 DEF KeepKeys, params, memory, tracker, chain, peers, ByProtocol, Legacy, Resting
<1>22. CASE SaveBeforeBroadcast
  BY <1>22 DEF SaveBeforeBroadcast, params, memory, tracker, chain, peers, ByProtocol,
  Legacy, Resting
<1>23. CASE SendFunding
  BY <1>23 DEF SendFunding, params, memory, wallet, tracker, peers, ByProtocol, Legacy,
  Resting
<1>24. CASE NextMakerFails
  BY <1>24 DEF NextMakerFails, params, wallet, tracker, chain, peers, ByProtocol, Legacy,
  Resting
<1>25. CASE Handover
  BY <1>25 DEF Handover, params, wallet, tracker, chain, ByProtocol, Legacy, Resting
<1>26. CASE HandoverFails
  BY <1>26 DEF HandoverFails, params, memory, wallet, tracker, chain, FailAndRecover,
  Forget, ByProtocol, Legacy, Resting
<1>27. CASE Settle
  BY <1>27 DEF Settle, params, memory, tracker, peers, ByProtocol, Legacy, Resting
<1>28. CASE Complete
  BY <1>28 DEF Complete, params, chain, peers, ByProtocol, Legacy, Resting
<1>29. CASE ExchangeFails
  BY <1>29 DEF ExchangeFails, FailAndRecover, Forget, params, chain, ByProtocol, Legacy,
  Resting
<1>30. CASE SettleNone
  BY <1>30 DEF SettleNone, FailAndRecover, peers, Forget, params, chain, ByProtocol,
  Legacy, Resting
<1>31. CASE SubstituteFirst
  BY <1>31 DEF SubstituteFirst, Legacy, ExchangeStart, params, tracker, chain, peers,
  ByProtocol, Resting
<1>32. CASE SettleFails
  BY <1>32 DEF SettleFails, params, memory, wallet, tracker, chain, peers, ByProtocol,
  Legacy, Resting
<1>33. CASE LoopClaims
  BY <1>33 DEF LoopClaims, loopFrame, params, memory, peers, ByProtocol, Legacy, Resting
<1>34. CASE LoopCleansUp
  BY <1>34 DEF LoopCleansUp, loopFrame, params, memory, peers, ByProtocol, Legacy, Resting
<1>35. ASSUME NEW S \in SUBSET Coins, LoopRefunds(S) PROVE ByProtocol'
  BY <1>35 DEF LoopRefunds, loopFrame, params, memory, peers, ByProtocol, Legacy, Resting
<1>36. CASE Restart
  BY <1>36 DEF Restart, params, memory, peers, ByProtocol, Legacy, Resting
<1>37. CASE Drops
  BY <1>37, DropsFrame DEF ByProtocol, Legacy, Resting
<1>38. CASE Watches
  BY <1>38, WatchesFrame DEF ByProtocol, Legacy, Resting
<1>39. CASE World
  BY <1>39, WorldFrame DEF ByProtocol, Legacy, Resting
<1>40. CASE UNCHANGED vars
  BY <1>40 DEF vars, params, memory, wallet, tracker, chain, peers, ByProtocol, Legacy,
  Resting
<1>. QED
  BY <1>1, <1>2, <1>3, <1>4, <1>5, <1>6, <1>7, <1>8, <1>9, <1>10, <1>11, <1>12, <1>13,
  <1>14, <1>15, <1>16, <1>17, <1>18, <1>19, <1>20, <1>21, <1>22, <1>23, <1>24, <1>25,
  <1>26, <1>27, <1>28, <1>29, <1>30, <1>31, <1>32, <1>33, <1>34, <1>35, <1>36, <1>37,
  <1>38, <1>39, <1>40
     DEF Next, Exchange, Finish, Trouble, Loop, Others, Drops, Watches, World

\* The exchange goes to the second maker only after FundsBroadcast is recorded.
LEMMA StepFirstHop == PhaseOf /\ FirstHop /\ [Next]_vars => FirstHop'
<1> SUFFICES ASSUME PhaseOf, FirstHop, [Next]_vars PROVE FirstHop'
  OBVIOUS
<1>1. CASE Prepare
  BY <1>1 DEF Prepare, params, wallet, chain, peers, FirstHop, PhaseOf, ExchangeSteps,
  Unfunded, Legacy, Later, Resting
<1>2. CASE Negotiate
  BY <1>2 DEF Negotiate, params, wallet, chain, peers, FirstHop, PhaseOf, ExchangeSteps,
  Unfunded, Legacy, Later, Resting
<1>3. CASE StartSwap
  BY <1>3 DEF StartSwap, Legacy, ExchangeStart, params, chain, peers, FirstHop, PhaseOf,
  ExchangeSteps, Unfunded, Later, Resting
<1>4. CASE SenderSigs
  BY <1>4 DEF SenderSigs, Advance, peers, params, wallet, tracker, chain, FirstHop,
  PhaseOf, ExchangeSteps, Unfunded, Legacy, Later, Resting
<1>5. CASE ConfirmFunding
  BY <1>5 DEF ConfirmFunding, Advance, peers, params, wallet, tracker, chain, FirstHop,
  PhaseOf, ExchangeSteps, Unfunded, Legacy, Later, Resting
<1>6. CASE ProofOfFunding
  BY <1>6 DEF ProofOfFunding, Advance, peers, params, wallet, tracker, chain, FirstHop,
  PhaseOf, ExchangeSteps, Unfunded, Legacy, Later, Resting
<1>7. CASE NextSigs
  BY <1>7 DEF NextSigs, Advance, peers, params, wallet, tracker, chain, FirstHop, PhaseOf,
  ExchangeSteps, Unfunded, Legacy, Later, Resting
<1>8. CASE PrevSigs
  BY <1>8 DEF PrevSigs, Advance, peers, params, wallet, tracker, chain, FirstHop, PhaseOf,
  ExchangeSteps, Unfunded, Legacy, Later, Resting
<1>9. CASE CombinedSigs
  BY <1>9 DEF CombinedSigs, Advance, params, wallet, tracker, chain, FirstHop, PhaseOf,
  ExchangeSteps, Unfunded, Legacy, Later, Resting
<1>10. CASE ContractData
  BY <1>10 DEF ContractData, Advance, params, wallet, tracker, chain, FirstHop, PhaseOf,
  ExchangeSteps, Unfunded, Legacy, Later, Resting
<1>11. CASE MakerFunding
  BY <1>11 DEF MakerFunding, NextHop, Advance, peers, params, wallet, tracker, chain,
  FirstHop, PhaseOf, ExchangeSteps, Unfunded, Legacy, Later, Resting
<1>12. CASE MakerContract
  BY <1>12 DEF MakerContract, NextHop, Advance, peers, params, wallet, tracker, chain,
  FirstHop, PhaseOf, ExchangeSteps, Unfunded, Legacy, Later, Resting
<1>13. CASE CreateIncoming
  BY <1>13 DEF CreateIncoming, Advance, peers, params, wallet, tracker, chain, FirstHop,
  PhaseOf, ExchangeSteps, Unfunded, Legacy, Later, Resting
<1>14. CASE Announce
  BY <1>14 DEF Announce, params, wallet, chain, peers, FirstHop, PhaseOf, ExchangeSteps,
  Unfunded, Legacy, Later, Resting
<1>15. CASE AllSent
  BY <1>15 DEF AllSent, params, wallet, chain, peers, FirstHop, PhaseOf, ExchangeSteps,
  Unfunded, Legacy, Later, Resting
<1>16. CASE ContractsExchanged
  BY <1>16 DEF ContractsExchanged, params, wallet, chain, peers, FirstHop, PhaseOf,
  ExchangeSteps, Unfunded, Legacy, Later, Resting
<1>17. CASE BeginFinalize
  BY <1>17 DEF BeginFinalize, params, wallet, chain, peers, FirstHop, PhaseOf,
  ExchangeSteps, Unfunded, Legacy, Later, Resting
<1>18. CASE Forwarded
  BY <1>18 DEF Forwarded, params, wallet, chain, peers, FirstHop, PhaseOf, ExchangeSteps,
  Unfunded, Legacy, Later, Resting
<1>19. CASE ContractReply
  BY <1>19 DEF ContractReply, params, tracker, chain, peers, FirstHop, PhaseOf,
  ExchangeSteps, Unfunded, Legacy, Later, Resting
<1>20. CASE LastSigs
  BY <1>20 DEF LastSigs, params, tracker, chain, peers, FirstHop, PhaseOf, ExchangeSteps,
  Unfunded, Legacy, Later, Resting
<1>21. CASE KeepKeys
  BY <1>21 DEF KeepKeys, params, memory, tracker, chain, peers, FirstHop, PhaseOf,
  ExchangeSteps, Unfunded, Legacy, Later, Resting
<1>22. CASE SaveBeforeBroadcast
  BY <1>22 DEF SaveBeforeBroadcast, params, memory, tracker, chain, peers, FirstHop,
  PhaseOf, ExchangeSteps, Unfunded, Legacy, Later, Resting
<1>23. CASE SendFunding
  BY <1>23 DEF SendFunding, params, memory, wallet, tracker, peers, FirstHop, PhaseOf,
  ExchangeSteps, Unfunded, Legacy, Later, Resting
<1>24. CASE NextMakerFails
  BY <1>24 DEF NextMakerFails, params, wallet, tracker, chain, peers, FirstHop, PhaseOf,
  ExchangeSteps, Unfunded, Legacy, Later, Resting
<1>25. CASE Handover
  BY <1>25 DEF Handover, params, wallet, tracker, chain, FirstHop, PhaseOf, ExchangeSteps,
  Unfunded, Legacy, Later, Resting
<1>26. CASE HandoverFails
  BY <1>26 DEF HandoverFails, params, memory, wallet, tracker, chain, FailAndRecover,
  Forget, FirstHop, PhaseOf, ExchangeSteps, Unfunded, Legacy, Later, Resting
<1>27. CASE Settle
  BY <1>27 DEF Settle, params, memory, tracker, peers, FirstHop, PhaseOf, ExchangeSteps,
  Unfunded, Legacy, Later, Resting
<1>28. CASE Complete
  BY <1>28 DEF Complete, params, chain, peers, FirstHop, PhaseOf, ExchangeSteps, Unfunded,
  Legacy, Later, Resting
<1>29. CASE ExchangeFails
  BY <1>29 DEF ExchangeFails, FailAndRecover, Forget, params, chain, FirstHop, PhaseOf,
  ExchangeSteps, Unfunded, Legacy, Later, Resting
<1>30. CASE SettleNone
  BY <1>30 DEF SettleNone, FailAndRecover, peers, Forget, params, chain, FirstHop, PhaseOf,
  ExchangeSteps, Unfunded, Legacy, Later, Resting
<1>31. CASE SubstituteFirst
  BY <1>31 DEF SubstituteFirst, Legacy, ExchangeStart, params, tracker, chain, peers,
  FirstHop, PhaseOf, ExchangeSteps, Unfunded, Later, Resting
<1>32. CASE SettleFails
  BY <1>32 DEF SettleFails, params, memory, wallet, tracker, chain, peers, FirstHop,
  PhaseOf, ExchangeSteps, Unfunded, Legacy, Later, Resting
<1>33. CASE LoopClaims
  BY <1>33 DEF LoopClaims, loopFrame, params, memory, peers, FirstHop, PhaseOf,
  ExchangeSteps, Unfunded, Legacy, Later, Resting
<1>34. CASE LoopCleansUp
  BY <1>34 DEF LoopCleansUp, loopFrame, params, memory, peers, FirstHop, PhaseOf,
  ExchangeSteps, Unfunded, Legacy, Later, Resting
<1>35. ASSUME NEW S \in SUBSET Coins, LoopRefunds(S) PROVE FirstHop'
  BY <1>35 DEF LoopRefunds, loopFrame, params, memory, peers, FirstHop, PhaseOf,
  ExchangeSteps, Unfunded, Legacy, Later, Resting
<1>36. CASE Restart
  BY <1>36 DEF Restart, params, memory, peers, FirstHop, PhaseOf, ExchangeSteps, Unfunded,
  Legacy, Later, Resting
<1>37. CASE Drops
  BY <1>37, DropsFrame DEF FirstHop, PhaseOf, ExchangeSteps, Unfunded, Legacy, Later,
  Resting
<1>38. CASE Watches
  BY <1>38, WatchesFrame DEF FirstHop, PhaseOf, ExchangeSteps, Unfunded, Legacy, Later,
  Resting
<1>39. CASE World
  BY <1>39, WorldFrame DEF FirstHop, PhaseOf, ExchangeSteps, Unfunded, Legacy, Later,
  Resting
<1>40. CASE UNCHANGED vars
  BY <1>40 DEF vars, params, memory, wallet, tracker, chain, peers, FirstHop, PhaseOf,
  ExchangeSteps, Unfunded, Legacy, Later, Resting
<1>. QED
  BY <1>1, <1>2, <1>3, <1>4, <1>5, <1>6, <1>7, <1>8, <1>9, <1>10, <1>11, <1>12, <1>13,
  <1>14, <1>15, <1>16, <1>17, <1>18, <1>19, <1>20, <1>21, <1>22, <1>23, <1>24, <1>25,
  <1>26, <1>27, <1>28, <1>29, <1>30, <1>31, <1>32, <1>33, <1>34, <1>35, <1>36, <1>37,
  <1>38, <1>39, <1>40
     DEF Next, Exchange, Finish, Trouble, Loop, Others, Drops, Watches, World

\* From exchange_req_sender_sigs on, a Legacy swap's coins in memory are signed.
LEMMA StepSigned == ByProtocol /\ PhaseOf /\ Signed /\ [Next]_vars => Signed'
<1> SUFFICES ASSUME ByProtocol, PhaseOf, Signed, [Next]_vars PROVE Signed'
  OBVIOUS
<1>1. CASE Prepare
  BY <1>1 DEF Prepare, params, wallet, chain, peers, Signed, PhaseOf, Legacy, Later, Ends,
  Resting
<1>2. CASE Negotiate
  BY <1>2 DEF Negotiate, params, wallet, chain, peers, Signed, PhaseOf, Legacy, Later,
  Ends, Resting
<1>3. CASE StartSwap
  BY <1>3 DEF StartSwap, Legacy, ExchangeStart, params, chain, peers, Signed, PhaseOf,
  Later, Ends, Resting
<1>4. CASE SenderSigs
  BY <1>4 DEF SenderSigs, Advance, peers, params, wallet, tracker, chain, Signed, PhaseOf,
  Legacy, Later, Ends, Resting
<1>5. CASE ConfirmFunding
  BY <1>5 DEF ConfirmFunding, Advance, peers, params, wallet, tracker, chain, Signed,
  PhaseOf, Legacy, Later, Ends, Resting
<1>6. CASE ProofOfFunding
  BY <1>6 DEF ProofOfFunding, Advance, peers, params, wallet, tracker, chain, Signed,
  PhaseOf, Legacy, Later, Ends, Resting
<1>7. CASE NextSigs
  BY <1>7 DEF NextSigs, Advance, peers, params, wallet, tracker, chain, Signed, PhaseOf,
  Legacy, Later, Ends, Resting
<1>8. CASE PrevSigs
  BY <1>8 DEF PrevSigs, Advance, peers, params, wallet, tracker, chain, Signed, PhaseOf,
  Legacy, Later, Ends, Resting
<1>9. CASE CombinedSigs
  BY <1>9 DEF CombinedSigs, Advance, params, wallet, tracker, chain, Signed, PhaseOf,
  Legacy, Later, Ends, Resting
<1>10. CASE ContractData
  BY <1>10 DEF ContractData, Advance, params, wallet, tracker, chain, Signed, PhaseOf,
  Legacy, Later, Ends, Resting
<1>11. CASE MakerFunding
  BY <1>11 DEF MakerFunding, NextHop, Advance, peers, params, wallet, tracker, chain,
  Signed, PhaseOf, Legacy, Later, Ends, Resting
<1>12. CASE MakerContract
  BY <1>12 DEF MakerContract, NextHop, Advance, peers, params, wallet, tracker, chain,
  Signed, PhaseOf, Legacy, Later, Ends, Resting
<1>13. CASE CreateIncoming
  BY <1>13 DEF CreateIncoming, Advance, peers, params, wallet, tracker, chain, Signed,
  PhaseOf, Legacy, Later, Ends, Resting
<1>14. CASE Announce
  BY <1>14 DEF Announce, params, wallet, chain, peers, ByProtocol, Signed, PhaseOf, Legacy,
  Later, Ends, Resting
<1>15. CASE AllSent
  BY <1>15 DEF AllSent, params, wallet, chain, peers, Signed, PhaseOf, Legacy, Later, Ends,
  Resting
<1>16. CASE ContractsExchanged
  BY <1>16 DEF ContractsExchanged, params, wallet, chain, peers, Signed, PhaseOf, Legacy,
  Later, Ends, Resting
<1>17. CASE BeginFinalize
  BY <1>17 DEF BeginFinalize, params, wallet, chain, peers, Signed, PhaseOf, Legacy, Later,
  Ends, Resting
<1>18. CASE Forwarded
  BY <1>18 DEF Forwarded, params, wallet, chain, peers, Signed, PhaseOf, Legacy, Later,
  Ends, Resting
<1>19. CASE ContractReply
  BY <1>19 DEF ContractReply, params, tracker, chain, peers, Signed, PhaseOf, Legacy,
  Later, Ends, Resting
<1>20. CASE LastSigs
  BY <1>20 DEF LastSigs, params, tracker, chain, peers, Signed, PhaseOf, Legacy, Later,
  Ends, Resting
<1>21. CASE KeepKeys
  BY <1>21 DEF KeepKeys, params, memory, tracker, chain, peers, Signed, PhaseOf, Legacy,
  Later, Ends, Resting
<1>22. CASE SaveBeforeBroadcast
  BY <1>22 DEF SaveBeforeBroadcast, params, memory, tracker, chain, peers, Signed, PhaseOf,
  Legacy, Later, Ends, Resting
<1>23. CASE SendFunding
  BY <1>23 DEF SendFunding, params, memory, wallet, tracker, peers, Signed, PhaseOf,
  Legacy, Later, Ends, Resting
<1>24. CASE NextMakerFails
  BY <1>24 DEF NextMakerFails, params, wallet, tracker, chain, peers, Signed, PhaseOf,
  Legacy, Later, Ends, Resting
<1>25. CASE Handover
  BY <1>25 DEF Handover, params, wallet, tracker, chain, Signed, PhaseOf, Legacy, Later,
  Ends, Resting
<1>26. CASE HandoverFails
  BY <1>26, SMTT(20) DEF HandoverFails, params, memory, wallet, tracker, chain, FailAndRecover,
  Forget, Signed, PhaseOf, Legacy, Later, Ends, Resting
<1>27. CASE Settle
  BY <1>27 DEF Settle, params, memory, tracker, peers, Signed, PhaseOf, Legacy, Later,
  Ends, Resting
<1>28. CASE Complete
  BY <1>28 DEF Complete, params, chain, peers, Signed, PhaseOf, Legacy, Later, Ends,
  Resting
<1>29. CASE ExchangeFails
  BY <1>29 DEF ExchangeFails, FailAndRecover, Forget, params, chain, Signed, PhaseOf,
  Legacy, Later, Ends, Resting
<1>30. CASE SettleNone
  BY <1>30 DEF SettleNone, FailAndRecover, peers, Forget, params, chain, Signed, PhaseOf,
  Legacy, Later, Ends, Resting
<1>31. CASE SubstituteFirst
  BY <1>31 DEF SubstituteFirst, Legacy, ExchangeStart, params, tracker, chain, peers,
  ExchangeSteps, Unfunded, Signed, PhaseOf, Later, Ends, Resting
<1>32. CASE SettleFails
  BY <1>32 DEF SettleFails, params, memory, wallet, tracker, chain, peers, Signed, PhaseOf,
  Legacy, Later, Ends, Resting
<1>33. CASE LoopClaims
  BY <1>33 DEF LoopClaims, loopFrame, params, memory, peers, Signed, PhaseOf, Legacy,
  Later, Ends, Resting
<1>34. CASE LoopCleansUp
  BY <1>34 DEF LoopCleansUp, loopFrame, params, memory, peers, Signed, PhaseOf, Legacy,
  Later, Ends, Resting
<1>35. ASSUME NEW S \in SUBSET Coins, LoopRefunds(S) PROVE Signed'
  BY <1>35 DEF LoopRefunds, loopFrame, params, memory, peers, Signed, PhaseOf, Legacy,
  Later, Ends, Resting
<1>36. CASE Restart
  BY <1>36 DEF Restart, params, memory, peers, Signed, PhaseOf, Legacy, Later, Ends,
  Resting
<1>37. CASE Drops
  BY <1>37, DropsFrame DEF Signed, PhaseOf, Legacy, Later, Ends, Resting
<1>38. CASE Watches
  BY <1>38, WatchesFrame DEF Signed, PhaseOf, Legacy, Later, Ends, Resting
<1>39. CASE World
  BY <1>39, WorldFrame DEF Signed, PhaseOf, Legacy, Later, Ends, Resting
<1>40. CASE UNCHANGED vars
  BY <1>40 DEF vars, params, memory, wallet, tracker, chain, peers, Signed, PhaseOf,
  Legacy, Later, Ends, Resting
<1>. QED
  BY <1>1, <1>2, <1>3, <1>4, <1>5, <1>6, <1>7, <1>8, <1>9, <1>10, <1>11, <1>12, <1>13,
  <1>14, <1>15, <1>16, <1>17, <1>18, <1>19, <1>20, <1>21, <1>22, <1>23, <1>24, <1>25,
  <1>26, <1>27, <1>28, <1>29, <1>30, <1>31, <1>32, <1>33, <1>34, <1>35, <1>36, <1>37,
  <1>38, <1>39, <1>40
     DEF Next, Exchange, Finish, Trouble, Loop, Others, Drops, Watches, World

\* When finalization is past the first maker, that maker has every key it was promised.
LEMMA StepHanded == TypeOK /\ Handed /\ [Next]_vars => Handed'
<1> SUFFICES ASSUME TypeOK, Handed, [Next]_vars PROVE Handed'
  OBVIOUS
<1>0. hop \in Nat
  BY SizesAssumption DEF TypeOK
<1> USE <1>0
<1>1. CASE Prepare
  BY <1>1 DEF Prepare, params, wallet, chain, peers, Handed, Current, Later, Resting
<1>2. CASE Negotiate
  BY <1>2 DEF Negotiate, params, wallet, chain, peers, Handed, Current, Later, Resting
<1>3. CASE StartSwap
  BY <1>3 DEF StartSwap, Legacy, ExchangeStart, params, chain, peers, Handed, Current,
  Later, Resting
<1>4. CASE Talks
  BY <1>4, TalksFrame DEF Handed, Current, Later, Resting
<1>5. CASE Announce
  BY <1>5 DEF Announce, params, wallet, chain, peers, Handed, Current, Later, Resting
<1>6. CASE AllSent
  BY <1>6 DEF AllSent, params, wallet, chain, peers, Handed, Current, Later, Resting
<1>7. CASE ContractsExchanged
  BY <1>7 DEF ContractsExchanged, params, wallet, chain, peers, Handed, Current, Later,
  Resting
<1>8. CASE BeginFinalize
  BY <1>8 DEF BeginFinalize, params, wallet, chain, peers, Handed, Current, Later, Resting
<1>9. CASE Forwarded
  BY <1>9 DEF Forwarded, params, wallet, chain, peers, Handed, Current, Later, Resting
<1>10. CASE ContractReply
  BY <1>10 DEF ContractReply, params, tracker, chain, peers, Handed, Current, Later,
  Resting
<1>11. CASE LastSigs
  BY <1>11 DEF LastSigs, params, tracker, chain, peers, Handed, Current, Later, Resting
<1>12. CASE KeepKeys
  BY <1>12 DEF KeepKeys, params, memory, tracker, chain, peers, Handed, Current, Later,
  Resting
<1>13. CASE SaveBeforeBroadcast
  BY <1>13 DEF SaveBeforeBroadcast, params, memory, tracker, chain, peers, Handed, Current,
  Later, Resting
<1>14. CASE SendFunding
  BY <1>14 DEF SendFunding, params, memory, wallet, tracker, peers, Handed, Current, Later,
  Resting
<1>15. CASE NextMakerFails
  BY <1>15 DEF NextMakerFails, params, wallet, tracker, chain, peers, Handed, Current,
  Later, Resting
<1>16. CASE Handover
  BY <1>16 DEF Handover, Sent, params, wallet, tracker, chain, Handed, Current, Later,
  Resting
<1>17. CASE HandoverFails
  BY <1>17, SMTT(20) DEF HandoverFails, Sent, params, memory, wallet, tracker, chain, FailAndRecover,
  Forget, Handed, Current, Later, Resting
<1>18. CASE Settle
  BY <1>18 DEF Settle, params, memory, tracker, peers, Handed, Current, Later, Resting
<1>19. CASE Complete
  BY <1>19 DEF Complete, params, chain, peers, Handed, Current, Later, Resting
<1>20. CASE ExchangeFails
  BY <1>20 DEF ExchangeFails, FailAndRecover, Forget, params, chain, Handed, Current,
  Later, Resting
<1>21. CASE SettleNone
  BY <1>21 DEF SettleNone, FailAndRecover, peers, Forget, params, chain, Handed, Current,
  Later, Resting
<1>22. CASE SubstituteFirst
  BY <1>22 DEF SubstituteFirst, Legacy, ExchangeStart, params, tracker, chain, peers,
  Handed, Current, Later, Resting
<1>23. CASE SettleFails
  BY <1>23 DEF SettleFails, params, memory, wallet, tracker, chain, peers, Handed, Current,
  Later, Resting
<1>24. CASE LoopClaims
  BY <1>24 DEF LoopClaims, loopFrame, params, memory, peers, Handed, Current, Later,
  Resting
<1>25. CASE LoopCleansUp
  BY <1>25 DEF LoopCleansUp, loopFrame, params, memory, peers, Handed, Current, Later,
  Resting
<1>26. ASSUME NEW S \in SUBSET Coins, LoopRefunds(S) PROVE Handed'
  BY <1>26 DEF LoopRefunds, loopFrame, params, memory, peers, Handed, Current, Later,
  Resting
<1>27. CASE Restart
  BY <1>27 DEF Restart, params, memory, peers, Handed, Current, Later, Resting
<1>28. CASE Drops
  BY <1>28, DropsFrame DEF Handed, Current, Later, Resting
<1>29. CASE Watches
  BY <1>29, WatchesFrame DEF Handed, Current, Later, Resting
<1>30. CASE World
  BY <1>30, WorldFrame DEF Handed, Current, Later, Resting
<1>31. CASE UNCHANGED vars
  BY <1>31 DEF vars, params, memory, wallet, tracker, chain, peers, Handed, Current, Later,
  Resting
<1>. QED
  BY <1>1, <1>2, <1>3, <1>4, <1>5, <1>6, <1>7, <1>8, <1>9, <1>10, <1>11, <1>12, <1>13,
  <1>14, <1>15, <1>16, <1>17, <1>18, <1>19, <1>20, <1>21, <1>22, <1>23, <1>24, <1>25,
  <1>26, <1>27, <1>28, <1>29, <1>30, <1>31
     DEF Next, Exchange, Finish, Trouble, Loop, Others, Talks, Drops, Watches, World

\* A swap is completed only after its sweep.
LEMMA StepPaid == Paid /\ [Next]_vars => Paid'
<1> SUFFICES ASSUME Paid, [Next]_vars PROVE Paid'
  OBVIOUS
<1>1. CASE Prepare
  BY <1>1 DEF Prepare, params, wallet, chain, peers, Paid, Later, Resting
<1>2. CASE Negotiate
  BY <1>2 DEF Negotiate, params, wallet, chain, peers, Paid, Later, Resting
<1>3. CASE StartSwap
  BY <1>3 DEF StartSwap, Legacy, ExchangeStart, params, chain, peers, Paid, Later, Resting
<1>4. CASE Talks
  BY <1>4, TalksFrame DEF Paid, Later, Resting
<1>5. CASE Announce
  BY <1>5 DEF Announce, params, wallet, chain, peers, Paid, Later, Resting
<1>6. CASE AllSent
  BY <1>6 DEF AllSent, params, wallet, chain, peers, Paid, Later, Resting
<1>7. CASE ContractsExchanged
  BY <1>7 DEF ContractsExchanged, params, wallet, chain, peers, Paid, Later, Resting
<1>8. CASE BeginFinalize
  BY <1>8 DEF BeginFinalize, params, wallet, chain, peers, Paid, Later, Resting
<1>9. CASE Forwarded
  BY <1>9 DEF Forwarded, params, wallet, chain, peers, Paid, Later, Resting
<1>10. CASE ContractReply
  BY <1>10 DEF ContractReply, params, tracker, chain, peers, Paid, Later, Resting
<1>11. CASE LastSigs
  BY <1>11 DEF LastSigs, params, tracker, chain, peers, Paid, Later, Resting
<1>12. CASE KeepKeys
  BY <1>12 DEF KeepKeys, params, memory, tracker, chain, peers, Paid, Later, Resting
<1>13. CASE SaveBeforeBroadcast
  BY <1>13 DEF SaveBeforeBroadcast, params, memory, tracker, chain, peers, Paid, Later,
  Resting
<1>14. CASE SendFunding
  BY <1>14 DEF SendFunding, params, memory, wallet, tracker, peers, Paid, Later, Resting
<1>15. CASE NextMakerFails
  BY <1>15 DEF NextMakerFails, params, wallet, tracker, chain, peers, Paid, Later, Resting
<1>16. CASE Handover
  BY <1>16 DEF Handover, params, wallet, tracker, chain, Paid, Later, Resting
<1>17. CASE HandoverFails
  BY <1>17 DEF HandoverFails, params, memory, wallet, tracker, chain, FailAndRecover,
  Forget, Paid, Later, Resting
<1>18. CASE Settle
  BY <1>18 DEF Settle, Claim, params, memory, tracker, peers, Paid, Later, Resting
<1>19. CASE Complete
  BY <1>19 DEF Complete, params, chain, peers, Paid, Later, Resting
<1>20. CASE ExchangeFails
  BY <1>20 DEF ExchangeFails, FailAndRecover, Forget, params, chain, Paid, Later, Resting
<1>21. CASE SettleNone
  BY <1>21 DEF SettleNone, FailAndRecover, peers, Forget, params, chain, Paid, Later,
  Resting
<1>22. CASE SubstituteFirst
  BY <1>22 DEF SubstituteFirst, Legacy, ExchangeStart, params, tracker, chain, peers, Paid,
  Later, Resting
<1>23. CASE SettleFails
  BY <1>23 DEF SettleFails, params, memory, wallet, tracker, chain, peers, Paid, Later,
  Resting
<1>24. CASE LoopClaims
  BY <1>24 DEF LoopClaims, Claim, loopFrame, params, memory, peers, Paid, Later, Resting
<1>25. CASE LoopCleansUp
  BY <1>25 DEF LoopCleansUp, loopFrame, params, memory, peers, Paid, Later, Resting
<1>26. ASSUME NEW S \in SUBSET Coins, LoopRefunds(S) PROVE Paid'
  BY <1>26 DEF LoopRefunds, loopFrame, params, memory, peers, Paid, Later, Resting
<1>27. CASE Restart
  BY <1>27 DEF Restart, params, memory, peers, Paid, Later, Resting
<1>28. CASE Drops
  BY <1>28, DropsFrame DEF Paid, Later, Resting
<1>29. CASE Watches
  BY <1>29, WatchesFrame DEF Paid, Later, Resting
<1>30. CASE LastMakerFunds
  BY <1>30 DEF LastMakerFunds, others, params, memory, wallet, tracker, peers, Paid, Later,
  Resting
<1>31. CASE LastMakerPublishes
  BY <1>31 DEF LastMakerPublishes, others, params, memory, wallet, tracker, peers, Paid,
  Later, Resting
<1>32. CASE RipenIncoming
  BY <1>32 DEF RipenIncoming, others, params, memory, wallet, tracker, peers, Paid, Later,
  Resting
<1>33. CASE LastMakerRefunds
  BY <1>33 DEF LastMakerRefunds, others, params, memory, wallet, tracker, peers, Paid,
  Later, Resting
<1>34. ASSUME NEW e \in Coins, FirstMakerPublishes(e) PROVE Paid'
  BY <1>34 DEF FirstMakerPublishes, others, params, memory, wallet, tracker, peers, Paid,
  Later, Resting
<1>35. ASSUME NEW e \in Coins, FirstMakerTakes(e) PROVE Paid'
  BY <1>35 DEF FirstMakerTakes, others, params, memory, wallet, tracker, peers, Paid,
  Later, Resting
<1>36. ASSUME NEW e \in Coins, Ripen(e) PROVE Paid'
  BY <1>36 DEF Ripen, others, params, memory, wallet, tracker, peers, Paid, Later, Resting
<1>37. CASE UNCHANGED vars
  BY <1>37 DEF vars, params, memory, wallet, tracker, chain, peers, Paid, Later, Resting
<1>. QED
  BY <1>1, <1>2, <1>3, <1>4, <1>5, <1>6, <1>7, <1>8, <1>9, <1>10, <1>11, <1>12, <1>13,
  <1>14, <1>15, <1>16, <1>17, <1>18, <1>19, <1>20, <1>21, <1>22, <1>23, <1>24, <1>25,
  <1>26, <1>27, <1>28, <1>29, <1>30, <1>31, <1>32, <1>33, <1>34, <1>35, <1>36, <1>37
     DEF Next, Exchange, Finish, Trouble, Loop, Others, Talks, Drops, Watches

-----------------------------------------------------------------------------
(* The funding *)

\* A substitution starts a generation of which nothing is on-chain.
LEMMA FreshCurrent ==
  ASSUME TypeOK, Counted, Future, SubstituteFirst \/ SubstituteFails
  PROVE  /\ gen' \in 0..Spares
         /\ \A c \in Current' : c \in Coins /\ c[1] = gen' /\ out'[c] = "none"
<1>1. gen' = gen + 1 /\ gen + 1 \in 0..Spares /\ gen \in Nat
  BY SizesAssumption, SMTT(20) DEF SubstituteFirst, SubstituteFails, HasSpare, Counted, TypeOK
<1>2. \A c \in Current' : c \in Coins /\ c[1] = gen + 1 /\ c[1] > gen
  BY <1>1 DEF Current, Coins
<1>3. out' = out
  BY DEF SubstituteFirst, SubstituteFails, chain
<1>. QED
  BY <1>1, <1>2, <1>3 DEF Future

\* persist_failure and recover_active_swap leave a coin that can recover every live
\* contract of the current funding.
LEMMA FailHolds ==
  ASSUME TypeOK, OnlyLegacy, FailAndRecover, Legacy => signed
  PROVE  \A c \in Current' : Live(c)' => Held(c)'
<1>1. gen' = gen /\ out' = out /\ Current' = Current /\ Current \subseteq Coins
  BY CurrentCoins DEF FailAndRecover, chain, Current, TypeOK
<1>2. \A c \in Current : wOut'[c] = IF signed THEN "signed" ELSE "bare"
  BY <1>1 DEF FailAndRecover
<1>3. \A c \in Current : out[c] = "funded" => wOut'[c] = "signed"
  BY <1>1, <1>2 DEF OnlyLegacy
<1>. QED
  BY <1>1, <1>2, <1>3 DEF Live, Held

\* A pass of the recovery loop keeps the coin of every contract it leaves live.
LEMMA PassHolds ==
  ASSUME NEW S, RefundPass(S), NEW c \in Coins, Live(c)'
  PROVE  Live(c) /\ (Held(c) => Held(c)')
BY DEF RefundPass, Recovered, Dropped, Live, Held

\* Nothing is on-chain before start_swap, an earlier swap's recovery loop included.
LEMMA StepBefore == Before /\ [Next]_vars => Before'
<1> SUFFICES ASSUME Before, [Next]_vars PROVE Before'
  OBVIOUS
<1>1. CASE Prepare
  BY <1>1 DEF Prepare, params, wallet, chain, peers, Before, Start, Later, Resting
<1>2. CASE Negotiate
  BY <1>2 DEF Negotiate, params, wallet, chain, peers, Before, Start, Later, Resting
<1>3. CASE StartSwap
  BY <1>3 DEF StartSwap, Legacy, ExchangeStart, params, chain, peers, Before, Start, Later,
  Resting
<1>4. CASE Talks
  BY <1>4, TalksFrame DEF Before, Start, Later, Resting
<1>5. CASE Notes
  BY <1>5, NotesFrame DEF Before, Start, Later, Resting
<1>6. CASE Replies
  BY <1>6, RepliesFrame DEF Before, Start, Later, Resting
<1>7. CASE SaveBeforeBroadcast
  BY <1>7 DEF SaveBeforeBroadcast, params, memory, tracker, chain, peers, Before, Start,
  Later, Resting
<1>8. CASE SendFunding
  BY <1>8 DEF SendFunding, params, memory, wallet, tracker, peers, Before, Start, Later,
  Resting
<1>9. CASE NextMakerFails
  BY <1>9 DEF NextMakerFails, params, wallet, tracker, chain, peers, Before, Start, Later,
  Resting
<1>10. CASE Handover
  BY <1>10 DEF Handover, params, wallet, tracker, chain, Before, Start, Later, Resting
<1>11. CASE HandoverFails
  BY <1>11 DEF HandoverFails, params, memory, wallet, tracker, chain, FailAndRecover,
  Forget, Before, Start, Later, Resting
<1>12. CASE Settle
  BY <1>12 DEF Settle, params, memory, tracker, peers, Before, Start, Later, Resting
<1>13. CASE Complete
  BY <1>13 DEF Complete, params, chain, peers, Before, Start, Later, Resting
<1>14. CASE ExchangeFails
  BY <1>14 DEF ExchangeFails, FailAndRecover, Forget, params, chain, Before, Start, Later,
  Resting
<1>15. CASE SettleNone
  BY <1>15 DEF SettleNone, FailAndRecover, peers, Forget, params, chain, Before, Start,
  Later, Resting
<1>16. CASE SubstituteFirst
  BY <1>16 DEF SubstituteFirst, Legacy, ExchangeStart, params, tracker, chain, peers,
  Before, Start, Later, Resting
<1>17. CASE SettleFails
  BY <1>17 DEF SettleFails, params, memory, wallet, tracker, chain, peers, Before, Start,
  Later, Resting
<1>18. CASE LoopClaims
  BY <1>18 DEF LoopClaims, loopFrame, params, memory, peers, Before, Start, Later, Resting
<1>19. CASE LoopCleansUp
  BY <1>19 DEF LoopCleansUp, loopFrame, params, memory, peers, Before, Start, Later,
  Resting
<1>20. ASSUME NEW S \in SUBSET Coins, LoopRefunds(S) PROVE Before'
  BY <1>20 DEF LoopRefunds, RefundPass, loopFrame, Recovered, params, memory, peers,
  Before, Start, Later, Resting
<1>21. CASE Restart
  BY <1>21 DEF Restart, params, memory, peers, Before, Start, Later, Resting
<1>22. CASE Drops
  BY <1>22, DropsFrame DEF Before, Start, Later, Resting
<1>23. CASE Watches
  BY <1>23, WatchesFrame DEF Before, Start, Later, Resting
<1>24. CASE LastMakerFunds
  BY <1>24 DEF LastMakerFunds, others, params, memory, wallet, tracker, peers, Before,
  Start, Later, Resting
<1>25. CASE LastMakerPublishes
  BY <1>25 DEF LastMakerPublishes, others, params, memory, wallet, tracker, peers, Before,
  Start, Later, Resting
<1>26. CASE RipenIncoming
  BY <1>26 DEF RipenIncoming, others, params, memory, wallet, tracker, peers, Before,
  Start, Later, Resting
<1>27. CASE LastMakerRefunds
  BY <1>27 DEF LastMakerRefunds, others, params, memory, wallet, tracker, peers, Before,
  Start, Later, Resting
<1>28. ASSUME NEW e \in Coins, FirstMakerPublishes(e) PROVE Before'
  BY <1>28 DEF FirstMakerPublishes, others, params, memory, wallet, tracker, peers, Before,
  Start, Later, Resting
<1>29. ASSUME NEW e \in Coins, FirstMakerTakes(e) PROVE Before'
  BY <1>29 DEF FirstMakerTakes, others, params, memory, wallet, tracker, peers, Before,
  Start, Later, Resting
<1>30. ASSUME NEW e \in Coins, Ripen(e) PROVE Before'
  BY <1>30 DEF Ripen, others, params, memory, wallet, tracker, peers, Before, Start, Later,
  Resting
<1>31. CASE UNCHANGED vars
  BY <1>31 DEF vars, params, memory, wallet, tracker, chain, peers, Before, Start, Later,
  Resting
<1>. QED
  BY <1>1, <1>2, <1>3, <1>4, <1>5, <1>6, <1>7, <1>8, <1>9, <1>10, <1>11, <1>12, <1>13,
  <1>14, <1>15, <1>16, <1>17, <1>18, <1>19, <1>20, <1>21, <1>22, <1>23, <1>24, <1>25,
  <1>26, <1>27, <1>28, <1>29, <1>30, <1>31
     DEF Next, Exchange, Finish, Trouble, Loop, Others, Talks, Notes, Replies, Drops, Watches

\* Nothing is on-chain of a generation of funding that is still to be created.
LEMMA StepFuture == TypeOK /\ Future /\ [Next]_vars => Future'
<1> SUFFICES ASSUME TypeOK, Future, [Next]_vars PROVE Future'
  OBVIOUS
<1>0. /\ gen \in 0..Spares /\ Spares \in Nat
      /\ out \in [Coins -> {"none", "funded", "published", "refunded", "paid", "taken"}]
  BY SizesAssumption DEF TypeOK
<1>00. Current \subseteq Coins /\ (\A c \in Current : c[1] = gen) /\ <<gen, 1>> \in Current
  BY <1>0, CurrentCoins
<1> USE <1>0
<1>1. CASE Prepare
  BY <1>1 DEF Prepare, params, wallet, chain, peers, Future
<1>2. CASE Negotiate
  BY <1>2 DEF Negotiate, params, wallet, chain, peers, Future
<1>3. CASE StartSwap
  BY <1>3 DEF StartSwap, params, chain, peers, Future
<1>4. CASE Talks
  BY <1>4, TalksFrame DEF Future
<1>5. CASE Notes
  BY <1>5, NotesFrame DEF Future
<1>6. CASE Replies
  BY <1>6, RepliesFrame DEF Future
<1>7. CASE SaveBeforeBroadcast
  BY <1>7 DEF SaveBeforeBroadcast, params, memory, tracker, chain, peers, Future
<1>8. CASE SendFunding
  BY <1>8, <1>00 DEF SendFunding, Unsent, params, memory, wallet, tracker, peers, Future
<1>9. CASE NextMakerFails
  BY <1>9 DEF NextMakerFails, params, wallet, tracker, chain, peers, Future
<1>10. CASE Handover
  BY <1>10 DEF Handover, params, wallet, tracker, chain, Future
<1>11. CASE HandoverFails
  BY <1>11 DEF HandoverFails, params, memory, wallet, tracker, chain, FailAndRecover,
  Forget, Future
<1>12. CASE Settle
  BY <1>12 DEF Settle, params, memory, tracker, peers, Future
<1>13. CASE Complete
  BY <1>13 DEF Complete, params, chain, peers, Future
<1>14. CASE ExchangeFails
  BY <1>14 DEF ExchangeFails, FailAndRecover, Forget, params, chain, Future
<1>15. CASE SettleNone
  BY <1>15 DEF SettleNone, FailAndRecover, peers, Forget, params, chain, Future
<1>16. CASE SubstituteFirst
  BY <1>16 DEF SubstituteFirst, params, tracker, chain, peers, Coins, Future
<1>17. CASE SettleFails
  BY <1>17 DEF SettleFails, params, memory, wallet, tracker, chain, peers, Future
<1>18. CASE LoopClaims
  BY <1>18 DEF LoopClaims, loopFrame, params, memory, peers, Future
<1>19. CASE LoopCleansUp
  BY <1>19 DEF LoopCleansUp, loopFrame, params, memory, peers, Future
<1>20. ASSUME NEW S \in SUBSET Coins, LoopRefunds(S) PROVE Future'
  BY <1>20 DEF LoopRefunds, RefundPass, loopFrame, Recovered, params, memory, peers, Future
<1>21. CASE Restart
  BY <1>21 DEF Restart, RecoverWallet, params, memory, peers, RefundPass, Recovered, Future
<1>22. CASE SubstituteFails
  BY <1>22 DEF SubstituteFails, params, chain, peers, Coins, Future
<1>23. CASE Abort
  BY <1>23 DEF Abort, params, wallet, chain, peers, Future
<1>24. CASE Crash
  BY <1>24 DEF Crash, Exit, tracker, params, wallet, chain, peers, Future
<1>25. CASE Shutdown
  BY <1>25 DEF Shutdown, Exit, params, wallet, chain, peers, Future
<1>26. CASE Watches
  BY <1>26, WatchesFrame DEF Future
<1>27. CASE LastMakerFunds
  BY <1>27 DEF LastMakerFunds, others, params, memory, wallet, tracker, peers, Future
<1>28. CASE LastMakerPublishes
  BY <1>28 DEF LastMakerPublishes, others, params, memory, wallet, tracker, peers, Future
<1>29. CASE RipenIncoming
  BY <1>29 DEF RipenIncoming, others, params, memory, wallet, tracker, peers, Future
<1>30. CASE LastMakerRefunds
  BY <1>30 DEF LastMakerRefunds, others, params, memory, wallet, tracker, peers, Future
<1>31. ASSUME NEW e \in Coins, FirstMakerPublishes(e) PROVE Future'
  BY <1>31 DEF FirstMakerPublishes, others, params, memory, wallet, tracker, peers, Future
<1>32. ASSUME NEW e \in Coins, FirstMakerTakes(e) PROVE Future'
  BY <1>32 DEF FirstMakerTakes, others, params, memory, wallet, tracker, peers, Future
<1>33. ASSUME NEW e \in Coins, Ripen(e) PROVE Future'
  BY <1>33 DEF Ripen, others, params, memory, wallet, tracker, peers, Future
<1>34. CASE UNCHANGED vars
  BY <1>34 DEF vars, params, memory, wallet, tracker, chain, peers, Future
<1>. QED
  BY <1>1, <1>2, <1>3, <1>4, <1>5, <1>6, <1>7, <1>8, <1>9, <1>10, <1>11, <1>12, <1>13,
  <1>14, <1>15, <1>16, <1>17, <1>18, <1>19, <1>20, <1>21, <1>22, <1>23, <1>24, <1>25,
  <1>26, <1>27, <1>28, <1>29, <1>30, <1>31, <1>32, <1>33, <1>34
     DEF Next, Exchange, Finish, Trouble, Loop, Others, Talks, Notes, Replies, Watches
=============================================================================
