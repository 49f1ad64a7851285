------------------------------ MODULE TakerSwap ------------------------------
(***************************************************************************)
(* One swap of a taker, Legacy or Taproot, from `prepare_swap` to its last *)
(* contract's spend: the calls of the taker's API, the wallet file and the *)
(* tracker file they save, the breach detector and the recovery loop that  *)
(* run beside them, the makers at both ends of the route, and a crash, a   *)
(* shutdown and a restart at any point.                                    *)
(*                                                                         *)
(* The outgoing contracts have an identity <<generation, number>>: funding *)
(* is created anew when the first maker is substituted.  The incoming      *)
(* contracts of a swap are created, saved and swept together and are one.  *)
(* A contract confirms as soon as it is broadcast; Taproot's contract      *)
(* transaction is its funding transaction.                                 *)
(***************************************************************************)
EXTENDS Integers

CONSTANTS
  Makers,      \* makers on the route
  Spares,      \* bound: spare makers found with the route
  TxCount,     \* funding transactions per hop
  Confirms,    \* required_confirms
  Attempts,    \* MAX_FINALIZE_RETRIES
  Protocols,   \* the protocols a swap may use
  Payments,    \* is the swap a payment: a subset of BOOLEAN
  Backlogs     \* did an earlier swap leave the recovery loop running: likewise

ASSUME SizesAssumption ==
  /\ Makers \in Nat \ {0} /\ Spares \in Nat /\ TxCount \in Nat \ {0}
  /\ Confirms \in Nat /\ Attempts \in Nat \ {0}
  /\ Protocols \subseteq {"Legacy", "Taproot"}
  /\ Payments \subseteq BOOLEAN /\ Backlogs \subseteq BOOLEAN

Coins == (0..Spares) \X (1..TxCount)

VARIABLES
  proto, payment,   \* the swap's parameters
  pc,               \* where the taker's thread is
  hop,              \* the maker it works with
  attempt,          \* attempts at finalization so far
  phase,            \* OngoingSwapState's phase; "none": no ongoing swap
  spares, gen,      \* spare makers left; the generation of the outgoing coins
  signed,           \* do the outgoing coins in memory carry the maker's signature
  incoming,         \* the incoming coins in memory: none, bare, claim, keyed
  wOut,             \* wallet file: each outgoing coin: absent, bare, signed
  wIn,              \* wallet file: the incoming coins: absent, bare, claim, keyed
  saved, recovery,  \* tracker file: the record's phase, or "none"; its recovery phase
  out,              \* chain: each outgoing contract: none, funded, published (Taproot's
                    \* at once), refunded, paid, or taken from the funding output
  inc,              \* chain: the incoming contract: none, funded, published, claimed, lost,
                    \* or swept from the funding output
  ripe,             \* outgoing contracts past their timelock
  ripeIn,           \* who looked after the incoming contract when its timelock passed:
                    \* "no" before that, then loop, down, idle, or unswept when the
                    \* sweep after finalization had failed
  given,            \* outgoing contracts whose keys the first maker has
  revealed,         \* is the preimage public
  asked,            \* makers that have all they need to fund their hop
  watcher,          \* is the watch service alive
  alarm,            \* the breach detector: off, quiet, unknown, breached
  loop,             \* the recovery loop: off, on, done
  backlog           \* are contracts of an earlier swap still unresolved

memory == <<phase, spares, gen, signed, incoming>>
wallet == <<wOut, wIn>>
tracker == <<saved, recovery>>
chain  == <<out, inc, ripe, ripeIn, revealed>>
peers  == <<given, asked>>
params == <<proto, payment>>
vars   == <<params, pc, hop, attempt, memory, wallet, tracker, chain, peers,
            watcher, alarm, loop, backlog>>

\* The phases before FundsBroadcast in SwapPhase's order.
Unfunded == {"MakersDiscovered", "Negotiated", "FundingCreated"}

Current == {gen} \X (1..TxCount)
Legacy == proto = "Legacy"

Init ==
  /\ proto \in Protocols /\ payment \in Payments
  /\ pc = "new" /\ hop = 0 /\ attempt = 0
  /\ phase = "none" /\ spares = Spares /\ gen = 0 /\ signed = FALSE /\ incoming = "none"
  /\ wOut = [c \in Coins |-> "absent"] /\ wIn = "absent"
  /\ saved = "none" /\ recovery = "NotStarted"
  /\ out = [c \in Coins |-> "none"] /\ inc = "none"
  /\ ripe = {} /\ ripeIn = "no" /\ revealed = FALSE
  /\ given = {} /\ asked = 0
  /\ watcher = TRUE /\ alarm = "off"
  /\ backlog \in Backlogs /\ loop = IF backlog THEN "on" ELSE "off"

-----------------------------------------------------------------------------
(* prepare_swap *)

\* The swap is set up with a route of makers from the offer book.  Without enough
\* funds or makers the call fails: a swap that got as far as the discovery stays in
\* memory.
Prepare ==
  /\ pc = "new"
  /\ \/ /\ pc' = "negotiate" /\ phase' = "MakersDiscovered" /\ saved' = phase'
        /\ spares' \in 0..Spares
     \/ /\ pc' = "idle" /\ phase' \in {"none", "MakersDiscovered"}
        /\ UNCHANGED <<saved, spares>>
  /\ UNCHANGED <<params, hop, attempt, gen, signed, incoming, wallet, recovery, chain, peers,
                 watcher, alarm, loop, backlog>>

\* A spare takes a failed maker's place, in a swap that is not a payment.
HasSpare == spares > 0 /\ ~payment

\* negotiate_swap_details: the makers agree one after the other.  The last one to agree
\* completes the preparation; one that fails is replaced, or the preparation fails.
Negotiate ==
  /\ pc = "negotiate"
  /\ \/ /\ hop + 1 < Makers /\ hop' = hop + 1
        /\ UNCHANGED <<pc, phase, saved, spares>>
     \/ /\ hop + 1 = Makers /\ hop' = 0
        /\ pc' = "ready" /\ phase' = "Negotiated" /\ saved' = phase'
        /\ UNCHANGED spares
     \/ /\ HasSpare /\ spares' = spares - 1
        /\ UNCHANGED <<pc, hop, phase, saved>>
     \/ /\ ~HasSpare /\ pc' = "idle"
        /\ UNCHANGED <<hop, phase, saved, spares>>
  /\ UNCHANGED <<params, attempt, gen, signed, incoming, wallet, recovery, chain, peers,
                 watcher, alarm, loop, backlog>>

-----------------------------------------------------------------------------
(* start_swap: funding and the contract exchange *)

\* funding_initialize creates and saves the outgoing coins of generation g.
Funded(g, w) ==
  [c \in Coins |-> IF c[1] = g THEN "bare" ELSE w[c]]

\* The first step of the protocol's contract exchange.
ExchangeStart == IF Legacy THEN "senderSigs" ELSE "announce"

\* start_swap up to the exchange.  With the watch service down, or without coins to
\* fund the swap, the call fails and the swap stays in memory.
StartSwap ==
  /\ pc = "ready"
  /\ \/ /\ watcher
        /\ alarm' = IF Legacy THEN "quiet" ELSE alarm
        /\ wOut' = Funded(gen, wOut)
        /\ phase' = "FundingCreated" /\ saved' = phase'
        /\ pc' = ExchangeStart
     \/ /\ pc' = "idle"
        /\ alarm' = IF Legacy /\ watcher THEN "quiet" ELSE alarm
        /\ UNCHANGED <<wOut, phase, saved>>
  /\ UNCHANGED <<params, hop, attempt, spares, gen, signed, incoming, wIn, recovery, chain,
                 peers, watcher, loop, backlog>>

\* A step of the exchange that leaves wallet, tracker and chain alone.
Advance(from, to) ==
  /\ pc = from /\ pc' = to
  /\ UNCHANGED <<params, attempt, phase, spares, gen, wallet, tracker, chain,
                 watcher, alarm, loop, backlog>>

\* exchange_req_sender_sigs: the first maker signs the outgoing contracts; later hops,
\* and a hop that is tried again with its coins funded, go on with the proof of funding.
SenderSigs ==
  /\ Legacy
  /\ Advance("senderSigs", IF hop = 0 /\ phase = "FundingCreated" THEN "broadcast" ELSE "proof")
  /\ signed' = TRUE
  /\ UNCHANGED <<hop, incoming, peers>>

\* Mutant of SaveBeforeBroadcast: the funding goes out before the coins are saved.
BroadcastUnsaved ==
  /\ pc = "broadcast" /\ watcher
  /\ pc' = "send"
  /\ UNCHANGED <<params, hop, attempt, memory, wallet, tracker, chain, peers,
                 watcher, alarm, loop, backlog>>

\* The signed coins are saved before the funding is broadcast.
SaveBeforeBroadcast ==
  /\ pc = "broadcast" /\ watcher
  /\ wOut' = [c \in Coins |-> IF c \in Current THEN "signed" ELSE wOut[c]]
  /\ pc' = "send"
  /\ UNCHANGED <<params, hop, attempt, memory, wIn, tracker, chain, peers,
                 watcher, alarm, loop, backlog>>

\* exchange_taproot records the broadcast first.
Announce ==
  /\ pc = "announce"
  /\ phase' = "FundsBroadcast" /\ saved' = phase' /\ pc' = "send"
  /\ UNCHANGED <<params, hop, attempt, spares, gen, signed, incoming, wallet, recovery, chain,
                 peers, watcher, alarm, loop, backlog>>

Unsent == {c \in Current : out[c] = "none"}

\* One funding transaction is broadcast; an error of the call, then or after another one,
\* may come with the transaction on its way.  A Taproot contract that cannot be watched is
\* an error: only the failure is left.
SendFunding ==
  /\ pc = "send"
  /\ pc' = IF Legacy \/ watcher THEN "send" ELSE "unwatched"
  /\ \E c \in Unsent :
       /\ \A d \in Unsent : c[2] <= d[2]
       /\ out' = [out EXCEPT ![c] = IF Legacy THEN "funded" ELSE "published"]
  /\ UNCHANGED <<params, hop, attempt, memory, wallet, tracker, inc, ripe, ripeIn, revealed,
                 peers, watcher, alarm, loop, backlog>>

\* All are out: a Legacy swap records it now.
AllSent ==
  /\ pc = "send" /\ Unsent = {}
  /\ phase' = "FundsBroadcast" /\ saved' = phase' /\ pc' = "confirm"
  /\ UNCHANGED <<params, hop, attempt, spares, gen, signed, incoming, wallet, recovery, chain,
                 peers, watcher, alarm, loop, backlog>>

\* requires_abort, which a Legacy wait for confirmations looks at.
RequiresAbort == alarm \in {"unknown", "breached"}
WaitGoesOn == Confirms > 0 => ~RequiresAbort

ConfirmFunding ==
  /\ WaitGoesOn
  /\ Advance("confirm", IF Legacy THEN "proof" ELSE "contractData")
  /\ UNCHANGED <<hop, signed, incoming, peers>>

\* exchange_send_proof_of_funding: the maker answers with its contracts, which check out.
ProofOfFunding ==
  /\ Advance("proof", "nextSigs")
  /\ UNCHANGED <<hop, signed, incoming, peers>>

\* The receiver of the maker's contracts signs them: the next maker, or the taker.
NextSigs ==
  /\ Advance("nextSigs", "prevSigs")
  /\ UNCHANGED <<hop, signed, incoming, peers>>

\* Mutant of NextMakerFails: the list of spares is not looked at.
NextMakerAnyway ==
  /\ pc = "nextSigs" /\ hop + 1 < Makers
  /\ spares' = spares - 1 /\ pc' = "senderSigs"
  /\ UNCHANGED <<params, hop, attempt, phase, gen, signed, incoming, wallet, tracker, chain,
                 peers, watcher, alarm, loop, backlog>>

\* The next maker fails: a spare takes its place, whatever the kind of swap, and the hop
\* starts again.
NextMakerFails ==
  /\ pc = "nextSigs" /\ hop + 1 < Makers /\ spares > 0
  /\ spares' = spares - 1 /\ pc' = "senderSigs"
  /\ UNCHANGED <<params, hop, attempt, phase, gen, signed, incoming, wallet, tracker, chain,
                 peers, watcher, alarm, loop, backlog>>

\* The sender of the maker's incoming contracts signs them: the taker, or the previous maker.
PrevSigs ==
  /\ Advance("prevSigs", "combinedSigs")
  /\ UNCHANGED <<hop, signed, incoming, peers>>

\* With both sets of signatures the maker can fund its hop.
CombinedSigs ==
  /\ Advance("combinedSigs", "makerFunding")
  /\ asked' = hop + 1
  /\ UNCHANGED <<hop, signed, incoming, given>>

\* Taproot: the maker is sent the contract data of its incoming contract, ...
ContractData ==
  /\ Advance("contractData", "contractReply")
  /\ asked' = hop + 1
  /\ UNCHANGED <<hop, signed, incoming, given>>

\* Mutant of ContractReply: the incoming coins stay in memory.
ContractReplyUnsaved ==
  /\ pc = "contractReply" /\ pc' = "makerFunding"
  /\ incoming' = IF hop + 1 = Makers THEN "claim" ELSE incoming
  /\ UNCHANGED <<params, hop, attempt, phase, spares, gen, signed, wallet, tracker, chain,
                 peers, watcher, alarm, loop, backlog>>

\* ... and answers with its own.  The last maker's makes the incoming coins, which are
\* saved at once.
ContractReply ==
  /\ pc = "contractReply" /\ pc' = "makerFunding"
  /\ incoming' = IF hop + 1 = Makers THEN "claim" ELSE incoming
  /\ wIn' = IF hop + 1 = Makers THEN "claim" ELSE wIn
  /\ UNCHANGED <<params, hop, attempt, phase, spares, gen, signed, wOut, tracker, chain,
                 peers, watcher, alarm, loop, backlog>>

\* The wait for the maker's funding is over: the next hop, or the step `last`.
NextHop(first, last) ==
  /\ hop' = IF hop + 1 < Makers THEN hop + 1 ELSE 0
  /\ Advance("makerFunding", IF hop + 1 < Makers THEN first ELSE last)
  /\ UNCHANGED <<signed, incoming, peers>>

\* Mutant of MakerFunding: the last maker's funding is not waited for.
MakerFundingUnseen ==
  /\ Legacy /\ WaitGoesOn
  /\ NextHop("senderSigs", "incoming")

\* The maker's funding is confirmed, close enough to the previous hop's.
MakerFunding ==
  /\ Legacy /\ WaitGoesOn
  /\ Confirms > 0 /\ hop + 1 = Makers => inc # "none"
  /\ NextHop("senderSigs", "incoming")

MakerContract ==
  /\ ~Legacy /\ WaitGoesOn
  /\ Confirms > 0 /\ hop + 1 = Makers => inc # "none"
  /\ NextHop("contractData", "exchanged")

\* Legacy: the incoming coins are made with the preimage, ...
CreateIncoming ==
  /\ Advance("incoming", "lastSigs")
  /\ incoming' = "bare"
  /\ UNCHANGED <<hop, signed, peers>>

\* ... and saved once the last maker has signed their contracts.
LastSigs ==
  /\ pc = "lastSigs" /\ pc' = "exchanged"
  /\ incoming' = "claim" /\ wIn' = incoming'
  /\ UNCHANGED <<params, hop, attempt, phase, spares, gen, signed, wOut, tracker, chain,
                 peers, watcher, alarm, loop, backlog>>

ContractsExchanged ==
  /\ pc = "exchanged" /\ pc' = "finalize"
  /\ phase' = "ContractsExchanged" /\ saved' = phase'
  /\ UNCHANGED <<params, hop, attempt, spares, gen, signed, incoming, wallet, recovery, chain,
                 peers, watcher, alarm, loop, backlog>>

-----------------------------------------------------------------------------
(* Failure, finalization and settlement *)

\* The swap in memory is gone, and nothing looks at the detector any more.
Forget ==
  /\ phase' = "none" /\ hop' = 0 /\ attempt' = 0
  /\ spares' = 0 /\ signed' = FALSE /\ incoming' = "none"
  /\ alarm' = "off"

\* Mutant of FailAndRecover: the recovery loop is not started.
FailWithoutLoop ==
  /\ wOut' = [c \in Coins |-> IF c \in Current THEN (IF signed THEN "signed" ELSE "bare")
                              ELSE wOut[c]]
  /\ wIn' = IF incoming = "none" THEN wIn ELSE incoming
  /\ saved' = "Failed" /\ Forget
  /\ pc' = "idle"
  /\ UNCHANGED <<params, gen, recovery, chain, watcher, loop, backlog>>

\* persist_failure.
PersistFailure == saved' = "Failed"

\* recover_active_swap after persist_failure: the coins in memory are saved, the record
\* is marked, the swap is forgotten and the recovery loop started.
FailAndRecover ==
  /\ wOut' = [c \in Coins |-> IF c \in Current THEN (IF signed THEN "signed" ELSE "bare")
                              ELSE wOut[c]]
  /\ wIn' = IF incoming = "none" THEN wIn ELSE incoming
  /\ PersistFailure /\ Forget
  /\ loop' = "on"
  /\ pc' = "idle"
  /\ UNCHANGED <<params, gen, recovery, chain, watcher, backlog>>

ExchangeSteps == {"senderSigs", "broadcast", "announce", "send", "confirm", "proof", "nextSigs",
                  "prevSigs", "combinedSigs", "contractData", "contractReply", "makerFunding", "incoming",
                  "lastSigs", "unwatched"}

\* An error of the exchange after the broadcast phase.  The last message may have
\* reached the maker.
ExchangeFails ==
  /\ pc \in ExchangeSteps /\ phase \notin Unfunded
  /\ FailAndRecover
  /\ asked' \in {asked, IF pc \in {"combinedSigs", "contractData"} THEN hop + 1 ELSE asked}
  /\ UNCHANGED given

\* Mutant of SubstituteFirst: the spare is looked at and stays in the list.
SubstituteAgain ==
  /\ pc \in ExchangeSteps /\ phase \in Unfunded
  /\ Legacy /\ HasSpare
  /\ wOut' = Funded(gen, [c \in Coins |-> "absent"])
  /\ signed' = FALSE
  /\ pc' = ExchangeStart
  /\ UNCHANGED <<params, hop, attempt, phase, spares, gen, incoming, wIn, tracker, chain, peers,
                 watcher, alarm, loop, backlog>>

\* An error before it, with a spare: the first maker is substituted, the coins of the
\* swap leave the wallet and new ones are created.
SubstituteFirst ==
  /\ pc \in ExchangeSteps /\ phase \in Unfunded
  /\ Legacy /\ HasSpare
  /\ spares' = spares - 1 /\ gen' = gen + 1
  /\ wOut' = Funded(gen', [c \in Coins |-> "absent"])
  /\ signed' = FALSE
  /\ pc' = ExchangeStart
  /\ UNCHANGED <<params, hop, attempt, phase, incoming, wIn, tracker, chain, peers,
                 watcher, alarm, loop, backlog>>

\* The coins have left the wallet, and new ones cannot be created: the swap is aborted.
SubstituteFails ==
  /\ pc \in ExchangeSteps /\ phase \in Unfunded
  /\ Legacy /\ HasSpare
  /\ gen' = gen + 1
  /\ wOut' = [c \in Coins |-> "absent"]
  /\ saved' = "none" /\ recovery' = "NotStarted"
  /\ Forget /\ pc' = "idle"
  /\ UNCHANGED <<params, wIn, chain, peers, watcher, loop, backlog>>

\* No spare, or the spare does not agree: "No funds on-chain - safe to abort".  The coins
\* stay in the wallet.
Abort ==
  /\ pc \in ExchangeSteps /\ phase \in Unfunded
  /\ saved' = "none" /\ recovery' = "NotStarted"
  /\ Forget /\ pc' = "idle"
  /\ UNCHANGED <<params, gen, wallet, chain, peers, watcher, loop, backlog>>

BeginFinalize ==
  /\ pc = "finalize" /\ pc' = "handover"
  /\ phase' = "Finalizing" /\ saved' = phase'
  /\ hop' = 0 /\ attempt' = 1
  /\ UNCHANGED <<params, spares, gen, signed, incoming, wallet, recovery, chain, peers,
                 watcher, alarm, loop, backlog>>

\* The first maker is sent the keys of the outgoing contracts, every other maker those
\* of the maker before it.
Sent == IF hop = 0 THEN given \cup Current ELSE given

\* finalize_exchange_privkeys, one maker: it answers with the keys of its own outgoing
\* contracts; the last maker's are the incoming ones'.
Handover ==
  /\ pc = "handover"
  /\ given' = Sent
  /\ IF hop + 1 < Makers THEN hop' = hop + 1 /\ UNCHANGED <<pc, incoming>>
                         ELSE hop' = hop /\ pc' = "forwarded" /\ incoming' = "keyed"
  /\ UNCHANGED <<params, attempt, phase, spares, gen, signed, wallet, tracker, chain, asked,
                 watcher, alarm, loop, backlog>>

\* The maker does not answer, whether or not it got the message: finalization starts
\* again from the first maker, unless a breach is suspected or the attempts are used up.
HandoverFails ==
  /\ pc = "handover"
  /\ given' \in {given, Sent}
  /\ \/ /\ ~RequiresAbort /\ attempt < Attempts
        /\ attempt' = attempt + 1 /\ hop' = 0
        /\ UNCHANGED <<params, pc, memory, wallet, tracker, chain, watcher, alarm, loop, backlog>>
     \/ /\ RequiresAbort \/ attempt = Attempts
        /\ FailAndRecover
  /\ UNCHANGED asked

\* finalize_swap: the record says so ...
Forwarded ==
  /\ pc = "forwarded" /\ pc' = "keep"
  /\ phase' = "PrivkeysForwarded" /\ saved' = phase'
  /\ UNCHANGED <<params, hop, attempt, spares, gen, signed, incoming, wallet, recovery, chain,
                 peers, watcher, alarm, loop, backlog>>

\* ... before the keys are saved with the incoming coins.  The detector stops.
KeepKeys ==
  /\ pc = "keep" /\ pc' = "settle"
  /\ wIn' = incoming
  /\ alarm' = "off"
  /\ UNCHANGED <<params, hop, attempt, memory, wOut, tracker, chain, peers, watcher, loop,
                 backlog>>

\* sweep_incoming_swapcoins: which incoming coins it can spend.  With the maker's key it
\* spends the funding output of a Legacy contract, and nothing else.
CanClaim ==
  IF Legacy
  THEN \/ wIn = "keyed" /\ inc = "funded"
       \/ wIn = "claim" /\ inc \in {"funded", "published"}
       \/ wIn = "bare" /\ inc = "published"
  ELSE wIn \in {"claim", "keyed"} /\ inc = "published"

\* The sweep: with the preimage, on a published contract or after publishing it, or with
\* the key.
Claim ==
  /\ CanClaim
  /\ inc' = IF Legacy /\ wIn = "keyed" THEN "swept" ELSE "claimed"
  /\ wIn' = "absent"
  /\ revealed' = (revealed \/ wIn # "keyed")

\* The sweep after finalization.
Settle ==
  /\ pc = "settle" /\ pc' = "complete"
  /\ Claim
  /\ UNCHANGED <<params, hop, attempt, memory, wOut, tracker, out, ripe, ripeIn, peers,
                 watcher, alarm, loop, backlog>>

\* Nothing was swept: recovery starts.
SettleNone ==
  /\ pc = "settle"
  /\ FailAndRecover
  /\ UNCHANGED peers

\* The sweep, or a save after it, reports an error: the call returns it, and starts no
\* recovery.
SettleFails ==
  /\ pc \in {"settle", "complete"} /\ pc' = "idle"
  /\ UNCHANGED <<params, hop, attempt, memory, wallet, tracker, chain, peers,
                 watcher, alarm, loop, backlog>>

\* The swap's coins leave the wallet and the record is closed.  The swap itself stays
\* in memory.
Complete ==
  /\ pc = "complete" /\ pc' = "idle"
  /\ wOut' = [c \in Coins |-> "absent"]
  /\ phase' = "Completed" /\ saved' = phase'
  /\ UNCHANGED <<params, hop, attempt, spares, gen, signed, incoming, wIn, recovery, chain,
                 peers, watcher, alarm, loop, backlog>>

-----------------------------------------------------------------------------
(* The recovery loop, the breach detector, crash and restart *)

\* recover_timelocked_swapcoins looks at a Legacy coin in every pass and at a Taproot
\* one from its timelock on.
Due(c) == wOut[c] # "absent" /\ (Legacy \/ c \in ripe)

\* Mutant of Recovered: a contract that is not on-chain is left alone.
RecoveredIfPublished(c) ==
  IF out[c] = "published" /\ c \in ripe THEN "refunded" ELSE out[c]

\* A matured contract is refunded, a signed Legacy contract published.
Recovered(c) ==
  IF out[c] = "published" /\ c \in ripe THEN "refunded"
  ELSE IF out[c] = "funded" /\ wOut[c] = "signed" THEN "published"
  ELSE out[c]

\* The coin of a refunded contract is dropped, and so is one whose contract another
\* transaction spent.  A contract transaction that is neither on-chain nor accepted lost
\* its input, or never had it; an unsigned Legacy one is not tried.
Dropped(c) ==
  \/ Recovered(c) \in {"refunded", "paid"}
  \/ out[c] \in {"none", "taken"} /\ (Legacy => wOut[c] = "signed")

\* One pass over the coins of S; on the others the backend failed.
RefundPass(S) ==
  /\ \A c \in S : Due(c)
  /\ out' = [c \in Coins |-> IF c \in S THEN Recovered(c) ELSE out[c]]
  /\ wOut' = [c \in Coins |-> IF c \in S /\ Dropped(c) THEN "absent" ELSE wOut[c]]

\* The record is one update_tracker_outcomes still looks at.
Incomplete == saved \notin {"none", "Completed"} /\ ~(saved = "Failed" /\ recovery = "CleanedUp")

\* update_tracker_outcomes: any outcome advances the recovery phase.
Outcome == IF Incomplete /\ recovery = "NotStarted" THEN "OutgoingRecovered" ELSE recovery

loopFrame == <<params, pc, hop, attempt, memory, saved, ripe, ripeIn, peers, watcher, alarm,
               backlog>>

\* The wallet's lock is held while the funding is saved and broadcast.
Unlocked == pc # "send"

\* A pass of the loop sweeps, refunds, updates the record and checks whether it is done.
\* Each of the steps does nothing when the backend fails or there is nothing to do, so
\* over several passes they take effect in any order.
LoopClaims ==
  /\ loop = "on" /\ Unlocked
  /\ Claim
  /\ recovery' = Outcome
  /\ UNCHANGED <<wOut, out, loop, loopFrame>>

LoopRefunds(S) ==
  /\ loop = "on" /\ Unlocked
  /\ RefundPass(S)
  /\ recovery' = IF \E c \in S : Dropped(c) THEN Outcome ELSE recovery
  /\ UNCHANGED <<wIn, inc, revealed, loop, loopFrame>>

\* Mutant of Resolved: an output that is not there counts as resolved.
ResolvedIfMissing ==
  /\ ~backlog
  /\ \A c \in Coins : wOut[c] # "absent" => out[c] # "published"
  /\ wIn # "absent" => inc # "published"

\* is_confirmed_spend of every contract output of the wallet's coins.
Resolved ==
  /\ ~backlog
  /\ \A c \in Coins : wOut[c] # "absent" => out[c] \in {"refunded", "paid"}
  /\ wIn # "absent" => inc \in {"claimed", "lost"}

LoopCleansUp ==
  /\ loop = "on" /\ Unlocked /\ Resolved
  /\ loop' = "done"
  /\ wOut' = [c \in Coins |-> IF Incomplete THEN "absent" ELSE wOut[c]]
  /\ recovery' = IF Incomplete THEN "CleanedUp" ELSE recovery
  /\ UNCHANGED <<wIn, out, inc, revealed, loopFrame>>

\* The breach detector polls the contracts of the route: it sees one that was published,
\* an intermediate hop's included, or cannot tell.  It polls all the time; only the polls
\* in the steps that look at its answer make a difference.
DetectorPolls ==
  /\ alarm \in {"quiet", "unknown"} /\ pc \in {"confirm", "makerFunding", "handover"}
  /\ alarm' \in {"quiet", "unknown"} \cup (IF asked > 0 THEN {"breached"} ELSE {})
  /\ alarm' # alarm
  /\ UNCHANGED <<params, pc, hop, attempt, memory, wallet, tracker, chain, peers, watcher,
                 loop, backlog>>

\* The watch service ends.  It is asked for before the funding only.
WatcherExits ==
  /\ watcher /\ watcher' = FALSE
  /\ pc \in {"ready", "broadcast", "send"}
  /\ UNCHANGED <<params, pc, hop, attempt, memory, wallet, tracker, chain, peers, alarm,
                 loop, backlog>>

\* The process ends: memory and threads are gone.
Exit ==
  /\ pc' = "down" /\ Forget
  /\ loop' = "off"
  /\ UNCHANGED <<params, gen, wallet, chain, peers, watcher, backlog>>

Crash ==
  /\ pc \notin {"new", "down"}
  /\ Exit
  /\ UNCHANGED tracker

\* Drop: a swap still in memory is written to the tracker, with a fresh recovery state.
Shutdown ==
  /\ pc = "idle" /\ phase # "none"
  /\ Exit
  /\ saved' = phase /\ recovery' = "NotStarted"

\* cleanup_incomplete drops the record of a swap that was not funded and marks any other.
CleanupIncomplete ==
  /\ saved' = IF saved \in Unfunded THEN "none"
              ELSE IF saved \in {"none", "Completed"} THEN saved ELSE "Failed"
  /\ recovery' = IF saved \in Unfunded THEN "NotStarted" ELSE recovery

\* init_recover_wallet: one recovery pass over the wallet, or none if the backend is down;
\* then the recovery loop, if coins remain.
RecoverWallet ==
  /\ \/ Claim
     \/ UNCHANGED <<wIn, inc, revealed>>
  /\ \E S \in SUBSET Coins : RefundPass(S)
  /\ loop' = IF backlog \/ wIn' # "absent" \/ (\E c \in Coins : wOut'[c] # "absent") THEN "on" ELSE "off"

\* init.
Restart ==
  /\ pc = "down" /\ pc' = "idle"
  /\ CleanupIncomplete
  /\ RecoverWallet
  /\ watcher' = TRUE
  /\ UNCHANGED <<params, hop, attempt, memory, ripe, ripeIn, peers, alarm, backlog>>

-----------------------------------------------------------------------------
(* The other parties and the chain *)

others == <<params, pc, hop, attempt, memory, wallet, tracker, peers, watcher, alarm, loop,
            backlog>>

LastMakerFunds ==
  /\ asked = Makers /\ inc = "none"
  /\ inc' = IF Legacy THEN "funded" ELSE "published"
  /\ UNCHANGED <<others, out, ripe, ripeIn, revealed>>

\* The maker at either end publishes a Legacy contract: it recovers on its side.
FirstMakerPublishes(c) ==
  /\ out[c] = "funded" /\ asked > 0
  /\ out' = [out EXCEPT ![c] = "published"]
  /\ UNCHANGED <<others, inc, ripe, ripeIn, revealed>>

LastMakerPublishes ==
  /\ inc = "funded"
  /\ inc' = "published"
  /\ UNCHANGED <<others, out, ripe, ripeIn, revealed>>

\* With the taker's key a maker takes the funding output of a Legacy contract or a
\* Taproot contract; with the preimage a published contract.
FirstMakerTakes(c) ==
  /\ \/ out[c] = "funded" /\ c \in given
     \/ out[c] = "published" /\ (revealed \/ (~Legacy /\ c \in given))
  /\ out' = [out EXCEPT ![c] = IF out[c] = "funded" THEN "taken" ELSE "paid"]
  /\ UNCHANGED <<others, inc, ripe, ripeIn, revealed>>

\* A timelock passes: a Taproot one at a height, a Legacy one after its contract's
\* publication.
Ripen(c) ==
  /\ out[c] # "none" \/ (wOut[c] # "absent" /\ pc \in {"idle", "down"})
  /\ Legacy => out[c] = "published"
  /\ c \notin ripe
  /\ ripe' = ripe \cup {c}
  /\ UNCHANGED <<others, out, inc, ripeIn, revealed>>

\* The taker's thread works on the swap, or its recovery loop can sweep.  The model
\* assumes that either is done before the incoming contract's timelock, which is
\* REFUND_LOCKTIME_BASE blocks away.
Busy == pc \notin {"idle", "down"} \/ (loop = "on" /\ CanClaim)

RipenIncoming ==
  /\ inc = "published" /\ ripeIn = "no" /\ ~Busy
  /\ ripeIn' = IF loop = "on" THEN "loop"
               ELSE IF phase = "PrivkeysForwarded" THEN "unswept" ELSE pc
  /\ UNCHANGED <<others, out, inc, ripe, revealed>>

LastMakerRefunds ==
  /\ inc = "published" /\ ripeIn # "no"
  /\ inc' = "lost"
  /\ UNCHANGED <<others, out, ripe, ripeIn, revealed>>

BacklogResolves ==
  /\ backlog /\ backlog' = FALSE
  /\ UNCHANGED <<params, pc, hop, attempt, memory, wallet, tracker, chain, peers, watcher,
                 alarm, loop>>

-----------------------------------------------------------------------------
Exchange ==
  \/ SenderSigs \/ SaveBeforeBroadcast \/ Announce \/ SendFunding \/ AllSent \/ ConfirmFunding
  \/ ProofOfFunding \/ NextSigs \/ NextMakerFails \/ PrevSigs \/ CombinedSigs \/ ContractData
  \/ ContractReply \/ MakerFunding \/ MakerContract \/ CreateIncoming \/ LastSigs \/ ContractsExchanged

Finish ==
  \/ BeginFinalize \/ Handover \/ Forwarded \/ KeepKeys \/ Settle \/ Complete

Trouble ==
  \/ ExchangeFails \/ SubstituteFirst \/ SubstituteFails \/ Abort \/ HandoverFails
  \/ SettleNone \/ SettleFails
  \/ Crash \/ Shutdown \/ WatcherExits

Loop ==
  \/ LoopClaims \/ LoopCleansUp
  \/ \E S \in SUBSET Coins : LoopRefunds(S)

Others ==
  \/ LastMakerFunds \/ LastMakerPublishes \/ RipenIncoming \/ LastMakerRefunds
  \/ BacklogResolves
  \/ \E c \in Coins : FirstMakerPublishes(c) \/ FirstMakerTakes(c) \/ Ripen(c)

Next ==
  \/ Prepare \/ Negotiate \/ StartSwap \/ Exchange \/ Finish \/ Trouble \/ Loop
  \/ DetectorPolls \/ Restart \/ Others

\* The taker's thread in one of its calls: every wait has a timeout, so it goes on or fails.
Working == Exchange \/ Finish \/ ExchangeFails \/ SubstituteFirst \/ SubstituteFails \/ Abort
           \/ HandoverFails \/ SettleNone \/ SettleFails

\* Every coin the recovery loop looks at, when the backend answers.
RefundAll == LoopRefunds({c \in Coins : Due(c)})

\* The threads are scheduled, blocks are mined, and the backend does not fail in every
\* pass of the recovery loop.
Fairness ==
  /\ WF_vars(Working)
  /\ WF_vars(RefundAll) /\ WF_vars(LoopClaims) /\ WF_vars(LoopCleansUp)
  /\ \A c \in Coins : WF_vars(Ripen(c))

Spec == Init /\ [][Next]_vars /\ Fairness

-----------------------------------------------------------------------------
(* Properties *)

\* The types; in particular the counters keep their bounds through every retry and every
\* substitution: spares are used up, a generation per spare, attempts at most the maximum.
TypeOK ==
  /\ proto \in Protocols /\ payment \in Payments
  /\ pc \in ExchangeSteps \cup {"new", "negotiate", "ready", "exchanged", "finalize", "handover",
                                "forwarded", "keep", "settle", "complete", "idle", "down"}
  /\ hop \in 0..Makers - 1 /\ attempt \in 0..Attempts /\ asked \in 0..Makers
  /\ phase \in Unfunded \cup {"none", "FundsBroadcast", "ContractsExchanged", "Finalizing",
                              "PrivkeysForwarded", "Completed"}
  /\ saved \in Unfunded \cup {"none", "FundsBroadcast", "ContractsExchanged", "Finalizing",
                              "PrivkeysForwarded", "Completed", "Failed"}
  /\ spares \in 0..Spares /\ gen \in 0..Spares
  /\ signed \in BOOLEAN /\ incoming \in {"none", "bare", "claim", "keyed"}
  /\ wOut \in [Coins -> {"absent", "bare", "signed"}]
  /\ wIn \in {"absent", "bare", "claim", "keyed"}
  /\ recovery \in {"NotStarted", "OutgoingRecovered", "CleanedUp"}
  /\ out \in [Coins -> {"none", "funded", "published", "refunded", "paid", "taken"}]
  /\ inc \in {"none", "funded", "published", "claimed", "swept", "lost"}
  /\ ripe \subseteq Coins /\ ripeIn \in {"no", "loop", "down", "idle", "unswept"}
  /\ given \subseteq Coins /\ revealed \in BOOLEAN
  /\ watcher \in BOOLEAN /\ alarm \in {"off", "quiet", "unknown", "breached"}
  /\ loop \in {"off", "on", "done"}
  /\ backlog \in BOOLEAN

Live(c) == out[c] \in {"funded", "published"}

\* The coin saved for an outgoing contract can bring it back: unsigned, a Legacy one
\* cannot publish it.
Held(c) == wOut[c] = "signed" \/ (wOut[c] = "bare" /\ out[c] = "published")

\* At no point, a crash in any step included, is the taker's money in a contract of the
\* current funding that the wallet file cannot recover, until the incoming coins are
\* claimed.
FundingHeld ==
  inc \in {"claimed", "swept"} \/ \A c \in Current : Live(c) => Held(c)

\* The first maker is substituted only "if exchange failed before any funding was
\* broadcast": no earlier funding is on-chain without a coin in the wallet file.
SubstitutedUnfunded ==
  \A c \in Coins \ Current : Live(c) => Held(c)

\* The taker gives keys away only for an incoming contract that is on-chain and that the
\* wallet file can claim: a crash right after the handover costs nothing.
KeysOnlyForIncoming ==
  given # {} => /\ inc # "none"
                /\ wIn \in {"claim", "keyed"} \/ inc \in {"claimed", "swept", "lost"}

\* The taker pays without being paid only if the incoming timelock passed while its
\* process was down or after the sweep of a finalized swap returned an error, or if the
\* last maker published a contract the taker had been given the key of.
NoLoss ==
  inc = "lost" /\ (\E c \in Coins : out[c] \in {"paid", "taken"})
    => ripeIn \in {"down", "unswept"} \/ (Legacy /\ wIn = "keyed")

\* The recovery loop ends only with every contract of the current funding spent, or
\* handed over.
DoneMeansSettled ==
  [][loop # "done" /\ loop' = "done" => \A c \in Current : Live(c) => c \in given]_vars

\* The detailed swap keeps the promise of AtomicSwap.
Swap == INSTANCE AtomicSwap WITH
  out   <- [c \in Coins |-> IF Live(c) THEN "locked"
                            ELSE IF out[c] = "refunded" THEN "returned"
                            ELSE IF out[c] = "none" THEN "none" ELSE "paid"],
  inc   <- IF inc \in {"funded", "published"} THEN "offered"
           ELSE IF inc = "lost" THEN "withdrawn"
           ELSE IF inc = "none" THEN "none" ELSE "claimed",
  ceded <- IF revealed THEN Coins ELSE given

\* A contract is taken from the taker only after it was ceded, by key or by preimage,
\* and that happens only once an incoming contract is on-chain; contracts move between
\* their abstract states in no other way.
Atomic == Swap!Spec

\* A call of start_swap returns, whatever the makers do: substitutions and attempts at
\* finalization are used up.
SwapReturns == pc \in ExchangeSteps ~> pc \in {"idle", "down"}

\* A contract the recovery loop looks after is spent some day: refunded, or taken by the
\* maker; unless the process ends.
ContractsSettle ==
  \A c \in Coins : (Live(c) /\ Held(c) /\ loop = "on" /\ pc = "idle") ~> (~Live(c) \/ pc = "down")
=============================================================================
