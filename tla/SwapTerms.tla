----------------------------- MODULE SwapTerms -----------------------------
(***************************************************************************)
(* What a swap is worth and what its parties accept: the taker's choice of *)
(* a route, the quote of a payment, the negotiation with every maker, the  *)
(* contracts each party builds, and the checks the taker and the makers    *)
(* make on each other's contracts and signatures before they go on.        *)
(*                                                                         *)
(* Keys, hashes, scripts and addresses are records, so that a hash or a    *)
(* tweak is an injective constructor: a key is a point and the nonce it is *)
(* tweaked with, a P2WSH output is the script it commits to, a P2TR output *)
(* is its internal key and its two leaves, an aggregate key is the set of  *)
(* its keys, and a signature is what was signed and by whom. Percentages   *)
(* are whole and fees are computed exactly, rounded up once as in the code.*)
(*                                                                         *)
(* In one swap at most one thing is out of the ordinary: a maker that does *)
(* not answer, or a party whose contracts or signatures are not the ones   *)
(* the protocol asks for.                                                  *)
(***************************************************************************)
EXTENDS Integers, Sequences, SequencesExt, FiniteSets

CONSTANTS
  Schedules,      \* the offers makers make: [base, amt, time, min, max]
  SendAmounts, TxCounts,
  LockBase, LockStep, MinReaction,  \* REFUND_LOCKTIME_BASE, _STEP, MIN_CONTRACT_REACTION_TIME
  MiningFee,      \* estimate_funding_tx_fee_sats
  SettleFee,      \* payment_settlement_budget_sats
  SplitFloor, DustFloor,  \* least part of a split; MIN_PAYMENT_OUTPUT_SATS
  Spendable, FeeBuffer,   \* the taker's balance; FUNDING_FEE_BUFFER
  Liquidity,      \* what a maker can fund
  MaxMoney,       \* Amount::MAX_MONEY
  Tip             \* the reference height of the negotiation

VARIABLES
  stage,          \* how far the swap has come
  deal,           \* SwapParams: protocol, send, count, pay (0: no payment), preferred
  config, listed, \* every maker's schedule, and the one in the offer book
  route, spares,  \* the makers of the swap, and the ones to substitute
  hop,            \* the maker being negotiated or exchanged with
  flow,           \* the contracts of every hop, the taker's first
  cached,         \* per maker: contract outputs it signed for (prevout -> script)
  funded,         \* how many makers have broadcast their funding
  odd,            \* the one thing out of the ordinary: [what, by]
  why             \* why the swap failed

termsVars ==
  <<stage, deal, config, listed, route, spares, hop, flow, cached, funded, odd, why>>

Sellers == <<"s1", "s2", "s3">>
Hops == 2
Hash == "H"
NoOffer == [base |-> 0, amt |-> 0, time |-> 0, min |-> 0, max |-> 0]
Plain == [what |-> "none", by |-> 0]
Total(s) == FoldLeft(LAMBDA a, b : a + b, 0, s)
SeqMap(Op(_), s) == [j \in DOMAIN s |-> Op(s[j])]
\* The sum of claimed amounts; -1 when one of them or the sum is above the cap.
SumClaimedAmounts(s) ==
  IF (\E a \in Range(s) : a > MaxMoney) \/ Total(s) > MaxMoney THEN -1 ELSE Total(s)

-----------------------------------------------------------------------------
(* Fees and quotes.                                                        *)

CeilDiv(a, b) == (a + b - 1) \div b
Below(a, b) == IF a > b THEN a - b ELSE 0    \* saturating_sub

\* The offset of hop i's refund lock: every hop settles LockStep before the one it pays.
Offset(i) == LockBase + LockStep * (Hops - i)

\* mutant: the fee is rounded down.
HopNetFloored(o, lock, mining, gross) ==
  Below(gross, (100 * o.base + gross * o.amt + gross * lock * o.time) \div 100 + mining)

\* One hop's deduction as the taker replays it.
HopNet(o, lock, mining, gross) ==
  Below(gross, CeilDiv(100 * o.base + gross * o.amt + gross * lock * o.time, 100) + mining)

\* The same fee as the maker computes it from its own configuration.
CalculateSwapFee(o, amount, lock) ==
  CeilDiv(100 * o.base + amount * o.amt + amount * lock * o.time, 100)

\* mutant: the first doubling that suffices is taken for the amount.
GrossByDoubling(o, lock, mining, net) ==
  LET Double[hi \in Nat] ==
        IF HopNet(o, lock, mining, hi) >= net THEN hi
        ELSE IF 2 * hi > MaxMoney THEN 0 ELSE Double[2 * hi]
  IN  Double[IF net > 1 THEN net ELSE 1]

\* The least amount of which a maker forwards exactly net: doubling, then bisection; 0 for an
\* error.
HopGrossForNet(o, lock, mining, net) ==
  LET Net(g) == HopNet(o, lock, mining, g)
      Double[hi \in Nat] ==
        IF Net(hi) >= net THEN hi ELSE IF 2 * hi > MaxMoney THEN 0 ELSE Double[2 * hi]
      Bisect[lo \in Nat, hi \in Nat] ==
        LET mid == lo + (hi - lo) \div 2
        IN  IF lo >= hi THEN lo
            ELSE IF Net(mid) >= net THEN Bisect[lo, mid] ELSE Bisect[mid + 1, hi]
      top == Double[IF net > 1 THEN net ELSE 1]
      least == Bisect[net, top]
  IN  IF top = 0 THEN 0 ELSE IF Net(least) = net THEN least ELSE 0

\* The amount hop i forwards when gross enters the route, every deduction replayed.
Replay(offers, mining, gross, i) ==
  LET After[k \in 0..Hops] ==
        IF k = 0 THEN gross ELSE HopNet(offers[k], Offset(k), mining, After[k - 1])
  IN  After[i]

\* Backward over the route from what the last hop must fund, then forward as a check.
SolveRoute(offers, mining, net) ==
  LET Need[i \in 1..Hops + 1] ==
        IF i = Hops + 1 THEN net
        ELSE IF Need[i + 1] = 0 THEN 0
        ELSE HopGrossForNet(offers[i], Offset(i), mining, Need[i + 1])
  IN  IF Need[1] # 0 /\ Replay(offers, mining, Need[1], Hops) = net THEN Need[1] ELSE 0

\* The sanity and size checks on an offer for an amount.
ValidOffer(o, amount) ==
  /\ o.amt \in 0..99 /\ o.time \in 0..99
  /\ o.base <= amount
  /\ o.min <= o.max /\ o.min <= amount /\ amount <= o.max

Offers == SeqMap(LAMBDA r : r.offer, route)
Mining == MiningFee * deal.count

\* What hop i must forward, replayed from the offers stored on the route.
ExpectedAmountForHop(i) == Replay(Offers, Mining, deal.send, i)

-----------------------------------------------------------------------------
(* Preparing a swap.                                                       *)

unbuilt == <<flow, cached, funded>>

Fail(reason) ==
  /\ stage' = "failed" /\ why' = reason
  /\ UNCHANGED <<deal, config, listed, route, spares, hop, flow, cached, funded, odd>>

NoDeal == [protocol |-> "none", send |-> 0, count |-> 0, pay |-> 0, preferred |-> FALSE]
NoConfig == [s \in Range(Sellers) |-> NoOffer]

TermsInit ==
  /\ stage = "idle" /\ deal = NoDeal /\ config = NoConfig /\ listed = NoConfig
  /\ route = <<>> /\ spares = <<>> /\ hop = 0
  /\ flow = <<>> /\ cached = [i \in 1..Hops |-> {}] /\ funded = 0
  /\ odd = Plain /\ why = "none"

\* A payment is large enough that no contract can leave its receiver dust.
PaymentValid(d) == d.pay # 0 => d.pay >= DustFloor * d.count

\* A call of prepare_swap: the balance covers the amount and a receiver gets no dust. The
\* makers have their schedules, and the offer book may still hold an older one of the first.
PrepareSwap(d, cfg, old) ==
  /\ stage = "idle"
  /\ deal' = d /\ config' = cfg
  /\ listed' = IF d.preferred THEN NoConfig ELSE [cfg EXCEPT ![Sellers[1]] = old]
  /\ IF Spendable < d.send + FeeBuffer \/ ~PaymentValid(d)
     THEN stage' = "failed" /\ why' = "balance"
     ELSE stage' = "discover" /\ UNCHANGED why
  /\ UNCHANGED <<route, spares, hop, odd, unbuilt>>

Connection(s, offer) == [maker |-> s, offer |-> offer, lock |-> 0, agreed |-> FALSE]

\* The preferred makers as they are given, the rest of them spares; or the makers of the book
\* whose sizes fit, in its order, with at most two spares.
DiscoverMakers ==
  /\ stage = "discover"
  /\ LET fits(s) == deal.preferred \/ (listed[s].min <= deal.send /\ deal.send <= listed[s].max)
         chosen == SelectSeq(Sellers, fits)
         kept == IF deal.preferred \/ Len(chosen) <= Hops + 2 THEN Len(chosen) ELSE Hops + 2
     IN  IF Len(chosen) < Hops THEN Fail("makers")
         ELSE /\ route' = [i \in 1..Hops |-> Connection(chosen[i], listed[chosen[i]])]
              /\ spares' = SubSeq(chosen, Hops + 1, kept)
              /\ stage' = IF deal.pay # 0 THEN "price" ELSE "negotiate"
              /\ hop' = 1
              /\ UNCHANGED <<deal, config, listed, odd, why, unbuilt>>

\* The offers a payment is priced with: the route's, polled where it came without.
Asked ==
  [i \in 1..Hops |-> IF route[i].offer = NoOffer THEN config[route[i].maker] ELSE route[i].offer]
PaidIn == deal.pay + SettleFee * deal.count   \* what the last hop must fund

\* A payment: the amount that brings the receiver's through, checked against every offer and
\* the balance again.
PreparePaymentRoute ==
  /\ stage = "price"
  /\ LET asked == Asked
         gross == SolveRoute(asked, Mining, PaidIn)
     IN  IF \E i \in 1..Hops : ~ValidOffer(asked[i], deal.pay) THEN Fail("offer")
         ELSE IF gross = 0 THEN Fail("unsolvable")
         ELSE IF \E i \in 1..Hops : ~ValidOffer(asked[i], gross) THEN Fail("offer")
         ELSE IF Spendable < gross + FeeBuffer THEN Fail("balance")
         ELSE /\ deal' = [deal EXCEPT !.send = gross]
              /\ route' = [i \in 1..Hops |-> [route[i] EXCEPT !.offer = asked[i]]]
              /\ stage' = "negotiate"
              /\ UNCHANGED <<config, listed, spares, hop, odd, why, unbuilt>>

LockOf(i) == IF deal.protocol = "taproot" THEN Tip + Offset(i) ELSE Offset(i)

\* The maker's side of the negotiation: amount, liquidity, and a lock that leaves it time.
ValidateSwapParameters(o, lock, i) ==
  /\ o.min <= deal.send /\ deal.send <= o.max
  /\ deal.send <= Liquidity
  /\ IF deal.protocol = "legacy" THEN lock >= MinReaction
     ELSE lock + LockStep >= Tip + MinReaction /\ Offset(i) >= MinReaction
  /\ Offset(i) > 0

\* What the taker makes of one maker: its offer fetched afresh and valid, unchanged since the
\* quote of a payment, and the swap details acknowledged.
Agrees(i) ==
  LET o == config[route[i].maker]
  IN  /\ ValidOffer(o, deal.send)
      /\ deal.pay # 0 /\ route[i].offer # NoOffer
           => <<o.base, o.amt, o.time>>
                = <<route[i].offer.base, route[i].offer.amt, route[i].offer.time>>
      /\ ValidateSwapParameters(o, LockOf(i), i)

Negotiated(i) ==
  [route EXCEPT ![i].offer = config[route[i].maker], ![i].lock = LockOf(i), ![i].agreed = TRUE]

NegotiateWithMaker ==
  /\ stage = "negotiate" /\ Agrees(hop)
  /\ route' = Negotiated(hop)
  /\ IF hop < Hops THEN hop' = hop + 1 /\ UNCHANGED stage ELSE hop' = 1 /\ stage' = "fund"
  /\ UNCHANGED <<deal, config, listed, spares, odd, why, unbuilt>>

\* A maker that refuses or does not answer is replaced by the last spare; a payment fails.
NegotiationFails ==
  /\ stage = "negotiate"
  /\ \/ ~Agrees(hop) /\ UNCHANGED odd
     \/ odd = Plain /\ odd' = [what |-> "silent", by |-> hop]
  /\ IF deal.pay # 0 \/ spares = <<>>
     THEN stage' = "failed" /\ why' = "refused" /\ UNCHANGED <<route, spares>>
     ELSE /\ route' = [route EXCEPT ![hop] = Connection(Last(spares), NoOffer)]
          /\ spares' = Front(spares) /\ UNCHANGED <<stage, why>>
  /\ UNCHANGED <<deal, config, listed, hop, unbuilt>>

-----------------------------------------------------------------------------
(* The contracts. flow[i + 1] is what party i funds for party i + 1; the   *)
(* taker is the party before the first maker and after the last.           *)

Party(i) == IF i \in 1..Hops THEN route[i].maker ELSE "taker"
Key(point, nonce) == [point |-> point, nonce |-> nonce]
\* A fresh key of party i's own, for its j-th contract.
Own(i, j) == Key(Party(i), <<"own", i, j>>)
LockFunded(i) == IF i = 0 THEN LockOf(0) ELSE route[i].lock
\* A maker takes the hash over from the contracts that pay it.
HashOf(i) ==
  IF i = 0 THEN Hash
  ELSE IF deal.protocol = "legacy" THEN flow[i][1].redeem.hash ELSE flow[i][1].hashlock.hash

MultisigRedeemscript(a, b) == {a, b}
ContractRedeemscript(hash, key, lock, refund) ==
  [hash |-> hash, key |-> key, lock |-> lock, refund |-> refund]
SendersContractTx(outpoint, redeem) == [spends |-> outpoint, pays |-> redeem]
\* A funding transaction has its payment and its change; the contract spends the payment.
LegacyContract(i, j, v) ==
  LET ms == <<"ms", i, j>>
      hl == <<"hl", i, j>>
      multisig == MultisigRedeemscript(Own(i, j), Key(Party(i + 1), ms))
      redeem == ContractRedeemscript(HashOf(i), Key(Party(i + 1), hl), LockFunded(i), Own(i, j))
  IN  [fund |-> <<i, j>>, outs |-> <<[pays |-> multisig, value |-> v], [pays |-> {}, value |-> 1]>>,
       tx |-> SendersContractTx(<<i, j, 1>>, redeem), multisig |-> multisig, redeem |-> redeem,
       amount |-> v, ms |-> ms, hl |-> hl]

HashlockScript(hash, key) == [hash |-> hash, key |-> key]
TimelockScript(lock, key) == [lock |-> lock, key |-> key]
TaprootScript(hashlock, timelock, internal) == <<internal, hashlock, timelock>>
\* All contracts of a hop share the hashlock; the last maker pays the taker's key untweaked.
TaprootContract(i, j, v) ==
  LET hl == IF i = Hops THEN <<>> ELSE <<"hl", i>>
      internal == {Own(i, j), Key(Party(i + 1), <<>>)}
      hashlock == HashlockScript(HashOf(i), Key(Party(i + 1), hl))
      timelock == TimelockScript(LockFunded(i), Own(i, j))
      script == TaprootScript(hashlock, timelock, internal)
  IN  [fund |-> <<i, j>>, outs |-> <<[pays |-> script, value |-> v]>>, amount |-> v,
       pubkey |-> Own(i, j), internal |-> internal, tweak |-> script,
       hashlock |-> hashlock, timelock |-> timelock, hl |-> hl]

Contract(i, j, v) ==
  IF deal.protocol = "legacy" THEN LegacyContract(i, j, v) ELSE TaprootContract(i, j, v)

Stranger == Key("stranger", <<>>)
\* The ways in which one party's contracts can differ from what the protocol asks for.
LegacySlips == {"none", "spends", "script", "hash", "key", "lock", "pays", "underfund", "skim"}
TaprootSlips == {"none", "internal", "hash", "key", "lock", "tweak", "pays", "underfund", "skim"}
Slips == IF deal.protocol = "legacy" THEN LegacySlips ELSE TaprootSlips

\* The contract output, the contract script and the claims changed together where a party
\* that builds them so would.
Redeemed(c, r) == [c EXCEPT !.redeem = r, !.tx.pays = r]
Leaves(c, hashlock, timelock, internal) ==
  LET script == TaprootScript(hashlock, timelock, internal)
  IN  [c EXCEPT !.hashlock = hashlock, !.timelock = timelock, !.internal = internal,
                !.tweak = script, !.outs[1].pays = script]
Slipped(c, what) ==
  LET legacy == deal.protocol = "legacy"
      h == c.hashlock
      t == c.timelock
  IN  CASE what = "none"      -> c
        [] what = "spends"    -> [c EXCEPT !.tx.spends[3] = 2]
        [] what = "script"    -> [c EXCEPT !.multisig = {Stranger, c.redeem.refund},
                                           !.outs[1].pays = {Stranger, c.redeem.refund}]
        [] what = "internal"  -> Leaves(c, h, t, {Stranger, c.pubkey})
        [] what = "tweak"     -> [c EXCEPT !.tweak[1] = {Stranger}]
        [] what = "hash"      -> IF legacy THEN Redeemed(c, [c.redeem EXCEPT !.hash = "other"])
                                 ELSE Leaves(c, [h EXCEPT !.hash = "other"], t, c.internal)
        [] what = "key"       -> IF legacy THEN Redeemed(c, [c.redeem EXCEPT !.key = Stranger])
                                 ELSE Leaves(c, [h EXCEPT !.key = Stranger], t, c.internal)
        [] what = "lock"      -> IF legacy THEN Redeemed(c, [c.redeem EXCEPT !.lock = @ - 1])
                                 ELSE Leaves(c, h, [t EXCEPT !.lock = @ - 1], c.internal)
        [] what = "pays"      -> IF legacy THEN [c EXCEPT !.tx.pays.key = Stranger]
                                 ELSE [c EXCEPT !.outs[1].pays[1] = {Stranger}]
        [] what = "underfund" -> [c EXCEPT !.outs[1].value = @ - 1]
        [] what = "skim"      -> [c EXCEPT !.outs[1].value = @ - 1, !.amount = @ - 1]

Built(i, values, what) == [j \in DOMAIN values |-> Slipped(Contract(i, j, values[j]), what)]
Noted(i, what) == IF what = "none" THEN odd ELSE [what |-> what, by |-> i]
Misigned(i, bad) == IF bad THEN [what |-> "sig", by |-> i] ELSE odd
MaySlip(what) == what = "none" \/ odd = Plain

-----------------------------------------------------------------------------
(* Funding amounts.                                                        *)

\* A random split of an amount over the contracts: each part above the floor, the first what
\* is left of the others. The second of two parts is the least allowed, or about a half.
AmountFractions(total) ==
  IF deal.count = 1 THEN {<<v>> : v \in {total} \cap (SplitFloor + 1)..total}
  ELSE {<<total - x, x>> : x \in {x \in {SplitFloor + 1, total \div 2} :
                                    x > SplitFloor /\ total - x > SplitFloor}}

\* The fee shared over the contracts in proportion, rounded down, and the rest of it taken
\* from the largest (the last of equals).
FeeShares(amounts, fee) ==
  LET out == SeqMap(LAMBDA a : a - (fee * a) \div Total(amounts), amounts)
      most == CHOOSE j \in DOMAIN out :
                \A k \in DOMAIN out : out[k] < out[j] \/ (out[k] = out[j] /\ k <= j)
  IN  [out EXCEPT ![most] = @ - (Total(out) - (Total(amounts) - fee))]

\* The taker's own contracts; next is the stage that follows.
FundWith(next) ==
  /\ stage = "fund"
  /\ IF AmountFractions(deal.send) = {} THEN Fail("split")
     ELSE \E v \in AmountFractions(deal.send), what \in Slips :
            /\ MaySlip(what)
            /\ flow' = <<Built(0, v, what)>> /\ odd' = Noted(0, what)
            /\ stage' = next
            /\ UNCHANGED <<deal, config, listed, route, spares, hop, cached, funded, why>>
FundingCreateLegacy == deal.protocol = "legacy" /\ FundWith("sigs")
FundingCreateTaproot == deal.protocol = "taproot" /\ FundWith("answer")

-----------------------------------------------------------------------------
(* Signatures on Legacy contract transactions.                             *)

SignContractTx(tx, c, key) == [tx |-> tx, script |-> c.multisig, amount |-> c.amount, by |-> key]
VerifyContractTxSig(tx, c, key, sig) ==
  key \in c.multisig /\ sig = [tx |-> tx, script |-> c.multisig, amount |-> c.amount, by |-> key]

\* The signatures of the receiving and of the funding party of hop i on the transactions txs.
RecipientSigs(i, txs, bad) ==
  [j \in DOMAIN txs |-> SignContractTx(txs[j], flow[i][j],
                          IF bad THEN Stranger ELSE Key(Party(i), flow[i][j].ms))]
FunderSigs(i, txs, bad) ==
  [j \in DOMAIN txs |-> SignContractTx(txs[j], flow[i][j],
                          IF bad THEN Stranger ELSE Own(i - 1, j))]
SenderTxs(i) == SeqMap(LAMBDA c : c.tx, flow[i])

\* The taker's checks on the signatures for its own contracts, on those a next maker gave and
\* on those a previous maker gave.
VerifySenderSigs(sigs) ==
  /\ Len(sigs) = Len(flow[1])
  /\ \A j \in DOMAIN sigs :
       VerifyContractTxSig(flow[1][j].tx, flow[1][j], Key(Party(1), flow[1][j].ms), sigs[j])
VerifySenderSigsFromInfo(i, sigs) ==
  /\ Len(sigs) = Len(flow[i])
  /\ \A j \in DOMAIN sigs : \E key \in flow[i][j].multisig :
       VerifyContractTxSig(flow[i][j].tx, flow[i][j], key, sigs[j])
VerifyReceiverSigs(i, txs, sigs) ==
  /\ Len(sigs) = Len(txs) /\ Len(sigs) = Len(flow[i])
  /\ \A j \in DOMAIN sigs : \E key \in flow[i][j].multisig :
       VerifyContractTxSig(txs[j], flow[i][j], key, sigs[j])

-----------------------------------------------------------------------------
(* A maker's checks on the contracts that pay it.                          *)

IsMultisig(script) == Cardinality(script) = 2
MultisigHasPubkey(script, point, nonce) == Key(point, nonce) \in script
HashlockHasPubkey(redeem, point, nonce) == redeem.key = Key(point, nonce)
HashvaluesAreEqual(cs) == \A c, d \in Range(cs) : c.redeem.hash = d.redeem.hash
ReadContractLocktime(redeem) == redeem.lock
IsContractOutValid(tx, hash, key, lock, refund) ==
  tx.pays = ContractRedeemscript(hash, key, lock, refund)
ValidateContractTx(tx, redeem) == tx.pays = redeem

\* Before it signs the contracts of its sender: its keys, and an output of the exact terms.
VerifyReqContractSigsForSender(i) ==
  /\ flow[i] # <<>>
  /\ \A j \in DOMAIN flow[i] :
       LET c == flow[i][j]
       IN  /\ IsMultisig(c.multisig) /\ MultisigHasPubkey(c.multisig, Party(i), c.ms)
           /\ IsContractOutValid(c.tx, Hash, Key(Party(i), c.hl), route[i].lock + LockStep,
                                 c.redeem.refund)

\* The first output that pays the multisig; 0 for none.
FundingOutputIndex(c) ==
  IF \E k \in DOMAIN c.outs : c.outs[k].pays = c.multisig
  THEN CHOOSE k \in DOMAIN c.outs : /\ c.outs[k].pays = c.multisig
                                    /\ \A l \in 1..k - 1 : c.outs[l].pays # c.multisig
  ELSE 0
FundingOutpoint(c) == <<c.fund[1], c.fund[2], FundingOutputIndex(c)>>
Distinct(s) == \A j, k \in DOMAIN s : j # k => s[j] # s[k]

\* The proof of funding: what was negotiated, locks that leave time, funding outputs that pay
\* the multisig, its keys, and the very contracts it has signed for.
VerifyProofOfFunding(i) ==
  LET cs == flow[i]
  IN  /\ Len(cs) = deal.count
      /\ \A j \in DOMAIN cs :
           LET c == cs[j]
           IN  /\ ReadContractLocktime(c.redeem) - route[i].lock >= MinReaction
               /\ FundingOutputIndex(c) # 0
               /\ IsMultisig(c.multisig) /\ MultisigHasPubkey(c.multisig, Party(i), c.ms)
               /\ HashlockHasPubkey(c.redeem, Party(i), c.hl)
               /\ SendersContractTx(FundingOutpoint(c), c.redeem) \in cached[i]
      /\ Total(SeqMap(LAMBDA c : c.outs[FundingOutputIndex(c)].value, cs)) <= deal.send
      /\ Distinct(SeqMap(FundingOutpoint, cs))
      /\ HashvaluesAreEqual(cs)

\* The Taproot contracts: a hashlock for the maker's key, no contract twice; for each the
\* aggregate key and the exact lock; the tweak and the output of its two scripts.
TaprootHashlockHasPubkey(script, point, nonce) == script.key = Key(point, nonce)
TaprootDataShape(cs) == cs # <<>> /\ Distinct(SeqMap(LAMBDA c : c.fund, cs))
TaprootLocked(c, key, lock) == c.internal = {c.pubkey, key} /\ c.timelock.lock = lock
TaprootOutput(c) ==
  LET script == TaprootScript(c.hashlock, c.timelock, c.internal)
  IN  c.tweak = script /\ c.amount = c.outs[1].value /\ c.outs[1].pays = script
VerifyTaprootContractData(i) ==
  LET cs == flow[i]
  IN  /\ TaprootDataShape(cs)
      /\ \A c \in Range(cs) :
           /\ TaprootHashlockHasPubkey(c.hashlock, Party(i), c.hl)
           /\ TaprootLocked(c, Key(Party(i), <<>>), route[i].lock + LockStep)
           /\ TaprootOutput(c)
      /\ Len(cs) = deal.count
      /\ Total(SeqMap(LAMBDA c : c.amount, cs)) <= deal.send

-----------------------------------------------------------------------------
(* The exchange with a maker.                                              *)

go == <<deal, config, listed, route, spares>>

\* The first maker signs the taker's Legacy contracts, and the taker checks the signatures.
ReqSenderSigs(bad) ==
  /\ stage = "sigs"
  /\ bad => odd = Plain
  /\ IF ~VerifyReqContractSigsForSender(1) THEN Fail("contracts")
     ELSE IF ~VerifySenderSigs(RecipientSigs(1, SenderTxs(1), bad))
     THEN /\ stage' = "failed" /\ why' = "sigs" /\ odd' = Misigned(1, bad)
          /\ UNCHANGED <<go, hop, unbuilt>>
     ELSE /\ stage' = "answer" /\ cached' = [cached EXCEPT ![1] = Range(SenderTxs(1))]
          /\ UNCHANGED <<go, hop, flow, funded, odd, why>>

\* What a maker takes in, and the values of the contracts it funds in turn.
Incoming(i) ==
  IF deal.protocol = "legacy"
  THEN SeqMap(LAMBDA c : c.outs[FundingOutputIndex(c)].value, flow[i])
  ELSE SeqMap(LAMBDA c : c.amount, flow[i])
FeeOf(i) == CalculateSwapFee(config[Party(i)], Total(Incoming(i)), Offset(i)) + Mining
OutgoingValues(i) ==
  LET out == Total(Incoming(i)) - FeeOf(i)
      values == IF deal.protocol = "legacy" THEN AmountFractions(out)
                ELSE {FeeShares(Incoming(i), FeeOf(i))}
  IN  IF out < 0 THEN {} ELSE {v \in values : \A j \in DOMAIN v : v[j] >= DustFloor}

\* The maker's answer to the contracts that pay it: its own contracts for the next hop, with
\* values v.
Answer(v, what) ==
  /\ flow' = Append(SubSeq(flow, 1, hop), Built(hop, v, IF what = "receiver" THEN "none" ELSE what))
  /\ odd' = Noted(hop, what) /\ stage' = "check"
  /\ UNCHANGED <<go, hop, cached, why>>
LegacyAnswer ==
  /\ stage = "answer" /\ deal.protocol = "legacy"
  /\ IF ~VerifyProofOfFunding(hop) THEN Fail("contracts")
     ELSE IF OutgoingValues(hop) = {} THEN Fail("fee")
     ELSE \E v \in OutgoingValues(hop), what \in Slips \cup {"receiver"} :
            MaySlip(what) /\ Answer(v, what) /\ UNCHANGED funded
\* In Taproot it has broadcast them by then.
TaprootAnswer ==
  /\ stage = "answer" /\ deal.protocol = "taproot"
  /\ IF ~VerifyTaprootContractData(hop) THEN Fail("contracts")
     ELSE IF OutgoingValues(hop) = {} THEN Fail("fee")
     ELSE \E v \in OutgoingValues(hop), what \in Slips :
            MaySlip(what) /\ Answer(v, what) /\ funded' = hop

\* The maker's receiver contracts: the spend of the funding it was shown into its contract.
ReceiversContractTx(i, c) ==
  SendersContractTx(FundingOutpoint(c), IF odd = [what |-> "receiver", by |-> i]
                                        THEN [c.redeem EXCEPT !.key = Stranger] ELSE c.redeem)
ReceiversContractTxs(i) == SeqMap(LAMBDA c : ReceiversContractTx(i, c), flow[i])

VerifyMakerReceiverContracts(i) ==
  \A j \in DOMAIN flow[i] :
    LET tx == ReceiversContractTxs(i)[j]
    IN  /\ <<tx.spends[1], tx.spends[2]>> \in {c.fund : c \in Range(flow[i])}
        /\ ValidateContractTx(tx, flow[i][j].redeem)
\* ... and they are the very transactions the funder's contracts are.
SameTxids(i) == \A j \in DOMAIN flow[i] : ReceiversContractTxs(i)[j] = flow[i][j].tx

\* mutant: the contract's input is not bound to the funding output.
SpendsAnyOutput(c) == IsMultisig(c.multisig) /\ <<c.tx.spends[1], c.tx.spends[2]>> = c.fund

\* The taker's checks on maker i's Legacy contracts: they spend a funding output of exactly
\* the claimed script and value,
SpendsItsFunding(c) ==
  /\ IsMultisig(c.multisig) /\ <<c.tx.spends[1], c.tx.spends[2]>> = c.fund
  /\ c.tx.spends[3] \in DOMAIN c.outs
  /\ c.outs[c.tx.spends[3]] = [pays |-> c.multisig, value |-> c.amount]
\* into a contract with the hash, the lock and the keys asked for,
HasTerms(i, j, c) ==
  /\ ValidateContractTx(c.tx, c.redeem)
  /\ c.redeem.hash = Hash /\ ReadContractLocktime(c.redeem) = route[i].lock
  /\ MultisigHasPubkey(c.multisig, Party(i + 1), <<"ms", i, j>>)
  /\ HashlockHasPubkey(c.redeem, Party(i + 1), <<"hl", i, j>>)
\* and come to the amount the offers leave.
ClaimsExpected(i) ==
  SumClaimedAmounts(SeqMap(LAMBDA c : c.amount, flow[i + 1])) = ExpectedAmountForHop(i)
VerifyMakerSenderContracts(i) ==
  /\ Len(flow[i + 1]) = deal.count
  /\ \A j \in DOMAIN flow[i + 1] :
       SpendsItsFunding(flow[i + 1][j]) /\ HasTerms(i, j, flow[i + 1][j])
  /\ ClaimsExpected(i)

\* The taker's checks on maker i's Taproot contracts: amounts and hash, aggregate key, lock,
\* the tweak and the output of the two scripts, and the amount the offers leave.
MakerDataShape(cs) == cs # <<>> /\ \A c \in Range(cs) : c.amount # 0 /\ c.hashlock.hash = Hash
VerifyInternalKey(c, key) == c.internal = {c.pubkey, key}
MakerLocked(c, lock) == c.timelock.lock = lock
MakerOutput(c) ==
  LET script == TaprootScript(c.hashlock, c.timelock, c.internal)
  IN  c.tweak = script /\ c.outs[1] = [pays |-> script, value |-> c.amount]
VerifyMakerTaprootContract(i) ==
  /\ MakerDataShape(flow[i + 1])
  /\ \A c \in Range(flow[i + 1]) :
       /\ VerifyInternalKey(c, Key(Party(i + 1), <<>>))
       /\ MakerLocked(c, route[i].lock) /\ MakerOutput(c)
  /\ ClaimsExpected(i)

\* The hashlock key of a Taproot contract: the next maker's tweaked key, or the taker's own.
TaprootHashlockKey(i) ==
  \A c \in Range(flow[i + 1]) :
    c.hashlock.key = Key(Party(i + 1), IF i = Hops THEN <<>> ELSE <<"hl", i>>)

\* Once hop i is settled the exchange goes on with the next maker, or to the incoming coins.
NextHop ==
  IF hop < Hops THEN hop' = hop + 1 /\ stage' = "answer" ELSE stage' = "stamp" /\ UNCHANGED hop

TakerVerifies ==
  /\ stage = "check"
  /\ IF deal.protocol = "legacy"
     THEN IF /\ VerifyMakerSenderContracts(hop) /\ VerifyMakerReceiverContracts(hop)
             /\ SameTxids(hop)
          THEN stage' = "forward" /\ UNCHANGED <<go, hop, odd, why, unbuilt>>
          ELSE Fail("answer")
     ELSE IF VerifyMakerTaprootContract(hop) /\ TaprootHashlockKey(hop)
          THEN NextHop /\ UNCHANGED <<go, odd, why, unbuilt>>
          ELSE Fail("answer")

\* A next maker that does not sign is replaced by a spare, negotiated with on the spot, and
\* the current maker is asked again with the spare's keys; also in a payment.
SubstituteNext ==
  LET next == hop + 1
      swapped == [route EXCEPT ![next] = Connection(Last(spares), NoOffer)]
      o == config[Last(spares)]
  IN  IF spares = <<>> THEN stage' = "failed" /\ why' = "sigs" /\ UNCHANGED <<route, spares>>
      ELSE IF ValidOffer(o, deal.send) /\ ValidateSwapParameters(o, LockOf(next), next)
      THEN /\ route' = [swapped EXCEPT ![next].offer = o, ![next].lock = LockOf(next),
                                       ![next].agreed = TRUE]
           /\ spares' = Front(spares) /\ stage' = "answer" /\ UNCHANGED why
      ELSE /\ route' = swapped /\ spares' = Front(spares)
           /\ stage' = "failed" /\ why' = "refused"

\* The signatures of the next hop on the maker's contracts: the taker's own after the last
\* maker, otherwise the next maker's.
ForwardSenderSigs(bad) ==
  /\ stage = "forward"
  /\ bad => odd = Plain /\ hop < Hops
  /\ IF hop = Hops THEN stage' = "combine" /\ UNCHANGED <<go, cached, odd, why>>
     ELSE IF /\ VerifyReqContractSigsForSender(hop + 1)
             /\ VerifySenderSigsFromInfo(hop + 1,
                                         RecipientSigs(hop + 1, SenderTxs(hop + 1), bad))
     THEN /\ cached' = [cached EXCEPT ![hop + 1] = Range(SenderTxs(hop + 1))]
          /\ stage' = "combine" /\ UNCHANGED <<go, odd, why>>
     ELSE /\ odd' = Misigned(hop + 1, bad) /\ SubstituteNext
          /\ UNCHANGED <<deal, config, listed, cached>>
  /\ UNCHANGED <<hop, flow, funded>>

\* The previous funder signs the receiver contracts; the maker checks both sets of signatures
\* against its coins, and broadcasts its funding.
VerifyContractSigs(i, receivers, senders) ==
  /\ Len(receivers) = Len(flow[i]) /\ Len(senders) = Len(flow[i + 1])
  /\ \A j \in DOMAIN receivers :
       VerifyContractTxSig(ReceiversContractTxs(i)[j], [flow[i][j] EXCEPT !.amount = Incoming(i)[j]],
                           Own(i - 1, j), receivers[j])
  /\ \A j \in DOMAIN senders :
       VerifyContractTxSig(flow[i + 1][j].tx, flow[i + 1][j],
                           Key(Party(i + 1), flow[i + 1][j].ms), senders[j])

CombineSigs(bad) ==
  /\ stage = "combine"
  /\ bad => odd = Plain
  /\ LET receivers == FunderSigs(hop, ReceiversContractTxs(hop), bad)
         senders == RecipientSigs(hop + 1, SenderTxs(hop + 1), FALSE)
     IN  IF /\ (hop > 1 => VerifyReceiverSigs(hop, ReceiversContractTxs(hop), receivers))
            /\ VerifyContractSigs(hop, receivers, senders)
         THEN funded' = hop /\ NextHop /\ UNCHANGED <<go, flow, cached, odd, why>>
         ELSE /\ stage' = "failed" /\ why' = "sigs" /\ odd' = Misigned(hop - 1, bad)
              /\ UNCHANGED <<go, hop, unbuilt>>

Received == SeqMap(LAMBDA c : c.amount, flow[Hops + 1])
\* Every incoming coin carries its part of the payment above dust, and they come to exactly
\* it; otherwise why not.
StampTargets ==
  LET budget == SettleFee * deal.count
      each == budget \div Len(Received)
  IN  IF budget % Len(Received) # 0 THEN "stamp"
      ELSE IF \E j \in DOMAIN Received : Received[j] < each + DustFloor THEN "dust"
      ELSE IF Total(Received) - each * Len(Received) # deal.pay THEN "stamp" ELSE "none"

\* The taker's incoming coins: in Legacy the last maker signs their contracts, then the
\* payment is pinned to them.
CreateIncoming(bad) ==
  /\ stage = "stamp"
  /\ bad => odd = Plain /\ deal.protocol = "legacy"
  /\ IF deal.protocol = "legacy" /\ ~VerifyReceiverSigs(Hops + 1, SenderTxs(Hops + 1),
                                       FunderSigs(Hops + 1, SenderTxs(Hops + 1), bad))
     THEN stage' = "failed" /\ why' = "sigs" /\ odd' = Misigned(Hops, bad)
     ELSE /\ UNCHANGED odd
          /\ IF deal.pay # 0 /\ StampTargets # "none"
             THEN stage' = "failed" /\ why' = StampTargets ELSE stage' = "done" /\ UNCHANGED why
  /\ UNCHANGED <<go, hop, unbuilt>>

Deals ==
  {d \in [protocol : {"legacy", "taproot"}, send : SendAmounts, count : TxCounts,
          pay : SendAmounts \cup {0}, preferred : BOOLEAN] : d.pay \in {0, d.send}}
Configs == [Range(Sellers) -> Schedules]

TermsNext ==
  \* Bound: the offer book is out of date only when a payment is quoted from it.
  \/ /\ stage = "idle"
     /\ \E d \in Deals, cfg \in Configs, old \in Schedules :
          /\ old = cfg[Sellers[1]] \/ (d.pay # 0 /\ ~d.preferred)
          /\ PrepareSwap(d, cfg, old)
  \/ DiscoverMakers \/ PreparePaymentRoute
  \/ NegotiateWithMaker \/ NegotiationFails
  \/ FundingCreateLegacy \/ FundingCreateTaproot
  \/ \E bad \in BOOLEAN : \/ ReqSenderSigs(bad) \/ ForwardSenderSigs(bad)
                          \/ CombineSigs(bad) \/ CreateIncoming(bad)
  \/ LegacyAnswer \/ TaprootAnswer \/ TakerVerifies

TermsSpec == TermsInit /\ [][TermsNext]_termsVars

-----------------------------------------------------------------------------
(* Properties.                                                             *)

\* The negotiation's state stays consistent: a maker of the route has a lock exactly when it
\* acknowledged the details (negotiate_with_maker), and a swap that stopped has a reason.
TermsTypeOK ==
  /\ stage \in {"idle", "discover", "price", "negotiate", "fund", "sigs", "answer", "check",
                "forward", "combine", "stamp", "done", "failed"}
  /\ deal = NoDeal \/ deal \in [protocol : {"legacy", "taproot"}, send : 1..MaxMoney,
                                pay : SendAmounts \cup {0}, count : TxCounts, preferred : BOOLEAN]
  /\ Len(route) \in {0, Hops} /\ hop \in 0..Hops /\ funded \in 0..Hops
  /\ \A i \in DOMAIN route : route[i].agreed <=> route[i].lock # 0
  /\ Len(flow) <= Hops + 1
  /\ (stage = "failed") <=> (why # "none")

\* The quote of a payment (solve_route_gross_sats) is the least amount of which every maker's
\* deduction leaves exactly what the receiver and the settlement need; and when the route is
\* refused, no amount up to half of MAX_MONEY would do.
QuoteExact ==
  stage = "price" =>
    LET asked == Asked
        exact(g) == Replay(asked, Mining, g, Hops) = PaidIn
        quote == SolveRoute(asked, Mining, PaidIn)
    IN  IF quote # 0 THEN exact(quote) /\ \A g \in 1..quote - 1 : ~exact(g)
        ELSE \A g \in 1..MaxMoney \div 2 : ~exact(g)

\* The parties' computations agree: when nobody departs from the protocol, no check of a
\* maker on the taker's contracts, of the taker on a maker's, on a signature or on the total
\* of a payment ever fails. In particular the taker's replay of the fees is the makers'
\* deduction to the unit, through splits and shared fees, over both protocols.
HonestAccepted ==
  odd = Plain => why \notin {"contracts", "answer", "sigs", "stamp"}

\* The output of a contract that its funding really has is spendable by who together with the
\* funder, and the contract pays who for the preimage, the funder after exactly lock.
Claimable(c, who, hash, lock) ==
  IF deal.protocol = "legacy"
  THEN LET o == c.outs[c.tx.spends[3]]
       IN  /\ IsMultisig(o.pays) /\ \E k \in o.pays : k.point = who
           /\ c.tx.pays.hash = hash /\ c.tx.pays.key.point = who /\ c.tx.pays.lock = lock
  ELSE LET p == c.outs[1].pays
       IN  /\ Cardinality(p[1]) = 2 /\ \E k \in p[1] : k.point = who
           /\ p[2].hash = hash /\ p[2].key.point = who /\ p[3].lock = lock
Funding(i) ==
  Total(SeqMap(LAMBDA c : IF deal.protocol = "legacy" THEN c.outs[c.tx.spends[3]].value
                          ELSE c.outs[1].value, flow[i]))

\* What a party has gone along with is good for it, whatever one other party did: a maker that
\* has funded the next hop can claim every contract that pays it for the hash it has passed
\* on, its payer's refund comes a whole step after its own, and it has given on what it got
\* less its fees; and the taker of a finished swap can claim contracts that hold exactly what
\* the offers leave, in a payment exactly what the receiver and the settlement need.
AcceptedSound ==
  /\ \A i \in 1..funded : odd.by # i =>
       /\ \A c \in Range(flow[i]) : Claimable(c, Party(i), HashOf(i), route[i].lock + LockStep)
       /\ Funding(i + 1) = Funding(i) - FeeOf(i)
  /\ stage = "done" =>
       /\ \A c \in Range(flow[Hops + 1]) : Claimable(c, "taker", Hash, route[Hops].lock)
       /\ Funding(Hops + 1) = ExpectedAmountForHop(Hops)
       /\ deal.pay # 0 => Funding(Hops + 1) = PaidIn
       /\ \A i \in 1..Hops - 1 : route[i].lock = route[i + 1].lock + LockStep

====
