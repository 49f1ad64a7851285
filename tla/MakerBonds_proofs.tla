------------------------- MODULE MakerBonds_proofs -------------------------
(***************************************************************************)
(* Proofs about the maker's fidelity bonds, for every value of the         *)
(* constants: types, one locked bond at a time, the proof that is served,  *)
(* and what redeem_fidelity marks.                                         *)
(*                                                                         *)
(* The properties rest on an inductive invariant, IInv.  The proof that a  *)
(* step preserves it goes through what a step can do to the chain          *)
(* (MadeStep), to the wallet's entries (ListStep, RowStep), to the control *)
(* state and to the proof served; each of these is shown once for every    *)
(* action, and each conjunct of IInv follows from them.                    *)
(***************************************************************************)
EXTENDS MakerBonds, TLAPS

-----------------------------------------------------------------------------
(* The inductive invariant.                                                *)

\* The bound on the bonds ever made.
Few == Len(made) <= MaxBonds

\* The wallet file: its entries are of bonds that were made, carry the raw transaction exactly
\* until the height is stored, and are marked only once the bond has expired.
Stored ==
  \A i \in 1..Len(disk) :
    /\ disk[i].bond \in Bonds
    /\ disk[i].raw <=> disk[i].conf = 0
    /\ disk[i].spent => Expired(disk[i].bond)

\* While the maker runs, memory and file differ only in what is marked as spent.
Same ==
  /\ ~Up => bonds = <<>>
  /\ Up => /\ Len(bonds) = Len(disk)
           /\ \A i \in 1..Len(bonds) :
                /\ bonds[i].bond = disk[i].bond /\ bonds[i].conf = disk[i].conf
                /\ bonds[i].raw = disk[i].raw
                /\ bonds[i].spent => Expired(bonds[i].bond)

\* What the control state says of the rest.
Stage ==
  /\ pc = "serving" => ~startup
  /\ pc = "register" => Len(made) \in sent
  /\ pc = "confirm" => Len(bonds) > 0
  /\ queue # {} => pc \in {"finalize", "await"}
  /\ pc \in {"sync", "create"} => target <= height + Timelock

\* A bond confirms at or after the height its locktime was counted from.
Mined ==
  \A b \in Bonds :
    /\ made[b].lock <= height + Timelock
    /\ made[b].status = "mined" => made[b].at > 0 /\ made[b].lock <= made[b].at + Timelock

\* The height h is the one bond b has in the chain, unless the network moved the bond.
At(b, h) == (made[b].status = "mined" /\ made[b].at = h) \/ b \in moved

\* The heights that the wallet file stores and that the proof carries are the chain's; and a
\* server that listens, or is about to, has a proof.
Dated ==
  /\ \A i \in 1..Len(disk) : disk[i].conf # 0 => At(disk[i].bond, disk[i].conf)
  /\ proof.bond # 0 => At(proof.bond, proof.conf)
  /\ Up /\ (~startup \/ pc = "liquidity") => proof.bond # 0

\* finalize_pending_fidelity_bonds has looked at every pending bond that it is past.
Looked ==
  pc \in {"finalize", "await"} =>
    \A i \in 1..Len(bonds) : ~bonds[i].spent /\ bonds[i].conf = 0 =>
      bonds[i].bond \in skipped \/ i \in queue

\* Every bond but the last that the wallet file knows is given up or expired; and so is every
\* bond while a new one is being made.
GivenUp(b) == b \in skipped \/ Expired(b)
Old ==
  /\ \A b \in Bonds : b < Len(made) /\ Known(b) => GivenUp(b)
  /\ pc \in {"sync", "create"} => \A b \in Bonds : Known(b) => GivenUp(b)

\* The output of a bond of the wallet that is locked on chain is among the wallet's outputs,
\* unless the bond was sent since the last sync or moved by the network.
Seen ==
  \A i \in 1..Len(bonds) : LET b == bonds[i].bond IN
    Live(b) /\ made[b].out = "unspent" => b \in cache \cup sent \cup moved

IInv == TypeOK /\ Few /\ Stored /\ Same /\ Stage /\ Mined /\ Dated /\ Looked /\ Old /\ Seen

-----------------------------------------------------------------------------
(* Sequences, transactions, and what a step does to the chain.             *)

\* The chain's part of the type invariant.
Ranges == height \in 0..MaxHeight /\ owned \in 0..NCoins /\ made \in Seq(Txs)

\* The changes of a bond transaction.
WithStatus(t, s) == [t EXCEPT !.status = s]
WithOut(t, o) == [t EXCEPT !.out = o]
MinedAt(t, h) == [t EXCEPT !.status = "mined", !.at = h]

\* A function on 1..n is a sequence of length n.
LEMMA SeqFun ==
  ASSUME NEW D, NEW n \in Nat, NEW f \in [1..n -> D]
  PROVE f \in Seq(D) /\ Len(f) = n
OBVIOUS

\* Replacing one element of a sequence.
LEMMA SeqPut ==
  ASSUME NEW D, NEW s \in Seq(D), NEW i \in 1..Len(s), NEW e \in D, NEW t, t = [s EXCEPT ![i] = e]
  PROVE t \in Seq(D) /\ Len(t) = Len(s) /\ t[i] = e /\ \A j \in 1..Len(s) \ {i} : t[j] = s[j]
OBVIOUS

\* Adding an element to a sequence.
LEMMA SeqAdd ==
  ASSUME NEW D, NEW s \in Seq(D), NEW e \in D, NEW t, t = Append(s, e)
  PROVE /\ t \in Seq(D) /\ Len(t) = Len(s) + 1 /\ t[Len(s) + 1] = e
        /\ \A j \in 1..Len(s) : t[j] = s[j]
OBVIOUS

\* The elements of a sequence are in the set it ranges over.
LEMMA SeqAt ==
  ASSUME NEW D, NEW s \in Seq(D), NEW i \in 1..Len(s)
  PROVE s[i] \in D
OBVIOUS

\* A bond transaction whose status changes: evicted, put back or sent again.
LEMMA TxStatus ==
  ASSUME NEW t \in Txs, NEW s \in Statuses
  PROVE /\ WithStatus(t, s) \in Txs /\ WithStatus(t, s).status = s
        /\ WithStatus(t, s).lock = t.lock /\ WithStatus(t, s).at = t.at
        /\ WithStatus(t, s).out = t.out
BY DEF WithStatus, Txs

\* A bond transaction whose output is redeemed, or whose redemption is dropped.
LEMMA TxOut ==
  ASSUME NEW t \in Txs, NEW o \in {"unspent", "redeemed"}
  PROVE /\ WithOut(t, o) \in Txs /\ WithOut(t, o).out = o
        /\ WithOut(t, o).lock = t.lock /\ WithOut(t, o).at = t.at
        /\ WithOut(t, o).status = t.status
BY DEF WithOut, Txs

\* A bond transaction in a block.
LEMMA TxMined ==
  ASSUME NEW t \in Txs, NEW h \in 0..MaxHeight
  PROVE /\ MinedAt(t, h) \in Txs /\ MinedAt(t, h).status = "mined"
        /\ MinedAt(t, h).lock = t.lock /\ MinedAt(t, h).at = h
        /\ MinedAt(t, h).out = t.out
BY DEF MinedAt, Txs, Statuses

\* The three changes of a transaction keep its type.
LEMMA TxIn ==
  /\ \A t \in Txs, s \in Statuses : WithStatus(t, s) \in Txs
  /\ \A t \in Txs, o \in {"unspent", "redeemed"} : WithOut(t, o) \in Txs
  /\ \A t \in Txs, h \in 0..MaxHeight : MinedAt(t, h) \in Txs
BY TxStatus, TxOut, TxMined

\* What a step may do to bond b, whose transaction is t before it and u after it: the lock_time
\* stays, a height once mined at stays unless the bond is moved, a bond that is mined now is mined
\* at the new tip, and an output that is locked now was so before, or was sent or moved.
TxStep(b, t, u) ==
  /\ u.lock = t.lock
  /\ t.status = "mined" => (u.status = "mined" /\ u.at = t.at) \/ b \in moved'
  /\ u.status = "mined" =>
       (t.status = "mined" /\ u.at = t.at) \/ (u.at = height' /\ height < height')
  /\ u.status \in {"mempool", "mined"} /\ u.out = "unspent" =>
       (t.status \in {"mempool", "mined"} /\ t.out = "unspent") \/ b \in sent' \/ b \in moved'

\* create_fidelity.
NewBond ==
  /\ pc = "create" /\ pc' = "register" /\ Len(made') = Len(made) + 1 /\ Len(made') <= MaxBonds
  /\ made'[Len(made) + 1].lock = target /\ made'[Len(made) + 1].status = "mempool"
  /\ Len(made) + 1 \in sent' /\ height' = height

\* What any step may do to the chain.
MadeStep ==
  /\ made' \in Seq(Txs) /\ height' \in 0..MaxHeight /\ height <= height'
  /\ \A b \in Bonds : TxStep(b, made[b], made'[b])
  /\ moved \subseteq moved' /\ skipped \subseteq skipped'
  /\ Len(made') = Len(made) \/ NewBond

\* A transaction that does not change makes a step.
LEMMA NoChange ==
  ASSUME NEW t \in Txs, NEW b PROVE TxStep(b, t, t)
BY DEF TxStep

\* A step that changes one bond on the chain, and how.
LEMMA ChangeOne ==
  ASSUME Ranges, NEW b \in Bonds, NEW u \in Txs, made' = [made EXCEPT ![b] = u],
         height' = height, TxStep(b, made[b], u), moved \subseteq moved', skipped \subseteq skipped'
  PROVE MadeStep
<1>1. made' \in Seq(Txs) /\ Len(made') = Len(made) /\ made'[b] = u
      /\ \A c \in 1..Len(made) \ {b} : made'[c] = made[c]
  BY SeqPut DEF Ranges, Bonds
<1>2. ASSUME NEW c \in Bonds PROVE TxStep(c, made[c], made'[c])
  <2>1. made[c] \in Txs
    BY SeqAt DEF Ranges, Bonds
  <2>2. CASE c = b
    BY <1>1, <2>2
  <2>3. CASE c # b
    <3>1. made'[c] = made[c]
      BY <1>1, <2>3 DEF Bonds
    <3> QED BY <3>1, <2>1, NoChange
  <2> QED BY <2>2, <2>3
<1>3. height \in 0..MaxHeight /\ height <= height' /\ height' \in 0..MaxHeight
  BY BondAssumption DEF Ranges
<1> QED BY <1>1, <1>2, <1>3 DEF MadeStep

\* A step that leaves the chain alone; a bond may be given up.
Calm == UNCHANGED <<height, made, moved>> /\ skipped \subseteq skipped'

\* A step that leaves the chain alone.
LEMMA CalmKeeps == Ranges /\ Calm => MadeStep
<1> SUFFICES ASSUME Ranges, Calm PROVE MadeStep
  OBVIOUS
<1>1. ASSUME NEW c \in Bonds PROVE TxStep(c, made[c], made'[c])
  <2>1. made[c] \in Txs /\ made' = made
    BY SeqAt DEF Ranges, Bonds, Calm
  <2> QED BY <2>1, NoChange
<1>2. height \in 0..MaxHeight /\ height <= height' /\ height' \in 0..MaxHeight
  BY BondAssumption DEF Ranges, Calm
<1> QED BY <1>1, <1>2 DEF MadeStep, Calm, Ranges

\* A block mines some of the waiting bonds, at its own height.
LEMMA BlockStep == Ranges /\ NewBlock => MadeStep
<1> SUFFICES ASSUME Ranges, NewBlock PROVE MadeStep
  OBVIOUS
<1>0. PICK S \in SUBSET Bonds :
        made' = [b \in Bonds |-> IF b \in S THEN MinedAt(made[b], height + 1) ELSE made[b]]
        /\ \A b \in S : made[b].status = "mempool"
  BY DEF NewBlock, MinedAt
<1>h. height < MaxHeight /\ height' = height + 1 /\ moved' = moved /\ skipped' = skipped
  BY Zenon DEF NewBlock, chainFrame
<1>1. height' = height + 1 /\ height' \in 0..MaxHeight /\ height < height' /\ height <= height'
  BY <1>h, BondAssumption DEF Ranges
<1>2. \A b \in 1..Len(made) : made[b] \in Txs
  BY SeqAt DEF Ranges
<1>3. \A b \in 1..Len(made) : MinedAt(made[b], height + 1) \in Txs
  BY <1>1, <1>2, TxIn
<1>4. made' \in [1..Len(made) -> Txs] /\ Len(made) \in Nat
  BY <1>0, <1>2, <1>3 DEF Bonds, Ranges
<1>5. made' \in Seq(Txs) /\ Len(made') = Len(made)
  BY <1>4, SeqFun
<1>6. ASSUME NEW b \in Bonds PROVE TxStep(b, made[b], made'[b])
  <2>1. made[b] \in Txs
    BY <1>2 DEF Bonds
  <2>2. CASE b \in S
    <3>1. made'[b] = MinedAt(made[b], height')
      BY <1>0, <1>1, <2>2
    <3>2. made[b].status = "mempool"
      BY <1>0, <2>2
    <3> DEFINE u == MinedAt(made[b], height')
    <3>3. u.status = "mined" /\ u.lock = made[b].lock /\ u.at = height' /\ u.out = made[b].out
      BY <1>1, <2>1, TxMined
    <3> HIDE DEF u
    <3>4. TxStep(b, made[b], u)
      BY <1>1, <3>2, <3>3 DEF TxStep
    <3> QED BY <3>1, <3>4 DEF u
  <2>3. CASE b \notin S
    <3>1. made'[b] = made[b]
      BY <1>0, <2>3
    <3> QED BY <3>1, <2>1, NoChange
  <2> QED BY <2>2, <2>3
<1> QED BY <1>h, <1>1, <1>5, <1>6 DEF MadeStep

\* An eviction.
LEMMA EvictStep == ASSUME NEW b \in Bonds, Ranges, Evict(b) PROVE MadeStep
<1>1. height' = height /\ moved' = moved /\ skipped' = skipped /\ made[b].status = "mempool"
      /\ made' = [made EXCEPT ![b] = WithStatus(made[b], "evicted")]
  BY Zenon DEF Evict, chainFrame, WithStatus
<1> DEFINE u == WithStatus(made[b], "evicted")
<1>2. made[b] \in Txs
  BY SeqAt DEF Ranges, Bonds
<1>3. u \in Txs
  BY <1>2, TxIn DEF Statuses
<1>4. u.status = "evicted" /\ u.lock = made[b].lock /\ u.at = made[b].at /\ u.out = made[b].out
  BY <1>2, TxStatus DEF Statuses
<1> HIDE DEF u
<1>5. TxStep(b, made[b], u)
  BY <1>1, <1>4 DEF TxStep
<1>6. made' = [made EXCEPT ![b] = u]
  BY <1>1 DEF u
<1>7. height' = height /\ moved \subseteq moved' /\ skipped \subseteq skipped'
  BY <1>1
<1> QED BY <1>3, <1>5, <1>6, <1>7, ChangeOne

\* A reorganisation: the bond it moves is in moved.
LEMMA ReorgStep == ASSUME NEW b \in Bonds, Ranges, Reorg(b) PROVE MadeStep
<1>1. height' = height /\ moved' = moved \cup {b} /\ skipped' = skipped
      /\ made' = [made EXCEPT ![b] = WithStatus(made[b], "mempool")]
  BY Zenon DEF Reorg, chainFrame, WithStatus
<1> DEFINE u == WithStatus(made[b], "mempool")
<1>2. made[b] \in Txs
  BY SeqAt DEF Ranges, Bonds
<1>3. u \in Txs
  BY <1>2, TxIn DEF Statuses
<1>4. u.status = "mempool" /\ u.lock = made[b].lock /\ u.at = made[b].at /\ u.out = made[b].out
  BY <1>2, TxStatus DEF Statuses
<1> HIDE DEF u
<1>5. TxStep(b, made[b], u)
  BY <1>1, <1>4 DEF TxStep
<1>6. made' = [made EXCEPT ![b] = u]
  BY <1>1 DEF u
<1>7. height' = height /\ moved \subseteq moved' /\ skipped \subseteq skipped'
  BY <1>1
<1> QED BY <1>3, <1>5, <1>6, <1>7, ChangeOne

\* A dropped redemption: the bond is in moved.
LEMMA DropStep == ASSUME NEW b \in Bonds, Ranges, DropRedeem(b) PROVE MadeStep
<1>1. height' = height /\ moved' = moved \cup {b} /\ skipped' = skipped
      /\ made' = [made EXCEPT ![b] = WithOut(made[b], "unspent")]
  BY Zenon DEF DropRedeem, chainFrame, WithOut
<1> DEFINE u == WithOut(made[b], "unspent")
<1>2. made[b] \in Txs
  BY SeqAt DEF Ranges, Bonds
<1>3. u \in Txs
  BY <1>2, TxIn
<1>4. u.status = made[b].status /\ u.lock = made[b].lock /\ u.at = made[b].at /\ u.out = "unspent"
  BY <1>2, TxOut
<1> HIDE DEF u
<1>5. TxStep(b, made[b], u)
  BY <1>1, <1>4 DEF TxStep
<1>6. made' = [made EXCEPT ![b] = u]
  BY <1>1 DEF u
<1>7. height' = height /\ moved \subseteq moved' /\ skipped \subseteq skipped'
  BY <1>1
<1> QED BY <1>3, <1>5, <1>6, <1>7, ChangeOne

\* ensure_fidelity_bond_broadcast sends only a bond that is not live, and notes it in sent.
LEMMA RebroadcastStep == ASSUME Ranges, Rebroadcast, \A i \in queue : bonds[i].bond \in Bonds
  PROVE MadeStep
<1>1. height' = height /\ moved' = moved /\ skipped' = skipped
  BY Zenon DEF Rebroadcast
<1>2. CASE made' = made
  BY <1>1, <1>2, CalmKeeps DEF Calm
<1>3. ASSUME NEW b \in Bonds, made' = [made EXCEPT ![b] = WithStatus(made[b], "mempool")],
             sent' = sent \cup {b}, ~Live(b)
      PROVE MadeStep
  <2> DEFINE u == WithStatus(made[b], "mempool")
  <2>2. made[b] \in Txs
    BY SeqAt DEF Ranges, Bonds
  <2>3. u \in Txs
    BY <2>2, TxIn DEF Statuses
  <2>4. u.status = "mempool" /\ u.lock = made[b].lock /\ u.at = made[b].at /\ u.out = made[b].out
    BY <2>2, TxStatus DEF Statuses
  <2>9. made' = [made EXCEPT ![b] = u]
    BY <1>3
  <2> HIDE DEF u
  <2>5. TxStep(b, made[b], u)
    BY <1>3, <2>4 DEF TxStep, Live
  <2>7. height' = height /\ moved \subseteq moved' /\ skipped \subseteq skipped'
    BY <1>1
  <2> QED BY <2>3, <2>5, <2>9, <2>7, ChangeOne
<1>4. made' = made \/ \E i \in queue : /\ made' = [made EXCEPT ![bonds[i].bond] = WithStatus(made[bonds[i].bond], "mempool")]
                                       /\ sent' = sent \cup {bonds[i].bond} /\ ~Live(bonds[i].bond)
  BY Zenon DEF Rebroadcast, WithStatus
<1> QED BY <1>2, <1>3, <1>4

\* create_fidelity makes one new bond, with the lock_time it was given.
LEMMA CreateStep == ASSUME Ranges, target \in Nat, Create PROVE MadeStep
<1>1. height' = height /\ height \in 0..MaxHeight /\ moved' = moved /\ skipped' = skipped /\ pc = "create"
  BY DEF Create, Ranges
<1>2. CASE made' = made
  BY <1>1, <1>2, CalmKeeps DEF Calm
<1>3. ASSUME NEW c \in (1..owned) \ Taken, Len(made) < MaxBonds,
             made' = Append(made, [coin |-> c, lock |-> target, status |-> "mempool",
                                   at |-> 0, out |-> "unspent"]),
             sent' = sent \cup {Len(made) + 1}, pc' = "register"
      PROVE MadeStep
  <2> DEFINE t == [coin |-> c, lock |-> target, status |-> "mempool", at |-> 0, out |-> "unspent"]
  <2>1. t \in Txs
    BY BondAssumption DEF Ranges, Txs, Statuses
  <2>2. t.lock = target /\ t.status = "mempool"
    OBVIOUS
  <2>3. made' = Append(made, t)
    BY <1>3
  <2> HIDE DEF t
  <2>4. made' \in Seq(Txs) /\ Len(made') = Len(made) + 1 /\ made'[Len(made) + 1] = t
        /\ \A b \in 1..Len(made) : made'[b] = made[b]
    BY <2>1, <2>3, SeqAdd DEF Ranges
  <2>6. ASSUME NEW b \in Bonds PROVE TxStep(b, made[b], made'[b])
    <3>1. made[b] \in Txs /\ made'[b] = made[b]
      BY <2>4, SeqAt DEF Ranges, Bonds
    <3> QED BY <3>1, NoChange
  <2>7. NewBond
    <3>1. Len(made) \in Nat /\ Len(made) + 1 <= MaxBonds
      BY <1>3, BondAssumption DEF Ranges
    <3> QED BY <1>1, <1>3, <2>2, <2>4, <3>1 DEF NewBond
  <2>8. height <= height' /\ height' \in 0..MaxHeight /\ moved \subseteq moved' /\ skipped \subseteq skipped'
    BY <1>1, BondAssumption
  <2> QED BY <2>8, <2>4, <2>6, <2>7 DEF MadeStep
<1> QED BY <1>2, <1>3, Zenon DEF Create

\* redeem_fidelity changes outputs only.
LEMMA RedeemStep == ASSUME Ranges, NEW S, RedeemFidelity(S), UNCHANGED <<height, ghosts>>
  PROVE MadeStep
<1>1. height' = height /\ moved' = moved /\ skipped' = skipped
  BY DEF ghosts
<1>2. made' = [b \in Bonds |-> IF b \in cache /\ \E i \in S : bonds[i].bond = b
                              THEN WithOut(made[b], "redeemed") ELSE made[b]]
  BY Zenon DEF RedeemFidelity, WithOut
<1>3. \A b \in 1..Len(made) : made[b] \in Txs
  BY SeqAt DEF Ranges
<1>4. \A b \in 1..Len(made) : WithOut(made[b], "redeemed") \in Txs
  BY <1>3, TxIn
<1>5. made' \in [1..Len(made) -> Txs] /\ Len(made) \in Nat
  BY <1>2, <1>3, <1>4 DEF Bonds, Ranges
<1>6. made' \in Seq(Txs) /\ Len(made') = Len(made)
  BY <1>5, SeqFun
<1>7. ASSUME NEW b \in Bonds PROVE TxStep(b, made[b], made'[b])
  <2>1. made[b] \in Txs
    BY <1>3 DEF Bonds
  <2> DEFINE u == WithOut(made[b], "redeemed")
  <2>2. u.status = made[b].status /\ u.lock = made[b].lock /\ u.at = made[b].at /\ u.out = "redeemed"
    BY <2>1, TxOut
  <2>3. made'[b] = made[b] \/ made'[b] = u
    BY <1>2
  <2> HIDE DEF u
  <2>4. TxStep(b, made[b], u)
    BY <2>2 DEF TxStep
  <2> QED BY <2>1, <2>3, <2>4, NoChange
<1>8. height <= height' /\ height' \in 0..MaxHeight
  BY <1>1, BondAssumption DEF Ranges
<1> QED BY <1>1, <1>6, <1>7, <1>8 DEF MadeStep

-----------------------------------------------------------------------------
(* What a step does to the wallet's entries.                               *)

\* The wallet's part of the type invariant.
Lists == bonds \in Seq(Entries) /\ disk \in Seq(Entries)

\* The changes of an entry of store.fidelity_bond, and the entry of a new bond.
WithConf(e, h) == [e EXCEPT !.conf = h, !.raw = FALSE]
WithSpent(e) == [e EXCEPT !.spent = TRUE]
NewEntry == [bond |-> Len(made), conf |-> 0, spent |-> FALSE, raw |-> TRUE]

\* The ways in which a step changes store.fidelity_bond in memory and in the wallet file.
Kept == bonds' = bonds /\ disk' = disk /\ (Up' <=> Up)
Saved == Up /\ Up' /\ bonds' = bonds /\ disk' = bonds
Gone == Up /\ ~Up' /\ bonds' = <<>> /\ (disk' = disk \/ disk' = bonds)
Loaded == ~Up /\ Up' /\ bonds' = disk /\ disk' = disk
Registered ==
  /\ pc = "register" /\ pc' = "confirm" /\ made' = made
  /\ bonds' = Append(bonds, NewEntry) /\ disk' = bonds'
DatedAt(i) ==
  /\ Up /\ Up' /\ made' = made /\ made[bonds[i].bond].status = "mined"
  /\ bonds' = [bonds EXCEPT ![i] = WithConf(bonds[i], made[bonds[i].bond].at)] /\ disk' = bonds'
Marked(S) ==
  /\ Up /\ Up' /\ S \subseteq Redeemable /\ disk' = disk
  /\ bonds' = [i \in 1..Len(bonds) |-> IF i \in S THEN WithSpent(bonds[i]) ELSE bonds[i]]
  /\ made' = [b \in Bonds |-> IF b \in cache /\ \E i \in S : bonds[i].bond = b
                              THEN WithOut(made[b], "redeemed") ELSE made[b]]
ListStep ==
  \/ Kept \/ Saved \/ Gone \/ Loaded \/ Registered
  \/ \E i \in 1..Len(bonds) : DatedAt(i)
  \/ \E S \in SUBSET Redeemable : Marked(S)

\* Every step of the maker and of the network moves the chain by a MadeStep.
LEMMA EveryStepMade ==
  ASSUME Ranges, target \in Nat, \A i \in queue : bonds[i].bond \in Bonds, [Next]_vars
  PROVE MadeStep
<1> SUFFICES ASSUME Next \/ UNCHANGED vars PROVE MadeStep
  OBVIOUS
<1>1. CASE Deposit \/ BeginSetup \/ FinalizeConfirmed \/ UseHighest \/ BeginCreate
           \/ Register \/ CreateConfirmed
  <2>1. Calm
    BY <1>1, Zenon DEF Calm, chain, ghosts, chainFrame, Deposit, BeginSetup, FinalizeConfirmed,
                       UseHighest, BeginCreate, Register, CreateConfirmed
  <2> QED BY <2>1, CalmKeeps
<1>2. CASE Start \/ CreateSync \/ Liquidity \/ SwapEnds
  <2>1. Calm
    BY <1>2, Zenon DEF Calm, chain, Start, CreateSync, Liquidity, SwapEnds
  <2> QED BY <2>1, CalmKeeps
<1>3. CASE Announce \/ SwapStarts \/ UNCHANGED vars
  <2>1. Calm
    BY <1>3, Zenon DEF Calm, vars, chain, ghosts, Announce, SwapStarts
  <2> QED BY <2>1, CalmKeeps
<1>4. CASE FinalizeTimesOut \/ CreateTimesOut
  <2>1. Calm
    BY <1>4, Zenon DEF Calm, chain, ghosts, FinalizeTimesOut, CreateTimesOut
  <2> QED BY <2>1, CalmKeeps
<1>5. CASE BackendFails \/ Stop \/ Crash
  <2>1. Calm
    BY <1>5, Zenon DEF Calm, chain, ghosts, BackendFails, Stop, Crash, Down
  <2> QED BY <2>1, CalmKeeps
<1>6. CASE NewBlock
  BY <1>6, BlockStep
<1>7. ASSUME NEW b \in Bonds, Evict(b) \/ Reorg(b) \/ DropRedeem(b) PROVE MadeStep
  BY <1>7, EvictStep, ReorgStep, DropStep
<1>8. CASE Rebroadcast
  BY <1>8, RebroadcastStep
<1>9. CASE Create
  BY <1>9, CreateStep
<1>10. CASE RenewalTick
  <2>1. RedeemFidelity(Redeemable) /\ UNCHANGED <<height, ghosts>>
    BY <1>10, Zenon DEF RenewalTick
  <2> QED BY <2>1, RedeemStep
<1>11. CASE RedeemFails
  <2>1. PICK i \in Redeemable : RedeemFidelity({j \in Redeemable : j < i}) /\ UNCHANGED <<height, ghosts>>
    BY <1>11, Zenon DEF RedeemFails
  <2> QED BY <2>1, RedeemStep
<1> QED
  BY <1>1, <1>2, <1>3, <1>4, <1>5, <1>6, <1>7, <1>8, <1>9, <1>10, <1>11
  DEF Next, Network, Setup, Threads, Errors

\* Every step changes the wallet's list of bonds in one of the seven ways.
LEMMA EveryStepLists ==
  ASSUME [Next]_vars, queue \subseteq 1..Len(bonds),
         pc = "confirm" => Len(bonds) \in 1..Len(bonds), Same
  PROVE ListStep
<1> SUFFICES ASSUME Next \/ UNCHANGED vars PROVE ListStep
  OBVIOUS
<1>1. CASE NewBlock \/ Deposit \/ \E b \in Bonds : Evict(b) \/ Reorg(b) \/ DropRedeem(b)
  <2>1. Kept
    BY <1>1, Zenon DEF Kept, Up, NewBlock, Deposit, Evict, Reorg, DropRedeem, chainFrame, wallet,
       setup
  <2> QED BY <2>1 DEF ListStep
<1>2. CASE BeginSetup \/ UseHighest \/ BeginCreate \/ Create \/ FinalizeTimesOut
  <2>1. bonds' = bonds /\ disk' = disk
    BY <1>2, Zenon DEF BeginSetup, UseHighest, BeginCreate, Create, FinalizeTimesOut, wallet
  <2>2. pc # "down" /\ pc' # "down"
    BY <1>2 DEF BeginSetup, UseHighest, BeginCreate, Create, FinalizeTimesOut
  <2> QED BY <2>1, <2>2 DEF ListStep, Kept, Up
<1>3. CASE Announce \/ SwapStarts \/ UNCHANGED vars
  <2>1. Kept
    BY <1>3, Zenon DEF Kept, Up, Announce, SwapStarts, vars, wallet, setup
  <2> QED BY <2>1 DEF ListStep
<1>4. CASE CreateSync \/ Liquidity \/ SwapEnds
  <2>1. bonds' = bonds /\ disk' = bonds
    BY <1>4, Zenon DEF CreateSync, Liquidity, SwapEnds, SyncAndSave
  <2>2. pc # "down" /\ pc' # "down"
    BY <1>4 DEF CreateSync, Liquidity, SwapEnds, Listening, Up, setup
  <2> QED BY <2>1, <2>2 DEF ListStep, Saved, Up
<1>5. CASE CreateTimesOut \/ BackendFails
  <2>1. pc # "down" /\ disk' = disk
    BY <1>5 DEF CreateTimesOut, BackendFails, SetupFails
  <2>2. (pc' = "down" /\ bonds' = <<>>) \/ (pc' = "serving" /\ bonds' = bonds)
    BY <1>5, Zenon DEF CreateTimesOut, BackendFails, SetupFails
  <2> QED BY <2>1, <2>2 DEF ListStep, Kept, Gone, Up
<1>6. CASE Rebroadcast
  <2>1. pc # "down" /\ disk' = disk
    BY <1>6, Zenon DEF Rebroadcast, SetupFails, wallet
  <2>2. (pc' = "down" /\ bonds' = <<>>) \/ (pc' \in {"serving", "await"} /\ bonds' = bonds)
    BY <1>6, Zenon DEF Rebroadcast, SetupFails, wallet
  <2> QED BY <2>1, <2>2 DEF ListStep, Kept, Gone, Up
<1>7. CASE Stop \/ Crash
  BY <1>7 DEF ListStep, Gone, Stop, Crash, Down, Up, Listening
<1>8. CASE Start
  BY <1>8 DEF ListStep, Loaded, Start, Up
<1>9. CASE Register
  BY <1>9 DEF ListStep, Registered, Register, NewEntry, chain
<1>10. CASE FinalizeConfirmed
  <2>1. PICK i \in queue :
          /\ bonds' = [bonds EXCEPT ![i] = WithConf(bonds[i], made[bonds[i].bond].at)] /\ disk' = bonds'
          /\ made[bonds[i].bond].status = "mined"
    BY <1>10, Zenon DEF FinalizeConfirmed, Confirmed, WithConf
  <2>2. pc # "down" /\ pc' # "down" /\ made' = made
    BY <1>10 DEF FinalizeConfirmed, chain
  <2> QED BY <2>1, <2>2 DEF ListStep, DatedAt, Up
<1>11. CASE CreateConfirmed
  <2>1. LET i == Len(bonds) IN
          /\ bonds' = [bonds EXCEPT ![i] = WithConf(bonds[i], made[bonds[i].bond].at)] /\ disk' = bonds'
          /\ made[bonds[i].bond].status = "mined"
    BY <1>11, Zenon DEF CreateConfirmed, WithConf
  <2>2. pc # "down" /\ pc' # "down" /\ made' = made
    BY <1>11 DEF CreateConfirmed, chain
  <2>3. Len(bonds) \in 1..Len(bonds)
    BY <1>11 DEF CreateConfirmed
  <2> QED BY <2>1, <2>2, <2>3 DEF ListStep, DatedAt, Up
<1>12. CASE RenewalTick
  <2>1. /\ bonds' = [i \in 1..Len(bonds) |-> IF i \in Redeemable THEN WithSpent(bonds[i]) ELSE bonds[i]]
        /\ made' = [b \in Bonds |-> IF b \in cache /\ \E i \in Redeemable : bonds[i].bond = b
                                    THEN WithOut(made[b], "redeemed") ELSE made[b]]
    BY <1>12, Zenon DEF RenewalTick, RedeemFidelity, WithSpent, WithOut
  <2>2. disk' = disk /\ pc # "down" /\ pc' # "down"
    BY <1>12, Zenon DEF RenewalTick
  <2> QED BY <2>1, <2>2 DEF ListStep, Marked, Up
<1>13. CASE RedeemFails
  <2>1. PICK k \in Redeemable : RedeemFidelity({j \in Redeemable : j < k})
    BY <1>13, Zenon DEF RedeemFails
  <2> DEFINE S == {j \in Redeemable : j < k}
  <2>3. /\ bonds' = [i \in 1..Len(bonds) |-> IF i \in S THEN WithSpent(bonds[i]) ELSE bonds[i]]
        /\ made' = [b \in Bonds |-> IF b \in cache /\ \E i \in S : bonds[i].bond = b
                                    THEN WithOut(made[b], "redeemed") ELSE made[b]]
    BY <2>1, Zenon DEF RedeemFidelity, WithSpent, WithOut
  <2>4. S \subseteq Redeemable
    OBVIOUS
  <2> HIDE DEF S
  <2>2. disk' = disk /\ pc # "down" /\ pc' # "down"
    BY <1>13, Zenon DEF RedeemFails, setup
  <2> QED BY <2>2, <2>3, <2>4 DEF ListStep, Marked, Up
<1> QED
  BY <1>1, <1>2, <1>3, <1>4, <1>5, <1>6, <1>7, <1>8, <1>9, <1>10, <1>11, <1>12, <1>13
  DEF Next, Network, Setup, Threads, Errors

-----------------------------------------------------------------------------
(* The entries, row by row.                                                *)

\* The fields of an entry of store.fidelity_bond.
LEMMA EntryFields ==
  ASSUME NEW e \in Entries
  PROVE /\ e.bond \in 1..MaxBonds /\ e.conf \in 0..MaxHeight
        /\ e.spent \in BOOLEAN /\ e.raw \in BOOLEAN
BY DEF Entries

\* The fields of a bond transaction.
LEMMA TxFields ==
  ASSUME NEW t \in Txs
  PROVE t.lock \in Nat /\ t.status \in Statuses /\ t.at \in 0..MaxHeight
BY DEF Txs

\* update_fidelity_bond_conf_details on one entry.
LEMMA EntryConf ==
  ASSUME NEW e \in Entries, NEW h \in 0..MaxHeight
  PROVE /\ WithConf(e, h) \in Entries /\ WithConf(e, h).bond = e.bond
        /\ WithConf(e, h).conf = h /\ WithConf(e, h).spent = e.spent /\ WithConf(e, h).raw = FALSE
BY DEF WithConf, Entries

\* is_spent set on one entry.
LEMMA EntrySpent ==
  ASSUME NEW e \in Entries
  PROVE /\ WithSpent(e) \in Entries /\ WithSpent(e).bond = e.bond
        /\ WithSpent(e).conf = e.conf /\ WithSpent(e).spent = TRUE /\ WithSpent(e).raw = e.raw
BY DEF WithSpent, Entries

\* Both keep the type of an entry.
LEMMA EntryIn ==
  /\ \A e \in Entries, h \in 0..MaxHeight : WithConf(e, h) \in Entries
  /\ \A e \in Entries : WithSpent(e) \in Entries
BY EntryConf, EntrySpent

\* The entry create_fidelity stores.
LEMMA NewEntryIs ==
  ASSUME Len(made) \in 1..MaxBonds
  PROVE /\ NewEntry \in Entries /\ NewEntry.bond = Len(made) /\ NewEntry.conf = 0
        /\ NewEntry.spent = FALSE /\ NewEntry.raw = TRUE
BY BondAssumption DEF NewEntry, Entries

\* What any step may do to the rows of the wallet file: a row may be added, a height stored, and an
\* expired bond marked.
RowStep ==
  /\ Len(disk') = Len(disk)
     \/ (Registered /\ Len(disk') = Len(disk) + 1 /\ disk'[Len(disk) + 1] = NewEntry)
  /\ \A i \in 1..Len(disk) :
      /\ disk'[i].bond = disk[i].bond
      /\ disk'[i].spent => Expired(disk[i].bond)
      /\ \/ disk'[i].conf = disk[i].conf /\ disk'[i].raw = disk[i].raw
         \/ /\ made' = made /\ made[disk[i].bond].status = "mined"
            /\ disk'[i].conf = made[disk[i].bond].at /\ disk'[i].raw = FALSE

\* One row of the wallet, in memory (m) and in the file (d).
SameRow(m, d) == /\ m.bond = d.bond /\ m.conf = d.conf /\ m.raw = d.raw
                 /\ m.spent => Expired(m.bond)
SameRows == Len(bonds) = Len(disk) /\ \A i \in 1..Len(bonds) : SameRow(bonds[i], disk[i])

\* What most of the lemmas need of the state before the step.
Context == Ranges /\ Lists /\ Few /\ Stored /\ Same /\ Stage /\ sent \subseteq Bonds

\* Same, row by row.
LEMMA SameIsRows == Same => (Up => SameRows) /\ (~Up => bonds = <<>>)
BY DEF Same, SameRows, SameRow

\* Stored, for one row.
LEMMA StoredRow == ASSUME Stored, NEW i \in 1..Len(disk)
  PROVE disk[i].bond \in Bonds /\ (disk[i].spent => Expired(disk[i].bond)) /\ (disk[i].raw <=> disk[i].conf = 0)
BY DEF Stored

\* The wallet file is not written.
LEMMA RowsKept == ASSUME Context, disk' = disk PROVE RowStep
<1>1. ASSUME NEW i \in 1..Len(disk) PROVE disk[i].spent => Expired(disk[i].bond)
  BY StoredRow DEF Context
<1> QED BY <1>1 DEF RowStep

\* The wallet file is written from memory, where only is_spent may differ.
LEMMA RowsSaved == ASSUME Context, Up, disk' = bonds PROVE RowStep
<1>1. SameRows
  BY SameIsRows DEF Context
<1>2. Len(disk') = Len(disk)
  BY <1>1 DEF SameRows
<1>3. ASSUME NEW i \in 1..Len(disk) PROVE SameRow(disk'[i], disk[i])
  BY <1>1 DEF SameRows
<1> QED BY <1>2, <1>3 DEF RowStep, SameRow

\* A new bond is stored and saved.
LEMMA RowsRegistered == ASSUME Context, Registered PROVE RowStep /\ Lists'
<1>0. bonds' = Append(bonds, NewEntry) /\ disk' = bonds' /\ pc = "register" /\ Up
  BY DEF Registered, Up
<1>1. SameRows
  BY <1>0, SameIsRows DEF Context
<1>2. NewEntry \in Entries
  <2>1. Len(made) \in Bonds
    BY <1>0 DEF Context, Stage
  <2>2. Len(made) \in 1..MaxBonds
    BY <2>1, BondAssumption DEF Context, Few, Bonds, Ranges
  <2> QED BY <2>2, NewEntryIs
<1>3. bonds' \in Seq(Entries) /\ Len(bonds') = Len(bonds) + 1 /\ bonds'[Len(bonds) + 1] = NewEntry
      /\ \A j \in 1..Len(bonds) : bonds'[j] = bonds[j]
  BY <1>0, <1>2, SeqAdd DEF Context, Lists
<1>4. Len(bonds) = Len(disk)
  BY <1>1 DEF SameRows
<1>5. ASSUME NEW i \in 1..Len(disk) PROVE SameRow(disk'[i], disk[i])
  BY <1>0, <1>1, <1>3, <1>4 DEF SameRows
<1>6. Len(disk') = Len(disk) + 1 /\ disk'[Len(disk) + 1] = NewEntry
  BY <1>0, <1>3, <1>4
<1> QED BY <1>0, <1>3, <1>5, <1>6 DEF RowStep, SameRow, Lists

\* An entry in memory is of a bond that was made.
LEMMA BondsIn == ASSUME Context, NEW i \in 1..Len(bonds)
  PROVE bonds[i].bond \in Bonds /\ bonds[i] \in Entries /\ made[bonds[i].bond] \in Txs
<1>0. Up
  BY SameIsRows DEF Context
<1>1. SameRows
  BY <1>0, SameIsRows DEF Context
<1>2. i \in 1..Len(disk) /\ bonds[i].bond = disk[i].bond
  BY <1>1 DEF SameRows, SameRow
<1>3. bonds[i].bond \in Bonds
  BY <1>2, StoredRow DEF Context
<1>4. bonds[i] \in Entries
  BY SeqAt DEF Context, Lists
<1>5. made[bonds[i].bond] \in Txs
  BY <1>3, SeqAt DEF Context, Ranges, Bonds
<1> QED BY <1>3, <1>4, <1>5

\* A confirmation height is stored and saved.
LEMMA RowsDated == ASSUME Context, NEW i \in 1..Len(bonds), DatedAt(i) PROVE RowStep /\ Lists'
<1> DEFINE h == made[bonds[i].bond].at
           e == WithConf(bonds[i], h)
<1>0. bonds' = [bonds EXCEPT ![i] = e] /\ disk' = bonds' /\ Up /\ made' = made
      /\ made[bonds[i].bond].status = "mined"
  BY DEF DatedAt
<1>1. SameRows
  BY <1>0, SameIsRows DEF Context
<1>2. bonds[i] \in Entries /\ made[bonds[i].bond] \in Txs
  BY BondsIn
<1>h. h \in 0..MaxHeight
  BY <1>2, TxFields
<1> HIDE DEF h
<1>3. e \in Entries
  BY <1>2, <1>h, EntryIn
<1>4. e.bond = bonds[i].bond /\ e.conf = h /\ e.spent = bonds[i].spent /\ e.raw = FALSE
  BY <1>2, <1>h, EntryConf
<1> HIDE DEF e
<1>5. bonds' \in Seq(Entries) /\ Len(bonds') = Len(bonds) /\ bonds'[i] = e
      /\ \A j \in 1..Len(bonds) \ {i} : bonds'[j] = bonds[j]
  BY <1>0, <1>3, SeqPut DEF Context, Lists
<1>6. Len(bonds) = Len(disk)
  BY <1>1 DEF SameRows
<1>7. SameRow(bonds[i], disk[i])
  BY <1>1 DEF SameRows
<1>8. ASSUME NEW j \in 1..Len(disk) \ {i} PROVE SameRow(disk'[j], disk[j])
  <2>1. SameRow(bonds[j], disk[j])
    BY <1>1, <1>6 DEF SameRows
  <2>2. disk'[j] = bonds[j]
    BY <1>0, <1>5, <1>6
  <2> QED BY <2>1, <2>2
<1>9. disk'[i].bond = disk[i].bond /\ disk'[i].conf = made[disk[i].bond].at /\ disk'[i].raw = FALSE
      /\ (disk'[i].spent => Expired(disk[i].bond)) /\ made[disk[i].bond].status = "mined"
  BY <1>0, <1>4, <1>5, <1>7 DEF SameRow, h
<1>10. Len(disk') = Len(disk)
  BY <1>0, <1>5, <1>6
<1> QED BY <1>0, <1>5, <1>8, <1>9, <1>10 DEF RowStep, SameRow, Lists

\* redeem_expired_fidelity_bonds marks entries in memory and saves nothing.
LEMMA RowsMarked == ASSUME Context, NEW S \in SUBSET Redeemable, Marked(S)
  PROVE /\ RowStep /\ Lists' /\ Len(bonds') = Len(bonds)
        /\ \A i \in 1..Len(bonds) : bonds'[i] = IF i \in S THEN WithSpent(bonds[i]) ELSE bonds[i]
<1>0. disk' = disk /\ bonds' = [i \in 1..Len(bonds) |-> IF i \in S THEN WithSpent(bonds[i]) ELSE bonds[i]]
  BY DEF Marked
<1>1. \A i \in 1..Len(bonds) : bonds[i] \in Entries
  BY BondsIn
<1>2. \A i \in 1..Len(bonds) : WithSpent(bonds[i]) \in Entries
  BY <1>1, EntryIn
<1>3. bonds' \in [1..Len(bonds) -> Entries] /\ Len(bonds) \in Nat
  BY <1>0, <1>1, <1>2 DEF Context, Lists
<1>4. bonds' \in Seq(Entries) /\ Len(bonds') = Len(bonds)
  BY <1>3, SeqFun
<1>5. \A i \in 1..Len(bonds) : bonds'[i] = IF i \in S THEN WithSpent(bonds[i]) ELSE bonds[i]
  BY <1>0
<1>6. RowStep
  BY <1>0, RowsKept
<1> QED BY <1>0, <1>4, <1>5, <1>6 DEF Context, Lists

\* Whatever the step, the rows of the wallet file move by a RowStep.
LEMMA Rows == ASSUME Context, ListStep PROVE RowStep /\ Lists'
<1>1. CASE Kept
  <2>1. disk' = disk /\ bonds' = bonds
    BY <1>1 DEF Kept
  <2> QED BY <2>1, RowsKept DEF Context, Lists
<1>2. CASE Saved
  <2>1. disk' = bonds /\ bonds' = bonds /\ Up
    BY <1>2 DEF Saved
  <2> QED BY <2>1, RowsSaved DEF Context, Lists
<1>3. CASE Gone
  <2>1. (disk' = bonds \/ disk' = disk) /\ bonds' = <<>> /\ Up
    BY <1>3 DEF Gone
  <2>2. RowStep
    BY <2>1, RowsSaved, RowsKept
  <2> QED BY <2>1, <2>2 DEF Context, Lists
<1>4. CASE Loaded
  <2>1. disk' = disk /\ bonds' = disk
    BY <1>4 DEF Loaded
  <2> QED BY <2>1, RowsKept DEF Context, Lists
<1> QED BY <1>1, <1>2, <1>3, <1>4, RowsRegistered, RowsDated, RowsMarked DEF ListStep

\* Expiry is for good: the chain only grows and a lock_time never changes.
LEMMA StaysExpired == ASSUME Ranges, MadeStep, NEW b \in Bonds, Expired(b)
  PROVE Expired(b)' /\ b \in Bonds'
<1>1. made[b] \in Txs /\ b \in 1..Len(made)
  BY SeqAt DEF Ranges, Bonds
<1>2. made[b].lock \in Nat
  BY <1>1, TxFields
<1>3. made'[b].lock = made[b].lock /\ height <= height' /\ height' \in 0..MaxHeight
  BY DEF MadeStep, TxStep
<1>4. Len(made) \in Nat /\ Len(made') \in Nat /\ Len(made) <= Len(made')
  BY DEF MadeStep, NewBond, Ranges
<1>5. height' > made'[b].lock
  BY <1>2, <1>3, BondAssumption DEF Expired, Ranges
<1>6. b \in 1..Len(made')
  BY <1>1, <1>4
<1> QED BY <1>5, <1>6 DEF Expired, Bonds

\* No bond is forgotten.
LEMMA MadeGrows == ASSUME Ranges, MadeStep
  PROVE Bonds \subseteq Bonds' /\ Len(made) <= Len(made') /\ Len(made) \in Nat /\ Len(made') \in Nat
BY DEF MadeStep, NewBond, Ranges, Bonds

-----------------------------------------------------------------------------
(* Stored, Same and Mined.                                                 *)

\* Stored in the next state, with its definitions expanded.
LEMMA StoredIs == ASSUME \A i \in 1..Len(disk') :
                           /\ disk'[i].bond \in Bonds'
                           /\ disk'[i].raw <=> disk'[i].conf = 0
                           /\ disk'[i].spent => height' > made'[disk'[i].bond].lock
  PROVE Stored'
BY DEF Stored, Expired

\* A row that was in the wallet file before the step.
LEMMA OldRow == ASSUME Context, Mined, MadeStep, RowStep, NEW i \in 1..Len(disk)
  PROVE /\ disk'[i].bond = disk[i].bond /\ disk[i].bond \in Bonds /\ disk'[i].bond \in Bonds'
        /\ disk'[i].raw <=> disk'[i].conf = 0
        /\ disk'[i].spent => height' > made'[disk'[i].bond].lock
<1> DEFINE b == disk[i].bond
<1>1. b \in Bonds /\ (disk[i].raw <=> disk[i].conf = 0)
  BY StoredRow DEF Context
<1>2. disk'[i].bond = b /\ (disk'[i].spent => Expired(b))
  BY DEF RowStep
<1>3. \/ disk'[i].conf = disk[i].conf /\ disk'[i].raw = disk[i].raw
      \/ /\ made[b].status = "mined"
         /\ disk'[i].conf = made[b].at /\ disk'[i].raw = FALSE
  BY DEF RowStep
<1> HIDE DEF b
<1>4. b \in Bonds'
  BY <1>1, MadeGrows DEF Context
<1>5. disk'[i].spent => height' > made'[b].lock
  BY <1>1, <1>2, StaysExpired DEF Context, Expired
<1>6. made[b].status = "mined" => made[b].at > 0
  BY <1>1 DEF Mined
<1>7. made[b] \in Txs
  BY <1>1, SeqAt DEF Context, Ranges, Bonds
<1>8. made[b].at \in 0..MaxHeight
  BY <1>7, TxFields
<1>9. disk'[i].raw <=> disk'[i].conf = 0
  <2>1. CASE disk'[i].conf = disk[i].conf /\ disk'[i].raw = disk[i].raw
    BY <2>1, <1>1
  <2>2. CASE made[b].status = "mined" /\ disk'[i].conf = made[b].at /\ disk'[i].raw = FALSE
    <3>1. disk'[i].conf # 0
      BY <2>2, <1>6, <1>8, BondAssumption
    <3> QED BY <2>2, <3>1
  <2> QED BY <1>3, <2>1, <2>2
<1>10. disk[i].bond \in Bonds
  BY <1>1 DEF b
<1>11. disk'[i].bond = disk[i].bond
  BY <1>2 DEF b
<1> QED BY <1>2, <1>4, <1>5, <1>9, <1>10, <1>11

\* A row that is new in the wallet file is the one Register adds.
LEMMA NewRow == ASSUME Context, MadeStep, RowStep, NEW i \in 1..Len(disk'), i \notin 1..Len(disk)
  PROVE /\ Registered /\ i = Len(disk) + 1 /\ disk'[i].bond = Len(made) /\ Len(made) \in Bonds
        /\ disk'[i].conf = 0 /\ disk'[i].raw = TRUE /\ disk'[i].spent = FALSE /\ Len(made') = Len(made)
<1>1. Len(disk) \in Nat /\ Len(made) \in Nat
  BY DEF Context, Lists, Ranges
<1>2. Registered /\ i = Len(disk) + 1 /\ disk'[i] = NewEntry
  BY <1>1 DEF RowStep
<1>3. Len(made) \in Bonds /\ Len(made') = Len(made)
  BY <1>2 DEF Registered, Context, Stage
<1>4. Len(made) \in 1..MaxBonds
  BY <1>1, <1>3, BondAssumption DEF Context, Few, Bonds
<1> QED BY <1>1, <1>2, <1>3, <1>4, NewEntryIs

\* Stored is preserved.
LEMMA StepStored == ASSUME Context, Mined, MadeStep, RowStep PROVE Stored'
<1>1. ASSUME NEW i \in 1..Len(disk')
      PROVE /\ disk'[i].bond \in Bonds'
            /\ disk'[i].raw <=> disk'[i].conf = 0
            /\ disk'[i].spent => height' > made'[disk'[i].bond].lock
  <2>1. CASE i \in 1..Len(disk)
    BY <2>1, OldRow
  <2>2. CASE i \notin 1..Len(disk)
    <3>1. disk'[i].bond = Len(made) /\ Len(made) \in Bonds /\ disk'[i].conf = 0
          /\ disk'[i].raw = TRUE /\ disk'[i].spent = FALSE
      BY <2>2, NewRow
    <3>2. Bonds \subseteq Bonds'
      BY MadeGrows DEF Context
    <3> QED BY <3>1, <3>2
  <2> QED BY <2>1, <2>2
<1> QED BY <1>1, StoredIs

\* Same in the next state, with its definitions expanded.
LEMMA SameIs ==
  ASSUME \/ ~Up' /\ bonds' = <<>>
         \/ /\ Up' /\ Len(bonds') = Len(disk')
            /\ \A i \in 1..Len(bonds') :
                 /\ bonds'[i].bond = disk'[i].bond /\ bonds'[i].conf = disk'[i].conf
                 /\ bonds'[i].raw = disk'[i].raw
                 /\ bonds'[i].spent => height' > made'[bonds'[i].bond].lock
  PROVE Same'
BY DEF Same, Up, Expired

\* Same is preserved: memory and file differ in is_spent only.
LEMMA StepSame == ASSUME Context, Mined, MadeStep, ListStep, RowStep, Stored' PROVE Same'
<1>0. ASSUME NEW i \in 1..Len(disk') PROVE disk'[i].spent => height' > made'[disk'[i].bond].lock
  BY DEF Stored, Expired
<1>1. CASE disk' = bonds' /\ Up'
  BY <1>0, <1>1, SameIs
<1>2. CASE ~Up' /\ bonds' = <<>>
  BY <1>2, SameIs
<1>3. CASE Kept
  <2>1. CASE ~Up
    BY <2>1, <1>3, <1>2, SameIsRows DEF Context, Kept
  <2>2. CASE Up
    <3>1. SameRows /\ bonds' = bonds /\ disk' = disk /\ Up'
      BY <2>2, <1>3, SameIsRows DEF Context, Kept
    <3>2. ASSUME NEW i \in 1..Len(bonds) PROVE bonds[i].spent => height' > made'[bonds[i].bond].lock
      <4>1. bonds[i].spent => Expired(bonds[i].bond)
        BY <3>1 DEF SameRows, SameRow
      <4>2. bonds[i].bond \in Bonds
        BY BondsIn
      <4>3. Ranges
        BY DEF Context
      <4> QED BY <4>1, <4>2, <4>3, StaysExpired DEF Expired
    <3>3. \A i \in 1..Len(bonds) : bonds[i].bond = disk[i].bond /\ bonds[i].conf = disk[i].conf
          /\ bonds[i].raw = disk[i].raw
      BY <3>1 DEF SameRows, SameRow
    <3>4. Len(bonds) = Len(disk)
      BY <3>1 DEF SameRows
    <3> QED BY <3>1, <3>2, <3>3, <3>4, SameIs
  <2> QED BY <2>1, <2>2
<1>4. ASSUME NEW S \in SUBSET Redeemable, Marked(S) PROVE Same'
  <2>1. Up /\ Up' /\ disk' = disk
    BY <1>4 DEF Marked
  <2>2. SameRows
    BY <2>1, SameIsRows DEF Context
  <2>3. Len(bonds') = Len(bonds) /\ Len(bonds) = Len(disk)
    BY <1>4, <2>2, RowsMarked DEF SameRows
  <2>4. ASSUME NEW i \in 1..Len(bonds)
        PROVE /\ bonds'[i].bond = disk'[i].bond /\ bonds'[i].conf = disk'[i].conf
              /\ bonds'[i].raw = disk'[i].raw
              /\ bonds'[i].spent => height' > made'[bonds'[i].bond].lock
    <3> DEFINE e == WithSpent(bonds[i])
    <3>1. bonds[i] \in Entries /\ bonds[i].bond \in Bonds
      BY BondsIn
    <3>2. e.bond = bonds[i].bond /\ e.conf = bonds[i].conf /\ e.raw = bonds[i].raw
      BY <3>1, EntrySpent
    <3>3. bonds'[i] = bonds[i] \/ (bonds'[i] = e /\ i \in S)
      BY <1>4, RowsMarked
    <3> HIDE DEF e
    <3>4. SameRow(bonds[i], disk[i])
      BY <2>2 DEF SameRows
    <3>5. i \in S => Expired(bonds[i].bond)
      BY DEF Redeemable
    <3>6. Expired(bonds[i].bond) => height' > made'[bonds[i].bond].lock
      BY <3>1, StaysExpired DEF Expired, Context
    <3> QED BY <2>1, <3>2, <3>3, <3>4, <3>5, <3>6 DEF SameRow
  <2> QED BY <2>1, <2>3, <2>4, SameIs
<1>5. CASE Saved \/ Loaded \/ Registered \/ \E i \in 1..Len(bonds) : DatedAt(i)
  BY <1>5, <1>1 DEF Saved, Loaded, Registered, DatedAt, Up
<1>6. CASE Gone
  BY <1>6, <1>2 DEF Gone
<1> QED BY <1>3, <1>4, <1>5, <1>6 DEF ListStep

\* Mined in the next state, with its definitions expanded.
LEMMA MinedIs ==
  ASSUME \A b \in Bonds' :
           /\ made'[b].lock <= height' + Timelock
           /\ made'[b].status = "mined" => made'[b].at > 0 /\ made'[b].lock <= made'[b].at + Timelock
  PROVE Mined'
BY DEF Mined

\* Mined is preserved: a bond confirms after its locktime was counted.
LEMMA StepMined == ASSUME Ranges, Stage, Mined, MadeStep, target \in Nat PROVE Mined'
<1> SUFFICES ASSUME NEW b \in Bonds'
             PROVE /\ made'[b].lock <= height' + Timelock
                   /\ made'[b].status = "mined" => made'[b].at > 0 /\ made'[b].lock <= made'[b].at + Timelock
  BY MinedIs
<1>0. Timelock \in Nat /\ height \in Nat /\ height' \in Nat /\ height <= height' /\ Len(made) \in Nat
  BY BondAssumption DEF Ranges, MadeStep
<1>1. CASE b \in Bonds
  <2>1. made[b] \in Txs
    BY <1>1, SeqAt DEF Ranges, Bonds
  <2>2. made[b].lock \in Nat /\ made[b].at \in Nat
    BY <2>1, TxFields, BondAssumption
  <2>3. TxStep(b, made[b], made'[b])
    BY <1>1 DEF MadeStep
  <2>4. made[b].lock <= height + Timelock
        /\ (made[b].status = "mined" => made[b].at > 0 /\ made[b].lock <= made[b].at + Timelock)
    BY <1>1 DEF Mined
  <2>5. made'[b].lock = made[b].lock
    BY <2>3 DEF TxStep
  <2>6. made'[b].status = "mined" =>
          (made[b].status = "mined" /\ made'[b].at = made[b].at) \/ (made'[b].at = height' /\ height < height')
    BY <2>3 DEF TxStep
  <2> QED BY <1>0, <2>2, <2>4, <2>5, <2>6
<1>2. CASE b \notin Bonds
  <2>1. NewBond /\ b = Len(made) + 1
    BY <1>0, <1>2 DEF MadeStep, Bonds, NewBond
  <2>2. made'[b].lock = target /\ made'[b].status = "mempool" /\ target <= height + Timelock
        /\ height' = height
    BY <2>1 DEF NewBond, Stage
  <2> QED BY <2>2
<1> QED BY <1>1, <1>2

-----------------------------------------------------------------------------
(* The control state.                                                      *)

\* The bounds.
Counters == \/ faults' = faults
            \/ faults < MaxFaults /\ faults' = faults + 1
Coins == owned' = owned \/ (owned < NCoins /\ owned' = owned + 1)

\* A step takes one fault at most.
LEMMA CounterStep == ASSUME [Next]_vars PROVE Counters
<1> SUFFICES ASSUME Next \/ UNCHANGED vars PROVE Counters
  OBVIOUS
<1>1. CASE NewBlock
  BY <1>1, Zenon DEF NewBlock, Counters, chainFrame
<1>2. CASE Deposit
  BY <1>2, Zenon DEF Deposit, Counters, chainFrame
<1>3. ASSUME NEW b \in Bonds, Evict(b) PROVE Counters
  BY <1>3, Zenon DEF Evict, Counters, chainFrame, Fault
<1>4. ASSUME NEW b \in Bonds, Reorg(b) PROVE Counters
  BY <1>4, Zenon DEF Reorg, Counters, chainFrame, Fault
<1>5. ASSUME NEW b \in Bonds, DropRedeem(b) PROVE Counters
  BY <1>5, Zenon DEF DropRedeem, Counters, chainFrame, Fault
<1>6. CASE Start
  BY <1>6, Zenon DEF Start, Counters
<1>7. CASE BeginSetup
  BY <1>7, Zenon DEF BeginSetup, Counters
<1>8. CASE Rebroadcast
  BY <1>8, Zenon DEF Rebroadcast, Counters, SetupFails
<1>9. CASE FinalizeConfirmed
  BY <1>9, Zenon DEF FinalizeConfirmed, Counters
<1>10. CASE UseHighest
  BY <1>10, Zenon DEF UseHighest, Counters
<1>11. CASE BeginCreate
  BY <1>11, Zenon DEF BeginCreate, Counters
<1>12. CASE CreateSync
  BY <1>12, Zenon DEF CreateSync, Counters, SyncAndSave
<1>13. CASE Create
  BY <1>13, Zenon DEF Create, Counters
<1>14. CASE Register
  BY <1>14, Zenon DEF Register, Counters
<1>15. CASE CreateConfirmed
  BY <1>15, Zenon DEF CreateConfirmed, Counters
<1>16. CASE Liquidity
  BY <1>16, Zenon DEF Liquidity, Counters, SyncAndSave
<1>17. CASE Announce
  BY <1>17, Zenon DEF Announce, Counters
<1>18. CASE SwapStarts
  BY <1>18, Zenon DEF SwapStarts, Counters
<1>19. CASE SwapEnds
  BY <1>19, Zenon DEF SwapEnds, Counters, SyncAndSave
<1>20. CASE RenewalTick
  BY <1>20, Zenon DEF RenewalTick, Counters
<1>21. CASE RedeemFails
  BY <1>21, Zenon DEF RedeemFails, Counters, Fault
<1>22. CASE FinalizeTimesOut
  BY <1>22, Zenon DEF FinalizeTimesOut, Counters, Overdue, Fault
<1>23. CASE CreateTimesOut
  BY <1>23, Zenon DEF CreateTimesOut, Counters, Overdue, Fault, SetupFails
<1>24. CASE BackendFails
  BY <1>24, Zenon DEF BackendFails, Counters, SetupFails, Fault
<1>25. CASE Stop
  BY <1>25, Zenon DEF Stop, Counters, Down, Fault
<1>26. CASE Crash
  BY <1>26, Zenon DEF Crash, Counters, Down, Fault
<1>27. CASE UNCHANGED vars
  BY <1>27, Zenon DEF vars, Counters
<1> QED
  BY <1>1, <1>2, <1>3, <1>4, <1>5, <1>6, <1>7, <1>8, <1>9, <1>10, <1>11, <1>12, <1>13, <1>14,
     <1>15, <1>16, <1>17, <1>18, <1>19, <1>20, <1>21, <1>22, <1>23, <1>24, <1>25, <1>26, <1>27
  DEF Next, Network, Setup, Threads, Errors

\* The operator sends one coin at a time, up to the bound.
LEMMA CoinStep == ASSUME [Next]_vars PROVE Coins
<1> SUFFICES ASSUME Next \/ UNCHANGED vars PROVE Coins
  OBVIOUS
<1>1. CASE NewBlock
  BY <1>1, Zenon DEF NewBlock, Coins, chain, chainFrame
<1>2. CASE Deposit
  BY <1>2, Zenon DEF Deposit, Coins, chain, chainFrame
<1>3. ASSUME NEW b \in Bonds, Evict(b) PROVE Coins
  BY <1>3, Zenon DEF Evict, Coins, chain, chainFrame
<1>4. ASSUME NEW b \in Bonds, Reorg(b) PROVE Coins
  BY <1>4, Zenon DEF Reorg, Coins, chain, chainFrame
<1>5. ASSUME NEW b \in Bonds, DropRedeem(b) PROVE Coins
  BY <1>5, Zenon DEF DropRedeem, Coins, chain, chainFrame
<1>6. CASE Start
  BY <1>6, Zenon DEF Start, Coins, chain
<1>7. CASE BeginSetup
  BY <1>7, Zenon DEF BeginSetup, Coins, chain
<1>8. CASE Rebroadcast
  BY <1>8, Zenon DEF Rebroadcast, Coins, chain
<1>9. CASE FinalizeConfirmed
  BY <1>9, Zenon DEF FinalizeConfirmed, Coins, chain
<1>10. CASE UseHighest
  BY <1>10, Zenon DEF UseHighest, Coins, chain
<1>11. CASE BeginCreate
  BY <1>11, Zenon DEF BeginCreate, Coins, chain
<1>12. CASE CreateSync
  BY <1>12, Zenon DEF CreateSync, Coins, chain
<1>13. CASE Create
  BY <1>13, Zenon DEF Create, Coins, chain
<1>14. CASE Register
  BY <1>14, Zenon DEF Register, Coins, chain
<1>15. CASE CreateConfirmed
  BY <1>15, Zenon DEF CreateConfirmed, Coins, chain
<1>16. CASE Liquidity
  BY <1>16, Zenon DEF Liquidity, Coins, chain
<1>17. CASE Announce
  BY <1>17, Zenon DEF Announce, Coins, chain
<1>18. CASE SwapStarts
  BY <1>18, Zenon DEF SwapStarts, Coins, chain
<1>19. CASE SwapEnds
  BY <1>19, Zenon DEF SwapEnds, Coins, chain
<1>20. CASE RenewalTick
  BY <1>20, Zenon DEF RenewalTick, Coins, chain
<1>21. CASE RedeemFails
  BY <1>21, Zenon DEF RedeemFails, Coins, chain
<1>22. CASE FinalizeTimesOut
  BY <1>22, Zenon DEF FinalizeTimesOut, Coins, chain
<1>23. CASE CreateTimesOut
  BY <1>23, Zenon DEF CreateTimesOut, Coins, chain
<1>24. CASE BackendFails
  BY <1>24, Zenon DEF BackendFails, Coins, chain
<1>25. CASE Stop
  BY <1>25, Zenon DEF Stop, Coins, chain, Down
<1>26. CASE Crash
  BY <1>26, Zenon DEF Crash, Coins, chain, Down
<1>27. CASE UNCHANGED vars
  BY <1>27, Zenon DEF vars, Coins, chain
<1> QED
  BY <1>1, <1>2, <1>3, <1>4, <1>5, <1>6, <1>7, <1>8, <1>9, <1>10, <1>11, <1>12, <1>13, <1>14,
     <1>15, <1>16, <1>17, <1>18, <1>19, <1>20, <1>21, <1>22, <1>23, <1>24, <1>25, <1>26, <1>27
  DEF Next, Network, Setup, Threads, Errors

\* The control state.
Pcs == {"down", "begin", "finalize", "await", "sync", "create", "register", "confirm",
        "liquidity", "serving"}
Scalars ==
  /\ pc \in Pcs /\ startup \in BOOLEAN /\ busy \in BOOLEAN
  /\ fatal \in {"none", "conflict", "timeout", "backend"}

\* The control state keeps its type.
LEMMA ScalarStep == ASSUME Scalars, [Next]_vars PROVE Scalars'
<1> SUFFICES ASSUME Next \/ UNCHANGED vars PROVE Scalars'
  OBVIOUS
<1>1. CASE NewBlock
  BY <1>1, Zenon DEF NewBlock, Scalars, Pcs, setup, ghosts, chainFrame
<1>2. CASE Deposit
  BY <1>2, Zenon DEF Deposit, Scalars, Pcs, setup, ghosts, chainFrame
<1>3. ASSUME NEW b \in Bonds, Evict(b) PROVE Scalars'
  BY <1>3, Zenon DEF Evict, Scalars, Pcs, setup, ghosts, chainFrame
<1>4. ASSUME NEW b \in Bonds, Reorg(b) PROVE Scalars'
  BY <1>4, Zenon DEF Reorg, Scalars, Pcs, setup, ghosts, chainFrame
<1>5. ASSUME NEW b \in Bonds, DropRedeem(b) PROVE Scalars'
  BY <1>5, Zenon DEF DropRedeem, Scalars, Pcs, setup, ghosts, chainFrame
<1>6. CASE Start
  BY <1>6, Zenon DEF Start, Scalars, Pcs, setup, ghosts
<1>7. CASE BeginSetup
  BY <1>7, Zenon DEF BeginSetup, Scalars, Pcs, setup, ghosts
<1>8. CASE Rebroadcast
  BY <1>8, Zenon DEF Rebroadcast, Scalars, Pcs, setup, ghosts, SetupFails
<1>9. CASE FinalizeConfirmed
  BY <1>9, Zenon DEF FinalizeConfirmed, Scalars, Pcs, setup, ghosts
<1>10. CASE UseHighest
  BY <1>10, Zenon DEF UseHighest, Scalars, Pcs, setup, ghosts
<1>11. CASE BeginCreate
  BY <1>11, Zenon DEF BeginCreate, Scalars, Pcs, setup, ghosts
<1>12. CASE CreateSync
  BY <1>12, Zenon DEF CreateSync, Scalars, Pcs, setup, ghosts
<1>13. CASE Create
  BY <1>13, Zenon DEF Create, Scalars, Pcs, setup, ghosts
<1>14. CASE Register
  BY <1>14, Zenon DEF Register, Scalars, Pcs, setup, ghosts
<1>15. CASE CreateConfirmed
  BY <1>15, Zenon DEF CreateConfirmed, Scalars, Pcs, setup, ghosts
<1>16. CASE Liquidity
  BY <1>16, Zenon DEF Liquidity, Scalars, Pcs, setup, ghosts
<1>17. CASE Announce
  BY <1>17, Zenon DEF Announce, Scalars, Pcs, setup, ghosts
<1>18. CASE SwapStarts
  BY <1>18, Zenon DEF SwapStarts, Scalars, Pcs, setup, ghosts
<1>19. CASE SwapEnds
  BY <1>19, Zenon DEF SwapEnds, Scalars, Pcs, setup, ghosts
<1>20. CASE RenewalTick
  BY <1>20, Zenon DEF RenewalTick, Scalars, Pcs, setup, ghosts
<1>21. CASE RedeemFails
  BY <1>21, Zenon DEF RedeemFails, Scalars, Pcs, setup, ghosts
<1>22. CASE FinalizeTimesOut
  BY <1>22, Zenon DEF FinalizeTimesOut, Scalars, Pcs, setup, ghosts
<1>23. CASE CreateTimesOut
  BY <1>23, Zenon DEF CreateTimesOut, Scalars, Pcs, setup, ghosts, SetupFails
<1>24. CASE BackendFails
  BY <1>24, Zenon DEF BackendFails, Scalars, Pcs, setup, ghosts, SetupFails
<1>25. CASE Stop
  BY <1>25, Zenon DEF Stop, Scalars, Pcs, setup, ghosts, Down
<1>26. CASE Crash
  BY <1>26, Zenon DEF Crash, Scalars, Pcs, setup, ghosts, Down
<1>27. CASE UNCHANGED vars
  BY <1>27, Zenon DEF vars, Scalars, Pcs, setup, ghosts
<1> QED
  BY <1>1, <1>2, <1>3, <1>4, <1>5, <1>6, <1>7, <1>8, <1>9, <1>10, <1>11, <1>12, <1>13, <1>14,
     <1>15, <1>16, <1>17, <1>18, <1>19, <1>20, <1>21, <1>22, <1>23, <1>24, <1>25, <1>26, <1>27
  DEF Next, Network, Setup, Threads, Errors

PcStep ==
  /\ pc' = "register" => (pc = "create" /\ Create) \/ (pc = "register" /\ sent' = sent)
  /\ pc' = "confirm" => Register \/ (pc = "confirm" /\ bonds' = bonds)
  /\ pc' \in {"sync", "create"} =>
       \/ pc = "finalize" /\ target' = height + Timelock /\ height' = height
       \/ pc \in {"sync", "create"} /\ target' = target
  /\ pc' = "serving" => ~startup' /\ (startup' = startup \/ pc = "liquidity")
  /\ queue' = {} \/ pc' \in {"finalize", "await"}
  /\ target' \in {target, 0, height + Timelock}

\* Where the control state can come from.
LEMMA PcMoves == ASSUME Stage, Scalars, [Next]_vars PROVE PcStep
<1> SUFFICES ASSUME Next \/ UNCHANGED vars PROVE PcStep
  OBVIOUS
<1> USE DEF Stage, Scalars
<1>1. CASE NewBlock
  BY <1>1, Zenon DEF NewBlock, PcStep, setup, wallet, chain, ghosts, chainFrame
<1>2. CASE Deposit
  BY <1>2, Zenon DEF Deposit, PcStep, setup, wallet, chain, ghosts, chainFrame
<1>3. ASSUME NEW b \in Bonds, Evict(b) PROVE PcStep
  BY <1>3, Zenon DEF Evict, PcStep, setup, wallet, chain, ghosts, chainFrame
<1>4. ASSUME NEW b \in Bonds, Reorg(b) PROVE PcStep
  BY <1>4, Zenon DEF Reorg, PcStep, setup, wallet, chain, ghosts, chainFrame
<1>5. ASSUME NEW b \in Bonds, DropRedeem(b) PROVE PcStep
  BY <1>5, Zenon DEF DropRedeem, PcStep, setup, wallet, chain, ghosts, chainFrame
<1>6. CASE Start
  BY <1>6, Zenon DEF Start, PcStep, setup, wallet, chain, ghosts
<1>7. CASE BeginSetup
  BY <1>7, Zenon DEF BeginSetup, PcStep, setup, wallet, chain, ghosts
<1>8. CASE Rebroadcast
  <2>1. /\ startup' = startup /\ target' \in {target, 0}
        /\ pc' = "await" \/ (queue' = {} /\ (pc' = "down" \/ (pc' = "serving" /\ ~startup)))
    BY <1>8, Zenon DEF Rebroadcast, SetupFails
  <2> QED BY <2>1 DEF PcStep
<1>9. CASE FinalizeConfirmed
  <2>1. pc' = "finalize" /\ startup' = startup /\ target' = target
    BY <1>9, Zenon DEF FinalizeConfirmed
  <2> QED BY <2>1 DEF PcStep
<1>10. CASE UseHighest
  BY <1>10, Zenon DEF UseHighest, PcStep, setup, wallet, chain, ghosts
<1>11. CASE BeginCreate
  BY <1>11, Zenon DEF BeginCreate, PcStep, setup, wallet, chain, ghosts
<1>12. CASE CreateSync
  BY <1>12, Zenon DEF CreateSync, PcStep, setup, wallet, chain, ghosts, SyncAndSave
<1>13. CASE Create
  BY <1>13, Zenon DEF Create, PcStep, setup, wallet, chain, ghosts
<1>14. CASE Register
  BY <1>14, Zenon DEF Register, PcStep, setup, wallet, chain, ghosts
<1>15. CASE CreateConfirmed
  BY <1>15, Zenon DEF CreateConfirmed, PcStep, setup, wallet, chain, ghosts
<1>16. CASE Liquidity
  BY <1>16, Zenon DEF Liquidity, PcStep, setup, wallet, chain, ghosts, SyncAndSave
<1>17. CASE Announce
  BY <1>17, Zenon DEF Announce, PcStep, setup, wallet, chain, ghosts
<1>18. CASE SwapStarts
  BY <1>18, Zenon DEF SwapStarts, PcStep, setup, wallet, chain, ghosts
<1>19. CASE SwapEnds
  BY <1>19, Zenon DEF SwapEnds, PcStep, setup, wallet, chain, ghosts, SyncAndSave, WalletLocked
<1>20. CASE RenewalTick
  BY <1>20, Zenon DEF RenewalTick, PcStep, setup, wallet, chain, ghosts
<1>21. CASE RedeemFails
  BY <1>21, Zenon DEF RedeemFails, PcStep, setup, wallet, chain, ghosts
<1>22. CASE FinalizeTimesOut
  BY <1>22, Zenon DEF FinalizeTimesOut, PcStep, setup, wallet, chain, ghosts
<1>23. CASE CreateTimesOut
  BY <1>23, Zenon DEF CreateTimesOut, PcStep, setup, wallet, chain, ghosts, SetupFails
<1>24. CASE BackendFails
  BY <1>24, Zenon DEF BackendFails, PcStep, setup, wallet, chain, ghosts, SetupFails
<1>25. CASE Stop
  BY <1>25, Zenon DEF Stop, PcStep, setup, wallet, chain, ghosts, Down
<1>26. CASE Crash
  BY <1>26, Zenon DEF Crash, PcStep, setup, wallet, chain, ghosts, Down
<1>27. CASE UNCHANGED vars
  BY <1>27, Zenon DEF vars, PcStep, setup, wallet, chain, ghosts
<1> QED
  BY <1>1, <1>2, <1>3, <1>4, <1>5, <1>6, <1>7, <1>8, <1>9, <1>10, <1>11, <1>12, <1>13, <1>14,
     <1>15, <1>16, <1>17, <1>18, <1>19, <1>20, <1>21, <1>22, <1>23, <1>24, <1>25, <1>26, <1>27
  DEF Next, Network, Setup, Threads, Errors

-----------------------------------------------------------------------------
(* Stage and Dated.                                                        *)

\* A bound on a locktime stays one as the chain grows.
LEMMA LaterSum ==
  ASSUME NEW x \in Nat, NEW h \in Nat, NEW k \in Nat, NEW t \in Nat, h <= k, x <= h + t
  PROVE x <= k + t
OBVIOUS

\* Append makes a sequence one longer.
LEMMA SeqLonger ==
  ASSUME NEW D, NEW s \in Seq(D), NEW e
  PROVE Len(Append(s, e)) = Len(s) + 1 /\ Len(s) \in Nat
OBVIOUS

\* Stage is preserved.
LEMMA StepStage == ASSUME Context, Scalars, target \in Nat, [Next]_vars, MadeStep, ListStep
  PROVE Stage'
<1>0. PcStep
  BY PcMoves DEF Context
<1>1. pc' = "serving" => ~startup'
  BY <1>0 DEF PcStep
<1>2. pc' = "register" => Len(made') \in sent'
  <2>1. CASE pc = "register" /\ pc' = "register" /\ sent' = sent
    <3>1. Len(made') = Len(made)
      BY <2>1 DEF MadeStep, NewBond
    <3> QED BY <2>1, <3>1 DEF Context, Stage
  <2>2. CASE pc = "create" /\ Create /\ pc' = "register"
    <3>1. sent' = sent \cup {Len(made) + 1} /\ \E t : made' = Append(made, t)
      BY <2>2, Zenon DEF Create
    <3>2. Len(made') = Len(made) + 1 \/ Len(made') = Len(made)
      BY DEF MadeStep, NewBond
    <3>3. Len(made') # Len(made)
      BY <3>1, SeqLonger DEF Context, Ranges
    <3> QED BY <3>1, <3>2, <3>3
  <2> QED BY <1>0, <2>1, <2>2 DEF PcStep
<1>3. pc' = "confirm" => Len(bonds') > 0
  <2>1. CASE pc = "confirm" /\ bonds' = bonds
    BY <2>1 DEF Context, Stage
  <2>2. CASE Register
    <3>1. \E e : bonds' = Append(bonds, e)
      BY <2>2, Zenon DEF Register
    <3> QED BY <3>1, SeqLonger DEF Context, Lists
  <2> QED BY <1>0, <2>1, <2>2 DEF PcStep
<1>4. queue' # {} => pc' \in {"finalize", "await"}
  BY <1>0 DEF PcStep
<1>5. pc' \in {"sync", "create"} => target' <= height' + Timelock
  <2>1. height \in Nat /\ height' \in Nat /\ height <= height' /\ Timelock \in Nat
    BY BondAssumption DEF Context, Ranges, MadeStep
  <2>2. CASE pc \in {"sync", "create"} /\ target' = target
    <3>1. target <= height + Timelock
      BY <2>2 DEF Context, Stage
    <3>2. target <= height' + Timelock
      BY <2>1, <3>1, target \in Nat, LaterSum
    <3> QED BY <2>2, <3>2
  <2>3. CASE target' = height + Timelock /\ height' = height
    BY <2>1, <2>3
  <2> QED BY <1>0, <2>2, <2>3 DEF PcStep
<1> QED BY <1>1, <1>2, <1>3, <1>4, <1>5 DEF Stage

\* At, in the next state.
NewAt(b, h) == (made'[b].status = "mined" /\ made'[b].at = h) \/ b \in moved'

\* Dated in the next state, with its definitions expanded.
LEMMA DatedIs ==
  ASSUME \A i \in 1..Len(disk') : disk'[i].conf # 0 => NewAt(disk'[i].bond, disk'[i].conf),
         proof'.bond # 0 => NewAt(proof'.bond, proof'.conf),
         Up' /\ (~startup' \/ pc' = "liquidity") => proof'.bond # 0
  PROVE Dated'
BY DEF Dated, At, NewAt, Up

\* A height that was right stays right, or the network moved the bond.
LEMMA AtStays == ASSUME MadeStep, NEW b \in Bonds, NEW h, At(b, h) PROVE NewAt(b, h)
<1>1. TxStep(b, made[b], made'[b]) /\ moved \subseteq moved'
  BY DEF MadeStep
<1> QED BY <1>1 DEF At, NewAt, TxStep

\* A stored height is the height of the bond in the chain, after a step as before it.
LEMMA RowsDatedStep == ASSUME Context, Mined, Dated, MadeStep, RowStep, NEW i \in 1..Len(disk'), disk'[i].conf # 0
  PROVE NewAt(disk'[i].bond, disk'[i].conf)
<1>1. CASE i \in 1..Len(disk)
  <2> DEFINE b == disk[i].bond
  <2>1. disk'[i].bond = b /\ b \in Bonds
    BY <1>1, OldRow
  <2>2. \/ disk'[i].conf = disk[i].conf
        \/ made' = made /\ made[b].status = "mined" /\ disk'[i].conf = made[b].at
    BY <1>1 DEF RowStep
  <2>3. disk[i].conf # 0 => At(b, disk[i].conf)
    BY <1>1 DEF Dated
  <2> HIDE DEF b
  <2>4. CASE disk'[i].conf = disk[i].conf
    <3>1. NewAt(b, disk[i].conf)
      BY <2>1, <2>3, <2>4, AtStays
    <3> QED BY <2>1, <2>4, <3>1
  <2>5. CASE made' = made /\ made[b].status = "mined" /\ disk'[i].conf = made[b].at
    BY <2>1, <2>5 DEF NewAt
  <2> QED BY <2>2, <2>4, <2>5
<1>2. CASE i \notin 1..Len(disk)
  BY <1>2, NewRow
<1> QED BY <1>1, <1>2

\* What a step does to the proof that is served.
ProofStep ==
  \/ proof' = proof /\ ((Up' /\ (~startup' \/ pc' = "liquidity")) => Up /\ (~startup \/ pc = "liquidity"))
  \/ proof' = [bond |-> 0, conf |-> 0] /\ ~Up'
  \/ \E i \in 1..Len(bonds) :
       /\ Up' /\ i \in 1..Len(bonds') /\ bonds'[i].conf # 0
       /\ proof' = [bond |-> bonds'[i].bond, conf |-> bonds'[i].conf]

\* highest_fidelity_proof is kept, dropped with the process, or taken from a confirmed entry.
LEMMA ProofMoves == ASSUME Context, Mined, Scalars, [Next]_vars PROVE ProofStep
<1> SUFFICES ASSUME Next \/ UNCHANGED vars PROVE ProofStep
  OBVIOUS
<1>0. startup \in BOOLEAN /\ (pc = "serving" => ~startup)
  BY DEF Scalars, Context, Stage
<1>1. CASE NewBlock
  BY <1>1, Zenon, <1>0 DEF NewBlock, ProofStep, setup, wallet, chain, ghosts, Up, chainFrame
<1>2. CASE Deposit
  BY <1>2, Zenon, <1>0 DEF Deposit, ProofStep, setup, wallet, chain, ghosts, Up, chainFrame
<1>3. ASSUME NEW b \in Bonds, Evict(b) PROVE ProofStep
  BY <1>3, Zenon, <1>0 DEF Evict, ProofStep, setup, wallet, chain, ghosts, Up, chainFrame
<1>4. ASSUME NEW b \in Bonds, Reorg(b) PROVE ProofStep
  BY <1>4, Zenon, <1>0 DEF Reorg, ProofStep, setup, wallet, chain, ghosts, Up, chainFrame
<1>5. ASSUME NEW b \in Bonds, DropRedeem(b) PROVE ProofStep
  BY <1>5, Zenon, <1>0 DEF DropRedeem, ProofStep, setup, wallet, chain, ghosts, Up, chainFrame
<1>6. CASE Start
  BY <1>6, Zenon, <1>0 DEF Start, ProofStep, setup, wallet, chain, ghosts, Up
<1>7. CASE BeginSetup
  BY <1>7, Zenon, <1>0 DEF BeginSetup, ProofStep, setup, wallet, chain, ghosts, Up
<1>8. CASE Rebroadcast
  BY <1>8, Zenon, <1>0 DEF Rebroadcast, ProofStep, setup, wallet, chain, ghosts, Up, SetupFails
<1>9. CASE FinalizeConfirmed
  BY <1>9, Zenon, <1>0 DEF FinalizeConfirmed, ProofStep, setup, wallet, chain, ghosts, Up
<1>10. CASE UseHighest
  <2>1. bonds' = bonds /\ pc' # "down"
    BY <1>10 DEF UseHighest, wallet
  <2>2. \E i \in 1..Len(bonds) : bonds[i].conf # 0
        /\ proof' = [bond |-> bonds[i].bond, conf |-> bonds[i].conf]
    BY <1>10, Zenon DEF UseHighest, Valued, Proof
  <2> QED BY <2>1, <2>2 DEF ProofStep, Up
<1>11. CASE BeginCreate
  BY <1>11, Zenon, <1>0 DEF BeginCreate, ProofStep, setup, wallet, chain, ghosts, Up
<1>12. CASE CreateSync
  BY <1>12, Zenon, <1>0 DEF CreateSync, ProofStep, setup, wallet, chain, ghosts, Up, SyncAndSave
<1>13. CASE Create
  BY <1>13, Zenon, <1>0 DEF Create, ProofStep, setup, wallet, chain, ghosts, Up
<1>14. CASE Register
  BY <1>14, Zenon, <1>0 DEF Register, ProofStep, setup, wallet, chain, ghosts, Up
<1>15. CASE CreateConfirmed
  <2> DEFINE i == Len(bonds)
  <2>1. PICK r : bonds' = [bonds EXCEPT ![i] = r] /\ r = WithConf(bonds[i], made[bonds[i].bond].at)
    BY <1>15, Zenon DEF CreateConfirmed, WithConf
  <2>2. proof' = [bond |-> bonds'[i].bond, conf |-> bonds'[i].conf] /\ pc' # "down"
        /\ made[bonds[i].bond].status = "mined" /\ i \in 1..Len(bonds)
    <3>1. proof' = [bond |-> bonds'[i].bond, conf |-> bonds'[i].conf] /\ made[bonds[i].bond].status = "mined"
      BY <1>15, Zenon DEF CreateConfirmed
    <3>2. pc = "confirm" /\ pc' # "down"
      BY <1>15 DEF CreateConfirmed
    <3>3. i > 0 /\ i \in Nat
      BY <3>2 DEF Context, Stage, Lists
    <3> QED BY <3>1, <3>2, <3>3
  <2>3. bonds[i] \in Entries /\ made[bonds[i].bond] \in Txs /\ bonds[i].bond \in Bonds
    BY <2>2, BondsIn
  <2>4. made[bonds[i].bond].at \in 0..MaxHeight /\ made[bonds[i].bond].at > 0
    BY <2>2, <2>3, TxFields DEF Mined
  <2>5. r \in Entries
    BY <2>1, <2>3, <2>4, EntryIn
  <2>6. r.conf = made[bonds[i].bond].at
    BY <2>1, <2>3, <2>4, EntryConf
  <2>7. bonds'[i] = r /\ Len(bonds') = Len(bonds)
    BY <2>1, <2>2, <2>5, SeqPut, SMTT(20) DEF Context, Lists
  <2>8. bonds'[i].conf # 0
    BY <2>4, <2>6, <2>7, BondAssumption
  <2> HIDE DEF i
  <2> QED BY <2>2, <2>7, <2>8 DEF ProofStep, Up
<1>16. CASE Liquidity
  BY <1>16, Zenon, <1>0 DEF Liquidity, ProofStep, setup, wallet, chain, ghosts, Up, SyncAndSave
<1>17. CASE Announce
  BY <1>17, Zenon, <1>0 DEF Announce, ProofStep, setup, wallet, chain, ghosts, Up
<1>18. CASE SwapStarts
  BY <1>18, Zenon, <1>0 DEF SwapStarts, ProofStep, setup, wallet, chain, ghosts, Up
<1>19. CASE SwapEnds
  BY <1>19, Zenon, <1>0 DEF SwapEnds, ProofStep, setup, wallet, chain, ghosts, Up, SyncAndSave
<1>20. CASE RenewalTick
  BY <1>20, Zenon, <1>0 DEF RenewalTick, ProofStep, setup, wallet, chain, ghosts, Up
<1>21. CASE RedeemFails
  BY <1>21, Zenon, <1>0 DEF RedeemFails, ProofStep, setup, wallet, chain, ghosts, Up
<1>22. CASE FinalizeTimesOut
  BY <1>22, Zenon, <1>0 DEF FinalizeTimesOut, ProofStep, setup, wallet, chain, ghosts, Up
<1>23. CASE CreateTimesOut
  BY <1>23, Zenon, <1>0 DEF CreateTimesOut, ProofStep, setup, wallet, chain, ghosts, Up, SetupFails
<1>24. CASE BackendFails
  BY <1>24, Zenon, <1>0 DEF BackendFails, ProofStep, setup, wallet, chain, ghosts, Up, SetupFails
<1>25. CASE Stop
  BY <1>25, Zenon, <1>0 DEF Stop, ProofStep, setup, wallet, chain, ghosts, Up, Down
<1>26. CASE Crash
  BY <1>26, Zenon, <1>0 DEF Crash, ProofStep, setup, wallet, chain, ghosts, Up, Down
<1>27. CASE UNCHANGED vars
  BY <1>27, Zenon, <1>0 DEF vars, ProofStep, setup, wallet, chain, ghosts, Up
<1> QED
  BY <1>1, <1>2, <1>3, <1>4, <1>5, <1>6, <1>7, <1>8, <1>9, <1>10, <1>11, <1>12, <1>13, <1>14,
     <1>15, <1>16, <1>17, <1>18, <1>19, <1>20, <1>21, <1>22, <1>23, <1>24, <1>25, <1>26, <1>27
  DEF Next, Network, Setup, Threads, Errors

\* Dated is preserved.
LEMMA StepDated == ASSUME Context, Mined, Dated, Scalars, [Next]_vars, MadeStep, RowStep, Same',
                         proof.bond \in 0..Len(made)
  PROVE Dated' /\ proof'.bond \in 0..Len(made')
<1>1. \A i \in 1..Len(disk') : disk'[i].conf # 0 => NewAt(disk'[i].bond, disk'[i].conf)
  BY RowsDatedStep
<1>s. Bonds \subseteq Bonds' /\ Len(made) \in Nat /\ Len(made') \in Nat /\ Len(made) <= Len(made')
  BY MadeGrows DEF Context
<1>2. CASE proof' = proof /\ ((Up' /\ (~startup' \/ pc' = "liquidity")) => Up
      /\ (~startup \/ pc = "liquidity"))
  <2>1. proof.bond # 0 => NewAt(proof.bond, proof.conf)
    <3> SUFFICES ASSUME proof.bond # 0 PROVE NewAt(proof.bond, proof.conf)
      OBVIOUS
    <3>1. proof.bond \in Bonds
      BY <1>s DEF Bonds
    <3>2. At(proof.bond, proof.conf)
      BY DEF Dated
    <3> QED BY <3>1, <3>2, AtStays
  <2>2. Up' /\ (~startup' \/ pc' = "liquidity") => proof'.bond # 0
    BY <1>2 DEF Dated
  <2>3. proof'.bond \in 0..Len(made')
    BY <1>2, <1>s
  <2> QED BY <1>1, <1>2, <2>1, <2>2, <2>3, DatedIs
<1>3. CASE proof' = [bond |-> 0, conf |-> 0] /\ ~Up'
  <2>1. proof'.bond = 0
    BY <1>3
  <2> QED BY <1>1, <1>3, <2>1, <1>s, DatedIs
<1>4. ASSUME NEW i \in 1..Len(bonds), Up', i \in 1..Len(bonds'), bonds'[i].conf # 0,
             proof' = [bond |-> bonds'[i].bond, conf |-> bonds'[i].conf]
      PROVE Dated' /\ proof'.bond \in 0..Len(made')
  <2>1. i \in 1..Len(disk') /\ bonds'[i].bond = disk'[i].bond /\ bonds'[i].conf = disk'[i].conf
    BY <1>4 DEF Same
  <2>2. NewAt(disk'[i].bond, disk'[i].conf)
    BY <1>1, <1>4, <2>1
  <2>3. proof'.bond = disk'[i].bond /\ proof'.conf = disk'[i].conf
    BY <1>4, <2>1
  <2>4. disk'[i].bond \in Bonds'
    <3>1. CASE i \in 1..Len(disk)
      BY <3>1, OldRow
    <3>2. CASE i \notin 1..Len(disk)
      BY <2>1, <3>2, NewRow, <1>s
    <3> QED BY <3>1, <3>2
  <2>5. proof'.bond # 0 /\ proof'.bond \in 0..Len(made')
    BY <2>3, <2>4, <1>s DEF Bonds
  <2>6. NewAt(proof'.bond, proof'.conf)
    BY <2>2, <2>3
  <2> QED BY <1>1, <2>5, <2>6, DatedIs
<1> QED BY <1>2, <1>3, <1>4, ProofMoves DEF ProofStep

-----------------------------------------------------------------------------
(* Looked and Old.                                                         *)

\* What a step does to the pending bonds of finalize_pending_fidelity_bonds.
QueueStep ==
  \/ queue' = {} /\ pc' \notin {"finalize", "await"}
  \/ pc = "begin" /\ bonds' = bonds /\ queue' = Pending
  \/ bonds' = bonds /\ queue' = queue /\ (pc' \in {"finalize", "await"} => pc \in {"finalize", "await"})
  \/ /\ pc = "await"
     /\ \E i \in queue : DatedAt(i) /\ queue' = queue \ {i}
  \/ /\ pc = "await" /\ bonds' = bonds
     /\ \E i \in queue : bonds[i].bond \in skipped' /\ queue' = queue \ {i}

\* finalize_pending_fidelity_bonds leaves a bond behind only once it has confirmed or been given up.
LEMMA QueueMoves == ASSUME Stage, [Next]_vars PROVE QueueStep
<1> SUFFICES ASSUME Next \/ UNCHANGED vars PROVE QueueStep
  OBVIOUS
<1> USE DEF Stage
<1>1. CASE NewBlock
  BY <1>1, Zenon DEF NewBlock, QueueStep, setup, wallet, chain, ghosts, chainFrame
<1>2. CASE Deposit
  BY <1>2, Zenon DEF Deposit, QueueStep, setup, wallet, chain, ghosts, chainFrame
<1>3. ASSUME NEW b \in Bonds, Evict(b) PROVE QueueStep
  BY <1>3, Zenon DEF Evict, QueueStep, setup, wallet, chain, ghosts, chainFrame
<1>4. ASSUME NEW b \in Bonds, Reorg(b) PROVE QueueStep
  BY <1>4, Zenon DEF Reorg, QueueStep, setup, wallet, chain, ghosts, chainFrame
<1>5. ASSUME NEW b \in Bonds, DropRedeem(b) PROVE QueueStep
  BY <1>5, Zenon DEF DropRedeem, QueueStep, setup, wallet, chain, ghosts, chainFrame
<1>6. CASE Start
  BY <1>6, Zenon DEF Start, QueueStep, setup, wallet, chain, ghosts
<1>7. CASE BeginSetup
  BY <1>7, Zenon DEF BeginSetup, QueueStep, setup, wallet, chain, ghosts
<1>8. CASE Rebroadcast
  BY <1>8, Zenon DEF Rebroadcast, QueueStep, setup, wallet, chain, ghosts, SetupFails
<1>9. CASE FinalizeConfirmed
  <2>1. PICK i \in queue :
          /\ bonds' = [bonds EXCEPT ![i] = WithConf(bonds[i], made[bonds[i].bond].at)] /\ disk' = bonds'
          /\ made[bonds[i].bond].status = "mined" /\ queue' = queue \ {i}
    BY <1>9, ZenonT(30) DEF FinalizeConfirmed, Confirmed, WithConf
  <2>2. pc = "await" /\ pc' # "down" /\ made' = made
    BY <1>9 DEF FinalizeConfirmed, chain
  <2> QED BY <2>1, <2>2 DEF QueueStep, DatedAt, Up
<1>10. CASE UseHighest
  BY <1>10, Zenon DEF UseHighest, QueueStep, setup, wallet, chain, ghosts
<1>11. CASE BeginCreate
  BY <1>11, Zenon DEF BeginCreate, QueueStep, setup, wallet, chain, ghosts
<1>12. CASE CreateSync
  BY <1>12, Zenon DEF CreateSync, QueueStep, setup, wallet, chain, ghosts, SyncAndSave
<1>13. CASE Create
  BY <1>13, Zenon DEF Create, QueueStep, setup, wallet, chain, ghosts
<1>14. CASE Register
  BY <1>14, Zenon DEF Register, QueueStep, setup, wallet, chain, ghosts
<1>15. CASE CreateConfirmed
  BY <1>15, Zenon DEF CreateConfirmed, QueueStep, setup, wallet, chain, ghosts
<1>16. CASE Liquidity
  BY <1>16, Zenon DEF Liquidity, QueueStep, setup, wallet, chain, ghosts, SyncAndSave
<1>17. CASE Announce
  BY <1>17, Zenon DEF Announce, QueueStep, setup, wallet, chain, ghosts
<1>18. CASE SwapStarts
  BY <1>18, Zenon DEF SwapStarts, QueueStep, setup, wallet, chain, ghosts
<1>19. CASE SwapEnds
  BY <1>19, Zenon DEF SwapEnds, QueueStep, setup, wallet, chain, ghosts, SyncAndSave
<1>20. CASE RenewalTick
  BY <1>20, Zenon DEF RenewalTick, QueueStep, setup, wallet, chain, ghosts
<1>21. CASE RedeemFails
  BY <1>21, Zenon DEF RedeemFails, QueueStep, setup, wallet, chain, ghosts
<1>22. CASE FinalizeTimesOut
  BY <1>22, Zenon DEF FinalizeTimesOut, QueueStep, setup, wallet, chain, ghosts, Overdue
<1>23. CASE CreateTimesOut
  BY <1>23, Zenon DEF CreateTimesOut, QueueStep, setup, wallet, chain, ghosts, SetupFails
<1>24. CASE BackendFails
  BY <1>24, Zenon DEF BackendFails, QueueStep, setup, wallet, chain, ghosts, SetupFails
<1>25. CASE Stop
  BY <1>25, Zenon DEF Stop, QueueStep, setup, wallet, chain, ghosts, Down
<1>26. CASE Crash
  BY <1>26, Zenon DEF Crash, QueueStep, setup, wallet, chain, ghosts, Down
<1>27. CASE UNCHANGED vars
  BY <1>27, Zenon DEF vars, QueueStep, setup, wallet, chain, ghosts
<1> QED
  BY <1>1, <1>2, <1>3, <1>4, <1>5, <1>6, <1>7, <1>8, <1>9, <1>10, <1>11, <1>12, <1>13, <1>14,
     <1>15, <1>16, <1>17, <1>18, <1>19, <1>20, <1>21, <1>22, <1>23, <1>24, <1>25, <1>26, <1>27
  DEF Next, Network, Setup, Threads, Errors

\* Looked in the next state, with its definitions expanded.
LEMMA LookedIs ==
  ASSUME pc' \in {"finalize", "await"} =>
           \A i \in 1..Len(bonds') : ~bonds'[i].spent /\ bonds'[i].conf = 0 =>
             bonds'[i].bond \in skipped' \/ i \in queue'
  PROVE Looked'
BY DEF Looked

\* The rows in memory once a confirmation is stored.
LEMMA DatedRow == ASSUME Context, Mined, NEW i \in 1..Len(bonds), DatedAt(i)
  PROVE /\ Len(bonds') = Len(bonds) /\ bonds'[i].conf # 0 /\ bonds'[i].spent = bonds[i].spent
        /\ \A j \in 1..Len(bonds) \ {i} : bonds'[j] = bonds[j]
<1> DEFINE e == WithConf(bonds[i], made[bonds[i].bond].at)
<1>1. bonds' = [bonds EXCEPT ![i] = e] /\ made[bonds[i].bond].status = "mined"
  BY DEF DatedAt
<1>3. bonds[i] \in Entries /\ made[bonds[i].bond] \in Txs /\ bonds[i].bond \in Bonds
  BY BondsIn
<1>4. made[bonds[i].bond].at \in 0..MaxHeight /\ made[bonds[i].bond].at > 0
  BY <1>1, <1>3, TxFields DEF Mined
<1>5. e \in Entries
  BY <1>3, <1>4, EntryIn
<1>6. e.conf = made[bonds[i].bond].at /\ e.spent = bonds[i].spent
  BY <1>3, <1>4, EntryConf
<1> HIDE DEF e
<1>7. bonds'[i] = e /\ Len(bonds') = Len(bonds) /\ \A j \in 1..Len(bonds) \ {i} : bonds'[j] = bonds[j]
  BY <1>1, <1>5, SeqPut DEF Context, Lists
<1>8. bonds'[i].conf # 0
  BY <1>4, <1>6, <1>7, BondAssumption
<1> QED BY <1>6, <1>7, <1>8

\* Looked is preserved.
LEMMA StepLooked == ASSUME Context, Mined, Looked, queue \subseteq 1..Len(bonds), [Next]_vars, MadeStep
  PROVE Looked' /\ queue' \subseteq 1..Len(bonds')
<1>0. skipped \subseteq skipped' /\ QueueStep
  BY QueueMoves DEF MadeStep, Context
<1>1. CASE queue' = {} /\ pc' \notin {"finalize", "await"}
  BY <1>1, LookedIs
<1>2. CASE pc = "begin" /\ bonds' = bonds /\ queue' = Pending
  <2>1. \A i \in 1..Len(bonds) : ~bonds[i].spent /\ bonds[i].conf = 0 => i \in Pending
    BY DEF Pending
  <2>2. Pending \subseteq 1..Len(bonds)
    BY DEF Pending
  <2> QED BY <1>2, <2>1, <2>2, LookedIs
<1>3. CASE bonds' = bonds /\ queue' = queue /\ (pc' \in {"finalize", "await"} => pc \in {"finalize", "await"})
  <2>1. pc' \in {"finalize", "await"} =>
          \A i \in 1..Len(bonds) : ~bonds[i].spent /\ bonds[i].conf = 0 =>
             bonds[i].bond \in skipped' \/ i \in queue
    BY <1>0, <1>3 DEF Looked
  <2> QED BY <1>3, <2>1, LookedIs
<1>4. ASSUME pc = "await", NEW k \in queue, DatedAt(k), queue' = queue \ {k}
      PROVE Looked' /\ queue' \subseteq 1..Len(bonds')
  <2>1. Len(bonds') = Len(bonds) /\ bonds'[k].conf # 0 /\ \A j \in 1..Len(bonds) \ {k} : bonds'[j] = bonds[j]
    BY <1>4, DatedRow
  <2>2. ASSUME NEW i \in 1..Len(bonds), ~bonds'[i].spent /\ bonds'[i].conf = 0
        PROVE bonds'[i].bond \in skipped' \/ i \in queue'
    <3>1. i # k /\ bonds'[i] = bonds[i]
      BY <2>1, <2>2
    <3>2. bonds[i].bond \in skipped \/ i \in queue
      BY <1>4, <2>2, <3>1 DEF Looked
    <3> QED BY <1>0, <1>4, <3>1, <3>2
  <2> QED BY <1>4, <2>1, <2>2, LookedIs
<1>5. ASSUME pc = "await", bonds' = bonds, NEW k \in queue, bonds[k].bond \in skipped', queue' = queue \ {k}
      PROVE Looked' /\ queue' \subseteq 1..Len(bonds')
  <2>1. ASSUME NEW i \in 1..Len(bonds), ~bonds[i].spent /\ bonds[i].conf = 0
        PROVE bonds[i].bond \in skipped' \/ i \in queue'
    <3>2. bonds[i].bond \in skipped \/ i \in queue
      BY <1>5, <2>1 DEF Looked
    <3> QED BY <1>0, <1>5, <3>2
  <2> QED BY <1>5, <2>1, LookedIs
<1> QED BY <1>0, <1>1, <1>2, <1>3, <1>4, <1>5 DEF QueueStep

\* Known, in the next state.
NewKnown(b) == \E i \in 1..Len(disk') : disk'[i].bond = b

\* Old in the next state, with its definitions expanded.
LEMMA OldIs ==
  ASSUME \A b \in Bonds' : b < Len(made') /\ NewKnown(b) => b \in skipped' \/ height' > made'[b].lock,
         pc' \in {"sync", "create"} =>
           \A b \in Bonds' : NewKnown(b) => b \in skipped' \/ height' > made'[b].lock
  PROVE Old'
BY DEF Old, NewKnown, Known, GivenUp, Expired

\* The wallet file learns of no bond but the one just made.
LEMMA KnownStep == ASSUME Context, Mined, MadeStep, RowStep, NEW b, NewKnown(b)
  PROVE (b \in Bonds /\ Known(b)) \/ (Registered /\ b = Len(made) /\ Len(made') = Len(made))
<1>1. PICK i \in 1..Len(disk') : disk'[i].bond = b
  BY DEF NewKnown
<1>2. CASE i \in 1..Len(disk)
  <2>1. disk'[i].bond = disk[i].bond /\ disk[i].bond \in Bonds
    BY <1>2, OldRow
  <2> QED BY <1>1, <1>2, <2>1 DEF Known
<1>3. CASE i \notin 1..Len(disk)
  BY <1>1, <1>3, NewRow
<1> QED BY <1>2, <1>3

\* A bond that is given up or expired stays so.
LEMMA StaysGivenUp == ASSUME Ranges, MadeStep, NEW b \in Bonds, GivenUp(b)
  PROVE b \in skipped' \/ height' > made'[b].lock
BY StaysExpired DEF GivenUp, MadeStep, Expired

\* Where the creation of a bond starts.
PlanStep == pc' \in {"sync", "create"} =>
  (pc = "finalize" /\ queue = {} /\ Valued = {}) \/ pc \in {"sync", "create"}

\* A bond is planned only with no pending bond left and no bond of value.
LEMMA PlanMoves == ASSUME [Next]_vars PROVE PlanStep
<1> SUFFICES ASSUME Next \/ UNCHANGED vars PROVE PlanStep
  OBVIOUS
<1>1. CASE NewBlock
  BY <1>1, Zenon DEF NewBlock, PlanStep, setup, chainFrame
<1>2. CASE Deposit
  BY <1>2, Zenon DEF Deposit, PlanStep, setup, chainFrame
<1>3. ASSUME NEW b \in Bonds, Evict(b) PROVE PlanStep
  BY <1>3, Zenon DEF Evict, PlanStep, setup, chainFrame
<1>4. ASSUME NEW b \in Bonds, Reorg(b) PROVE PlanStep
  BY <1>4, Zenon DEF Reorg, PlanStep, setup, chainFrame
<1>5. ASSUME NEW b \in Bonds, DropRedeem(b) PROVE PlanStep
  BY <1>5, Zenon DEF DropRedeem, PlanStep, setup, chainFrame
<1>6. CASE Start
  BY <1>6, Zenon DEF Start, PlanStep, setup
<1>7. CASE BeginSetup
  BY <1>7, Zenon DEF BeginSetup, PlanStep, setup
<1>8. CASE Rebroadcast
  BY <1>8, Zenon DEF Rebroadcast, PlanStep, setup, SetupFails
<1>9. CASE FinalizeConfirmed
  BY <1>9, Zenon DEF FinalizeConfirmed, PlanStep, setup
<1>10. CASE UseHighest
  BY <1>10, Zenon DEF UseHighest, PlanStep, setup
<1>11. CASE BeginCreate
  BY <1>11, Zenon DEF BeginCreate, PlanStep, setup
<1>12. CASE CreateSync
  BY <1>12, Zenon DEF CreateSync, PlanStep, setup, SyncAndSave
<1>13. CASE Create
  BY <1>13, Zenon DEF Create, PlanStep, setup
<1>14. CASE Register
  BY <1>14, Zenon DEF Register, PlanStep, setup
<1>15. CASE CreateConfirmed
  BY <1>15, Zenon DEF CreateConfirmed, PlanStep, setup
<1>16. CASE Liquidity
  BY <1>16, Zenon DEF Liquidity, PlanStep, setup, SyncAndSave
<1>17. CASE Announce
  BY <1>17, Zenon DEF Announce, PlanStep, setup
<1>18. CASE SwapStarts
  BY <1>18, Zenon DEF SwapStarts, PlanStep, setup
<1>19. CASE SwapEnds
  BY <1>19, Zenon DEF SwapEnds, PlanStep, setup, SyncAndSave
<1>20. CASE RenewalTick
  BY <1>20, Zenon DEF RenewalTick, PlanStep, setup
<1>21. CASE RedeemFails
  BY <1>21, Zenon DEF RedeemFails, PlanStep, setup
<1>22. CASE FinalizeTimesOut
  BY <1>22, Zenon DEF FinalizeTimesOut, PlanStep, setup
<1>23. CASE CreateTimesOut
  BY <1>23, Zenon DEF CreateTimesOut, PlanStep, setup, SetupFails
<1>24. CASE BackendFails
  BY <1>24, Zenon DEF BackendFails, PlanStep, setup, SetupFails
<1>25. CASE Stop
  BY <1>25, Zenon DEF Stop, PlanStep, setup, Down
<1>26. CASE Crash
  BY <1>26, Zenon DEF Crash, PlanStep, setup, Down
<1>27. CASE UNCHANGED vars
  BY <1>27, Zenon DEF vars, PlanStep, setup
<1> QED
  BY <1>1, <1>2, <1>3, <1>4, <1>5, <1>6, <1>7, <1>8, <1>9, <1>10, <1>11, <1>12, <1>13, <1>14,
     <1>15, <1>16, <1>17, <1>18, <1>19, <1>20, <1>21, <1>22, <1>23, <1>24, <1>25, <1>26, <1>27
  DEF Next, Network, Setup, Threads, Errors

\* Then every bond the wallet file knows is given up or expired: the heart of NoSecondLock.
LEMMA NothingLeft ==
  ASSUME Context, Looked, pc = "finalize", queue = {}, Valued = {}, NEW b \in Bonds, Known(b)
  PROVE GivenUp(b)
<1>1. PICK i \in 1..Len(disk) : disk[i].bond = b
  BY DEF Known
<1>2. SameRows
  BY SameIsRows DEF Context, Up
<1>3. i \in 1..Len(bonds) /\ bonds[i].bond = b /\ (bonds[i].spent => Expired(b))
  BY <1>1, <1>2 DEF SameRows, SameRow
<1>4. CASE bonds[i].spent
  BY <1>3, <1>4 DEF GivenUp
<1>5. CASE ~bonds[i].spent /\ bonds[i].conf = 0
  BY <1>3, <1>5 DEF Looked, GivenUp
<1>6. CASE ~bonds[i].spent /\ bonds[i].conf # 0
  BY <1>3, <1>6 DEF Valued, GivenUp
<1> QED BY <1>4, <1>5, <1>6

\* Old is preserved.
LEMMA StepOld == ASSUME Context, Mined, Looked, Old, [Next]_vars, MadeStep, RowStep PROVE Old'
<1>0. PlanStep /\ Ranges /\ Len(made) \in Nat /\ Len(made') \in Nat
  BY PlanMoves, MadeGrows DEF Context
<1>1. ASSUME NEW b \in Bonds', b < Len(made'), NewKnown(b)
  PROVE b \in skipped' \/ height' > made'[b].lock
  <2>1. b \in Bonds /\ Known(b)
    BY <1>1, KnownStep
  <2>2. CASE b < Len(made)
    <3>1. GivenUp(b)
      BY <2>1, <2>2 DEF Old
    <3> QED BY <1>0, <2>1, <3>1, StaysGivenUp
  <2>3. CASE ~(b < Len(made))
    <3>1. NewBond
      BY <1>0, <1>1, <2>1, <2>3 DEF MadeStep, Bonds
    <3>2. GivenUp(b)
      BY <2>1, <3>1 DEF Old, NewBond
    <3> QED BY <1>0, <2>1, <3>2, StaysGivenUp
  <2> QED BY <2>2, <2>3
<1>2. ASSUME pc' \in {"sync", "create"}, NEW b \in Bonds', NewKnown(b)
  PROVE b \in skipped' \/ height' > made'[b].lock
  <2>1. b \in Bonds /\ Known(b)
    BY <1>2, KnownStep DEF Registered
  <2>2. GivenUp(b)
    <3>1. CASE pc = "finalize" /\ queue = {} /\ Valued = {}
      BY <2>1, <3>1, NothingLeft
    <3>2. CASE pc \in {"sync", "create"}
      BY <2>1, <3>2 DEF Old
    <3> QED BY <1>0, <1>2, <3>1, <3>2 DEF PlanStep
  <2> QED BY <1>0, <2>1, <2>2, StaysGivenUp
<1> QED BY <1>1, <1>2, OldIs

-----------------------------------------------------------------------------
(* Seen, and the types of the sets.                                        *)

\* A row in memory after a step comes from a row before it, or is the new bond's.
LEMMA MemRow == ASSUME Context, Mined, MadeStep, RowStep, Same', Up, NEW i \in 1..Len(bonds')
  PROVE \/ i \in 1..Len(bonds) /\ bonds'[i].bond = bonds[i].bond /\ bonds[i].bond \in Bonds
        \/ Registered /\ bonds'[i].bond = Len(made)
<1>1. Up' /\ i \in 1..Len(disk') /\ bonds'[i].bond = disk'[i].bond
  BY DEF Same
<1>2. SameRows
  BY SameIsRows DEF Context
<1>3. CASE i \in 1..Len(disk)
  <2>1. disk'[i].bond = disk[i].bond /\ disk[i].bond \in Bonds
    BY <1>3, OldRow
  <2>2. i \in 1..Len(bonds) /\ bonds[i].bond = disk[i].bond
    BY <1>2, <1>3 DEF SameRows, SameRow
  <2> QED BY <1>1, <2>1, <2>2
<1>4. CASE i \notin 1..Len(disk)
  BY <1>1, <1>4, NewRow
<1> QED BY <1>3, <1>4

\* What a step does to the wallet's outputs.
CacheStep ==
  \/ bonds' = <<>>
  \/ Up /\ cache' = cache /\ sent \subseteq sent'
  \/ /\ made' = made
     /\ \A b \in Bonds : Live(b) /\ made[b].out = "unspent" /\ (\E i \in 1..Len(bonds') : bonds'[i].bond = b)
          => b \in cache'

\* The wallet's outputs are kept, or taken anew from the chain by a sync.
LEMMA CacheMoves == ASSUME Context, Mined, [Next]_vars, MadeStep, RowStep, Same' PROVE CacheStep
<1> SUFFICES ASSUME Next \/ UNCHANGED vars PROVE CacheStep
  OBVIOUS
<1>0. ~Up => bonds = <<>>
  BY SameIsRows DEF Context
<1>1. CASE NewBlock
  BY <1>1, Zenon, <1>0 DEF NewBlock, CacheStep, Up, wallet, chain, ghosts, setup, chainFrame
<1>2. CASE Deposit
  BY <1>2, Zenon, <1>0 DEF Deposit, CacheStep, Up, wallet, chain, ghosts, setup, chainFrame
<1>3. ASSUME NEW b \in Bonds, Evict(b) PROVE CacheStep
  BY <1>3, Zenon, <1>0 DEF Evict, CacheStep, Up, wallet, chain, ghosts, setup, chainFrame
<1>4. ASSUME NEW b \in Bonds, Reorg(b) PROVE CacheStep
  BY <1>4, Zenon, <1>0 DEF Reorg, CacheStep, Up, wallet, chain, ghosts, setup, chainFrame
<1>5. ASSUME NEW b \in Bonds, DropRedeem(b) PROVE CacheStep
  BY <1>5, Zenon, <1>0 DEF DropRedeem, CacheStep, Up, wallet, chain, ghosts, setup, chainFrame
<1>6. CASE Start
  <2>1. made' = made /\ bonds' = disk
        /\ cache' = {b \in Bonds : Live(b) /\ made[b].out = "unspent"
                             /\ \E i \in 1..Len(disk) : disk[i].bond = b}
    BY <1>6, Zenon DEF Start, chain
  <2> QED BY <2>1, Zenon DEF CacheStep
<1>7. CASE BeginSetup
  BY <1>7, Zenon, <1>0 DEF BeginSetup, CacheStep, Up, wallet, chain, ghosts, setup
<1>8. CASE Rebroadcast
  BY <1>8, Zenon, <1>0 DEF Rebroadcast, CacheStep, Up, wallet, chain, ghosts, setup, SetupFails
<1>9. CASE FinalizeConfirmed
  <2>1. pc = "await" /\ cache' = cache /\ sent' = sent
    BY <1>9, Zenon DEF FinalizeConfirmed, Confirmed, ghosts
  <2> QED BY <2>1 DEF CacheStep, Up
<1>10. CASE UseHighest
  BY <1>10, Zenon, <1>0 DEF UseHighest, CacheStep, Up, wallet, chain, ghosts, setup
<1>11. CASE BeginCreate
  BY <1>11, Zenon, <1>0 DEF BeginCreate, CacheStep, Up, wallet, chain, ghosts, setup
<1>12. CASE CreateSync
  <2>1. made' = made /\ cache' = Unspent /\ bonds' = bonds
    BY <1>12, Zenon DEF CreateSync, SyncAndSave, chain
  <2> QED BY <2>1, Zenon DEF CacheStep, Unspent
<1>13. CASE Create
  BY <1>13, Zenon, <1>0 DEF Create, CacheStep, Up, wallet, chain, ghosts, setup
<1>14. CASE Register
  BY <1>14, Zenon, <1>0 DEF Register, CacheStep, Up, wallet, chain, ghosts, setup
<1>15. CASE CreateConfirmed
  <2>1. made' = made /\ cache' = Unspent /\ pc = "confirm"
    BY <1>15, Zenon DEF CreateConfirmed, chain
  <2>2. ASSUME NEW b \in Bonds, Live(b), made[b].out = "unspent", NEW i \in 1..Len(bonds'), bonds'[i].bond = b
        PROVE b \in Unspent
    <3>1. i \in 1..Len(bonds) /\ bonds[i].bond = b
      BY <2>1, <2>2, MemRow DEF Up, Registered
    <3> QED BY <2>2, <3>1, Zenon DEF Unspent
  <2> QED BY <2>1, <2>2 DEF CacheStep
<1>16. CASE Liquidity
  <2>1. made' = made /\ cache' = Unspent /\ bonds' = bonds
    BY <1>16, Zenon DEF Liquidity, SyncAndSave, chain
  <2> QED BY <2>1, Zenon DEF CacheStep, Unspent
<1>17. CASE Announce
  BY <1>17, Zenon, <1>0 DEF Announce, CacheStep, Up, wallet, chain, ghosts, setup
<1>18. CASE SwapStarts
  BY <1>18, Zenon, <1>0 DEF SwapStarts, CacheStep, Up, wallet, chain, ghosts, setup
<1>19. CASE SwapEnds
  <2>1. made' = made /\ cache' = Unspent /\ bonds' = bonds
    BY <1>19, Zenon DEF SwapEnds, SyncAndSave, chain
  <2> QED BY <2>1, Zenon DEF CacheStep, Unspent
<1>20. CASE RenewalTick
  BY <1>20, Zenon, <1>0 DEF RenewalTick, CacheStep, Up, wallet, chain, ghosts, setup
<1>21. CASE RedeemFails
  BY <1>21, Zenon, <1>0 DEF RedeemFails, CacheStep, Up, wallet, chain, ghosts, setup
<1>22. CASE FinalizeTimesOut
  BY <1>22, Zenon, <1>0 DEF FinalizeTimesOut, CacheStep, Up, wallet, chain, ghosts, setup
<1>23. CASE CreateTimesOut
  BY <1>23, Zenon, <1>0 DEF CreateTimesOut, CacheStep, Up, wallet, chain, ghosts, setup, SetupFails
<1>24. CASE BackendFails
  BY <1>24, Zenon, <1>0 DEF BackendFails, CacheStep, Up, wallet, chain, ghosts, setup, SetupFails
<1>25. CASE Stop
  BY <1>25, Zenon, <1>0 DEF Stop, CacheStep, Up, wallet, chain, ghosts, setup, Down
<1>26. CASE Crash
  BY <1>26, Zenon, <1>0 DEF Crash, CacheStep, Up, wallet, chain, ghosts, setup, Down
<1>27. CASE UNCHANGED vars
  BY <1>27, Zenon, <1>0 DEF vars, CacheStep, Up, wallet, chain, ghosts, setup
<1> QED
  BY <1>1, <1>2, <1>3, <1>4, <1>5, <1>6, <1>7, <1>8, <1>9, <1>10, <1>11, <1>12, <1>13, <1>14,
     <1>15, <1>16, <1>17, <1>18, <1>19, <1>20, <1>21, <1>22, <1>23, <1>24, <1>25, <1>26, <1>27
  DEF Next, Network, Setup, Threads, Errors

\* Seen in the next state, with its definitions expanded.
LEMMA SeenIs ==
  ASSUME \A i \in 1..Len(bonds') :
           made'[bonds'[i].bond].status \in {"mempool", "mined"} /\ made'[bonds'[i].bond].out = "unspent"
             => bonds'[i].bond \in cache' \cup sent' \cup moved'
  PROVE Seen'
BY DEF Seen, Live

\* Seen is preserved.
LEMMA StepSeen == ASSUME Context, Mined, Seen, [Next]_vars, MadeStep, RowStep, Same', Stored'
  PROVE Seen'
<1> SUFFICES ASSUME NEW i \in 1..Len(bonds'),
                    made'[bonds'[i].bond].status \in {"mempool", "mined"}, made'[bonds'[i].bond].out = "unspent"
             PROVE bonds'[i].bond \in cache' \cup sent' \cup moved'
  BY SeenIs
<1>1. CASE bonds' = <<>>
  BY <1>1
<1>2. CASE Up /\ cache' = cache /\ sent \subseteq sent'
  <2>1. CASE i \in 1..Len(bonds) /\ bonds'[i].bond = bonds[i].bond /\ bonds[i].bond \in Bonds
    <3> DEFINE b == bonds[i].bond
    <3>1. TxStep(b, made[b], made'[b]) /\ moved \subseteq moved'
      BY <2>1 DEF MadeStep
    <3>2. Live(b) /\ made[b].out = "unspent" => b \in cache \cup sent \cup moved
      BY <2>1 DEF Seen
    <3>3. made'[b].status \in {"mempool", "mined"} /\ made'[b].out = "unspent"
      BY <2>1
    <3> HIDE DEF b
    <3>4. b \in cache' \cup sent' \cup moved'
      BY <1>2, <3>1, <3>2, <3>3 DEF TxStep, Live
    <3> QED BY <2>1, <3>4 DEF b
  <2>2. CASE Registered /\ bonds'[i].bond = Len(made)
    BY <1>2, <2>2 DEF Registered, Context, Stage
  <2> QED BY <1>2, <2>1, <2>2, MemRow
<1>3. CASE /\ made' = made
           /\ \A b \in Bonds : Live(b) /\ made[b].out = "unspent" /\ (\E j \in 1..Len(bonds') : bonds'[j].bond = b)
                => b \in cache'
  <2>1. bonds'[i].bond \in Bonds'
    <3>1. i \in 1..Len(disk') /\ bonds'[i].bond = disk'[i].bond
      BY DEF Same
    <3> QED BY <3>1 DEF Stored
  <2>2. bonds'[i].bond \in Bonds /\ Live(bonds'[i].bond) /\ made[bonds'[i].bond].out = "unspent"
    BY <1>3, <2>1 DEF Bonds, Live
  <2> QED BY <1>3, <2>2
<1> QED BY <1>1, <1>2, <1>3, CacheMoves DEF CacheStep

\* What a step may add to the sets of bonds.
Named == {bonds[i].bond : i \in 1..Len(bonds)}
GhostStep ==
  /\ cache' \subseteq cache \cup Bonds /\ moved' \subseteq moved \cup Bonds
  /\ skipped' \subseteq skipped \cup Named
  /\ sent' \subseteq sent \cup Named \/ (Create /\ sent' = sent \cup {Len(made) + 1} /\ pc' = "register")
  /\ heard' \in {heard, 0, proof.bond}

\* Only bonds that were made get into the wallet's outputs and into the ghosts.
LEMMA GhostMoves == ASSUME [Next]_vars, queue \subseteq 1..Len(bonds), pc = "confirm" => Len(bonds) \in 1..Len(bonds)
  PROVE GhostStep
<1> SUFFICES ASSUME Next \/ UNCHANGED vars PROVE GhostStep
  OBVIOUS
<1>1. CASE NewBlock
  BY <1>1, Zenon DEF NewBlock, GhostStep, Named, wallet, chain, ghosts, chainFrame
<1>2. CASE Deposit
  BY <1>2, Zenon DEF Deposit, GhostStep, Named, wallet, chain, ghosts, chainFrame
<1>3. ASSUME NEW b \in Bonds, Evict(b) PROVE GhostStep
  BY <1>3, Zenon DEF Evict, GhostStep, Named, wallet, chain, ghosts, chainFrame
<1>4. ASSUME NEW b \in Bonds, Reorg(b) PROVE GhostStep
  BY <1>4, Zenon DEF Reorg, GhostStep, Named, wallet, chain, ghosts, chainFrame
<1>5. ASSUME NEW b \in Bonds, DropRedeem(b) PROVE GhostStep
  BY <1>5, Zenon DEF DropRedeem, GhostStep, Named, wallet, chain, ghosts, chainFrame
<1>6. CASE Start
  BY <1>6, Zenon DEF Start, GhostStep, Named, wallet, chain, ghosts
<1>7. CASE BeginSetup
  BY <1>7, Zenon DEF BeginSetup, GhostStep, Named, wallet, chain, ghosts
<1>8. CASE Rebroadcast
  BY <1>8, Zenon DEF Rebroadcast, GhostStep, Named, wallet, chain, ghosts, SetupFails
<1>9. CASE FinalizeConfirmed
  BY <1>9, Zenon DEF FinalizeConfirmed, GhostStep, Named, wallet, chain, ghosts, Confirmed
<1>10. CASE UseHighest
  BY <1>10, Zenon DEF UseHighest, GhostStep, Named, wallet, chain, ghosts
<1>11. CASE BeginCreate
  BY <1>11, Zenon DEF BeginCreate, GhostStep, Named, wallet, chain, ghosts
<1>12. CASE CreateSync
  BY <1>12, Zenon DEF CreateSync, GhostStep, Named, wallet, chain, ghosts, SyncAndSave, Unspent
<1>13. CASE Create
  BY <1>13, Zenon DEF Create, GhostStep, Named, wallet, chain, ghosts
<1>14. CASE Register
  BY <1>14, Zenon DEF Register, GhostStep, Named, wallet, chain, ghosts
<1>15. CASE CreateConfirmed
  BY <1>15, Zenon DEF CreateConfirmed, GhostStep, Named, wallet, chain, ghosts, Unspent
<1>16. CASE Liquidity
  BY <1>16, Zenon DEF Liquidity, GhostStep, Named, wallet, chain, ghosts, SyncAndSave, Unspent
<1>17. CASE Announce
  BY <1>17, Zenon DEF Announce, GhostStep, Named, wallet, chain, ghosts
<1>18. CASE SwapStarts
  BY <1>18, Zenon DEF SwapStarts, GhostStep, Named, wallet, chain, ghosts
<1>19. CASE SwapEnds
  BY <1>19, Zenon DEF SwapEnds, GhostStep, Named, wallet, chain, ghosts, SyncAndSave, Unspent
<1>20. CASE RenewalTick
  BY <1>20, Zenon DEF RenewalTick, GhostStep, Named, wallet, chain, ghosts
<1>21. CASE RedeemFails
  BY <1>21, Zenon DEF RedeemFails, GhostStep, Named, wallet, chain, ghosts
<1>22. CASE FinalizeTimesOut
  BY <1>22, Zenon DEF FinalizeTimesOut, GhostStep, Named, wallet, chain, ghosts
<1>23. CASE CreateTimesOut
  BY <1>23, Zenon DEF CreateTimesOut, GhostStep, Named, wallet, chain, ghosts, SetupFails
<1>24. CASE BackendFails
  BY <1>24, Zenon DEF BackendFails, GhostStep, Named, wallet, chain, ghosts, SetupFails
<1>25. CASE Stop
  BY <1>25, Zenon DEF Stop, GhostStep, Named, wallet, chain, ghosts, Down
<1>26. CASE Crash
  BY <1>26, Zenon DEF Crash, GhostStep, Named, wallet, chain, ghosts, Down
<1>27. CASE UNCHANGED vars
  BY <1>27, Zenon DEF vars, GhostStep, Named, wallet, chain, ghosts
<1> QED
  BY <1>1, <1>2, <1>3, <1>4, <1>5, <1>6, <1>7, <1>8, <1>9, <1>10, <1>11, <1>12, <1>13, <1>14,
     <1>15, <1>16, <1>17, <1>18, <1>19, <1>20, <1>21, <1>22, <1>23, <1>24, <1>25, <1>26, <1>27
  DEF Next, Network, Setup, Threads, Errors

\* The types of the sets of bonds.
Sets ==
  /\ cache \subseteq Bonds /\ skipped \subseteq Bonds /\ sent \subseteq Bonds /\ moved \subseteq Bonds
  /\ heard \in 0..Len(made)

\* The sets of bonds keep their types.
LEMMA StepSets ==
  ASSUME Context, Sets, [Next]_vars, MadeStep, queue \subseteq 1..Len(bonds), proof.bond \in 0..Len(made)
  PROVE Sets'
<1>0. Bonds \subseteq Bonds' /\ Len(made) \in Nat /\ Len(made') \in Nat /\ Len(made) <= Len(made')
  BY MadeGrows DEF Context
<1>1. Named \subseteq Bonds
  BY BondsIn DEF Named
<1>2. GhostStep
  <2>1. pc = "confirm" => Len(bonds) \in 1..Len(bonds)
    BY DEF Context, Stage, Lists
  <2> QED BY <2>1, GhostMoves
<1>3. cache' \subseteq Bonds' /\ moved' \subseteq Bonds' /\ skipped' \subseteq Bonds'
  BY <1>0, <1>1, <1>2 DEF GhostStep, Sets
<1>4. sent' \subseteq Bonds'
  <2>1. CASE sent' \subseteq sent \cup Named
    BY <1>0, <1>1, <2>1 DEF Sets
  <2>2. CASE Create /\ sent' = sent \cup {Len(made) + 1} /\ pc' = "register"
    <3>1. \E t : made' = Append(made, t)
      BY <2>2, Zenon DEF Create
    <3>2. Len(made') = Len(made) + 1
      BY <3>1, SeqLonger DEF Context, Ranges
    <3>3. Len(made) + 1 \in Bonds'
      BY <1>0, <3>2 DEF Bonds
    <3> QED BY <1>0, <2>2, <3>3 DEF Sets
  <2> QED BY <1>2, <2>1, <2>2 DEF GhostStep
<1>5. heard' \in 0..Len(made')
  BY <1>0, <1>2 DEF GhostStep, Sets
<1> QED BY <1>3, <1>4, <1>5 DEF Sets

-----------------------------------------------------------------------------
(* The theorems.                                                           *)

\* The type invariant in parts.
Types ==
  /\ Ranges /\ Lists /\ Scalars /\ Sets /\ target \in Nat /\ faults \in 0..MaxFaults
  /\ queue \subseteq 1..Len(bonds) /\ proof \in [bond : 0..Len(made), conf : 0..MaxHeight]

\* The type invariant in the parts the lemmas use.
LEMMA TypesGiven == ASSUME TypeOK PROVE Types
BY DEF TypeOK, Types, Ranges, Lists, Scalars, Sets, Pcs

\* And back.
LEMMA TypeOKIs == ASSUME Types, Stored, Same PROVE TypeOK
<1>1. \A i \in 1..Len(bonds) : bonds[i].raw <=> bonds[i].conf = 0
  <2> SUFFICES ASSUME NEW i \in 1..Len(bonds) PROVE bonds[i].raw <=> bonds[i].conf = 0
    OBVIOUS
  <2>0. Up
    BY SameIsRows
  <2>1. i \in 1..Len(disk) /\ bonds[i].raw = disk[i].raw /\ bonds[i].conf = disk[i].conf
    BY <2>0, SameIsRows DEF SameRows, SameRow
  <2>2. disk[i].raw <=> disk[i].conf = 0
    BY <2>1, StoredRow
  <2> QED BY <2>1, <2>2
<1> QED BY <1>1 DEF TypeOK, Types, Ranges, Lists, Scalars, Sets, Pcs

\* The initial state satisfies the inductive invariant.
LEMMA Initially == Init => IInv
<1> SUFFICES ASSUME Init PROVE IInv
  OBVIOUS
<1>1. Len(made) = 0 /\ Len(bonds) = 0 /\ Len(disk) = 0 /\ Bonds = {}
  BY DEF Init, Bonds
<1>4. Stored /\ Same /\ Mined /\ Looked /\ Old /\ Seen
  BY <1>1, SMTT(20) DEF Init, Stored, Same, Mined, Looked, Old, Known, Seen, Up
<1>6. Ranges /\ Lists
  BY BondAssumption DEF Init, Ranges, Lists
<1>7. Scalars
  BY Zenon DEF Init, Scalars, Pcs
<1>8. Sets /\ target \in Nat /\ faults \in 0..MaxFaults /\ queue \subseteq 1..Len(bonds)
  BY <1>1, BondAssumption DEF Init, Sets
<1>9. proof \in [bond : 0..Len(made), conf : 0..MaxHeight]
  BY <1>1, BondAssumption DEF Init
<1>2. TypeOK
  BY <1>4, <1>6, <1>7, <1>8, <1>9, TypeOKIs DEF Types
<1>3. Few /\ Stage
  BY <1>1, BondAssumption DEF Init, Few, Stage
<1>5. Dated
  BY <1>1 DEF Init, Dated, Up
<1> QED BY <1>2, <1>3, <1>4, <1>5 DEF IInv

\* Every step of Next preserves the inductive invariant.
LEMMA Steps == ASSUME IInv, [Next]_vars PROVE Types' /\ IInv' /\ MadeStep /\ ListStep
<1>1. Types
  BY TypesGiven DEF IInv
<1>2. Context
  BY <1>1 DEF IInv, Context, Types, Sets
<1>3. MadeStep
  <2>1. \A i \in queue : bonds[i].bond \in Bonds
    BY <1>1, <1>2, BondsIn DEF Types
  <2> QED BY <1>1, <2>1, EveryStepMade DEF Types
<1>4. ListStep
  <2>1. pc = "confirm" => Len(bonds) \in 1..Len(bonds)
    BY <1>2 DEF Context, Stage, Lists
  <2> QED BY <1>1, <1>2, <2>1, EveryStepLists DEF Types, Context
<1>5. RowStep /\ Lists'
  BY <1>2, <1>4, Rows
<1>6. Stored'
  BY <1>2, <1>3, <1>5, StepStored DEF IInv
<1>7. Same'
  BY <1>2, <1>3, <1>4, <1>5, <1>6, StepSame DEF IInv
<1>8. Stage'
  BY <1>1, <1>2, <1>3, <1>4, StepStage DEF Types
<1>9. Mined'
  BY <1>1, <1>2, <1>3, StepMined DEF IInv, Context, Types
<1>10. proof.bond \in 0..Len(made) /\ proof.conf \in 0..MaxHeight
  BY <1>1 DEF Types
<1>11. Dated' /\ proof'.bond \in 0..Len(made')
  BY <1>1, <1>2, <1>3, <1>5, <1>7, <1>10, StepDated DEF IInv, Types
<1>12. Looked' /\ queue' \subseteq 1..Len(bonds')
  BY <1>1, <1>2, <1>3, StepLooked DEF IInv, Types
<1>13. Old'
  BY <1>2, <1>3, <1>5, StepOld DEF IInv
<1>14. Seen'
  BY <1>2, <1>3, <1>5, <1>6, <1>7, StepSeen DEF IInv
<1>15. Sets'
  BY <1>1, <1>2, <1>3, <1>10, StepSets DEF Types
<1>16. Few'
  BY <1>3 DEF IInv, Few, MadeStep, NewBond
<1>17. Scalars'
  BY <1>1, ScalarStep DEF Types
<1>18. target' \in Nat
  <2>1. PcStep
    BY <1>1, <1>2, PcMoves DEF Types, Context
  <2>2. height + Timelock \in Nat
    BY <1>1, BondAssumption DEF Types, Ranges
  <2> QED BY <1>1, <2>1, <2>2 DEF PcStep, Types
<1>19. faults' \in 0..MaxFaults
  BY <1>1, CounterStep, BondAssumption DEF Counters, Types
<1>20. Ranges'
  BY <1>1, <1>3, CoinStep, BondAssumption DEF MadeStep, Coins, Types, Ranges
<1>21. proof' \in [bond : 0..Len(made'), conf : 0..MaxHeight]
  <2>0. Len(made) \in Nat /\ Len(made') \in Nat /\ Len(made) <= Len(made')
    BY <1>2, <1>3, MadeGrows DEF Context
  <2>1. CASE proof' = proof
    BY <1>1, <2>0, <2>1 DEF Types
  <2>2. CASE proof' = [bond |-> 0, conf |-> 0]
    BY <2>0, <2>2, BondAssumption
  <2>3. ASSUME NEW i \in 1..Len(bonds'), proof' = [bond |-> bonds'[i].bond, conf |-> bonds'[i].conf]
        PROVE proof' \in [bond : 0..Len(made'), conf : 0..MaxHeight]
    <3>1. bonds'[i] \in Entries
      BY <1>5, SeqAt DEF Lists
    <3>2. bonds'[i].conf \in 0..MaxHeight
      BY <3>1, EntryFields
    <3>3. bonds'[i].bond \in 0..Len(made')
      BY <1>11, <2>3
    <3> QED BY <2>3, <3>2, <3>3
  <2> QED BY <1>1, <1>2, <2>1, <2>2, <2>3, ProofMoves DEF ProofStep, IInv, Types
<1>22. Types'
  BY <1>5, <1>12, <1>15, <1>17, <1>18, <1>19, <1>20, <1>21 DEF Types
<1>23. TypeOK'
  <2>1. \A i \in 1..Len(bonds') : bonds'[i].raw <=> bonds'[i].conf = 0
    <3> SUFFICES ASSUME NEW i \in 1..Len(bonds') PROVE bonds'[i].raw <=> bonds'[i].conf = 0
      OBVIOUS
    <3>1. i \in 1..Len(disk') /\ bonds'[i].raw = disk'[i].raw /\ bonds'[i].conf = disk'[i].conf
      BY <1>7 DEF Same, Up
    <3>2. disk'[i].raw <=> disk'[i].conf = 0
      BY <1>6, <3>1 DEF Stored
    <3> QED BY <3>1, <3>2
  <2> QED BY <1>22, <2>1 DEF TypeOK, Types, Ranges, Lists, Scalars, Sets, Pcs
<1> QED
  BY <1>3, <1>4, <1>6, <1>7, <1>8, <1>9, <1>11, <1>12, <1>13, <1>14, <1>16, <1>22, <1>23 DEF IInv

\* The inductive invariant holds in every reachable state, for every value of the constants.
THEOREM Invariant == Spec => []IInv
<1>1. IInv /\ [Next]_vars => IInv'
  BY Steps
<1> QED BY <1>1, Initially, PTL DEF Spec

\* Type correctness; with it, a bond of the wallet keeps its raw transaction exactly until its
\* height is stored (update_fidelity_bond_conf_details).
THEOREM TypeCorrect == Spec => []TypeOK
<1>1. IInv => TypeOK
  BY DEF IInv
<1> QED BY <1>1, Invariant, PTL

\* setup_fidelity_bond never locks funds in a second bond while one that the wallet file knows and
\* that was not given up is still locked, through restarts, evictions, reorganisations and errors.
THEOREM AlwaysNoSecondLock == Spec => []NoSecondLock
<1>1. IInv => NoSecondLock
  <2> SUFFICES ASSUME IInv, NEW b \in Bonds, NEW c \in Bonds, b < c, Locked(b), Known(b)
               PROVE b \in skipped
    BY Zenon DEF NoSecondLock
  <2>1. b < Len(made)
    <3>1. Len(made) \in Nat
      BY TypesGiven DEF IInv, Types, Ranges
    <3> QED BY <3>1 DEF Bonds
  <2>2. GivenUp(b)
    BY <2>1 DEF IInv, Old
  <2> QED BY <2>2 DEF Locked, GivenUp
<1> QED BY <1>1, Invariant, PTL

\* The proof that GetOffer serves passes verify_fidelity_checks of a taker, but for the exceptions
\* that ServedVerifies names.
THEOREM AlwaysServedVerifies == Spec => []ServedVerifies
<1>1. IInv => ServedVerifies
  <2> SUFFICES ASSUME IInv, pc \in {"liquidity", "serving"}
               PROVE LET b == proof.bond IN
                     /\ b # 0
                     /\ \/ VerifyChecks(proof) \/ Expired(b) \/ b \in moved
                        \/ made[b].at - (made[b].lock - Timelock) > Timelock - MinLock
    BY DEF ServedVerifies
  <2> DEFINE b == proof.bond
             h == proof.conf
  <2>1. Types
    BY TypesGiven DEF IInv
  <2>2. b # 0 /\ At(b, h)
    BY DEF IInv, Dated, Stage, Up
  <2>3. b \in Bonds
    BY <2>1, <2>2 DEF Types, Bonds, Ranges
  <2>4. made[b] \in Txs
    BY <2>1, <2>3, SeqAt DEF Types, Ranges, Bonds
  <2>5. made[b].lock \in Nat /\ made[b].at \in Nat /\ height \in Nat
    BY <2>1, <2>4, TxFields, BondAssumption DEF Types, Ranges
  <2>6. made[b].status = "mined" => made[b].lock <= made[b].at + Timelock
    BY <2>3 DEF IInv, Mined
  <2> HIDE DEF b, h
  <2>7. ASSUME made[b].status = "mined", made[b].at = h, ~Expired(b),
               ~(made[b].at - (made[b].lock - Timelock) > Timelock - MinLock)
        PROVE VerifyChecks(proof)
    <3>1. height <= made[b].lock
      BY <2>5, <2>7 DEF Expired
    <3>2. made[b].lock - h \in MinLock..MaxLock
      BY <2>5, <2>6, <2>7, BondAssumption
    <3> QED BY <2>7, <3>1, <3>2 DEF VerifyChecks, b, h
  <2>8. VerifyChecks(proof) \/ Expired(b) \/ b \in moved
        \/ made[b].at - (made[b].lock - Timelock) > Timelock - MinLock
    BY <2>2, <2>7 DEF At
  <2> QED BY <2>2, <2>8 DEF b
<1> QED BY <1>1, Invariant, PTL

\* A step that marks a bond sends its redemption, or the bond is one of the exceptions.
LEMMA OnlyRedeemed ==
  ASSUME IInv, [Next]_vars, NEW i \in 1..Len(bonds), ~bonds[i].spent, i \in 1..Len(bonds'), bonds'[i].spent
  PROVE LET b == bonds[i].bond IN made'[b].out = "redeemed" \/ b \in moved \cup sent \/ ~Live(b)
<1> DEFINE b == bonds[i].bond
<1>1. Types /\ MadeStep /\ ListStep
  BY TypesGiven, Steps DEF IInv
<1>2. Context
  BY <1>1 DEF IInv, Context, Types, Sets
<1>3. bonds[i] \in Entries /\ b \in Bonds /\ made[b] \in Txs
  BY <1>2, BondsIn
<1>4. ~Kept /\ ~Saved /\ ~Gone
  BY DEF Kept, Saved, Gone
<1>5. ~Loaded
  BY <1>2, SameIsRows DEF Loaded, Context
<1>6. ~Registered
  <2>1. ASSUME Registered PROVE bonds'[i] = bonds[i]
    <3>1. \E e : bonds' = Append(bonds, e)
      BY <2>1 DEF Registered
    <3> QED BY <3>1 DEF Context, Lists, Types
  <2> QED BY <2>1
<1>7. ASSUME NEW k \in 1..Len(bonds), DatedAt(k) PROVE FALSE
  <2>1. bonds'[k].spent = bonds[k].spent /\ \A j \in 1..Len(bonds) \ {k} : bonds'[j] = bonds[j]
    BY <1>2, <1>7, DatedRow DEF IInv
  <2>2. bonds'[i].spent = bonds[i].spent
    BY <2>1
  <2> QED BY <2>2
<1>8. ASSUME NEW S \in SUBSET Redeemable, Marked(S)
      PROVE made'[b].out = "redeemed" \/ b \in moved \cup sent \/ ~Live(b)
  <2>1. i \in S
    BY <1>2, <1>8, RowsMarked
  <2>2. made'[b] = IF b \in cache THEN WithOut(made[b], "redeemed") ELSE made[b]
    BY <1>3, <1>8, <2>1 DEF Marked
  <2>3. CASE b \in cache
    <3>1. WithOut(made[b], "redeemed").out = "redeemed"
      BY <1>3, TxOut
    <3> QED BY <2>2, <2>3, <3>1
  <2>4. CASE b \notin cache
    <3>1. Live(b) /\ made[b].out = "unspent" => b \in sent \cup moved
      BY <2>4 DEF IInv, Seen
    <3>2. made[b].out \in {"unspent", "redeemed"}
      BY <1>3 DEF Txs
    <3>3. made'[b] = made[b]
      BY <2>2, <2>4
    <3> QED BY <3>1, <3>2, <3>3
  <2> QED BY <2>3, <2>4
<1> QED BY <1>1, <1>4, <1>5, <1>6, <1>7, <1>8 DEF ListStep

\* redeem_fidelity marks a bond as spent only with its redemption sent, but for the exceptions
\* that MarkedIsRedeemed names.
THEOREM AlwaysMarkedIsRedeemed == Spec => MarkedIsRedeemed
<1> DEFINE Redeems ==
      \A i \in 1..Len(bonds) :
        LET b == bonds[i].bond IN
        ~bonds[i].spent /\ i \in 1..Len(bonds') /\ bonds'[i].spent
          => made'[b].out = "redeemed" \/ b \in moved \cup sent \/ ~Live(b)
<1>1. IInv /\ [Next]_vars => [Redeems]_vars
  BY OnlyRedeemed
<1>2. Spec => [][Redeems]_vars
  BY <1>1, Invariant, PTL DEF Spec
<1> QED BY <1>2 DEF MarkedIsRedeemed
=============================================================================
