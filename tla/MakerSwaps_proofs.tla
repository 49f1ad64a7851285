-------------------------- MODULE MakerSwaps_proofs --------------------------
(***************************************************************************)
(* Safety of the maker's swap table for any number of swaps, connections,  *)
(* keepalive connections and contracts per swap.                           *)
(*                                                                         *)
(* The invariant says what every copy of a swap's state looks like (in the *)
(* table, in a handler, in a keepalive), which contracts a handler has on  *)
(* disk at each step, and that the set of contracts that are saved or      *)
(* accounted for by a tracker record only grows.                           *)
(***************************************************************************)
EXTENDS MakerSwaps, TLAPS

\* A state that holds no outgoing contracts is a bare reservation.
Plain(cs) ==
  cs.phase = "AwaitingContractData" /\ cs.inc = FALSE /\ cs.pend = FALSE /\ cs.fb = FALSE

WellFormed(cs) ==
  cs.swap \in Swaps /\ cs.phase \in Admitted /\ (cs.out = 0 => Plain(cs))

\* The i-th contract of the set a state holds.
Coin(st, i) == [swap |-> st.swap, set |-> st.out, i |-> i]

\* Contracts that are in the wallet file, or whose swap has a tracker record.
Saved == {k \in Coins : k \in walletOut \/ tracker[k.swap] # "none"}

EntryOK(e, s, A) == e # None => WellFormed(e.cs) /\ e.cs.swap = s /\ s \in A

BeatOK(cs, A) == cs # None => WellFormed(cs) /\ cs.swap \in A

Outside(x) ==
  /\ x.st.swap = None /\ x.st.out = 0 /\ x.pc = "ready"
  /\ x.st.inc = FALSE /\ x.st.pend = FALSE /\ x.st.fb = FALSE

ConnOK(x, A, S) ==
  /\ x.st.phase \notin Admitted => Outside(x)
  /\ x.st.phase \in Admitted => WellFormed(x.st) /\ (x.pc # "admit" => x.st.swap \in A)
  /\ x.pc = "admit" => x.st.out = 0
  /\ x.pc \in {"saveIn", "saveOut", "broadcast"} => x.st.out # 0
  /\ x.pc \in {"saveOut", "broadcast"} => x.n < NumTx
  /\ x.pc = "saveOut" => \A i \in 1..x.n : Coin(x.st, i) \in S
  /\ x.pc = "broadcast" => \A i \in 1..NumTx : Coin(x.st, i) \in S

RecOK(r, T) ==
  /\ \A k \in r.out : k.swap = r.swap
  /\ r.pc = "discard" => T[r.swap] # "none"

IInv ==
  /\ TypeOK
  /\ \A s \in Swaps : EntryOK(ongoing[s], s, admitted)
  /\ \A b \in Beats : BeatOK(beat[b], admitted)
  /\ \A c \in Conns : ConnOK(conn[c], admitted, Saved)
  /\ \A r \in recs : RecOK(r, tracker)
  /\ net \subseteq Saved
  /\ OnlyAdmittedFunded

-----------------------------------------------------------------------------
(* Facts about the helpers *)

ConnType == [pc : Steps, st : ConnState, n : 0..NumTx]

\* The parts of the type invariant, by name.
LEMMA Types ==
  ASSUME TypeOK
  PROVE  /\ \A s \in Swaps : ongoing[s] \in Entry \cup {None}
         /\ \A c \in Conns : conn[c] \in ConnType
         /\ \A b \in Beats : beat[b] \in ConnState \cup {None}
BY DEF TypeOK, ConnType

\* A contract of a held set is a contract.
LEMMA CoinType ==
  ASSUME NEW st \in ConnState, st.swap \in Swaps, st.out # 0, NEW i \in 1..NumTx
  PROVE  Coin(st, i) \in Coins
BY SizesAssumption DEF ConnState, Coin, Coins

\* More admitted swaps and more saved contracts keep a handler's state right.
LEMMA ConnMono ==
  ASSUME NEW x, NEW A, NEW S, NEW A2, NEW S2, A \subseteq A2, S \subseteq S2, ConnOK(x, A, S)
  PROVE  ConnOK(x, A2, S2)
BY DEF ConnOK

\* A slot without a connection is right.
LEMMA FreshOK ==
  ASSUME NEW A, NEW S
  PROVE  Fresh \in ConnType /\ ConnOK(Fresh, A, S)
<1>1. Fresh \in ConnType
  BY SizesAssumption DEF Fresh, NewState, ConnType, ConnState, Steps, Phases
<1>2. ConnOK(Fresh, A, S)
  BY DEF ConnOK, Fresh, NewState, Outside, Admitted, Phases
<1> QED BY <1>1, <1>2

\* What a handler works on after restore_state_if_needed, once the swap and the phase
\* have been checked: a well-formed state of an admitted swap.
LEMMA RestoredOK ==
  ASSUME IInv, NEW c \in Conns, NEW s \in Swaps, conn[c].pc = "ready",
         Restored(c, s).swap = s, Restored(c, s).phase \in Admitted
  PROVE  Restored(c, s) \in ConnState /\ WellFormed(Restored(c, s)) /\ s \in admitted
<1>1. CASE conn[c].st.out = 0 /\ ongoing[s] # None
  <2>1. Restored(c, s) = ongoing[s].cs
    BY <1>1 DEF Restored
  <2>2. ongoing[s] \in Entry /\ EntryOK(ongoing[s], s, admitted)
    BY <1>1, Types DEF IInv
  <2> QED BY <1>1, <2>1, <2>2 DEF Entry, EntryOK
<1>2. CASE ~(conn[c].st.out = 0 /\ ongoing[s] # None)
  <2>1. Restored(c, s) = conn[c].st
    BY <1>2 DEF Restored
  <2>2. conn[c] \in ConnType /\ ConnOK(conn[c], admitted, Saved)
    BY Types DEF IInv
  <2> QED BY <2>1, <2>2 DEF ConnType, ConnOK
<1> QED BY <1>1, <1>2

\* A step of one handler that touches only its own state keeps the invariant when the
\* new state is right.
LEMMA ConnStep ==
  ASSUME IInv, NEW c \in Conns, NEW x, x \in ConnType, ConnOK(x, admitted, Saved),
         conn' = [conn EXCEPT ![c] = x],
         UNCHANGED <<ongoing, beat, disk, threads, rest>>
  PROVE  IInv'
<1> USE DEF disk, threads, rest, history
<1>1. TypeOK'
  BY DEF IInv, TypeOK, ConnType
<1>2. Saved' = Saved
  BY DEF Saved
<1>3. \A d \in Conns : conn'[d] = IF d = c THEN x ELSE conn[d]
  BY DEF IInv, TypeOK
<1>4. \A d \in Conns : ConnOK(conn'[d], admitted, Saved)
  BY <1>3 DEF IInv
<1>5. OnlyAdmittedFunded'
  BY DEF IInv, OnlyAdmittedFunded
<1> QED BY <1>1, <1>2, <1>4, <1>5 DEF IInv
\* The general form: every part of the state is unchanged or right, and admitted swaps
\* and saved contracts only grow.
LEMMA GrowStep ==
  ASSUME IInv, TypeOK', admitted \subseteq admitted', Saved \subseteq Saved',
         \A s \in Swaps : ongoing'[s] = ongoing[s] \/ EntryOK(ongoing'[s], s, admitted'),
         \A b \in Beats : beat'[b] = beat[b] \/ BeatOK(beat'[b], admitted'),
         \A c \in Conns : conn'[c] = conn[c] \/ ConnOK(conn'[c], admitted', Saved'),
         \A r \in recs' : RecOK(r, tracker'),
         net' \subseteq Saved',
         \A k \in net' : k.swap \in admitted'
  PROVE  IInv'
<1>1. \A s \in Swaps : EntryOK(ongoing'[s], s, admitted')
  BY DEF IInv, EntryOK
<1>2. \A b \in Beats : BeatOK(beat'[b], admitted')
  BY DEF IInv, BeatOK
<1>3. \A c \in Conns : ConnOK(conn'[c], admitted', Saved')
  BY ConnMono DEF IInv
<1>4. OnlyAdmittedFunded'
  BY DEF OnlyAdmittedFunded
<1> QED BY <1>1, <1>2, <1>3, <1>4 DEF IInv

\* The invariant holds of a server that has just started.
LEMMA InitIInv == Init => IInv
<1> SUFFICES ASSUME Init PROVE IInv
  OBVIOUS
<1>1. TypeOK
  <2>1. \A c \in Conns : conn[c] \in ConnType
    BY FreshOK DEF Init
  <2> QED BY <2>1, SizesAssumption DEF Init, TypeOK, ConnType
<1>2. \A s \in Swaps : EntryOK(ongoing[s], s, admitted)
  BY DEF Init, EntryOK
<1>3. \A b \in Beats : BeatOK(beat[b], admitted)
  BY DEF Init, BeatOK
<1>4. \A c \in Conns : ConnOK(conn[c], admitted, Saved)
  BY FreshOK DEF Init
<1> QED BY <1>1, <1>2, <1>3, <1>4 DEF Init, IInv, OnlyAdmittedFunded

-----------------------------------------------------------------------------
(* Handlers that only work on their own copy *)

\* Close keeps the invariant.
LEMMA StepClose ==
  ASSUME IInv, NEW c \in Conns, Close(c)
  PROVE  IInv'
BY FreshOK, ConnStep DEF Close

\* Greet keeps the invariant.
LEMMA StepGreet ==
  ASSUME IInv, NEW c \in Conns, Greet(c)
  PROVE  IInv'
<1> DEFINE x == [pc |-> "ready", n |-> 0,
                 st |-> [conn[c].st EXCEPT !.phase = "AwaitingSwapDetails"]]
<1>1. conn[c] \in ConnType /\ ConnOK(conn[c], admitted, Saved)
  BY Types DEF IInv
<1>2. x \in ConnType
  BY <1>1, SizesAssumption DEF ConnType, ConnState, Steps, Phases
<1>3. ConnOK(x, admitted, Saved)
  BY <1>1 DEF Greet, ConnType, ConnState, ConnOK, Outside, Admitted, Phases
<1>4. conn' = [conn EXCEPT ![c] = x] /\ UNCHANGED <<ongoing, beat, disk, threads, rest>>
  BY DEF Greet, Goto
<1> QED BY <1>2, <1>3, <1>4, ConnStep

\* SwapDetails keeps the invariant.
LEMMA StepSwapDetails ==
  ASSUME IInv, NEW c \in Conns, NEW s \in Swaps, SwapDetails(c, s)
  PROVE  IInv'
<1> DEFINE x == [pc |-> "admit", n |-> 0,
                 st |-> [conn[c].st EXCEPT !.swap = s, !.phase = "AwaitingContractData"]]
<1>1. conn[c] \in ConnType /\ ConnOK(conn[c], admitted, Saved)
  BY Types DEF IInv
<1>2. x \in ConnType
  <2>1. conn[c].st \in ConnState
    BY <1>1 DEF ConnType
  <2>2. [conn[c].st EXCEPT !.swap = s] \in ConnState
    BY <2>1 DEF ConnState
  <2>3. x.st \in ConnState
    BY <2>1, <2>2 DEF ConnState, Phases
  <2> QED BY <2>3, SizesAssumption DEF ConnType, Steps
<1>3. ConnOK(x, admitted, Saved)
  BY <1>1 DEF SwapDetails, ConnType, ConnState, ConnOK, Outside, Admitted, Phases, WellFormed, Plain
<1>4. conn' = [conn EXCEPT ![c] = x] /\ UNCHANGED <<ongoing, beat, disk, threads, rest>>
  BY DEF SwapDetails, Goto
<1> QED BY <1>2, <1>3, <1>4, ConnStep

\* RejectAdmission keeps the invariant.
LEMMA StepRejectAdmission ==
  ASSUME IInv, NEW c \in Conns, RejectAdmission(c)
  PROVE  IInv'
<1> DEFINE x == [pc |-> "ready", n |-> 0,
                 st |-> [NewState EXCEPT !.phase = "AwaitingSwapDetails"]]
<1>1. x \in ConnType
  <2>1. NewState \in ConnState
    BY FreshOK DEF Fresh, ConnType
  <2>2. x.st \in ConnState
    BY <2>1 DEF ConnState, Phases
  <2> QED BY <2>2, SizesAssumption DEF ConnType, Steps
<1>2. ConnOK(x, admitted, Saved)
  BY DEF NewState, ConnOK, Outside, Admitted, Phases
<1>3. conn' = [conn EXCEPT ![c] = x] /\ UNCHANGED <<ongoing, beat, disk, threads, rest>>
  BY DEF RejectAdmission, Goto
<1> QED BY <1>1, <1>2, <1>3, ConnStep

\* The messages that restore the state and hand it to a later step as it is.
LEMMA StepHandOver ==
  ASSUME IInv, NEW c \in Conns, NEW s \in Swaps,
         NEW pc \in {"store", "confirm", "saveIn", "ready"},
         conn[c].pc = "ready", Restored(c, s).swap = s, Restored(c, s).phase \in Admitted,
         pc = "saveIn" => Restored(c, s).phase # "AwaitingContractData",
         Goto(c, pc, Restored(c, s)),
         UNCHANGED <<ongoing, beat, disk, threads, rest>>
  PROVE  IInv'
<1> DEFINE st == Restored(c, s)
           x  == [pc |-> pc, st |-> st, n |-> 0]
<1>1. st \in ConnState /\ WellFormed(st) /\ s \in admitted /\ st.swap = s
  BY RestoredOK
<1> HIDE DEF st
<1>2. x \in ConnType
  BY <1>1, SizesAssumption DEF ConnType, Steps
<1>3. ConnOK(x, admitted, Saved)
  <2>1. x.st.phase \in Admitted /\ x.st = st /\ x.pc = pc
    BY <1>1 DEF WellFormed
  <2>2. pc = "saveIn" => st.out # 0
    BY <1>1 DEF WellFormed, Plain, st
  <2> QED BY <1>1, <2>1, <2>2 DEF ConnOK
<1>4. conn' = [conn EXCEPT ![c] = x]
  BY DEF Goto, st
<1> HIDE DEF x
<1> QED BY <1>2, <1>3, <1>4, ConnStep

\* Message keeps the invariant.
LEMMA StepMessage ==
  ASSUME IInv, NEW c \in Conns, NEW s \in Swaps,
         \/ ReqContractSigsForSender(c, s) \/ ProofOfFunding(c, s) \/ TaprootContractData(c, s)
         \/ RespContractSigs(c, s) \/ ReqContractSigsForRecvr(c, s)
  PROVE  IInv'
<1> USE DEF Accepts, Admitted, Phases
<1>1. CASE ReqContractSigsForSender(c, s)
  BY <1>1, StepHandOver DEF ReqContractSigsForSender
<1>2. CASE ProofOfFunding(c, s)
  BY <1>2, StepHandOver DEF ProofOfFunding
<1>3. CASE TaprootContractData(c, s)
  BY <1>3, StepHandOver DEF TaprootContractData
<1>4. CASE RespContractSigs(c, s)
  BY <1>4, StepHandOver DEF RespContractSigs
<1>5. CASE ReqContractSigsForRecvr(c, s)
  BY <1>5, StepHandOver DEF ReqContractSigsForRecvr
<1> QED BY <1>1, <1>2, <1>3, <1>4, <1>5

\* SweepFails keeps the invariant.
LEMMA StepSweepFails ==
  ASSUME IInv, NEW c \in Conns, SweepFails(c)
  PROVE  IInv'
<1> DEFINE x == [pc |-> "store", st |-> conn[c].st, n |-> 0]
<1>1. conn[c] \in ConnType /\ ConnOK(conn[c], admitted, Saved)
  BY Types DEF IInv
<1>2. x \in ConnType
  BY <1>1, SizesAssumption DEF ConnType, Steps
<1>3. ConnOK(x, admitted, Saved)
  BY <1>1 DEF SweepFails, ConnOK, Outside
<1>4. conn' = [conn EXCEPT ![c] = x] /\ UNCHANGED <<ongoing, beat, disk, threads, rest>>
  BY DEF SweepFails, Goto
<1> QED BY <1>2, <1>3, <1>4, ConnStep
-----------------------------------------------------------------------------
(* Handlers that write to the table, the disk or the network *)

\* store_connection_state of a well-formed state leaves a right entry.
LEMMA UpsertOK ==
  ASSUME IInv, NEW s \in Swaps, NEW cs \in ConnState, WellFormed(cs), cs.swap = s,
         NEW A, s \in A, Upsert(s, cs)
  PROVE  /\ ongoing' \in [Swaps -> Entry \cup {None}]
         /\ \A t \in Swaps : ongoing'[t] = ongoing[t] \/ EntryOK(ongoing'[t], t, A)
<1> DEFINE conf == IF ongoing[s] = None THEN FALSE ELSE ongoing[s].conf
           e    == [cs |-> cs, fresh |-> TRUE, conf |-> conf]
<1>1. ongoing \in [Swaps -> Entry \cup {None}]
  BY DEF IInv, TypeOK
<1>2. conf \in BOOLEAN
  <2>1. CASE ongoing[s] = None
    BY <2>1
  <2>2. CASE ongoing[s] # None
    BY <1>1, <2>2 DEF Entry
  <2> QED BY <2>1, <2>2
<1>3. ongoing' = [ongoing EXCEPT ![s] = e]
  BY DEF Upsert
<1> HIDE DEF conf
<1>4. e \in Entry
  BY <1>2 DEF Entry
<1>5. EntryOK(e, s, A)
  BY DEF EntryOK
<1> HIDE DEF e
<1> QED BY <1>1, <1>3, <1>4, <1>5

\* A handler's step: its own state, and possibly the table, the wallet, the network
\* and the histories.
LEMMA HandlerStep ==
  ASSUME IInv, NEW c \in Conns, NEW x \in ConnType, ConnOK(x, admitted', Saved'),
         conn' = [conn EXCEPT ![c] = x],
         ongoing' \in [Swaps -> Entry \cup {None}],
         \A s \in Swaps : ongoing'[s] = ongoing[s] \/ EntryOK(ongoing'[s], s, admitted'),
         walletIn' \in [Swaps -> {"absent", "plain", "keyed"}],
         walletOut' \subseteq Coins, walletOut \subseteq walletOut',
         gens' \in [Swaps -> 0..MaxSets],
         admitted' \subseteq Swaps, admitted \subseteq admitted', given' \subseteq Swaps,
         net' \subseteq Saved', \A k \in net' : k.swap \in admitted',
         UNCHANGED <<beat, tracker, recs, watched, late>>
  PROVE  IInv'
<1>1. TypeOK'
  <2>1. conn' \in [Conns -> ConnType]
    BY DEF IInv, TypeOK, ConnType
  <2>2. net' \subseteq Coins
    BY DEF Saved
  <2> QED BY <2>1, <2>2 DEF IInv, TypeOK, ConnType
<1>2. Saved \subseteq Saved'
  BY DEF Saved
<1>3. \A d \in Conns : conn'[d] = conn[d] \/ ConnOK(conn'[d], admitted', Saved')
  BY DEF IInv, TypeOK
<1>4. \A r \in recs' : RecOK(r, tracker')
  BY DEF IInv
<1> QED BY <1>1, <1>2, <1>3, <1>4, GrowStep

\* What HandlerStep asks of the parts a step leaves alone.
LEMMA Unchanged ==
  ASSUME IInv
  PROVE  /\ ongoing \in [Swaps -> Entry \cup {None}]
         /\ walletIn \in [Swaps -> {"absent", "plain", "keyed"}]
         /\ walletOut \subseteq Coins
         /\ gens \in [Swaps -> 0..MaxSets]
         /\ admitted \subseteq Swaps /\ given \subseteq Swaps
         /\ net \subseteq Saved /\ \A k \in net : k.swap \in admitted
         /\ \A c \in Conns : conn[c] \in ConnType /\ ConnOK(conn[c], admitted, Saved)
BY Types DEF IInv, TypeOK, OnlyAdmittedFunded

\* Admit keeps the invariant.
LEMMA StepAdmit ==
  ASSUME IInv, NEW c \in Conns, Admit(c)
  PROVE  IInv'
<1> DEFINE st == conn[c].st
           x  == [pc |-> "ready", st |-> st, n |-> 0]
<1>1. st \in ConnState /\ st.phase \in Admitted /\ WellFormed(st) /\ st.out = 0
  BY Unchanged DEF Admit, ConnType, ConnOK, Outside
<1>2. /\ admitted' = admitted \cup {st.swap} /\ conn' = [conn EXCEPT ![c] = x]
      /\ UNCHANGED <<beat, walletIn, walletOut, tracker, recs, watched, net, late, gens, given>>
  BY DEF Admit, Goto, disk, threads
<1>3. st.swap \in Swaps
  BY <1>1 DEF WellFormed
<1>4. /\ ongoing' \in [Swaps -> Entry \cup {None}]
      /\ \A s \in Swaps : ongoing'[s] = ongoing[s] \/ EntryOK(ongoing'[s], s, admitted')
  <2>1. CASE Upsert(st.swap, st)
    BY <1>1, <1>2, <1>3, <2>1, UpsertOK
  <2>2. CASE ongoing[st.swap] # None /\ ongoing' = [ongoing EXCEPT ![st.swap].fresh = TRUE]
    <3>1. ongoing[st.swap] \in Entry /\ EntryOK(ongoing[st.swap], st.swap, admitted)
      BY <1>3, <2>2, Types DEF IInv
    <3> DEFINE e == [ongoing[st.swap] EXCEPT !.fresh = TRUE]
    <3>2. e \in Entry /\ e.cs = ongoing[st.swap].cs
      BY <3>1 DEF Entry
    <3>3. ongoing' = [ongoing EXCEPT ![st.swap] = e]
      BY <2>2
    <3>4. EntryOK(e, st.swap, admitted')
      BY <1>2, <2>2, <3>1, <3>2 DEF EntryOK
    <3> HIDE DEF e
    <3> QED BY <3>2, <3>3, <3>4, <1>3, Unchanged
  <2> QED BY <2>1, <2>2 DEF Admit
<1>5. x \in ConnType
  BY <1>1, SizesAssumption DEF ConnType, Steps
<1>6. ConnOK(x, admitted', Saved')
  BY <1>1, <1>2 DEF ConnOK
<1>7. Saved' = Saved
  BY <1>2 DEF Saved
<1>8. admitted' \subseteq Swaps /\ admitted \subseteq admitted'
  BY <1>2, <1>3, Unchanged
<1>9. net' \subseteq Saved' /\ \A k \in net' : k.swap \in admitted'
  BY <1>2, <1>7, Unchanged
<1> HIDE DEF x, st
<1> QED BY <1>2, <1>4, <1>5, <1>6, <1>8, <1>9, Unchanged, HandlerStep

\* StoreState keeps the invariant.
LEMMA StepStoreState ==
  ASSUME IInv, NEW c \in Conns, StoreState(c)
  PROVE  IInv'
<1> DEFINE st == conn[c].st
           x  == IF st.phase = "Completed" THEN Fresh ELSE [pc |-> "ready", st |-> st, n |-> 0]
<1>1. st \in ConnState /\ st.phase \in Admitted /\ WellFormed(st) /\ st.swap \in admitted
  BY Unchanged DEF StoreState, ConnType, ConnOK, Outside
<1>2. /\ Upsert(st.swap, st) /\ conn' = [conn EXCEPT ![c] = x]
      /\ UNCHANGED <<beat, walletIn, walletOut, tracker, recs, watched, net, late, gens,
                     admitted, given>>
  BY DEF StoreState, Goto, disk, threads, rest, history
<1>3. /\ ongoing' \in [Swaps -> Entry \cup {None}]
      /\ \A s \in Swaps : ongoing'[s] = ongoing[s] \/ EntryOK(ongoing'[s], s, admitted')
  BY <1>1, <1>2, UpsertOK DEF WellFormed
<1>4. [pc |-> "ready", st |-> st, n |-> 0] \in ConnType
  BY <1>1, SizesAssumption DEF ConnType, Steps
<1>5. ConnOK([pc |-> "ready", st |-> st, n |-> 0], admitted, Saved)
  BY <1>1 DEF ConnOK
<1>6. Saved' = Saved
  BY <1>2 DEF Saved
<1>7. x \in ConnType /\ ConnOK(x, admitted', Saved')
  BY <1>2, <1>4, <1>5, <1>6, FreshOK
<1> HIDE DEF x, st
<1> QED BY <1>2, <1>3, <1>6, <1>7, Unchanged, HandlerStep
\* Filling in a state keeps its type.
LEMMA FilledType ==
  ASSUME NEW st \in ConnState
  PROVE  /\ [st EXCEPT !.inc = TRUE] \in ConnState
         /\ [st EXCEPT !.pend = TRUE] \in ConnState
         /\ [st EXCEPT !.key = TRUE] \in ConnState
         /\ \A g \in 1..MaxSets : [st EXCEPT !.out = g] \in ConnState
         /\ \A p \in Phases : [st EXCEPT !.phase = p] \in ConnState
<1>1. [st EXCEPT !.inc = TRUE] \in ConnState
  BY DEF ConnState
<1>2. [st EXCEPT !.pend = TRUE] \in ConnState
  BY DEF ConnState
<1>3. [st EXCEPT !.key = TRUE] \in ConnState
  BY DEF ConnState
<1>4. \A g \in 1..MaxSets : [st EXCEPT !.out = g] \in ConnState
  BY DEF ConnState
<1>5. \A p \in Phases : [st EXCEPT !.phase = p] \in ConnState
  BY DEF ConnState
<1> QED BY <1>1, <1>2, <1>3, <1>4, <1>5

\* Recording the confirmation height leaves a right entry.
LEMMA ConfOK ==
  ASSUME IInv, NEW s \in Swaps, ongoing[s] # None,
         ongoing' = [ongoing EXCEPT ![s].conf = TRUE]
  PROVE  /\ ongoing' \in [Swaps -> Entry \cup {None}]
         /\ \A t \in Swaps : ongoing'[t] = ongoing[t] \/ EntryOK(ongoing'[t], t, admitted)
<1> DEFINE e == [ongoing[s] EXCEPT !.conf = TRUE]
<1>1. ongoing[s] \in Entry /\ EntryOK(ongoing[s], s, admitted)
  BY Types DEF IInv
<1>2. e \in Entry /\ e.cs = ongoing[s].cs
  BY <1>1 DEF Entry
<1>3. ongoing' = [ongoing EXCEPT ![s] = e]
  OBVIOUS
<1>4. EntryOK(e, s, admitted)
  BY <1>1, <1>2 DEF EntryOK
<1> HIDE DEF e
<1> QED BY <1>2, <1>3, <1>4, Unchanged

\* BuildLegacy keeps the invariant.
LEMMA StepBuildLegacy ==
  ASSUME IInv, NEW c \in Conns, BuildLegacy(c)
  PROVE  IInv'
<1> DEFINE st == conn[c].st
           s  == st.swap
           st2 == [st EXCEPT !.inc = TRUE, !.out = gens[s] + 1, !.pend = TRUE,
                             !.phase = "AwaitingSignaturesOrPreimage"]
           x  == [pc |-> "store", st |-> st2, n |-> 0]
<1>1. st \in ConnState /\ st.phase \in Admitted /\ WellFormed(st) /\ s \in admitted
  BY Unchanged DEF BuildLegacy, ConnType, ConnOK, Outside
<1>2. s \in Swaps
  BY <1>1 DEF WellFormed
<1>3. gens[s] \in 0..MaxSets /\ gens[s] < MaxSets
  BY <1>2, Unchanged DEF BuildLegacy
<1>4. gens[s] + 1 \in 1..MaxSets
  BY <1>3, SizesAssumption
<1>5. /\ gens' = [gens EXCEPT ![s] = @ + 1] /\ conn' = [conn EXCEPT ![c] = x]
      /\ ongoing' = IF ongoing[s] = None THEN ongoing ELSE [ongoing EXCEPT ![s].conf = TRUE]
      /\ UNCHANGED <<beat, walletIn, walletOut, tracker, recs, watched, net, late,
                     admitted, given>>
  BY DEF BuildLegacy, Goto, disk, threads, history
<1>6. gens' \in [Swaps -> 0..MaxSets]
  BY <1>2, <1>4, <1>5, Unchanged, SizesAssumption
<1>7. /\ ongoing' \in [Swaps -> Entry \cup {None}]
      /\ \A t \in Swaps : ongoing'[t] = ongoing[t] \/ EntryOK(ongoing'[t], t, admitted')
  BY <1>2, <1>5, Unchanged, ConfOK
<1>8. st2 \in ConnState /\ st2.swap = s /\ st2.out # 0 /\ st2.phase = "AwaitingSignaturesOrPreimage"
  <2> DEFINE a == [st EXCEPT !.inc = TRUE]
             b == [a EXCEPT !.out = gens[s] + 1]
             d == [b EXCEPT !.pend = TRUE]
  <2>1. a \in ConnState
    BY <1>1, FilledType
  <2>2. b \in ConnState
    BY <1>4, <2>1, FilledType
  <2>3. d \in ConnState
    BY <2>2, FilledType
  <2>4. [d EXCEPT !.phase = "AwaitingSignaturesOrPreimage"] \in ConnState
    BY <2>3, FilledType DEF Phases
  <2>5. st2.swap = s /\ st2.out = gens[s] + 1 /\ st2.phase = "AwaitingSignaturesOrPreimage"
    BY <1>1 DEF ConnState
  <2> QED BY <1>4, <2>4, <2>5
<1> HIDE DEF st2
<1>9. x \in ConnType
  BY <1>8, SizesAssumption DEF ConnType, Steps
<1>10. ConnOK(x, admitted', Saved')
  BY <1>1, <1>2, <1>5, <1>8 DEF ConnOK, WellFormed, Admitted, Phases
<1>11. Saved' = Saved
  BY <1>5 DEF Saved
<1> HIDE DEF x, st, s
<1> QED BY <1>5, <1>6, <1>7, <1>9, <1>10, <1>11, Unchanged, HandlerStep

\* BuildLegacyFails keeps the invariant.
LEMMA StepBuildLegacyFails ==
  ASSUME IInv, NEW c \in Conns, BuildLegacyFails(c)
  PROVE  IInv'
<1> DEFINE s == conn[c].st.swap
<1>1. s \in Swaps
  BY Unchanged DEF BuildLegacyFails, ConnOK, Outside, WellFormed
<1>2. /\ ongoing[s] # None /\ ongoing' = [ongoing EXCEPT ![s].conf = TRUE]
      /\ conn' = [conn EXCEPT ![c] = Fresh]
      /\ UNCHANGED <<beat, walletIn, walletOut, tracker, recs, watched, net, late, gens,
                     admitted, given>>
  BY DEF BuildLegacyFails, disk, threads, rest, history
<1> HIDE DEF s
<1>3. /\ ongoing' \in [Swaps -> Entry \cup {None}]
      /\ \A t \in Swaps : ongoing'[t] = ongoing[t] \/ EntryOK(ongoing'[t], t, admitted')
  BY <1>1, <1>2, ConfOK
<1>4. Saved' = Saved
  BY <1>2 DEF Saved
<1>5. Fresh \in ConnType /\ ConnOK(Fresh, admitted', Saved')
  BY FreshOK
<1> QED BY <1>2, <1>3, <1>4, <1>5, Unchanged, HandlerStep

\* BuildTaproot keeps the invariant.
LEMMA StepBuildTaproot ==
  ASSUME IInv, NEW c \in Conns, BuildTaproot(c)
  PROVE  IInv'
<1> DEFINE st == conn[c].st
           s  == st.swap
           st2 == [st EXCEPT !.inc = TRUE, !.out = gens[s] + 1]
           x  == [pc |-> "saveIn", st |-> st2, n |-> 0]
<1>1. st \in ConnState /\ st.phase \in Admitted /\ WellFormed(st) /\ s \in admitted
  BY Unchanged DEF BuildTaproot, ConnType, ConnOK, Outside
<1>2. s \in Swaps
  BY <1>1 DEF WellFormed
<1>3. gens[s] \in 0..MaxSets /\ gens[s] < MaxSets
  BY <1>2, Unchanged DEF BuildTaproot
<1>4. gens[s] + 1 \in 1..MaxSets
  BY <1>3, SizesAssumption
<1>5. /\ gens' = [gens EXCEPT ![s] = @ + 1] /\ conn' = [conn EXCEPT ![c] = x]
      /\ UNCHANGED <<ongoing, beat, walletIn, walletOut, tracker, recs, watched, net, late,
                     admitted, given>>
  BY DEF BuildTaproot, Goto, disk, threads, history
<1>6. gens' \in [Swaps -> 0..MaxSets]
  BY <1>2, <1>4, <1>5, Unchanged, SizesAssumption
<1>7. st2 \in ConnState /\ st2.swap = s /\ st2.out # 0 /\ st2.phase = st.phase
  <2> DEFINE a == [st EXCEPT !.inc = TRUE]
  <2>1. a \in ConnState
    BY <1>1, FilledType
  <2>2. [a EXCEPT !.out = gens[s] + 1] \in ConnState
    BY <1>4, <2>1, FilledType
  <2>3. st2.swap = s /\ st2.out = gens[s] + 1 /\ st2.phase = st.phase
    BY <1>1 DEF ConnState
  <2> QED BY <1>4, <2>2, <2>3
<1> HIDE DEF st2
<1>8. x \in ConnType
  BY <1>7, SizesAssumption DEF ConnType, Steps
<1>9. ConnOK(x, admitted', Saved')
  BY <1>1, <1>2, <1>5, <1>7 DEF ConnOK, WellFormed
<1>10. Saved' = Saved
  BY <1>5 DEF Saved
<1> HIDE DEF x, st, s
<1> QED BY <1>5, <1>6, <1>8, <1>9, <1>10, Unchanged, HandlerStep

\* SaveIncoming keeps the invariant.
LEMMA StepSaveIncoming ==
  ASSUME IInv, NEW c \in Conns, SaveIncoming(c)
  PROVE  IInv'
<1> DEFINE st == conn[c].st
           x  == [pc |-> "saveOut", st |-> st, n |-> 0]
<1>1. /\ st \in ConnState /\ st.phase \in Admitted /\ WellFormed(st)
      /\ st.swap \in admitted /\ st.out # 0
  BY Unchanged DEF SaveIncoming, ConnType, ConnOK, Outside
<1>2. /\ conn' = [conn EXCEPT ![c] = x]
      /\ UNCHANGED <<ongoing, beat, walletOut, tracker, recs, watched, net, late, gens,
                     admitted, given>>
  BY DEF SaveIncoming, Goto, threads, rest, history
<1>3. walletIn' \in [Swaps -> {"absent", "plain", "keyed"}]
  BY Unchanged DEF SaveIncoming
<1>4. x \in ConnType
  BY <1>1, SizesAssumption DEF ConnType, Steps
<1>5. ConnOK(x, admitted', Saved')
  BY <1>1, <1>2, SizesAssumption DEF ConnOK
<1>6. Saved' = Saved
  BY <1>2 DEF Saved
<1> HIDE DEF x, st
<1> QED BY <1>2, <1>3, <1>4, <1>5, <1>6, Unchanged, HandlerStep

\* SaveOutgoing keeps the invariant.
LEMMA StepSaveOutgoing ==
  ASSUME IInv, NEW c \in Conns, SaveOutgoing(c)
  PROVE  IInv'
<1> DEFINE st == conn[c].st
           m  == conn[c].n
           x  == [pc |-> IF m + 1 = NumTx THEN "broadcast" ELSE "saveOut", st |-> st,
                  n |-> IF m + 1 = NumTx THEN 0 ELSE m + 1]
<1>1. /\ st \in ConnState /\ st.phase \in Admitted /\ WellFormed(st)
      /\ st.swap \in admitted /\ st.out # 0
  BY Unchanged DEF SaveOutgoing, ConnType, ConnOK, Outside
<1>2. m \in 0..NumTx /\ m < NumTx /\ \A i \in 1..m : Coin(st, i) \in Saved
  BY Unchanged DEF SaveOutgoing, ConnType, ConnOK
<1>3. /\ conn' = [conn EXCEPT ![c] = x]
      /\ walletOut' = walletOut \cup {Coin(st, m + 1)}
      /\ UNCHANGED <<ongoing, beat, walletIn, tracker, recs, watched, net, late, gens,
                     admitted, given>>
  BY DEF SaveOutgoing, Coin, threads, rest, history
<1>4. m + 1 \in 1..NumTx /\ 1..(m + 1) = (1..m) \cup {m + 1}
  BY <1>2, SizesAssumption
<1>5. Coin(st, m + 1) \in Coins
  BY <1>1, <1>4, CoinType DEF WellFormed
<1>6. Saved \subseteq Saved' /\ Coin(st, m + 1) \in Saved'
  BY <1>3, <1>5 DEF Saved
<1>7. \A i \in 1..(m + 1) : Coin(st, i) \in Saved'
  BY <1>2, <1>4, <1>6
<1>8. x \in ConnType
  BY <1>1, <1>4, SizesAssumption DEF ConnType, Steps
<1>9. ConnOK(x, admitted', Saved')
  <2> HIDE DEF st, m
  <2>1. CASE m + 1 = NumTx
    <3>1. x = [pc |-> "broadcast", st |-> st, n |-> 0]
      BY <2>1
    <3> QED BY <1>1, <1>3, <1>7, <2>1, <3>1, SizesAssumption DEF ConnOK
  <2>2. CASE m + 1 # NumTx
    <3>1. x = [pc |-> "saveOut", st |-> st, n |-> m + 1]
      BY <2>2
    <3>2. m + 1 < NumTx
      BY <1>4, <2>2, SizesAssumption
    <3> QED BY <1>1, <1>3, <1>7, <3>1, <3>2 DEF ConnOK
  <2> QED BY <2>1, <2>2
<1>10. /\ walletOut' \subseteq Coins /\ walletOut \subseteq walletOut'
       /\ net' \subseteq Saved'
  BY <1>3, <1>5, <1>6, Unchanged
<1> HIDE DEF x, st, m
<1> QED BY <1>3, <1>8, <1>9, <1>10, Unchanged, HandlerStep
\* Broadcast keeps the invariant.
LEMMA StepBroadcast ==
  ASSUME IInv, NEW c \in Conns, Broadcast(c)
  PROVE  IInv'
<1> DEFINE st == conn[c].st
           m  == conn[c].n
           done == [st EXCEPT !.pend = FALSE, !.fb = TRUE, !.phase = "AwaitingPrivateKeyHandover"]
           x  == IF m + 1 = NumTx THEN [pc |-> "store", st |-> done, n |-> 0]
                 ELSE [pc |-> "broadcast", st |-> st, n |-> m + 1]
<1>1. /\ st \in ConnState /\ st.phase \in Admitted /\ WellFormed(st)
      /\ st.swap \in admitted /\ st.out # 0
  BY Unchanged DEF Broadcast, ConnType, ConnOK, Outside
<1>2. m \in 0..NumTx /\ m < NumTx /\ \A i \in 1..NumTx : Coin(st, i) \in Saved
  BY Unchanged DEF Broadcast, ConnType, ConnOK
<1>3. /\ conn' = [conn EXCEPT ![c] = x]
      /\ net' = net \cup {Coin(st, m + 1)}
      /\ UNCHANGED <<ongoing, beat, walletIn, walletOut, tracker, recs, watched, late, gens,
                     admitted, given>>
  BY DEF Broadcast, Coin, disk, threads, history
<1>4. m + 1 \in 1..NumTx
  BY <1>2, SizesAssumption
<1>5. Saved' = Saved
  BY <1>3 DEF Saved
<1>6. Coin(st, m + 1) \in Saved /\ Coin(st, m + 1).swap = st.swap
  BY <1>2, <1>4 DEF Coin
<1>7. net' \subseteq Saved' /\ \A k \in net' : k.swap \in admitted'
  BY <1>1, <1>3, <1>5, <1>6, Unchanged
<1>8. /\ done \in ConnState /\ done.swap = st.swap /\ done.out = st.out
      /\ done.phase = "AwaitingPrivateKeyHandover"
  <2> DEFINE a == [st EXCEPT !.pend = FALSE]
             b == [a EXCEPT !.fb = TRUE]
  <2>1. a \in ConnState
    BY <1>1 DEF ConnState
  <2> HIDE DEF a
  <2>2. b \in ConnState
    BY <2>1 DEF ConnState
  <2> HIDE DEF b
  <2>3. [b EXCEPT !.phase = "AwaitingPrivateKeyHandover"] \in ConnState
    BY <2>2, FilledType DEF Phases
  <2>4. done = [b EXCEPT !.phase = "AwaitingPrivateKeyHandover"]
    BY DEF a, b
  <2>5. /\ done.swap = st.swap /\ done.out = st.out
        /\ done.phase = "AwaitingPrivateKeyHandover"
    BY <1>1 DEF ConnState
  <2> QED BY <2>3, <2>4, <2>5
<1> HIDE DEF done
<1>9. x \in ConnType /\ ConnOK(x, admitted', Saved')
  <2> HIDE DEF st, m
  <2>1. CASE m + 1 = NumTx
    <3>1. x = [pc |-> "store", st |-> done, n |-> 0]
      BY <2>1
    <3>2. x \in ConnType
      BY <1>8, <3>1, SizesAssumption DEF ConnType, Steps
    <3>3. ConnOK(x, admitted', Saved')
      BY <1>1, <1>3, <1>8, <3>1 DEF ConnOK, WellFormed, Admitted, Phases
    <3> QED BY <3>2, <3>3
  <2>2. CASE m + 1 # NumTx
    <3>1. x = [pc |-> "broadcast", st |-> st, n |-> m + 1]
      BY <2>2
    <3>2. m + 1 < NumTx
      BY <1>4, <2>2, SizesAssumption
    <3>3. x \in ConnType
      BY <1>1, <1>4, <3>1, SizesAssumption DEF ConnType, Steps
    <3>4. ConnOK(x, admitted', Saved')
      BY <1>1, <1>2, <1>3, <1>5, <3>1, <3>2 DEF ConnOK
    <3> QED BY <3>3, <3>4
  <2> QED BY <2>1, <2>2
<1> HIDE DEF x, st, m
<1> QED BY <1>3, <1>7, <1>9, Unchanged, HandlerStep

\* PrivateKeyHandover keeps the invariant.
LEMMA StepPrivateKeyHandover ==
  ASSUME IInv, NEW c \in Conns, NEW s \in Swaps, PrivateKeyHandover(c, s)
  PROVE  IInv'
<1> DEFINE st == Restored(c, s)
           st2 == [st EXCEPT !.key = TRUE, !.phase = "Completed"]
           x  == [pc |-> "respond", st |-> st2, n |-> 0]
<1>1. st \in ConnState /\ WellFormed(st) /\ s \in admitted /\ st.swap = s /\ st.out # 0
  <2>1. /\ conn[c].pc = "ready" /\ st.swap = s /\ st.phase = "AwaitingPrivateKeyHandover"
        /\ st.phase \in Admitted
    BY DEF PrivateKeyHandover, Accepts, Admitted, Phases
  <2>2. st \in ConnState /\ WellFormed(st) /\ s \in admitted
    BY <2>1, RestoredOK
  <2> QED BY <2>1, <2>2 DEF WellFormed, Plain
<1>2. /\ conn' = [conn EXCEPT ![c] = x]
      /\ walletIn' = [walletIn EXCEPT ![s] = "keyed"]
      /\ UNCHANGED <<ongoing, beat, walletOut, tracker, recs, watched, net, late, gens,
                     admitted, given>>
  BY DEF PrivateKeyHandover, Goto, threads, rest, history
<1> HIDE DEF st
<1>3. walletIn' \in [Swaps -> {"absent", "plain", "keyed"}]
  BY <1>2, Unchanged
<1>4. st2 \in ConnState /\ st2.swap = s /\ st2.out # 0 /\ st2.phase = "Completed"
  <2> DEFINE a == [st EXCEPT !.key = TRUE]
  <2>1. a \in ConnState
    BY <1>1, FilledType
  <2>2. [a EXCEPT !.phase = "Completed"] \in ConnState
    BY <2>1, FilledType DEF Phases
  <2>3. st2.swap = s /\ st2.out # 0 /\ st2.phase = "Completed"
    BY <1>1 DEF ConnState
  <2> QED BY <2>2, <2>3
<1> HIDE DEF st2
<1>5. x \in ConnType
  BY <1>4, SizesAssumption DEF ConnType, Steps
<1>6. ConnOK(x, admitted', Saved')
  BY <1>1, <1>2, <1>4 DEF ConnOK, WellFormed, Admitted, Phases
<1>7. Saved' = Saved
  BY <1>2 DEF Saved
<1> HIDE DEF x
<1> QED BY <1>2, <1>3, <1>5, <1>6, <1>7, Unchanged, HandlerStep

\* SendPrivkeys keeps the invariant.
LEMMA StepSendPrivkeys ==
  ASSUME IInv, NEW c \in Conns, SendPrivkeys(c)
  PROVE  IInv'
<1> DEFINE st == conn[c].st
           x  == [pc |-> "remove", st |-> st, n |-> 0]
<1>1. st \in ConnState /\ st.phase \in Admitted /\ WellFormed(st) /\ st.swap \in admitted
  BY Unchanged DEF SendPrivkeys, ConnType, ConnOK, Outside
<1>2. /\ conn' = [conn EXCEPT ![c] = x] /\ given' = given \cup {st.swap}
      /\ UNCHANGED <<ongoing, beat, walletIn, walletOut, tracker, recs, watched, net, late, gens,
                     admitted>>
  BY DEF SendPrivkeys, Goto, disk, threads
<1>3. x \in ConnType
  BY <1>1, SizesAssumption DEF ConnType, Steps
<1>4. ConnOK(x, admitted', Saved')
  BY <1>1, <1>2 DEF ConnOK
<1>5. Saved' = Saved
  BY <1>2 DEF Saved
<1>6. given' \subseteq Swaps
  BY <1>1, <1>2, Unchanged DEF WellFormed
<1> HIDE DEF x, st
<1> QED BY <1>2, <1>3, <1>4, <1>5, <1>6, Unchanged, HandlerStep

\* RemoveCompleted keeps the invariant.
LEMMA StepRemoveCompleted ==
  ASSUME IInv, NEW c \in Conns, RemoveCompleted(c)
  PROVE  IInv'
<1> DEFINE st == conn[c].st
           x  == [pc |-> "sweep", st |-> st, n |-> 0]
<1>1. st \in ConnState /\ st.phase \in Admitted /\ WellFormed(st) /\ st.swap \in admitted
  BY Unchanged DEF RemoveCompleted, ConnType, ConnOK, Outside
<1>2. /\ conn' = [conn EXCEPT ![c] = x] /\ ongoing' = [ongoing EXCEPT ![st.swap] = None]
      /\ UNCHANGED <<beat, walletIn, walletOut, tracker, recs, watched, net, late, gens,
                     admitted, given>>
  BY DEF RemoveCompleted, Goto, disk, threads, rest, history
<1>3. x \in ConnType
  BY <1>1, SizesAssumption DEF ConnType, Steps
<1>4. ConnOK(x, admitted', Saved')
  BY <1>1, <1>2 DEF ConnOK
<1>5. Saved' = Saved
  BY <1>2 DEF Saved
<1>6. /\ ongoing' \in [Swaps -> Entry \cup {None}]
      /\ \A s \in Swaps : ongoing'[s] = ongoing[s] \/ EntryOK(ongoing'[s], s, admitted')
  BY <1>1, <1>2, Unchanged DEF WellFormed, EntryOK
<1> HIDE DEF x, st
<1> QED BY <1>2, <1>3, <1>4, <1>5, <1>6, Unchanged, HandlerStep

\* SweepSettles keeps the invariant.
LEMMA StepSweepSettles ==
  ASSUME IInv, NEW c \in Conns, SweepSettles(c)
  PROVE  IInv'
<1>1. /\ conn' = [conn EXCEPT ![c] = Fresh]
      /\ UNCHANGED <<ongoing, beat, walletOut, tracker, recs, watched, net, late, gens,
                     admitted, given>>
  BY DEF SweepSettles, threads, rest, history
<1>2. walletIn' \in [Swaps -> {"absent", "plain", "keyed"}]
  BY Unchanged DEF SweepSettles
<1>3. Saved' = Saved
  BY <1>1 DEF Saved
<1>4. Fresh \in ConnType /\ ConnOK(Fresh, admitted', Saved')
  BY FreshOK
<1> QED BY <1>1, <1>2, <1>3, <1>4, Unchanged, HandlerStep
-----------------------------------------------------------------------------
(* Keepalives, the idle checker, recovery, time and restarts *)

\* BeatRead keeps the invariant.
LEMMA StepBeatRead ==
  ASSUME IInv, NEW b \in Beats, NEW s \in Swaps, BeatRead(b, s)
  PROVE  IInv'
<1>1. /\ beat' = [beat EXCEPT ![b] = ongoing[s].cs] /\ ongoing[s] # None
      /\ UNCHANGED <<ongoing, conn, walletIn, walletOut, tracker, recs, watched, net, late, gens,
                     admitted, given>>
  BY DEF BeatRead, disk, threads, rest, history
<1>2. ongoing[s] \in Entry /\ EntryOK(ongoing[s], s, admitted)
  BY <1>1, Types DEF IInv
<1>3. ongoing[s].cs \in ConnState /\ BeatOK(ongoing[s].cs, admitted')
  BY <1>1, <1>2 DEF Entry, EntryOK, BeatOK
<1>4. beat \in [Beats -> ConnState \cup {None}]
  BY DEF IInv, TypeOK
<1>5. beat' \in [Beats -> ConnState \cup {None}]
  BY <1>1, <1>3, <1>4
<1>6. TypeOK'
  BY <1>1, <1>5 DEF IInv, TypeOK
<1>7. Saved' = Saved
  BY <1>1 DEF Saved
<1>8. \A d \in Beats : beat'[d] = beat[d] \/ BeatOK(beat'[d], admitted')
  BY <1>1, <1>3, <1>4
<1>9. \A r \in recs' : RecOK(r, tracker')
  BY <1>1 DEF IInv
<1> QED BY <1>1, <1>6, <1>7, <1>8, <1>9, Unchanged, GrowStep

\* BeatStore keeps the invariant.
LEMMA StepBeatStore ==
  ASSUME IInv, NEW b \in Beats, BeatStore(b)
  PROVE  IInv'
<1>1. /\ beat' = [beat EXCEPT ![b] = None] /\ beat[b] # None /\ Upsert(beat[b].swap, beat[b])
      /\ UNCHANGED <<conn, walletIn, walletOut, tracker, recs, watched, net, late, gens,
                     admitted, given>>
  BY DEF BeatStore, disk, threads, rest, history
<1>2. beat[b] \in ConnState /\ WellFormed(beat[b]) /\ beat[b].swap \in admitted
  BY <1>1, Types DEF IInv, BeatOK
<1>3. /\ ongoing' \in [Swaps -> Entry \cup {None}]
      /\ \A t \in Swaps : ongoing'[t] = ongoing[t] \/ EntryOK(ongoing'[t], t, admitted')
  BY <1>1, <1>2, UpsertOK DEF WellFormed
<1>4. beat \in [Beats -> ConnState \cup {None}]
  BY DEF IInv, TypeOK
<1>5. beat' \in [Beats -> ConnState \cup {None}]
  BY <1>1, <1>4
<1>6. TypeOK'
  BY <1>1, <1>3, <1>5 DEF IInv, TypeOK
<1>7. Saved' = Saved
  BY <1>1 DEF Saved
<1>8. \A d \in Beats : beat'[d] = beat[d] \/ BeatOK(beat'[d], admitted')
  BY <1>1, <1>4 DEF BeatOK
<1>9. \A r \in recs' : RecOK(r, tracker')
  BY <1>1 DEF IInv
<1> QED BY <1>1, <1>3, <1>6, <1>7, <1>8, <1>9, Unchanged, GrowStep

\* A spawned recovery thread is well formed.
LEMMA ThreadOK ==
  ASSUME NEW s \in Swaps, NEW inc \in BOOLEAN, NEW out \in SUBSET Coins,
         \A k \in out : k.swap = s, NEW T
  PROVE  Thread(s, inc, out) \in Recovery /\ RecOK(Thread(s, inc, out), T)
<1>1. Thread(s, inc, out) \in Recovery
  BY DEF Thread, Recovery
<1>2. RecOK(Thread(s, inc, out), T)
  BY DEF Thread, RecOK
<1> QED BY <1>1, <1>2

\* DrainIdle keeps the invariant.
LEMMA StepDrainIdle ==
  ASSUME IInv, NEW h \in BOOLEAN, DrainIdle(h)
  PROVE  IInv'
<1> DEFINE held     == {s \in Swaps : ongoing[s] # None}
           released == {s \in held : Releasable(s)}
           stale    == {s \in held : Stale(s, h)}
           spawned  == {Thread(s, ongoing[s].cs.inc, CoinsOf(s, ongoing[s].cs.out)) : s \in stale}
<1>1. /\ ongoing' = [s \in Swaps |-> IF s \in released \cup stale THEN None ELSE ongoing[s]]
      /\ tracker' = [s \in Swaps |-> IF s \notin stale THEN tracker[s]
                                    ELSE IF ongoing[s].cs.fb THEN "funded" ELSE "unfunded"]
      /\ recs' = recs \cup spawned
      /\ UNCHANGED <<conn, beat, watched, walletIn, walletOut, net, late, gens, admitted, given>>
  BY DEF DrainIdle, rest, history
<1>2. stale \subseteq Swaps /\ \A s \in stale : ongoing[s] # None
  OBVIOUS
<1> HIDE DEF held, released, stale
<1>3. \A s \in Swaps : tracker[s] # "none" => tracker'[s] # "none"
  BY <1>1
<1>4. tracker' \in [Swaps -> {"none", "funded", "unfunded"}]
  BY <1>1 DEF IInv, TypeOK
<1>5. /\ ongoing' \in [Swaps -> Entry \cup {None}]
      /\ \A t \in Swaps : ongoing'[t] = ongoing[t] \/ EntryOK(ongoing'[t], t, admitted')
  BY <1>1, Unchanged DEF EntryOK
<1>6. \A r \in spawned : r \in Recovery /\ RecOK(r, tracker')
  <2> SUFFICES ASSUME NEW s \in stale
               PROVE  LET r == Thread(s, ongoing[s].cs.inc, CoinsOf(s, ongoing[s].cs.out))
                      IN  r \in Recovery /\ RecOK(r, tracker')
    OBVIOUS
  <2>1. s \in Swaps /\ ongoing[s] \in Entry
    BY <1>2, Types DEF IInv
  <2>2. ongoing[s].cs.inc \in BOOLEAN
    BY <2>1 DEF Entry, ConnState
  <2>3. /\ CoinsOf(s, ongoing[s].cs.out) \in SUBSET Coins
        /\ \A k \in CoinsOf(s, ongoing[s].cs.out) : k.swap = s
    BY DEF CoinsOf
  <2> QED BY <2>1, <2>2, <2>3, ThreadOK
<1>7. \A r \in recs : r \in Recovery /\ RecOK(r, tracker')
  BY <1>3 DEF IInv, TypeOK, RecOK, Recovery
<1>8. recs' \subseteq Recovery /\ \A r \in recs' : RecOK(r, tracker')
  BY <1>1, <1>6, <1>7
<1> HIDE DEF spawned
<1>9. TypeOK'
  BY <1>1, <1>4, <1>5, <1>8 DEF IInv, TypeOK
<1>10. Saved \subseteq Saved'
  BY <1>1, <1>3 DEF Saved, Coins
<1> QED BY <1>1, <1>5, <1>8, <1>9, <1>10, Unchanged, GrowStep
\* RecoverDiscards keeps the invariant.
LEMMA StepRecoverDiscards ==
  ASSUME IInv, NEW r \in recs, RecoverDiscards(r)
  PROVE  IInv'
<1> DEFINE q == [r EXCEPT !.pc = "discard"]
<1>1. /\ recs' = (recs \ {r}) \cup {q} /\ tracker[r.swap] = "unfunded"
      /\ UNCHANGED <<ongoing, conn, beat, walletIn, walletOut, tracker, watched, net, late, gens,
                     admitted, given>>
  BY DEF RecoverDiscards, table, disk, rest, history
<1>2. r \in Recovery /\ RecOK(r, tracker)
  BY DEF IInv, TypeOK
<1>3. q \in Recovery /\ q.swap = r.swap /\ q.out = r.out
  BY <1>2 DEF Recovery
<1>4. RecOK(q, tracker')
  BY <1>1, <1>2, <1>3 DEF RecOK
<1> HIDE DEF q
<1>5. TypeOK'
  BY <1>1, <1>3 DEF IInv, TypeOK
<1>6. Saved' = Saved
  BY <1>1 DEF Saved
<1>7. \A p \in recs' : RecOK(p, tracker')
  BY <1>1, <1>4 DEF IInv
<1> QED BY <1>1, <1>5, <1>6, <1>7, Unchanged, GrowStep

\* RecoverMonitors keeps the invariant.
LEMMA StepRecoverMonitors ==
  ASSUME IInv, NEW r \in recs, RecoverMonitors(r)
  PROVE  IInv'
<1>1. /\ recs' = recs \ {r} /\ watched' = watched \cup {r.swap}
      /\ UNCHANGED <<ongoing, conn, beat, walletIn, walletOut, tracker, net, late, gens,
                     admitted, given>>
  BY DEF RecoverMonitors, table, disk, rest, history
<1>2. r.swap \in Swaps
  BY DEF IInv, TypeOK, Recovery
<1>3. TypeOK'
  BY <1>1, <1>2 DEF IInv, TypeOK
<1>4. Saved' = Saved
  BY <1>1 DEF Saved
<1>5. \A p \in recs' : RecOK(p, tracker')
  BY <1>1 DEF IInv
<1> QED BY <1>1, <1>3, <1>4, <1>5, Unchanged, GrowStep

\* A thread removes only contracts of its own swap, whose record it has seen.
LEMMA StepDiscardSwapcoins ==
  ASSUME IInv, NEW r \in recs, DiscardSwapcoins(r)
  PROVE  IInv'
<1>1. /\ walletOut' = walletOut \ r.out /\ recs' = recs \ {r} /\ r.pc = "discard"
      /\ UNCHANGED <<ongoing, conn, beat, tracker, watched, net, late, gens, admitted, given>>
  BY DEF DiscardSwapcoins, table, rest, history
<1>2. r \in Recovery /\ RecOK(r, tracker)
  BY DEF IInv, TypeOK
<1>3. walletIn' \in [Swaps -> {"absent", "plain", "keyed"}]
  BY <1>2, Unchanged DEF DiscardSwapcoins, Recovery
<1>4. TypeOK'
  BY <1>1, <1>3 DEF IInv, TypeOK
<1>5. Saved \subseteq Saved'
  BY <1>1, <1>2 DEF Saved, RecOK
<1>6. \A p \in recs' : RecOK(p, tracker')
  BY <1>1 DEF IInv
<1> QED BY <1>1, <1>4, <1>5, <1>6, Unchanged, GrowStep

\* GoQuiet keeps the invariant.
LEMMA StepGoQuiet ==
  ASSUME IInv, NEW s \in Swaps, GoQuiet(s)
  PROVE  IInv'
<1> DEFINE e == [ongoing[s] EXCEPT !.fresh = FALSE]
<1>1. /\ ongoing' = [ongoing EXCEPT ![s] = e] /\ ongoing[s] # None
      /\ UNCHANGED <<conn, beat, walletIn, walletOut, tracker, recs, watched, net, late, gens,
                     admitted, given>>
  BY DEF GoQuiet, disk, threads, rest, history
<1>2. ongoing[s] \in Entry /\ EntryOK(ongoing[s], s, admitted)
  BY <1>1, Types DEF IInv
<1>3. e \in Entry /\ e.cs = ongoing[s].cs
  BY <1>2 DEF Entry
<1>4. EntryOK(e, s, admitted')
  BY <1>1, <1>2, <1>3 DEF EntryOK
<1> HIDE DEF e
<1>5. /\ ongoing' \in [Swaps -> Entry \cup {None}]
      /\ \A t \in Swaps : ongoing'[t] = ongoing[t] \/ EntryOK(ongoing'[t], t, admitted')
  BY <1>1, <1>3, <1>4, Unchanged
<1>6. TypeOK'
  BY <1>1, <1>5 DEF IInv, TypeOK
<1>7. Saved' = Saved
  BY <1>1 DEF Saved
<1>8. \A r \in recs' : RecOK(r, tracker')
  BY <1>1 DEF IInv
<1> QED BY <1>1, <1>5, <1>6, <1>7, <1>8, Unchanged, GrowStep

\* DeadlinePasses keeps the invariant.
LEMMA StepDeadlinePasses ==
  ASSUME IInv, NEW s \in Swaps, DeadlinePasses(s)
  PROVE  IInv'
<1>1. /\ late' = late \cup {s}
      /\ UNCHANGED <<ongoing, conn, beat, walletIn, walletOut, tracker, recs, watched, net, gens,
                     admitted, given>>
  BY DEF DeadlinePasses, table, disk, threads, history
<1>2. TypeOK'
  BY <1>1 DEF IInv, TypeOK
<1>3. Saved' = Saved
  BY <1>1 DEF Saved
<1>4. \A r \in recs' : RecOK(r, tracker')
  BY <1>1 DEF IInv
<1> QED BY <1>1, <1>2, <1>3, <1>4, Unchanged, GrowStep

\* Memory starts empty, and what the disk yields are well-formed recovery threads.
LEMMA StepRestart ==
  ASSUME IInv, Restart
  PROVE  IInv'
<1>1. /\ ongoing' = [s \in Swaps |-> None] /\ conn' = [c \in Conns |-> Fresh]
      /\ beat' = [b \in Beats |-> None] /\ recs' = Unfinished /\ watched' = {}
      /\ UNCHANGED <<walletIn, walletOut, tracker, net, late, gens, admitted, given>>
  BY DEF Restart, disk, rest, history
<1>2. \A r \in Unfinished : r \in Recovery /\ RecOK(r, tracker')
  <2> SUFFICES ASSUME NEW s \in Swaps
               PROVE  LET r == Thread(s, walletIn[s] = "plain", {k \in walletOut : k.swap = s})
                      IN  r \in Recovery /\ RecOK(r, tracker')
    BY DEF Unfinished
  <2>1. (walletIn[s] = "plain") \in BOOLEAN
    OBVIOUS
  <2>2. {k \in walletOut : k.swap = s} \in SUBSET Coins
    BY Unchanged
  <2>3. \A k \in {q \in walletOut : q.swap = s} : k.swap = s
    OBVIOUS
  <2> QED BY <2>1, <2>2, <2>3, ThreadOK
<1>3. \A c \in Conns : conn'[c] \in ConnType /\ ConnOK(conn'[c], admitted', Saved')
  BY <1>1, FreshOK
<1>4. TypeOK'
  <2>1. conn' \in [Conns -> ConnType]
    BY <1>1, <1>3
  <2>2. recs' \subseteq Recovery
    BY <1>1, <1>2
  <2> QED BY <1>1, <2>1, <2>2 DEF IInv, TypeOK, ConnType
<1>5. Saved' = Saved
  BY <1>1 DEF Saved
<1>6. \A s \in Swaps : EntryOK(ongoing'[s], s, admitted')
  BY <1>1 DEF EntryOK
<1>7. \A b \in Beats : BeatOK(beat'[b], admitted')
  BY <1>1 DEF BeatOK
<1>8. \A r \in recs' : RecOK(r, tracker')
  BY <1>1, <1>2
<1> QED BY <1>1, <1>3, <1>4, <1>5, <1>6, <1>7, <1>8, Unchanged, GrowStep
-----------------------------------------------------------------------------
(* The theorems *)

\* Every step keeps the invariant.
LEMMA StepIInv == IInv /\ [Next]_vars => IInv'
<1> SUFFICES ASSUME IInv, [Next]_vars PROVE IInv'
  OBVIOUS
<1>1. ASSUME NEW c \in Conns, Handler(c) PROVE IInv'
  BY <1>1, StepClose, StepGreet, StepAdmit, StepRejectAdmission, StepBuildLegacy,
     StepBuildLegacyFails, StepBuildTaproot, StepSaveIncoming, StepSaveOutgoing, StepBroadcast, StepStoreState,
     StepSendPrivkeys, StepRemoveCompleted, StepSweepSettles, StepSweepFails DEF Handler
<1>2. ASSUME NEW c \in Conns, NEW s \in Swaps, Message(c, s) PROVE IInv'
  BY <1>2, StepSwapDetails, StepMessage, StepPrivateKeyHandover DEF Message, LegacyHandover,
     TaprootHandover
<1>3. ASSUME NEW r \in recs, Recover(r) PROVE IInv'
  BY <1>3, StepRecoverDiscards, StepRecoverMonitors, StepDiscardSwapcoins DEF Recover
<1>4. CASE UNCHANGED vars
  <2>1. UNCHANGED <<ongoing, conn, beat, walletIn, walletOut, tracker, recs, watched, net, late,
                    gens, admitted, given>>
    BY <1>4 DEF vars, table, disk, threads, rest, history
  <2>2. TypeOK'
    BY <2>1 DEF IInv, TypeOK
  <2>3. Saved' = Saved
    BY <2>1 DEF Saved
  <2>4. \A r \in recs' : RecOK(r, tracker')
    BY <2>1 DEF IInv
  <2> QED BY <2>1, <2>2, <2>3, <2>4, Unchanged, GrowStep
<1> QED BY <1>1, <1>2, <1>3, <1>4, StepBeatRead, StepBeatStore, StepDrainIdle, StepGoQuiet,
           StepDeadlinePasses, StepRestart DEF Next

\* The invariant implies the four safety properties.
LEMMA IInvImplies == IInv => TypeOK /\ EntryReclaimable /\ FundedOnDisk /\ OnlyAdmittedFunded
<1> SUFFICES ASSUME IInv PROVE TypeOK /\ EntryReclaimable /\ FundedOnDisk /\ OnlyAdmittedFunded
  OBVIOUS
<1>1. EntryReclaimable
  BY DEF IInv, EntryOK, WellFormed, Plain, EntryReclaimable
<1>2. FundedOnDisk
  BY DEF IInv, Saved, FundedOnDisk
<1> QED BY <1>1, <1>2 DEF IInv

\* The invariant holds in every reachable state.
LEMMA AlwaysIInv == Spec => []IInv
BY InitIInv, StepIInv, PTL DEF Spec

\* Every variable keeps its type, however many swaps, connections, keepalives and
\* contracts there are; no handler saves or broadcasts a contract its set lacks.
THEOREM TypeCorrect == Spec => []TypeOK
BY AlwaysIInv, IInvImplies, PTL

\* drain_idle_swaps can reclaim every entry of ongoing_swaps: the entries the handlers
\* and keepalives write are bare reservations or hold outgoing contracts.
THEOREM AlwaysReclaimable == Spec => []EntryReclaimable
BY AlwaysIInv, IInvImplies, PTL

\* The funding a handler has broadcast is backed by swapcoins in the wallet file, across
\* crashes at any point, until a recovery thread has worked on a record of the swap.
THEOREM AlwaysFundedOnDisk == Spec => []FundedOnDisk
BY AlwaysIInv, IInvImplies, PTL

\* The handlers fund only swaps that store_connection_state admitted.
THEOREM AlwaysOnlyAdmittedFunded == Spec => []OnlyAdmittedFunded
BY AlwaysIInv, IInvImplies, PTL
=============================================================================
